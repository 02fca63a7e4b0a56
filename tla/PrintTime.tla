------------------------------ MODULE PrintTime ------------------------------
(***************************************************************************)
(* crontabs::printTime: find the next time at which an entry runs.         *)
(*                                                                         *)
(* The routine works on three copies of the broken-down local time: now,   *)
(* the place the search has reached; then, the answer it builds; start,    *)
(* the clock when it was called.  It settles month, day, hour and minute   *)
(* in turn.  A field that has no further value moves now on by one unit of *)
(* the next larger field and jumps back to the label restartm.             *)
(*                                                                         *)
(* As in struct tm, months count from 0 and days from 1; so bit i of       *)
(* e.month is the month i, and bit i of e.dom is the day i + 1.            *)
(***************************************************************************)
EXTENDS CronEntry

CONSTANTS
  Entries,       \* the entries a run starts from
  Clocks,        \* the local times a run starts at
  YEAR_CAP,      \* years from here on are not counted
  DaysIn(_, _)   \* DaysIn(year, mon): the days of a month

Entry == [minute : SUBSET Nat, hour : SUBSET Nat, dom : SUBSET Nat,
          month : SUBSET Nat, dow : SUBSET Nat, flags : SUBSET Flags]

(* A local time that the clock can show. *)
IsClock(t) ==
  /\ t \in [year : Nat, mon : Nat, mday : Nat, hour : Nat, min : Nat]
  /\ t.year < YEAR_CAP
  /\ t.mon < MONTH_COUNT
  /\ t.mday >= FIRST_DOM /\ t.mday <= DaysIn(t.year, t.mon)
  /\ t.hour <= LAST_HOUR
  /\ t.min <= LAST_MINUTE

ASSUME PrintTimeInputs ==
  /\ YEAR_CAP \in Nat
  /\ Entries \subseteq Entry
  /\ \A t \in Clocks : IsClock(t)

VARIABLES
  e,        \* the entry; printTime only reads it
  start,    \* tm_start
  now,      \* tm_now
  then,     \* tm_then
  pc,       \* where the routine is
  outcome   \* how it ended

vars == <<e, start, now, then, pc, outcome>>

Init ==
  /\ e \in Entries
  /\ start \in Clocks
  /\ now = start
  /\ then = start
  /\ pc = "month"
  /\ outcome = "none"

(***************************************************************************)
(* One scan of a field: the first set bit from i on, up to last.           *)
(***************************************************************************)
Hits(bits, i, last) == {j \in bits : i <= j /\ j <= last}

First(S) == CHOOSE i \in S : \A j \in S : i <= j

(* Jump back to restartm, or give up when the routine's own test says so. *)
Restart(giveUp) ==
  /\ pc' = IF giveUp THEN "done" ELSE "restartm"
  /\ outcome' = IF giveUp THEN "gaveUp" ELSE outcome

(* Where the search goes on from, in the year that now never leaves. *)
MoveTo(mon, mday, hr, min) ==
  [year |-> now.year, mon |-> mon, mday |-> mday, hour |-> hr, min |-> min]

Proceed(to) == pc' = to /\ UNCHANGED outcome

(***************************************************************************)
(* Month.  MON_STAR is looked at only on the way in: restartm lies behind  *)
(* that test, so a restarted search scans the month bits.                  *)
(***************************************************************************)
MonthStar ==
  /\ pc = "month" /\ "MON_STAR" \in e.flags
  /\ then' = [then EXCEPT !.mon = now.mon]
  /\ Proceed("dom")
  /\ UNCHANGED <<e, start, now>>

AtMonthScan ==
  pc = "restartm" \/ (pc = "month" /\ "MON_STAR" \notin e.flags)

MonthFound ==
  /\ AtMonthScan
  /\ Hits(e.month, now.mon, LAST_MONTH) # {}
  /\ then' = [then EXCEPT !.mon = now.mon]
  /\ Proceed("dom")
  /\ UNCHANGED <<e, start, now>>

(* Beyond YEAR_CAP two years alternate, so that one more turn of the       *)
(* search is still a step.                                                 *)
NextYear(y) == IF y <= YEAR_CAP THEN y + 1 ELSE y - 1

(* Slips: the year of the answer is not moved on; the place is not reset. *)
MonthMissingSameYear ==
  /\ AtMonthScan
  /\ Hits(e.month, now.mon, LAST_MONTH) = {}
  /\ now' = MoveTo(FIRST_MONTH, FIRST_DOM, FIRST_HOUR, FIRST_MINUTE)
  /\ Restart(FALSE)
  /\ UNCHANGED <<e, start, then>>

MonthMissingSamePlace ==
  /\ AtMonthScan
  /\ Hits(e.month, now.mon, LAST_MONTH) = {}
  /\ then' = [then EXCEPT !.year = NextYear(@)]
  /\ Restart(FALSE)
  /\ UNCHANGED <<e, start, now>>

MonthMissing ==
  /\ AtMonthScan
  /\ Hits(e.month, now.mon, LAST_MONTH) = {}
  /\ then' = [then EXCEPT !.year = NextYear(@)]
  /\ now' = MoveTo(FIRST_MONTH, FIRST_DOM, FIRST_HOUR, FIRST_MINUTE)
  /\ Restart(start.year + 1 < now'.year)
  /\ UNCHANGED <<e, start>>

(***************************************************************************)
(* Day of the month.  The scan starts at bit mday, the day after mday.     *)
(***************************************************************************)
DomStar ==
  /\ pc = "dom" /\ "DOM_STAR" \in e.flags
  /\ then' = [then EXCEPT !.mday = now.mday]
  /\ Proceed("hour")
  /\ UNCHANGED <<e, start, now>>

AtDomScan == pc = "dom" /\ "DOM_STAR" \notin e.flags

(* Slip: the bit is taken for the day. *)
DomFoundUnshifted ==
  /\ AtDomScan
  /\ LET hits == Hits(e.dom, now.mday, LAST_DOM)
     IN  hits # {} /\ then' = [then EXCEPT !.mday = First(hits)]
  /\ Proceed("hour")
  /\ UNCHANGED <<e, start, now>>

DomFound ==
  /\ AtDomScan
  /\ LET hits == Hits(e.dom, now.mday, LAST_DOM)
     IN  hits # {} /\ then' = [then EXCEPT !.mday = First(hits) + 1]
  /\ Proceed("hour")
  /\ UNCHANGED <<e, start, now>>

(* Slip: giving up twelve months on, not behind them. *)
DomMissingTooEarly ==
  /\ AtDomScan
  /\ Hits(e.dom, now.mday, LAST_DOM) = {}
  /\ now' = MoveTo(now.mon + 1, FIRST_DOM, FIRST_HOUR, FIRST_MINUTE)
  /\ Restart(start.mon + MONTH_COUNT <= now'.mon)
  /\ UNCHANGED <<e, start, then>>

DomMissing ==
  /\ AtDomScan
  /\ Hits(e.dom, now.mday, LAST_DOM) = {}
  /\ now' = MoveTo(now.mon + 1, FIRST_DOM, FIRST_HOUR, FIRST_MINUTE)
  /\ Restart(start.mon + MONTH_COUNT < now'.mon)
  /\ UNCHANGED <<e, start, then>>

(***************************************************************************)
(* Hour.                                                                   *)
(***************************************************************************)
HourStar ==
  /\ pc = "hour" /\ "HR_STAR" \in e.flags
  /\ then' = [then EXCEPT !.hour = now.hour]
  /\ Proceed("min")
  /\ UNCHANGED <<e, start, now>>

AtHourScan == pc = "hour" /\ "HR_STAR" \notin e.flags

(* Slip: the scan begins at midnight. *)
HourFoundFromMidnight ==
  /\ AtHourScan
  /\ Hits(e.hour, now.hour, LAST_HOUR) # {}
  /\ then' = [then EXCEPT !.hour = First(Hits(e.hour, FIRST_HOUR, LAST_HOUR))]
  /\ Proceed("min")
  /\ UNCHANGED <<e, start, now>>

HourFound ==
  /\ AtHourScan
  /\ LET hits == Hits(e.hour, now.hour, LAST_HOUR)
     IN  hits # {} /\ then' = [then EXCEPT !.hour = First(hits)]
  /\ Proceed("min")
  /\ UNCHANGED <<e, start, now>>

(* Slip: the place stays where it is. *)
HourMissingSamePlace ==
  /\ AtHourScan
  /\ Hits(e.hour, now.hour, LAST_HOUR) = {}
  /\ Restart(FALSE)
  /\ UNCHANGED <<e, start, now, then>>

HourMissing ==
  /\ AtHourScan
  /\ Hits(e.hour, now.hour, LAST_HOUR) = {}
  /\ now' = MoveTo(now.mon, now.mday + 1, FIRST_HOUR, FIRST_MINUTE)
  /\ Restart(start.hour + HOUR_COUNT < now'.hour)
  /\ UNCHANGED <<e, start, then>>

(***************************************************************************)
(* Minute.                                                                 *)
(***************************************************************************)
MinStar ==
  /\ pc = "min" /\ "MIN_STAR" \in e.flags
  /\ then' = [then EXCEPT !.min = now.min]
  /\ Proceed("print")
  /\ UNCHANGED <<e, start, now>>

AtMinScan == pc = "min" /\ "MIN_STAR" \notin e.flags

MinFound ==
  /\ AtMinScan
  /\ LET hits == Hits(e.minute, now.min, LAST_MINUTE)
     IN  hits # {} /\ then' = [then EXCEPT !.min = First(hits)]
  /\ Proceed("print")
  /\ UNCHANGED <<e, start, now>>

(* Slip: the minute starts again in the same hour. *)
MinMissingSameHour ==
  /\ AtMinScan
  /\ Hits(e.minute, now.min, LAST_MINUTE) = {}
  /\ now' = MoveTo(now.mon, now.mday, now.hour, FIRST_MINUTE)
  /\ Restart(FALSE)
  /\ UNCHANGED <<e, start, then>>

MinMissing ==
  /\ AtMinScan
  /\ Hits(e.minute, now.min, LAST_MINUTE) = {}
  /\ now' = MoveTo(now.mon, now.mday, now.hour + 1, FIRST_MINUTE)
  /\ Restart(start.min + MINUTE_COUNT < now'.min)
  /\ UNCHANGED <<e, start, then>>

(***************************************************************************)
(* The answer goes through ptime_from_tm, which refuses a date that is not *)
(* in the calendar by throwing; the exception leaves printTime.  It does   *)
(* accept an hour past the last one, as a duration added to the date.      *)
(***************************************************************************)
InCalendar(t) == t.mon < MONTH_COUNT /\ t.mday <= DaysIn(t.year, t.mon)

(* Slip: the exception is swallowed and nothing says so. *)
AnnounceSilently ==
  /\ pc = "print"
  /\ outcome' = IF InCalendar(then) THEN "printed" ELSE outcome
  /\ pc' = "done"
  /\ UNCHANGED <<e, start, now, then>>

Announce ==
  /\ pc = "print"
  /\ outcome' = IF InCalendar(then) THEN "printed" ELSE "threw"
  /\ pc' = "done"
  /\ UNCHANGED <<e, start, now, then>>

Next ==
  \/ MonthStar \/ MonthFound \/ MonthMissing
  \/ DomStar \/ DomFound \/ DomMissing
  \/ HourStar \/ HourFound \/ HourMissing
  \/ MinStar \/ MinFound \/ MinMissing
  \/ Announce

(* A single thread runs the routine to its end. *)
Spec == Init /\ [][Next]_vars /\ WF_vars(Next)

-----------------------------------------------------------------------------
Tm == [year : Nat, mon : Nat, mday : Nat, hour : Nat, min : Nat]

(* Type invariant: the three times stay broken-down times, the entry and   *)
(* the start are among the inputs, and the routine has an outcome exactly  *)
(* when it has ended.                                                      *)
TypeOK ==
  /\ e \in Entries
  /\ start \in Clocks
  /\ now \in Tm
  /\ then \in Tm
  /\ pc \in {"month", "restartm", "dom", "hour", "min", "print", "done"}
  /\ outcome \in {"none", "printed", "gaveUp", "threw"}
  /\ pc = "done" <=> outcome # "none"

Printed == outcome = "printed"

(* A star flag, or a set bit. *)
Selected(flag, bits, i) == flag \in e.flags \/ i \in bits

(* The printed day, hour and minute are ones the entry selects.  The       *)
(* search restarts many times, and each field of the answer may be left    *)
(* over from an earlier round; none that is printed is.                    *)
PrintedSelected ==
  Printed => /\ Selected("DOM_STAR", e.dom, then.mday - 1)
             /\ Selected("HR_STAR", e.hour, then.hour)
             /\ Selected("MIN_STAR", e.minute, then.min)

(* t is not before s, compared field by field from the month down, and     *)
(* from the year down.                                                     *)
NotEarlierInYear(t, s) ==
  \/ t.mon > s.mon
  \/ /\ t.mon = s.mon
     /\ \/ t.mday > s.mday
        \/ /\ t.mday = s.mday
           /\ \/ t.hour > s.hour
              \/ t.hour = s.hour /\ t.min >= s.min

NotBefore(t, s) ==
  t.year > s.year \/ (t.year = s.year /\ NotEarlierInYear(t, s))

(* The next run that printTime announces never lies before the clock it    *)
(* was computed from, whatever was carried from field to field.            *)
NotInPast == Printed => NotBefore(then, start)

(***************************************************************************)
(* Why both hold.  While the search runs, the place it has reached does    *)
(* not lie before the start: a carry moves one field on and resets the     *)
(* smaller ones, and the reset of the month is paid for by the year of the *)
(* answer.  A field of the answer is settled from the step that assigns it *)
(* until the next jump to restartm, and a settled field is selected and    *)
(* not below the field of the place.                                       *)
(***************************************************************************)
Ahead ==
  then.year > start.year \/ (then.year = start.year /\ NotEarlierInYear(now, start))

(* The routine has passed the part that settles a field, and is at a step  *)
(* among those or has ended with an answer.                                *)
Settled(steps) == pc \in steps \/ outcome \in {"printed", "threw"}

MonthSettled ==
  Settled({"dom", "hour", "min", "print"}) => then.mon = now.mon

DomSettled ==
  Settled({"hour", "min", "print"}) =>
    then.mday >= now.mday /\ Selected("DOM_STAR", e.dom, then.mday - 1)

HourSettled ==
  Settled({"min", "print"}) =>
    then.hour >= now.hour /\ Selected("HR_STAR", e.hour, then.hour)

MinSettled ==
  Settled({"print"}) =>
    then.min >= now.min /\ Selected("MIN_STAR", e.minute, then.min)

(* The inductive invariant of the search: the place reached is not before  *)
(* the start, and what is settled is selected and not below the place.     *)
SearchInv ==
  Ahead /\ MonthSettled /\ DomSettled /\ HourSettled /\ MinSettled

(* The entry leaves every restarted scan something to find: a month other  *)
(* than the first, a day other than the first, an hour and a minute.       *)
Schedulable ==
  /\ Hits(e.month, FIRST_MONTH, LAST_MONTH) # {}
  /\ "DOM_STAR" \in e.flags \/ Hits(e.dom, FIRST_DOM, LAST_DOM) # {}
  /\ "HR_STAR" \in e.flags \/ Hits(e.hour, FIRST_HOUR, LAST_HOUR) # {}
  /\ "MIN_STAR" \in e.flags \/ Hits(e.minute, FIRST_MINUTE, LAST_MINUTE) # {}

(* For such an entry the search reaches the end of the routine. *)
EndsWhenSchedulable == Schedulable ~> pc = "done"

(* For such an entry the search never runs into a second new year, and it  *)
(* never gives up.                                                         *)
WithinAYear == Schedulable => then.year <= start.year + 1 /\ outcome # "gaveUp"

(***************************************************************************)
(* Why this holds.  Once the search has left the month it began in, it     *)
(* stands at the beginning of a month, from where no scan of a day, an     *)
(* hour or a minute comes back empty: it cannot leave a second month.  A   *)
(* new year begins at FIRST_MONTH, from where the scan of the month does   *)
(* not come back empty either.                                             *)
(***************************************************************************)
LeftMonth == now.mon # start.mon \/ then.year # start.year

AtMonthBegin ==
  now.mday = FIRST_DOM /\ now.hour = FIRST_HOUR /\ now.min = FIRST_MINUTE

OneNewYear ==
  \/ then.year = start.year
  \/ then.year = start.year + 1 /\ now.mon = FIRST_MONTH

(* The inductive invariant of a search for such an entry. *)
YearInv ==
  Schedulable => /\ now.year = start.year
                 /\ now.mon <= start.mon + 1
                 /\ OneNewYear
                 /\ LeftMonth => AtMonthBegin
                 /\ outcome # "gaveUp"

-----------------------------------------------------------------------------
(* Of the four tests that give up, three never succeed, and the one of the *)
(* day succeeds only for a search that began in the first month and went   *)
(* through all the others to the bit behind the last: an entry that does   *)
(* not have that bit ("@monthly" does) is never given up.                  *)
GivesUpBehindYear ==
  outcome = "gaveUp" => start.mon = 0 /\ MONTH_COUNT \in e.month
=============================================================================
