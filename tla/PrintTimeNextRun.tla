-------------------------- MODULE PrintTimeNextRun --------------------------
(***************************************************************************)
(* For which entries printTime keeps the promise of NextRun.               *)
(***************************************************************************)
EXTENDS PrintTime

(* The date after t, and t with an hour beyond the day carried into it:    *)
(* what ptime(date, duration) makes of tm_then.                            *)
DayAfter(t) ==
  IF t.mday < DaysIn(t.year, t.mon) THEN [t EXCEPT !.mday = @ + 1]
  ELSE IF t.mon + 1 < MONTH_COUNT THEN [t EXCEPT !.mon = @ + 1, !.mday = FIRST_DOM]
  ELSE [t EXCEPT !.year = @ + 1, !.mon = 0, !.mday = FIRST_DOM]

Normal(t) ==
  IF t.hour > LAST_HOUR THEN DayAfter([t EXCEPT !.hour = @ - HOUR_COUNT]) ELSE t

(* The times there are. *)
Calendar ==
  {t \in [year : 0..YEAR_CAP, mon : 0..(MONTH_COUNT - 1), mday : FIRST_DOM..LAST_DOM,
          hour : 0..LAST_HOUR, min : 0..LAST_MINUTE] : InCalendar(t)}

-----------------------------------------------------------------------------
EachDay(n) == n.dom = 0..(DOM_COUNT - 1) /\ "DOM_STAR" \in n.flags

EachMonth(n) == n.month = 0..(MONTH_COUNT - 1) /\ "MON_STAR" \in n.flags

(* * in the hours and a list, or *, in the minutes. *)
EveryHour(n) ==
  /\ n.hour = 0..LAST_HOUR /\ "HR_STAR" \in n.flags
  /\ n.minute \subseteq 0..LAST_MINUTE /\ n.minute # {}
  /\ "MIN_STAR" \in n.flags => n.minute = 0..LAST_MINUTE

(* One minute of any list of hours. *)
OneMinute(n) ==
  /\ "HR_STAR" \notin n.flags /\ "MIN_STAR" \notin n.flags
  /\ \E m \in n.minute : n.minute = {m}

(* The lines "M * * * *" and "m H * * *". *)
Simple(n) == EachDay(n) /\ EachMonth(n) /\ (EveryHour(n) \/ OneMinute(n))

(* The entries are such lines, and the calendar has months, each with its  *)
(* days.                                                                   *)
ASSUME NextRunInputs ==
  /\ \A n \in Entries : Simple(n)
  /\ MONTH_COUNT > 1
  /\ \A y \in 0..YEAR_CAP, m \in 0..(MONTH_COUNT - 1) : DaysIn(y, m) \in FIRST_DOM..LAST_DOM

-----------------------------------------------------------------------------
None == [answer |-> "none"]

Refused == [answer |-> "refused"]

Promise == INSTANCE NextRun WITH
  job <- e,
  asked <- start,
  answer <- CASE outcome = "printed" -> Normal(then)
              [] outcome = "none" -> None
              [] OTHER -> Refused

(* For "M * * * *" and "m H * * *" printTime answers with the earliest     *)
(* matching time, rolling over hours and days as needed; it can fail only  *)
(* when that time lies in the next month.                                  *)
KeepsPromise == Promise!Safety

(* For these entries printTime always answers: no order of carries brings  *)
(* it back to a place where it has been.                                   *)
AlwaysAnswers == Promise!Liveness
=============================================================================
