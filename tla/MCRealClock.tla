----------------------------- MODULE MCRealClock -----------------------------
(***************************************************************************)
(* printTime on the real calendar, for entries that an administrator       *)
(* writes: what crontab(5) and the routine itself say of their next run,   *)
(* against what the routine does.                                          *)
(***************************************************************************)
EXTENDS PrintTime, Nicknames

Nicked(w) == EntryView(Nickname(w).mem, Nickname(w).flags)

(* The line "* * * * *", other fields of which are then restricted. *)
Always == [minute |-> 0..59, hour |-> 0..23, dom |-> 0..30, month |-> 0..11,
           dow |-> 0..7,
           flags |-> {"MIN_STAR", "HR_STAR", "DOM_STAR", "MON_STAR", "DOW_STAR"}]

(* "@yearly" *)
Yearly == {Nicked("yearly")}

(* "@hourly" *)
Hourly == {Nicked("hourly")}

(* "0 */2 * 7 *": every other hour of the days of July. *)
InJuly == {[Always EXCEPT !.minute = {0}, !.hour = {h \in 0..23 : h % 2 = 0}, !.month = {6},
                          !.flags = {"HR_STAR", "DOM_STAR", "DOW_STAR"}]}

(* Two hours of the first, a middle and the last days of every month. *)
RealClocks ==
  {t \in [year : {1}, mon : 0..11, mday : {1, 15, 28, 30, 31}, hour : {9, 10}, min : {0}] :
     IsClock(t)}

MidJanuary == {[year |-> 1, mon |-> 0, mday |-> 15, hour |-> 9, min |-> 0]}
EndOfJanuary == {[year |-> 1, mon |-> 0, mday |-> 31, hour |-> 9, min |-> 10]}

-----------------------------------------------------------------------------
(* "Didnt get a valid Month": a search that finds no month gives up, so    *)
(* printTime always ends.                                                  *)
Ends == <>(pc = "done")

(* "Commands are executed when the minute, hour, and month of the year     *)
(* fields match", "you can use */2": a printed time is in a month and in   *)
(* an hour that the entry selects.                                         *)
FieldsMatch == Printed => then.mon \in e.month /\ then.hour \in e.hour

(* "@hourly: Run once an hour": a job that still has to run today gets its *)
(* next run, and gets it today.                                            *)
DueToday ==
  /\ start.mon \in e.month /\ start.mday - 1 \in e.dom
  /\ \E h \in e.hour \cap 0..LAST_HOUR, m \in e.minute \cap 0..LAST_MINUTE :
       h > start.hour \/ (h = start.hour /\ m >= start.min)

RunsToday ==
  pc = "done" /\ DueToday => Printed /\ then.mon = start.mon /\ then.mday = start.mday
=============================================================================
