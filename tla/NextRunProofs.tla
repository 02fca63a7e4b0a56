---------------------------- MODULE NextRunProofs ----------------------------
(***************************************************************************)
(* printTime implements NextRun for the lines "M * * * *" and "m H * * *", *)
(* for every calendar, field bounds and clock: its answer is the earliest  *)
(* matching time, and it fails only when that lies in another month.       *)
(***************************************************************************)
EXTENDS PrintTimeNextRun, PrintTimeProofs

(* The scan of a field finds the first of the bits it passes. *)
LEMMA LeastHit ==
  ASSUME NEW bits \in SUBSET Nat, NEW i \in Nat, NEW last \in Nat,
         Hits(bits, i, last) # {}
  PROVE  \A j \in bits : i <= j /\ j <= last => First(Hits(bits, i, last)) <= j
<1> DEFINE H == Hits(bits, i, last)
<1>1. H \in SUBSET Nat /\ H # {}
  BY DEF Hits
<1>2. \E m \in H : \A n \in H : m <= n
  <2> HIDE DEF H
  <2> QED BY <1>1, LeastNatural
<1>3. \A n \in H : First(H) <= n
  <2> HIDE DEF H
  <2> QED BY <1>2 DEF First
<1> QED BY <1>3 DEF Hits

-----------------------------------------------------------------------------
(***************************************************************************)
(* The order of times, and the day after.                                  *)
(***************************************************************************)
LEMMA InCalendarTm ==
  ASSUME NEW t \in Calendar
  PROVE  /\ t \in Tm /\ t.year <= YEAR_CAP /\ t.mon < MONTH_COUNT
         /\ FIRST_DOM <= t.mday /\ t.mday <= LAST_DOM /\ t.mday <= DaysIn(t.year, t.mon)
         /\ t.hour <= LAST_HOUR /\ t.min <= LAST_MINUTE
BY FieldBounds, PrintTimeInputs
   DEF Calendar, Tm, InCalendar, MONTH_COUNT, FIRST_MONTH, FIRST_DOM

LEMMA SameTime ==
  ASSUME NEW t \in Tm, NEW u \in Tm, NotBefore(t, u), NotBefore(u, t)
  PROVE  t = u
<1>1. /\ t.year = u.year /\ t.mon = u.mon /\ t.mday = u.mday
      /\ t.hour = u.hour /\ t.min = u.min
  BY DEF NotBefore, NotEarlierInYear, Tm
<1> QED BY <1>1 DEF Tm

(* A matching time that is not after any other is the one NextRun chooses. *)
LEMMA EarliestIs ==
  ASSUME NEW S \in SUBSET Calendar, NEW t \in S, \A u \in S : NotBefore(u, t)
  PROVE  Promise!Earliest(S) = t
<1> DEFINE c == Promise!Earliest(S)
<1>1. c \in S /\ \A u \in S : NotBefore(u, c)
  BY DEF Promise!Earliest
<1>2. c \in Tm /\ t \in Tm
  BY <1>1, InCalendarTm
<1> QED BY <1>1, <1>2, SameTime

(***************************************************************************)
(* The day after a day of the calendar is in the calendar, and no time of  *)
(* a later day is before its first minute that counts.                     *)
(***************************************************************************)
LaterDay(u, t) ==
  \/ u.year > t.year
  \/ u.year = t.year /\ u.mon > t.mon
  \/ u.year = t.year /\ u.mon = t.mon /\ u.mday > t.mday

LEMMA DayAfterIs ==
  ASSUME NEW t \in Calendar, t.year < YEAR_CAP
  PROVE  /\ DayAfter(t) \in Calendar /\ LaterDay(DayAfter(t), t)
         /\ DayAfter(t).hour = t.hour /\ DayAfter(t).min = t.min
         /\ \A u \in Calendar : LaterDay(u, t) =>
              LaterDay(u, DayAfter(t)) \/ (/\ u.year = DayAfter(t).year
                                           /\ u.mon = DayAfter(t).mon
                                           /\ u.mday = DayAfter(t).mday)
<1>0. /\ LAST_MONTH \in Nat /\ LAST_DOM \in Nat /\ LAST_DOM >= 1 /\ LAST_MONTH >= 1
      /\ LAST_HOUR \in Nat /\ LAST_MINUTE \in Nat /\ YEAR_CAP \in Nat
      /\ MONTH_COUNT = LAST_MONTH /\ FIRST_DOM = 1
  BY FieldBounds, PrintTimeInputs DEF MONTH_COUNT, FIRST_MONTH, FIRST_DOM
<1>1. PICK d \in 1..LAST_DOM : d = DaysIn(t.year, t.mon) /\ t.mday <= d
  BY <1>0, InCalendarTm, NextRunInputs DEF Tm
<1>2. /\ t \in Tm /\ t.mon < MONTH_COUNT /\ 1 <= t.mday /\ t.mday <= LAST_DOM
      /\ t.hour <= LAST_HOUR /\ t.min <= LAST_MINUTE
  BY <1>0, InCalendarTm
<1>3. ASSUME NEW u \in Calendar
      PROVE  /\ u \in Tm /\ u.mon < MONTH_COUNT /\ 1 <= u.mday
             /\ u.year = t.year /\ u.mon = t.mon => u.mday <= d
  BY <1>0, <1>1, InCalendarTm
<1>4. CASE t.mday < d
  <2>1. DayAfter(t) = [t EXCEPT !.mday = @ + 1]
    BY <1>1, <1>4 DEF DayAfter
  <2>2. /\ DayAfter(t) \in Tm /\ DayAfter(t).year = t.year /\ DayAfter(t).mon = t.mon
        /\ DayAfter(t).mday = t.mday + 1
        /\ DayAfter(t).hour = t.hour /\ DayAfter(t).min = t.min
    BY <1>2, <2>1 DEF Tm
  <2>3. DayAfter(t) \in Calendar
    BY <1>0, <1>1, <1>2, <1>4, <2>2 DEF Calendar, Tm, InCalendar
  <2> QED BY <1>2, <1>3, <2>2, <2>3 DEF LaterDay, Tm
<1>5. CASE ~ (t.mday < d) /\ t.mon + 1 < MONTH_COUNT
  <2>1. DayAfter(t) = [t EXCEPT !.mon = @ + 1, !.mday = FIRST_DOM]
    BY <1>1, <1>5 DEF DayAfter
  <2>5. DayAfter(t) = [year |-> t.year, mon |-> t.mon + 1, mday |-> 1,
                       hour |-> t.hour, min |-> t.min]
    BY <1>0, <1>2, <2>1 DEF Tm
  <2>2. /\ DayAfter(t) \in Tm /\ DayAfter(t).year = t.year /\ DayAfter(t).mon = t.mon + 1
        /\ DayAfter(t).mday = 1
        /\ DayAfter(t).hour = t.hour /\ DayAfter(t).min = t.min
    BY <1>2, <2>5 DEF Tm
  <2>3. 1 <= DaysIn(t.year, t.mon + 1)
    BY <1>0, <1>2, <1>5, NextRunInputs, InCalendarTm DEF Tm
  <2>4. DayAfter(t) \in Calendar
    BY <1>0, <1>2, <1>5, <2>2, <2>3, InCalendarTm DEF Calendar, Tm, InCalendar
  <2> QED BY <1>1, <1>2, <1>3, <1>5, <2>2, <2>4 DEF LaterDay, Tm
<1>6. CASE ~ (t.mday < d) /\ ~ (t.mon + 1 < MONTH_COUNT)
  <2>1. DayAfter(t) = [t EXCEPT !.year = @ + 1, !.mon = 0, !.mday = FIRST_DOM]
    BY <1>1, <1>6 DEF DayAfter
  <2>5. DayAfter(t) = [year |-> t.year + 1, mon |-> 0, mday |-> 1,
                       hour |-> t.hour, min |-> t.min]
    BY <1>0, <1>2, <2>1 DEF Tm
  <2>2. /\ DayAfter(t) \in Tm /\ DayAfter(t).year = t.year + 1 /\ DayAfter(t).mon = 0
        /\ DayAfter(t).mday = 1
        /\ DayAfter(t).hour = t.hour /\ DayAfter(t).min = t.min
    BY <1>2, <2>5 DEF Tm
  <2>3. t.year + 1 \in 0..YEAR_CAP /\ 1 <= DaysIn(t.year + 1, 0)
    BY <1>0, <1>2, NextRunInputs DEF Tm
  <2>4. DayAfter(t) \in Calendar
    BY <1>0, <1>2, <2>2, <2>3 DEF Calendar, Tm, InCalendar
  <2> QED BY <1>0, <1>1, <1>2, <1>3, <1>6, <2>2, <2>4 DEF LaterDay, Tm
<1> QED BY <1>4, <1>5, <1>6

-----------------------------------------------------------------------------
(***************************************************************************)
(* The inductive invariant.  The place stays in its month; with * in the   *)
(* hours it stays on its day and passes one hour at most.  A field of the  *)
(* answer is the first value from the place on that is selected, and no    *)
(* matching time has been passed over.                                     *)
(***************************************************************************)
InMonth ==
  /\ now.year = start.year /\ now.mon = start.mon /\ then.year = start.year
  /\ now.mday >= start.mday /\ now.min <= LAST_MINUTE
  /\ EveryHour(e) =>
       /\ now.mday = start.mday
       /\ now.hour = start.hour \/ (now.hour = start.hour + 1 /\ now.min = FIRST_MINUTE)

DayTaken == pc \in {"hour", "min", "print"} => then.mday = now.mday

HourTaken ==
  pc \in {"min", "print"} =>
    IF "HR_STAR" \in e.flags THEN then.hour = now.hour
    ELSE /\ then.hour \in e.hour /\ now.hour <= then.hour /\ then.hour <= LAST_HOUR
         /\ \A h \in e.hour : now.hour <= h /\ h <= LAST_HOUR => then.hour <= h

MinTaken ==
  pc = "print" =>
    /\ then.min \in e.minute /\ now.min <= then.min /\ then.min <= LAST_MINUTE
    /\ \A m \in e.minute : now.min <= m /\ m <= LAST_MINUTE => then.min <= m

MonthTaken == pc \in {"dom", "hour", "min", "print"} => then.mon = now.mon

NothingSkipped == \A u \in Promise!Due(e, start) : NotBefore(u, now)

NextRunInv ==
  /\ InMonth /\ MonthTaken /\ DayTaken /\ HourTaken /\ MinTaken
  /\ NothingSkipped

(* The entry is a simple line, and the clock shows a time of the calendar. *)
LEMMA SimpleInputs ==
  ASSUME TypeOK
  PROVE  /\ LAST_MINUTE \in Nat /\ LAST_HOUR \in Nat /\ LAST_DOM \in Nat
         /\ LAST_MONTH \in Nat /\ MONTH_COUNT = LAST_MONTH /\ MONTH_COUNT > 1
         /\ e.hour \in SUBSET Nat /\ e.minute \in SUBSET Nat
         /\ Simple(e) /\ start \in Tm /\ now \in Tm /\ then \in Tm
         /\ start \in Calendar /\ start.year < YEAR_CAP
         /\ e.month = 0..(MONTH_COUNT - 1)
<1>1. Simple(e) /\ MONTH_COUNT > 1
  BY NextRunInputs DEF TypeOK
<1>2. IsClock(start)
  BY PrintTimeInputs DEF TypeOK
<1>3. MONTH_COUNT = LAST_MONTH
  BY FieldBounds DEF MONTH_COUNT, FIRST_MONTH
<1>4. DaysIn(start.year, start.mon) \in FIRST_DOM..LAST_DOM
  BY <1>2, PrintTimeInputs, NextRunInputs, FieldBounds DEF IsClock, MONTH_COUNT, FIRST_MONTH
<1>5. start \in Calendar
  BY <1>2, <1>3, <1>4, FieldBounds, PrintTimeInputs
     DEF Calendar, IsClock, InCalendar, FIRST_DOM
<1> QED BY <1>1, <1>2, <1>3, <1>5, Inputs DEF TypeOK, Simple, EachMonth, IsClock

LEMMA DueIs ==
  ASSUME TypeOK, NEW u
  PROVE  u \in Promise!Due(e, start) <=>
           /\ u \in Calendar /\ NotBefore(u, start)
           /\ u.min \in e.minute /\ u.hour \in e.hour
           /\ u.mday - 1 \in e.dom /\ u.mon \in e.month
BY DEF Promise!Due, Promise!Matches

LEMMA NextRunInit == Init => NextRunInv
<1> SUFFICES ASSUME Init PROVE NextRunInv
  OBVIOUS
<1>1. TypeOK
  BY TypeInit
<1>2. /\ now = start /\ then = start /\ pc = "month"
  BY DEF Init
<1>3. InMonth
  BY <1>1, <1>2, SimpleInputs, InCalendarTm DEF InMonth, Tm
<1>4. NothingSkipped
  BY <1>1, <1>2, DueIs DEF NothingSkipped
<1> QED BY <1>2, <1>3, <1>4
           DEF NextRunInv, MonthTaken, DayTaken, HourTaken, MinTaken

(* A carry of the hour passes over minutes of one hour only. *)
LEMMA MinMissingSkipsNothing ==
  ASSUME TypeOK, NextRunInv, MinMissing
  PROVE  NextRunInv'
<1>0. now \in Tm
  BY SimpleInputs
<1>1. /\ UNCHANGED <<e, start, then>>
      /\ now' \in Tm /\ now'.year = now.year /\ now'.mon = now.mon
      /\ now'.mday = now.mday /\ now'.hour = now.hour + 1 /\ now'.min = 0
  BY <1>0 DEF MinMissing, MoveTo, FIRST_MINUTE, Tm
<1>2. pc' \in {"restartm", "done"}
  BY Zenon DEF MinMissing, Restart
<1>3. ASSUME NEW m \in e.minute PROVE ~ (now.min <= m /\ m <= LAST_MINUTE)
  BY DEF MinMissing, Hits
<1>4. NothingSkipped'
  <2> SUFFICES ASSUME NEW u \in Promise!Due(e, start) PROVE NotBefore(u, now')
    BY <1>1 DEF NothingSkipped
  <2>1. /\ u \in Tm /\ u.min <= LAST_MINUTE /\ u.min \in e.minute /\ NotBefore(u, now)
    BY DueIs, InCalendarTm DEF NextRunInv, NothingSkipped
  <2>2. ~ (now.min <= u.min)
    BY <1>3, <2>1
  <2>3. now \in Tm
    BY SimpleInputs
  <2> QED BY <1>1, <2>1, <2>2, <2>3 DEF NotBefore, NotEarlierInYear, Tm
<1>5. EveryHour(e) => now.hour = start.hour /\ now.mday = start.mday
  <2> SUFFICES ASSUME EveryHour(e) PROVE now.hour = start.hour
    BY DEF NextRunInv, InMonth
  <2>1. PICK m \in e.minute : m \in 0..LAST_MINUTE
    BY DEF EveryHour
  <2>2. now.min # 0
    BY <1>3, <2>1, SimpleInputs
  <2> QED BY <2>2 DEF NextRunInv, InMonth, FIRST_MINUTE
<1>6. InMonth'
  <2>1. EveryHour(e') = EveryHour(e)
    BY <1>1
  <2> QED BY <1>1, <1>5, <2>1, SimpleInputs DEF NextRunInv, InMonth, FIRST_MINUTE, Tm
<1> QED BY <1>2, <1>4, <1>6 DEF NextRunInv, MonthTaken, DayTaken, HourTaken, MinTaken

(* A carry of the day passes over hours of one day only, and is not needed *)
(* with * in the hours.                                                    *)
LEMMA HourMissingSkipsNothing ==
  ASSUME TypeOK, NextRunInv, HourMissing
  PROVE  NextRunInv'
<1>0. now \in Tm
  BY SimpleInputs
<1>1. /\ UNCHANGED <<e, start, then>>
      /\ now' \in Tm /\ now'.year = now.year /\ now'.mon = now.mon
      /\ now'.mday = now.mday + 1 /\ now'.hour = 0 /\ now'.min = 0
  BY <1>0 DEF HourMissing, MoveTo, FIRST_HOUR, FIRST_MINUTE, Tm
<1>2. pc' \in {"restartm", "done"}
  BY Zenon DEF HourMissing, Restart
<1>3. ASSUME NEW h \in e.hour PROVE ~ (now.hour <= h /\ h <= LAST_HOUR)
  BY DEF HourMissing, Hits
<1>4. NothingSkipped'
  <2> SUFFICES ASSUME NEW u \in Promise!Due(e, start) PROVE NotBefore(u, now')
    BY <1>1 DEF NothingSkipped
  <2>1. /\ u \in Tm /\ u.hour <= LAST_HOUR /\ u.hour \in e.hour /\ NotBefore(u, now)
    BY DueIs, InCalendarTm DEF NextRunInv, NothingSkipped
  <2>2. ~ (now.hour <= u.hour)
    BY <1>3, <2>1
  <2>3. now \in Tm
    BY SimpleInputs
  <2> QED BY <1>1, <2>1, <2>2, <2>3 DEF NotBefore, NotEarlierInYear, Tm
<1>5. ~ EveryHour(e)
  BY DEF HourMissing, AtHourScan, EveryHour
<1>6. InMonth'
  <2>1. ~ EveryHour(e')
    BY <1>1, <1>5
  <2>2. start \in Tm /\ LAST_MINUTE \in Nat
    BY SimpleInputs
  <2> QED BY <1>0, <1>1, <2>1, <2>2 DEF NextRunInv, InMonth, Tm
<1> QED BY <1>2, <1>4, <1>6 DEF NextRunInv, MonthTaken, DayTaken, HourTaken, MinTaken

(* A step that settles a field leaves the place, and with it what is said  *)
(* about the place.                                                        *)
LEMMA PlaceStays ==
  ASSUME NextRunInv, UNCHANGED <<e, start, now>>, then'.year = then.year
  PROVE  InMonth' /\ NothingSkipped'
BY DEF NextRunInv, InMonth, NothingSkipped, EveryHour

LEMMA NextRunNext == TypeOK /\ NextRunInv /\ [Next]_vars => NextRunInv'
<1> SUFFICES ASSUME TypeOK, NextRunInv, [Next]_vars PROVE NextRunInv'
  OBVIOUS
<1>0. /\ now \in Tm /\ then \in Tm /\ Simple(e)
      /\ e.hour \in SUBSET Nat /\ e.minute \in SUBSET Nat
      /\ LAST_HOUR \in Nat /\ LAST_MINUTE \in Nat
  BY SimpleInputs
<1> USE DEF MonthTaken, DayTaken, HourTaken, MinTaken
<1>1. CASE MonthStar \/ MonthFound
  <2>1. /\ UNCHANGED <<e, start, now>> /\ then'.year = then.year /\ then'.mon = now.mon
        /\ pc' = "dom"
    BY <1>0, <1>1 DEF MonthStar, MonthFound, Proceed, Tm
  <2> QED BY <2>1, PlaceStays DEF NextRunInv
<1>2. CASE MonthMissing
  <2>1. now.mon \in Hits(e.month, now.mon, LAST_MONTH)
    <3>1. /\ now.mon = start.mon /\ start.mon < MONTH_COUNT /\ start \in Tm
          /\ MONTH_COUNT = LAST_MONTH /\ LAST_MONTH \in Nat /\ e.month = 0..(MONTH_COUNT - 1)
      BY SimpleInputs, InCalendarTm DEF NextRunInv, InMonth
    <3> QED BY <3>1 DEF Hits, Tm
  <2> QED BY <1>2, <2>1 DEF MonthMissing
<1>3. CASE DomStar
  <2>1. /\ UNCHANGED <<e, start, now>> /\ then'.year = then.year /\ then'.mon = then.mon
        /\ then'.mday = now.mday /\ pc' = "hour" /\ pc = "dom"
    BY <1>0, <1>3 DEF DomStar, Proceed, Tm
  <2> QED BY <2>1, PlaceStays DEF NextRunInv
<1>4. CASE DomFound \/ DomMissing
  BY <1>0, <1>4 DEF DomFound, DomMissing, AtDomScan, Simple, EachDay
<1>5. CASE HourStar
  <2>1. /\ UNCHANGED <<e, start, now>> /\ then'.year = then.year /\ then'.mon = then.mon
        /\ then'.mday = then.mday /\ then'.hour = now.hour /\ pc' = "min" /\ pc = "hour"
        /\ "HR_STAR" \in e.flags
    BY <1>0, <1>5 DEF HourStar, Proceed, Tm
  <2> QED BY <2>1, PlaceStays DEF NextRunInv
<1>6. CASE HourFound
  <2> DEFINE h == First(Hits(e.hour, now.hour, LAST_HOUR))
  <2>1. /\ UNCHANGED <<e, start, now>> /\ then'.year = then.year /\ then'.mon = then.mon
        /\ then'.mday = then.mday /\ then'.hour = h /\ pc' = "min" /\ pc = "hour"
        /\ "HR_STAR" \notin e.flags
    BY <1>0, <1>6 DEF HourFound, AtHourScan, Proceed, Tm
  <2>2. /\ h \in e.hour /\ now.hour <= h /\ h <= LAST_HOUR
        /\ \A j \in e.hour : now.hour <= j /\ j <= LAST_HOUR => h <= j
    BY <1>0, <1>6, FirstHit, LeastHit DEF HourFound, Tm
  <2> HIDE DEF h
  <2> QED BY <2>1, <2>2, PlaceStays DEF NextRunInv
<1>7. CASE HourMissing
  BY <1>7, HourMissingSkipsNothing
<1>8. CASE MinStar
  <2>1. /\ UNCHANGED <<e, start, now>> /\ then'.year = then.year /\ then'.mon = then.mon
        /\ then'.mday = then.mday /\ then'.hour = then.hour /\ then'.min = now.min
        /\ pc' = "print" /\ pc = "min" /\ "MIN_STAR" \in e.flags
    BY <1>0, <1>8 DEF MinStar, Proceed, Tm
  <2>2. e.minute = 0..LAST_MINUTE
    BY <1>0, <2>1 DEF Simple, EveryHour, OneMinute
  <2>3. now.min \in e.minute /\ now.min <= LAST_MINUTE /\ now.min <= now.min
    BY <1>0, <2>2 DEF NextRunInv, InMonth, Tm
  <2> QED BY <2>1, <2>3, PlaceStays DEF NextRunInv
<1>9. CASE MinFound
  <2> DEFINE m == First(Hits(e.minute, now.min, LAST_MINUTE))
  <2>1. /\ UNCHANGED <<e, start, now>> /\ then'.year = then.year /\ then'.mon = then.mon
        /\ then'.mday = then.mday /\ then'.hour = then.hour /\ then'.min = m
        /\ pc' = "print" /\ pc = "min"
    BY <1>0, <1>9 DEF MinFound, AtMinScan, Proceed, Tm
  <2>2. /\ m \in e.minute /\ now.min <= m /\ m <= LAST_MINUTE
        /\ \A j \in e.minute : now.min <= j /\ j <= LAST_MINUTE => m <= j
    BY <1>0, <1>9, FirstHit, LeastHit DEF MinFound, Tm
  <2> HIDE DEF m
  <2> QED BY <2>1, <2>2, PlaceStays DEF NextRunInv
<1>10. CASE MinMissing
  BY <1>10, MinMissingSkipsNothing
<1>11. CASE Announce
  BY <1>11, PlaceStays DEF Announce, NextRunInv
<1>12. CASE UNCHANGED vars
  BY <1>12, PlaceStays DEF vars, NextRunInv
<1> QED BY <1>1, <1>2, <1>3, <1>4, <1>5, <1>6, <1>7, <1>8, <1>9, <1>10, <1>11, <1>12
           DEF Next

-----------------------------------------------------------------------------
(***************************************************************************)
(* The answer.  With * in the hours it is in the hour of the place, or in  *)
(* the first hour of the day after; with one minute it is on the day of    *)
(* the place, unless the month does not have that day.                     *)
(***************************************************************************)
LEMMA AnswerEveryHour ==
  ASSUME TypeOK, SearchInv, NextRunInv, pc = "print", EveryHour(e)
  PROVE  /\ InCalendar(then)
         /\ Normal(then) = Promise!Earliest(Promise!Due(e, start))
<1>0. /\ now \in Tm /\ then \in Tm /\ start \in Tm /\ Simple(e)
      /\ start \in Calendar /\ start.year < YEAR_CAP /\ start.mon < MONTH_COUNT
      /\ start.mday <= DaysIn(start.year, start.mon) /\ start.hour <= LAST_HOUR
      /\ 1 <= start.mday /\ start.mday <= LAST_DOM
      /\ LAST_HOUR \in Nat /\ LAST_MINUTE \in Nat /\ LAST_DOM \in Nat
      /\ MONTH_COUNT \in Nat
  BY SimpleInputs, InCalendarTm DEF FIRST_DOM
<1>1. /\ then.year = start.year /\ then.mon = start.mon /\ then.mday = start.mday
      /\ now.year = start.year /\ now.mon = start.mon /\ now.mday = start.mday
      /\ then.hour = now.hour
      /\ now.hour = start.hour \/ (now.hour = start.hour + 1 /\ now.min = 0)
      /\ then.min \in e.minute /\ now.min <= then.min /\ then.min <= LAST_MINUTE
      /\ \A m \in e.minute : now.min <= m /\ m <= LAST_MINUTE => then.min <= m
  BY DEF NextRunInv, InMonth, MonthTaken, DayTaken, HourTaken, MinTaken, EveryHour, FIRST_MINUTE
<1>2. InCalendar(then)
  BY <1>0, <1>1 DEF InCalendar
<1>3. ASSUME NEW u \in Promise!Due(e, start)
      PROVE  /\ u \in Calendar /\ u \in Tm /\ u.hour <= LAST_HOUR
             /\ u.min \in e.minute /\ u.min <= LAST_MINUTE /\ NotBefore(u, now)
  BY DueIs, InCalendarTm DEF NextRunInv, NothingSkipped
<1>4. ASSUME NEW t \in Calendar, t.min = then.min, NotBefore(t, start)
      PROVE  t \in Promise!Due(e, start)
  <2>1. /\ e.hour = 0..LAST_HOUR /\ e.dom = 0..(LAST_DOM - 1)
        /\ e.month = 0..(MONTH_COUNT - 1)
    BY <1>0 DEF EveryHour, Simple, EachDay, EachMonth, DOM_COUNT, FIRST_DOM
  <2>2. /\ t.hour \in 0..LAST_HOUR /\ t.mday - 1 \in 0..(LAST_DOM - 1)
        /\ t.mon \in 0..(MONTH_COUNT - 1)
    BY <1>0, InCalendarTm DEF FIRST_DOM, Tm
  <2> QED BY <1>1, <1>4, <2>1, <2>2, DueIs
<1>5. Promise!Due(e, start) \in SUBSET Calendar
  BY <1>3
<1>6. CASE now.hour <= LAST_HOUR
  <2>1. Normal(then) = then
    BY <1>0, <1>1, <1>6 DEF Normal, Tm
  <2>2. then \in Calendar
    BY <1>0, <1>1, <1>2, <1>6 DEF Calendar, Tm, FIRST_DOM
  <2>3. NotBefore(then, start)
    BY <1>0, <1>1 DEF SearchInv, Ahead, NotBefore, NotEarlierInYear, Tm
  <2>4. ASSUME NEW u \in Promise!Due(e, start) PROVE NotBefore(u, then)
    <3>1. /\ u \in Tm /\ NotBefore(u, now)
          /\ now.min <= u.min => then.min <= u.min
      BY <1>1, <1>3
    <3> QED BY <1>0, <1>1, <3>1 DEF NotBefore, NotEarlierInYear, Tm
  <2> QED BY <1>2, <1>4, <1>5, <2>1, <2>2, <2>3, <2>4, EarliestIs
<1>7. CASE ~ (now.hour <= LAST_HOUR)
  <2>1. then.hour = LAST_HOUR + 1 /\ now.hour = LAST_HOUR + 1 /\ now.min = 0
    BY <1>0, <1>1, <1>7 DEF Tm
  <2> DEFINE t == [then EXCEPT !.hour = @ - HOUR_COUNT]
  <2>0. then.hour - HOUR_COUNT = 0
    BY <1>0, <2>1 DEF HOUR_COUNT, FIRST_HOUR
  <2>2. /\ t \in Tm /\ t.year = start.year /\ t.mon = start.mon /\ t.mday = start.mday
        /\ t.hour = 0 /\ t.min = then.min
    BY <1>0, <1>1, <2>0 DEF Tm
  <2>3. Normal(then) = DayAfter(t)
    BY <1>0, <2>1 DEF Normal
  <2> HIDE DEF t
  <2>4. t \in Calendar
    BY <1>0, <1>1, <2>2 DEF Calendar, InCalendar, Tm, FIRST_DOM
  <2>5. PICK d : d = DayAfter(t)
    OBVIOUS
  <2>6. /\ d \in Calendar /\ LaterDay(d, t) /\ d.hour = 0 /\ d.min = then.min
        /\ \A u \in Calendar : LaterDay(u, t) =>
             LaterDay(u, d) \/ (u.year = d.year /\ u.mon = d.mon /\ u.mday = d.mday)
    BY <1>0, <2>2, <2>4, <2>5, DayAfterIs
  <2>7. d \in Tm
    BY <2>6, InCalendarTm
  <2>8. NotBefore(d, start)
    BY <1>0, <2>2, <2>6, <2>7 DEF LaterDay, NotBefore, NotEarlierInYear, Tm
  <2>9. ASSUME NEW u \in Promise!Due(e, start) PROVE NotBefore(u, d)
    <3>1. /\ u \in Calendar /\ u \in Tm /\ u.hour <= LAST_HOUR /\ NotBefore(u, now)
          /\ then.min <= u.min
      BY <1>1, <1>3, <2>1 DEF Tm
    <3>2. LaterDay(u, t)
      BY <1>0, <1>1, <2>1, <2>2, <3>1 DEF LaterDay, NotBefore, NotEarlierInYear, Tm
    <3>3. LaterDay(u, d) \/ (u.year = d.year /\ u.mon = d.mon /\ u.mday = d.mday)
      BY <2>6, <3>1, <3>2
    <3> QED BY <2>6, <2>7, <3>1, <3>3 DEF LaterDay, NotBefore, NotEarlierInYear, Tm
  <2> QED BY <1>2, <1>4, <1>5, <2>3, <2>5, <2>6, <2>8, <2>9, EarliestIs
<1> QED BY <1>6, <1>7

(* What is known of an answer to "m H * * *". *)
OnTheMinute(m) ==
  /\ now \in Tm /\ then \in Tm /\ start \in Tm
  /\ start.year < YEAR_CAP /\ start.mon < MONTH_COUNT /\ 1 <= start.mday
  /\ LAST_HOUR \in Nat /\ LAST_MINUTE \in Nat /\ LAST_DOM \in Nat /\ YEAR_CAP \in Nat
  /\ MONTH_COUNT \in Nat /\ MONTH_COUNT > 1
  /\ e.dom = 0..(LAST_DOM - 1) /\ e.month = 0..(MONTH_COUNT - 1)
  /\ e.minute = {m} /\ e.hour \in SUBSET Nat
  /\ then.year = start.year /\ then.mon = start.mon /\ then.mday = now.mday
  /\ now.year = start.year /\ now.mon = start.mon /\ now.mday >= start.mday
  /\ then.hour \in e.hour /\ now.hour <= then.hour /\ then.hour <= LAST_HOUR
  /\ \A h \in e.hour : now.hour <= h /\ h <= LAST_HOUR => then.hour <= h
  /\ then.min = m /\ now.min <= m /\ m <= LAST_MINUTE
  /\ NotEarlierInYear(now, start)

LEMMA AnswerOnTheMinute ==
  ASSUME TypeOK, SearchInv, NextRunInv, pc = "print", OneMinute(e)
  PROVE  \E m \in Nat : OnTheMinute(m)
<1>1. PICK m \in e.minute : e.minute = {m}
  BY DEF OneMinute
<1>2. m \in Nat
  BY SimpleInputs
<1>3. /\ now \in Tm /\ then \in Tm /\ start \in Tm
      /\ start.year < YEAR_CAP /\ start.mon < MONTH_COUNT /\ 1 <= start.mday
      /\ LAST_HOUR \in Nat /\ LAST_MINUTE \in Nat /\ LAST_DOM \in Nat /\ YEAR_CAP \in Nat
      /\ MONTH_COUNT \in Nat /\ MONTH_COUNT > 1 /\ e.hour \in SUBSET Nat
      /\ e.month = 0..(MONTH_COUNT - 1) /\ Simple(e)
  BY SimpleInputs, InCalendarTm, PrintTimeInputs DEF FIRST_DOM
<1>4. e.dom = 0..(LAST_DOM - 1)
  BY <1>3 DEF Simple, EachDay, DOM_COUNT, FIRST_DOM
<1>5. /\ then.year = start.year /\ then.mon = start.mon /\ then.mday = now.mday
      /\ now.year = start.year /\ now.mon = start.mon /\ now.mday >= start.mday
      /\ then.hour \in e.hour /\ now.hour <= then.hour /\ then.hour <= LAST_HOUR
      /\ \A h \in e.hour : now.hour <= h /\ h <= LAST_HOUR => then.hour <= h
      /\ then.min \in e.minute /\ now.min <= then.min /\ then.min <= LAST_MINUTE
  BY DEF NextRunInv, InMonth, MonthTaken, DayTaken, HourTaken, MinTaken, OneMinute
<1>6. NotEarlierInYear(now, start)
  BY <1>3, <1>5 DEF SearchInv, Ahead, Tm
<1> QED BY <1>1, <1>2, <1>3, <1>4, <1>5, <1>6 DEF OnTheMinute

LEMMA DueOnTheMinute ==
  ASSUME TypeOK, NEW m \in Nat, OnTheMinute(m),
         NEW t \in Calendar, t.min = m, t.hour \in e.hour, NotBefore(t, start)
  PROVE  t \in Promise!Due(e, start)
<1>0. LAST_DOM \in Nat /\ MONTH_COUNT \in Nat
  BY DEF OnTheMinute
<1>1. t.mday - 1 \in 0..(LAST_DOM - 1) /\ t.mon \in 0..(MONTH_COUNT - 1)
  BY <1>0, InCalendarTm DEF FIRST_DOM, Tm
<1> QED BY <1>1, DueIs DEF OnTheMinute

LEMMA PrintsOnTheMinute ==
  ASSUME TypeOK, NextRunInv, NEW m \in Nat, OnTheMinute(m), InCalendar(then)
  PROVE  Normal(then) = Promise!Earliest(Promise!Due(e, start))
<1>0. /\ now \in Tm /\ then \in Tm /\ start \in Tm
      /\ start.year < YEAR_CAP /\ start.mon < MONTH_COUNT /\ 1 <= start.mday
      /\ LAST_HOUR \in Nat /\ LAST_MINUTE \in Nat /\ LAST_DOM \in Nat
      /\ YEAR_CAP \in Nat /\ MONTH_COUNT \in Nat
      /\ then.year = start.year /\ then.mon = start.mon /\ then.mday = now.mday
      /\ now.year = start.year /\ now.mon = start.mon /\ now.mday >= start.mday
      /\ now.hour <= then.hour /\ then.hour <= LAST_HOUR
      /\ then.min = m /\ now.min <= m /\ m <= LAST_MINUTE
      /\ NotEarlierInYear(now, start)
  BY DEF OnTheMinute
<1>1. Normal(then) = then
  BY <1>0 DEF Normal, Tm
<1>2. then.mday <= LAST_DOM
  <2>0. then.year \in 0..YEAR_CAP /\ then.mon \in 0..(MONTH_COUNT - 1)
    BY <1>0 DEF Tm
  <2>1. DaysIn(then.year, then.mon) \in FIRST_DOM..LAST_DOM
    BY <2>0, NextRunInputs
  <2> QED BY <1>0, <2>1 DEF InCalendar, Tm, FIRST_DOM
<1>3. then \in Calendar
  BY <1>0, <1>2 DEF Calendar, Tm, FIRST_DOM
<1>4. NotBefore(then, start)
  BY <1>0 DEF NotBefore, NotEarlierInYear, Tm
<1>5. then \in Promise!Due(e, start)
  BY <1>3, <1>4, DueOnTheMinute DEF OnTheMinute
<1>6. ASSUME NEW u \in Promise!Due(e, start) PROVE NotBefore(u, then)
  <2>1. /\ u \in Tm /\ u.hour <= LAST_HOUR /\ u.hour \in e.hour /\ u.min = m
        /\ NotBefore(u, now)
    BY DueIs, InCalendarTm DEF NextRunInv, NothingSkipped, OnTheMinute
  <2>2. now.hour <= u.hour => then.hour <= u.hour
    BY <2>1 DEF OnTheMinute
  <2> QED BY <1>0, <2>1, <2>2 DEF NotBefore, NotEarlierInYear, Tm
<1>7. Promise!Due(e, start) \in SUBSET Calendar
  BY DueIs
<1> QED BY <1>1, <1>5, <1>6, <1>7, EarliestIs

(* The month does not have the day of the place: the earliest time is on   *)
(* the first day of the next month.                                        *)
LEMMA RefusesOnTheMinute ==
  ASSUME TypeOK, NextRunInv, NEW m \in Nat, OnTheMinute(m), ~ InCalendar(then)
  PROVE  Promise!Earliest(Promise!Due(e, start)).mon # start.mon
<1>0. /\ start \in Tm /\ start.year < YEAR_CAP /\ start.mon < MONTH_COUNT
      /\ then \in Tm /\ then.year = start.year /\ then.mon = start.mon
      /\ then.mday = now.mday /\ then.hour \in e.hour /\ then.hour <= LAST_HOUR
      /\ now \in Tm /\ now.year = start.year /\ now.mon = start.mon
      /\ MONTH_COUNT \in Nat /\ MONTH_COUNT > 1 /\ FIRST_DOM = 1 /\ LAST_DOM \in Nat
      /\ LAST_HOUR \in Nat /\ LAST_MINUTE \in Nat /\ m <= LAST_MINUTE /\ YEAR_CAP \in Nat
  BY DEF OnTheMinute, FIRST_DOM
<1>1. PICK l \in FIRST_DOM..LAST_DOM : l = DaysIn(start.year, start.mon)
  <2>1. start.year \in 0..YEAR_CAP /\ start.mon \in 0..(MONTH_COUNT - 1)
    BY <1>0 DEF Tm
  <2> QED BY <2>1, NextRunInputs
<1>2. l < now.mday
  <2>1. ~ (then.mday <= l)
    BY <1>0, <1>1 DEF InCalendar
  <2> QED BY <1>0, <1>1, <2>1 DEF Tm
<1> DEFINE H == Hits(e.hour, 0, LAST_HOUR)
<1>3. PICK h \in e.hour : h \in Nat /\ h <= LAST_HOUR
                          /\ \A j \in e.hour : j <= LAST_HOUR => h <= j
  <2>1. then.hour \in H
    BY <1>0 DEF Hits, Tm
  <2>2. First(H) \in e.hour /\ First(H) \in Nat /\ First(H) <= LAST_HOUR
    BY <2>1, FirstHit DEF OnTheMinute
  <2>3. \A j \in e.hour : 0 <= j /\ j <= LAST_HOUR => First(H) <= j
    BY <2>1, LeastHit DEF OnTheMinute
  <2>4. \A j \in e.hour : 0 <= j
    BY DEF OnTheMinute
  <2> QED BY <2>2, <2>3, <2>4
<1>4. PICK t : t = [year |-> start.year, mon |-> start.mon, mday |-> l, hour |-> h, min |-> m]
  OBVIOUS
<1>5. /\ t \in Tm /\ t.year = start.year /\ t.mon = start.mon /\ t.mday = l
      /\ t.hour = h /\ t.min = m
  BY <1>3, <1>4 DEF Tm, OnTheMinute, FIRST_DOM
<1>6. t \in Calendar
  <2>1. /\ t.mday <= DaysIn(t.year, t.mon) /\ t.mon < MONTH_COUNT
        /\ t.hour \in 0..LAST_HOUR /\ t.min \in 0..LAST_MINUTE
    BY <1>0, <1>1, <1>3, <1>5
  <2> QED BY <1>0, <1>5, <2>1 DEF Calendar, InCalendar, Tm
<1>7. PICK d : d = DayAfter(t)
  OBVIOUS
<1>8. /\ d \in Calendar /\ LaterDay(d, t) /\ d.hour = h /\ d.min = m
      /\ \A u \in Calendar : LaterDay(u, t) =>
           LaterDay(u, d) \/ (u.year = d.year /\ u.mon = d.mon /\ u.mday = d.mday)
  BY <1>5, <1>6, <1>7, DayAfterIs DEF OnTheMinute
<1>9. d \in Tm
  BY <1>8, InCalendarTm
<1>10. d.mon # start.mon
  <2>0. /\ ~ (t.mday < DaysIn(t.year, t.mon))
        /\ ~ (t.mon + 1 < MONTH_COUNT) => t.mon + 1 >= MONTH_COUNT
    BY <1>0, <1>1, <1>5 DEF Tm
  <2>1. \/ d = [t EXCEPT !.mon = @ + 1, !.mday = FIRST_DOM]
        \/ t.mon + 1 >= MONTH_COUNT /\ d = [t EXCEPT !.year = @ + 1, !.mon = 0, !.mday = FIRST_DOM]
    BY <1>7, <2>0, Zenon DEF DayAfter
  <2>2. \/ d.mon = t.mon + 1
        \/ t.mon + 1 >= MONTH_COUNT /\ d.mon = 0
    BY <1>5, <2>1 DEF Tm
  <2> QED BY <1>0, <1>5, <2>2 DEF Tm
<1>11. d \in Promise!Due(e, start)
  <2>1. start.mday <= l
    BY <1>1, SimpleInputs, InCalendarTm
  <2>2. NotBefore(d, start)
    BY <1>0, <1>5, <1>8, <1>9, <2>1 DEF LaterDay, NotBefore, NotEarlierInYear, Tm
  <2> QED BY <1>3, <1>8, <2>2, DueOnTheMinute
<1>12. ASSUME NEW u \in Promise!Due(e, start) PROVE NotBefore(u, d)
  <2>1. /\ u \in Calendar /\ u \in Tm /\ u.hour <= LAST_HOUR /\ u.hour \in e.hour /\ u.min = m
        /\ NotBefore(u, now)
    BY DueIs, InCalendarTm DEF NextRunInv, NothingSkipped, OnTheMinute
  <2>2. u.year = start.year /\ u.mon = start.mon => u.mday <= l
    BY <1>1, <2>1, InCalendarTm
  <2>3. LaterDay(u, t)
    BY <1>0, <1>2, <1>5, <2>1, <2>2 DEF LaterDay, NotBefore, NotEarlierInYear, Tm
  <2>4. LaterDay(u, d) \/ (u.year = d.year /\ u.mon = d.mon /\ u.mday = d.mday)
    BY <1>8, <2>1, <2>3
  <2>5. h <= u.hour
    BY <1>3, <2>1
  <2> QED BY <1>8, <1>9, <2>1, <2>4, <2>5 DEF LaterDay, NotBefore, NotEarlierInYear, Tm
<1>13. Promise!Due(e, start) \in SUBSET Calendar
  BY DueIs
<1> QED BY <1>10, <1>11, <1>12, <1>13, EarliestIs

-----------------------------------------------------------------------------
(***************************************************************************)
(* A step of printTime is a stutter of NextRun up to the last, and the     *)
(* last one answers or refuses.  The give-up exits are never taken: the    *)
(* entry does not have the bit behind the last month.                      *)
(***************************************************************************)
LEMMA StepAnswers ==
  ASSUME TypeOK, SearchInv, NextRunInv, GiveUpInv', [Next]_vars
  PROVE  [Promise!Next]_(Promise!vars)
<1>1. CASE Announce
  <2>1. pc = "print" /\ UNCHANGED <<e, start, now, then>> /\ outcome = "none"
    BY <1>1 DEF Announce, TypeOK
  <2>2. EveryHour(e) \/ OneMinute(e)
    BY SimpleInputs DEF Simple
  <2>3. CASE InCalendar(then)
    <3>1. Normal(then) = Promise!Earliest(Promise!Due(e, start))
      BY <2>1, <2>2, <2>3, AnswerEveryHour, AnswerOnTheMinute, PrintsOnTheMinute
    <3>2. outcome' = "printed"
      BY <1>1, <2>3 DEF Announce
    <3>3. Normal(then)' = Normal(then)
      BY <2>1
    <3>4. Promise!Answer
      BY <2>1, <3>1, <3>2, <3>3 DEF Promise!Answer
    <3> QED BY <3>4 DEF Promise!Next
  <2>4. CASE ~ InCalendar(then)
    <3>1. Promise!Earliest(Promise!Due(e, start)).mon # start.mon
      BY <2>1, <2>2, <2>4, AnswerEveryHour, AnswerOnTheMinute, RefusesOnTheMinute
    <3>2. outcome' = "threw"
      BY <1>1, <2>4 DEF Announce
    <3>3. Promise!Refuse
      BY <2>1, <3>1, <3>2 DEF Promise!Refuse
    <3> QED BY <3>3 DEF Promise!Next
  <2> QED BY <2>3, <2>4
<1>2. CASE UNCHANGED vars
  BY <1>2 DEF vars, Promise!vars, Normal, DayAfter
<1>3. CASE Next /\ ~ Announce
  <2>1. UNCHANGED <<e, start>> /\ outcome = "none" /\ outcome' \in {"none", "gaveUp"}
    <3>1. UNCHANGED <<e, start>>
      BY <1>3 DEF Next, MonthStar, MonthFound, MonthMissing, DomStar, DomFound, DomMissing,
         HourStar, HourFound, HourMissing, MinStar, MinFound, MinMissing
    <3>2. pc # "done" /\ (outcome' = outcome \/ outcome' = "gaveUp")
      BY <1>3, Zenon DEF Next, MonthStar, MonthFound, MonthMissing, DomStar, DomFound, DomMissing,
         HourStar, HourFound, HourMissing, MinStar, MinFound, MinMissing, AtMonthScan,
         AtDomScan, AtHourScan, AtMinScan, Proceed, Restart
    <3> QED BY <3>1, <3>2 DEF TypeOK
  <2>2. MONTH_COUNT \notin e'.month
    BY <2>1, SimpleInputs
  <2>3. outcome' = "none"
    BY <2>1, <2>2 DEF GiveUpInv, GivesUpBehindYear
  <2> QED BY <2>1, <2>3 DEF Promise!vars
<1> QED BY <1>1, <1>2, <1>3

(* For the lines "M * * * *" and "m H * * *", whatever the calendar, the   *)
(* field bounds and the clock, printTime does what NextRun promises: its   *)
(* answer is the earliest matching time, and it refuses only a time that   *)
(* lies in another month.                                                  *)
THEOREM ImplementsNextRun == Spec => KeepsPromise
<1>1. Init => (CASE outcome = "printed" -> Normal(then)
                 [] outcome = "none" -> None
                 [] OTHER -> Refused) = None
  BY DEF Init
<1> QED
  BY <1>1, TypeInit, TypeNext, SearchInit, SearchNext, GiveUpInit, GiveUpNext,
     NextRunInit, NextRunNext, StepAnswers, PTL DEF Spec, KeepsPromise, Promise!Safety
=============================================================================
