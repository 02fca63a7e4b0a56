--------------------------- MODULE PrintTimeProofs ---------------------------
(***************************************************************************)
(* Proofs about printTime for every field bound, calendar, entry and       *)
(* clock.                                                                  *)
(***************************************************************************)
EXTENDS PrintTime, TLAPS, WellFoundedInduction

(***************************************************************************)
(* A non-empty set of naturals has a least element; so the scan of a field *)
(* with a hit returns a hit.                                               *)
(***************************************************************************)
LEMMA LeastNatural ==
  ASSUME NEW S \in SUBSET Nat, S # {}
  PROVE  \E i \in S : \A j \in S : i <= j
<1> DEFINE R == OpToRel(<, Nat)
<1>1. \A i, j \in Nat : i < j => <<i, j>> \in R
  BY DEF OpToRel
<1>2. PICK x \in S : \A y \in S : ~ (<<y, x>> \in R)
  <2> HIDE DEF R
  <2>1. IsWellFoundedOn(R, Nat)
    BY NatLessThanWellFounded DEF R
  <2> QED BY <2>1, WFMin, Zenon
<1>3. \A y \in S : ~(y < x)
  <2> HIDE DEF R
  <2> QED BY <1>1, <1>2
<1> QED BY <1>3

(* What a scan finds is a set bit between its bounds, and the first one. *)
LEMMA FirstHit ==
  ASSUME NEW bits \in SUBSET Nat, NEW i \in Nat, NEW last \in Nat,
         Hits(bits, i, last) # {}
  PROVE  /\ First(Hits(bits, i, last)) \in bits
         /\ First(Hits(bits, i, last)) \in Nat
         /\ i <= First(Hits(bits, i, last))
         /\ First(Hits(bits, i, last)) <= last
<1> DEFINE H == Hits(bits, i, last)
<1>1. H \in SUBSET Nat /\ H # {}
  BY DEF Hits
<1>2. \E m \in H : \A n \in H : m <= n
  <2> HIDE DEF H
  <2> QED BY <1>1, LeastNatural
<1>3. First(H) \in H
  <2> HIDE DEF H
  <2> QED BY <1>2 DEF First
<1> QED BY <1>3 DEF Hits

-----------------------------------------------------------------------------
(* The constants are numbers, and the entry and the start are well formed. *)
LEMMA Inputs ==
  ASSUME TypeOK
  PROVE  /\ LAST_MINUTE \in Nat /\ LAST_HOUR \in Nat
         /\ LAST_DOM \in Nat /\ LAST_MONTH \in Nat /\ YEAR_CAP \in Nat
         /\ e.month \in SUBSET Nat /\ e.dom \in SUBSET Nat
         /\ e.hour \in SUBSET Nat /\ e.minute \in SUBSET Nat
         /\ start \in Tm /\ start.year < YEAR_CAP
<1>1. e \in Entry
  BY PrintTimeInputs DEF TypeOK
<1>2. IsClock(start)
  BY PrintTimeInputs DEF TypeOK
<1> QED BY <1>1, <1>2, FieldBounds, PrintTimeInputs DEF Entry, IsClock, Tm

(***************************************************************************)
(* Type correctness.                                                       *)
(***************************************************************************)
LEMMA TypeInit == Init => TypeOK
<1> SUFFICES ASSUME Init PROVE TypeOK
  OBVIOUS
<1>1. IsClock(start)
  BY PrintTimeInputs DEF Init
<1> QED BY <1>1 DEF Init, TypeOK, IsClock, Tm

LEMMA TypeNext == TypeOK /\ [Next]_vars => TypeOK'
<1> SUFFICES ASSUME TypeOK, [Next]_vars PROVE TypeOK'
  OBVIOUS
<1> USE Inputs DEF TypeOK, Tm, FIRST_MONTH, FIRST_DOM, FIRST_HOUR, FIRST_MINUTE
<1>1. CASE MonthStar
  BY <1>1 DEF MonthStar, Proceed
<1>2. CASE MonthFound
  BY <1>2 DEF MonthFound, AtMonthScan, Proceed
<1>3. CASE MonthMissing
  <2>1. now' \in Tm /\ then' \in Tm
    BY <1>3 DEF MonthMissing, MoveTo, NextYear
  <2>2. e' = e /\ start' = start
    BY <1>3 DEF MonthMissing
  <2>3. /\ pc' \in {"restartm", "done"}
        /\ outcome' \in {"none", "gaveUp"}
        /\ pc' = "done" <=> outcome' # "none"
    BY <1>3, Zenon DEF MonthMissing, AtMonthScan, Restart
  <2> QED BY <2>1, <2>2, <2>3
<1>4. CASE DomStar
  BY <1>4 DEF DomStar, Proceed
<1>5. CASE DomFound
  BY <1>5, FirstHit DEF DomFound, AtDomScan, Proceed
<1>6. CASE DomMissing
  <2>1. now' \in Tm /\ then' = then
    BY <1>6 DEF DomMissing, MoveTo
  <2>2. e' = e /\ start' = start
    BY <1>6 DEF DomMissing
  <2>3. /\ pc' \in {"restartm", "done"}
        /\ outcome' \in {"none", "gaveUp"}
        /\ pc' = "done" <=> outcome' # "none"
    BY <1>6, Zenon DEF DomMissing, AtDomScan, Restart
  <2> QED BY <2>1, <2>2, <2>3
<1>7. CASE HourStar
  BY <1>7 DEF HourStar, Proceed
<1>8. CASE HourFound
  BY <1>8, FirstHit DEF HourFound, AtHourScan, Proceed
<1>9. CASE HourMissing
  <2>1. now' \in Tm /\ then' = then
    BY <1>9 DEF HourMissing, MoveTo
  <2>2. e' = e /\ start' = start
    BY <1>9 DEF HourMissing
  <2>3. /\ pc' \in {"restartm", "done"}
        /\ outcome' \in {"none", "gaveUp"}
        /\ pc' = "done" <=> outcome' # "none"
    BY <1>9, Zenon DEF HourMissing, AtHourScan, Restart
  <2> QED BY <2>1, <2>2, <2>3
<1>10. CASE MinStar
  BY <1>10 DEF MinStar, Proceed
<1>11. CASE MinFound
  BY <1>11, FirstHit DEF MinFound, AtMinScan, Proceed
<1>12. CASE MinMissing
  <2>1. now' \in Tm /\ then' = then
    BY <1>12 DEF MinMissing, MoveTo
  <2>2. e' = e /\ start' = start
    BY <1>12 DEF MinMissing
  <2>3. /\ pc' \in {"restartm", "done"}
        /\ outcome' \in {"none", "gaveUp"}
        /\ pc' = "done" <=> outcome' # "none"
    BY <1>12, Zenon DEF MinMissing, AtMinScan, Restart
  <2> QED BY <2>1, <2>2, <2>3
<1>13. CASE Announce
  BY <1>13 DEF Announce
<1>14. CASE UNCHANGED vars
  BY <1>14 DEF vars
<1> QED BY <1>1, <1>2, <1>3, <1>4, <1>5, <1>6, <1>7, <1>8, <1>9, <1>10, <1>11,
           <1>12, <1>13, <1>14 DEF Next

(* The three broken-down times keep their type in every run of printTime. *)
THEOREM TypeCorrect == Spec => []TypeOK
BY TypeInit, TypeNext, PTL DEF Spec

-----------------------------------------------------------------------------
(***************************************************************************)
(* The inductive invariant of the search.  Every step below is one action; *)
(* an action that settles a field keeps the place and the fields settled   *)
(* before it, a carry unsettles every field and moves the place on.        *)
(***************************************************************************)
LEMMA SearchInit == Init => SearchInv
<1> SUFFICES ASSUME Init PROVE SearchInv
  OBVIOUS
<1>1. IsClock(start)
  BY PrintTimeInputs DEF Init
<1> QED BY <1>1 DEF Init, IsClock, SearchInv, Ahead, NotEarlierInYear, Settled,
              MonthSettled, DomSettled, HourSettled, MinSettled

LEMMA SearchNext == TypeOK /\ SearchInv /\ [Next]_vars => SearchInv'
<1> SUFFICES ASSUME TypeOK, SearchInv, [Next]_vars PROVE SearchInv'
  OBVIOUS
<1> USE Inputs DEF TypeOK, Tm, FIRST_MONTH, FIRST_DOM, FIRST_HOUR, FIRST_MINUTE
<1>1. CASE MonthStar
  <2>1. /\ then'.year = then.year /\ then'.mday = then.mday
        /\ then'.hour = then.hour /\ then'.min = then.min
    BY <1>1 DEF MonthStar
  <2>2. now' = now /\ e' = e /\ start' = start
    BY <1>1 DEF MonthStar
  <2>3. pc' = "dom" /\ outcome' = "none" /\ pc \in {"month", "restartm"}
    BY <1>1 DEF MonthStar, Proceed
  <2>4. then'.mon = now.mon
    BY <1>1 DEF MonthStar
  <2> QED BY <2>1, <2>2, <2>3, <2>4 DEF SearchInv, Ahead, NotEarlierInYear, Settled,
             MonthSettled, DomSettled, HourSettled, MinSettled, Selected
<1>2. CASE MonthFound
  <2>1. /\ then'.year = then.year /\ then'.mday = then.mday
        /\ then'.hour = then.hour /\ then'.min = then.min
    BY <1>2 DEF MonthFound
  <2>2. now' = now /\ e' = e /\ start' = start
    BY <1>2 DEF MonthFound
  <2>3. pc' = "dom" /\ outcome' = "none" /\ pc \in {"month", "restartm"}
    BY <1>2 DEF MonthFound, AtMonthScan, Proceed
  <2>4. then'.mon = now.mon
    BY <1>2 DEF MonthFound, AtMonthScan
  <2> QED BY <2>1, <2>2, <2>3, <2>4 DEF SearchInv, Ahead, NotEarlierInYear, Settled,
             MonthSettled, DomSettled, HourSettled, MinSettled, Selected
<1>3. CASE DomStar
  <2>1. /\ then'.year = then.year /\ then'.mon = then.mon
        /\ then'.hour = then.hour /\ then'.min = then.min
    BY <1>3 DEF DomStar
  <2>2. now' = now /\ e' = e /\ start' = start
    BY <1>3 DEF DomStar
  <2>3. pc' = "hour" /\ outcome' = "none" /\ pc = "dom"
    BY <1>3 DEF DomStar, Proceed
  <2>4. then'.mday >= now.mday /\ Selected("DOM_STAR", e.dom, then'.mday - 1)
    BY <1>3 DEF DomStar, Selected
  <2> QED BY <2>1, <2>2, <2>3, <2>4 DEF SearchInv, Ahead, NotEarlierInYear, Settled,
             MonthSettled, DomSettled, HourSettled, MinSettled, Selected
<1>4. CASE DomFound
  <2>1. /\ then'.year = then.year /\ then'.mon = then.mon
        /\ then'.hour = then.hour /\ then'.min = then.min
    BY <1>4 DEF DomFound
  <2>2. now' = now /\ e' = e /\ start' = start
    BY <1>4 DEF DomFound
  <2>3. pc' = "hour" /\ outcome' = "none" /\ pc = "dom"
    BY <1>4 DEF DomFound, AtDomScan, Proceed
  <2>4. then'.mday >= now.mday /\ Selected("DOM_STAR", e.dom, then'.mday - 1)
    BY <1>4, FirstHit DEF DomFound, AtDomScan, Selected
  <2> QED BY <2>1, <2>2, <2>3, <2>4 DEF SearchInv, Ahead, NotEarlierInYear, Settled,
             MonthSettled, DomSettled, HourSettled, MinSettled, Selected
<1>5. CASE HourStar
  <2>1. /\ then'.year = then.year /\ then'.mon = then.mon
        /\ then'.mday = then.mday /\ then'.min = then.min
    BY <1>5 DEF HourStar
  <2>2. now' = now /\ e' = e /\ start' = start
    BY <1>5 DEF HourStar
  <2>3. pc' = "min" /\ outcome' = "none" /\ pc = "hour"
    BY <1>5 DEF HourStar, Proceed
  <2>4. then'.hour >= now.hour /\ Selected("HR_STAR", e.hour, then'.hour)
    BY <1>5 DEF HourStar, Selected
  <2> QED BY <2>1, <2>2, <2>3, <2>4 DEF SearchInv, Ahead, NotEarlierInYear, Settled,
             MonthSettled, DomSettled, HourSettled, MinSettled, Selected
<1>6. CASE HourFound
  <2>1. /\ then'.year = then.year /\ then'.mon = then.mon
        /\ then'.mday = then.mday /\ then'.min = then.min
    BY <1>6 DEF HourFound
  <2>2. now' = now /\ e' = e /\ start' = start
    BY <1>6 DEF HourFound
  <2>3. pc' = "min" /\ outcome' = "none" /\ pc = "hour"
    BY <1>6 DEF HourFound, AtHourScan, Proceed
  <2>4. then'.hour >= now.hour /\ Selected("HR_STAR", e.hour, then'.hour)
    BY <1>6, FirstHit DEF HourFound, AtHourScan, Selected
  <2> QED BY <2>1, <2>2, <2>3, <2>4 DEF SearchInv, Ahead, NotEarlierInYear, Settled,
             MonthSettled, DomSettled, HourSettled, MinSettled, Selected
<1>7. CASE MinStar
  <2>1. /\ then'.year = then.year /\ then'.mon = then.mon
        /\ then'.mday = then.mday /\ then'.hour = then.hour
    BY <1>7 DEF MinStar
  <2>2. now' = now /\ e' = e /\ start' = start
    BY <1>7 DEF MinStar
  <2>3. pc' = "print" /\ outcome' = "none" /\ pc = "min"
    BY <1>7 DEF MinStar, Proceed
  <2>4. then'.min >= now.min /\ Selected("MIN_STAR", e.minute, then'.min)
    BY <1>7 DEF MinStar, Selected
  <2> QED BY <2>1, <2>2, <2>3, <2>4 DEF SearchInv, Ahead, NotEarlierInYear, Settled,
             MonthSettled, DomSettled, HourSettled, MinSettled, Selected
<1>8. CASE MinFound
  <2>1. /\ then'.year = then.year /\ then'.mon = then.mon
        /\ then'.mday = then.mday /\ then'.hour = then.hour
    BY <1>8 DEF MinFound
  <2>2. now' = now /\ e' = e /\ start' = start
    BY <1>8 DEF MinFound
  <2>3. pc' = "print" /\ outcome' = "none" /\ pc = "min"
    BY <1>8 DEF MinFound, AtMinScan, Proceed
  <2>4. then'.min >= now.min /\ Selected("MIN_STAR", e.minute, then'.min)
    BY <1>8, FirstHit DEF MinFound, AtMinScan, Selected
  <2> QED BY <2>1, <2>2, <2>3, <2>4 DEF SearchInv, Ahead, NotEarlierInYear, Settled,
             MonthSettled, DomSettled, HourSettled, MinSettled, Selected
<1>9. CASE MonthMissing
  <2>1. pc' \in {"restartm", "done"} /\ outcome' \in {"none", "gaveUp"}
    BY <1>9, Zenon DEF MonthMissing, AtMonthScan, Restart
  <2>2. Ahead'
    BY <1>9 DEF MonthMissing, NextYear, SearchInv, Ahead, NotEarlierInYear, MoveTo
  <2> QED BY <2>1, <2>2 DEF SearchInv, Settled, MonthSettled, DomSettled,
             HourSettled, MinSettled
<1>10. CASE DomMissing
  <2>1. pc' \in {"restartm", "done"} /\ outcome' \in {"none", "gaveUp"}
    BY <1>10, Zenon DEF DomMissing, AtDomScan, Restart
  <2>2. Ahead'
    BY <1>10 DEF DomMissing, SearchInv, Ahead, NotEarlierInYear, MoveTo
  <2> QED BY <2>1, <2>2 DEF SearchInv, Settled, MonthSettled, DomSettled,
             HourSettled, MinSettled
<1>11. CASE HourMissing
  <2>1. pc' \in {"restartm", "done"} /\ outcome' \in {"none", "gaveUp"}
    BY <1>11, Zenon DEF HourMissing, AtHourScan, Restart
  <2>2. Ahead'
    BY <1>11 DEF HourMissing, SearchInv, Ahead, NotEarlierInYear, MoveTo
  <2> QED BY <2>1, <2>2 DEF SearchInv, Settled, MonthSettled, DomSettled,
             HourSettled, MinSettled
<1>12. CASE MinMissing
  <2>1. pc' \in {"restartm", "done"} /\ outcome' \in {"none", "gaveUp"}
    BY <1>12, Zenon DEF MinMissing, AtMinScan, Restart
  <2>2. Ahead'
    BY <1>12 DEF MinMissing, SearchInv, Ahead, NotEarlierInYear, MoveTo
  <2> QED BY <2>1, <2>2 DEF SearchInv, Settled, MonthSettled, DomSettled,
             HourSettled, MinSettled
<1>13. CASE Announce
  BY <1>13 DEF Announce, SearchInv, Ahead, NotEarlierInYear, Settled, MonthSettled,
     DomSettled, HourSettled, MinSettled, Selected
<1>14. CASE UNCHANGED vars
  BY <1>14 DEF vars, SearchInv, Ahead, NotEarlierInYear, Settled, MonthSettled,
     DomSettled, HourSettled, MinSettled, Selected
<1> QED BY <1>1, <1>2, <1>3, <1>4, <1>5, <1>6, <1>7, <1>8, <1>9, <1>10,
           <1>11, <1>12, <1>13, <1>14 DEF Next

(* The search invariant holds in every run. *)
THEOREM SearchCorrect == Spec => []SearchInv
BY TypeInit, TypeNext, SearchInit, SearchNext, PTL DEF Spec

LEMMA SettledSelected == SearchInv => PrintedSelected
BY DEF SearchInv, PrintedSelected, Printed, Settled, DomSettled, HourSettled,
   MinSettled

(* printTime only prints a day, an hour and a minute that the entry        *)
(* selects, for every entry, clock, calendar and field bounds.             *)
THEOREM PrintsSelected == Spec => []PrintedSelected
BY SettledSelected, SearchCorrect, PTL

LEMMA SettledAhead == TypeOK /\ SearchInv => NotInPast
<1> SUFFICES ASSUME TypeOK, SearchInv, Printed PROVE NotBefore(then, start)
  BY DEF NotInPast
<1>1. /\ then.mon = now.mon /\ then.mday >= now.mday
      /\ then.hour >= now.hour /\ then.min >= now.min
  BY DEF SearchInv, Printed, Settled, MonthSettled, DomSettled, HourSettled,
     MinSettled
<1>2. start \in Tm /\ now \in Tm /\ then \in Tm
  BY Inputs DEF TypeOK
<1> QED BY <1>1, <1>2 DEF SearchInv, Ahead, NotEarlierInYear, NotBefore, Tm

(* printTime never announces a time before the clock it started from.      *)
THEOREM NeverInPast == Spec => []NotInPast
BY SettledAhead, TypeCorrect, SearchCorrect, PTL

-----------------------------------------------------------------------------
(***************************************************************************)
(* The second inductive invariant: at most one new year.  The four carries *)
(* are the steps that can disturb it.  Each is possible only before the    *)
(* search has left the month it began in (the carry of the month: before   *)
(* it has met the new year), since a scan from the beginning of a month    *)
(* finds what the entry selects.                                           *)
(***************************************************************************)
LEMMA YearInit == Init => YearInv
<1> SUFFICES ASSUME Init PROVE YearInv
  OBVIOUS
<1>1. IsClock(start)
  BY PrintTimeInputs DEF Init
<1> QED BY <1>1 DEF Init, IsClock, YearInv, OneNewYear, LeftMonth

(* No step but a carry moves the place, the year or the answer's year. *)
LEMMA YearSettles ==
  ASSUME TypeOK, YearInv,
         now' = now, start' = start, e' = e, then'.year = then.year,
         outcome' = "gaveUp" => outcome = "gaveUp"
  PROVE  YearInv'
BY DEF YearInv, Schedulable, OneNewYear, LeftMonth, AtMonthBegin

(* A scan of days, hours or minutes that comes back empty shows that the   *)
(* search is still in the month it began in.                               *)
LEMMA StillInMonth ==
  ASSUME TypeOK, YearInv, Schedulable,
         \/ AtDomScan /\ Hits(e.dom, now.mday, LAST_DOM) = {}
         \/ AtHourScan /\ Hits(e.hour, now.hour, LAST_HOUR) = {}
         \/ AtMinScan /\ Hits(e.minute, now.min, LAST_MINUTE) = {}
  PROVE  now.mon = start.mon /\ then.year = start.year
<1>1. ~ AtMonthBegin
  BY DEF AtMonthBegin, Schedulable, AtDomScan, AtHourScan, AtMinScan
<1> QED BY <1>1 DEF YearInv, LeftMonth

LEMMA YearNext == TypeOK /\ YearInv /\ [Next]_vars => YearInv'
<1> SUFFICES ASSUME TypeOK, YearInv, [Next]_vars PROVE YearInv'
  OBVIOUS
<1> USE Inputs DEF TypeOK, Tm
<1>1. CASE MonthStar
  BY <1>1, YearSettles DEF MonthStar, Proceed
<1>2. CASE MonthFound
  BY <1>2, YearSettles DEF MonthFound, Proceed
<1>3. CASE MonthMissing
  <2> SUFFICES ASSUME Schedulable' PROVE YearInv'
    BY DEF YearInv
  <2>1. Schedulable
    BY <1>3 DEF MonthMissing, Schedulable
  <2>2. then.year = start.year
    BY <1>3, <2>1 DEF MonthMissing, YearInv, OneNewYear, Schedulable
  <2>3. /\ start' = start
        /\ now'.year = start.year /\ now'.mon = FIRST_MONTH
        /\ now'.mday = FIRST_DOM /\ now'.hour = FIRST_HOUR /\ now'.min = FIRST_MINUTE
    BY <1>3, <2>1 DEF MonthMissing, MoveTo, YearInv
  <2>4. then'.year = start.year + 1
    BY <1>3, <2>2 DEF MonthMissing, NextYear
  <2>5. ~ (start.year + 1 < now'.year)
    BY <2>3
  <2>6. outcome' # "gaveUp"
    BY <1>3, <2>1, <2>5, Zenon DEF MonthMissing, Restart, YearInv
  <2> QED BY <2>3, <2>4, <2>6 DEF YearInv, OneNewYear, LeftMonth, AtMonthBegin,
             FIRST_MONTH
<1>4. CASE DomStar
  BY <1>4, YearSettles DEF DomStar, Proceed
<1>5. CASE DomFound
  BY <1>5, YearSettles DEF DomFound, Proceed
<1>6. CASE DomMissing
  <2> SUFFICES ASSUME Schedulable' PROVE YearInv'
    BY DEF YearInv
  <2>1. Schedulable
    BY <1>6 DEF DomMissing, Schedulable
  <2>2. now.mon = start.mon /\ then.year = start.year
    BY <1>6, <2>1, StillInMonth DEF DomMissing
  <2>3. /\ start' = start /\ then' = then
        /\ now'.year = start.year /\ now'.mon = start.mon + 1
        /\ now'.mday = FIRST_DOM /\ now'.hour = FIRST_HOUR /\ now'.min = FIRST_MINUTE
    BY <1>6, <2>1, <2>2 DEF DomMissing, MoveTo, YearInv
  <2>4. ~ (start.mon + MONTH_COUNT < now'.mon)
    BY <2>3, FieldBounds DEF MONTH_COUNT, FIRST_MONTH
  <2>5. outcome' # "gaveUp"
    BY <1>6, <2>1, <2>4, Zenon DEF DomMissing, Restart, YearInv
  <2> QED BY <2>2, <2>3, <2>5 DEF YearInv, OneNewYear, LeftMonth, AtMonthBegin
<1>7. CASE HourStar
  BY <1>7, YearSettles DEF HourStar, Proceed
<1>8. CASE HourFound
  BY <1>8, YearSettles DEF HourFound, Proceed
<1>9. CASE HourMissing
  <2> SUFFICES ASSUME Schedulable' PROVE YearInv'
    BY DEF YearInv
  <2>1. Schedulable
    BY <1>9 DEF HourMissing, Schedulable
  <2>2. now.mon = start.mon /\ then.year = start.year
    BY <1>9, <2>1, StillInMonth DEF HourMissing
  <2>3. /\ start' = start /\ then' = then
        /\ now'.year = start.year /\ now'.mon = start.mon /\ now'.hour = FIRST_HOUR
    BY <1>9, <2>1, <2>2 DEF HourMissing, MoveTo, YearInv
  <2>4. ~ (start.hour + HOUR_COUNT < now'.hour)
    BY <2>3 DEF HOUR_COUNT, FIRST_HOUR
  <2>5. outcome' # "gaveUp"
    BY <1>9, <2>1, <2>4, Zenon DEF HourMissing, Restart, YearInv
  <2> QED BY <2>2, <2>3, <2>5 DEF YearInv, OneNewYear, LeftMonth
<1>10. CASE MinStar
  BY <1>10, YearSettles DEF MinStar, Proceed
<1>11. CASE MinFound
  BY <1>11, YearSettles DEF MinFound, Proceed
<1>12. CASE MinMissing
  <2> SUFFICES ASSUME Schedulable' PROVE YearInv'
    BY DEF YearInv
  <2>1. Schedulable
    BY <1>12 DEF MinMissing, Schedulable
  <2>2. now.mon = start.mon /\ then.year = start.year
    BY <1>12, <2>1, StillInMonth DEF MinMissing
  <2>3. /\ start' = start /\ then' = then
        /\ now'.year = start.year /\ now'.mon = start.mon /\ now'.min = FIRST_MINUTE
    BY <1>12, <2>1, <2>2 DEF MinMissing, MoveTo, YearInv
  <2>4. ~ (start.min + MINUTE_COUNT < now'.min)
    BY <2>3 DEF MINUTE_COUNT, FIRST_MINUTE
  <2>5. outcome' # "gaveUp"
    BY <1>12, <2>1, <2>4, Zenon DEF MinMissing, Restart, YearInv
  <2> QED BY <2>2, <2>3, <2>5 DEF YearInv, OneNewYear, LeftMonth
<1>13. CASE Announce
  BY <1>13, YearSettles DEF Announce
<1>14. CASE UNCHANGED vars
  BY <1>14, YearSettles DEF vars
<1> QED BY <1>1, <1>2, <1>3, <1>4, <1>5, <1>6, <1>7, <1>8, <1>9, <1>10,
           <1>11, <1>12, <1>13, <1>14 DEF Next

(* For an entry that leaves every restarted scan something to find, a      *)
(* search that has left its month stands at the beginning of one, in the   *)
(* first month of the coming year at the latest.                           *)
THEOREM AtBeginOfMonth == Spec => []YearInv
BY TypeInit, TypeNext, YearInit, YearNext, PTL DEF Spec

(* Whatever the calendar and the field bounds: for an entry that leaves    *)
(* every restarted scan something to find, printTime never searches past   *)
(* the coming year and never takes its give-up exits.                      *)
THEOREM AtMostOneNewYear == Spec => []WithinAYear
<1>1. TypeOK /\ YearInv => WithinAYear
  BY Inputs DEF YearInv, OneNewYear, WithinAYear, Tm
<1> QED BY <1>1, TypeCorrect, AtBeginOfMonth, PTL

-----------------------------------------------------------------------------
(***************************************************************************)
(* The third inductive invariant: when printTime gives up.  The place      *)
(* never leaves its year.  Once the month is settled it is in a month of   *)
(* the calendar, or in the one behind them when the entry has its bit.     *)
(***************************************************************************)
GiveUpInv ==
  /\ now.year = start.year
  /\ pc = "month" => now.mon = start.mon
  /\ pc \in {"dom", "hour", "min"} =>
       now.mon < MONTH_COUNT \/ (now.mon = MONTH_COUNT /\ MONTH_COUNT \in e.month)
  /\ GivesUpBehindYear

LEMMA GiveUpInit == Init => GiveUpInv
BY DEF Init, GiveUpInv, GivesUpBehindYear

(* A scan or a star that settles a field leaves the place where it is. *)
LEMMA GiveUpSettles ==
  ASSUME GiveUpInv, UNCHANGED <<now, start, e>>,
         pc' \in {"hour", "min"} => pc \in {"dom", "hour", "min"},
         pc' \notin {"month", "dom"},
         outcome' = "gaveUp" => outcome = "gaveUp"
  PROVE  GiveUpInv'
BY DEF GiveUpInv, GivesUpBehindYear

(* A carry that does not give up goes back to the scan of the month. *)
LEMMA GiveUpCarries ==
  ASSUME GiveUpInv, UNCHANGED <<start, e>>, now'.year = now.year, Restart(FALSE)
  PROVE  GiveUpInv'
BY DEF GiveUpInv, GivesUpBehindYear, Restart

LEMMA GiveUpNext == TypeOK /\ GiveUpInv /\ [Next]_vars => GiveUpInv'
<1> SUFFICES ASSUME TypeOK, GiveUpInv, [Next]_vars PROVE GiveUpInv'
  OBVIOUS
<1>0. /\ LAST_MONTH \in Nat /\ MONTH_COUNT = LAST_MONTH
      /\ now.mon \in Nat /\ now.year = start.year /\ now.year \in Nat
      /\ start.mon \in Nat /\ start.mon < MONTH_COUNT /\ start.hour \in Nat /\ start.min \in Nat
      /\ e.month \subseteq Nat
  BY Inputs, FieldBounds, PrintTimeInputs DEF TypeOK, Tm, IsClock, MONTH_COUNT, FIRST_MONTH, GiveUpInv
<1>1. CASE MonthStar
  <2>1. now.mon < MONTH_COUNT
    BY <1>0, <1>1 DEF MonthStar, GiveUpInv
  <2> QED
    BY <1>1, <2>1 DEF MonthStar, Proceed, GiveUpInv, GivesUpBehindYear
<1>2. CASE MonthFound
  <2>1. PICK i \in e.month : now.mon <= i /\ i <= LAST_MONTH
    BY <1>2 DEF MonthFound, Hits
  <2>2. now.mon < MONTH_COUNT \/ (now.mon = MONTH_COUNT /\ MONTH_COUNT \in e.month)
    BY <1>0, <2>1
  <2> QED
    BY <1>2, <2>2 DEF MonthFound, Proceed, GiveUpInv, GivesUpBehindYear
<1>3. CASE MonthMissing
  <2>1. now'.year = now.year /\ UNCHANGED <<start, e>>
    BY <1>3 DEF MonthMissing, MoveTo
  <2>2. (start.year + 1 < now'.year) = FALSE
    BY <1>0, <2>1
  <2>3. Restart(FALSE)
    BY <1>3, <2>2 DEF MonthMissing
  <2> QED
    BY <2>1, <2>3, GiveUpCarries
<1>4. CASE DomMissing
  <2>1. now'.year = now.year /\ now'.mon = now.mon + 1 /\ UNCHANGED <<start, e>>
    BY <1>4 DEF DomMissing, MoveTo
  <2>2. now.mon < MONTH_COUNT \/ (now.mon = MONTH_COUNT /\ MONTH_COUNT \in e.month)
    BY <1>4 DEF DomMissing, AtDomScan, GiveUpInv
  <2>3. CASE start.mon + MONTH_COUNT < now'.mon
    <3>1. start.mon = 0 /\ MONTH_COUNT \in e.month
      BY <1>0, <2>1, <2>2, <2>3
    <3>2. pc' = "done"
      BY <1>4, <2>3 DEF DomMissing, Restart
    <3> QED
      BY <1>0, <2>1, <3>1, <3>2 DEF GiveUpInv, GivesUpBehindYear
  <2>4. CASE ~(start.mon + MONTH_COUNT < now'.mon)
    <3>1. Restart(FALSE)
      BY <1>4, <2>4, Zenon DEF DomMissing, Restart
    <3> QED
      BY <2>1, <3>1, GiveUpCarries
  <2> QED
    BY <2>3, <2>4
<1>5. CASE HourMissing
  <2>1. now'.year = now.year /\ now'.hour = 0 /\ UNCHANGED <<start, e>>
    BY <1>5 DEF HourMissing, MoveTo, FIRST_HOUR
  <2>2. (start.hour + HOUR_COUNT < now'.hour) = FALSE
    BY <1>0, <2>1, FieldBounds DEF HOUR_COUNT, FIRST_HOUR
  <2>3. Restart(FALSE)
    BY <1>5, <2>2 DEF HourMissing
  <2> QED
    BY <2>1, <2>3, GiveUpCarries
<1>6. CASE MinMissing
  <2>1. now'.year = now.year /\ now'.min = 0 /\ UNCHANGED <<start, e>>
    BY <1>6 DEF MinMissing, MoveTo, FIRST_MINUTE
  <2>2. (start.min + MINUTE_COUNT < now'.min) = FALSE
    BY <1>0, <2>1, FieldBounds DEF MINUTE_COUNT, FIRST_MINUTE
  <2>3. Restart(FALSE)
    BY <1>6, <2>2 DEF MinMissing
  <2> QED
    BY <2>1, <2>3, GiveUpCarries
<1>7. CASE DomStar \/ DomFound
  BY <1>7, GiveUpSettles DEF DomStar, DomFound, AtDomScan, Proceed
<1>8. CASE HourStar \/ HourFound
  BY <1>8, GiveUpSettles DEF HourStar, HourFound, AtHourScan, Proceed
<1>9. CASE MinStar \/ MinFound \/ Announce
  BY <1>9, GiveUpSettles DEF MinStar, MinFound, AtMinScan, Announce, Proceed
<1>10. CASE UNCHANGED vars
  BY <1>10 DEF vars, GiveUpInv, GivesUpBehindYear
<1> QED
  BY <1>1, <1>2, <1>3, <1>4, <1>5, <1>6, <1>7, <1>8, <1>9, <1>10 DEF Next

(* Whatever the entry, the calendar and the field bounds: printTime gives  *)
(* up only in a search that began in the first month, for an entry with    *)
(* the bit behind the last month, which only a nickname sets.              *)
THEOREM GivesUpOnSpareBitOnly == Spec => []GivesUpBehindYear
<1>1. GiveUpInv => GivesUpBehindYear
  BY DEF GiveUpInv
<1> QED
  BY <1>1, TypeInit, TypeNext, GiveUpInit, GiveUpNext, PTL DEF Spec
=============================================================================
