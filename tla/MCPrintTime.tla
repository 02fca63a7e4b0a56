---------------------------- MODULE MCPrintTime ----------------------------
(***************************************************************************)
(* A small calendar on which every line and every clock is tried: years    *)
(* of three months with three, two (three in leap years) and three days,   *)
(* days of two hours, hours of two minutes.                                *)
(***************************************************************************)
EXTENDS PrintTime

MCDaysIn(y, m) == IF m = 1 /\ y % 2 = 0 THEN 2 ELSE 3

(* What get_list can leave in a field of n values: any bits, and the star  *)
(* flag when the list begins with *, which selects at least the first.     *)
Forms(n, flag) ==
  {[bits |-> b, flags |-> {}] : b \in SUBSET (0..(n - 1)) \ {{}}}
    \cup {[bits |-> b \cup {0}, flags |-> {flag}] : b \in SUBSET (1..(n - 1))}

Numeric ==
  {[minute |-> mi.bits, hour |-> h.bits, dom |-> d.bits, month |-> mo.bits,
    dow |-> {}, flags |-> mi.flags \cup h.flags \cup d.flags \cup mo.flags] :
      mi \in Forms(MINUTE_COUNT, "MIN_STAR"),
      h  \in Forms(HOUR_COUNT, "HR_STAR"),
      d  \in Forms(DOM_COUNT, "DOM_STAR"),
      mo \in Forms(MONTH_COUNT, "MON_STAR")}

(* "@monthly" and "@daily", which have the bits behind the fields too. *)
Monthly == [minute |-> {0}, hour |-> {0}, dom |-> {0}, month |-> 0..MONTH_COUNT,
            dow |-> {}, flags |-> {"DOW_STAR"}]
Daily == [Monthly EXCEPT !.dom = 0..DOM_COUNT, !.flags = {}]

MCEntries == Numeric \cup {Monthly, Daily}

MCClocks ==
  {t \in [year : {0}, mon : 0..(MONTH_COUNT - 1), mday : 1..LAST_DOM,
          hour : 0..LAST_HOUR, min : 0..LAST_MINUTE] : IsClock(t)}
=============================================================================
