------------------------------ MODULE CronEntry ------------------------------
(***************************************************************************)
(* The crontab entry of include/crontabs.hpp: the bounds of its five time  *)
(* fields (include/macros.h), the layout of their bit strings and flags.   *)
(*                                                                         *)
(* The upper bounds are parameters.  The program is the instance           *)
(* 59, 23, 31, 12, 7; smaller instances keep every boundary (the reset to  *)
(* FIRST_MONTH = 1, the spare bits behind a field) and are exhaustive.     *)
(***************************************************************************)
EXTENDS Bitstring

CONSTANTS LAST_MINUTE, LAST_HOUR, LAST_DOM, LAST_MONTH, LAST_DOW

FIRST_MINUTE == 0
FIRST_HOUR == 0
FIRST_DOM == 1
FIRST_MONTH == 1
FIRST_DOW == 0

ASSUME FieldBounds ==
  /\ LAST_MINUTE \in Nat
  /\ LAST_HOUR \in Nat
  /\ LAST_DOM \in Nat /\ LAST_DOM >= FIRST_DOM
  /\ LAST_MONTH \in Nat /\ LAST_MONTH >= FIRST_MONTH
  /\ LAST_DOW \in Nat

MINUTE_COUNT == LAST_MINUTE - FIRST_MINUTE + 1
HOUR_COUNT == LAST_HOUR - FIRST_HOUR + 1
DOM_COUNT == LAST_DOM - FIRST_DOM + 1
MONTH_COUNT == LAST_MONTH - FIRST_MONTH + 1
DOW_COUNT == LAST_DOW - FIRST_DOW + 1

(* The bits of entry.flags, each one a member of a set. *)
Flags == {"MIN_STAR", "HR_STAR", "DOM_STAR", "DOW_STAR", "MON_STAR",
          "WHEN_REBOOT", "DONT_LOG"}

(***************************************************************************)
(* Layout of struct _entry: the byte at which each array begins, counted   *)
(* from the first of them (the three pointers before it hold no bit        *)
(* string), the first byte behind the last array, and the int flags at the *)
(* next multiple of four.                                                  *)
(***************************************************************************)
minute == 0
hour == minute + bitstr_size(MINUTE_COUNT)
dom == hour + bitstr_size(HOUR_COUNT)
month == dom + bitstr_size(DOM_COUNT)
dow == month + bitstr_size(MONTH_COUNT)
padding == dow + bitstr_size(DOW_COUNT)
flagsWord == 4 * ((padding + 3) \div 4)

(* What a reader sees in an array of size bytes that begins at byte name. *)
FieldBits(mem, name, size) ==
  {i \in 0..(8 * size - 1) : bit_test(mem, name, i)}

(* The entry as its readers see it: five bit strings and the flags. *)
EntryView(mem, flags) ==
  [minute |-> FieldBits(mem, minute, bitstr_size(MINUTE_COUNT)),
   hour   |-> FieldBits(mem, hour, bitstr_size(HOUR_COUNT)),
   dom    |-> FieldBits(mem, dom, bitstr_size(DOM_COUNT)),
   month  |-> FieldBits(mem, month, bitstr_size(MONTH_COUNT)),
   dow    |-> FieldBits(mem, dow, bitstr_size(DOW_COUNT)),
   flags  |-> flags]

(* The days of a month of the calendar, months from 0, years from a leap   *)
(* year.                                                                   *)
RealDaysIn(y, m) ==
  IF m = 1 THEN IF y % 4 = 0 THEN 29 ELSE 28
  ELSE IF m \in {3, 5, 8, 10} THEN 30 ELSE 31
=============================================================================
