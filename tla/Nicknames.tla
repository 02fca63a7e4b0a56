------------------------------ MODULE Nicknames ------------------------------
(***************************************************************************)
(* The bits and flags that load_entry gives to an entry written with an    *)
(* @-nickname.  bit_nset is told the number of values where it wants the   *)
(* last bit, so it sets one bit behind the field.                          *)
(***************************************************************************)
EXTENDS CronEntry

All(m, name, count) == bit_nset(m, name, 0, count)

Midnight == bit_set(bit_set({}, minute, 0), hour, 0)
AnyDow(m) == All(m, dow, DOW_COUNT)
AnyMonth(m) == All(m, month, MONTH_COUNT)
AnyDom(m) == All(m, dom, DOM_COUNT)

Nickname(w) ==
  CASE w = "reboot" -> [mem |-> {}, flags |-> {"WHEN_REBOOT"}]
    [] w \in {"yearly", "annually"} ->
         [mem |-> AnyDow(bit_set(bit_set(Midnight, dom, 0), month, 0)),
          flags |-> {"DOW_STAR"}]
    [] w = "monthly" ->
         [mem |-> AnyDow(AnyMonth(bit_set(Midnight, dom, 0))), flags |-> {"DOW_STAR"}]
    [] w = "weekly" ->
         [mem |-> bit_set(AnyMonth(AnyDom(Midnight)), dow, 0), flags |-> {"DOW_STAR"}]
    [] w \in {"daily", "midnight"} ->
         [mem |-> AnyDow(AnyMonth(AnyDom(Midnight))), flags |-> {}]
    [] w = "hourly" ->
         [mem |-> AnyDow(AnyMonth(AnyDom(All(bit_set({}, minute, 0), hour, HOUR_COUNT)))),
          flags |-> {"HR_STAR"}]

NicknameWords == {"reboot", "yearly", "annually", "monthly", "weekly", "daily",
                  "midnight", "hourly"}
=============================================================================
