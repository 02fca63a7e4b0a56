---------------------------- MODULE Environment ----------------------------
(***************************************************************************)
(* What the env_ routines promise: each holder has no environment, or one  *)
(* that gives every name a value or none.  An operation takes effect       *)
(* completely or, when memory runs out, not at all; a copy has nothing in  *)
(* common with its original.                                               *)
(***************************************************************************)
CONSTANTS
  Holders,     \* who can hold an environment
  Names, Values,
  Absent,      \* the value of a name that is not set
  None,        \* no environment
  Fits(_, _)   \* a name and a value that an environment can hold

VARIABLE env

Init == env = [h \in Holders |-> None]

New(h) ==
  /\ env[h] = None
  /\ env' = [env EXCEPT ![h] = [n \in Names |-> Absent]]

Duplicate(g, h) ==
  /\ env[g] # None /\ env[h] = None
  /\ env' = [env EXCEPT ![h] = env[g]]

Put(h, n, v) ==
  /\ env[h] # None /\ Fits(n, v)
  /\ env' = [env EXCEPT ![h] = [env[h] EXCEPT ![n] = v]]

Drop(h) ==
  /\ env[h] # None
  /\ env' = [env EXCEPT ![h] = None]

Next ==
  \E h \in Holders :
    \/ New(h)
    \/ \E g \in Holders : Duplicate(g, h)
    \/ \E n \in Names, v \in Values : Put(h, n, v)
    \/ Drop(h)

Spec == Init /\ [][Next]_env
=============================================================================
