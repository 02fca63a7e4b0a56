------------------------------- MODULE NextRun -------------------------------
(***************************************************************************)
(* What crontab(5) promises about the next run of a job, with nothing said *)
(* about how it is found: asked for the next run after a clock time, the   *)
(* answer is the earliest time of the calendar that is not before the      *)
(* clock and whose fields the entry selects.  A question whose answer lies *)
(* in another month may be refused.                                        *)
(***************************************************************************)
EXTENDS Integers

CONSTANTS
  Calendar,        \* the times there are
  NotBefore(_, _), \* their order
  None, Refused    \* no answer yet; no answer at all

VARIABLES job, asked, answer

vars == <<job, asked, answer>>

(* "Commands are executed when the minute, hour and month of the year      *)
(* fields match, and at least one of the two day fields": jobs here leave  *)
(* the day of the week open.  Months are bits from 0, days bits from 1.    *)
Matches(j, t) ==
  /\ t.min \in j.minute
  /\ t.hour \in j.hour
  /\ t.mday - 1 \in j.dom
  /\ t.mon \in j.month

Due(j, from) == {t \in Calendar : Matches(j, t) /\ NotBefore(t, from)}

Earliest(S) == CHOOSE t \in S : \A u \in S : NotBefore(u, t)

Answer ==
  /\ answer = None
  /\ answer' = Earliest(Due(job, asked))
  /\ UNCHANGED <<job, asked>>

Refuse ==
  /\ answer = None
  /\ Earliest(Due(job, asked)).mon # asked.mon
  /\ answer' = Refused
  /\ UNCHANGED <<job, asked>>

Next == Answer \/ Refuse

(* The job and the clock are whatever the asker brings. *)
Safety == answer = None /\ [][Next]_vars

Liveness == WF_vars(Next)

Spec == Safety /\ Liveness
=============================================================================
