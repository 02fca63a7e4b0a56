------------------------------ MODULE MCNextRun ------------------------------
(***************************************************************************)
(* The small calendar with the lines for which printTime keeps the promise *)
(* of NextRun.                                                             *)
(***************************************************************************)
EXTENDS PrintTimeNextRun, MCPrintTime

SimpleEntries == {n \in Numeric : Simple(n)}
=============================================================================
