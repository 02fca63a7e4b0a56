-------------------------------- MODULE MCEnv --------------------------------
(***************************************************************************)
(* Two names, one the beginning of the other, a value that is empty and    *)
(* one with a = that does not fit with the longer name, and memory for an  *)
(* environment of two variables and its copy.                              *)
(***************************************************************************)
EXTENDS Env, FiniteSetsExt

(* Blocks are interchangeable: it is enough to hand out the first one. *)
FirstFree(S) == IF S = {} THEN {} ELSE {Min(S)}

MCNames == {<<"A">>, <<"A", "B">>}

MCValues == {<<>>, <<"=", "A">>}
=============================================================================
