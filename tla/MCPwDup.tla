------------------------------- MODULE MCPwDup -------------------------------
(***************************************************************************)
(* Passwd entries with every string missing, empty, short or longer.       *)
(***************************************************************************)
EXTENDS PwDup

MCStrings == {<<>>, <<"a">>, <<"b", "a">>}

MCPasswds ==
  {q \in [Members -> MCStrings \cup {NULL}] : q["pw_passwd"] # NULL}
=============================================================================
