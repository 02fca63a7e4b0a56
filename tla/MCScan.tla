------------------------------- MODULE MCScan -------------------------------
(***************************************************************************)
(* Directories of up to four files on the real calendar.                   *)
(***************************************************************************)
EXTENDS Scan, MCLoadEntry

(* "1-9/2,30 8 * * * root run" *)
Steps8 == LineOf(<<<<Span(Num(1), Num(9), 2), Single(Num(30))>>, <<Single(Num(8))>>,
                   Each, Each, Each>>, "root", Run)

(* "5 17 31 * * bob run" behind a comment *)
Last == Within(LineOf(<<<<Single(Num(5))>>, <<Single(Num(17))>>, <<Single(Num(31))>>,
                        Each, Each>>, "bob", Run), <<HASH, NL>>, <<>>)

At(w) == File(<<AT, Word(w), BLANK, Word("root"), BLANK>> \o Run \o <<NL>>,
              StandsFor(w), "root", Run)

Broken == Junk(<<Num(61), BLANK, STAR, NL>>)

(* "MAILTO=root" and a job *)
WithSetting == Within(Steps8, <<Word("MAILTO"), PUNCT, Word("root"), NL>>, <<>>)

MCArrivals == {Steps8, Broken}

ScanFiles ==
  {Steps8, Last, Broken, WithSetting} \cup {At(w) : w \in {"hourly", "daily", "monthly", "yearly"}}

Of(a, b, c) == Dir([n \in {"a", "b", "c"} |->
  IF n = "a" THEN a ELSE IF n = "b" THEN b ELSE c])

FourFiles(a, b, c, d) == Dir([n \in {"a", "b", "c", "d"} |->
  IF n = "a" THEN a ELSE IF n = "b" THEN b ELSE IF n = "c" THEN c ELSE d])

MCDirectories ==
  {NoDir, Dir(<<>>), Of(At("daily"), Special, Broken),
   Of(At("monthly"), Steps8, At("yearly")), FourFiles(Last, At("hourly"), Broken, Broken)}

SettingDirectories == {Of(WithSetting, Special, Special)}

(* The last day of the first month, and the first day of the last month. *)
MCClocks ==
  {[year |-> 1, mon |-> 0, mday |-> 31, hour |-> 9, min |-> 10],
   [year |-> 1, mon |-> 11, mday |-> 1, hour |-> 9, min |-> 10]}
=============================================================================
