---------------------------- MODULE MCLoadEntry ----------------------------
(***************************************************************************)
(* Crontab files for model checking load_entry with the real field bounds. *)
(***************************************************************************)
EXTENDS Crontab5

LOCAL INSTANCE SequencesExt

File(txt, lists, u, command) ==
  [text |-> txt, fields |-> lists, user |-> u, cmd |-> command]

Run == <<Word("run")>>

(* A line with the given texts in its fields. *)
Line(w, u, command) ==
  w[1] \o <<BLANK>> \o w[2] \o <<BLANK>> \o w[3] \o <<BLANK>> \o w[4] \o <<BLANK, BLANK>>
    \o w[5] \o <<BLANK, Word(u), BLANK>> \o command \o <<NL>>

LineOf(lists, u, command) ==
  File(Line([i \in 1..5 |-> WrittenList(lists[i])], u, command), lists, u, command)

Next2 == <<STAR, NL, NL>>

(* The same file with something before and after the line. *)
Within(f, before, after) == [f EXCEPT !.text = before \o @ \o after]

(* A file whose text is no line. *)
Junk(txt) == File(txt, <<>>, "", <<>>)

(***************************************************************************)
(* Lists for a field: both ends, the values beside them, one value too     *)
(* many and, a multiple of the int range further on, a small number again. *)
(***************************************************************************)
Wrapped == 2 * (INT_MAX + 1) + 1

Values(i) ==
  LET f == Fields[i] IN {Num(n) : n \in {0, f.low, f.low + 2, f.high, f.high + 1, Wrapped}}
    \cup (IF f.names = <<>> THEN {} ELSE {Word(f.names[1]), Word(f.names[3])})

Steps == {0, 1, 2, 7, INT_MAX - 2}

RangesOf(i) ==
  {Everything(s) : s \in Steps} \cup {Single(v) : v \in Values(i)}
    \cup {Span(v, w, s) : v \in Values(i), w \in Values(i), s \in Steps}

(* Two ranges that overlap, meet or leave a gap. *)
Few(i) ==
  LET f == Fields[i]
  IN  {Everything(0), Everything(2), Single(Num(f.low)), Single(Num(f.high)),
       Span(Num(f.low), Num(f.high), 3), Span(Num(f.high - 1), Num(f.high), 0)}

Lists(i) == {<<r>> : r \in RangesOf(i)} \cup {<<r, q>> : r \in Few(i), q \in Few(i)}

Usual == <<<<Single(Num(5))>>, <<Everything(0)>>, <<Span(Num(1), Num(2), 0)>>,
           <<Everything(0)>>, <<Single(Word("mon"))>>>>

(* One field varies, the others are usual.  A range with a name makes no   *)
(* line of crontab(5).                                                     *)
NoNames(r) == r.from.kind # "word" /\ r.to.kind # "word"

OneField ==
  UNION {{LET f == LineOf([Usual EXCEPT ![i] = l], "root", Run)
          IN  IF l[1].form = "span" /\ ~NoNames(l[1]) THEN Junk(f.text) ELSE f :
            l \in Lists(i)} : i \in 1..5}

(* Every field is first, last or full: the bits at the seams. *)
Edge(i) == LET f == Fields[i] IN {<<Single(Num(f.low))>>, <<Single(Num(f.high))>>, <<Everything(0)>>}

Seams ==
  {LineOf(<<a, b, c, d, g>>, "root", Run) :
     a \in Edge(1), b \in Edge(2), c \in Edge(3), d \in Edge(4), g \in Edge(5)}

(* What can stand around a line, and behind the time. *)
Befores == {<<>>, <<NL>>, <<HASH, Word("note"), NL>>, <<BLANK>>, <<DASH>>,
            <<BLANK, HASH, NL, BLANK, NL>>}
Commands == {<<>>, Run, <<BLANK, STAR>>, <<Word("a"), BLANK, Word("b"), BLANK, Word("c")>>}

Around ==
  {Within(LineOf(Usual, u, c), b, a) :
     u \in Users, c \in Commands, b \in Befores, a \in {<<>>, Next2}}

(* The nicknames. *)
Nicked ==
  {Within(File(<<AT, Word(w), BLANK, Word("root"), BLANK>> \o Run \o <<NL>>,
               StandsFor(w), "root", Run), b, Next2) :
     w \in NicknameWords \cup {"fortnightly"}, b \in {<<>>, <<DASH>>}}

(***************************************************************************)
(* Texts that are no line: a field of up to three arbitrary symbols, with  *)
(* another line behind it, and files that end anywhere.                    *)
(***************************************************************************)
Alphabet == {Num(1), Num(0), Word("mon"), STAR, DASH, COMMA, SLASH, PUNCT, BLANK, NL}

Separate(s) == \A i \in 1..(Len(s) - 1) :
  s[i].kind = s[i + 1].kind => s[i].kind \notin {"number", "word"}

Short(n) == {s \in UNION {[1..k -> Alphabet] : k \in 1..n} : Separate(s)}

Fives == [i \in 1..5 |-> WrittenList(Usual[i])]

OddField(i, n) ==
  {Junk(Line([Fives EXCEPT ![i] = s], "root", Run) \o Next2) : s \in Short(n)}

(* Lines that end in a field, with a line behind them. *)
Up(i) == FlattenSeq([j \in 1..(i - 1) |-> Fives[j] \o <<BLANK>>])

Endings == {<<Num(5), DASH, Num(1)>>, <<Word("mar"), DASH, Word("jan")>>,
            <<Num(Wrapped), DASH, Num(0)>>, <<STAR, SLASH, Num(0)>>,
            <<Num(1), DASH, Num(3), SLASH, Num(0)>>, <<Num(1), COMMA, Num(3), DASH, Num(2)>>,
            <<Num(99)>>, <<Num(1), DASH, Num(99)>>, <<Word("x")>>, <<STAR, SLASH, Word("x")>>,
            <<Num(1), DASH, STAR>>, <<STAR>>}

EndsThere ==
  {Junk(Up(i) \o s \o <<NL>> \o Line(Fives, "root", Run)) : i \in 1..5, s \in Endings}

Dense == LineOf(<<<<Span(Num(1), Num(9), 2), Single(Num(5))>>, <<Everything(2)>>,
                  <<Single(Num(3))>>, <<Span(Word("feb"), Word("may"), 0)>>, Each>>, "root", Run)

Cut ==
  UNION {{Junk(SubSeq(f.text, 1, n)) : n \in 0..Len(f.text)} :
           f \in {Dense, Within(Dense, <<DASH>>, <<>>)} \cup Nicked}

Strangers == {Junk(Line(Fives, "mallory", Run) \o Next2),
              Junk(Line(Fives, "root", Run) \o Next2)}

AllFiles ==
  OneField \cup Seams \cup Around \cup Nicked \cup Cut \cup Strangers \cup EndsThere
    \cup OddField(1, 3) \cup UNION {OddField(i, 2) : i \in 2..5}

MCFiles == AllFiles

(***************************************************************************)
(* Single files for the runs that show where a text says otherwise than    *)
(* the code: "5-1" at the end of a line, with another line behind it; and  *)
(* an entry with a minute beyond int, a range of names and a word behind   *)
(* "*".                                                                    *)
(***************************************************************************)
Backwards == {Junk(<<Num(5), DASH, Num(1), NL>> \o Line(Fives, "root", Run))}

NoLine ==
  {Junk(Line([Fives EXCEPT ![1] = <<Num(Wrapped)>>,
                           ![4] = <<Word("jan"), DASH, Word("mar")>>,
                           ![5] = <<STAR, Word("mon")>>], "root", Run) \o Next2)}
=============================================================================
