----------------------------- MODULE CrontabText -----------------------------
(***************************************************************************)
(* The text of a crontab file and the stdio stream that reads it.          *)
(*                                                                         *)
(* A file is a sequence of symbols.  A run of digits is one symbol, known  *)
(* by the number it spells, and a run of letters is one symbol, known by   *)
(* the word; every other symbol is one character.  Space and tab are not   *)
(* told apart.                                                             *)
(***************************************************************************)
EXTENDS CronEntry, Sequences

Symbol(kind, val, text) == [kind |-> kind, val |-> val, text |-> text]

Num(n) == Symbol("number", n, "")
Word(w) == Symbol("word", 0, w)
Char(c) == Symbol(c, 0, "")

STAR == Char("*")
DASH == Char("-")
COMMA == Char(",")
SLASH == Char("/")
AT == Char("@")
HASH == Char("#")
BLANK == Char("blank")
PUNCT == Char("other")
NL == Char("newline")
EOF == Char("EOF")

Kinds == {"number", "word", "*", "-", ",", "/", "@", "#", "blank", "other", "newline"}

(* What a file is made of: a character is known by its kind alone. *)
Symbols ==
  {s \in [kind : Kinds, val : Nat, text : STRING] :
     s.kind \notin {"number", "word"} => s = Char(s.kind)}

(***************************************************************************)
(* A position is the number of the symbol that the next getc returns.      *)
(* Behind the last symbol getc returns EOF, and the position one further   *)
(* means that it has: feof is true.                                        *)
(***************************************************************************)
SymbolAt(text, p) == IF p <= Len(text) THEN text[p] ELSE EOF

(* Position of the stream once the symbol at p has been read. *)
After(text, p) == IF p <= Len(text) THEN p + 1 ELSE Len(text) + 2

feof(text, p) == p = Len(text) + 2

(* ungetc(c) after c was read: EOF is not pushed back. *)
unget_char(c, p) == IF c = EOF THEN p ELSE p - 1

(***************************************************************************)
(* The reading loops stop at the first symbol, from p on, of a kind they   *)
(* look for; all of them stop at EOF.                                      *)
(***************************************************************************)
Find(text, p, kinds) ==
  LET stops == {q \in p..Len(text) : text[q].kind \in kinds}
  IN  IF stops = {} THEN Len(text) + 1
      ELSE CHOOSE q \in stops : \A r \in stops : q <= r

LineEnd == {"newline"}
WordEnd == {"blank", "newline"}
NonBlank == {"number", "word", "*", "-", ",", "/", "@", "#", "other", "newline"}

Skip_Blanks(text, p) == Find(text, p, NonBlank)
Skip_Nonblanks(text, p) == Find(text, p, WordEnd)

(* What get_string stores: the symbols up to the terminator at q, as many  *)
(* as the buffer holds.                                                    *)
get_string(text, p, q, size) ==
  SubSeq(text, p, IF q - p < size THEN q - 1 ELSE p + size - 2)
=============================================================================
