------------------------------ MODULE Crontab5 ------------------------------
(***************************************************************************)
(* The lines crontab(5) defines: how a time field is written and which     *)
(* values it stands for, independently of how load_entry reads it.         *)
(*                                                                         *)
(* A field is a list of ranges.  A range is everything, or goes from one   *)
(* value to another (the same for a single value), in steps; step 0 means  *)
(* that no step is written.  Values are numbers or names.                  *)
(***************************************************************************)
EXTENDS LoadEntry

ListItem(form, v, w, step) == [form |-> form, from |-> v, to |-> w, step |-> step]

Everything(step) == ListItem("all", STAR, STAR, step)
Single(v) == ListItem("one", v, v, 0)
Span(v, w, step) == ListItem("span", v, w, step)

(* How a range, a list and a line are written. *)
Written(r) ==
  (IF r.form = "span" THEN <<r.from, DASH, r.to>> ELSE <<r.from>>)
    \o (IF r.step = 0 THEN <<>> ELSE <<SLASH, Num(r.step)>>)

WrittenList(list) ==
  IF Len(list) = 1 THEN Written(list[1])
  ELSE Written(list[1]) \o <<COMMA>> \o Written(list[2])

(* The number a value stands for in field f, and the values of a range. *)
Value(f, v) ==
  IF v.kind = "word" THEN NameIndex(f.names, v.text) - 1 + f.low ELSE v.val

From(f, r) == IF r.form = "all" THEN f.low ELSE Value(f, r.from)
To(f, r) == IF r.form = "all" THEN f.high ELSE Value(f, r.to)

Step(r) == IF r.step = 0 THEN 1 ELSE r.step

Selects(f, r) == {v \in From(f, r)..To(f, r) : (v - From(f, r)) % Step(r) = 0}

Ranges(list) == {list[j] : j \in DOMAIN list}

Meaning(f, list) == UNION {Selects(f, r) : r \in Ranges(list)}

(* "allowed values": both ends of every range lie in the field. *)
Allowed(f, r) == f.low <= From(f, r) /\ From(f, r) <= To(f, r) /\ To(f, r) <= f.high

(* The day of the week 0 or 7 is Sunday, so the field has both. *)
ASSUME TwoSundays == LAST_DOW >= 7

BothSundays(f, S) == IF f.name = dow /\ S \cap {0, 7} # {} THEN S \cup {0, 7} ELSE S

(* What a reader of the entry sees in field f. *)
Stored(f) == {v \in f.low..f.high : bit_test(mem, f.name, v - f.low)}

(* The lines that the nicknames stand for. *)
Zero == <<Single(Num(0))>>
One == <<Single(Num(1))>>
Each == <<Everything(0)>>

StandsFor(w) ==
  CASE w \in {"yearly", "annually"} -> <<Zero, Zero, One, One, Each>>
    [] w = "monthly" -> <<Zero, Zero, One, Each, Each>>
    [] w = "weekly" -> <<Zero, Zero, Each, Each, Zero>>
    [] w \in {"daily", "midnight"} -> <<Zero, Zero, Each, Each, Each>>
    [] w = "hourly" -> <<Zero, Each, Each, Each, Each>>
    [] OTHER -> <<>>

-----------------------------------------------------------------------------
(***************************************************************************)
(* A line in a text, found by where its parts stand.  A list that reaches  *)
(* from p up to q gives each of its ranges a place: the first at p, each   *)
(* other behind the one before it and a comma, the last one ending at q.   *)
(***************************************************************************)
Places(txt, p, q, list, place) ==
  /\ place[1] = p
  /\ \A j \in DOMAIN list :
       LET w == Written(list[j])
           behind == place[j] + Len(w)
       IN  /\ behind <= q
           /\ \A k \in DOMAIN w : txt[place[j] + k - 1] = w[k]
           /\ IF j = Len(list) THEN behind = q
              ELSE txt[behind] = COMMA /\ place[j + 1] = behind + 1

Spells(txt, p, q, list) ==
  \E place \in [DOMAIN list -> p..(q - 1)] : Places(txt, p, q, list, place)

(* What a list of field f is made of: a step stands behind * or a span     *)
(* only, and a single value is a number or one of the names of the field.  *)
(* "Ranges or lists of names are not allowed."                             *)
IsValue(f, v) ==
  v.kind = "number" \/ (v.kind = "word" /\ \E k \in DOMAIN f.names : f.names[k] = v.text)

Items(f) ==
  {r \in [form : {"all", "one", "span"}, from : Symbols, to : Symbols, step : Nat] :
     /\ r.form = "all" => r.from = STAR
     /\ r.form = "one" => IsValue(f, r.from) /\ r.to = r.from /\ r.step = 0
     /\ r.form = "span" => r.from.kind = "number" /\ r.to.kind = "number"}

IsList(f, list) ==
  /\ list \in Seq(Items(f)) /\ list # <<>>
  /\ Len(list) > 1 => \A j \in DOMAIN list : list[j].from.kind # "word"

(* The five fields and the user are words, that is, blanks stand between. *)
NextWord(txt, p) == Skip_Blanks(txt, Skip_Nonblanks(txt, p))

Words(txt, p) ==
  LET p2 == NextWord(txt, p)
      p3 == NextWord(txt, p2)
      p4 == NextWord(txt, p3)
      p5 == NextWord(txt, p4)
  IN  <<p, p2, p3, p4, p5, NextWord(txt, p5)>>

(* The user at u, one blank, and the command up to the newline. *)
UserAndCommand(f, u) ==
  LET q == Find(f.text, u + 2, LineEnd)
  IN  /\ f.user \in Users
      /\ SymbolAt(f.text, u) = Word(f.user) /\ SymbolAt(f.text, u + 1) = BLANK
      /\ q <= Len(f.text) /\ f.cmd = SubSeq(f.text, u + 2, q - 1)

NumericLine(f, p) ==
  /\ \A i \in DOMAIN Fields :
       LET w == Words(f.text, p)[i]
           q == Skip_Nonblanks(f.text, w)
       IN  /\ SymbolAt(f.text, q) = BLANK
           /\ IsList(Fields[i], f.fields[i])
           /\ Spells(f.text, w, q, f.fields[i])
  /\ UserAndCommand(f, Words(f.text, p)[6])

NicknameLine(f, p) ==
  /\ SymbolAt(f.text, p) = AT /\ SymbolAt(f.text, p + 2) = BLANK
  /\ \E w \in NicknameWords \ {"reboot"} :
       SymbolAt(f.text, p + 1) = Word(w) /\ f.fields = StandsFor(w)
  /\ UserAndCommand(f, Skip_Blanks(f.text, p + 2))

(* The first active line of a file; its time may have a "-" in front. *)
FirstField(txt) ==
  IF txt[EntryLine(txt)] = DASH THEN EntryLine(txt) + 1 ELSE EntryLine(txt)

IsLine(f) ==
  /\ UsefulLines(f.text) # {}
  /\ NumericLine(f, FirstField(f.text)) \/ NicknameLine(f, FirstField(f.text))

(* The first active line is an assignment. *)
SettingFirst(f) ==
  /\ UsefulLines(f.text) # {}
  /\ f.text[EntryLine(f.text)].kind = "word"
  /\ SymbolAt(f.text, EntryLine(f.text) + 1) = PUNCT

-----------------------------------------------------------------------------
(***************************************************************************)
(* A file comes with what was written in it: the five lists of its entry   *)
(* (those a nickname stands for), the user and the command.  That is its   *)
(* first active line, unless there is an assignment before it.  A file     *)
(* whose text is no such line comes with no lists.                         *)
(***************************************************************************)
ASSUME FilesAreWritten ==
  \A f \in Files : f.fields # <<>> /\ ~SettingFirst(f) => IsLine(f)

(* Every value is allowed, and no step overflows an int. *)
WellFormed(f) ==
  /\ f.fields # <<>>
  /\ \A i \in DOMAIN Fields : \A r \in Ranges(f.fields[i]) :
       Allowed(Fields[i], r) /\ Step(r) <= INT_MAX - Fields[i].high

(* The system had no memory for the call, or did not look the user up.     *)
Denied == ret = "crash" \/ ecode = "e_memory" \/ lookup = "failed"

(* A line that crontab(5) defines is accepted, unless the system denied    *)
(* something or an assignment stands before it, and the entry then says    *)
(* what the line says: every field holds exactly the values of its list,   *)
(* whatever was read into its neighbours before or after it, and user and  *)
(* command are those of the line (the command cut to the buffer).          *)
Conforms ==
  ret # "none" /\ WellFormed(file) /\ ~SettingFirst(file) /\ ~Denied =>
    /\ ret = "entry"
    /\ \A i \in DOMAIN Fields :
         Stored(Fields[i]) = BothSundays(Fields[i], Meaning(Fields[i], file.fields[i]))
    /\ user = file.user
    /\ cmd = get_string(file.cmd, 1, Len(file.cmd) + 1, MAX_COMMAND)

(* Whatever text was accepted as five fields, each of them selects at      *)
(* least one value, and no bit is set that stands for no value.            *)
SelectsSomething ==
  ret = "entry" /\ field = Len(Fields) =>
    /\ \A i \in DOMAIN Fields : Stored(Fields[i]) # {}
    /\ mem = UNION {{Address(Fields[i].name, v - Fields[i].low) : v \in Stored(Fields[i])} :
                      i \in DOMAIN Fields}

-----------------------------------------------------------------------------
(* The symbols of time field i of the entry, when it was accepted as five. *)
FiveFields == ret = "entry" /\ field = Len(Fields)

SymbolsOf(i) ==
  LET w == Words(text, FirstField(text))[i]
  IN  w..(Skip_Nonblanks(text, w) - 1)

(* "Ranges or lists of names are not allowed": a field with a name has     *)
(* nothing else.                                                           *)
NamesAlone ==
  FiveFields =>
    \A i \in DOMAIN Fields : \A k \in SymbolsOf(i) :
      text[k].kind = "word" /\ IsValue(Fields[i], text[k]) => SymbolsOf(i) = {k}

(* "allowed values": a number that was accepted, other than a step, is one *)
(* of its field.                                                           *)
NumbersAllowed ==
  FiveFields =>
    \A i \in DOMAIN Fields : \A k \in SymbolsOf(i) :
      text[k].kind = "number" =>
        \/ k - 1 \in SymbolsOf(i) /\ text[k - 1] = SLASH
        \/ text[k].val \in Fields[i].low..Fields[i].high

(* "list = range {"," range}": behind "*" in a field that was accepted     *)
(* there is a step, another range or nothing.                              *)
WholeFieldRead ==
  FiveFields =>
    \A i \in DOMAIN Fields : \A k \in SymbolsOf(i) :
      text[k] = STAR /\ k + 1 \in SymbolsOf(i) => text[k + 1] \in {SLASH, COMMA}

(* Five time fields are accepted only if the manual and the grammar in the *)
(* code allow them: in all three respects.                                 *)
AcceptsLinesOnly == NamesAlone /\ NumbersAllowed /\ WholeFieldRead
=============================================================================
