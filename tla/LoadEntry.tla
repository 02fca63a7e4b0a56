------------------------------ MODULE LoadEntry ------------------------------
(***************************************************************************)
(* crontabs::load_entry, as parseCrontab calls it: one call, on a freshly  *)
(* opened file, with no error function, no passwd entry and an empty       *)
(* environment, so that every line is read as a system crontab line.       *)
(*                                                                         *)
(* Any allocation may fail, and so may the lookup of the user, which opens *)
(* the user database.  The entry's bit strings are bits of memory          *)
(* (CronEntry), because the range macros reach past the arrays.            *)
(***************************************************************************)
EXTENDS CrontabText, Nicknames

CONSTANTS
  Files,        \* the files to read (the code sees the text of a file)
  Users,        \* the names getpwnam knows
  LongHome,     \* those whose home directory is too long for an environment string
  MAX_COMMAND,  \* size of the buffer for names and commands
  INT_MAX       \* largest int

ASSUME LoadEntryInputs ==
  /\ \A f \in Files : f.text \in Seq(Symbols)
  /\ LongHome \subseteq Users
  /\ MAX_COMMAND \in Nat /\ MAX_COMMAND > 1
  /\ INT_MAX \in Nat /\ INT_MAX > LAST_MINUTE

(* The one bit that bit_nset sets behind the days of the week lies in the  *)
(* padding before the flags, as it does for 59, 23, 31, 12 and 7.          *)
ASSUME SpareBit == dow + bit_byte(DOW_COUNT) < flagsWord

VARIABLES
  file,   \* the file
  pos,    \* the position of the stream
  ch,     \* the last symbol read, or EOF returned in place of one
  pc,     \* where load_entry is
  field,  \* which time field get_list is reading
  num1, num2, num3,  \* the range that get_range is reading
  mem,    \* the bits of *e that are set
  flags,  \* e->flags
  env,    \* the names in e->envp, and whether there is an array at all
  user,   \* pw->pw_name
  lookup, \* what came of getpwnam; the code reads a failure as "no such user"
  cmd,    \* e->cmd
  heap,   \* what is allocated
  ecode,
  ret     \* what load_entry returned

stream == <<ch, pos>>
range == <<field, num1, num2, num3>>
made == <<flags, env, user, lookup, cmd, heap>>
vars == <<file, stream, pc, range, mem, made, ecode, ret>>

text == file.text

NoEnv == [set |-> FALSE, names |-> <<>>]
NoUser == ""

Init ==
  /\ file \in Files
  /\ pos = 1 /\ ch = EOF /\ pc = "skip"
  /\ field = 1 /\ num1 = 0 /\ num2 = 0 /\ num3 = 0
  /\ mem = {} /\ flags = {}
  /\ env = NoEnv /\ user = NoUser /\ lookup = "none" /\ cmd = <<>>
  /\ heap = {} /\ ecode = "e_none" /\ ret = "none"

(* Read up to and including the symbol at q. *)
ReadTo(q) == ch' = SymbolAt(text, q) /\ pos' = After(text, q)

Return(value) == pc' = "done" /\ ret' = value

(* Slip: the jump without the error code. *)
FailQuietly(code) == pc' = "eof" /\ UNCHANGED <<ecode, ret>>

Fail(code) == pc' = "eof" /\ ecode' = code /\ UNCHANGED ret

Goto(stage) == pc' = stage /\ UNCHANGED <<ecode, ret>>

-----------------------------------------------------------------------------
(***************************************************************************)
(* skip_comments, the first character, and the entry itself.               *)
(***************************************************************************)
LineStart == Skip_Blanks(text, pos)

(* Slip: the newline of the line that is skipped goes back to the stream. *)
SkipLineAgain ==
  /\ pc = "skip"
  /\ SymbolAt(text, LineStart) \in {NL, HASH}
  /\ ch' = NL /\ pos' = Find(text, LineStart, LineEnd)
  /\ UNCHANGED <<file, pc, range, mem, made, ecode, ret>>

SkipLine ==
  /\ pc = "skip"
  /\ SymbolAt(text, LineStart) \in {NL, HASH}
  /\ ReadTo(Find(text, LineStart, LineEnd))
  /\ UNCHANGED <<file, pc, range, mem, made, ecode, ret>>

NoMoreLines ==
  /\ pc = "skip"
  /\ SymbolAt(text, LineStart) = EOF
  /\ ReadTo(LineStart)
  /\ Return("NULL")
  /\ UNCHANGED <<file, range, mem, made, ecode>>

(* The result of calloc is not tested, and every way on writes through it. *)
FirstChar ==
  /\ pc = "skip"
  /\ SymbolAt(text, LineStart) \notin {NL, HASH, EOF}
  /\ ReadTo(LineStart)
  /\ \/ Goto("dash") /\ heap' = {"entry"}
     \/ Return("crash") /\ UNCHANGED <<heap, ecode>>
  /\ UNCHANGED <<file, range, mem, flags, env, user, lookup, cmd>>

(* "-" switches logging off.  At the end of the file nothing is freed. *)
Dash ==
  /\ pc = "dash"
  /\ IF ch = DASH
     THEN /\ flags' = {"DONT_LOG"}
          /\ ReadTo(pos)
          /\ IF ch' = EOF THEN Return("NULL") /\ UNCHANGED ecode ELSE Goto("time")
     ELSE Goto("time") /\ UNCHANGED <<stream, flags>>
  /\ UNCHANGED <<file, range, mem, env, user, lookup, cmd, heap>>

-----------------------------------------------------------------------------
(* The @-nicknames, behind "@". *)
AtNickname ==
  /\ pc = "time" /\ ch = AT
  /\ LET q == Find(text, pos, WordEnd)
         r == Skip_Blanks(text, q)
         name == get_string(text, pos, q, MAX_COMMAND)
     IN  \/ /\ \E w \in NicknameWords :
                 /\ name = <<Word(w)>>
                 /\ mem' = Nickname(w).mem
                 /\ flags' = flags \cup Nickname(w).flags
            /\ ReadTo(r)
            /\ IF ch' \in {NL, EOF} THEN Fail("e_cmd") ELSE Goto("sundays")
         \/ /\ \A w \in NicknameWords : name # <<Word(w)>>
            /\ ReadTo(q)
            /\ Fail("e_timespec")
            /\ UNCHANGED <<mem, flags>>
  /\ UNCHANGED <<file, range, env, user, lookup, cmd, heap>>

AtNumerics ==
  /\ pc = "time" /\ ch # AT
  /\ Goto("field")
  /\ UNCHANGED <<file, stream, range, mem, made>>

-----------------------------------------------------------------------------
(***************************************************************************)
(* The five time fields, in the order load_entry reads them.               *)
(***************************************************************************)
MonthNames == <<"jan", "feb", "mar", "apr", "may", "jun",
                "jul", "aug", "sep", "oct", "nov", "dec">>
DowNames == <<"sun", "mon", "tue", "wed", "thu", "fri", "sat", "sun">>

FieldSpec(name, low, high, names, star, code) ==
  [name |-> name, low |-> low, high |-> high, names |-> names,
   star |-> star, code |-> code]

Fields == <<
  FieldSpec(minute, FIRST_MINUTE, LAST_MINUTE, <<>>, "MIN_STAR", "e_minute"),
  FieldSpec(hour, FIRST_HOUR, LAST_HOUR, <<>>, "HR_STAR", "e_hour"),
  FieldSpec(dom, FIRST_DOM, LAST_DOM, <<>>, "DOM_STAR", "e_dom"),
  FieldSpec(month, FIRST_MONTH, LAST_MONTH, MonthNames, "MON_STAR", "e_month"),
  FieldSpec(dow, FIRST_DOW, LAST_DOW, DowNames, "DOW_STAR", "e_dow")>>

(* The star flag, and the start of get_list: clear the field, and one bit  *)
(* more.                                                                   *)
FieldStart ==
  /\ pc = "field"
  /\ LET f == Fields[field]
     IN  /\ flags' = IF ch = STAR THEN flags \cup {f.star} ELSE flags
         /\ mem' = bit_nclear(mem, f.name, 0, f.high - f.low + 1)
  /\ Goto("range")
  /\ UNCHANGED <<file, stream, range, env, user, lookup, cmd, heap>>

(***************************************************************************)
(* get_number.  c is the symbol last read and p the position of the        *)
(* stream; the result says whether there was a number, the terminator and  *)
(* the position behind it.  Without a number the symbol that stopped it    *)
(* goes back to the stream and EOF is returned.                            *)
(***************************************************************************)
(* Slip: the symbol is not put back. *)
NoNumberKept(c, p) == [ok |-> FALSE, num |-> 0, ch |-> EOF, pos |-> p]

NoNumber(c, p) == [ok |-> FALSE, num |-> 0, ch |-> EOF, pos |-> unget_char(c, p)]

(* atoi of a number beyond int wraps around. *)
atoi(n) == ((n + INT_MAX + 1) % (2 * (INT_MAX + 1))) - (INT_MAX + 1)

NameIndex(names, w) == CHOOSE i \in DOMAIN names :
  names[i] = w /\ \A j \in DOMAIN names : names[j] = w => i <= j

(* What a number or a name is taken for. *)
NumberOf(low, names, c) ==
  IF c.kind = "number" THEN atoi(c.val) ELSE NameIndex(names, c.text) - 1 + low

get_number(low, names, c, p, terms) ==
  LET d == SymbolAt(text, p)
      digits == c.kind = "number"
      known == c.kind = "word" /\ \E i \in DOMAIN names : names[i] = c.text
      value == NumberOf(low, names, c)
  IN  IF (digits \/ known) /\ d.kind \in terms
      THEN [ok |-> TRUE, num |-> value, ch |-> d, pos |-> After(text, p)]
      ELSE IF digits \/ (c.kind = "word" /\ names # <<>>) THEN NoNumber(d, After(text, p))
      ELSE NoNumber(c, p)

(* Set the bits of the numbers S of field f. *)
SetBits(m, f, S) == m \cup {Address(f.name, i - f.low) : i \in S}

(***************************************************************************)
(* get_range: two bounds, an optional step, and the loop over set_element. *)
(* A range that is refused ends the call with the error of its field.      *)
(*                                                                         *)
(* The refusals at num1 > num2 and at num3 == 0 keep the terminator that   *)
(* get_number has read; the others have pushed it back.                    *)
(***************************************************************************)
Refuse(p) == ch' = EOF /\ pos' = p /\ Fail(Fields[field].code)

(* "*" stands for first-last. *)
RangeStar ==
  /\ pc = "range" /\ ch = STAR
  /\ num1' = Fields[field].low /\ num2' = Fields[field].high
  /\ ReadTo(pos)
  /\ IF ch' = EOF THEN Fail(Fields[field].code) ELSE Goto("step")
  /\ UNCHANGED <<file, field, num3, mem, made>>

RangeNumber ==
  /\ pc = "range" /\ ch # STAR
  /\ LET f == Fields[field]
         n == get_number(f.low, f.names, ch, pos, {",", "-", "blank", "newline"})
     IN  \/ ~n.ok /\ Refuse(n.pos) /\ UNCHANGED <<num1, mem>>
         \/ /\ n.ok /\ n.ch = DASH
            /\ num1' = n.num
            /\ ch' = n.ch /\ pos' = n.pos /\ Goto("span")
            /\ UNCHANGED mem
         \/ /\ n.ok /\ n.ch # DASH
            /\ num1' = n.num
            /\ IF n.num \in f.low..f.high
               THEN mem' = SetBits(mem, f, {n.num}) /\ ch' = n.ch /\ pos' = n.pos /\ Goto("list")
               ELSE Refuse(unget_char(n.ch, n.pos)) /\ UNCHANGED mem
  /\ UNCHANGED <<file, field, num2, num3, made>>

(* The number behind the dash. *)
RangeSpan ==
  /\ pc = "span"
  /\ LET f == Fields[field]
         d == SymbolAt(text, pos)
         n == get_number(f.low, f.names, d, After(text, pos), {"/", ",", "blank", "newline"})
     IN  IF ~n.ok \/ num1 > n.num
         THEN Refuse(n.pos) /\ UNCHANGED num2
         ELSE num2' = n.num /\ ch' = n.ch /\ pos' = n.pos /\ Goto("step")
  /\ UNCHANGED <<file, field, num1, num3, mem, made>>

RangeStep ==
  /\ pc = "step"
  /\ LET d == SymbolAt(text, pos)
         n == get_number(0, <<>>, d, After(text, pos), {",", "blank", "newline"})
     IN  \/ ch # SLASH /\ num3' = 1 /\ Goto("elements") /\ UNCHANGED stream
         \/ /\ ch = SLASH
            /\ IF ~n.ok \/ n.num = 0
               THEN Refuse(n.pos) /\ UNCHANGED num3
               ELSE num3' = n.num /\ ch' = n.ch /\ pos' = n.pos /\ Goto("elements")
  /\ UNCHANGED <<file, field, num1, num2, mem, made>>

(* Slip: steps counted from zero, not from num1. *)
VisitedFromZero == {i \in num1..num2 : num3 > 0 /\ i % num3 = 0}

(* for (i = num1; i <= num2; i += num3): the numbers it visits while they  *)
(* stay in int.  A step past the last one that overflows is undefined: the *)
(* loop ends, or goes on with a negative number, which set_element refuses.*)
Visited == {i \in num1..num2 : num3 > 0 /\ (i - num1) % num3 = 0}

(* Slip: no upper bound. *)
InFieldFromBelow == num3 > 0 /\ num1 >= Fields[field].low

InField == num3 > 0 /\ Visited \subseteq Fields[field].low..Fields[field].high

Overflows == \E i \in Visited : i > INT_MAX - num3

RangeElements ==
  /\ pc = "elements"
  /\ \/ /\ InField
        /\ mem' = SetBits(mem, Fields[field], Visited)
        /\ Goto("list") /\ UNCHANGED stream
     \/ /\ ~InField \/ Overflows
        /\ Refuse(unget_char(ch, pos)) /\ UNCHANGED mem
  /\ UNCHANGED <<file, range, made>>

(***************************************************************************)
(* get_list behind a range: a comma and the next range, or the end of the  *)
(* list, where whatever else the field holds is skipped, and the blanks.   *)
(***************************************************************************)
NextRange ==
  /\ pc = "list" /\ ch = COMMA
  /\ ReadTo(pos)
  /\ Goto("range")
  /\ UNCHANGED <<file, range, mem, made>>

ListEnd ==
  /\ pc = "list" /\ ch # COMMA
  /\ ReadTo(Skip_Blanks(text, Skip_Nonblanks(text, pos - 1)))
  /\ IF ch' = EOF THEN Fail(Fields[field].code) /\ UNCHANGED field
     ELSE IF field < Len(Fields) THEN Goto("field") /\ field' = field + 1
     ELSE Goto("sundays") /\ UNCHANGED field
  /\ UNCHANGED <<file, num1, num2, num3, mem, made>>

-----------------------------------------------------------------------------
(***************************************************************************)
(* Behind the time: the two Sundays, the user, the copy of his passwd      *)
(* entry.                                                                  *)
(***************************************************************************)
Sundays(m) ==
  IF bit_test(m, dow, 0) \/ bit_test(m, dow, 7)
  THEN bit_set(bit_set(m, dow, 0), dow, 7) ELSE m

EndOfTime ==
  /\ pc = "sundays"
  /\ mem' = Sundays(mem)
  /\ IF ch \in {NL, STAR} THEN Fail("e_cmd") /\ UNCHANGED pos
     ELSE Goto("user") /\ pos' = unget_char(ch, pos)
  /\ UNCHANGED <<file, ch, range, made>>

(* getpwnam answers, or fails for want of a descriptor, of memory or of a  *)
(* database that can be read; either way NULL means e_username.            *)
Username ==
  /\ pc = "user"
  /\ LET q == Find(text, pos, WordEnd)
         name == get_string(text, pos, q, MAX_COMMAND)
     IN  /\ ReadTo(q)
         /\ \/ ch' \in {NL, EOF} /\ Fail("e_cmd") /\ UNCHANGED <<user, lookup>>
            \/ /\ ch' \notin {NL, EOF} /\ lookup' = "failed"
               /\ Fail("e_username") /\ UNCHANGED user
            \/ /\ ch' \notin {NL, EOF} /\ lookup' = "answered"
               /\ \A u \in Users : name # <<Word(u)>>
               /\ Fail("e_username") /\ UNCHANGED user
            \/ /\ ch' \notin {NL, EOF} /\ lookup' = "answered"
               /\ \E u \in Users : name = <<Word(u)>> /\ user' = u
               /\ Goto("pw_dup")
  /\ UNCHANGED <<file, range, mem, flags, env, cmd, heap>>

(* An allocation of block that leads to stage, or fails. *)
Alloc(block, stage) ==
  \/ heap' = heap \cup {block} /\ Goto(stage)
  \/ UNCHANGED heap /\ Fail("e_memory")

PwDup ==
  /\ pc = "pw_dup"
  /\ Alloc("passwd", "env_copy")
  /\ UNCHANGED <<file, stream, range, mem, flags, env, user, lookup, cmd>>

(***************************************************************************)
(* The environment.  envp is the empty array that parseCrontab got from    *)
(* env_init, or NULL if that failed: env_copy reads through it.            *)
(***************************************************************************)
EnvCopy ==
  /\ pc = "env_copy"
  /\ \/ Return("crash") /\ UNCHANGED <<heap, env, ecode>>
     \/ /\ Alloc("environ", "SHELL")
        /\ env' = IF "environ" \in heap' THEN [env EXCEPT !.set = TRUE] ELSE env
  /\ UNCHANGED <<file, stream, range, mem, flags, user, lookup, cmd>>

(* The variables in the order they are set, and what comes next. *)
Variables == <<"SHELL", "HOME", "PATH", "LOGNAME", "USER">>

Following(name) ==
  LET i == CHOOSE i \in DOMAIN Variables : Variables[i] = name
  IN  IF i = Len(Variables) THEN "command" ELSE Variables[i + 1]

(* The first three are defaults, left alone when they are there already. *)
Wanted(name) ==
  name \in {"SHELL", "HOME", "PATH"} =>
    \A i \in DOMAIN env.names : env.names[i] # name

glue_strings(name) == ~(name = "HOME" /\ user \in LongHome)

(* env_set of a name that is not in the array yet (no name is set twice    *)
(* here): duplicate the string, then make room for it.  Without room the   *)
(* duplicate is freed, and the array stays as it was.                      *)
env_set(name) ==
  \/ /\ heap' = heap \cup {name}
     /\ env' = [env EXCEPT !.names = Append(@, name)]
     /\ Goto(Following(name))
  \/ Fail("e_memory") /\ UNCHANGED <<heap, env>>

SetVariable ==
  /\ pc \in {Variables[i] : i \in DOMAIN Variables}
  /\ IF Wanted(pc) /\ glue_strings(pc) THEN env_set(pc)
     ELSE Goto(Following(pc)) /\ UNCHANGED <<heap, env>>
  /\ UNCHANGED <<file, stream, range, mem, flags, user, lookup, cmd>>

-----------------------------------------------------------------------------
(* The rest of the line is the command. *)
Command ==
  /\ pc = "command"
  /\ LET q == Find(text, pos, LineEnd)
     IN  /\ ReadTo(q)
         /\ IF ch' = EOF THEN Fail("e_cmd") /\ UNCHANGED <<heap, cmd>>
            ELSE \/ /\ heap' = heap \cup {"cmd"}
                    /\ cmd' = get_string(text, pos, q, MAX_COMMAND)
                    /\ Return("entry") /\ UNCHANGED ecode
                 \/ Fail("e_memory") /\ UNCHANGED <<heap, cmd>>
  /\ UNCHANGED <<file, range, mem, flags, env, user, lookup>>

(* The label eof: free what the entry points to, then the entry, and go to *)
(* the end of the line.                                                    *)
Owned ==
  {"entry", "passwd", "cmd"}
    \cup (IF env.set THEN {"environ"} \cup {env.names[i] : i \in DOMAIN env.names}
          ELSE {})

(* Slip: the passwd entry is forgotten. *)
EofKeepsPasswd ==
  /\ pc = "eof"
  /\ heap' = heap \ (Owned \ {"passwd"})
  /\ IF ch = NL \/ feof(text, pos) THEN UNCHANGED stream
     ELSE ReadTo(Find(text, pos, LineEnd))
  /\ Return("NULL")
  /\ UNCHANGED <<file, range, mem, flags, env, user, lookup, cmd, ecode>>

Eof ==
  /\ pc = "eof"
  /\ heap' = heap \ Owned
  /\ IF ch = NL \/ feof(text, pos) THEN UNCHANGED stream
     ELSE ReadTo(Find(text, pos, LineEnd))
  /\ Return("NULL")
  /\ UNCHANGED <<file, range, mem, flags, env, user, lookup, cmd, ecode>>

Next ==
  \/ SkipLine \/ NoMoreLines \/ FirstChar \/ Dash
  \/ AtNickname \/ AtNumerics \/ FieldStart \/ RangeStar
  \/ RangeNumber \/ RangeSpan \/ RangeStep \/ RangeElements \/ NextRange \/ ListEnd
  \/ EndOfTime \/ Username \/ PwDup \/ EnvCopy \/ SetVariable \/ Command \/ Eof

(* One thread reads the file to the end of the call. *)
Spec == Init /\ [][Next]_vars /\ WF_vars(Next)

-----------------------------------------------------------------------------
Stages == {"skip", "dash", "time", "field", "range", "span", "step",
           "elements", "list", "sundays", "user", "pw_dup",
           "env_copy", "SHELL", "HOME", "PATH", "LOGNAME", "USER", "command",
           "eof", "done"}

Blocks == {"entry", "passwd", "environ", "SHELL", "HOME", "PATH", "LOGNAME",
           "USER", "cmd"}

ECodes == {"e_none", "e_minute", "e_hour", "e_dom", "e_month", "e_dow", "e_cmd",
           "e_timespec", "e_username", "e_memory"}

(* Type invariant: the stream stays inside the file, every write to the    *)
(* bit strings stays before the flags that follow them in the entry, and   *)
(* an error code is set exactly on the way out through the label eof.      *)
TypeOK ==
  /\ file \in Files
  /\ pos \in 1..(Len(text) + 2)
  /\ ch \in Symbols \cup {EOF}
  /\ pc \in Stages
  /\ field \in 1..Len(Fields) /\ {num1, num2, num3} \subseteq Int
  /\ mem \subseteq 0..(8 * flagsWord - 1)
  /\ flags \subseteq Flags
  /\ env \in [set : BOOLEAN, names : Seq(Blocks)]
  /\ user \in Users \cup {NoUser} /\ lookup \in {"none", "answered", "failed"}
  /\ cmd \in Seq(Symbols)
  /\ heap \subseteq Blocks
  /\ ecode \in ECodes
  /\ ret \in {"none", "NULL", "entry", "crash"}
  /\ pc = "done" <=> ret # "none"
  /\ pc = "eof" => ecode # "e_none"

(***************************************************************************)
(* The line of the entry: from the first symbol that is not blank of the   *)
(* first line that is neither empty nor a comment, to its newline.         *)
(***************************************************************************)
LineBegins(txt) == {1} \cup {i + 1 : i \in {j \in DOMAIN txt : txt[j] = NL}}

UsefulLines(txt) ==
  {Skip_Blanks(txt, i) : i \in LineBegins(txt)}
    \cap {i \in DOMAIN txt : txt[i] \notin {NL, HASH}}

EntryLine(txt) == CHOOSE i \in UsefulLines(txt) : \A j \in UsefulLines(txt) : i <= j

EndOf(txt, line) == After(txt, Find(txt, line, LineEnd))

(* Up to the newline at q the line ends with a range of field f that goes  *)
(* backwards, or with a step of zero: get_number has then read the newline *)
(* and get_range drops it.                                                 *)
IsNumber(names, c) ==
  \/ c.kind = "number"
  \/ c.kind = "word" /\ \E i \in DOMAIN names : names[i] = c.text

EndsBackwards(txt, f, q) ==
  /\ q - 3 \in DOMAIN txt /\ txt[q - 2] = DASH
  /\ IsNumber(f.names, txt[q - 3]) /\ IsNumber(f.names, txt[q - 1])
  /\ NumberOf(f.low, f.names, txt[q - 3]) > NumberOf(f.low, f.names, txt[q - 1])

EndsInZeroStep(txt, q) ==
  /\ q - 2 \in DOMAIN txt /\ txt[q - 2] = SLASH
  /\ txt[q - 1].kind = "number" /\ NumberOf(0, <<>>, txt[q - 1]) = 0

DropsNewline(txt, f, q) == EndsBackwards(txt, f, q) \/ EndsInZeroStep(txt, q)

(* A call takes the line of its entry and no more.  Only a time field that *)
(* is refused for a backwards range or a step of zero right before the     *)
(* newline takes the following line along.                                 *)
StaysInStep ==
  /\ ret = "entry" => pos = EndOf(text, EntryLine(text))
  /\ ret = "NULL" /\ UsefulLines(text) # {} =>
       \/ pos = EndOf(text, EntryLine(text))
       \/ /\ pos = EndOf(text, EndOf(text, EntryLine(text)))
          /\ ecode = Fields[field].code
          /\ DropsNewline(text, Fields[field], Find(text, EntryLine(text), LineEnd))

(* "this function reads one crontab entry -- the next": also when it is    *)
(* refused, the stream is left behind its line and before the following.   *)
ReadsOneEntry ==
  ret # "none" /\ ret # "crash" /\ UsefulLines(text) # {} =>
    pos = EndOf(text, EntryLine(text))

(* The call leaves no garbage.  A refusal frees all that it had allocated  *)
(* (a "-" that ends the file apart), and an entry owns all there is.       *)
NoGarbage ==
  /\ ret = "NULL" => heap = {} \/ (heap = {"entry"} /\ text[Len(text)] = DASH)
  /\ ret = "entry" => heap = Owned

(* Every symbol is read once or twice: the call comes to an end.           *)
Ends == <>(pc = "done")
=============================================================================
