--------------------------- MODULE Crontab5Proofs ---------------------------
(***************************************************************************)
(* Proofs that an accepted entry selects something in every field and      *)
(* nothing outside the fields, whatever text it was read from, and that a  *)
(* line crontab(5) defines is read as what it says.                        *)
(***************************************************************************)
EXTENDS Crontab5, LoadEntryProofs

-----------------------------------------------------------------------------
(***************************************************************************)
(* The bits of a field, and where they lie: behind those of the fields     *)
(* that are read before it.                                                *)
(***************************************************************************)
FirstBit(i) == 8 * Fields[i].name
Count(i) == Fields[i].high - Fields[i].low + 1

Bits(i) == FirstBit(i)..(FirstBit(i) + Count(i) - 1)
AllBits == UNION {Bits(i) : i \in 1..5}

LEMMA FieldPlaces ==
  /\ \A i \in 1..5 : Fields[i].name \in Nat /\ Count(i) \in Nat \ {0}
  /\ \A i \in 1..4 : FirstBit(i) + Count(i) <= FirstBit(i + 1)
<1>1. /\ MINUTE_COUNT \in Nat \ {0} /\ HOUR_COUNT \in Nat \ {0} /\ DOM_COUNT \in Nat \ {0}
      /\ MONTH_COUNT \in Nat \ {0} /\ DOW_COUNT \in Nat \ {0}
  BY FieldBounds DEF MINUTE_COUNT, HOUR_COUNT, DOM_COUNT, MONTH_COUNT, DOW_COUNT,
                     FIRST_MINUTE, FIRST_HOUR, FIRST_DOM, FIRST_MONTH, FIRST_DOW
<1>2. minute \in Nat /\ hour \in Nat /\ 8 * minute + MINUTE_COUNT <= 8 * hour
  BY <1>1, SizeIs DEF minute, hour
<1>3. dom \in Nat /\ 8 * hour + HOUR_COUNT <= 8 * dom
  BY <1>1, <1>2, SizeIs DEF dom
<1>4. month \in Nat /\ 8 * dom + DOM_COUNT <= 8 * month
  BY <1>1, <1>3, SizeIs DEF month
<1>5. dow \in Nat /\ 8 * month + MONTH_COUNT <= 8 * dow
  BY <1>1, <1>4, SizeIs DEF dow
<1>6. /\ Fields[1].name = minute /\ Count(1) = MINUTE_COUNT
      /\ Fields[2].name = hour /\ Count(2) = HOUR_COUNT
      /\ Fields[3].name = dom /\ Count(3) = DOM_COUNT
      /\ Fields[4].name = month /\ Count(4) = MONTH_COUNT
      /\ Fields[5].name = dow /\ Count(5) = DOW_COUNT
  BY DEF Fields, FieldSpec, Count, MINUTE_COUNT, HOUR_COUNT, DOM_COUNT, MONTH_COUNT, DOW_COUNT
<1>7. \A i \in 1..5 : Fields[i].name \in Nat /\ Count(i) \in Nat \ {0}
  BY <1>1, <1>2, <1>3, <1>4, <1>5, <1>6
<1>8. \A i \in 1..4 : FirstBit(i) + Count(i) <= FirstBit(i + 1)
  BY <1>2, <1>3, <1>4, <1>5, <1>6 DEF FirstBit
<1> QED
  BY <1>7, <1>8

LEMMA FieldsAscend ==
  ASSUME NEW i \in 1..5, NEW j \in 1..5, j < i
  PROVE  FirstBit(j) + Count(j) <= FirstBit(i)
<1>1. PICK p1, p2, p3, p4, p5, c1, c2, c3, c4 :
        /\ p1 = FirstBit(1) /\ p2 = FirstBit(2) /\ p3 = FirstBit(3) /\ p4 = FirstBit(4) /\ p5 = FirstBit(5)
        /\ c1 = Count(1) /\ c2 = Count(2) /\ c3 = Count(3) /\ c4 = Count(4)
  OBVIOUS
<1>2. /\ {p1, p2, p3, p4, p5, c1, c2, c3, c4} \subseteq Nat
      /\ p1 + c1 <= p2 /\ p2 + c2 <= p3 /\ p3 + c3 <= p4 /\ p4 + c4 <= p5
  BY <1>1, FieldPlaces DEF FirstBit
<1> QED
  BY <1>1, <1>2

(* The bit of a number of the field. *)
LEMMA BitOf ==
  ASSUME NEW i \in 1..5, NEW v \in Fields[i].low..Fields[i].high
  PROVE  Address(Fields[i].name, v - Fields[i].low) = FirstBit(i) + (v - Fields[i].low)
         /\ FirstBit(i) + (v - Fields[i].low) \in Bits(i)
<1>1. PICK f : f = Fields[i]
  OBVIOUS
<1>2. f.low \in Nat /\ f.high \in Nat /\ f.name \in Nat
  BY <1>1, FieldsAre, FieldPlaces
<1>3. v - f.low \in Nat /\ v - f.low <= f.high - f.low
  BY <1>1, <1>2
<1>4. Address(f.name, v - f.low) = 8 * f.name + (v - f.low)
  BY <1>2, <1>3, AddressIs
<1> QED
  BY <1>1, <1>2, <1>3, <1>4 DEF Bits, FirstBit, Count

(* A bit of the field is that of a number. *)
LEMMA BitNumber ==
  ASSUME NEW i \in 1..5, NEW b \in Bits(i)
  PROVE  \E v \in Fields[i].low..Fields[i].high : b = Address(Fields[i].name, v - Fields[i].low)
<1>1. PICK f : f = Fields[i]
  OBVIOUS
<1>2. f.low \in Nat /\ f.high \in Nat /\ f.name \in Nat
  BY <1>1, FieldsAre, FieldPlaces
<1>3. PICK v : v = b - 8 * f.name + f.low
  OBVIOUS
<1>4. v \in f.low..f.high /\ b = FirstBit(i) + (v - f.low)
  BY <1>1, <1>2, <1>3 DEF Bits, FirstBit, Count
<1> QED
  BY <1>1, <1>4, BitOf

-----------------------------------------------------------------------------
(***************************************************************************)
(* The inductive invariant.  While the fields are read, those read before  *)
(* have a bit each, and the one that is being read gets its bit with its   *)
(* first range: a range that is not refused visits at least its lower end. *)
(* Clearing a field reaches one bit past it, into the field after it,      *)
(* which is still to be read.                                              *)
(***************************************************************************)
Chosen(i) == mem \cap Bits(i) # {}

InTime == {"field", "range", "span", "step", "elements", "list"}
BehindTime == {"sundays", "user"} \cup Making

Selecting ==
  /\ pc \in {"skip", "dash", "time"} => field = 1 /\ mem = {}
  /\ pc \in InTime => mem \subseteq AllBits /\ \A i \in 1..(field - 1) : Chosen(i)
  /\ pc \in {"step", "elements"} => num1 <= num2
  /\ pc = "list" => Chosen(field)
  /\ (pc \in BehindTime \/ ret = "entry") /\ field = 5 =>
       mem \subseteq AllBits /\ \A i \in 1..5 : Chosen(i)

LEMMA SelectingInit == Init => Selecting
BY DEF Init, Selecting, InTime, BehindTime, Making

(* bit_nclear spares the fields before. *)
LEMMA ClearingSpares ==
  ASSUME NEW i \in 1..5, NEW j \in 1..5, j < i,
         NEW b \in mem \cap Bits(j)
  PROVE  b \in bit_nclear(mem, Fields[i].name, 0, Fields[i].high - Fields[i].low + 1)
<1>1. PICK p, c, q, d : p = FirstBit(j) /\ c = Count(j) /\ q = FirstBit(i) /\ d = Count(i)
  OBVIOUS
<1>2. p \in Nat /\ c \in Nat /\ q \in Nat /\ d \in Nat /\ p + c <= q
  BY <1>1, FieldPlaces, FieldsAscend DEF FirstBit
<1>3. b \in Int /\ b < q
  BY <1>1, <1>2 DEF Bits
<1>4. NclearBits(0, d) = 0..d
  BY <1>2, NclearExact
<1>5. b \notin {q + k : k \in 0..d}
  BY <1>2, <1>3
<1> QED
  BY <1>1, <1>4, <1>5 DEF bit_nclear, FirstBit, Count

(* Setting numbers of a field chooses it, and keeps what is chosen. *)
LEMMA SettingChooses ==
  ASSUME NEW i \in 1..5, NEW S, S \subseteq Fields[i].low..Fields[i].high, S # {},
         mem \subseteq AllBits, mem' = SetBits(mem, Fields[i], S)
  PROVE  /\ mem' \subseteq AllBits /\ mem \subseteq mem'
         /\ mem' \cap Bits(i) # {}
<1>1. \A v \in S : Address(Fields[i].name, v - Fields[i].low) \in Bits(i)
  BY BitOf
<1> QED
  BY <1>1 DEF SetBits, AllBits

LEMMA VisitedFirst ==
  ASSUME num1 \in Int, num2 \in Int, num3 \in Int, num1 <= num2, num3 > 0
  PROVE  num1 \in Visited
<1>1. (num1 - num1) % num3 = 0
  BY SMT
<1> QED
  BY <1>1 DEF Visited

LEMMA SundaysChosen ==
  ASSUME mem \subseteq AllBits, mem' = Sundays(mem)
  PROVE  mem' \subseteq AllBits /\ mem \subseteq mem'
<1>1. /\ Fields[5].name = dow /\ Fields[5].low = 0 /\ Fields[5].high = LAST_DOW
  BY DEF Fields, FieldSpec, FIRST_DOW
<1>2. 0 \in 0..LAST_DOW /\ 7 \in 0..LAST_DOW
  BY FieldBounds, TwoSundays
<1>3. Address(dow, 0 - 0) \in Bits(5) /\ Address(dow, 7 - 0) \in Bits(5)
  BY <1>1, <1>2, BitOf
<1>4. Address(dow, 0) \in Bits(5) /\ Address(dow, 7) \in Bits(5)
  BY <1>3
<1> QED
  BY <1>4 DEF Sundays, bit_set, AllBits

(* Nothing is said of a call that goes to eof, or returns no entry. *)
LEMMA SelectingStops ==
  ASSUME pc' \in {"eof", "done"}, ret' # "entry"
  PROVE  Selecting'
BY DEF Selecting, InTime, BehindTime, Making

(* The stages behind the time leave the fields alone. *)
LEMMA SelectingKeeps ==
  ASSUME Selecting, pc \in BehindTime, pc' \in BehindTime \cup {"done"},
         UNCHANGED <<field, mem>>
  PROVE  Selecting'
BY DEF Selecting, InTime, BehindTime, Making, Chosen

LEMMA SelectingNext ==
  ASSUME TypeOK, TypeOK', Selecting, [Next]_vars
  PROVE  Selecting'
<1>0. /\ field \in 1..5 /\ field' \in 1..5 /\ Len(Fields) = 5
      /\ {num1, num2, num3} \subseteq Int /\ {num1', num2', num3'} \subseteq Int
      /\ pc # "done" => ret = "none"
  BY FieldsAre DEF TypeOK
<1>1. PICK f : f = Fields[field]
  OBVIOUS
<1>2. f.low \in Nat /\ f.high \in Nat /\ f.low <= f.high
  BY <1>0, <1>1, FieldsAre, FieldPlaces DEF Count
<1>3. ASSUME SkipLine \/ NoMoreLines \/ FirstChar \/ Dash PROVE Selecting'
  BY <1>0, <1>3 DEF SkipLine, NoMoreLines, FirstChar, Dash, Goto, Return, range, made,
     Selecting, InTime, BehindTime, Making
<1>4. ASSUME AtNickname PROVE Selecting'
  BY <1>0, <1>4 DEF AtNickname, Goto, Fail, range, Selecting, InTime, BehindTime, Making
<1>5. ASSUME AtNumerics PROVE Selecting'
  BY <1>0, <1>5 DEF AtNumerics, Goto, range, Selecting, InTime, BehindTime, Making
<1>6. ASSUME FieldStart PROVE Selecting'
  <2>1. /\ pc' = "range" /\ field' = field /\ ret' = "none" /\ pc = "field"
        /\ mem' = bit_nclear(mem, f.name, 0, f.high - f.low + 1)
    BY <1>0, <1>1, <1>6 DEF FieldStart, Goto, range
  <2>2. mem' \subseteq mem
    BY <2>1 DEF bit_nclear
  <2>3. mem \subseteq AllBits /\ \A i \in 1..(field - 1) : Chosen(i)
    BY <2>1 DEF Selecting, InTime
  <2>4. ASSUME NEW i \in 1..(field - 1) PROVE mem' \cap Bits(i) # {}
    <3>1. i \in 1..5 /\ i < field
      BY <1>0
    <3>2. PICK b : b \in mem \cap Bits(i)
      BY <2>3 DEF Chosen
    <3>3. b \in mem'
      BY <1>0, <1>1, <2>1, <3>1, <3>2, ClearingSpares
    <3> QED
      BY <3>2, <3>3
  <2>5. mem' \subseteq AllBits
    BY <2>2, <2>3
  <2> QED
    BY <2>1, <2>4, <2>5 DEF Selecting, InTime, BehindTime, Making, Chosen
<1>7. ASSUME RangeStar PROVE Selecting'
  <2>1. /\ pc = "range" /\ UNCHANGED <<field, mem, ret>> /\ num1' = f.low /\ num2' = f.high
        /\ pc' \in {"eof", "step"}
    BY <1>1, <1>7 DEF RangeStar, Goto, Fail
  <2> QED
    BY <1>0, <1>2, <2>1 DEF Selecting, InTime, BehindTime, Making, Chosen
<1>8. ASSUME NEW S, S \subseteq f.low..f.high, S # {}, mem' = SetBits(mem, f, S),
             pc \in InTime, pc' = "list", UNCHANGED <<field, ret>>
      PROVE  Selecting'
  <2>1. mem \subseteq AllBits /\ \A i \in 1..(field - 1) : Chosen(i)
    BY <1>8 DEF Selecting
  <2>2. mem' \subseteq AllBits /\ mem \subseteq mem' /\ mem' \cap Bits(field) # {}
    BY <1>0, <1>1, <1>8, <2>1, SettingChooses
  <2>3. \A i \in 1..(field - 1) : mem' \cap Bits(i) # {}
    BY <2>1, <2>2 DEF Chosen
  <2>4. ret' = "none"
    BY <1>0, <1>8 DEF InTime
  <2> QED
    BY <1>8, <2>2, <2>3, <2>4 DEF Selecting, InTime, BehindTime, Making, Chosen
<1>9. ASSUME RangeNumber PROVE Selecting'
  <2>1. pc = "range" /\ UNCHANGED <<field, ret>>
    BY <1>9 DEF RangeNumber, Refuse, Goto, Fail
  <2>2. PICK n : n = get_number(f.low, f.names, ch, pos, {",", "-", "blank", "newline"})
    OBVIOUS
  <2>3. \/ pc' = "eof"
        \/ pc' = "span" /\ mem' = mem
        \/ pc' = "list" /\ n.num \in f.low..f.high /\ mem' = SetBits(mem, f, {n.num})
    BY <1>1, <1>9, <2>2 DEF RangeNumber, Refuse, Goto, Fail
  <2>4. CASE pc' = "eof"
    BY <1>0, <2>1, <2>4, SelectingStops
  <2>5. CASE pc' = "span" /\ mem' = mem
    BY <1>0, <2>1, <2>5 DEF Selecting, InTime, BehindTime, Making, Chosen
  <2>6. CASE pc' = "list" /\ n.num \in f.low..f.high /\ mem' = SetBits(mem, f, {n.num})
    <3>1. pc \in InTime
      BY <2>1 DEF InTime
    <3> QED
      BY <1>8, <2>1, <2>6, <3>1
  <2> QED
    BY <2>3, <2>4, <2>5, <2>6
<1>10. ASSUME RangeSpan PROVE Selecting'
  <2>1. /\ pc = "span" /\ UNCHANGED <<field, ret, mem, num1>>
        /\ pc' = "eof" \/ (pc' = "step" /\ ~ (num1 > num2'))
    BY <1>10 DEF RangeSpan, Refuse, Goto, Fail
  <2> QED
    BY <1>0, <2>1 DEF Selecting, InTime, BehindTime, Making, Chosen
<1>11. ASSUME RangeStep PROVE Selecting'
  <2>1. /\ pc = "step" /\ UNCHANGED <<field, ret, mem, num1, num2>>
        /\ pc' \in {"eof", "elements"}
    BY <1>11 DEF RangeStep, Refuse, Goto, Fail
  <2> QED
    BY <1>0, <2>1 DEF Selecting, InTime, BehindTime, Making, Chosen
<1>12. ASSUME RangeElements PROVE Selecting'
  <2>1. pc = "elements" /\ UNCHANGED <<field, ret>>
    BY <1>12 DEF RangeElements, Refuse, Goto, Fail, range
  <2>2. CASE pc' = "eof"
    BY <1>0, <2>1, <2>2, SelectingStops
  <2>3. CASE InField /\ mem' = SetBits(mem, f, Visited) /\ pc' = "list"
    <3>1. num1 <= num2 /\ pc \in InTime
      BY <2>1 DEF Selecting, InTime
    <3>2. Visited # {} /\ Visited \subseteq f.low..f.high
      BY <1>0, <1>1, <2>3, <3>1, VisitedFirst DEF InField
    <3> QED
      BY <1>8, <2>1, <2>3, <3>1, <3>2
  <2> QED
    BY <1>1, <1>12, <2>2, <2>3 DEF RangeElements, Refuse, Goto, Fail
<1>13. ASSUME NextRange PROVE Selecting'
  BY <1>0, <1>13 DEF NextRange, Goto, range, Selecting, InTime, BehindTime, Making, Chosen
<1>14. ASSUME ListEnd PROVE Selecting'
  <2>1. /\ pc = "list" /\ UNCHANGED <<ret, mem>>
        /\ \/ pc' = "eof"
           \/ pc' = "field" /\ field' = field + 1
           \/ pc' = "sundays" /\ field' = field
    BY <1>14 DEF ListEnd, Goto, Fail
  <2>2. mem \subseteq AllBits /\ \A i \in 1..field : Chosen(i)
    BY <1>0, <2>1 DEF Selecting, InTime
  <2>3. \A i \in 1..field : mem' \cap Bits(i) # {}
    BY <2>1, <2>2 DEF Chosen
  <2>4. mem' \subseteq AllBits /\ ret' = "none"
    BY <1>0, <2>1, <2>2
  <2>5. CASE pc' = "eof"
    BY <2>4, <2>5, SelectingStops
  <2>6. CASE pc' = "field" /\ field' = field + 1
    <3>1. field' - 1 = field
      BY <1>0, <2>6
    <3>2. \A i \in 1..(field' - 1) : mem' \cap Bits(i) # {}
      BY <2>3, <3>1
    <3> QED
      BY <2>4, <2>6, <3>2 DEF Selecting, InTime, BehindTime, Making, Chosen
  <2>7. CASE pc' = "sundays" /\ field' = field
    <3>1. field' = 5 => \A i \in 1..5 : mem' \cap Bits(i) # {}
      BY <2>3, <2>7
    <3> QED
      BY <2>4, <2>7, <3>1 DEF Selecting, InTime, BehindTime, Making, Chosen
  <2> QED
    BY <2>1, <2>5, <2>6, <2>7
<1>15. ASSUME EndOfTime PROVE Selecting'
  <2>1. /\ pc = "sundays" /\ UNCHANGED <<field, ret>> /\ mem' = Sundays(mem)
        /\ pc' \in {"eof", "user"}
    BY <1>15 DEF EndOfTime, Goto, Fail, range
  <2>2. ASSUME field = 5, pc' = "user"
        PROVE  mem' \subseteq AllBits /\ \A i \in 1..5 : mem' \cap Bits(i) # {}
    <3>1. mem \subseteq AllBits /\ \A i \in 1..5 : Chosen(i)
      BY <2>1, <2>2 DEF Selecting, BehindTime
    <3>2. mem' \subseteq AllBits /\ mem \subseteq mem'
      BY <2>1, <3>1, SundaysChosen
    <3> QED
      BY <3>1, <3>2 DEF Chosen
  <2> QED
    BY <1>0, <2>1, <2>2 DEF Selecting, InTime, BehindTime, Making, Chosen
<1>16. ASSUME Username \/ PwDup \/ EnvCopy PROVE Selecting'
  <2>1. /\ pc \in BehindTime /\ UNCHANGED <<field, mem>>
        /\ \/ pc' \in {"eof", "done"} /\ ret' # "entry"
           \/ pc' \in BehindTime
    BY <1>0, <1>16 DEF Username, PwDup, EnvCopy, Alloc, Goto, Fail, Return, range, BehindTime, Making
  <2> QED
    BY <2>1, SelectingKeeps, SelectingStops
<1>17. ASSUME SetVariable PROVE Selecting'
  <2>1. pc \in BehindTime /\ Following(pc) \in BehindTime
    BY <1>17, FollowingIs DEF SetVariable, BehindTime, Making
  <2>2. /\ UNCHANGED <<field, mem, ret>> /\ pc' \in {"eof", Following(pc)}
    BY <1>17 DEF SetVariable, env_set, Goto, Fail, range
  <2>3. ret' = "none"
    BY <1>0, <2>1, <2>2 DEF BehindTime, Making
  <2> QED
    BY <2>1, <2>2, <2>3, SelectingKeeps, SelectingStops
<1>18. ASSUME Command PROVE Selecting'
  <2>1. /\ pc \in BehindTime /\ UNCHANGED <<field, mem>>
        /\ \/ pc' = "eof" /\ ret' # "entry"
           \/ pc' = "done"
    BY <1>0, <1>18 DEF Command, Goto, Fail, Return, range, BehindTime, Making
  <2> QED
    BY <2>1, SelectingKeeps, SelectingStops
<1>19. ASSUME Eof PROVE Selecting'
  BY <1>19, SelectingStops DEF Eof, Return
<1>20. ASSUME UNCHANGED vars PROVE Selecting'
  BY <1>20 DEF vars, range, Selecting, Chosen
<1> QED
  BY <1>3, <1>4, <1>5, <1>6, <1>7, <1>9, <1>10, <1>11, <1>12, <1>13, <1>14, <1>15, <1>16,
     <1>17, <1>18, <1>19, <1>20 DEF Next

(* Whatever the text of the file is: an entry that load_entry accepts as   *)
(* five time fields selects at least one value in each of them, and no bit *)
(* outside the fields is left set, although the parser clears and sets     *)
(* bits past the ends of its arrays.                                       *)
THEOREM NothingEmptyNothingStray == Spec => []SelectsSomething
<1>1. TypeOK /\ Selecting => SelectsSomething
  <2> SUFFICES ASSUME TypeOK, Selecting, ret = "entry", field = Len(Fields)
               PROVE  /\ \A i \in DOMAIN Fields : Stored(Fields[i]) # {}
                      /\ mem = UNION {{Address(Fields[i].name, v - Fields[i].low) :
                                         v \in Stored(Fields[i])} : i \in DOMAIN Fields}
    BY DEF SelectsSomething
  <2>1. DOMAIN Fields = 1..5 /\ field = 5
    BY FieldsAre
  <2>2. mem \subseteq AllBits /\ \A i \in 1..5 : mem \cap Bits(i) # {}
    BY <2>1 DEF Selecting, Chosen
  <2>3. ASSUME NEW i \in 1..5, NEW b \in mem \cap Bits(i)
        PROVE  \E v \in Stored(Fields[i]) : b = Address(Fields[i].name, v - Fields[i].low)
    <3>1. PICK v \in Fields[i].low..Fields[i].high : b = Address(Fields[i].name, v - Fields[i].low)
      BY BitNumber
    <3> QED
      BY <3>1 DEF Stored, bit_test
  <2>4. \A i \in DOMAIN Fields : Stored(Fields[i]) # {}
    BY <2>1, <2>2, <2>3
  <2> DEFINE M(i) == {Address(Fields[i].name, v - Fields[i].low) : v \in Stored(Fields[i])}
  <2>5. \A i \in 1..5 : M(i) \subseteq mem /\ mem \cap Bits(i) \subseteq M(i)
    BY <2>3 DEF Stored, bit_test
  <2> HIDE DEF M
  <2>6. mem = UNION {M(i) : i \in 1..5}
    BY <2>2, <2>5 DEF AllBits
  <2> QED
    BY <2>1, <2>4, <2>6 DEF M
<1> QED
  BY <1>1, SelectingInit, SelectingNext, TypeCorrect, PTL DEF Spec

-----------------------------------------------------------------------------
(***************************************************************************)
(* Ranges and lists, as they are written.                                  *)
(***************************************************************************)
(* How long a range is written up to its step. *)
Base(r) == IF r.form = "span" THEN 3 ELSE 1

LEMMA Concatenated ==
  ASSUME NEW S, NEW a \in Seq(S), NEW b \in Seq(S)
  PROVE  /\ a \o b \in Seq(S) /\ Len(a \o b) = Len(a) + Len(b)
         /\ \A i \in 1..Len(a) : (a \o b)[i] = a[i]
         /\ \A i \in 1..Len(b) : (a \o b)[Len(a) + i] = b[i]
OBVIOUS

LEMMA WrittenIs ==
  ASSUME NEW r
  PROVE  /\ Len(Written(r)) = Base(r) + (IF r.step = 0 THEN 0 ELSE 2)
         /\ DOMAIN Written(r) = 1..Len(Written(r))
         /\ Written(r)[1] = r.from
         /\ r.form = "span" => Written(r)[2] = DASH /\ Written(r)[3] = r.to
         /\ r.step # 0 => /\ Written(r)[Base(r) + 1] = SLASH
                          /\ Written(r)[Base(r) + 2] = Num(r.step)
<1>1. PICK f, t, d, s, n : f = r.from /\ t = r.to /\ d = DASH /\ s = SLASH /\ n = Num(r.step)
  OBVIOUS
<1>2. CASE r.form = "span" /\ r.step = 0
  <2>1. Written(r) = <<f, d, t>> \o <<>>
    BY <1>1, <1>2 DEF Written
  <2>2. Written(r) = <<f, d, t>>
    BY <2>1
  <2> QED
    BY <1>1, <1>2, <2>2 DEF Base
<1>3. CASE r.form = "span" /\ r.step # 0
  <2>1. Written(r) = <<f, d, t>> \o <<s, n>>
    BY <1>1, <1>3 DEF Written
  <2>2. PICK S, a, b : S = {f, d, t, s, n} /\ a = <<f, d, t>> /\ b = <<s, n>>
    OBVIOUS
  <2>3. /\ a \in Seq(S) /\ b \in Seq(S) /\ Len(a) = 3 /\ Len(b) = 2
        /\ a[1] = f /\ a[2] = d /\ a[3] = t /\ b[1] = s /\ b[2] = n
    BY <2>2
  <2>4. PICK w : w = a \o b
    OBVIOUS
  <2>5. /\ w \in Seq(S) /\ Len(w) = 5 /\ w[1] = f /\ w[2] = d /\ w[3] = t
        /\ w[4] = s /\ w[5] = n
    <3>0. a \in Seq(S) /\ b \in Seq(S)
      BY <2>3
    <3>1. /\ w \in Seq(S) /\ Len(w) = Len(a) + Len(b)
          /\ \A i \in 1..Len(a) : w[i] = a[i]
          /\ \A i \in 1..Len(b) : w[Len(a) + i] = b[i]
      BY <3>0, <2>4, Concatenated
    <3>2. w[Len(a) + 1] = b[1] /\ w[Len(a) + 2] = b[2]
      BY <2>3, <3>1
    <3> QED
      BY <2>3, <3>1, <3>2
  <2> QED
    BY <1>1, <1>3, <2>1, <2>2, <2>4, <2>5 DEF Base
<1>4. CASE r.form # "span" /\ r.step = 0
  <2>1. Written(r) = <<f>> \o <<>>
    BY <1>1, <1>4 DEF Written
  <2>2. Written(r) = <<f>>
    BY <2>1
  <2> QED
    BY <1>1, <1>4, <2>2 DEF Base
<1>5. CASE r.form # "span" /\ r.step # 0
  <2>1. Written(r) = <<f>> \o <<s, n>>
    BY <1>1, <1>5 DEF Written
  <2>2. PICK S, a, b : S = {f, d, t, s, n} /\ a = <<f>> /\ b = <<s, n>>
    OBVIOUS
  <2>3. /\ a \in Seq(S) /\ b \in Seq(S) /\ Len(a) = 1 /\ Len(b) = 2
        /\ a[1] = f /\ b[1] = s /\ b[2] = n
    BY <2>2
  <2>4. PICK w : w = a \o b
    OBVIOUS
  <2>5. /\ w \in Seq(S) /\ Len(w) = 3 /\ w[1] = f
        /\ w[2] = s /\ w[3] = n
    <3>0. a \in Seq(S) /\ b \in Seq(S)
      BY <2>3
    <3>1. /\ w \in Seq(S) /\ Len(w) = Len(a) + Len(b)
          /\ \A i \in 1..Len(a) : w[i] = a[i]
          /\ \A i \in 1..Len(b) : w[Len(a) + i] = b[i]
      BY <3>0, <2>4, Concatenated
    <3>2. w[Len(a) + 1] = b[1] /\ w[Len(a) + 2] = b[2]
      BY <2>3, <3>1
    <3> QED
      BY <2>3, <3>1, <3>2
  <2> QED
    BY <1>1, <1>5, <2>1, <2>2, <2>4, <2>5 DEF Base
<1> QED
  BY <1>2, <1>3, <1>4, <1>5

LEMMA ModSmall ==
  ASSUME NEW a \in Nat, NEW b \in Nat, a < b
  PROVE  a % b = a
OBVIOUS

LEMMA atoiSmall ==
  ASSUME NEW n \in 0..INT_MAX
  PROVE  atoi(n) = n
<1>1. PICK a, b : a = n + INT_MAX + 1 /\ b = 2 * (INT_MAX + 1)
  OBVIOUS
<1>2. a \in Nat /\ b \in Nat /\ a < b
  BY <1>1, LoadEntryInputs
<1>3. a % b = a
  BY <1>2, ModSmall
<1> QED
  BY <1>1, <1>3, LoadEntryInputs DEF atoi

LEMMA ModOne ==
  ASSUME NEW a \in Nat
  PROVE  a % 1 = 0
OBVIOUS

(* A list in a text, behind which a blank stands at q. *)
Listed(T, b, q, f, list, place) ==
  /\ T \in Texts /\ b \in Nat \ {0} /\ q \in Nat /\ q <= Len(T) /\ T[q] = BLANK
  /\ list \in Seq(Items(f)) /\ list # <<>>
  /\ place \in [DOMAIN list -> b..(q - 1)] /\ Places(T, b, q, list, place)

(* A range of the list, at p, and the symbol behind it. *)
LEMMA ItemAt ==
  ASSUME NEW T, NEW b, NEW q, NEW f, NEW list, NEW place, Listed(T, b, q, f, list, place),
         NEW j \in DOMAIN list, NEW r, r = list[j], NEW p, p = place[j],
         NEW n, n = Len(Written(r))
  PROVE  /\ r \in Items(f) /\ p \in Nat \ {0} /\ b <= p /\ n \in Nat \ {0}
         /\ n = Base(r) + (IF r.step = 0 THEN 0 ELSE 2)
         /\ p + n <= q
         /\ T[p] = r.from
         /\ r.form = "span" => T[p + 1] = DASH /\ T[p + 2] = r.to
         /\ r.step # 0 => T[p + Base(r)] = SLASH /\ T[p + Base(r) + 1] = Num(r.step)
         /\ j = Len(list) => p + n = q /\ T[p + n] = BLANK
         /\ j # Len(list) => /\ T[p + n] = COMMA /\ j + 1 \in DOMAIN list
                             /\ place[j + 1] = p + n + 1
<1>1. /\ T \in Texts /\ b \in Nat \ {0} /\ q \in Nat /\ q <= Len(T) /\ T[q] = BLANK
      /\ list \in Seq(Items(f)) /\ place \in [DOMAIN list -> b..(q - 1)]
      /\ Places(T, b, q, list, place)
  BY DEF Listed
<1>2. PICK w : w = Written(r)
  OBVIOUS
<1>3. /\ p + Len(w) <= q
      /\ \A k \in DOMAIN w : T[p + k - 1] = w[k]
      /\ IF j = Len(list) THEN p + Len(w) = q
         ELSE T[p + Len(w)] = COMMA /\ place[j + 1] = p + Len(w) + 1
  BY <1>1, <1>2 DEF Places
<1>4. r \in Items(f) /\ p \in Nat \ {0} /\ b <= p /\ j \in 1..Len(list) /\ Len(list) \in Nat
      /\ DOMAIN list = 1..Len(list)
  BY <1>1
<1>5. PICK m, c : m = Base(r) /\ c = r.step
  OBVIOUS
<1>6. /\ n = m + (IF c = 0 THEN 0 ELSE 2) /\ m \in {1, 3} /\ (r.form = "span" => m = 3)
      /\ DOMAIN w = 1..n
      /\ w[1] = r.from
      /\ r.form = "span" => w[2] = DASH /\ w[3] = r.to
      /\ c # 0 => w[m + 1] = SLASH /\ w[m + 2] = Num(c)
  BY <1>2, <1>5, WrittenIs DEF Base
<1>7. n \in Nat \ {0} /\ 1 \in 1..n
  BY <1>6
<1>8. T[p] = r.from
  <2>1. T[p + 1 - 1] = w[1]
    BY <1>3, <1>6, <1>7
  <2>2. p + 1 - 1 = p
    BY <1>4
  <2> QED
    BY <1>6, <2>1, <2>2
<1>9. ASSUME r.form = "span" PROVE T[p + 1] = DASH /\ T[p + 2] = r.to
  <2>1. 2 \in 1..n /\ 3 \in 1..n /\ p + 2 - 1 = p + 1 /\ p + 3 - 1 = p + 2
    BY <1>4, <1>6, <1>9
  <2>2. T[p + 2 - 1] = w[2] /\ T[p + 3 - 1] = w[3]
    BY <1>3, <1>6, <2>1
  <2> QED
    BY <1>6, <1>9, <2>1, <2>2
<1>10. ASSUME c # 0 PROVE T[p + m] = SLASH /\ T[p + m + 1] = Num(c)
  <2>1. m + 1 \in 1..n /\ m + 2 \in 1..n /\ p + (m + 1) - 1 = p + m /\ p + (m + 2) - 1 = p + m + 1
    BY <1>4, <1>6, <1>10
  <2>2. T[p + (m + 1) - 1] = w[m + 1] /\ T[p + (m + 2) - 1] = w[m + 2]
    BY <1>3, <1>6, <2>1
  <2> QED
    BY <1>6, <1>10, <2>1, <2>2
<1>11. n = Len(w)
  BY <1>2
<1>12. ASSUME j = Len(list) PROVE p + n = q /\ T[p + n] = BLANK
  BY <1>1, <1>3, <1>11, <1>12
<1>13. ASSUME j # Len(list) PROVE T[p + n] = COMMA /\ j + 1 \in DOMAIN list /\ place[j + 1] = p + n + 1
  BY <1>3, <1>4, <1>11, <1>13
<1> QED
  BY <1>3, <1>4, <1>5, <1>6, <1>7, <1>8, <1>9, <1>10, <1>11, <1>12, <1>13

-----------------------------------------------------------------------------
(* A value that stands before a terminator is what get_number returns. *)
LEMMA ValueRead ==
  ASSUME NEW f, NEW v, IsValue(f, v), Value(f, v) \in 0..INT_MAX,
         NEW p, NEW terms, SymbolAt(text, p).kind \in terms
  PROVE  get_number(f.low, f.names, v, p, terms) =
           [ok |-> TRUE, num |-> Value(f, v), ch |-> SymbolAt(text, p), pos |-> After(text, p)]
<1>1. CASE v.kind = "number"
  <2>1. Value(f, v) = v.val
    BY <1>1 DEF Value
  <2>2. atoi(v.val) = v.val
    BY <2>1, atoiSmall
  <2> QED
    BY <1>1, <2>1, <2>2 DEF get_number, NumberOf
<1>2. CASE v.kind = "word" /\ \E k \in DOMAIN f.names : f.names[k] = v.text
  <2>1. Value(f, v) = NameIndex(f.names, v.text) - 1 + f.low
    BY <1>2 DEF Value
  <2> QED
    BY <1>2, <2>1 DEF get_number, NumberOf
<1> QED
  BY <1>1, <1>2 DEF IsValue

LEMMA StepRead ==
  ASSUME NEW n \in 0..INT_MAX, NEW p, NEW terms, SymbolAt(text, p).kind \in terms
  PROVE  get_number(0, <<>>, Num(n), p, terms) =
           [ok |-> TRUE, num |-> n, ch |-> SymbolAt(text, p), pos |-> After(text, p)]
<1>1. Num(n).kind = "number" /\ Num(n).val = n
  BY DEF Num, Symbol
<1>2. atoi(n) = n
  BY atoiSmall
<1> QED
  BY <1>1, <1>2 DEF get_number, NumberOf

-----------------------------------------------------------------------------
(***************************************************************************)
(* What the bits show of a field, before and after the operations on them. *)
(***************************************************************************)
(* The values of the i-th field that memory m shows. *)
Shown(m, i) ==
  {v \in Fields[i].low..Fields[i].high : Address(Fields[i].name, v - Fields[i].low) \in m}

LEMMA StoredShown == \A i \in 1..5 : Stored(Fields[i]) = Shown(mem, i)
BY DEF Stored, Shown, bit_test

(* The bits of two values are the same for the same value only. *)
LEMMA BitsDiffer ==
  ASSUME NEW i \in 1..5, NEW v \in Fields[i].low..Fields[i].high,
         NEW k \in 1..5, NEW w \in Fields[k].low..Fields[k].high,
         Address(Fields[i].name, v - Fields[i].low) = Address(Fields[k].name, w - Fields[k].low)
  PROVE  i = k /\ v = w
<1>1. PICK p, c, q, d : p = FirstBit(i) /\ c = Count(i) /\ q = FirstBit(k) /\ d = Count(k)
  OBVIOUS
<1>2. PICK a, b : a = Fields[i].low /\ b = Fields[k].low
  OBVIOUS
<1>3. p \in Nat /\ c \in Nat /\ q \in Nat /\ d \in Nat /\ a \in Nat /\ b \in Nat
  BY <1>1, <1>2, FieldPlaces, FieldsAre DEF FirstBit
<1>4. p + (v - a) = q + (w - b)
  BY <1>1, <1>2, BitOf
<1>5. v \in a..(a + c - 1) /\ w \in b..(b + d - 1)
  BY <1>1, <1>2, FieldsAre DEF Count
<1>6. i < k => p + c <= q
  BY <1>1, FieldsAscend
<1>7. k < i => q + d <= p
  BY <1>1, FieldsAscend
<1>8. i = k
  BY <1>3, <1>4, <1>5, <1>6, <1>7
<1> QED
  BY <1>1, <1>2, <1>3, <1>4, <1>5, <1>8

LEMMA ShownSet ==
  ASSUME NEW m, NEW i \in 1..5, NEW k \in 1..5,
         NEW S \in SUBSET (Fields[k].low..Fields[k].high), NEW x, x = SetBits(m, Fields[k], S)
  PROVE  \A v : v \in Shown(x, i) <=> v \in Shown(m, i) \/ (i = k /\ v \in S)
<1> DEFINE A(j, v) == Address(Fields[j].name, v - Fields[j].low)
           R(j) == Fields[j].low..Fields[j].high
<1>1. \A v \in R(i), w \in R(k) : A(i, v) = A(k, w) => i = k /\ v = w
  BY BitsDiffer
<1>2. x = m \cup {A(k, w) : w \in S}
  BY DEF SetBits
<1>3. \A y : Shown(y, i) = {v \in R(i) : A(i, v) \in y}
  BY DEF Shown
<1>4. S \subseteq R(k)
  OBVIOUS
<1> HIDE DEF A, R
<1>5. ASSUME NEW v \in R(i)
      PROVE  A(i, v) \in m \cup {A(k, w) : w \in S} <=> A(i, v) \in m \/ (i = k /\ v \in S)
  BY <1>1, <1>4
<1>6. Shown(x, i) = {v \in R(i) : A(i, v) \in m \/ (i = k /\ v \in S)}
  BY <1>2, <1>3, <1>5
<1> QED
  BY <1>3, <1>4, <1>6

LEMMA ShownCleared ==
  ASSUME NEW m, NEW k \in 1..5,
         NEW x, x = bit_nclear(m, Fields[k].name, 0, Fields[k].high - Fields[k].low + 1)
  PROVE  /\ Shown(x, k) = {}
         /\ \A i \in 1..5 : i < k => Shown(x, i) = Shown(m, i)
<1>1. PICK q, d : q = FirstBit(k) /\ d = Count(k)
  OBVIOUS
<1>2. q \in Nat /\ d \in Nat
  BY <1>1, FieldPlaces DEF FirstBit
<1>3. NclearBits(0, d) = 0..d
  BY <1>2, NclearExact
<1>4. x = m \ {q + c : c \in 0..d}
  BY <1>1, <1>3 DEF bit_nclear, FirstBit, Count
<1>5. ASSUME NEW v \in Fields[k].low..Fields[k].high
      PROVE  Address(Fields[k].name, v - Fields[k].low) \notin x
  <2>1. PICK y : y = v - Fields[k].low
    OBVIOUS
  <2>2. y \in 0..d
    BY <1>1, <1>2, <2>1, FieldsAre DEF Count
  <2>3. Address(Fields[k].name, y) = q + y
    BY <1>1, <2>1, BitOf
  <2> QED
    BY <1>4, <2>1, <2>2, <2>3
<1>6. ASSUME NEW i \in 1..5, i < k, NEW v \in Fields[i].low..Fields[i].high
      PROVE  Address(Fields[i].name, v - Fields[i].low) \in x
               <=> Address(Fields[i].name, v - Fields[i].low) \in m
  <2>1. PICK b, p, c : b = Address(Fields[i].name, v - Fields[i].low) /\ p = FirstBit(i) /\ c = Count(i)
    OBVIOUS
  <2>2. p \in Nat /\ c \in Nat /\ p + c <= q
    BY <1>1, <1>6, <2>1, FieldPlaces, FieldsAscend DEF FirstBit
  <2>3. b \in p..(p + c - 1)
    BY <2>1, BitOf DEF Bits
  <2>4. b \notin {q + y : y \in 0..d}
    BY <1>2, <2>2, <2>3
  <2> QED
    BY <1>4, <2>1, <2>4
<1>7. Shown(x, k) = {}
  BY <1>5 DEF Shown
<1>8. ASSUME NEW i \in 1..5, i < k PROVE Shown(x, i) = Shown(m, i)
  BY <1>6, <1>8 DEF Shown
<1> QED
  BY <1>7, <1>8

LEMMA FieldNames ==
  /\ Fields[1].name = minute /\ Fields[2].name = hour /\ Fields[3].name = dom
  /\ Fields[4].name = month /\ Fields[5].name = dow
  /\ Fields[5].low = 0 /\ Fields[5].high = LAST_DOW
  /\ \A i \in 1..4 : Fields[i].name # dow
<1>1. /\ Fields[1].name = minute /\ Fields[2].name = hour /\ Fields[3].name = dom
      /\ Fields[4].name = month /\ Fields[5].name = dow
      /\ Fields[5].low = 0 /\ Fields[5].high = LAST_DOW
  BY DEF Fields, FieldSpec, FIRST_DOW
<1>2. ASSUME NEW i \in 1..4 PROVE Fields[i].name # dow
  <2>1. FirstBit(i) + Count(i) <= FirstBit(5)
    BY FieldsAscend
  <2>2. Fields[i].name \in Nat /\ Count(i) \in Nat \ {0} /\ Fields[5].name \in Nat
    BY FieldPlaces
  <2> QED
    BY <1>1, <2>1, <2>2 DEF FirstBit
<1> QED
  BY <1>1, <1>2

(* The two Sundays, in memory and in the manual. *)
LEMMA ShownSundays ==
  ASSUME NEW m, NEW i \in 1..5
  PROVE  Shown(Sundays(m), i) = BothSundays(Fields[i], Shown(m, i))
<1>1. 0 \in 0..LAST_DOW /\ 7 \in 0..LAST_DOW
  BY FieldBounds, TwoSundays
<1>2. SetBits(m, Fields[5], {0, 7}) = m \cup {Address(dow, 0), Address(dow, 7)}
  <2>1. SetBits(m, Fields[5], {0, 7}) = m \cup {Address(dow, v - 0) : v \in {0, 7}}
    BY FieldNames DEF SetBits
  <2>2. \A v \in {0, 7} : v - 0 = v
    OBVIOUS
  <2> QED
    BY <2>1, <2>2
<1>3. Shown(m, 5) \cap {0, 7} # {} <=> bit_test(m, dow, 0) \/ bit_test(m, dow, 7)
  <2>1. \A v \in {0, 7} : v \in Shown(m, 5) <=> Address(dow, v - 0) \in m
    BY <1>1, FieldNames DEF Shown
  <2>2. \A v \in {0, 7} : v - 0 = v
    OBVIOUS
  <2> QED
    BY <2>1, <2>2 DEF bit_test
<1>4. Sundays(m) = IF Shown(m, 5) \cap {0, 7} # {} THEN SetBits(m, Fields[5], {0, 7}) ELSE m
  BY <1>2, <1>3 DEF Sundays, bit_set
<1>5. Shown(SetBits(m, Fields[5], {0, 7}), i) = IF i = 5 THEN Shown(m, i) \cup {0, 7} ELSE Shown(m, i)
  <2>1. PICK S, k, x : S = {0, 7} /\ k = 5 /\ x = SetBits(m, Fields[5], {0, 7})
    OBVIOUS
  <2>2. k \in 1..5 /\ S \in SUBSET (Fields[k].low..Fields[k].high)
    BY <1>1, <2>1, FieldNames
  <2>3. x = SetBits(m, Fields[k], S)
    BY <2>1
  <2>4. \A v : v \in Shown(x, i) <=> v \in Shown(m, i) \/ (i = k /\ v \in S)
    BY <2>2, <2>3, ShownSet
  <2> QED
    BY <2>1, <2>4
<1>6. Fields[i].name = dow <=> i = 5
  BY FieldNames
<1> QED
  BY <1>4, <1>5, <1>6 DEF BothSundays

-----------------------------------------------------------------------------
(***************************************************************************)
(* The values of a range, and of the ranges of a list so far.              *)
(***************************************************************************)
LEMMA ValueInt ==
  ASSUME NEW i \in 1..5, NEW f, f = Fields[i], NEW v \in Symbols, IsValue(f, v)
  PROVE  Value(f, v) \in Int
<1>1. f.low \in Nat /\ DOMAIN f.names \subseteq Nat
  BY FieldsAre
<1>2. CASE v.kind = "number"
  BY <1>2 DEF Value, Symbols
<1>3. CASE v.kind = "word" /\ \E k \in DOMAIN f.names : f.names[k] = v.text
  <2>1. NameIndex(f.names, v.text) \in Nat
    BY <1>1, <1>3, NameIndexInt
  <2> QED
    BY <1>1, <1>3, <2>1 DEF Value
<1> QED
  BY <1>2, <1>3 DEF IsValue

(* A range whose values are allowed and whose step does not overflow. *)
Fits(f, r) == Allowed(f, r) /\ Step(r) <= INT_MAX - f.high

LEMMA RangeFits ==
  ASSUME NEW i \in 1..5, NEW f, f = Fields[i], NEW r \in Items(f), Fits(f, r)
  PROVE  /\ f.low \in Nat /\ f.high \in Nat /\ f.high < INT_MAX /\ INT_MAX \in Nat
         /\ From(f, r) \in f.low..f.high /\ To(f, r) \in f.low..f.high /\ From(f, r) <= To(f, r)
         /\ Step(r) \in 1..INT_MAX /\ Step(r) <= INT_MAX - f.high
<1>1. f.low \in Nat /\ f.high \in Nat /\ INT_MAX \in Nat
  BY FieldsAre, LoadEntryInputs
<1>2. Step(r) \in Nat \ {0}
  BY DEF Step, Items
<1>3. r.from \in Symbols /\ r.to \in Symbols /\ (r.form # "all" => IsValue(f, r.from) /\ IsValue(f, r.to))
  BY DEF Items, IsValue
<1>4. From(f, r) \in Int /\ To(f, r) \in Int
  <2>1. CASE r.form = "all"
    BY <1>1, <2>1 DEF From, To
  <2>2. CASE r.form # "all"
    <3>1. Value(f, r.from) \in Int /\ Value(f, r.to) \in Int
      BY <1>3, <2>2, ValueInt
    <3> QED
      BY <2>2, <3>1 DEF From, To
  <2> QED
    BY <2>1, <2>2
<1> QED
  BY <1>1, <1>2, <1>4 DEF Fits, Allowed

(* The loop over set_element visits what the range selects. *)
LEMMA VisitedIs ==
  ASSUME NEW i \in 1..5, NEW f, f = Fields[i], NEW r \in Items(f), Fits(f, r),
         num1 = From(f, r), num2 = To(f, r), num3 = Step(r)
  PROVE  Visited = Selects(f, r) /\ Visited \subseteq f.low..f.high /\ num3 > 0 /\ ~Overflows
<1>1. PICK a, b, s, l, h : a = From(f, r) /\ b = To(f, r) /\ s = Step(r) /\ l = f.low /\ h = f.high
  OBVIOUS
<1>2. /\ l \in Nat /\ h \in Nat /\ h < INT_MAX /\ INT_MAX \in Nat
      /\ a \in l..h /\ b \in l..h /\ s \in 1..INT_MAX /\ s <= INT_MAX - h
  BY <1>1, RangeFits
<1>3. Visited = {v \in a..b : s > 0 /\ (v - a) % s = 0}
  BY <1>1 DEF Visited
<1>4. Selects(f, r) = {v \in a..b : (v - a) % s = 0}
  BY <1>1 DEF Selects
<1>5. Visited = Selects(f, r)
  BY <1>2, <1>3, <1>4
<1>6. Visited \subseteq l..h
  BY <1>2, <1>3
<1>7. ASSUME NEW v \in Visited PROVE ~ (v > INT_MAX - s)
  BY <1>2, <1>6
<1> QED
  BY <1>1, <1>2, <1>5, <1>6, <1>7 DEF Overflows

(* A value without a step selects itself. *)
LEMMA SelectsOne ==
  ASSUME NEW i \in 1..5, NEW f, f = Fields[i], NEW r \in Items(f), Fits(f, r), r.form = "one"
  PROVE  Selects(f, r) = {From(f, r)} /\ From(f, r) = Value(f, r.from)
<1>1. r.to = r.from /\ r.step = 0
  BY DEF Items
<1>2. PICK a : a = From(f, r)
  OBVIOUS
<1>3. To(f, r) = a /\ a = Value(f, r.from) /\ Step(r) = 1
  BY <1>1, <1>2 DEF From, To, Step
<1>4. a \in Int
  BY <1>2, RangeFits
<1>5. (a - a) % 1 = 0
  BY <1>4, SMT
<1>6. Selects(f, r) = {v \in a..a : (v - a) % 1 = 0}
  BY <1>2, <1>3 DEF Selects
<1>7. \A v \in a..a : v = a
  BY <1>4
<1>8. a \in a..a
  BY <1>4
<1> QED
  BY <1>2, <1>3, <1>5, <1>6, <1>7, <1>8

(* What the first n ranges of a list select. *)
Part(f, list, n) == UNION {Selects(f, list[j]) : j \in 1..n}

LEMMA PartNone ==
  ASSUME NEW f, NEW list
  PROVE  Part(f, list, 0) = {}
BY DEF Part

LEMMA PartMore ==
  ASSUME NEW f, NEW list, NEW n \in Nat \ {0}
  PROVE  \A v : v \in Part(f, list, n) <=> v \in Part(f, list, n - 1) \/ v \in Selects(f, list[n])
<1> DEFINE S(j) == Selects(f, list[j])
<1>1. \A k : Part(f, list, k) = UNION {S(j) : j \in 1..k}
  BY DEF Part
<1> HIDE DEF S
<1>2. \A j : j \in 1..n <=> j \in 1..(n - 1) \/ j = n
  OBVIOUS
<1>3. \A v : v \in Part(f, list, n) <=> v \in Part(f, list, n - 1) \/ v \in S(n)
  BY <1>1, <1>2
<1> QED
  BY <1>3 DEF S

LEMMA PartAll ==
  ASSUME NEW f, NEW list, DOMAIN list = 1..Len(list)
  PROVE  Part(f, list, Len(list)) = Meaning(f, list)
<1>1. Ranges(list) = {list[j] : j \in 1..Len(list)}
  BY DEF Ranges
<1> QED
  BY <1>1 DEF Part, Meaning

-----------------------------------------------------------------------------
(***************************************************************************)
(* The nicknames.  Their bits are those of whole fields, each with the bit *)
(* behind it, and the first bit of every other field.                      *)
(***************************************************************************)
Wide(w) ==
  CASE w \in {"yearly", "annually"} -> {5}
    [] w = "monthly" -> {4, 5}
    [] w = "weekly" -> {3, 4}
    [] w \in {"daily", "midnight"} -> {3, 4, 5}
    [] w = "hourly" -> {2, 3, 4, 5}

FieldOrFirst(A, i) ==
  IF i \in A THEN FirstBit(i)..(FirstBit(i) + Count(i)) ELSE {FirstBit(i)}

NickBits(A) == UNION {FieldOrFirst(A, i) : i \in 1..5}

TimeWords == NicknameWords \ {"reboot"}

LEMMA FieldCounts ==
  /\ Count(1) = MINUTE_COUNT /\ Count(2) = HOUR_COUNT /\ Count(3) = DOM_COUNT
  /\ Count(4) = MONTH_COUNT /\ Count(5) = DOW_COUNT
BY DEF Count, Fields, FieldSpec, MINUTE_COUNT, HOUR_COUNT, DOM_COUNT, MONTH_COUNT, DOW_COUNT

LEMMA FirstBitSet ==
  ASSUME NEW m, NEW i \in 1..5
  PROVE  \A b : b \in bit_set(m, Fields[i].name, 0) <=> b \in m \/ b \in {FirstBit(i)}
<1>1. Fields[i].name \in Nat
  BY FieldPlaces
<1>2. PICK n, z : n = Fields[i].name /\ z = 0
  OBVIOUS
<1>3. Address(n, z) = 8 * n + z
  BY <1>1, <1>2, AddressIs
<1>4. Address(Fields[i].name, 0) = FirstBit(i)
  BY <1>1, <1>2, <1>3 DEF FirstBit
<1> QED
  BY <1>4 DEF bit_set

LEMMA AllSet ==
  ASSUME NEW m, NEW i \in 1..5
  PROVE  \A b : b \in All(m, Fields[i].name, Count(i)) <=>
                  b \in m \/ b \in FirstBit(i)..(FirstBit(i) + Count(i))
<1>1. PICK p, c : p = FirstBit(i) /\ c = Count(i)
  OBVIOUS
<1>2. p \in Nat /\ c \in Nat
  BY <1>1, FieldPlaces DEF FirstBit
<1>3. NsetBits(0, c) = 0..c
  BY <1>2, NsetExact
<1>4. All(m, Fields[i].name, Count(i)) = m \cup {p + k : k \in 0..c}
  BY <1>1, <1>3 DEF All, bit_nset, FirstBit
<1>5. ASSUME NEW b PROVE b \in {p + k : k \in 0..c} <=> b \in p..(p + c)
  <2>1. ASSUME b \in p..(p + c) PROVE b \in {p + k : k \in 0..c}
    <3>1. b - p \in 0..c /\ b = p + (b - p)
      BY <1>2, <2>1
    <3> QED
      BY <3>1
  <2>2. ASSUME NEW k \in 0..c PROVE p + k \in p..(p + c)
    BY <1>2
  <2> QED
    BY <2>1, <2>2
<1> QED
  BY <1>1, <1>4, <1>5

LEMMA NicknameBits ==
  ASSUME NEW w \in TimeWords
  PROVE  Nickname(w).mem = NickBits(Wide(w))
<1> DEFINE F(i) == {FirstBit(i)}
           W(i) == FirstBit(i)..(FirstBit(i) + Count(i))
<1>1. \A A, b : b \in NickBits(A) <=> \E i \in 1..5 : b \in IF i \in A THEN W(i) ELSE F(i)
  BY DEF NickBits, FieldOrFirst
<1>2. /\ Fields[1].name = minute /\ Fields[2].name = hour /\ Fields[3].name = dom
      /\ Fields[4].name = month /\ Fields[5].name = dow
  BY FieldNames
<1>3. /\ \A m, b : b \in bit_set(m, minute, 0) <=> b \in m \/ b \in F(1)
      /\ \A m, b : b \in bit_set(m, hour, 0) <=> b \in m \/ b \in F(2)
      /\ \A m, b : b \in bit_set(m, dom, 0) <=> b \in m \/ b \in F(3)
      /\ \A m, b : b \in bit_set(m, month, 0) <=> b \in m \/ b \in F(4)
      /\ \A m, b : b \in bit_set(m, dow, 0) <=> b \in m \/ b \in F(5)
  BY <1>2, FirstBitSet
<1>4. /\ \A m, b : b \in All(m, hour, HOUR_COUNT) <=> b \in m \/ b \in W(2)
      /\ \A m, b : b \in All(m, dom, DOM_COUNT) <=> b \in m \/ b \in W(3)
      /\ \A m, b : b \in All(m, month, MONTH_COUNT) <=> b \in m \/ b \in W(4)
      /\ \A m, b : b \in All(m, dow, DOW_COUNT) <=> b \in m \/ b \in W(5)
  BY <1>2, FieldCounts, AllSet
<1> HIDE DEF F, W
<1>5. CASE w \in {"yearly", "annually"}
  <2>1. /\ Nickname(w).mem = AnyDow(bit_set(bit_set(Midnight, dom, 0), month, 0))
        /\ Wide(w) = {5}
    BY <1>5 DEF Nickname, Wide
  <2>2. \A b : b \in Nickname(w).mem <=> b \in F(1) \/ b \in F(2) \/ b \in F(3) \/ b \in F(4) \/ b \in W(5)
    BY <1>3, <1>4, <2>1 DEF AnyDow, Midnight
  <2>3. \A b : b \in NickBits(Wide(w)) <=> b \in F(1) \/ b \in F(2) \/ b \in F(3) \/ b \in F(4) \/ b \in W(5)
    BY <1>1, <2>1
  <2> QED
    BY <2>2, <2>3
<1>6. CASE w = "monthly"
  <2>1. /\ Nickname(w).mem = AnyDow(AnyMonth(bit_set(Midnight, dom, 0)))
        /\ Wide(w) = {4, 5}
    BY <1>6 DEF Nickname, Wide
  <2>2. \A b : b \in Nickname(w).mem <=> b \in F(1) \/ b \in F(2) \/ b \in F(3) \/ b \in W(4) \/ b \in W(5)
    BY <1>3, <1>4, <2>1 DEF AnyDow, AnyMonth, Midnight
  <2>3. \A b : b \in NickBits(Wide(w)) <=> b \in F(1) \/ b \in F(2) \/ b \in F(3) \/ b \in W(4) \/ b \in W(5)
    BY <1>1, <2>1
  <2> QED
    BY <2>2, <2>3
<1>7. CASE w = "weekly"
  <2>1. /\ Nickname(w).mem = bit_set(AnyMonth(AnyDom(Midnight)), dow, 0)
        /\ Wide(w) = {3, 4}
    BY <1>7 DEF Nickname, Wide
  <2>2. \A b : b \in Nickname(w).mem <=> b \in F(1) \/ b \in F(2) \/ b \in W(3) \/ b \in W(4) \/ b \in F(5)
    BY <1>3, <1>4, <2>1 DEF AnyDom, AnyMonth, Midnight
  <2>3. \A b : b \in NickBits(Wide(w)) <=> b \in F(1) \/ b \in F(2) \/ b \in W(3) \/ b \in W(4) \/ b \in F(5)
    BY <1>1, <2>1
  <2> QED
    BY <2>2, <2>3
<1>8. CASE w \in {"daily", "midnight"}
  <2>1. /\ Nickname(w).mem = AnyDow(AnyMonth(AnyDom(Midnight)))
        /\ Wide(w) = {3, 4, 5}
    BY <1>8 DEF Nickname, Wide
  <2>2. \A b : b \in Nickname(w).mem <=> b \in F(1) \/ b \in F(2) \/ b \in W(3) \/ b \in W(4) \/ b \in W(5)
    BY <1>3, <1>4, <2>1 DEF AnyDom, AnyMonth, AnyDow, Midnight
  <2>3. \A b : b \in NickBits(Wide(w)) <=> b \in F(1) \/ b \in F(2) \/ b \in W(3) \/ b \in W(4) \/ b \in W(5)
    BY <1>1, <2>1
  <2> QED
    BY <2>2, <2>3
<1>9. CASE w = "hourly"
  <2>1. /\ Nickname(w).mem = AnyDow(AnyMonth(AnyDom(All(bit_set({}, minute, 0), hour, HOUR_COUNT))))
        /\ Wide(w) = {2, 3, 4, 5}
    BY <1>9 DEF Nickname, Wide
  <2>2. \A b : b \in Nickname(w).mem <=> b \in F(1) \/ b \in W(2) \/ b \in W(3) \/ b \in W(4) \/ b \in W(5)
    BY <1>3, <1>4, <2>1 DEF AnyDom, AnyMonth, AnyDow
  <2>3. \A b : b \in NickBits(Wide(w)) <=> b \in F(1) \/ b \in W(2) \/ b \in W(3) \/ b \in W(4) \/ b \in W(5)
    BY <1>1, <2>1
  <2> QED
    BY <2>2, <2>3
<1> QED
  BY <1>5, <1>6, <1>7, <1>8, <1>9 DEF TimeWords, NicknameWords

(* What a reader sees of them: whole fields, and single values. *)
LEMMA NickShown ==
  ASSUME NEW A, NEW i \in 1..5
  PROVE  Shown(NickBits(A), i) =
           IF i \in A THEN Fields[i].low..Fields[i].high ELSE {Fields[i].low}
<1>1. PICK l, h, p, c : l = Fields[i].low /\ h = Fields[i].high /\ p = FirstBit(i) /\ c = Count(i)
  OBVIOUS
<1>2. l \in Nat /\ h \in Nat /\ p \in Nat /\ c \in Nat \ {0} /\ c = h - l + 1
  BY <1>1, FieldsAre, FieldPlaces DEF FirstBit, Count
<1>3. \A v \in l..h : Address(Fields[i].name, v - l) = p + (v - l)
  BY <1>1, BitOf
<1>4. ASSUME NEW v \in l..h, NEW k \in 1..5, p + (v - l) \in FieldOrFirst(A, k)
      PROVE  k = i \/ v = l
  <2>1. PICK q, d : q = FirstBit(k) /\ d = Count(k)
    OBVIOUS
  <2>2. q \in Nat /\ d \in Nat \ {0} /\ (i < k => p + c <= q) /\ (k < i => q + d <= p)
    BY <1>1, <2>1, FieldPlaces, FieldsAscend DEF FirstBit
  <2>3. p + (v - l) \in q..(q + d)
    BY <1>4, <2>1, <2>2 DEF FieldOrFirst
  <2> QED
    BY <1>2, <2>2, <2>3
<1>5. ASSUME NEW v \in l..h
      PROVE  p + (v - l) \in FieldOrFirst(A, i) <=> i \in A \/ v = l
  <2>1. p + (v - l) \in p..(p + c) /\ (p + (v - l) = p <=> v = l)
    BY <1>2
  <2>2. CASE i \in A
    BY <1>1, <2>1, <2>2 DEF FieldOrFirst
  <2>3. CASE i \notin A
    BY <1>1, <2>1, <2>3 DEF FieldOrFirst
  <2> QED
    BY <2>2, <2>3
<1>6. ASSUME NEW v \in l..h
      PROVE  p + (v - l) \in NickBits(A) <=> i \in A \/ v = l
  BY <1>4, <1>5 DEF NickBits
<1>7. Shown(NickBits(A), i) = {v \in l..h : i \in A \/ v = l}
  BY <1>1, <1>3, <1>6 DEF Shown
<1>8. l \in l..h
  BY <1>2
<1> QED
  BY <1>1, <1>7, <1>8

(* The lines they stand for. *)
LEMMA MeaningOne ==
  ASSUME NEW f, NEW n \in Nat
  PROVE  Meaning(f, <<Single(Num(n))>>) = {n}
<1>1. PICK r : r = Single(Num(n))
  OBVIOUS
<1>2. r.form = "one" /\ r.from = Num(n) /\ r.to = Num(n) /\ r.step = 0
  BY <1>1 DEF Single, ListItem
<1>3. Num(n).kind = "number" /\ Num(n).val = n
  BY DEF Num, Symbol
<1>4. From(f, r) = n /\ To(f, r) = n /\ Step(r) = 1
  BY <1>2, <1>3 DEF From, To, Step, Value
<1>5. Selects(f, r) = {v \in n..n : (v - n) % 1 = 0}
  BY <1>4 DEF Selects
<1>6. (n - n) % 1 = 0
  BY SMT
<1>7. Selects(f, r) = {n}
  BY <1>5, <1>6
<1>8. Ranges(<<r>>) = {r}
  BY DEF Ranges
<1> QED
  BY <1>1, <1>7, <1>8 DEF Meaning

LEMMA MeaningEach ==
  ASSUME NEW f, f.low \in Nat, f.high \in Nat
  PROVE  Meaning(f, Each) = f.low..f.high
<1>1. PICK r : r = Everything(0)
  OBVIOUS
<1>2. r.form = "all" /\ r.step = 0
  BY <1>1 DEF Everything, ListItem
<1>3. From(f, r) = f.low /\ To(f, r) = f.high /\ Step(r) = 1
  BY <1>2 DEF From, To, Step
<1>4. Selects(f, r) = {v \in f.low..f.high : (v - f.low) % 1 = 0}
  BY <1>3 DEF Selects
<1>5. \A v \in f.low..f.high : (v - f.low) % 1 = 0
  BY ModOne
<1>6. Selects(f, r) = f.low..f.high
  BY <1>4, <1>5
<1>7. Ranges(<<r>>) = {r}
  BY DEF Ranges
<1> QED
  BY <1>1, <1>6, <1>7 DEF Meaning, Each

LEMMA NicknameShown ==
  ASSUME NEW w \in TimeWords, NEW i \in 1..5
  PROVE  Shown(Nickname(w).mem, i) = Meaning(Fields[i], StandsFor(w)[i])
<1>1. /\ Fields[1].low = 0 /\ Fields[2].low = 0 /\ Fields[3].low = 1
      /\ Fields[4].low = 1 /\ Fields[5].low = 0
  BY DEF Fields, FieldSpec, FIRST_MINUTE, FIRST_HOUR, FIRST_DOM, FIRST_MONTH, FIRST_DOW
<1>2. /\ Meaning(Fields[i], Zero) = {0} /\ Meaning(Fields[i], One) = {1}
      /\ Meaning(Fields[i], Each) = Fields[i].low..Fields[i].high
  <2>1. Meaning(Fields[i], Zero) = {0}
    BY MeaningOne DEF Zero
  <2>2. Meaning(Fields[i], One) = {1}
    BY MeaningOne DEF One
  <2> QED
    BY <2>1, <2>2, MeaningEach, FieldsAre
<1>3. StandsFor(w)[i] = IF i \in Wide(w) THEN Each ELSE IF i \in {3, 4} THEN One ELSE Zero
  BY DEF StandsFor, Wide, TimeWords, NicknameWords
<1>4. Meaning(Fields[i], StandsFor(w)[i]) =
        IF i \in Wide(w) THEN Fields[i].low..Fields[i].high ELSE {Fields[i].low}
  <2>1. CASE i \in Wide(w)
    BY <1>2, <1>3, <2>1
  <2>2. CASE i \notin Wide(w)
    <3>1. Fields[i].low = IF i \in {3, 4} THEN 1 ELSE 0
      BY <1>1
    <3> QED
      BY <1>2, <1>3, <2>2, <3>1
  <2> QED
    BY <2>1, <2>2
<1>5. Nickname(w).mem = NickBits(Wide(w))
  BY NicknameBits
<1> QED
  BY <1>4, <1>5, NickShown

-----------------------------------------------------------------------------
(***************************************************************************)
(* The words of a line.                                                    *)
(***************************************************************************)
LEMMA FindHere ==
  ASSUME NEW T \in Texts, NEW p \in Nat \ {0}, p <= Len(T), NEW K, T[p].kind \in K
  PROVE  Find(T, p, K) = p
<1>1. PICK q : q = Find(T, p, K)
  OBVIOUS
<1>2. Stop(T, p, K, q)
  BY <1>1, FindStops
<1>3. Len(T) \in Nat
  BY DEF Texts
<1>4. q \in Nat /\ p <= q /\ \A r \in p..(q - 1) : T[r].kind \notin K
  BY <1>2, <1>3 DEF Stop
<1> QED
  BY <1>1, <1>4

LEMMA FindNext ==
  ASSUME NEW T \in Texts, NEW p \in Nat \ {0}, p + 1 <= Len(T), NEW K, T[p].kind \notin K,
         T[p + 1].kind \in K
  PROVE  Find(T, p, K) = p + 1
<1>1. PICK q : q = Find(T, p, K)
  OBVIOUS
<1>2. Stop(T, p, K, q)
  BY <1>1, FindStops
<1>3. Len(T) \in Nat
  BY DEF Texts
<1>4. q \in Nat /\ p <= q /\ \A r \in p..(q - 1) : T[r].kind \notin K
  BY <1>2, <1>3 DEF Stop
<1>5. q # p
  BY <1>2, <1>3 DEF Stop
<1> QED
  BY <1>1, <1>4, <1>5

LEMMA WordsAre ==
  ASSUME NEW T \in Texts, NEW p \in Nat \ {0}
  PROVE  /\ Words(T, p)[1] = p
         /\ \A i \in 1..6 : Words(T, p)[i] \in Nat \ {0}
         /\ \A i \in 1..5 : Words(T, p)[i + 1] = Skip_Blanks(T, Skip_Nonblanks(T, Words(T, p)[i]))
<1>1. PICK p2, p3, p4, p5, p6 :
        /\ p2 = NextWord(T, p) /\ p3 = NextWord(T, p2) /\ p4 = NextWord(T, p3)
        /\ p5 = NextWord(T, p4) /\ p6 = NextWord(T, p5)
  OBVIOUS
<1>2. \A w \in Nat \ {0} : NextWord(T, w) \in Nat \ {0}
  BY FindPositive DEF NextWord, Skip_Blanks, Skip_Nonblanks
<1>3. Words(T, p) = <<p, p2, p3, p4, p5, p6>>
  BY <1>1 DEF Words
<1>4. {p2, p3, p4, p5, p6} \subseteq Nat \ {0}
  BY <1>1, <1>2
<1>5. PICK W : W = Words(T, p)
  OBVIOUS
<1>6. W[1] = p /\ W[2] = p2 /\ W[3] = p3 /\ W[4] = p4 /\ W[5] = p5 /\ W[6] = p6
  BY <1>3, <1>5
<1>7. \A i \in 1..6 : W[i] \in Nat \ {0}
  BY <1>4, <1>6
<1>8. \A i \in 1..5 : W[i + 1] = NextWord(T, W[i])
  BY <1>1, <1>6
<1> QED
  BY <1>5, <1>6, <1>7, <1>8 DEF NextWord

LEMMA SymbolIs ==
  ASSUME NEW T \in Texts, NEW p \in Nat \ {0}, SymbolAt(T, p) # EOF
  PROVE  p <= Len(T) /\ SymbolAt(T, p) = T[p]
<1>1. Len(T) \in Nat
  BY DEF Texts
<1> QED
  BY <1>1, SymbolAtIs

LEMMA CharKinds ==
  /\ STAR.kind = "*" /\ DASH.kind = "-" /\ COMMA.kind = "," /\ SLASH.kind = "/"
  /\ AT.kind = "@" /\ HASH.kind = "#" /\ BLANK.kind = "blank" /\ PUNCT.kind = "other"
  /\ NL.kind = "newline" /\ EOF.kind = "EOF"
  /\ \A w : Word(w).kind = "word" /\ Word(w).text = w
  /\ \A n : Num(n).kind = "number" /\ Num(n).val = n
BY DEF STAR, DASH, COMMA, SLASH, AT, HASH, BLANK, PUNCT, NL, EOF, Char, Word, Num, Symbol

(* A field of a line is a list, behind which a blank stands. *)
LEMMA NumericField ==
  ASSUME NEW g, NEW T \in Texts, T = g.text, NEW p \in Nat \ {0}, NumericLine(g, p),
         NEW i \in 1..5, NEW w, w = Words(T, p)[i], NEW q, q = Skip_Nonblanks(T, w)
  PROVE  \E place : Listed(T, w, q, Fields[i], g.fields[i], place)
<1>1. /\ SymbolAt(T, q) = BLANK
      /\ g.fields[i] \in Seq(Items(Fields[i])) /\ g.fields[i] # <<>>
      /\ Spells(T, w, q, g.fields[i])
  BY FieldsAre DEF NumericLine, IsList
<1>2. w \in Nat \ {0}
  BY WordsAre
<1>3. q \in Nat \ {0}
  BY <1>2, FindPositive DEF Skip_Nonblanks
<1>4. q <= Len(T) /\ T[q] = BLANK
  BY <1>1, <1>3, CharKinds, SymbolIs
<1>5. PICK place \in [DOMAIN g.fields[i] -> w..(q - 1)] : Places(T, w, q, g.fields[i], place)
  BY <1>1 DEF Spells
<1>6. Listed(T, w, q, Fields[i], g.fields[i], place)
  BY <1>1, <1>2, <1>3, <1>4, <1>5 DEF Listed
<1> QED
  BY <1>6

(* What it begins with, and where its first range stands. *)
LEMMA FirstRange ==
  ASSUME NEW T, NEW b, NEW q, NEW f, NEW list, NEW place, Listed(T, b, q, f, list, place)
  PROVE  /\ 1 \in DOMAIN list /\ DOMAIN list = 1..Len(list) /\ Len(list) \in Nat \ {0}
         /\ place[1] = b
         /\ b < q /\ T[b] = list[1].from
         /\ T[b].kind \in {"*", "number", "word"}
         /\ T[b] = STAR <=> list[1].form = "all"
<1>1. /\ list \in Seq(Items(f)) /\ list # <<>> /\ Places(T, b, q, list, place)
      /\ b \in Nat /\ q \in Nat
  BY DEF Listed
<1>2. Len(list) \in Nat \ {0} /\ DOMAIN list = 1..Len(list) /\ 1 \in DOMAIN list
  BY <1>1
<1>3. place[1] = b
  BY <1>1 DEF Places
<1>4. PICK r, p, n, j : r = list[1] /\ p = place[1] /\ n = Len(Written(r)) /\ j = 1
  OBVIOUS
<1>5. r \in Items(f) /\ p \in Nat /\ n \in Nat \ {0} /\ p + n <= q /\ T[p] = r.from
  BY <1>2, <1>4, ItemAt
<1>6. /\ r.form \in {"all", "one", "span"} /\ (r.form = "all" => r.from = STAR)
      /\ r.form # "all" => r.from.kind \in {"number", "word"}
  BY <1>5 DEF Items, IsValue
<1>7. T[b] = r.from /\ b < q
  BY <1>1, <1>3, <1>4, <1>5
<1>8. T[b].kind \in {"*", "number", "word"} /\ (T[b] = STAR <=> r.form = "all")
  <2>1. CASE r.form = "all"
    BY <1>6, <1>7, <2>1, CharKinds
  <2>2. CASE r.form # "all"
    BY <1>6, <1>7, <2>2, CharKinds
  <2> QED
    BY <2>1, <2>2
<1> QED
  BY <1>2, <1>3, <1>4, <1>7, <1>8

(* The user and the command. *)
LEMMA OneSymbol ==
  ASSUME NEW S, NEW T \in Seq(S), NEW u \in 1..Len(T)
  PROVE  SubSeq(T, u, u) = <<T[u]>>
<1>1. PICK s : s = SubSeq(T, u, u)
  OBVIOUS
<1>2. s \in Seq(S) /\ Len(s) = 1 /\ s[1] = T[u]
  BY <1>1
<1>3. s = <<s[1]>>
  BY <1>2
<1> QED
  BY <1>1, <1>2, <1>3

LEMMA OneWord ==
  ASSUME NEW T \in Texts, NEW u \in Nat \ {0}, u + 1 <= Len(T), NEW w, T[u] = Word(w), T[u + 1] = BLANK
  PROVE  /\ Find(T, u, WordEnd) = u + 1
         /\ \A x : get_string(T, u, u + 1, MAX_COMMAND) = <<Word(x)>> <=> x = w
<1>0. Len(T) \in Nat /\ u \in 1..Len(T)
  BY DEF Texts
<1>1. Find(T, u, WordEnd) = u + 1
  BY CharKinds, FindNext DEF WordEnd
<1>2. get_string(T, u, u + 1, MAX_COMMAND) = SubSeq(T, u, u)
  <2>1. (u + 1) - u = 1 /\ (u + 1) - 1 = u /\ 1 < MAX_COMMAND
    BY LoadEntryInputs
  <2> QED
    BY <2>1 DEF get_string
<1>3. SubSeq(T, u, u) = <<T[u]>>
  BY <1>0, OneSymbol DEF Texts
<1>4. ASSUME NEW x PROVE <<T[u]>> = <<Word(x)>> <=> x = w
  <2>1. <<T[u]>> = <<Word(x)>> => T[u] = Word(x)
    OBVIOUS
  <2>2. T[u] = Word(x) => x = w
    <3>1. Word(x).text = x /\ Word(w).text = w
      BY CharKinds
    <3> QED
      BY <3>1
  <2> QED
    BY <2>1, <2>2
<1> QED
  BY <1>1, <1>2, <1>3, <1>4

LEMMA CutAgain ==
  ASSUME NEW S, NEW T \in Seq(S), NEW a \in Nat \ {0}, NEW b \in Nat, a <= b + 1, b <= Len(T),
         NEW c \in Nat, c <= b - a + 1
  PROVE  Len(SubSeq(T, a, b)) = b - a + 1 /\ SubSeq(SubSeq(T, a, b), 1, c) = SubSeq(T, a, a + c - 1)
OBVIOUS

Cut(T, u, q, c) ==
  /\ T \in Texts /\ u \in Nat \ {0} /\ q \in Nat /\ u <= q /\ q <= Len(T)
  /\ c = SubSeq(T, u, q - 1)

LEMMA CommandIs ==
  ASSUME NEW T, NEW u, NEW q, NEW c, Cut(T, u, q, c)
  PROVE  get_string(T, u, q, MAX_COMMAND) = get_string(c, 1, Len(c) + 1, MAX_COMMAND)
<1> USE DEF Cut
<1>1. PICK b, n, m : b = q - 1 /\ n = q - u /\ m = IF q - u < MAX_COMMAND THEN q - u ELSE MAX_COMMAND - 1
  OBVIOUS
<1>2. /\ b \in Nat /\ u <= b + 1 /\ b <= Len(T) /\ n = b - u + 1 /\ m \in Nat /\ m <= n /\ n \in Nat
      /\ Len(T) \in Nat
  BY <1>1, LoadEntryInputs DEF Texts
<1>3. Len(c) = n
  BY <1>1, <1>2, CutAgain DEF Texts
<1>4. SubSeq(c, 1, m) = SubSeq(T, u, u + m - 1)
  BY <1>1, <1>2, CutAgain DEF Texts
<1>5. get_string(T, u, q, MAX_COMMAND) = SubSeq(T, u, u + m - 1)
  <2>1. (IF q - u < MAX_COMMAND THEN q - 1 ELSE u + MAX_COMMAND - 2) = u + m - 1
    BY <1>1, <1>2, LoadEntryInputs
  <2> QED
    BY <2>1 DEF get_string
<1>6. get_string(c, 1, Len(c) + 1, MAX_COMMAND) = SubSeq(c, 1, m)
  <2>1. PICK k, x : k = Len(c) + 1 /\ x = IF k - 1 < MAX_COMMAND THEN k - 1 ELSE 1 + MAX_COMMAND - 2
    OBVIOUS
  <2>2. x = m
    BY <1>1, <1>2, <1>3, <2>1, LoadEntryInputs
  <2>3. get_string(c, 1, k, MAX_COMMAND) = SubSeq(c, 1, x)
    BY <2>1 DEF get_string
  <2> QED
    BY <2>1, <2>2, <2>3
<1> QED
  BY <1>4, <1>5, <1>6

-----------------------------------------------------------------------------
(***************************************************************************)
(* The inductive invariant: where load_entry is in a line of file g that   *)
(* crontab(5) defines, and what it has read of it.                         *)
(***************************************************************************)
WordAt(g, i) == Words(g.text, FirstField(g.text))[i]
WordStop(g, i) == Skip_Nonblanks(g.text, WordAt(g, i))

(* In range j of the list of field i, which stands at p. *)
OnItem(i, list, p, j) ==
  LET r == list[j]
      f == Fields[i]
      stop == p + Len(Written(r))
  IN  /\ pc = "range" => pos = p + 1
      /\ pc = "span" => r.form = "span" /\ pos = p + 2
      /\ pc = "step" => r.form # "one" /\ pos = p + Base(r) + 1 /\ num2 = To(f, r)
      /\ pc = "elements" =>
           r.form # "one" /\ pos = stop + 1 /\ num2 = To(f, r) /\ num3 = Step(r)
      /\ pc = "list" => pos = stop + 1
      /\ pc \in {"span", "step", "elements"} => num1 = From(f, r)
      /\ Shown(mem, i) = Part(f, list, IF pc = "list" THEN j ELSE j - 1)

InList(g, i) ==
  \E place \in [DOMAIN g.fields[i] -> WordAt(g, i)..(WordStop(g, i) - 1)] :
    \E j \in DOMAIN g.fields[i] :
      /\ Listed(g.text, WordAt(g, i), WordStop(g, i), Fields[i], g.fields[i], place)
      /\ OnItem(i, g.fields[i], place[j], j)

(* The fields before n hold what they say; then the Sundays are joined. *)
Read(g, n) == \A k \in 1..(n - 1) : Shown(mem, k) = Meaning(Fields[k], g.fields[k])

Joined(g) ==
  \A k \in 1..5 : Shown(mem, k) = BothSundays(Fields[k], Meaning(Fields[k], g.fields[k]))

(* The flags have the stars of the line, or those of the nickname. *)
Starred(g) ==
  flags \subseteq {"DONT_LOG"} \cup
    {Fields[k].star : k \in {i \in 1..5 : g.fields[i][1].form = "all"}}

Nicknamed(g, w) ==
  /\ g.text[FirstField(g.text)] = AT /\ g.fields = StandsFor(w)
  /\ flags \subseteq {"DONT_LOG"} \cup Nickname(w).flags

UserBefore(g, p, n) == \E u \in 1..Len(g.text) : UserAndCommand(g, u) /\ p = u + n

Accepted == pc \in {"user"} \cup Making \/ ret = "entry"

(* What the call may stop for. *)
Lacking == ecode = "e_memory" \/ lookup = "failed"

Tells(g) ==
  /\ pc = "eof" \/ ret = "NULL" => Lacking
  /\ pc \in {"skip", "dash"} => flags = {}
  /\ pc = "dash" => pos = EntryLine(g.text) + 1
  /\ pc = "time" => pos = FirstField(g.text) + 1 /\ flags \subseteq {"DONT_LOG"}
  /\ pc \in InTime =>
       NumericLine(g, FirstField(g.text)) /\ Starred(g) /\ Read(g, field)
  /\ pc = "field" => pos = WordAt(g, field) + 1
  /\ pc \in InTime \ {"field"} => InList(g, field)
  /\ pc = "sundays" =>
       /\ UserBefore(g, pos, 1) /\ Read(g, 6)
       /\ \/ field = 5 /\ Starred(g)
          \/ \E w \in TimeWords : Nicknamed(g, w) /\ mem = Nickname(w).mem
  /\ pc = "user" => UserBefore(g, pos, 0)
  /\ pc \in Making => UserBefore(g, pos, 2)
  /\ pc \in Making \/ ret = "entry" => user = g.user
  /\ Accepted =>
       /\ Joined(g)
       /\ \/ field = 5 /\ Starred(g)
          \/ \E w \in TimeWords : Nicknamed(g, w) /\ mem = Sundays(Nickname(w).mem)
  /\ ret = "entry" => cmd = get_string(g.cmd, 1, Len(g.cmd) + 1, MAX_COMMAND)

Follows == WellFormed(file) /\ ~SettingFirst(file) => Tells(file)

(* An assignment is read as the first field, and refused. *)
Refused(g) ==
  /\ ret # "entry" /\ pc \in {"skip", "dash", "time", "field", "range", "eof", "done"}
  /\ pc \in {"dash", "time", "field", "range"} => pos = EntryLine(g.text) + 1 
  /\ pc \in {"field", "range"} => field = 1

SettingRefused == SettingFirst(file) => Refused(file)

-----------------------------------------------------------------------------
(* A file that holds a line of crontab(5), with values that fit. *)
Proper(g) == g \in Files /\ WellFormed(g) /\ ~SettingFirst(g)

LEMMA ProperText ==
  ASSUME NEW g, Proper(g), NEW T, T = g.text
  PROVE  /\ T \in Texts /\ Len(T) \in Nat /\ UsefulLines(T) # {}
         /\ EntryLine(T) \in Nat \ {0} /\ EntryLine(T) <= Len(T)
         /\ FirstField(T) \in Nat \ {0}
         /\ T[EntryLine(T)] = DASH => FirstField(T) = EntryLine(T) + 1
         /\ T[EntryLine(T)] # DASH => FirstField(T) = EntryLine(T)
         /\ NumericLine(g, FirstField(T)) \/ NicknameLine(g, FirstField(T))
<1>1. g \in Files /\ g.fields # <<>> /\ ~SettingFirst(g)
  BY DEF Proper, WellFormed
<1>2. IsLine(g)
  BY <1>1, FilesAreWritten
<1>3. T \in Texts /\ Len(T) \in Nat
  BY <1>1, LoadEntryInputs DEF Texts
<1>4. UsefulLines(T) # {} /\ (NumericLine(g, FirstField(T)) \/ NicknameLine(g, FirstField(T)))
  BY <1>2 DEF IsLine
<1>5. EntryLine(T) \in Nat \ {0} /\ EntryLine(T) <= Len(T)
  BY <1>3, <1>4, EntryLineIs, UsefulIs
<1>6. FirstField(T) = IF T[EntryLine(T)] = DASH THEN EntryLine(T) + 1 ELSE EntryLine(T)
  BY DEF FirstField
<1> QED
  BY <1>3, <1>4, <1>5, <1>6

LEMMA ProperFits ==
  ASSUME NEW g, Proper(g), NEW i \in 1..5, NEW r \in Ranges(g.fields[i])
  PROVE  Fits(Fields[i], r)
BY FieldsAre DEF Proper, WellFormed, Fits

(* What the time begins with. *)
LEMMA FirstSymbol ==
  ASSUME NEW g, Proper(g), NEW T, T = g.text, NEW p, p = FirstField(T)
  PROVE  /\ p <= Len(T) /\ SymbolAt(T, p) = T[p]
         /\ T[p] = AT <=> NicknameLine(g, p)
         /\ T[p] # AT <=> NumericLine(g, p)
<1>1. T \in Texts /\ p \in Nat \ {0} /\ (NumericLine(g, p) \/ NicknameLine(g, p)) /\ Len(T) \in Nat
  BY ProperText
<1>2. ASSUME NicknameLine(g, p) PROVE p <= Len(T) /\ T[p] = AT
  <2>1. SymbolAt(T, p) = AT
    BY <1>2 DEF NicknameLine
  <2> QED
    BY <1>1, <2>1, CharKinds, SymbolIs
<1>3. ASSUME NumericLine(g, p) PROVE p <= Len(T) /\ T[p] # AT
  <2>1. PICK i, w, q : i = 1 /\ w = Words(T, p)[i] /\ q = Skip_Nonblanks(T, w)
    OBVIOUS
  <2>2. w = p
    BY <1>1, <2>1, WordsAre
  <2>3. PICK place : Listed(T, w, q, Fields[i], g.fields[i], place)
    BY <1>1, <1>3, <2>1, NumericField
  <2>4. w < q /\ T[w].kind \in {"*", "number", "word"}
    BY <2>3, FirstRange
  <2>5. q \in Nat /\ q <= Len(T)
    BY <2>3 DEF Listed
  <2>6. T[w] # AT
    <3>1. AT.kind = "@"
      BY CharKinds
    <3> QED
      BY <2>4, <3>1
  <2> QED
    BY <1>1, <2>2, <2>4, <2>5, <2>6
<1>4. p <= Len(T)
  BY <1>1, <1>2, <1>3
<1>5. SymbolAt(T, p) = T[p]
  BY <1>1, <1>4, SymbolAtIs
<1> QED
  BY <1>1, <1>2, <1>3, <1>4, <1>5

(* One symbol ahead while the time is read. *)
LEMMA Ahead ==
  ASSUME Control, InLine, pc \in Reading
  PROVE  pos - 1 \in Nat \ {0} /\ ch = SymbolAt(text, pos - 1) /\ pos \in Nat \ {0}
<1>1. PICK L, E : L = EntryLine(text) /\ E = LineStop(text)
  OBVIOUS
<1>2. UsefulLines(text) # {} /\ OnLine(text, L, E, pc, ch, pos, ecode, field)
  BY <1>1 DEF InLine, Place, Reading
<1>3. Line(text, L, E)
  BY <1>1, <1>2, FileIsText, LineIs
<1>4. L \in Nat \ {0} /\ E \in Nat
  BY <1>3 DEF Line
<1>5. pos \in (L + 1)..(E + 1) /\ ch = SymbolAt(text, pos - 1)
  BY <1>2 DEF OnLine
<1> QED
  BY <1>4, <1>5

(* Where the user stands, and the command behind him. *)
LEMMA UserIs ==
  ASSUME NEW g, Proper(g), NEW T, T = g.text, NEW u \in Nat \ {0}, UserAndCommand(g, u)
  PROVE  /\ u + 1 <= Len(T) /\ u \in 1..Len(T) /\ T[u] = Word(g.user) /\ T[u + 1] = BLANK
         /\ SymbolAt(T, u) = Word(g.user) /\ SymbolAt(T, u + 1) = BLANK
         /\ g.user \in Users
         /\ Find(T, u + 2, LineEnd) <= Len(T)
         /\ g.cmd = SubSeq(T, u + 2, Find(T, u + 2, LineEnd) - 1)
<1>1. T \in Texts /\ Len(T) \in Nat
  BY ProperText
<1>2. /\ g.user \in Users
      /\ SymbolAt(T, u) = Word(g.user) /\ SymbolAt(T, u + 1) = BLANK
      /\ Find(T, u + 2, LineEnd) <= Len(T)
      /\ g.cmd = SubSeq(T, u + 2, Find(T, u + 2, LineEnd) - 1)
  BY DEF UserAndCommand
<1>3. SymbolAt(T, u) # EOF /\ SymbolAt(T, u + 1) # EOF
  <2>1. Word(g.user).kind = "word" /\ BLANK.kind = "blank" /\ EOF.kind = "EOF"
    BY CharKinds
  <2> QED
    BY <1>2, <2>1
<1>4. u <= Len(T) /\ T[u] = SymbolAt(T, u)
  BY <1>1, <1>3, SymbolIs
<1>5. PICK v : v = u + 1
  OBVIOUS
<1>6. v \in Nat \ {0} /\ SymbolAt(T, v) # EOF
  BY <1>3, <1>5
<1>7. v <= Len(T) /\ T[v] = SymbolAt(T, v)
  BY <1>1, <1>6, SymbolIs
<1> QED
  BY <1>1, <1>2, <1>4, <1>5, <1>7

(* Nothing is said of a call that stops for want of memory or of an answer *)
(* about the user.                                                         *)
LEMMA TellsStops ==
  ASSUME NEW g, pc' \in {"eof", "done"}, ret' # "entry",
         pc' = "eof" \/ ret' = "NULL" => Lacking'
  PROVE  Tells(g)'
BY DEF Tells, InTime, Making, Accepted

(* A step from one stage of a range to another one. *)
LEMMA RangeStays ==
  ASSUME NEW g, Tells(g), pc \in InTime, pc' \in InTime \ {"field"}, ret' = "none",
         field' = field, Starred(g)',
         \A k \in 1..(field - 1) : Shown(mem', k) = Shown(mem, k),
         InList(g, field)'
  PROVE  Tells(g)'
<1>1. NumericLine(g, FirstField(g.text)) /\ Read(g, field)
  BY DEF Tells
<1>2. Read(g, field)'
  BY <1>1 DEF Read
<1>3. /\ pc' \notin {"skip", "dash", "time", "field", "sundays", "user", "eof"}
      /\ pc' \notin Making
  BY DEF InTime, Making
<1> QED
  BY <1>1, <1>2, <1>3 DEF Tells, Accepted

LEMMA InListAt ==
  ASSUME NEW g, NEW i, NEW list, list = g.fields[i], NEW place, NEW j \in DOMAIN list,
         Listed(g.text, WordAt(g, i), WordStop(g, i), Fields[i], list, place),
         OnItem(i, list, place[j], j)'
  PROVE  InList(g, i)'
<1>1. place \in [DOMAIN list -> WordAt(g, i)..(WordStop(g, i) - 1)]
  BY DEF Listed
<1> QED
  BY <1>1 DEF InList

-----------------------------------------------------------------------------
(***************************************************************************)
(* The stages of a range.  Each starts in range r of the list of field i,  *)
(* which stands at p, and ends there.                                      *)
(***************************************************************************)
Inside(g, T, i, f, list, place, j, r, p, n) ==
  /\ Proper(g) /\ T = g.text /\ T = text /\ Tells(g)
  /\ T \in Texts /\ Len(T) \in Nat /\ pc \in InTime \ {"field"}
  /\ i = field /\ i \in 1..5 /\ f = Fields[i] /\ list = g.fields[i] /\ j \in DOMAIN list
  /\ r = list[j] /\ p = place[j] /\ n = Len(Written(r))
  /\ Listed(T, WordAt(g, i), WordStop(g, i), f, list, place)
  /\ OnItem(i, list, p, j)
  /\ r \in Items(f) /\ Fits(f, r)
  /\ p \in Nat \ {0} /\ n \in Nat \ {0} /\ n = Base(r) + (IF r.step = 0 THEN 0 ELSE 2)
  /\ p + n <= Len(T)
  /\ T[p] = r.from
  /\ r.form = "span" => T[p + 1] = DASH /\ T[p + 2] = r.to
  /\ r.step # 0 => T[p + Base(r)] = SLASH /\ T[p + Base(r) + 1] = Num(r.step)
  /\ T[p + n] = IF j = Len(list) THEN BLANK ELSE COMMA
  /\ T[p + n].kind \in {",", "blank"} /\ T[p + n] # DASH /\ T[p + n] # SLASH
  /\ \A q \in p..(p + n) : SymbolAt(text, q) = T[q] /\ After(text, q) = q + 1

LEMMA InRange ==
  ASSUME Control, InLine, pc \in InTime \ {"field"}, NEW g, g = file, Proper(g), Tells(g)
  PROVE  \E T, i, f, list, place, j, r, p, n : Inside(g, T, i, f, list, place, j, r, p, n)
<1>1. PICK i, T : i = field /\ T = g.text
  OBVIOUS
<1>2. PICK f, list : f = Fields[i] /\ list = g.fields[i]
  OBVIOUS
<1>3. InList(g, i)
  BY <1>1 DEF Tells
<1>4. PICK place, j : /\ j \in DOMAIN list
                      /\ Listed(T, WordAt(g, i), WordStop(g, i), f, list, place)
                      /\ OnItem(i, list, place[j], j)
  BY <1>1, <1>2, <1>3 DEF InList
<1>5. PICK r, p, n, b, q : /\ r = list[j] /\ p = place[j] /\ n = Len(Written(r))
                           /\ b = WordAt(g, i) /\ q = WordStop(g, i)
  OBVIOUS
<1>6. /\ r \in Items(f) /\ p \in Nat \ {0} /\ b <= p /\ n \in Nat \ {0}
      /\ n = Base(r) + (IF r.step = 0 THEN 0 ELSE 2)
      /\ p + n <= q
      /\ T[p] = r.from
      /\ r.form = "span" => T[p + 1] = DASH /\ T[p + 2] = r.to
      /\ r.step # 0 => T[p + Base(r)] = SLASH /\ T[p + Base(r) + 1] = Num(r.step)
      /\ j = Len(list) => p + n = q /\ T[p + n] = BLANK
      /\ j # Len(list) => /\ T[p + n] = COMMA /\ j + 1 \in DOMAIN list
                          /\ place[j + 1] = p + n + 1
  BY <1>4, <1>5, ItemAt
<1>7. q \in Nat /\ q <= Len(T)
  BY <1>4, <1>5 DEF Listed
<1>8. T \in Texts /\ Len(T) \in Nat /\ T = text
  BY <1>1, ProperText DEF text
<1>9. i \in 1..5
  BY <1>1 DEF Control
<1>10. r \in Ranges(list)
  BY <1>4, <1>5 DEF Ranges
<1>11. Fits(f, r)
  BY <1>2, <1>9, <1>10, ProperFits
<1>12. p + n <= Len(T)
  BY <1>6, <1>7, <1>8
<1>13. T[p + n] = IF j = Len(list) THEN BLANK ELSE COMMA
  BY <1>6
<1>14. /\ Proper(g) /\ T = g.text /\ T = text /\ Tells(g)
       /\ T \in Texts /\ Len(T) \in Nat /\ pc \in InTime \ {"field"}
       /\ i = field /\ i \in 1..5 /\ f = Fields[i] /\ list = g.fields[i] /\ j \in DOMAIN list
       /\ r = list[j] /\ p = place[j] /\ n = Len(Written(r))
       /\ Listed(T, WordAt(g, i), WordStop(g, i), f, list, place)
       /\ OnItem(i, list, p, j)
  BY <1>1, <1>2, <1>4, <1>5, <1>8, <1>9
<1>15. T[p + n].kind \in {",", "blank"} /\ T[p + n] # DASH /\ T[p + n] # SLASH
  <2>1. COMMA.kind = "," /\ BLANK.kind = "blank" /\ DASH.kind = "-" /\ SLASH.kind = "/"
    BY CharKinds
  <2> QED
    BY <1>13, <2>1
<1>16. ASSUME NEW y \in p..(p + n) PROVE SymbolAt(text, y) = T[y] /\ After(text, y) = y + 1
  <2>1. y \in Nat \ {0} /\ y <= Len(T) /\ y <= Len(T) + 1
    BY <1>6, <1>8, <1>12
  <2> QED
    BY <1>8, <2>1, SymbolAtIs, AfterIs
<1>17. Inside(g, T, i, f, list, place, j, r, p, n)
  BY <1>6, <1>11, <1>12, <1>13, <1>14, <1>15, <1>16 DEF Inside
<1> QED
  BY <1>17

(* It goes on in the same range, with what it selects so far. *)
LEMMA ItemStays ==
  ASSUME NEW g, NEW T, NEW i, NEW f, NEW list, NEW place, NEW j, NEW r, NEW p, NEW n,
         Inside(g, T, i, f, list, place, j, r, p, n),
         pc' \in InTime \ {"field"}, ret' = "none", field' = field, flags' = flags,
         \A k \in 1..(i - 1) : Shown(mem', k) = Shown(mem, k),
         OnItem(i, list, p, j)'
  PROVE  Tells(g)'
<1>0. /\ Tells(g) /\ pc \in InTime /\ i = field /\ j \in DOMAIN list /\ list = g.fields[i]
      /\ T = g.text /\ p = place[j] /\ f = Fields[i]
      /\ Listed(T, WordAt(g, i), WordStop(g, i), f, list, place)
  BY DEF Inside
<1>1. InList(g, i)'
  BY <1>0, InListAt
<1>2. Starred(g)
  BY <1>0 DEF Tells
<1>3. Starred(g)'
  BY <1>2 DEF Starred
<1>4. InList(g, field)'
  BY <1>0, <1>1
<1>5. \A k \in 1..(field - 1) : Shown(mem', k) = Shown(mem, k)
  BY <1>0
<1> QED
  BY <1>0, <1>3, <1>4, <1>5, RangeStays

LEMMA TellsRangeStar ==
  ASSUME NEW g, NEW T, NEW i, NEW f, NEW list, NEW place, NEW j, NEW r, NEW p, NEW n,
         Inside(g, T, i, f, list, place, j, r, p, n), ret = "none",
         pos - 1 \in Nat, ch = SymbolAt(text, pos - 1), RangeStar
  PROVE  Tells(g)'
<1>1. /\ pc = "range" /\ ch = STAR /\ num1' = f.low /\ num2' = f.high
      /\ ch' = SymbolAt(text, pos) /\ pos' = After(text, pos)
      /\ ch' # EOF => pc' = "step" /\ ret' = ret
      /\ UNCHANGED <<field, mem, flags>>
  BY DEF RangeStar, ReadTo, Goto, made, Inside
<1>2. /\ OnItem(i, list, p, j) /\ f = Fields[i] /\ r = list[j] /\ T[p] = r.from
      /\ p \in Nat \ {0} /\ n \in Nat \ {0} /\ r \in Items(f)
      /\ p + n <= Len(T) /\ Len(T) \in Nat /\ T \in Texts /\ T = text
  BY DEF Inside
<1>3. pos = p + 1
  BY <1>1, <1>2 DEF OnItem
<1>4. pos - 1 = p /\ p \in p..(p + n) /\ p + 1 \in p..(p + n) /\ (p + 1) + 1 = p + 2
  BY <1>2, <1>3
<1>5. SymbolAt(text, p) = T[p] /\ After(text, p + 1) = p + 2
  BY <1>4 DEF Inside
<1>6. r.from = STAR
  BY <1>1, <1>2, <1>4, <1>5
<1>7. r.form = "all"
  <2>1. STAR.kind = "*"
    BY CharKinds
  <2> QED
    BY <1>2, <1>6, <2>1 DEF Items, IsValue
<1>8. From(f, r) = f.low /\ To(f, r) = f.high /\ Base(r) = 1
  BY <1>7 DEF From, To, Base
<1>9. ch' # EOF
  <2>1. p + 1 \in Nat \ {0} /\ ~ (p + 1 > Len(T))
    BY <1>2
  <2> QED
    BY <1>1, <1>2, <1>3, <2>1, SymbolAtIs
<1>10. pc' = "step" /\ ret' = "none" /\ pos' = p + Base(r) + 1
  BY <1>1, <1>2, <1>3, <1>5, <1>8, <1>9
<1>11. Shown(mem, i) = Part(f, list, j - 1)
  BY <1>1, <1>2 DEF OnItem
<1>12. OnItem(i, list, p, j)'
  BY <1>1, <1>2, <1>7, <1>8, <1>10, <1>11 DEF OnItem
<1> QED
  BY <1>1, <1>10, <1>12, ItemStays DEF InTime

Settable(m, k, S, x) ==
  k \in 1..5 /\ S \subseteq Fields[k].low..Fields[k].high /\ x = SetBits(m, Fields[k], S)

LEMMA ShownOther ==
  ASSUME NEW m, NEW k, NEW S, NEW x, Settable(m, k, S, x), NEW i \in 1..5, i # k
  PROVE  Shown(x, i) = Shown(m, i)
<1>1. k \in 1..5 /\ S \subseteq Fields[k].low..Fields[k].high /\ x = SetBits(m, Fields[k], S)
  BY DEF Settable
<1>2. S \in SUBSET (Fields[k].low..Fields[k].high)
  BY <1>1
<1>3. \A v : v \in Shown(x, i) <=> v \in Shown(m, i) \/ (i = k /\ v \in S)
  BY <1>1, <1>2, ShownSet
<1> QED
  BY <1>3

LEMMA ShownOwn ==
  ASSUME NEW m, NEW k, NEW S, NEW x, Settable(m, k, S, x)
  PROVE  \A v : v \in Shown(x, k) <=> v \in Shown(m, k) \/ v \in S
<1>1. k \in 1..5 /\ S \subseteq Fields[k].low..Fields[k].high /\ x = SetBits(m, Fields[k], S)
  BY DEF Settable
<1>2. S \in SUBSET (Fields[k].low..Fields[k].high)
  BY <1>1
<1>3. \A v : v \in Shown(x, k) <=> v \in Shown(m, k) \/ (k = k /\ v \in S)
  BY <1>1, <1>2, ShownSet
<1> QED
  BY <1>3

(* Numbers of the range are set: the field shows the range as well. *)
LEMMA ItemSet ==
  ASSUME NEW g, NEW T, NEW i, NEW f, NEW list, NEW place, NEW j, NEW r, NEW p, NEW n,
         Inside(g, T, i, f, list, place, j, r, p, n), pc # "list",
         NEW S, S = Selects(f, r), S \subseteq f.low..f.high,
         mem' = SetBits(mem, f, S), pc' = "list", pos' = p + n + 1,
         ret' = "none", field' = field, flags' = flags
  PROVE  Tells(g)'
<1>1. /\ OnItem(i, list, p, j) /\ f = Fields[i] /\ r = list[j] /\ i \in 1..5 /\ j \in DOMAIN list
      /\ n = Len(Written(r)) /\ Listed(T, WordAt(g, i), WordStop(g, i), f, list, place)
  BY DEF Inside
<1>2. Shown(mem, i) = Part(f, list, j - 1)
  BY <1>1 DEF OnItem
<1>3. j \in Nat \ {0}
  BY <1>1 DEF Listed
<1>4. PICK x, m : x = mem' /\ m = mem
  OBVIOUS
<1>5. Settable(m, i, S, x)
  BY <1>1, <1>4 DEF Settable
<1>6. \A v : v \in Shown(x, i) <=> v \in Shown(m, i) \/ v \in S
  BY <1>5, ShownOwn
<1>7. \A v : v \in Part(f, list, j) <=> v \in Part(f, list, j - 1) \/ v \in Selects(f, list[j])
  BY <1>3, PartMore
<1>8. Shown(mem', i) = Part(f, list, j)
  BY <1>1, <1>2, <1>4, <1>6, <1>7
<1>9. \A k \in 1..(i - 1) : Shown(mem', k) = Shown(mem, k)
  <2>1. ASSUME NEW k \in 1..(i - 1) PROVE Shown(x, k) = Shown(m, k)
    <3>1. k \in 1..5 /\ k # i
      BY <1>1
    <3> QED
      BY <1>5, <3>1, ShownOther
  <2> QED
    BY <1>4, <2>1
<1>10. OnItem(i, list, p, j)'
  BY <1>1, <1>8 DEF OnItem
<1> QED
  BY <1>9, <1>10, ItemStays DEF InTime

LEMMA TellsRangeNumber ==
  ASSUME NEW g, NEW T, NEW i, NEW f, NEW list, NEW place, NEW j, NEW r, NEW p, NEW n,
         Inside(g, T, i, f, list, place, j, r, p, n), ret = "none",
         pos - 1 \in Nat, ch = SymbolAt(text, pos - 1), RangeNumber
  PROVE  Tells(g)'
<1>1. PICK terms, x : /\ terms = {",", "-", "blank", "newline"}
                      /\ x = get_number(f.low, f.names, ch, pos, terms)
  OBVIOUS
<1>2. /\ pc = "range" /\ ch # STAR
      /\ \/ ~x.ok
         \/ /\ x.ok /\ x.ch = DASH /\ num1' = x.num /\ pos' = x.pos /\ pc' = "span"
            /\ UNCHANGED <<mem, ret>>
         \/ /\ x.ok /\ x.ch # DASH
            /\ x.num \in f.low..f.high =>
                 mem' = SetBits(mem, f, {x.num}) /\ pos' = x.pos /\ pc' = "list" /\ ret' = ret
      /\ UNCHANGED <<field, flags>>
  BY <1>1 DEF RangeNumber, Goto, made, Inside
<1>3. /\ OnItem(i, list, p, j) /\ f = Fields[i] /\ r = list[j] /\ T[p] = r.from
      /\ p \in Nat \ {0} /\ n \in Nat \ {0} /\ r \in Items(f) /\ Fits(f, r)
      /\ p + n <= Len(T) /\ Len(T) \in Nat /\ T \in Texts /\ T = text /\ i \in 1..5
  BY DEF Inside
<1>4. pos = p + 1
  BY <1>2, <1>3 DEF OnItem
<1>5. pos - 1 = p /\ p \in p..(p + n) /\ p + 1 \in p..(p + n) /\ (p + 1) + 1 = p + 2
  BY <1>3, <1>4
<1>6. SymbolAt(text, p) = T[p] /\ After(text, p + 1) = p + 2 /\ SymbolAt(text, p + 1) = T[p + 1]
  BY <1>5 DEF Inside
<1>7. ch = r.from
  BY <1>3, <1>5, <1>6
<1>8. r.form \in {"one", "span"} /\ IsValue(f, r.from)
  BY <1>2, <1>3, <1>7 DEF Items, IsValue
<1>9. PICK a : a = Value(f, r.from)
  OBVIOUS
<1>10. From(f, r) = a
  BY <1>8, <1>9 DEF From
<1>11. a \in 0..INT_MAX /\ a \in f.low..f.high
  <2>1. f.low \in Nat /\ f.high \in Nat /\ f.high < INT_MAX /\ INT_MAX \in Nat /\ a \in f.low..f.high
    BY <1>3, <1>10, RangeFits
  <2> QED
    BY <2>1
<1>12. T[p + 1].kind \in terms /\ (T[p + 1] = DASH <=> r.form = "span") /\ (r.form = "one" => n = 1)
  <2>1. CASE r.form = "span"
    <3>1. T[p + 1] = DASH
      BY <2>1 DEF Inside
    <3>2. DASH.kind = "-"
      BY CharKinds
    <3> QED
      BY <1>1, <2>1, <3>1, <3>2
  <2>2. CASE r.form = "one"
    <3>1. r.step = 0
      BY <1>3, <2>2 DEF Items
    <3>2. n = 1
      <4>1. n = Base(r) + (IF r.step = 0 THEN 0 ELSE 2)
        BY DEF Inside
      <4> QED
        BY <2>2, <3>1, <4>1 DEF Base
    <3>3. T[p + n].kind \in {",", "blank"} /\ T[p + n] # DASH
      BY DEF Inside
    <3> QED
      BY <1>1, <2>2, <3>2, <3>3
  <2> QED
    BY <1>8, <2>1, <2>2
<1>13. x.ok /\ x.num = a /\ x.ch = T[p + 1] /\ x.pos = p + 2
  <2>1. x = [ok |-> TRUE, num |-> a, ch |-> SymbolAt(text, p + 1), pos |-> After(text, p + 1)]
    <3>1. PICK y, v : y = p + 1 /\ v = r.from
      OBVIOUS
    <3>2. IsValue(f, v) /\ Value(f, v) \in 0..INT_MAX /\ SymbolAt(text, y).kind \in terms
      BY <1>6, <1>8, <1>9, <1>11, <1>12, <3>1
    <3>3. get_number(f.low, f.names, v, y, terms) =
            [ok |-> TRUE, num |-> Value(f, v), ch |-> SymbolAt(text, y), pos |-> After(text, y)]
      BY <3>2, ValueRead
    <3> QED
      BY <1>1, <1>4, <1>7, <1>9, <3>1, <3>3
  <2> QED
    BY <1>6, <2>1
<1>14. CASE r.form = "span"
  <2>1. num1' = a /\ pos' = p + 2 /\ pc' = "span" /\ UNCHANGED <<mem, ret>>
    BY <1>2, <1>12, <1>13, <1>14
  <2>2. Shown(mem, i) = Part(f, list, j - 1)
    BY <1>2, <1>3 DEF OnItem
  <2>3. OnItem(i, list, p, j)'
    BY <1>3, <1>10, <1>14, <2>1, <2>2 DEF OnItem
  <2> QED
    BY <1>2, <2>1, <2>3, ItemStays DEF InTime
<1>15. CASE r.form = "one"
  <2>1. mem' = SetBits(mem, f, {a}) /\ pos' = p + 2 /\ pc' = "list" /\ ret' = ret
    BY <1>2, <1>11, <1>12, <1>13, <1>15
  <2>2. Selects(f, r) = {a}
    BY <1>3, <1>10, <1>15, SelectsOne
  <2>3. n = 1 /\ p + n + 1 = p + 2 /\ {a} \subseteq f.low..f.high
    BY <1>3, <1>11, <1>12, <1>15
  <2> QED
    BY <1>2, <2>1, <2>2, <2>3, ItemSet
<1> QED
  BY <1>8, <1>14, <1>15

LEMMA TellsRangeSpan ==
  ASSUME NEW g, NEW T, NEW i, NEW f, NEW list, NEW place, NEW j, NEW r, NEW p, NEW n,
         Inside(g, T, i, f, list, place, j, r, p, n), ret = "none", RangeSpan
  PROVE  Tells(g)'
<1>1. PICK terms, x : /\ terms = {"/", ",", "blank", "newline"}
                      /\ x = get_number(f.low, f.names, SymbolAt(text, pos), After(text, pos), terms)
  OBVIOUS
<1>2. /\ pc = "span"
      /\ x.ok /\ ~ (num1 > x.num) =>
           num2' = x.num /\ pos' = x.pos /\ pc' = "step" /\ ret' = ret
      /\ UNCHANGED <<field, flags, mem, num1>>
  BY <1>1 DEF RangeSpan, Goto, made, Inside
<1>3. /\ OnItem(i, list, p, j) /\ f = Fields[i] /\ r = list[j]
      /\ p \in Nat \ {0} /\ n \in Nat \ {0} /\ r \in Items(f) /\ Fits(f, r) /\ i \in 1..5
      /\ n = Base(r) + (IF r.step = 0 THEN 0 ELSE 2)
  BY DEF Inside
<1>4. r.form = "span" /\ pos = p + 2 /\ num1 = From(f, r) /\ Shown(mem, i) = Part(f, list, j - 1)
  BY <1>2, <1>3 DEF OnItem
<1>5. Base(r) = 3 /\ (r.step = 0 => n = 3) /\ (r.step # 0 => n = 5)
  BY <1>3, <1>4 DEF Base
<1>6. /\ p + 2 \in p..(p + n) /\ p + 3 \in p..(p + n)
      /\ (p + 2) + 1 = p + 3 /\ (p + 3) + 1 = p + 4 /\ p + Base(r) + 1 = p + 4
  BY <1>3, <1>5
<1>7. /\ SymbolAt(text, pos) = r.to /\ After(text, pos) = p + 3
      /\ SymbolAt(text, p + 3) = T[p + 3] /\ After(text, p + 3) = p + 4
  BY <1>4, <1>6 DEF Inside
<1>8. IsValue(f, r.to)
  BY <1>3, <1>4 DEF Items, IsValue
<1>9. PICK a, b : a = From(f, r) /\ b = To(f, r)
  OBVIOUS
<1>10. b = Value(f, r.to)
  BY <1>4, <1>9 DEF To
<1>11. b \in 0..INT_MAX /\ a \in Int /\ a <= b
  <2>1. /\ f.low \in Nat /\ f.high \in Nat /\ f.high < INT_MAX /\ INT_MAX \in Nat
        /\ a \in f.low..f.high /\ b \in f.low..f.high /\ a <= b
    BY <1>3, <1>9, RangeFits
  <2> QED
    BY <2>1
<1>12. T[p + 3].kind \in terms
  <2>1. CASE r.step = 0
    <3>1. T[p + n].kind \in {",", "blank"}
      BY DEF Inside
    <3> QED
      BY <1>1, <1>5, <2>1, <3>1
  <2>2. CASE r.step # 0
    <3>1. T[p + Base(r)] = SLASH
      BY <2>2 DEF Inside
    <3>2. SLASH.kind = "/"
      BY CharKinds
    <3> QED
      BY <1>1, <1>5, <3>1, <3>2
  <2> QED
    BY <2>1, <2>2
<1>13. x.ok /\ x.num = b /\ x.pos = p + 4
  <2>1. PICK y, v : y = p + 3 /\ v = r.to
    OBVIOUS
  <2>2. IsValue(f, v) /\ Value(f, v) \in 0..INT_MAX /\ SymbolAt(text, y).kind \in terms
    BY <1>7, <1>8, <1>10, <1>11, <1>12, <2>1
  <2>3. get_number(f.low, f.names, v, y, terms) =
          [ok |-> TRUE, num |-> Value(f, v), ch |-> SymbolAt(text, y), pos |-> After(text, y)]
    BY <2>2, ValueRead
  <2>4. x = get_number(f.low, f.names, v, y, terms)
    BY <1>1, <1>7, <2>1
  <2>5. x = [ok |-> TRUE, num |-> b, ch |-> SymbolAt(text, y), pos |-> p + 4]
    BY <1>7, <1>10, <2>1, <2>3, <2>4
  <2> QED
    BY <2>5
<1>14. num2' = b /\ pos' = p + 4 /\ pc' = "step" /\ ret' = "none"
  BY <1>2, <1>4, <1>9, <1>11, <1>13
<1>15. OnItem(i, list, p, j)'
  BY <1>2, <1>3, <1>4, <1>6, <1>9, <1>14 DEF OnItem
<1> QED
  BY <1>2, <1>14, <1>15, ItemStays DEF InTime

LEMMA TellsRangeStep ==
  ASSUME NEW g, NEW T, NEW i, NEW f, NEW list, NEW place, NEW j, NEW r, NEW p, NEW n,
         Inside(g, T, i, f, list, place, j, r, p, n), ret = "none",
         ch = SymbolAt(text, pos - 1), RangeStep
  PROVE  Tells(g)'
<1>1. PICK terms, x : /\ terms = {",", "blank", "newline"}
                      /\ x = get_number(0, <<>>, SymbolAt(text, pos), After(text, pos), terms)
  OBVIOUS
<1>2. /\ pc = "step" /\ UNCHANGED <<field, flags, mem, num1, num2>>
  BY DEF RangeStep, made
<1>3. /\ OnItem(i, list, p, j) /\ f = Fields[i] /\ r = list[j] /\ n = Len(Written(r))
      /\ p \in Nat \ {0} /\ n \in Nat \ {0} /\ r \in Items(f) /\ Fits(f, r) /\ i \in 1..5
      /\ n = Base(r) + (IF r.step = 0 THEN 0 ELSE 2)
  BY DEF Inside
<1>4. /\ r.form # "one" /\ pos = p + Base(r) + 1 /\ num2 = To(f, r) /\ num1 = From(f, r)
      /\ Shown(mem, i) = Part(f, list, j - 1)
  BY <1>2, <1>3 DEF OnItem
<1>5. PICK m : m = Base(r)
  OBVIOUS
<1>6. m \in {1, 3} /\ (r.step = 0 => n = m) /\ (r.step # 0 => n = m + 2)
  BY <1>3, <1>5 DEF Base
<1>7. pos - 1 = p + m /\ p + m \in p..(p + n) /\ pos = p + m + 1
  BY <1>3, <1>4, <1>5, <1>6
<1>8. ch = T[p + m]
  BY <1>7 DEF Inside
<1>9. CASE r.step = 0
  <2>1. ch # SLASH
    BY <1>6, <1>8, <1>9 DEF Inside
  <2>2. num3' = 1 /\ pc' = "elements" /\ ret' = ret /\ pos' = pos
    BY <2>1 DEF RangeStep, Goto, stream
  <2>3. Step(r) = 1 /\ pos = p + n + 1
    BY <1>6, <1>7, <1>9 DEF Step
  <2>4. OnItem(i, list, p, j)'
    BY <1>2, <1>3, <1>4, <2>2, <2>3 DEF OnItem
  <2> QED
    BY <1>2, <2>2, <2>4, ItemStays DEF InTime
<1>10. CASE r.step # 0
  <2>1. ch = SLASH
    BY <1>5, <1>8, <1>10 DEF Inside
  <2>2. x.ok /\ x.num # 0 => num3' = x.num /\ pos' = x.pos /\ pc' = "elements" /\ ret' = ret
    BY <1>1, <2>1 DEF RangeStep, Goto
  <2>3. /\ p + m + 1 \in p..(p + n) /\ p + n \in p..(p + n) /\ (p + m + 1) + 1 = p + n
    BY <1>3, <1>6, <1>10
  <2>4. /\ SymbolAt(text, pos) = T[p + m + 1] /\ After(text, pos) = p + n
        /\ SymbolAt(text, p + n) = T[p + n] /\ After(text, p + n) = p + n + 1
    BY <1>7, <2>3 DEF Inside
  <2>5. T[p + m + 1] = Num(r.step) /\ T[p + n].kind \in terms
    BY <1>1, <1>5, <1>10 DEF Inside
  <2>6. Step(r) = r.step /\ r.step \in 0..INT_MAX
    <3>1. Step(r) = r.step
      BY <1>10 DEF Step
    <3>2. Step(r) \in 1..INT_MAX /\ INT_MAX \in Nat
      BY <1>3, RangeFits
    <3> QED
      BY <3>1, <3>2
  <2>7. x.ok /\ x.num = r.step /\ x.pos = p + n + 1
    <3>1. PICK y, s : y = p + n /\ s = r.step
      OBVIOUS
    <3>2. s \in 0..INT_MAX /\ SymbolAt(text, y).kind \in terms
      BY <2>4, <2>5, <2>6, <3>1
    <3>3. get_number(0, <<>>, Num(s), y, terms) =
            [ok |-> TRUE, num |-> s, ch |-> SymbolAt(text, y), pos |-> After(text, y)]
      BY <3>2, StepRead
    <3>4. x = get_number(0, <<>>, Num(s), y, terms)
      BY <1>1, <2>4, <2>5, <3>1
    <3>5. x = [ok |-> TRUE, num |-> s, ch |-> SymbolAt(text, y), pos |-> p + n + 1]
      BY <2>4, <3>1, <3>3, <3>4
    <3> QED
      BY <3>1, <3>5
  <2>8. num3' = Step(r) /\ pos' = p + n + 1 /\ pc' = "elements" /\ ret' = "none"
    BY <1>10, <2>2, <2>6, <2>7
  <2>9. OnItem(i, list, p, j)'
    BY <1>2, <1>3, <1>4, <2>8 DEF OnItem
  <2> QED
    BY <1>2, <2>8, <2>9, ItemStays DEF InTime
<1> QED
  BY <1>9, <1>10

LEMMA TellsRangeElements ==
  ASSUME NEW g, NEW T, NEW i, NEW f, NEW list, NEW place, NEW j, NEW r, NEW p, NEW n,
         Inside(g, T, i, f, list, place, j, r, p, n), ret = "none", RangeElements
  PROVE  Tells(g)'
<1>1. /\ pc = "elements" /\ UNCHANGED <<field, flags>>
  BY DEF RangeElements, made, range
<1>2. /\ OnItem(i, list, p, j) /\ f = Fields[i] /\ r = list[j] /\ n = Len(Written(r))
      /\ r \in Items(f) /\ Fits(f, r) /\ i \in 1..5 /\ i = field
  BY DEF Inside
<1>3. pos = p + n + 1 /\ num2 = To(f, r) /\ num3 = Step(r) /\ num1 = From(f, r)
  BY <1>1, <1>2 DEF OnItem
<1>4. Visited = Selects(f, r) /\ Visited \subseteq f.low..f.high /\ num3 > 0 /\ ~Overflows
  BY <1>2, <1>3, VisitedIs
<1>5. InField
  BY <1>2, <1>4 DEF InField
<1>6. mem' = SetBits(mem, f, Visited) /\ pc' = "list" /\ ret' = ret /\ pos' = pos
  BY <1>2, <1>4, <1>5 DEF RangeElements, Goto, stream
<1> QED
  BY <1>1, <1>3, <1>4, <1>6, ItemSet

LEMMA TellsNextRange ==
  ASSUME NEW g, NEW T, NEW i, NEW f, NEW list, NEW place, NEW j, NEW r, NEW p, NEW n,
         Inside(g, T, i, f, list, place, j, r, p, n), ret = "none",
         ch = SymbolAt(text, pos - 1), NextRange
  PROVE  Tells(g)'
<1>1. /\ pc = "list" /\ ch = COMMA /\ pos' = After(text, pos) /\ pc' = "range" /\ ret' = ret
      /\ UNCHANGED <<field, mem, flags>>
  BY DEF NextRange, ReadTo, Goto, range, made
<1>2. /\ OnItem(i, list, p, j) /\ f = Fields[i] /\ r = list[j] /\ n = Len(Written(r)) /\ p = place[j]
      /\ p \in Nat \ {0} /\ n \in Nat \ {0} /\ j \in DOMAIN list /\ list = g.fields[i]
      /\ Listed(T, WordAt(g, i), WordStop(g, i), f, list, place)
      /\ T = g.text /\ T = text /\ p + n <= Len(T) /\ T \in Texts /\ i = field /\ Tells(g)
      /\ Len(T) \in Nat
  BY DEF Inside
<1>3. pos = p + n + 1 /\ Shown(mem, i) = Part(f, list, j)
  BY <1>1, <1>2 DEF OnItem
<1>4. pos - 1 = p + n /\ p + n \in p..(p + n)
  BY <1>2, <1>3
<1>5. ch = T[p + n]
  BY <1>4 DEF Inside
<1>6. j # Len(list)
  <2>1. COMMA.kind = "," /\ BLANK.kind = "blank"
    BY CharKinds
  <2> QED
    BY <1>1, <1>5, <2>1 DEF Inside
<1>7. j + 1 \in DOMAIN list /\ place[j + 1] = p + n + 1
  BY <1>2, <1>6, ItemAt
<1>8. After(text, pos) = p + n + 2
  <2>1. PICK y, l : y = p + n + 1 /\ l = Len(T)
    OBVIOUS
  <2>2. p \in Nat /\ n \in Nat /\ l \in Nat /\ p + n <= l
    BY <1>2, <2>1
  <2>3. y \in Nat \ {0} /\ y <= l + 1 /\ y + 1 = p + n + 2
    BY <2>1, <2>2
  <2>4. y \in Nat \ {0} /\ y <= Len(T) + 1
    BY <2>1, <2>3
  <2>5. After(T, y) = y + 1
    BY <1>2, <2>4, AfterIs
  <2> QED
    BY <1>2, <1>3, <2>1, <2>3, <2>5
<1>9. PICK k, s : k = j + 1 /\ s = place[k]
  OBVIOUS
<1>10. k \in DOMAIN list /\ s = p + n + 1 /\ k - 1 = j /\ pos' = s + 1
  <2>1. j \in Nat
    BY <1>2 DEF Listed
  <2>2. k \in DOMAIN list /\ s = p + n + 1 /\ k - 1 = j
    BY <1>7, <1>9, <2>1
  <2>3. p + n + 2 = (p + n + 1) + 1
    BY <1>2
  <2> QED
    BY <1>1, <1>8, <2>2, <2>3
<1>11. OnItem(i, list, s, k)'
  BY <1>1, <1>2, <1>3, <1>10 DEF OnItem
<1>12. InList(g, i)'
  BY <1>2, <1>9, <1>10, <1>11, InListAt
<1>13. Starred(g)
  BY <1>1, <1>2 DEF Tells, InTime
<1>14. Starred(g)'
  BY <1>1, <1>13 DEF Starred
<1>15. InList(g, field)'
  BY <1>1, <1>2, <1>12
<1> QED
  BY <1>1, <1>2, <1>14, <1>15, RangeStays DEF InTime

-----------------------------------------------------------------------------
(* A word of the line is a list: its place, and the symbol it begins with. *)
LEMMA WordListed ==
  ASSUME NEW g, Proper(g), NumericLine(g, FirstField(g.text)), NEW i \in 1..5
  PROVE  \E place : Listed(g.text, WordAt(g, i), WordStop(g, i), Fields[i], g.fields[i], place)
<1>1. PICK T, p, w, q : T = g.text /\ p = FirstField(T) /\ w = Words(T, p)[i] /\ q = Skip_Nonblanks(T, w)
  OBVIOUS
<1>2. T \in Texts /\ p \in Nat \ {0} /\ NumericLine(g, p)
  BY <1>1, ProperText
<1>3. \E place : Listed(T, w, q, Fields[i], g.fields[i], place)
  BY <1>1, <1>2, NumericField
<1> QED
  BY <1>1, <1>3 DEF WordAt, WordStop

OnWord(g, T, i, w) ==
  Proper(g) /\ T = g.text /\ NumericLine(g, FirstField(T)) /\ i \in 1..5 /\ w = WordAt(g, i)

LEMMA WordBegins ==
  ASSUME NEW g, NEW T, NEW i, NEW w, OnWord(g, T, i, w)
  PROVE  /\ w \in Nat \ {0} /\ w <= Len(T) /\ SymbolAt(T, w) = T[w] /\ After(T, w) = w + 1
         /\ T[w] # EOF
         /\ T[w] = STAR <=> g.fields[i][1].form = "all"
<1>1. PICK q, list, place : /\ q = WordStop(g, i) /\ list = g.fields[i]
                            /\ Listed(T, w, q, Fields[i], list, place)
  BY WordListed DEF OnWord
<1>2. w < q /\ (T[w] = STAR <=> list[1].form = "all") /\ T[w].kind \in {"*", "number", "word"}
  BY <1>1, FirstRange
<1>3. T \in Texts /\ w \in Nat \ {0} /\ q \in Nat /\ q <= Len(T)
  BY <1>1 DEF Listed
<1>4. Len(T) \in Nat
  BY <1>3 DEF Texts
<1>5. w <= Len(T) /\ w <= Len(T) + 1
  BY <1>2, <1>3, <1>4
<1>6. SymbolAt(T, w) = T[w] /\ After(T, w) = w + 1
  BY <1>3, <1>5, SymbolAtIs, AfterIs
<1>7. T[w] # EOF
  <2>1. EOF.kind = "EOF"
    BY CharKinds
  <2> QED
    BY <1>2, <2>1
<1> QED
  BY <1>1, <1>2, <1>3, <1>5, <1>6, <1>7

LEMMA TellsFieldStart ==
  ASSUME Control, InLine, NEW g, g = file, Proper(g), Tells(g), FieldStart
  PROVE  Tells(g)'
<1>1. PICK i, f, T, list, w : /\ i = field /\ f = Fields[i] /\ T = g.text /\ list = g.fields[i]
                              /\ w = WordAt(g, i)
  OBVIOUS
<1>2. /\ pc = "field" /\ flags' = (IF ch = STAR THEN flags \cup {f.star} ELSE flags)
      /\ mem' = bit_nclear(mem, f.name, 0, f.high - f.low + 1)
      /\ pc' = "range" /\ ret' = ret /\ UNCHANGED <<field, pos>>
  BY <1>1 DEF FieldStart, Goto, stream, range
<1>3. i \in 1..5 /\ ret = "none" /\ T = text
  BY <1>1, <1>2 DEF Control, text
<1>4. NumericLine(g, FirstField(T)) /\ Starred(g) /\ pos = w + 1
  BY <1>1, <1>2 DEF Tells, InTime
<1>5. /\ w \in Nat \ {0} /\ SymbolAt(T, w) = T[w]
      /\ T[w] = STAR <=> list[1].form = "all"
  <2>1. OnWord(g, T, i, w)
    BY <1>1, <1>3, <1>4 DEF OnWord
  <2> QED
    BY <1>1, <2>1, WordBegins
<1>6. ch = T[w]
  <2>1. ch = SymbolAt(text, pos - 1)
    BY <1>2, Ahead DEF Reading
  <2>2. pos - 1 = w
    BY <1>4, <1>5
  <2> QED
    BY <1>3, <1>5, <2>1, <2>2
<1>7. Starred(g)'
  <2>1. ASSUME ch = STAR PROVE i \in {k \in 1..5 : g.fields[k][1].form = "all"}
    BY <1>1, <1>3, <1>5, <1>6, <2>1
  <2> DEFINE S == {k \in 1..5 : g.fields[k][1].form = "all"}
  <2>2. flags \subseteq {"DONT_LOG"} \cup {Fields[k].star : k \in S}
    BY <1>4 DEF Starred
  <2>3. ASSUME ch = STAR PROVE f.star \in {Fields[k].star : k \in S}
    BY <1>1, <2>1, <2>3
  <2> HIDE DEF S
  <2>4. flags' \subseteq {"DONT_LOG"} \cup {Fields[k].star : k \in S}
    BY <1>2, <2>2, <2>3
  <2> QED
    BY <2>4 DEF S, Starred
<1>8. PICK m, x : m = mem /\ x = mem'
  OBVIOUS
<1>9. Shown(x, i) = {} /\ \A k \in 1..5 : k < i => Shown(x, k) = Shown(m, k)
  BY <1>1, <1>2, <1>3, <1>8, ShownCleared
<1>10. \A k \in 1..(field - 1) : Shown(mem', k) = Shown(mem, k)
  <2>1. \A k \in 1..(field - 1) : k \in 1..5 /\ k < i
    BY <1>1, <1>3
  <2> QED
    BY <1>8, <1>9, <2>1
<1>11. PICK place : Listed(T, w, WordStop(g, i), f, list, place)
  BY <1>1, <1>3, <1>4, WordListed
<1>12. PICK j, p : j = 1 /\ p = place[j]
  OBVIOUS
<1>13. j \in DOMAIN list /\ p = w /\ j - 1 = 0
  BY <1>11, <1>12, FirstRange
<1>14. Part(f, list, j - 1) = {}
  BY <1>13, PartNone
<1>15. OnItem(i, list, p, j)'
  BY <1>1, <1>2, <1>4, <1>8, <1>9, <1>13, <1>14 DEF OnItem
<1>16. InList(g, i)'
  BY <1>1, <1>11, <1>12, <1>13, <1>15, InListAt
<1>17. InList(g, field)'
  BY <1>1, <1>2, <1>16
<1> QED
  BY <1>2, <1>3, <1>7, <1>10, <1>17, RangeStays DEF InTime

(* The blanks behind a list lead to the next word. *)
LEMMA NextWordAt ==
  ASSUME NEW g, Proper(g), NEW T, T = g.text, NEW i \in 1..5, NEW q, q = WordStop(g, i),
         q \in Nat \ {0}, q <= Len(T), T[q] = BLANK
  PROVE  /\ Skip_Blanks(T, Skip_Nonblanks(T, q)) = WordAt(g, i + 1)
         /\ WordAt(g, i + 1) \in Nat \ {0}
<1>1. T \in Texts /\ FirstField(T) \in Nat \ {0}
  BY ProperText
<1>2. Skip_Nonblanks(T, q) = q
  <2>1. BLANK.kind = "blank"
    BY CharKinds
  <2>2. T[q].kind \in WordEnd
    BY <2>1 DEF WordEnd
  <2> QED
    BY <1>1, <2>2, FindHere DEF Skip_Nonblanks
<1>3. PICK p, k : p = FirstField(T) /\ k = i + 1
  OBVIOUS
<1>4. Words(T, p)[k] = Skip_Blanks(T, Skip_Nonblanks(T, Words(T, p)[i])) /\ k \in 1..6
  BY <1>1, <1>3, WordsAre
<1>5. Words(T, p)[k] \in Nat \ {0}
  BY <1>1, <1>3, <1>4, WordsAre
<1> QED
  BY <1>2, <1>3, <1>4, <1>5 DEF WordAt, WordStop

LEMMA TellsListEnd ==
  ASSUME NEW g, NEW T, NEW i, NEW f, NEW list, NEW place, NEW j, NEW r, NEW p, NEW n,
         Inside(g, T, i, f, list, place, j, r, p, n), ret = "none",
         ch = SymbolAt(text, pos - 1), ListEnd
  PROVE  Tells(g)'
<1>1. PICK q, w : q = WordStop(g, i) /\ w = WordAt(g, i + 1)
  OBVIOUS
<1>2. /\ OnItem(i, list, p, j) /\ f = Fields[i] /\ r = list[j] /\ n = Len(Written(r)) /\ p = place[j]
      /\ p \in Nat \ {0} /\ n \in Nat \ {0} /\ j \in DOMAIN list /\ list = g.fields[i]
      /\ Listed(T, WordAt(g, i), q, f, list, place)
      /\ T = g.text /\ T = text /\ T \in Texts /\ i = field /\ Tells(g) /\ i \in 1..5 /\ Proper(g)
  BY <1>1 DEF Inside
<1>3. pc = "list" /\ ch # COMMA /\ UNCHANGED <<mem, flags>>
  BY DEF ListEnd, made
<1>4. pos = p + n + 1 /\ Shown(mem, i) = Part(f, list, j)
  BY <1>2, <1>3 DEF OnItem
<1>5. pos - 1 = p + n /\ p + n \in p..(p + n)
  BY <1>2, <1>4
<1>6. ch = T[p + n]
  BY <1>5 DEF Inside
<1>7. j = Len(list)
  BY <1>3, <1>6 DEF Inside
<1>8. p + n = q
  BY <1>2, <1>7, ItemAt
<1>9. q \in Nat \ {0} /\ q <= Len(T) /\ T[q] = BLANK
  BY <1>2, <1>8 DEF Listed
<1>10. Skip_Blanks(text, Skip_Nonblanks(text, pos - 1)) = w /\ w \in Nat \ {0}
  <2>1. Proper(g) /\ T = g.text /\ i \in 1..5 /\ q = WordStop(g, i)
    BY <1>1, <1>2
  <2>2. Skip_Blanks(T, Skip_Nonblanks(T, q)) = WordAt(g, i + 1) /\ WordAt(g, i + 1) \in Nat \ {0}
    BY <1>9, <2>1, NextWordAt
  <2> QED
    BY <1>1, <1>2, <1>5, <1>8, <2>2
<1>11. ch' = SymbolAt(T, w) /\ pos' = After(T, w)
  BY <1>2, <1>10 DEF ListEnd, ReadTo
<1>12. NumericLine(g, FirstField(T)) /\ Starred(g) /\ Read(g, i)
  BY <1>2, <1>3 DEF Tells, InTime
<1>13. Starred(g)'
  BY <1>3, <1>12 DEF Starred
<1>14. Shown(mem, i) = Meaning(f, list)
  <2>1. DOMAIN list = 1..Len(list)
    BY <1>2 DEF Listed
  <2> QED
    BY <1>4, <1>7, <2>1, PartAll
<1>15. \A k \in 1..i : Shown(mem', k) = Meaning(Fields[k], g.fields[k])
  <2>1. \A k \in 1..(i - 1) : Shown(mem, k) = Meaning(Fields[k], g.fields[k])
    BY <1>12 DEF Read
  <2>2. \A k \in 1..i : k \in 1..(i - 1) \/ k = i
    BY <1>2
  <2> QED
    BY <1>2, <1>3, <1>14, <2>1, <2>2
<1>16. CASE i < 5
  <2>1. PICK k : k = i + 1
    OBVIOUS
  <2>2. k \in 1..5 /\ k - 1 = i
    BY <1>2, <1>16, <2>1
  <2>3. SymbolAt(T, w) # EOF /\ After(T, w) = w + 1
    <3>1. OnWord(g, T, k, w)
      BY <1>1, <1>2, <1>12, <2>1, <2>2 DEF OnWord
    <3> QED
      BY <3>1, WordBegins
  <2>4. pc' = "field" /\ field' = k /\ ret' = ret
    BY <1>2, <1>11, <1>16, <2>1, <2>3, FieldsAre DEF ListEnd, Goto
  <2>5. Read(g, field)'
    BY <1>15, <2>2, <2>4 DEF Read
  <2>6. pos' = WordAt(g, field') + 1
    BY <1>1, <1>11, <2>1, <2>3, <2>4
  <2> QED
    BY <1>2, <1>12, <1>13, <2>4, <2>5, <2>6 DEF Tells, InTime, Making, Accepted
<1>17. CASE i = 5
  <2>1. UserAndCommand(g, w)
    <3>1. w = Words(T, FirstField(T))[6]
      BY <1>1, <1>2, <1>17 DEF WordAt
    <3> QED
      BY <1>2, <1>12, <3>1 DEF NumericLine
  <2>2. w \in 1..Len(T) /\ SymbolAt(T, w) = Word(g.user)
    BY <1>2, <1>10, <2>1, UserIs
  <2>3. SymbolAt(T, w) # EOF
    <3>1. Word(g.user).kind = "word" /\ EOF.kind = "EOF"
      BY CharKinds
    <3> QED
      BY <2>2, <3>1
  <2>4. pc' = "sundays" /\ field' = 5 /\ ret' = ret
    BY <1>2, <1>11, <1>17, <2>3, FieldsAre DEF ListEnd, Goto
  <2>5. pos' = w + 1
    <3>1. Len(T) \in Nat
      BY <1>2 DEF Texts
    <3>2. w <= Len(T) + 1
      BY <1>10, <2>2, <3>1
    <3> QED
      BY <1>2, <1>10, <1>11, <3>2, AfterIs
  <2>6. Read(g, 6)'
    BY <1>15, <1>17 DEF Read
  <2>7. UserBefore(g, pos, 1)'
    BY <1>2, <2>1, <2>2, <2>5 DEF UserBefore
  <2> QED
    BY <1>13, <2>4, <2>6, <2>7 DEF Tells, InTime, Making, Accepted
<1> QED
  BY <1>2, <1>16, <1>17

-----------------------------------------------------------------------------
(***************************************************************************)
(* Before the time.                                                        *)
(***************************************************************************)
LEMMA TellsSkip ==
  ASSUME Control, InLine, NEW g, g = file, Proper(g), Tells(g), SkipLine \/ NoMoreLines \/ FirstChar
  PROVE  Tells(g)'
<1>1. PICK T : T = g.text
  OBVIOUS
<1>2. T = text /\ T \in Texts /\ UsefulLines(T) # {} /\ pc = "skip" /\ ret = "none"
  BY <1>1, ProperText DEF text, SkipLine, NoMoreLines, FirstChar, Control
<1>3. AtLine(T, pos) /\ flags = {}
  BY <1>2 DEF InLine, Place, Tells
<1>4. CASE SkipLine
  <2>1. pc' = "skip" /\ UNCHANGED <<flags, ret>>
    BY <1>2, <1>4 DEF SkipLine, made
  <2> QED
    BY <1>2, <1>3, <2>1 DEF Tells, InTime, Making, Accepted
<1>5. CASE NoMoreLines
  BY <1>2, <1>3, <1>5, NoLine DEF NoMoreLines, LineStart
<1>6. CASE FirstChar
  <2>1. /\ SymbolAt(T, Skip_Blanks(T, pos)) \notin {NL, HASH, EOF}
        /\ pos' = After(T, Skip_Blanks(T, pos)) /\ UNCHANGED flags
    BY <1>2, <1>6 DEF FirstChar, LineStart, ReadTo
  <2>2. \/ pc' = "dash" /\ ret' = ret
        \/ pc' = "done" /\ ret' = "crash"
    <3>1. \/ Goto("dash") /\ heap' = {"entry"}
          \/ Return("crash") /\ UNCHANGED <<heap, ecode>>
      BY <1>6 DEF FirstChar
    <3> QED
      BY <3>1, Zenon DEF Goto, Return
  <2>3. Skip_Blanks(T, pos) = EntryLine(T)
    BY <1>2, <1>3, <2>1, FirstIsEntry
  <2>4. EntryLine(T) \in Nat \ {0} /\ EntryLine(T) <= Len(T) /\ Len(T) \in Nat
    BY <1>1, ProperText
  <2>5. pos' = EntryLine(T) + 1
    <3>1. PICK y : y = EntryLine(T)
      OBVIOUS
    <3>2. y \in Nat \ {0} /\ y <= Len(T) + 1
      BY <2>4, <3>1
    <3> QED
      BY <1>2, <2>1, <2>3, <3>1, <3>2, AfterIs
  <2>6. CASE pc' = "dash" /\ ret' = ret
    BY <1>1, <1>2, <1>3, <2>1, <2>5, <2>6 DEF Tells, InTime, Making, Accepted
  <2>7. CASE pc' = "done" /\ ret' = "crash"
    BY <2>7, TellsStops
  <2> QED
    BY <2>2, <2>6, <2>7
<1> QED
  BY <1>4, <1>5, <1>6

LEMMA TellsDash ==
  ASSUME Control, InLine, NEW g, g = file, Proper(g), Tells(g), Dash
  PROVE  Tells(g)'
<1>1. PICK T, b, p : T = g.text /\ b = EntryLine(T) /\ p = FirstField(T)
  OBVIOUS
<1>2. T = text /\ pc = "dash" /\ ret = "none"
  BY <1>1 DEF text, Dash, Control
<1>3. pos = b + 1 /\ flags = {}
  BY <1>1, <1>2 DEF Tells
<1>4. /\ T \in Texts /\ b \in Nat \ {0} /\ b <= Len(T) /\ Len(T) \in Nat
      /\ T[b] = DASH => p = b + 1
      /\ T[b] # DASH => p = b
  BY <1>1, ProperText
<1>5. ch = T[b]
  <2>1. ch = SymbolAt(text, pos - 1)
    BY <1>2, Ahead DEF Reading
  <2>2. pos - 1 = b
    BY <1>3, <1>4
  <2> QED
    BY <1>2, <1>4, <2>1, <2>2, SymbolAtIs
<1>6. p <= Len(T) /\ SymbolAt(T, p) = T[p]
  BY <1>1, FirstSymbol
<1>7. CASE ch = DASH
  <2>1. p = b + 1
    BY <1>4, <1>5, <1>7
  <2>2. p \in Nat \ {0} /\ p <= Len(T) + 1 /\ ~ (p > Len(T))
    BY <1>4, <1>6, <2>1
  <2>3. SymbolAt(T, p) # EOF /\ After(T, p) = p + 1
    BY <1>4, <2>2, SymbolAtIs, AfterIs
  <2>4. pos' = p + 1 /\ pc' = "time" /\ ret' = ret /\ flags' = {"DONT_LOG"}
    BY <1>2, <1>3, <1>7, <2>1, <2>3 DEF Dash, ReadTo, Goto
  <2> QED
    BY <1>1, <1>2, <2>4 DEF Tells, InTime, Making, Accepted
<1>8. CASE ch # DASH
  <2>1. pos' = p + 1 /\ pc' = "time" /\ ret' = ret /\ flags' = {}
    BY <1>3, <1>4, <1>5, <1>8 DEF Dash, Goto, stream
  <2> QED
    BY <1>1, <1>2, <2>1 DEF Tells, InTime, Making, Accepted
<1> QED
  BY <1>7, <1>8

LEMMA TimeSymbol ==
  ASSUME Control, InLine, NEW g, g = file, Proper(g), Tells(g), pc = "time",
         NEW T, T = g.text, NEW p, p = FirstField(T)
  PROVE  /\ pos = p + 1 /\ flags \subseteq {"DONT_LOG"} /\ ch = T[p] /\ T = text
         /\ T \in Texts /\ Len(T) \in Nat /\ p \in Nat \ {0} /\ ret = "none"
<1>1. pos = p + 1 /\ flags \subseteq {"DONT_LOG"}
  BY DEF Tells
<1>2. T = text /\ T \in Texts /\ Len(T) \in Nat /\ p \in Nat \ {0} /\ ret = "none"
  BY ProperText DEF text, Control
<1>3. SymbolAt(T, p) = T[p]
  BY FirstSymbol
<1>4. ch = SymbolAt(text, pos - 1)
  BY Ahead DEF Reading
<1>5. pos - 1 = p
  BY <1>1, <1>2
<1> QED
  BY <1>1, <1>2, <1>3, <1>4, <1>5

LEMMA TellsAtNumerics ==
  ASSUME Control, InLine, Selecting, NEW g, g = file, Proper(g), Tells(g), AtNumerics
  PROVE  Tells(g)'
<1>1. PICK T, p : T = g.text /\ p = FirstField(T)
  OBVIOUS
<1>2. pc = "time" /\ ch # AT /\ pc' = "field" /\ UNCHANGED <<pos, field, flags, ret>>
  BY DEF AtNumerics, Goto, stream, range, made
<1>3. /\ pos = p + 1 /\ flags \subseteq {"DONT_LOG"} /\ ch = T[p]
      /\ T \in Texts /\ p \in Nat \ {0} /\ ret = "none"
  BY <1>1, <1>2, TimeSymbol
<1>4. field = 1
  BY <1>2 DEF Selecting
<1>5. NumericLine(g, p)
  BY <1>1, <1>2, <1>3, FirstSymbol
<1>6. WordAt(g, 1) = p
  BY <1>1, <1>3, WordsAre DEF WordAt
<1>7. Starred(g)'
  BY <1>2, <1>3 DEF Starred
<1>8. Read(g, field)'
  BY <1>2, <1>4 DEF Read
<1> QED
  BY <1>1, <1>2, <1>3, <1>4, <1>5, <1>6, <1>7, <1>8 DEF Tells, InTime, Making, Accepted

LEMMA TellsAtNickname ==
  ASSUME Control, InLine, NEW g, g = file, Proper(g), Tells(g), AtNickname
  PROVE  Tells(g)'
<1>1. PICK T, p, u : T = g.text /\ p = FirstField(T) /\ u = Skip_Blanks(T, p + 2)
  OBVIOUS
<1>2. pc = "time" /\ ch = AT
  BY DEF AtNickname
<1>3. /\ pos = p + 1 /\ flags \subseteq {"DONT_LOG"} /\ ch = T[p] /\ T = text
      /\ T \in Texts /\ p \in Nat \ {0} /\ ret = "none" /\ Len(T) \in Nat
  BY <1>1, <1>2, TimeSymbol
<1>4. T[p] = AT /\ NicknameLine(g, p)
  BY <1>1, <1>2, <1>3, FirstSymbol
<1>5. PICK w \in TimeWords : SymbolAt(T, p + 1) = Word(w) /\ g.fields = StandsFor(w)
  BY <1>1, <1>4 DEF NicknameLine, TimeWords
<1>6. SymbolAt(T, p + 2) = BLANK /\ UserAndCommand(g, u)
  BY <1>1, <1>4 DEF NicknameLine
<1>7. PICK v : v = p + 1
  OBVIOUS
<1>8. v \in Nat \ {0} /\ v + 1 = p + 2 /\ v + 1 \in Nat \ {0}
  BY <1>3, <1>7
<1>9. v + 1 <= Len(T) /\ T[v] = Word(w) /\ T[v + 1] = BLANK
  <2>1. Word(w).kind = "word" /\ BLANK.kind = "blank" /\ EOF.kind = "EOF"
    BY CharKinds
  <2>2. SymbolAt(T, v) # EOF /\ SymbolAt(T, v + 1) # EOF
    BY <1>5, <1>6, <1>7, <1>8, <2>1
  <2>3. T[v] = SymbolAt(T, v)
    BY <1>3, <1>8, <2>2, SymbolIs
  <2>4. v + 1 <= Len(T) /\ T[v + 1] = SymbolAt(T, v + 1)
    BY <1>3, <1>8, <2>2, SymbolIs
  <2> QED
    BY <1>5, <1>6, <1>7, <1>8, <2>3, <2>4
<1>10. /\ Find(T, v, WordEnd) = v + 1
       /\ \A x : get_string(T, v, v + 1, MAX_COMMAND) = <<Word(x)>> <=> x = w
  BY <1>3, <1>8, <1>9, OneWord
<1>11. u \in Nat \ {0} /\ u \in 1..Len(T) /\ SymbolAt(T, u) = Word(g.user)
  <2>1. u \in Nat \ {0}
    BY <1>1, <1>3, <1>8, FindPositive DEF Skip_Blanks
  <2> QED
    BY <1>1, <1>6, <2>1, UserIs
<1>12. SymbolAt(T, u) \notin {NL, EOF} /\ After(T, u) = u + 1
  <2>1. Word(g.user).kind = "word" /\ NL.kind = "newline" /\ EOF.kind = "EOF"
    BY CharKinds
  <2>2. u <= Len(T) + 1
    BY <1>3, <1>11
  <2> QED
    BY <1>3, <1>11, <2>1, <2>2, AfterIs
<1>13. /\ mem' = Nickname(w).mem /\ flags' = flags \cup Nickname(w).flags
       /\ pos' = u + 1 /\ pc' = "sundays" /\ ret' = "none"
  <2>1. w \in NicknameWords
    BY DEF TimeWords
  <2>2. PICK q, name : q = Find(text, pos, WordEnd) /\ name = get_string(text, pos, q, MAX_COMMAND)
    OBVIOUS
  <2>3. q = v + 1 /\ Skip_Blanks(text, q) = u /\ \A x : name = <<Word(x)>> <=> x = w
    BY <1>1, <1>3, <1>7, <1>8, <1>10, <2>2
  <2>4. \E x \in NicknameWords :
          /\ name = <<Word(x)>> /\ mem' = Nickname(x).mem /\ flags' = flags \cup Nickname(x).flags
          /\ ch' = SymbolAt(text, u) /\ pos' = After(text, u)
          /\ IF ch' \in {NL, EOF} THEN Fail("e_cmd") ELSE Goto("sundays")
    BY <2>1, <2>2, <2>3 DEF AtNickname, ReadTo
  <2> QED
    BY <1>3, <1>12, <2>3, <2>4 DEF Goto
<1>14. Nicknamed(g, w)'
  BY <1>1, <1>3, <1>4, <1>5, <1>13 DEF Nicknamed
<1>15. Read(g, 6)'
  <2>1. ASSUME NEW k \in 1..5 PROVE Shown(Nickname(w).mem, k) = Meaning(Fields[k], g.fields[k])
    BY <1>5, NicknameShown
  <2> QED
    BY <1>13, <2>1 DEF Read
<1>16. UserBefore(g, pos, 1)'
  BY <1>1, <1>6, <1>11, <1>13 DEF UserBefore
<1> QED
  BY <1>13, <1>14, <1>15, <1>16 DEF Tells, InTime, Making, Accepted

-----------------------------------------------------------------------------
(***************************************************************************)
(* Behind the time.                                                        *)
(***************************************************************************)
LEMMA UserBeforeIs ==
  ASSUME NEW g, Proper(g), NEW p, NEW n \in Nat, UserBefore(g, p, n)
  PROVE  \E u \in Nat \ {0} : UserAndCommand(g, u) /\ p = u + n /\ u \in 1..Len(g.text)
<1>1. Len(g.text) \in Nat
  BY ProperText
<1>2. PICK u \in 1..Len(g.text) : UserAndCommand(g, u) /\ p = u + n
  BY DEF UserBefore
<1>3. u \in Nat \ {0}
  BY <1>1
<1> QED
  BY <1>2, <1>3

LEMMA TellsEndOfTime ==
  ASSUME Control, InLine, NEW g, g = file, Proper(g), Tells(g), EndOfTime
  PROVE  Tells(g)'
<1>1. PICK T : T = g.text
  OBVIOUS
<1>2. /\ pc = "sundays" /\ mem' = Sundays(mem) /\ UNCHANGED <<field, flags, ch>>
      /\ ch \notin {NL, STAR} => pos' = unget_char(ch, pos) /\ pc' = "user" /\ ret' = ret
  BY DEF EndOfTime, Goto, range, made
<1>3. /\ UserBefore(g, pos, 1) /\ Read(g, 6)
      /\ \/ field = 5 /\ Starred(g)
         \/ \E w \in TimeWords : Nicknamed(g, w) /\ mem = Nickname(w).mem
  BY <1>2 DEF Tells
<1>4. PICK u \in Nat \ {0} : UserAndCommand(g, u) /\ pos = u + 1 /\ u \in 1..Len(T)
  BY <1>1, <1>3, UserBeforeIs
<1>5. T = text /\ ret = "none" /\ SymbolAt(T, u) = Word(g.user)
  BY <1>1, <1>2, <1>4, UserIs DEF text, Control
<1>6. ch = Word(g.user) /\ pos - 1 = u
  <2>1. ch = SymbolAt(text, pos - 1)
    BY <1>2, Ahead DEF Reading
  <2>2. pos - 1 = u
    BY <1>4
  <2> QED
    BY <1>5, <2>1, <2>2
<1>7. ch \notin {NL, STAR, EOF}
  <2>1. Word(g.user).kind = "word" /\ NL.kind = "newline" /\ EOF.kind = "EOF" /\ STAR.kind = "*"
    BY CharKinds
  <2> QED
    BY <1>6, <2>1
<1>8. pos' = u + 0 /\ pc' = "user" /\ ret' = "none"
  BY <1>2, <1>4, <1>5, <1>6, <1>7 DEF unget_char
<1>9. UserBefore(g, pos, 0)'
  BY <1>1, <1>4, <1>8 DEF UserBefore
<1>10. Joined(g)'
  <2>1. ASSUME NEW k \in 1..5
        PROVE  Shown(mem', k) = BothSundays(Fields[k], Meaning(Fields[k], g.fields[k]))
    <3>1. Shown(mem, k) = Meaning(Fields[k], g.fields[k])
      BY <1>3 DEF Read
    <3>2. Shown(Sundays(mem), k) = BothSundays(Fields[k], Shown(mem, k))
      BY ShownSundays
    <3> QED
      BY <1>2, <3>1, <3>2
  <2> QED
    BY <2>1 DEF Joined
<1>11. \/ field' = 5 /\ Starred(g)'
       \/ \E w \in TimeWords : Nicknamed(g, w)' /\ mem' = Sundays(Nickname(w).mem)
  <2>1. CASE field = 5 /\ Starred(g)
    BY <1>2, <2>1 DEF Starred
  <2>2. ASSUME NEW w \in TimeWords, Nicknamed(g, w), mem = Nickname(w).mem
        PROVE  Nicknamed(g, w)' /\ mem' = Sundays(Nickname(w).mem)
    BY <1>2, <2>2 DEF Nicknamed
  <2> QED
    BY <1>3, <2>1, <2>2
<1> QED
  BY <1>8, <1>9, <1>10, <1>11 DEF Tells, InTime, Making, Accepted

(* What was accepted stays, up to the end of the call. *)
LEMMA AcceptedStays ==
  ASSUME NEW g, Tells(g), Accepted, UNCHANGED <<mem, flags, field>>
  PROVE  /\ Joined(g)'
         /\ \/ field' = 5 /\ Starred(g)'
            \/ \E w \in TimeWords : Nicknamed(g, w)' /\ mem' = Sundays(Nickname(w).mem)
<1>1. /\ Joined(g)
      /\ \/ field = 5 /\ Starred(g)
         \/ \E w \in TimeWords : Nicknamed(g, w) /\ mem = Sundays(Nickname(w).mem)
  BY DEF Tells
<1>2. Joined(g)'
  BY <1>1 DEF Joined
<1>3. Starred(g) => Starred(g)'
  BY DEF Starred
<1>4. ASSUME NEW w \in TimeWords, Nicknamed(g, w) PROVE Nicknamed(g, w)'
  BY <1>4 DEF Nicknamed
<1> QED
  BY <1>1, <1>2, <1>3, <1>4

LEMMA TellsUsername ==
  ASSUME Control, InLine, NEW g, g = file, Proper(g), Tells(g), Username
  PROVE  Tells(g)'
<1>1. PICK T : T = g.text
  OBVIOUS
<1>2. pc = "user" /\ UNCHANGED <<mem, flags, field>>
  BY DEF Username, range
<1>3. PICK u \in Nat \ {0} : UserAndCommand(g, u) /\ pos = u + 0 /\ u \in 1..Len(T)
  <2>1. UserBefore(g, pos, 0)
    BY <1>2 DEF Tells
  <2> QED
    BY <1>1, <2>1, UserBeforeIs
<1>4. /\ T = text /\ ret = "none" /\ T \in Texts /\ Len(T) \in Nat /\ u + 1 <= Len(T)
      /\ T[u] = Word(g.user) /\ T[u + 1] = BLANK /\ SymbolAt(T, u + 1) = BLANK
      /\ g.user \in Users
  BY <1>1, <1>2, <1>3, ProperText, UserIs DEF text, Control
<1>5. /\ Find(T, u, WordEnd) = u + 1
      /\ \A x : get_string(T, u, u + 1, MAX_COMMAND) = <<Word(x)>> <=> x = g.user
  BY <1>4, OneWord
<1>6. pos = u
  BY <1>3
<1>7. PICK v : v = u + 1
  OBVIOUS
<1>8. After(T, v) = u + 2 /\ SymbolAt(T, v) = BLANK
  <2>1. v \in Nat \ {0} /\ v <= Len(T) + 1 /\ v + 1 = u + 2
    BY <1>3, <1>4, <1>7
  <2>2. v <= Len(T)
    BY <1>4, <1>7
  <2> QED
    BY <1>4, <1>7, <2>1, <2>2 DEF After
<1>9. BLANK \notin {NL, EOF}
  <2>1. BLANK.kind = "blank" /\ NL.kind = "newline" /\ EOF.kind = "EOF"
    BY CharKinds
  <2> QED
    BY <2>1
<1>10. PICK name : name = get_string(text, pos, v, MAX_COMMAND)
  OBVIOUS
<1>11. \A x : name = <<Word(x)>> <=> x = g.user
  BY <1>4, <1>5, <1>6, <1>7, <1>10
<1>12. Find(text, pos, WordEnd) = v
  BY <1>4, <1>5, <1>6, <1>7
<1>13. ch' = BLANK /\ pos' = u + 2
  BY <1>4, <1>8, <1>12 DEF Username, ReadTo
<1>14. \/ pc' = "eof" /\ lookup' = "failed" /\ ret' = ret
       \/ /\ \E x \in Users : name = <<Word(x)>> /\ user' = x
          /\ pc' = "pw_dup" /\ ret' = ret
  BY <1>4, <1>9, <1>10, <1>11, <1>12, <1>13 DEF Username, Goto, Fail
<1>15. CASE pc' = "eof" /\ lookup' = "failed" /\ ret' = ret
  BY <1>4, <1>15, TellsStops DEF Lacking
<1>16. CASE /\ \E x \in Users : name = <<Word(x)>> /\ user' = x
            /\ pc' = "pw_dup" /\ ret' = ret
  <2>1. user' = g.user
    BY <1>11, <1>16
  <2>2. UserBefore(g, pos, 2)'
    BY <1>1, <1>3, <1>13 DEF UserBefore
  <2>3. /\ Joined(g)'
        /\ \/ field' = 5 /\ Starred(g)'
           \/ \E w \in TimeWords : Nicknamed(g, w)' /\ mem' = Sundays(Nickname(w).mem)
    BY <1>2, AcceptedStays DEF Accepted
  <2> QED
    BY <1>4, <1>16, <2>1, <2>2, <2>3 DEF Tells, InTime, Making, Accepted
<1> QED
  BY <1>14, <1>15, <1>16

(* The copies of the passwd entry and the environment. *)
LEMMA TellsMaking ==
  ASSUME Control, NEW g, g = file, Tells(g), PwDup \/ EnvCopy \/ SetVariable
  PROVE  Tells(g)'
<1>1. pc \in Making \ {"command"} /\ UNCHANGED <<pos, field, mem, flags, user>>
  BY FollowingIs DEF PwDup, EnvCopy, SetVariable, stream, range, Making
<1>2. \/ pc' \in Making /\ ret' = ret
      \/ pc' = "eof" /\ ecode' = "e_memory" /\ ret' = ret
      \/ pc' = "done" /\ ret' = "crash"
  <2>1. CASE PwDup
    BY <2>1 DEF PwDup, Alloc, Goto, Fail, Making
  <2>2. CASE EnvCopy
    BY <2>2 DEF EnvCopy, Alloc, Goto, Fail, Return, Making
  <2>3. CASE SetVariable
    <3>1. pc \in {"SHELL", "HOME", "PATH", "LOGNAME", "USER"}
      BY <2>3, FollowingIs DEF SetVariable
    <3>2. Following(pc) \in Making
      BY <3>1, FollowingIs DEF Making
    <3>3. \/ Goto(Following(pc))
          \/ Fail("e_memory")
      BY <2>3 DEF SetVariable, env_set
    <3> QED
      BY <3>2, <3>3 DEF Goto, Fail
  <2> QED
    BY <2>1, <2>2, <2>3
<1>3. ret = "none"
  BY <1>1 DEF Control, Making
<1>4. CASE pc' \in Making /\ ret' = ret
  <2>1. /\ Joined(g)'
        /\ \/ field' = 5 /\ Starred(g)'
           \/ \E w \in TimeWords : Nicknamed(g, w)' /\ mem' = Sundays(Nickname(w).mem)
    BY <1>1, AcceptedStays DEF Accepted
  <2>2. UserBefore(g, pos, 2) /\ user = g.user
    BY <1>1 DEF Tells
  <2>3. UserBefore(g, pos, 2)' /\ user' = g.user
    BY <1>1, <2>2 DEF UserBefore
  <2>4. /\ pc' \notin {"eof", "skip", "dash", "time", "field", "sundays", "user"}
        /\ pc' \notin InTime /\ ret' = "none"
    BY <1>3, <1>4 DEF Making, InTime
  <2> QED
    BY <2>1, <2>3, <2>4 DEF Tells
<1>5. CASE pc' = "eof" /\ ecode' = "e_memory" /\ ret' = ret
  BY <1>3, <1>5, TellsStops DEF Lacking
<1>6. CASE pc' = "done" /\ ret' = "crash"
  BY <1>6, TellsStops
<1> QED
  BY <1>2, <1>4, <1>5, <1>6

LEMMA TellsCommand ==
  ASSUME Control, NEW g, g = file, Proper(g), Tells(g), Command
  PROVE  Tells(g)'
<1>1. PICK T, q : T = g.text /\ q = Find(text, pos, LineEnd)
  OBVIOUS
<1>2. pc = "command" /\ UNCHANGED <<mem, flags, field, user>>
  BY DEF Command, range
<1>3. PICK u \in Nat \ {0} : UserAndCommand(g, u) /\ pos = u + 2 /\ u \in 1..Len(T)
  <2>1. UserBefore(g, pos, 2)
    BY <1>2 DEF Tells, Making
  <2> QED
    BY <1>1, <2>1, UserBeforeIs
<1>4. /\ T = text /\ ret = "none" /\ T \in Texts /\ Len(T) \in Nat
      /\ q <= Len(T) /\ g.cmd = SubSeq(T, pos, q - 1)
  <2>1. T = text /\ ret = "none" /\ T \in Texts /\ Len(T) \in Nat
    BY <1>1, <1>2, ProperText DEF text, Control
  <2>2. /\ Find(T, u + 2, LineEnd) <= Len(T)
        /\ g.cmd = SubSeq(T, u + 2, Find(T, u + 2, LineEnd) - 1)
    BY <1>1, <1>3, Zenon DEF UserAndCommand
  <2> QED
    BY <1>1, <1>3, <2>1, <2>2
<1>5. pos \in Nat \ {0} /\ u + 1 <= Len(T) /\ pos <= Len(T) + 1
  <2>1. u + 1 <= Len(T)
    BY <1>1, <1>3, UserIs
  <2> QED
    BY <1>3, <1>4, <2>1
<1>6. q \in Nat /\ pos <= q /\ SymbolAt(T, q) # EOF
  <2>1. q \in pos..(Len(T) + 1)
    BY <1>1, <1>4, <1>5, FindStops DEF Stop
  <2>2. q \in Nat \ {0} /\ q <= Len(T)
    BY <1>4, <1>5, <2>1
  <2> QED
    BY <1>4, <1>5, <2>1, <2>2, SymbolAtIs
<1>7. get_string(T, pos, q, MAX_COMMAND) = get_string(g.cmd, 1, Len(g.cmd) + 1, MAX_COMMAND)
  <2>1. PICK p, c : p = pos /\ c = g.cmd
    OBVIOUS
  <2>2. Cut(T, p, q, c)
    BY <1>4, <1>5, <1>6, <2>1 DEF Cut
  <2>3. get_string(T, p, q, MAX_COMMAND) = get_string(c, 1, Len(c) + 1, MAX_COMMAND)
    BY <2>2, CommandIs
  <2> QED
    BY <2>1, <2>3
<1>8. \/ cmd' = get_string(text, pos, q, MAX_COMMAND) /\ Return("entry")
      \/ Fail("e_memory")
  <2>1. ch' = SymbolAt(T, q)
    BY <1>1, <1>4 DEF Command, ReadTo
  <2> QED
    BY <1>1, <1>6, <2>1 DEF Command
<1>9. CASE cmd' = get_string(text, pos, q, MAX_COMMAND) /\ Return("entry")
  <2>1. /\ Joined(g)'
        /\ \/ field' = 5 /\ Starred(g)'
           \/ \E w \in TimeWords : Nicknamed(g, w)' /\ mem' = Sundays(Nickname(w).mem)
    BY <1>2, AcceptedStays DEF Accepted, Making
  <2>2. user' = g.user
    BY <1>2 DEF Tells, Making
  <2>3. pc' = "done" /\ ret' = "entry" /\ cmd' = get_string(g.cmd, 1, Len(g.cmd) + 1, MAX_COMMAND)
    BY <1>4, <1>7, <1>9 DEF Return
  <2> QED
    BY <2>1, <2>2, <2>3 DEF Tells, InTime, Making
<1>10. CASE Fail("e_memory")
  BY <1>4, <1>10, TellsStops DEF Fail, Lacking
<1> QED
  BY <1>8, <1>9, <1>10

LEMMA TellsEof ==
  ASSUME Control, NEW g, Tells(g), Eof
  PROVE  Tells(g)'
<1>1. pc = "eof" /\ pc' = "done" /\ ret' = "NULL" /\ UNCHANGED <<ecode, lookup>>
  BY DEF Eof, Return
<1>2. Lacking
  BY <1>1 DEF Tells
<1>3. Lacking'
  BY <1>1, <1>2 DEF Lacking
<1> QED
  BY <1>1, <1>3, TellsStops

-----------------------------------------------------------------------------
(* The first symbol of the entry's line is read behind the lines before it. *)
LEMMA FirstRead ==
  ASSUME Control, InLine, FirstChar
  PROVE  pos' = EntryLine(text) + 1 /\ pc' \in {"dash", "done"} /\ ret' \in {"none", "crash"}
<1>1. PICK T : T = text
  OBVIOUS
<1>2. T \in Texts /\ pc = "skip" /\ ret = "none" /\ AtLine(T, pos)
  BY <1>1, FileIsText DEF FirstChar, Control, InLine, Place
<1>3. /\ SymbolAt(T, Skip_Blanks(T, pos)) \notin {NL, HASH, EOF}
      /\ pos' = After(T, Skip_Blanks(T, pos))
  BY <1>1, <1>2 DEF FirstChar, LineStart, ReadTo
<1>4. UsefulLines(T) # {} /\ Skip_Blanks(T, pos) = EntryLine(T)
  BY <1>2, <1>3, FirstIsEntry
<1>5. PICK y, l : y = EntryLine(T) /\ l = Len(T)
  OBVIOUS
<1>6. y \in Nat \ {0} /\ y <= l /\ l \in Nat
  BY <1>2, <1>4, <1>5, EntryLineIs, UsefulIs DEF Texts
<1>7. y <= l + 1
  BY <1>6
<1>8. After(T, y) = y + 1
  BY <1>2, <1>5, <1>6, <1>7, AfterIs
<1>9. \/ Goto("dash") /\ heap' = {"entry"}
      \/ Return("crash") /\ UNCHANGED <<heap, ecode>>
  BY DEF FirstChar
<1>10. \/ pc' = "dash" /\ ret' = ret
       \/ pc' = "done" /\ ret' = "crash"
  BY <1>9, Zenon DEF Goto, Return
<1> QED
  BY <1>1, <1>2, <1>3, <1>4, <1>5, <1>8, <1>10

(* A word is no number of a field without names. *)
LEMMA WordRefused ==
  ASSUME NEW low, NEW c, NEW p, NEW terms, c.kind = "word"
  PROVE  get_number(low, <<>>, c, p, terms).ok = FALSE
<1>1. c.kind # "number"
  OBVIOUS
<1>2. get_number(low, <<>>, c, p, terms) = NoNumber(c, p)
  <2>1. ~ \E i \in DOMAIN <<>> : <<>>[i] = c.text
    OBVIOUS
  <2> QED
    BY <1>1, <2>1 DEF get_number
<1>3. NoNumber(c, p).ok = FALSE
  BY DEF NoNumber
<1> QED
  BY <1>2, <1>3

(***************************************************************************)
(* An assignment never gets past the first field.                          *)
(***************************************************************************)
LEMMA RefusedNext ==
  ASSUME Control, InLine, Selecting, NEW g, g = file, SettingFirst(g), Refused(g), Next
  PROVE  Refused(g)'
<1>1. PICK T, b : T = g.text /\ b = EntryLine(T)
  OBVIOUS
<1>2. T = text /\ T \in Texts /\ UsefulLines(T) # {} /\ T[b].kind = "word"
  BY <1>1, FileIsText DEF text, SettingFirst
<1>3. b \in Nat \ {0} /\ b <= Len(T)
  BY <1>1, <1>2, EntryLineIs, UsefulIs
<1>4. pc \in {"skip", "dash", "time", "field", "range", "eof", "done"}
  BY DEF Refused
<1>5. ASSUME pc \in {"dash", "time", "field", "range"}
      PROVE  /\ pos = b + 1 /\ ch.kind = "word" /\ ch # DASH /\ ch # AT /\ ch # STAR
             /\ ret = "none" /\ field = 1
  <2>1. pos = b + 1
    BY <1>1, <1>5 DEF Refused
  <2>2. pos - 1 = b
    BY <1>3, <2>1
  <2>3. ch = SymbolAt(text, pos - 1)
    BY <1>5, Ahead DEF Reading
  <2>4. ch = T[b]
    BY <1>2, <1>3, <2>2, <2>3, SymbolAtIs
  <2>5. ch.kind = "word"
    BY <1>2, <2>4
  <2>6. DASH.kind = "-" /\ AT.kind = "@" /\ STAR.kind = "*"
    BY CharKinds
  <2>7. ch # DASH /\ ch # AT /\ ch # STAR
    BY <2>5, <2>6
  <2>8. ret = "none"
    BY <1>5 DEF Control
  <2>9. field = 1
    BY <1>5 DEF Selecting, Refused
  <2> QED
    BY <2>1, <2>5, <2>7, <2>8, <2>9
<1>6. pc # "done" => ret = "none"
  BY DEF Control
<1>7. CASE SkipLine
  BY <1>6, <1>7 DEF SkipLine, Refused
<1>8. CASE NoMoreLines
  BY <1>8 DEF NoMoreLines, Return, Refused
<1>9. CASE FirstChar
  BY <1>1, <1>2, <1>9, FirstRead DEF Refused
<1>10. CASE Dash
  <2>1. pc = "dash" /\ pc' = "time" /\ UNCHANGED <<pos, ret>>
    BY <1>5, <1>10 DEF Dash, Goto, stream
  <2> QED
    BY <1>1, <1>5, <2>1 DEF Refused
<1>11. CASE AtNickname
  BY <1>5, <1>11 DEF AtNickname
<1>12. CASE AtNumerics
  <2>1. pc = "time" /\ pc' = "field" /\ UNCHANGED <<pos, ret, field>>
    BY <1>12 DEF AtNumerics, Goto, stream, range
  <2> QED
    BY <1>1, <1>5, <2>1 DEF Refused
<1>13. CASE FieldStart
  <2>1. pc = "field" /\ pc' = "range" /\ UNCHANGED <<pos, ret, field>>
    BY <1>13 DEF FieldStart, Goto, stream, range
  <2> QED
    BY <1>1, <1>5, <2>1 DEF Refused
<1>14. CASE RangeStar
  BY <1>5, <1>14 DEF RangeStar
<1>15. CASE RangeNumber
  <2>1. pc = "range"
    BY <1>15 DEF RangeNumber
  <2>2. PICK f, c, p, terms, n :
          /\ f = Fields[1] /\ c = ch /\ p = pos /\ terms = {",", "-", "blank", "newline"}
          /\ n = get_number(f.low, f.names, c, p, terms)
    OBVIOUS
  <2>3. n.ok = FALSE
    <3>1. c.kind = "word"
      BY <1>5, <2>1, <2>2
    <3>2. f.names = <<>>
      BY <2>2 DEF Fields, FieldSpec
    <3>3. n = get_number(f.low, <<>>, c, p, terms)
      BY <2>2, <3>2
    <3> QED
      BY <3>1, <3>3, WordRefused
  <2>4. Refuse(n.pos)
    BY <1>5, <1>15, <2>1, <2>2, <2>3 DEF RangeNumber
  <2>5. pc' = "eof" /\ ret' = ret
    BY <2>4 DEF Refuse, Fail
  <2> QED
    BY <1>5, <2>1, <2>5 DEF Refused
<1>16. CASE RangeSpan \/ RangeStep \/ RangeElements \/ NextRange \/ ListEnd
  BY <1>4, <1>16 DEF RangeSpan, RangeStep, RangeElements, NextRange, ListEnd
<1>17. CASE EndOfTime \/ Username \/ PwDup \/ EnvCopy \/ SetVariable \/ Command
  BY <1>4, <1>17, FollowingIs DEF EndOfTime, Username, PwDup, EnvCopy, SetVariable, Command
<1>18. CASE Eof
  BY <1>18 DEF Eof, Return, Refused
<1> QED
  BY <1>7, <1>8, <1>9, <1>10, <1>11, <1>12, <1>13, <1>14, <1>15, <1>16, <1>17, <1>18 DEF Next

(***************************************************************************)
(* A step in a line that crontab(5) defines, action by action.             *)
(***************************************************************************)
LEMMA TellsNext ==
  ASSUME Control, InLine, Selecting, NEW g, g = file, Proper(g), Tells(g), Next
  PROVE  Tells(g)'
<1>1. ASSUME pc \in InTime \ {"field"}
      PROVE  /\ ret = "none" /\ ch = SymbolAt(text, pos - 1) /\ pos - 1 \in Nat
             /\ \E T, i, f, list, place, j, r, p, n : Inside(g, T, i, f, list, place, j, r, p, n)
  <2>1. pc \in Reading /\ ret = "none"
    BY <1>1 DEF InTime, Reading, Control
  <2>2. pos - 1 \in Nat \ {0} /\ ch = SymbolAt(text, pos - 1)
    BY <2>1, Ahead
  <2>3. \E T, i, f, list, place, j, r, p, n : Inside(g, T, i, f, list, place, j, r, p, n)
    BY <1>1, InRange
  <2> QED
    BY <2>1, <2>2, <2>3
<1>2. CASE SkipLine \/ NoMoreLines \/ FirstChar
  BY <1>2, TellsSkip
<1>3. CASE Dash
  BY <1>3, TellsDash
<1>4. CASE AtNickname
  BY <1>4, TellsAtNickname
<1>5. CASE AtNumerics
  BY <1>5, TellsAtNumerics
<1>6. CASE FieldStart
  BY <1>6, TellsFieldStart
<1>7. CASE RangeStar
  <2>1. pc \in InTime \ {"field"}
    BY <1>7 DEF RangeStar, InTime
  <2> QED
    BY <1>1, <1>7, <2>1, TellsRangeStar
<1>8. CASE RangeNumber
  <2>1. pc \in InTime \ {"field"}
    BY <1>8 DEF RangeNumber, InTime
  <2> QED
    BY <1>1, <1>8, <2>1, TellsRangeNumber
<1>9. CASE RangeSpan
  <2>1. pc \in InTime \ {"field"}
    BY <1>9 DEF RangeSpan, InTime
  <2> QED
    BY <1>1, <1>9, <2>1, TellsRangeSpan
<1>10. CASE RangeStep
  <2>1. pc \in InTime \ {"field"}
    BY <1>10 DEF RangeStep, InTime
  <2> QED
    BY <1>1, <1>10, <2>1, TellsRangeStep
<1>11. CASE RangeElements
  <2>1. pc \in InTime \ {"field"}
    BY <1>11 DEF RangeElements, InTime
  <2> QED
    BY <1>1, <1>11, <2>1, TellsRangeElements
<1>12. CASE NextRange
  <2>1. pc \in InTime \ {"field"}
    BY <1>12 DEF NextRange, InTime
  <2> QED
    BY <1>1, <1>12, <2>1, TellsNextRange
<1>13. CASE ListEnd
  <2>1. pc \in InTime \ {"field"}
    BY <1>13 DEF ListEnd, InTime
  <2> QED
    BY <1>1, <1>13, <2>1, TellsListEnd
<1>14. CASE EndOfTime
  BY <1>14, TellsEndOfTime
<1>15. CASE Username
  BY <1>15, TellsUsername
<1>16. CASE PwDup \/ EnvCopy \/ SetVariable
  BY <1>16, TellsMaking
<1>17. CASE Command
  BY <1>17, TellsCommand
<1>18. CASE Eof
  BY <1>18, TellsEof
<1> QED
  BY <1>2, <1>3, <1>4, <1>5, <1>6, <1>7, <1>8, <1>9, <1>10, <1>11, <1>12, <1>13, <1>14,
     <1>15, <1>16, <1>17, <1>18 DEF Next

LEMMA FileStays == [Next]_vars => file' = file
BY DEF Next, vars, SkipLine, NoMoreLines, FirstChar, Dash, AtNickname, AtNumerics, FieldStart,
       RangeStar, RangeNumber, RangeSpan, RangeStep, RangeElements, NextRange, ListEnd,
       EndOfTime, Username, PwDup, EnvCopy, SetVariable, Command, Eof

LEMMA TellsInit == Init => Follows /\ SettingRefused
<1> SUFFICES ASSUME Init PROVE Follows /\ SettingRefused
  OBVIOUS
<1>1. pc = "skip" /\ flags = {} /\ ret = "none"
  BY DEF Init
<1>2. Tells(file) /\ Refused(file)
  BY <1>1 DEF Tells, Refused, InTime, Making, Accepted
<1> QED
  BY <1>2 DEF Follows, SettingRefused

LEMMA FollowsNext ==
  ASSUME Control, InLine, Selecting, Follows, SettingRefused, [Next]_vars
  PROVE  Follows' /\ SettingRefused'
<1>1. PICK g : g = file
  OBVIOUS
<1>2. file' = g /\ g \in Files
  BY <1>1, FileStays DEF Control
<1>3. ASSUME WellFormed(g), ~SettingFirst(g) PROVE Tells(g)'
  <2>1. Tells(g) /\ Proper(g)
    BY <1>1, <1>2, <1>3 DEF Follows, Proper
  <2>2. CASE Next
    BY <1>1, <2>1, <2>2, TellsNext
  <2>3. CASE UNCHANGED vars
    <3>1. /\ UNCHANGED <<pos, pc, field, num1, num2, num3>>
          /\ UNCHANGED <<mem, flags, user, lookup, cmd, ecode, ret>>
      BY <2>3 DEF vars, stream, range, made
    <3>2. Read(g, field)' = Read(g, field) /\ Read(g, 6)' = Read(g, 6) /\ Joined(g)' = Joined(g)
      BY <3>1 DEF Read, Joined
    <3>3. Starred(g)' = Starred(g) /\ \A w : Nicknamed(g, w)' = Nicknamed(g, w)
      BY <3>1 DEF Starred, Nicknamed
    <3>4. ASSUME NEW i, NEW list, NEW p, NEW j, OnItem(i, list, p, j)
          PROVE  OnItem(i, list, p, j)'
      BY <3>1, <3>4 DEF OnItem
    <3>5. InList(g, field) => InList(g, field)'
      BY <3>1, <3>4, Zenon DEF InList
    <3>6. \A n : UserBefore(g, pos, n)' = UserBefore(g, pos, n)
      BY <3>1, Zenon DEF UserBefore
    <3>7. Accepted' = Accepted
      BY <3>1, Zenon DEF Accepted
    <3> QED
      BY <2>1, <3>1, <3>2, <3>3, <3>5, <3>6, <3>7 DEF Tells, Lacking
  <2> QED
    BY <2>2, <2>3
<1>4. ASSUME SettingFirst(g) PROVE Refused(g)'
  <2>1. Refused(g)
    BY <1>1, <1>4 DEF SettingRefused
  <2>2. CASE Next
    BY <1>1, <1>4, <2>1, <2>2, RefusedNext
  <2>3. CASE UNCHANGED vars
    BY <2>1, <2>3 DEF vars, stream, range, Refused
  <2> QED
    BY <2>2, <2>3
<1> QED
  BY <1>2, <1>3, <1>4 DEF Follows, SettingRefused

(***************************************************************************)
(* All that holds in a call of load_entry.                                 *)
(***************************************************************************)
LoadInv ==
  /\ Control /\ InLine /\ StaysInStep /\ Holds /\ NoGarbage /\ StreamOK /\ Data
  /\ Selecting /\ Follows /\ SettingRefused

LEMMA LoadInvTypes == LoadInv => TypeOK
<1>1. Len(Fields) = 5
  BY FieldsAre
<1> QED
  BY <1>1 DEF LoadInv, Control, StreamOK, Data, Holds, TypeOK, EntryBits

LEMMA LoadInvInit == Init => LoadInv
BY ControlInit, InLineInit, HoldsInit, DataInit, SelectingInit, TellsInit DEF LoadInv

LEMMA LoadInvNext ==
  ASSUME LoadInv, [Next]_vars
  PROVE  LoadInv'
<1>1. /\ Control /\ InLine /\ StaysInStep /\ Holds /\ NoGarbage /\ StreamOK /\ Data
      /\ Selecting /\ Follows /\ SettingRefused
  BY DEF LoadInv
<1>2. (Control /\ InLine /\ StaysInStep /\ Holds /\ NoGarbage /\ StreamOK /\ Data)'
  BY <1>1, ControlNext, InLineNext, HoldsNext, StreamNext, DataNext
<1>3. TypeOK
  BY LoadInvTypes
<1>4. TypeOK'
  <2>1. Len(Fields) = 5
    BY FieldsAre
  <2> QED
    BY <1>2, <2>1 DEF Control, StreamOK, Data, Holds, TypeOK, EntryBits
<1>5. Selecting'
  BY <1>1, <1>3, <1>4, SelectingNext
<1>6. Follows' /\ SettingRefused'
  BY <1>1, FollowsNext
<1> QED
  BY <1>2, <1>5, <1>6 DEF LoadInv

(***************************************************************************)
(* A line of crontab(5) is accepted unless memory runs out or the user     *)
(* cannot be looked up, and the entry then says what the line says:        *)
(* whatever ranges of numbers or single names its lists are made of,       *)
(* whatever the blanks, the comments before it, the bounds of the fields   *)
(* and the size of the buffer.  FollowsNext shows why: at each stage the   *)
(* fields read so far hold exactly what was written, because the bits that *)
(* get_list clears past a field belong to one still to be read.            *)
(***************************************************************************)
THEOREM ReadsWhatIsWritten == Spec => []Conforms
<1>1. LoadInv => Conforms
  <2> SUFFICES ASSUME LoadInv, ret # "none", WellFormed(file), ~SettingFirst(file), ~Denied
               PROVE  /\ ret = "entry"
                      /\ \A i \in DOMAIN Fields : Stored(Fields[i]) =
                           BothSundays(Fields[i], Meaning(Fields[i], file.fields[i]))
                      /\ user = file.user
                      /\ cmd = get_string(file.cmd, 1, Len(file.cmd) + 1, MAX_COMMAND)
    BY DEF Conforms
  <2>1. PICK g : g = file
    OBVIOUS
  <2>2. Tells(g) /\ ret \in {"none", "NULL", "entry", "crash"}
    BY <2>1 DEF LoadInv, Follows, Control
  <2>3. ret # "crash" /\ ~Lacking
    BY DEF Denied, Lacking
  <2>4. ret = "entry"
    BY <2>2, <2>3 DEF Tells
  <2>5. Joined(g) /\ user = g.user /\ cmd = get_string(g.cmd, 1, Len(g.cmd) + 1, MAX_COMMAND)
    BY <2>2, <2>4 DEF Tells, Accepted
  <2>6. \A i \in 1..5 : Stored(Fields[i]) = BothSundays(Fields[i], Meaning(Fields[i], g.fields[i]))
    BY <2>5, StoredShown DEF Joined
  <2>7. DOMAIN Fields = 1..5
    BY FieldsAre
  <2> QED
    BY <2>1, <2>4, <2>5, <2>6, <2>7
<1>2. LoadInv /\ [Next]_vars => LoadInv'
  BY LoadInvNext
<1> QED
  BY <1>1, <1>2, LoadInvInit, PTL DEF Spec
=============================================================================
