--------------------------- MODULE LoadEntryProofs ---------------------------
(***************************************************************************)
(* Proofs about load_entry for files of any length and content: the call   *)
(* keeps to its line (StaysInStep), frees what it allocated (NoGarbage)    *)
(* and writes only where it may (TypeOK); before that, about the bit       *)
(* strings it writes.                                                      *)
(***************************************************************************)
EXTENDS LoadEntry, WellFoundedInduction, TLAPS

-----------------------------------------------------------------------------
(***************************************************************************)
(* What the range macros of bitstring.h change, for every range: the byte  *)
(* masks come to exactly the bits from start to stop, both included, and   *)
(* to no bit of a byte they only touch in part.                            *)
(***************************************************************************)
(* A bit number is known by its byte and its place in the byte. *)
LEMMA BytePlace ==
  ASSUME NEW n \in Nat
  PROVE  /\ bit_byte(n) \in Nat /\ bit_in(n) \in 0..7
         /\ n = 8 * bit_byte(n) + bit_in(n)
BY DEF bit_byte, bit_in

(* bit_nset sets the bits start..stop and no other. *)
THEOREM NsetExact ==
  ASSUME NEW start \in Nat, NEW stop \in Nat, start <= stop
  PROVE  NsetBits(start, stop) = start..stop
<1> DEFINE f == bit_byte(start)  l == bit_byte(stop)
           a == bit_in(start)    z == bit_in(stop)
<1>1. /\ f \in Nat /\ l \in Nat /\ a \in 0..7 /\ z \in 0..7
      /\ start = 8 * f + a /\ stop = 8 * l + z
  BY BytePlace
<1> HIDE DEF f, l, a, z
<1>2. f <= l
  BY <1>1
<1>3. NsetBits(start, stop) =
        IF f = l THEN {8 * f + b : b \in Shl(a) \cap Shr(7 - z)}
        ELSE {8 * f + b : b \in Shl(a)} \cup WholeBytes(f, l)
               \cup {8 * l + b : b \in Shr(7 - z)}
  BY DEF NsetBits, f, l, a, z
<1>4. CASE f = l
  <2>1. ASSUME NEW n \in NsetBits(start, stop) PROVE n \in start..stop
    BY <1>1, <1>3, <1>4, <2>1 DEF Shl, Shr
  <2>2. ASSUME NEW n \in start..stop PROVE n \in NsetBits(start, stop)
    <3>1. n - 8 * f \in Shl(a) \cap Shr(7 - z) /\ n = 8 * f + (n - 8 * f)
      BY <1>1, <1>4, <2>2 DEF Shl, Shr
    <3> QED BY <3>1, <1>3, <1>4
  <2> QED BY <2>1, <2>2
<1>5. CASE f # l
  <2>1. f < l
    BY <1>1, <1>2, <1>5
  <2>2. ASSUME NEW n \in NsetBits(start, stop) PROVE n \in start..stop
    BY <1>1, <1>3, <2>1, <2>2 DEF Shl, Shr, WholeBytes
  <2>3. ASSUME NEW n \in start..stop PROVE n \in NsetBits(start, stop)
    <3>1. n \in Nat /\ n = 8 * bit_byte(n) + bit_in(n)
          /\ bit_byte(n) \in Nat /\ bit_in(n) \in 0..7
      BY BytePlace
    <3>2. f <= bit_byte(n) /\ bit_byte(n) <= l
      BY <3>1, <1>1
    <3>3. CASE bit_byte(n) = f
      <4>1. bit_in(n) \in Shl(a)
        BY <3>1, <3>3, <1>1, <2>3 DEF Shl
      <4> QED BY <4>1, <3>1, <3>3, <1>3, <1>5
    <3>4. CASE bit_byte(n) = l
      <4>1. bit_in(n) \in Shr(7 - z)
        BY <3>1, <3>4, <1>1, <2>3 DEF Shr
      <4> QED BY <4>1, <3>1, <3>4, <1>3, <1>5
    <3>5. CASE bit_byte(n) \in (f + 1)..(l - 1)
      <4>1. 8 * bit_byte(n) + bit_in(n) \in WholeBytes(f, l)
        BY <3>1, <3>5, <1>1 DEF WholeBytes
      <4> QED BY <4>1, <3>1, <1>3, <1>5
    <3> QED BY <3>1, <3>2, <3>3, <3>4, <3>5, <1>1
  <2> QED BY <2>2, <2>3
<1> QED BY <1>4, <1>5

(* bit_nclear clears the bits start..stop and no other. *)
THEOREM NclearExact ==
  ASSUME NEW start \in Nat, NEW stop \in Nat, start <= stop
  PROVE  NclearBits(start, stop) = start..stop
<1>1. /\ (0..7) \ Shr(8 - bit_in(start)) = Shl(bit_in(start))
      /\ (0..7) \ Shl(bit_in(stop) + 1) = Shr(7 - bit_in(stop))
  <2>1. bit_in(start) \in 0..7 /\ bit_in(stop) \in 0..7
    BY BytePlace
  <2>2. \A b \in 0..7 : b \notin Shr(8 - bit_in(start)) <=> b \in Shl(bit_in(start))
    BY <2>1 DEF Shl, Shr
  <2>3. \A b \in 0..7 : b \notin Shl(bit_in(stop) + 1) <=> b \in Shr(7 - bit_in(stop))
    BY <2>1 DEF Shl, Shr
  <2> QED BY <2>2, <2>3 DEF Shl, Shr
<1>2. (0..7) \ (Shr(8 - bit_in(start)) \cup Shl(bit_in(stop) + 1))
        = Shl(bit_in(start)) \cap Shr(7 - bit_in(stop))
  BY <1>1
<1>3. NclearBits(start, stop) = NsetBits(start, stop)
  BY <1>1, <1>2 DEF NclearBits, NsetBits
<1> QED BY <1>3, NsetExact

-----------------------------------------------------------------------------
(***************************************************************************)
(* The least of a set of numbers, as Find, NameIndex and EntryLine take it.*)
(***************************************************************************)
LEMMA LeastExists ==
  ASSUME NEW S, S \subseteq Nat, S # {}
  PROVE  \E x \in S : \A y \in S : x <= y
<1>1. IsWellFoundedOn(OpToRel(<, Nat), Nat)
  BY NatLessThanWellFounded
<1>2. PICK x \in S : \A y \in S : ~ (<<y, x>> \in OpToRel(<, Nat))
  BY <1>1, WFMin
<1>3. ASSUME NEW y \in S PROVE x <= y
  <2>1. x \in Nat /\ y \in Nat
    OBVIOUS
  <2>2. <<y, x>> \in OpToRel(<, Nat) <=> <<y, x>>[1] < <<y, x>>[2]
    BY <2>1 DEF OpToRel
  <2>3. ~ (y < x)
    BY <1>2, <2>2
  <2> QED
    BY <2>1, <2>3
<1> QED
  BY <1>3

LEMMA LeastChosen ==
  ASSUME NEW S, S \subseteq Nat, S # {},
         NEW l, l = CHOOSE x \in S : \A y \in S : x <= y
  PROVE  l \in S /\ \A y \in S : l <= y
BY LeastExists

(***************************************************************************)
(* What the reading loops find: the first symbol of the kinds looked for,  *)
(* from p on, or the end of the file.                                      *)
(***************************************************************************)
Texts == Seq(Symbols)

Stop(T, p, K, q) ==
  /\ q \in Nat /\ 1 <= q /\ q <= Len(T) + 1
  /\ p <= Len(T) + 1 => p <= q
  /\ q <= Len(T) => p <= q /\ T[q].kind \in K
  /\ \A r \in p..(q - 1) : T[r].kind \notin K

LEMMA FindStops ==
  ASSUME NEW T \in Texts, NEW p \in Nat \ {0}, NEW K
  PROVE  Stop(T, p, K, Find(T, p, K))
<1> DEFINE stops == {q \in p..Len(T) : T[q].kind \in K}
<1>0. Len(T) \in Nat
  BY DEF Texts
<1>1. CASE stops = {}
  <2>1. Find(T, p, K) = Len(T) + 1
    BY <1>1 DEF Find
  <2>2. \A r \in p..Len(T) : T[r].kind \notin K
    BY <1>1
  <2> QED
    BY <1>0, <2>1, <2>2 DEF Stop
<1>2. CASE stops # {}
  <2>1. stops \subseteq Nat
    BY <1>0
  <2> DEFINE l == CHOOSE q \in stops : \A r \in stops : q <= r
  <2>2. Find(T, p, K) = l
    BY <1>2 DEF Find
  <2>3. l \in stops /\ \A r \in stops : l <= r
    BY <1>2, <2>1, LeastChosen
  <2> HIDE DEF l
  <2>4. \A r \in p..(l - 1) : T[r].kind \notin K
    <3> SUFFICES ASSUME NEW r \in p..(l - 1), T[r].kind \in K PROVE FALSE
      OBVIOUS
    <3>1. l \in p..Len(T)
      BY <2>3
    <3>2. r \in stops /\ r < l
      BY <1>0, <3>1
    <3> QED
      BY <2>3, <3>1, <3>2
  <2> QED
    BY <1>0, <2>2, <2>3, <2>4 DEF Stop
<1> QED
  BY <1>1, <1>2

(* A symbol of a file is no EOF, and is the newline when its kind says so. *)
LEMMA SymbolKinds ==
  ASSUME NEW s \in Symbols
  PROVE  /\ s # EOF
         /\ s.kind \in Kinds
         /\ s.kind = "newline" <=> s = NL
         /\ s.kind = "-" <=> s = DASH
         /\ s.kind \notin NonBlank => s # NL
<1>1. s.kind \in Kinds /\ (s.kind \notin {"number", "word"} => s = Char(s.kind))
  BY DEF Symbols
<1>2. EOF.kind = "EOF" /\ NL.kind = "newline" /\ DASH.kind = "-"
  BY DEF EOF, NL, DASH, Char, Symbol
<1>3. s # EOF
  BY <1>1, <1>2 DEF Kinds
<1>4. s.kind = "newline" => s = NL
  BY <1>1 DEF NL
<1>5. s.kind = "-" => s = DASH
  BY <1>1 DEF DASH
<1> QED
  BY <1>1, <1>2, <1>3, <1>4, <1>5 DEF NonBlank

LEMMA SymbolAtIs ==
  ASSUME NEW T \in Texts, NEW p \in Nat \ {0}
  PROVE  /\ p <= Len(T) => SymbolAt(T, p) = T[p] /\ T[p] \in Symbols
         /\ p > Len(T) => SymbolAt(T, p) = EOF
         /\ SymbolAt(T, p) = EOF => p > Len(T)
<1>1. Len(T) \in Nat
  BY DEF Texts
<1>2. p <= Len(T) => T[p] \in Symbols
  BY <1>1 DEF Texts
<1>3. p <= Len(T) => SymbolAt(T, p) # EOF
  BY <1>2, SymbolKinds DEF SymbolAt
<1> QED
  BY <1>1, <1>2, <1>3 DEF SymbolAt

LEMMA AfterIs ==
  ASSUME NEW T \in Texts, NEW p \in Nat \ {0}, p <= Len(T) + 1
  PROVE  After(T, p) = p + 1
BY DEF After, Texts

-----------------------------------------------------------------------------
(***************************************************************************)
(* Lines.                                                                  *)
(***************************************************************************)
LEMMA LineBeginsAre ==
  ASSUME NEW T \in Texts, NEW b
  PROVE  b \in LineBegins(T) <=> b = 1 \/ (b \in Nat /\ b - 1 \in 1..Len(T) /\ T[b - 1] = NL)
<1>1. Len(T) \in Nat /\ DOMAIN T = 1..Len(T)
  BY DEF Texts
<1>2. b \in LineBegins(T) <=> b = 1 \/ \E i \in 1..Len(T) : T[i] = NL /\ b = i + 1
  BY <1>1 DEF LineBegins
<1>3. ASSUME NEW i \in 1..Len(T), T[i] = NL, b = i + 1
      PROVE  b \in Nat /\ b - 1 \in 1..Len(T) /\ T[b - 1] = NL
  <2>1. b - 1 = i
    BY <1>1, <1>3
  <2> QED
    BY <1>1, <1>3, <2>1
<1>4. ASSUME b \in Nat, b - 1 \in 1..Len(T), T[b - 1] = NL
      PROVE  \E i \in 1..Len(T) : T[i] = NL /\ b = i + 1
  <2>1. b = (b - 1) + 1
    BY <1>1, <1>4
  <2> QED
    BY <1>4, <2>1
<1> QED
  BY <1>2, <1>3, <1>4

LEMMA UsefulIs ==
  ASSUME NEW T \in Texts, NEW i \in UsefulLines(T)
  PROVE  /\ i \in Nat /\ 1 <= i /\ i <= Len(T)
         /\ T[i] \notin {NL, HASH} /\ T[i].kind \in NonBlank
         /\ \E b \in LineBegins(T) : b \in Nat \ {0} /\ b <= i /\ Stop(T, b, NonBlank, i)
<1>1. Len(T) \in Nat /\ DOMAIN T = 1..Len(T)
  BY DEF Texts
<1>2. i \in 1..Len(T) /\ T[i] \notin {NL, HASH}
  BY <1>1 DEF UsefulLines
<1>3. PICK b \in LineBegins(T) : i = Skip_Blanks(T, b)
  BY DEF UsefulLines
<1>4. b \in Nat \ {0}
  BY <1>1, LineBeginsAre
<1>5. Stop(T, b, NonBlank, i)
  BY <1>3, <1>4, FindStops DEF Skip_Blanks
<1> QED
  BY <1>1, <1>2, <1>4, <1>5 DEF Stop

LEMMA EntryLineIs ==
  ASSUME NEW T \in Texts, UsefulLines(T) # {}
  PROVE  EntryLine(T) \in UsefulLines(T) /\ \A i \in UsefulLines(T) : EntryLine(T) <= i
<1>1. UsefulLines(T) \subseteq Nat
  BY UsefulIs
<1> QED
  BY <1>1, LeastChosen DEF EntryLine

(* A line runs from L to the newline, or the end of the file, at E. *)
Line(T, L, E) ==
  /\ L \in Nat \ {0} /\ E \in Nat /\ L < E /\ E <= Len(T) + 1
  /\ E <= Len(T) => T[E] = NL
  /\ \A r \in L..(E - 1) : T[r] # NL

LineStop(T) == Find(T, EntryLine(T), LineEnd)

LEMMA LineIs ==
  ASSUME NEW T \in Texts, UsefulLines(T) # {}
  PROVE  Line(T, EntryLine(T), LineStop(T))
<1> DEFINE L == EntryLine(T)
           E == LineStop(T)
<1>1. Len(T) \in Nat /\ L \in Nat \ {0} /\ L <= Len(T) /\ T[L] # NL
  BY EntryLineIs, UsefulIs DEF Texts
<1>2. Stop(T, L, LineEnd, E)
  BY <1>1, FindStops DEF LineStop
<1> HIDE DEF L, E
<1>3. E \in Nat /\ L <= E /\ E <= Len(T) + 1
  BY <1>1, <1>2 DEF Stop
<1>4. \A r \in 1..Len(T) : T[r].kind = "newline" <=> T[r] = NL
  BY SymbolKinds, SymbolAtIs
<1>5. E <= Len(T) => T[E] = NL
  BY <1>1, <1>2, <1>3, <1>4 DEF Stop, LineEnd
<1>6. \A r \in L..(E - 1) : T[r] # NL
  BY <1>1, <1>2, <1>3, <1>4 DEF Stop, LineEnd
<1>7. L # E
  BY <1>1, <1>5
<1>8. Line(T, L, E)
  BY <1>1, <1>3, <1>5, <1>6, <1>7 DEF Line
<1> QED
  BY <1>8 DEF L, E

(* Inside a line the newline or EOF is its end. *)
LEMMA LineSymbol ==
  ASSUME NEW T \in Texts, NEW L, NEW E, Line(T, L, E), NEW q \in L..E
  PROVE  /\ SymbolAt(T, q) \in {NL, EOF} <=> q = E
         /\ SymbolAt(T, q) = EOF => E = Len(T) + 1
         /\ After(T, q) = q + 1
         /\ q \in Nat \ {0}
<1>1. /\ Len(T) \in Nat /\ L \in Nat \ {0} /\ E \in Nat /\ L < E /\ E <= Len(T) + 1
      /\ q \in Nat \ {0} /\ q <= E
  BY DEF Texts, Line
<1>2. After(T, q) = q + 1
  BY <1>1, AfterIs
<1>3. SymbolAt(T, q) = EOF => E = Len(T) + 1 /\ q = E
  BY <1>1, SymbolAtIs
<1>4. q < E => SymbolAt(T, q) # NL
  BY <1>1, SymbolAtIs DEF Line
<1>5. q = E => SymbolAt(T, q) \in {NL, EOF}
  BY <1>1, SymbolAtIs DEF Line
<1> QED
  BY <1>1, <1>2, <1>3, <1>4, <1>5

(* No reading loop that stops at a newline leaves the line. *)
LEMMA LineFind ==
  ASSUME NEW T \in Texts, NEW L, NEW E, Line(T, L, E), NEW p \in L..E,
         NEW K, "newline" \in K
  PROVE  Find(T, p, K) \in p..E
<1>1. /\ Len(T) \in Nat /\ L \in Nat \ {0} /\ E \in Nat /\ L < E /\ E <= Len(T) + 1
      /\ p \in Nat \ {0} /\ p <= E
  BY DEF Texts, Line
<1>2. PICK q : q = Find(T, p, K)
  OBVIOUS
<1>3. Stop(T, p, K, q)
  BY <1>1, <1>2, FindStops
<1>4. q \in Nat /\ p <= q /\ q <= Len(T) + 1 /\ \A r \in p..(q - 1) : T[r].kind \notin K
  BY <1>1, <1>3 DEF Stop
<1>5. ASSUME E < q PROVE FALSE
  <2>1. E <= Len(T) /\ E \in p..(q - 1)
    BY <1>1, <1>4, <1>5
  <2>2. T[E] = NL
    BY <2>1 DEF Line
  <2>3. NL.kind = "newline"
    BY DEF NL, Char, Symbol
  <2> QED
    BY <1>4, <2>1, <2>2, <2>3
<1>6. q <= E
  BY <1>1, <1>4, <1>5
<1> QED
  BY <1>1, <1>2, <1>4, <1>6

LEMMA LineFindEnd ==
  ASSUME NEW T \in Texts, NEW L, NEW E, Line(T, L, E), NEW p \in L..E
  PROVE  Find(T, p, LineEnd) = E
<1>1. /\ Len(T) \in Nat /\ L \in Nat \ {0} /\ E \in Nat /\ L < E /\ E <= Len(T) + 1
      /\ p \in Nat \ {0} /\ L <= p /\ p <= E
  BY DEF Texts, Line
<1>2. PICK q : q = Find(T, p, LineEnd)
  OBVIOUS
<1>3. q \in p..E
  BY <1>2, LineFind DEF LineEnd
<1>4. Stop(T, p, LineEnd, q)
  BY <1>1, <1>2, FindStops
<1>5. ASSUME q < E PROVE FALSE
  <2>1. q <= Len(T) /\ q \in L..(E - 1) /\ q \in Nat \ {0}
    BY <1>1, <1>3, <1>5
  <2>2. T[q].kind = "newline"
    BY <2>1, <1>4 DEF Stop, LineEnd
  <2>3. T[q] = NL
    BY <2>1, <2>2, SymbolAtIs, SymbolKinds
  <2> QED
    BY <2>1, <2>3 DEF Line
<1> QED
  BY <1>1, <1>2, <1>3, <1>5

-----------------------------------------------------------------------------
(***************************************************************************)
(* Between lines: p begins a line, or is behind the end of the file, and   *)
(* no useful line has been passed.                                         *)
(***************************************************************************)
AtLine(T, p) ==
  /\ p \in LineBegins(T) \cup {Len(T) + 2}
  /\ \A i \in UsefulLines(T) : p <= i

LEMMA AtLineIs ==
  ASSUME NEW T \in Texts, NEW p, AtLine(T, p)
  PROVE  /\ p \in Nat \ {0} /\ p <= Len(T) + 2
         /\ p # Len(T) + 2 => p \in LineBegins(T) /\ p <= Len(T) + 1
<1>1. Len(T) \in Nat
  BY DEF Texts
<1> QED
  BY <1>1, LineBeginsAre DEF AtLine

(* Behind the blanks of p there is no useful line before the first symbol. *)
LEMMA NoneBefore ==
  ASSUME NEW T \in Texts, NEW p, AtLine(T, p), NEW i \in UsefulLines(T)
  PROVE  Skip_Blanks(T, p) <= i
<1>1. Len(T) \in Nat /\ p \in Nat \ {0} /\ p <= i /\ i \in Nat /\ i <= Len(T)
  BY AtLineIs, UsefulIs DEF Texts, AtLine
<1>2. PICK s : s = Skip_Blanks(T, p)
  OBVIOUS
<1>3. Stop(T, p, NonBlank, s)
  BY <1>1, <1>2, FindStops DEF Skip_Blanks
<1>4. s \in Nat /\ \A r \in p..(s - 1) : T[r].kind \notin NonBlank
  BY <1>3 DEF Stop
<1>5. T[i].kind \in NonBlank
  BY UsefulIs
<1>6. ~ (i < s)
  BY <1>1, <1>4, <1>5
<1> QED
  BY <1>1, <1>2, <1>4, <1>6

LEMMA FirstIsEntry ==
  ASSUME NEW T \in Texts, NEW p, AtLine(T, p),
         SymbolAt(T, Skip_Blanks(T, p)) \notin {NL, HASH, EOF}
  PROVE  /\ UsefulLines(T) # {}
         /\ Skip_Blanks(T, p) = EntryLine(T)
<1>1. Len(T) \in Nat /\ p \in Nat \ {0} /\ DOMAIN T = 1..Len(T)
  BY AtLineIs DEF Texts
<1>2. PICK s : s = Skip_Blanks(T, p)
  OBVIOUS
<1>3. Stop(T, p, NonBlank, s)
  BY <1>1, <1>2, FindStops DEF Skip_Blanks
<1>4. s \in Nat /\ 1 <= s /\ (s <= Len(T) => p <= s)
  BY <1>3 DEF Stop
<1>5. s <= Len(T) /\ T[s] \notin {NL, HASH}
  BY <1>1, <1>2, <1>4, SymbolAtIs
<1>6. p \in LineBegins(T)
  BY <1>1, <1>4, <1>5, AtLineIs
<1>7. s \in UsefulLines(T)
  BY <1>1, <1>2, <1>4, <1>5, <1>6 DEF UsefulLines
<1>8. EntryLine(T) \in UsefulLines(T) /\ EntryLine(T) <= s
  BY <1>7, EntryLineIs
<1>9. s <= EntryLine(T) /\ EntryLine(T) \in Nat
  BY <1>2, <1>8, NoneBefore, UsefulIs
<1> QED
  BY <1>2, <1>4, <1>7, <1>8, <1>9

LEMMA NoLine ==
  ASSUME NEW T \in Texts, NEW p, AtLine(T, p), SymbolAt(T, Skip_Blanks(T, p)) = EOF
  PROVE  UsefulLines(T) = {}
<1>1. Len(T) \in Nat /\ p \in Nat \ {0}
  BY AtLineIs DEF Texts
<1>2. PICK s : s = Skip_Blanks(T, p)
  OBVIOUS
<1>3. s \in Nat /\ 1 <= s
  BY <1>1, <1>2, FindStops DEF Skip_Blanks, Stop
<1>4. s > Len(T)
  BY <1>1, <1>2, <1>3, SymbolAtIs
<1>5. ASSUME NEW i \in UsefulLines(T) PROVE FALSE
  BY <1>1, <1>2, <1>3, <1>4, NoneBefore, UsefulIs
<1> QED
  BY <1>5

(* A line that is empty or a comment is passed as a whole. *)
LEMMA NextLine ==
  ASSUME NEW T \in Texts, NEW p, AtLine(T, p),
         SymbolAt(T, Skip_Blanks(T, p)) \in {NL, HASH}
  PROVE  AtLine(T, After(T, Find(T, Skip_Blanks(T, p), LineEnd)))
<1>1. Len(T) \in Nat /\ p \in Nat \ {0}
  BY AtLineIs DEF Texts
<1>2. PICK s : s = Skip_Blanks(T, p)
  OBVIOUS
<1>3. Stop(T, p, NonBlank, s)
  BY <1>1, <1>2, FindStops DEF Skip_Blanks
<1>4. s \in Nat /\ 1 <= s /\ (s <= Len(T) => T[s].kind \in NonBlank)
  BY <1>3 DEF Stop
<1>5. NL # EOF /\ HASH # EOF
  <2>1. NL.kind = "newline" /\ HASH.kind = "#" /\ EOF.kind = "EOF"
    BY DEF NL, HASH, EOF, Char, Symbol
  <2> QED
    BY <2>1
<1>6. s <= Len(T) /\ T[s] \in {NL, HASH}
  BY <1>1, <1>2, <1>4, <1>5, SymbolAtIs
<1>7. PICK q : q = Find(T, s, LineEnd)
  OBVIOUS
<1>8. Stop(T, s, LineEnd, q)
  BY <1>4, <1>7, FindStops
<1>9. /\ q \in Nat /\ s <= q /\ q <= Len(T) + 1
      /\ q <= Len(T) => T[q].kind = "newline"
      /\ \A r \in s..(q - 1) : T[r].kind # "newline"
  BY <1>1, <1>4, <1>6, <1>8 DEF Stop, LineEnd
<1>10. q <= Len(T) => T[q] = NL
  BY <1>4, <1>9, SymbolAtIs, SymbolKinds
<1>11. After(T, q) = q + 1
  BY <1>4, <1>9, AfterIs
<1>12. q + 1 \in LineBegins(T) \cup {Len(T) + 2}
  <2>1. CASE q <= Len(T)
    <3>1. (q + 1) \in Nat /\ (q + 1) - 1 = q /\ q \in 1..Len(T)
      BY <1>1, <1>4, <1>9, <2>1
    <3> QED
      BY <1>10, <2>1, <3>1, LineBeginsAre
  <2>2. CASE q > Len(T)
    BY <1>1, <1>9, <2>2
  <2> QED
    BY <1>1, <1>9, <2>1, <2>2
<1>13. ASSUME NEW i \in UsefulLines(T) PROVE q + 1 <= i
  <2>1. /\ i \in Nat /\ 1 <= i /\ i <= Len(T)
        /\ T[i] \notin {NL, HASH}
    BY UsefulIs
  <2>2. PICK b \in LineBegins(T) : b \in Nat \ {0} /\ b <= i /\ Stop(T, b, NonBlank, i)
    BY UsefulIs
  <2>3. s <= i /\ s # i
    BY <1>2, <1>6, <2>1, NoneBefore
  <2>4. q # i
    BY <1>10, <2>1
  <2>5. ASSUME i < q PROVE FALSE
    <3>1. CASE b <= s
      <4>1. s \in b..(i - 1)
        BY <1>4, <2>1, <2>2, <2>3, <3>1
      <4> QED
        BY <1>4, <1>6, <2>2, <4>1 DEF Stop
    <3>2. CASE b > s
      <4>1. b # 1
        BY <1>4, <2>2, <3>2
      <4>2. b - 1 \in 1..Len(T) /\ T[b - 1] = NL
        BY <2>2, <4>1, LineBeginsAre
      <4>3. b - 1 \in s..(q - 1)
        BY <1>4, <1>9, <2>1, <2>2, <2>5, <3>2
      <4>4. NL.kind = "newline"
        BY DEF NL, Char, Symbol
      <4> QED
        BY <1>9, <4>2, <4>3, <4>4
    <3> QED
      BY <1>4, <2>2, <3>1, <3>2
  <2> QED
    BY <1>9, <2>1, <2>4, <2>5
<1>14. AtLine(T, q + 1)
  BY <1>12, <1>13 DEF AtLine
<1> QED
  BY <1>2, <1>7, <1>11, <1>14

-----------------------------------------------------------------------------
(***************************************************************************)
(* The five fields.                                                        *)
(***************************************************************************)
LEMMA FieldsAre ==
  /\ Len(Fields) = 5 /\ DOMAIN Fields = 1..5
  /\ \A i \in 1..5 :
       /\ Fields[i].low \in Nat /\ Fields[i].high \in Nat
       /\ Fields[i].star \in Flags
       /\ Fields[i].code \in ECodes \ {"e_none"}
       /\ DOMAIN Fields[i].names \subseteq Nat
<1>1. Len(Fields) = 5 /\ DOMAIN Fields = 1..5
  BY DEF Fields
<1>2. DOMAIN MonthNames \subseteq Nat /\ DOMAIN DowNames \subseteq Nat /\ DOMAIN <<>> \subseteq Nat
  BY DEF MonthNames, DowNames
<1> DEFINE Good(f) ==
      /\ f.low \in Nat /\ f.high \in Nat /\ f.star \in Flags
      /\ f.code \in ECodes \ {"e_none"} /\ DOMAIN f.names \subseteq Nat
<1>3. Good(Fields[1])
  BY <1>2, FieldBounds DEF Fields, FieldSpec, Flags, ECodes, FIRST_MINUTE
<1>4. Good(Fields[2])
  BY <1>2, FieldBounds DEF Fields, FieldSpec, Flags, ECodes, FIRST_HOUR
<1>5. Good(Fields[3])
  BY <1>2, FieldBounds DEF Fields, FieldSpec, Flags, ECodes, FIRST_DOM
<1>6. Good(Fields[4])
  BY <1>2, FieldBounds DEF Fields, FieldSpec, Flags, ECodes, FIRST_MONTH
<1>7. Good(Fields[5])
  BY <1>2, FieldBounds DEF Fields, FieldSpec, Flags, ECodes, FIRST_DOW
<1> HIDE DEF Good
<1>8. \A i \in 1..5 : Good(Fields[i])
  BY <1>3, <1>4, <1>5, <1>6, <1>7
<1> QED
  BY <1>1, <1>8 DEF Good

LEMMA atoiInt ==
  ASSUME NEW n \in Nat
  PROVE  atoi(n) \in Int
<1>1. PICK a : a = n + INT_MAX + 1
  OBVIOUS
<1>2. PICK b : b = 2 * (INT_MAX + 1)
  OBVIOUS
<1>3. a \in Nat /\ b \in Nat \ {0}
  BY <1>1, <1>2, LoadEntryInputs
<1>4. a % b \in Int
  BY <1>3
<1> QED
  BY <1>1, <1>2, <1>4, LoadEntryInputs DEF atoi

LEMMA NameIndexInt ==
  ASSUME NEW names, DOMAIN names \subseteq Nat, NEW w, \E i \in DOMAIN names : names[i] = w
  PROVE  NameIndex(names, w) \in Nat
<1> DEFINE S == {i \in DOMAIN names : names[i] = w}
<1>1. S \subseteq Nat /\ S # {}
  OBVIOUS
<1>2. PICK i \in S : \A j \in S : i <= j
  BY <1>1, LeastExists
<1>3. \E i_1 \in DOMAIN names :
        names[i_1] = w /\ \A j \in DOMAIN names : names[j] = w => i_1 <= j
  BY <1>2
<1> QED
  BY <1>3 DEF NameIndex

(***************************************************************************)
(* get_number, called in a line with the symbol before p: a number is      *)
(* followed by a terminator of the same line; without one the stream stays *)
(* in the line, or the file ends there.                                    *)
(***************************************************************************)
NumberCall(L, E, low, names, c, p, terms, n) ==
  /\ text \in Texts /\ Line(text, L, E)
  /\ low \in Int /\ DOMAIN names \subseteq Nat /\ "EOF" \notin terms
  /\ p \in (L + 1)..(E + 1) /\ c = SymbolAt(text, p - 1)
  /\ n = get_number(low, names, c, p, terms)

LEMMA NumberRead ==
  ASSUME NEW L, NEW E, NEW low, NEW names, NEW c, NEW p, NEW terms, NEW n,
         NumberCall(L, E, low, names, c, p, terms, n)
  PROVE  \/ /\ n.ok = TRUE /\ n.num \in Int
            /\ IsNumber(names, c) /\ n.num = NumberOf(low, names, c)
            /\ p <= E /\ n.ch = SymbolAt(text, p) /\ n.ch # EOF /\ n.pos = p + 1
         \/ /\ n.ok = FALSE
            /\ n.pos \in L..E \/ (n.pos = E + 1 /\ E = Len(text) + 1)
<1>0. /\ text \in Texts /\ Line(text, L, E)
      /\ low \in Int /\ DOMAIN names \subseteq Nat /\ "EOF" \notin terms
      /\ p \in (L + 1)..(E + 1) /\ c = SymbolAt(text, p - 1)
      /\ n = get_number(low, names, c, p, terms)
  BY DEF NumberCall
<1>1. PICK d : d = SymbolAt(text, p)
  OBVIOUS
<1>2. PICK T : T = text
  OBVIOUS
<1>3. /\ Len(T) \in Nat /\ L \in Nat \ {0} /\ E \in Nat /\ L < E /\ E <= Len(T) + 1
      /\ p \in Nat \ {0} /\ L < p /\ p <= E + 1 /\ p - 1 \in L..E /\ p - 1 \in Nat \ {0}
      /\ T \in Texts /\ Line(T, L, E)
  BY <1>0, <1>2 DEF Texts, Line
<1>4. c \in {NL, EOF} <=> p - 1 = E
  BY <1>0, <1>2, <1>3, LineSymbol
<1>5. c = EOF => E = Len(T) + 1 /\ p = E + 1
  BY <1>0, <1>2, <1>3, <1>4, LineSymbol
<1>6. p <= E => After(T, p) = p + 1 /\ (d = EOF => E = Len(T) + 1 /\ p = E)
  BY <1>1, <1>2, <1>3, LineSymbol
<1>7. c.kind \in {"number", "word"} => p <= E /\ c \in Symbols
  <2>1. NL.kind = "newline" /\ EOF.kind = "EOF"
    BY DEF NL, EOF, Char, Symbol
  <2>2. ASSUME c.kind \in {"number", "word"} PROVE c \notin {NL, EOF}
    BY <2>1, <2>2
  <2>3. c \notin {NL, EOF} => p <= E
    BY <1>3, <1>4
  <2>4. c # EOF => c \in Symbols
    BY <1>0, <1>2, <1>3, SymbolAtIs
  <2> QED
    BY <2>2, <2>3, <2>4
<1> DEFINE digits == c.kind = "number"
           known == c.kind = "word" /\ \E i \in DOMAIN names : names[i] = c.text
           value == NumberOf(low, names, c)
<1>8. CASE (digits \/ known) /\ d.kind \in terms
  <2>1. n = [ok |-> TRUE, num |-> value, ch |-> d, pos |-> After(text, p)]
    BY <1>0, <1>1, <1>8 DEF get_number
  <2>2. value \in Int
    <3>1. digits => atoi(c.val) \in Int
      BY <1>7, atoiInt DEF Symbols
    <3>2. known => NameIndex(names, c.text) \in Nat
      BY <1>0, NameIndexInt
    <3>6. value = IF digits THEN atoi(c.val) ELSE NameIndex(names, c.text) - 1 + low
      BY DEF NumberOf
    <3> HIDE DEF digits, known, value
    <3>3. digits => value \in Int
      BY <3>1, <3>6
    <3>4. ~digits => value = NameIndex(names, c.text) - 1 + low
      BY <3>6
    <3>5. known => NameIndex(names, c.text) - 1 + low \in Int
      BY <1>0, <3>2
    <3> QED
      BY <1>8, <3>3, <3>4, <3>5
  <2>3. d # EOF
    <3>1. EOF.kind = "EOF"
      BY DEF EOF, Char, Symbol
    <3> QED
      BY <1>0, <1>8, <3>1
  <2>4. p <= E
    BY <1>7, <1>8
  <2>6. IsNumber(names, c)
    BY <1>8 DEF IsNumber
  <2> HIDE DEF value
  <2>5. n.ok = TRUE /\ n.num = value /\ n.ch = d /\ n.pos = After(T, p)
    BY <1>2, <2>1
  <2> QED
    BY <1>1, <1>6, <2>2, <2>3, <2>4, <2>5, <2>6 DEF value
<1>9. CASE /\ ~ ((digits \/ known) /\ d.kind \in terms)
           /\ digits \/ (c.kind = "word" /\ names # <<>>)
  <2>1. n = NoNumber(d, After(text, p))
    BY <1>0, <1>1, <1>9 DEF get_number
  <2>2. p <= E
    BY <1>7, <1>9
  <2>3. n.ok = FALSE /\ n.pos = IF d = EOF THEN p + 1 ELSE (p + 1) - 1
    BY <1>2, <1>6, <2>1, <2>2 DEF NoNumber, unget_char
  <2> QED
    BY <1>2, <1>3, <1>6, <2>2, <2>3
<1>10. CASE /\ ~ ((digits \/ known) /\ d.kind \in terms)
            /\ ~ (digits \/ (c.kind = "word" /\ names # <<>>))
  <2>1. n = NoNumber(c, p)
    BY <1>0, <1>1, <1>10 DEF get_number
  <2>2. n.ok = FALSE /\ n.pos = IF c = EOF THEN p ELSE p - 1
    BY <2>1 DEF NoNumber, unget_char
  <2> QED
    BY <1>2, <1>3, <1>5, <2>2
<1> QED
  BY <1>8, <1>9, <1>10

-----------------------------------------------------------------------------
(***************************************************************************)
(* Control: the stages, and how the call ends.                             *)
(***************************************************************************)
Control ==
  /\ file \in Files /\ pc \in Stages /\ field \in 1..5
  /\ ecode \in ECodes /\ ret \in {"none", "NULL", "entry", "crash"}
  /\ pc = "done" <=> ret # "none"
  /\ pc = "eof" => ecode # "e_none"

LEMMA FollowingIs ==
  /\ Following("SHELL") = "HOME" /\ Following("HOME") = "PATH"
  /\ Following("PATH") = "LOGNAME" /\ Following("LOGNAME") = "USER"
  /\ Following("USER") = "command"
  /\ {Variables[i] : i \in DOMAIN Variables} = {"SHELL", "HOME", "PATH", "LOGNAME", "USER"}
<1> DEFINE V == <<"SHELL", "HOME", "PATH", "LOGNAME", "USER">>
<1>1. /\ DOMAIN V = 1..5 /\ Len(V) = 5
      /\ V[1] = "SHELL" /\ V[2] = "HOME" /\ V[3] = "PATH" /\ V[4] = "LOGNAME" /\ V[5] = "USER"
  OBVIOUS
<1>2. Variables = V
  BY DEF Variables
<1> HIDE DEF V
<1>3. ASSUME NEW k \in 1..5 PROVE (CHOOSE i \in DOMAIN V : V[i] = V[k]) = k
  <2>1. \A i \in 1..5 : V[i] = V[k] => i = k
    BY <1>1
  <2> QED
    BY <1>1, <2>1
<1>4. ASSUME NEW k \in 1..5
      PROVE  Following(V[k]) = IF k = 5 THEN "command" ELSE V[k + 1]
  <2>1. PICK j : j = CHOOSE i \in DOMAIN V : V[i] = V[k]
    OBVIOUS
  <2>2. Following(V[k]) = IF j = Len(V) THEN "command" ELSE V[j + 1]
    BY <1>2, <2>1 DEF Following
  <2> QED
    BY <1>1, <1>3, <2>1, <2>2
<1>5. {V[i] : i \in DOMAIN V} = {"SHELL", "HOME", "PATH", "LOGNAME", "USER"}
  BY <1>1
<1> QED
  BY <1>1, <1>2, <1>4, <1>5

LEMMA ControlInit == Init => Control
<1> SUFFICES ASSUME Init PROVE Control
  OBVIOUS
<1>1. file \in Files /\ pc = "skip" /\ field = 1 /\ ecode = "e_none" /\ ret = "none"
  BY DEF Init
<1> QED
  BY <1>1 DEF Control, Stages, ECodes

LEMMA ControlNext ==
  ASSUME Control, [Next]_vars
  PROVE  Control'
<1> USE DEF Control, Stages, ECodes, stream, range, made
<1>f. Fields[field].code \in ECodes \ {"e_none"} /\ Len(Fields) = 5
  BY FieldsAre
<1>1. ASSUME SkipLine PROVE Control'
  BY <1>1 DEF SkipLine
<1>2. ASSUME NoMoreLines PROVE Control'
  BY <1>2 DEF NoMoreLines, Return
<1>3. ASSUME FirstChar PROVE Control'
  BY <1>3 DEF FirstChar, Goto, Return
<1>4. ASSUME Dash PROVE Control'
  BY <1>4 DEF Dash, Goto, Return
<1>5. ASSUME AtNickname PROVE Control'
  BY <1>5 DEF AtNickname, Goto, Fail
<1>6. ASSUME AtNumerics PROVE Control'
  BY <1>6 DEF AtNumerics, Goto
<1>7. ASSUME FieldStart PROVE Control'
  BY <1>7 DEF FieldStart, Goto
<1>8. ASSUME RangeStar PROVE Control'
  BY <1>8, <1>f DEF RangeStar, Goto, Fail
<1>9. ASSUME RangeNumber PROVE Control'
  BY <1>9, <1>f DEF RangeNumber, Goto, Fail, Refuse
<1>10. ASSUME RangeSpan PROVE Control'
  BY <1>10, <1>f DEF RangeSpan, Goto, Fail, Refuse
<1>11. ASSUME RangeStep PROVE Control'
  BY <1>11, <1>f DEF RangeStep, Goto, Fail, Refuse
<1>12. ASSUME RangeElements PROVE Control'
  BY <1>12, <1>f DEF RangeElements, Goto, Fail, Refuse
<1>13. ASSUME NextRange PROVE Control'
  BY <1>13 DEF NextRange, Goto
<1>14. ASSUME ListEnd PROVE Control'
  BY <1>14, <1>f DEF ListEnd, Goto, Fail
<1>15. ASSUME EndOfTime PROVE Control'
  BY <1>15 DEF EndOfTime, Goto, Fail
<1>16. ASSUME Username PROVE Control'
  BY <1>16 DEF Username, Goto, Fail
<1>17. ASSUME PwDup PROVE Control'
  BY <1>17 DEF PwDup, Alloc, Goto, Fail
<1>18. ASSUME EnvCopy PROVE Control'
  BY <1>18 DEF EnvCopy, Alloc, Goto, Fail, Return
<1>19. ASSUME SetVariable PROVE Control'
  <2>1. /\ pc \in {"SHELL", "HOME", "PATH", "LOGNAME", "USER"}
        /\ Following(pc) \in {"HOME", "PATH", "LOGNAME", "USER", "command"}
    BY <1>19, FollowingIs DEF SetVariable
  <2>2. /\ (pc' = Following(pc) /\ UNCHANGED <<ecode, ret>>) \/ (pc' = "eof" /\ ecode' = "e_memory" /\ UNCHANGED ret)
        /\ UNCHANGED <<file, field>>
    BY <1>19 DEF SetVariable, env_set, Goto, Fail
  <2> QED
    BY <2>1, <2>2
<1>20. ASSUME Command PROVE Control'
  BY <1>20 DEF Command, Return, Fail
<1>21. ASSUME Eof PROVE Control'
  BY <1>21 DEF Eof, Return
<1>22. ASSUME UNCHANGED vars PROVE Control'
  BY <1>22 DEF vars
<1> QED
  BY <1>1, <1>2, <1>3, <1>4, <1>5, <1>6, <1>7, <1>8, <1>9, <1>10, <1>11, <1>12,
     <1>13, <1>14, <1>15, <1>16, <1>17, <1>18, <1>19, <1>20, <1>21, <1>22 DEF Next

-----------------------------------------------------------------------------
(***************************************************************************)
(* The stream.  Between lines nothing useful has been passed.  In the line *)
(* from L to E the time is read with one symbol ahead, the user begins     *)
(* before the end and everything behind him inside.  At the label eof the  *)
(* newline has been read exactly when ch says so, or the file has ended,   *)
(* or a field was refused that kept the newline.  At the second bound of a *)
(* range the first is the symbol before the dash.                          *)
(***************************************************************************)
Reading == {"dash", "time", "field", "range", "span", "step", "elements", "list", "sundays"}

Making == {"pw_dup", "env_copy", "SHELL", "HOME", "PATH", "LOGNAME", "USER", "command"}

Kept(T, E, code, i) == code = Fields[i].code /\ DropsNewline(T, Fields[i], E)

OnLine(T, L, E, stage, c, p, code, i) ==
  /\ stage \in Reading => p \in (L + 1)..(E + 1) /\ c = SymbolAt(T, p - 1)
  /\ stage = "span" => c = DASH
  /\ stage = "sundays" => c # EOF
  /\ stage = "user" => p \in L..(E - 1)
  /\ stage \in Making => p \in L..E /\ c # NL
  /\ stage = "eof" =>
       /\ p \in L..(E + 1)
       /\ c = NL => p = E + 1
       /\ p = E + 1 => c = NL \/ p = Len(T) + 2 \/ Kept(T, E, code, i)

Place(T, stage, c, p, code, i) ==
  /\ stage = "skip" => AtLine(T, p)
  /\ stage \notin {"skip", "done"} =>
       /\ UsefulLines(T) # {}
       /\ OnLine(T, EntryLine(T), LineStop(T), stage, c, p, code, i)

Spanning ==
  pc = "span" =>
    /\ pos - 2 \in DOMAIN text
    /\ IsNumber(Fields[field].names, text[pos - 2])
    /\ num1 = NumberOf(Fields[field].low, Fields[field].names, text[pos - 2])

InLine == Place(text, pc, ch, pos, ecode, field) /\ Spanning

LEMMA FileIsText == Control => text \in Texts
BY LoadEntryInputs DEF Control, text, Texts

LEMMA InLineInit == Init => InLine /\ StaysInStep
<1> SUFFICES ASSUME Init PROVE InLine /\ StaysInStep
  OBVIOUS
<1>1. pos = 1 /\ pc = "skip" /\ ret = "none" /\ text \in Texts
  BY ControlInit, FileIsText DEF Init
<1>2. 1 \in LineBegins(text)
  BY <1>1, LineBeginsAre
<1>3. \A i \in UsefulLines(text) : 1 <= i
  BY <1>1, UsefulIs
<1>4. AtLine(text, pos)
  BY <1>1, <1>2, <1>3 DEF AtLine
<1> QED
  BY <1>1, <1>4 DEF InLine, Place, Spanning, StaysInStep

(* A step inside the line of the entry. *)
LEMMA LineStep ==
  ASSUME Control, InLine, Control', file' = file, pc \notin {"skip", "done"}, pc' \notin {"skip", "done"},
         \A L, E : Line(text, L, E) /\ OnLine(text, L, E, pc, ch, pos, ecode, field)
                     => OnLine(text, L, E, pc', ch', pos', ecode', field'),
         Spanning'
  PROVE  InLine' /\ StaysInStep'
<1>1. PICK T : T = text
  OBVIOUS
<1>2. T \in Texts /\ text' = T
  BY <1>1, FileIsText DEF text
<1>3. UsefulLines(T) # {} /\ OnLine(T, EntryLine(T), LineStop(T), pc, ch, pos, ecode, field)
  BY <1>1 DEF InLine, Place
<1>4. Line(T, EntryLine(T), LineStop(T))
  BY <1>2, <1>3, LineIs
<1>5. OnLine(T, EntryLine(T), LineStop(T), pc', ch', pos', ecode', field')
  BY <1>1, <1>3, <1>4
<1>6. Place(T, pc', ch', pos', ecode', field')
  BY <1>3, <1>5 DEF Place
<1>7. InLine'
  BY <1>2, <1>6 DEF InLine
<1>8. ret' = "none"
  BY DEF Control
<1> QED
  BY <1>7, <1>8 DEF StaysInStep

(* The first symbol of the line. *)
LEMMA LineFirst ==
  ASSUME Control, InLine, Control', FirstChar
  PROVE  InLine' /\ StaysInStep'
<1>1. PICK T : T = text
  OBVIOUS
<1>2. T \in Texts /\ text' = T
  BY <1>1, FileIsText DEF text, FirstChar
<1>3. AtLine(T, pos)
  BY <1>1 DEF InLine, Place, FirstChar
<1>4. PICK L : L = EntryLine(T)
  OBVIOUS
<1>5. UsefulLines(T) # {} /\ L = Skip_Blanks(T, pos)
  BY <1>1, <1>2, <1>3, <1>4, FirstIsEntry DEF FirstChar, LineStart
<1>6. PICK E : E = LineStop(T)
  OBVIOUS
<1>7. Line(T, L, E)
  BY <1>2, <1>4, <1>5, <1>6, LineIs
<1>8. ch' = SymbolAt(T, L) /\ pos' = After(T, L)
  BY <1>1, <1>5 DEF FirstChar, ReadTo, LineStart
<1>9. L \in Nat \ {0} /\ E \in Nat /\ L < E
  BY <1>7 DEF Line
<1>10. pos' = L + 1
  BY <1>2, <1>7, <1>8, <1>9, LineSymbol
<1>11. L = pos' - 1 /\ pos' \in (L + 1)..(E + 1)
  BY <1>9, <1>10
<1>12. CASE pc' = "dash"
  <2>1. OnLine(T, L, E, "dash", ch', pos', ecode', field')
    BY <1>8, <1>11 DEF OnLine, Reading, Making
  <2>2. Place(T, pc', ch', pos', ecode', field')
    BY <1>4, <1>5, <1>6, <1>12, <2>1 DEF Place
  <2>3. ret' = "none"
    BY <1>12 DEF Control
  <2> QED
    BY <1>2, <1>12, <2>2, <2>3 DEF InLine, Spanning, StaysInStep
<1>13. CASE pc' = "done" /\ ret' = "crash"
  <2>1. Place(T, pc', ch', pos', ecode', field')
    BY <1>13 DEF Place
  <2> QED
    BY <1>2, <1>13, <2>1 DEF InLine, Spanning, StaysInStep
<1> QED
  BY <1>12, <1>13 DEF FirstChar, Goto, Return

(* Behind a symbol of the line. *)
LEMMA MovedOn ==
  ASSUME NEW T \in Texts, NEW L, NEW E, Line(T, L, E), NEW q \in L..E,
         NEW c, c = SymbolAt(T, q), NEW p, p = After(T, q), NEW code, NEW i
  PROVE  /\ \A stage \in Reading : (stage = "span" => c = DASH) /\ (stage = "sundays" => c # EOF)
              => OnLine(T, L, E, stage, c, p, code, i)
         /\ OnLine(T, L, E, "eof", c, p, code, i)
         /\ c \notin {NL, EOF} => \A stage \in Making : OnLine(T, L, E, stage, c, p, code, i)
         /\ p \in (L + 1)..(E + 1) /\ (c \in {NL, EOF} <=> p = E + 1)
         /\ c = EOF => p = Len(T) + 2
<1>1. /\ Len(T) \in Nat /\ L \in Nat \ {0} /\ E \in Nat /\ L < E /\ E <= Len(T) + 1
  BY DEF Texts, Line
<1>2. /\ c \in {NL, EOF} <=> q = E
      /\ c = EOF => E = Len(T) + 1
      /\ p = q + 1 /\ q \in Nat
  BY LineSymbol
<1>3. /\ p \in (L + 1)..(E + 1) /\ p - 1 = q /\ (q = E <=> p = E + 1)
      /\ E = Len(T) + 1 /\ q = E => p = Len(T) + 2
      /\ q # E => p \in L..E
      /\ p \in L..(E + 1)
  BY <1>1, <1>2
<1>4. c \in {NL, EOF} <=> p = E + 1
  BY <1>2, <1>3
<1>5. c = EOF => p = Len(T) + 2
  BY <1>2, <1>3
<1>6. ASSUME NEW stage \in Reading, (stage = "span" => c = DASH) /\ (stage = "sundays" => c # EOF)
      PROVE  OnLine(T, L, E, stage, c, p, code, i)
  <2>1. stage \notin Making \cup {"user", "eof"}
    BY DEF Reading, Making
  <2> QED
    BY <1>3, <1>6, <2>1 DEF OnLine
<1>7. OnLine(T, L, E, "eof", c, p, code, i)
  BY <1>3, <1>4, <1>5 DEF OnLine, Reading, Making
<1>8. ASSUME c \notin {NL, EOF}, NEW stage \in Making PROVE OnLine(T, L, E, stage, c, p, code, i)
  <2>1. stage \notin Reading \cup {"user", "eof", "span", "sundays"}
    BY DEF Reading, Making
  <2>2. p \in L..E /\ c # NL
    BY <1>2, <1>3, <1>8
  <2> QED
    BY <2>1, <2>2 DEF OnLine
<1> QED
  BY <1>3, <1>4, <1>5, <1>6, <1>7, <1>8

(* A field that is refused. *)
LEMMA RefusedOn ==
  ASSUME NEW T, NEW L, NEW E, NEW p \in L..(E + 1), NEW code, NEW i,
         p = E + 1 => p = Len(T) + 2 \/ Kept(T, E, code, i)
  PROVE  OnLine(T, L, E, "eof", EOF, p, code, i)
<1>1. EOF # NL
  <2>1. EOF.kind = "EOF" /\ NL.kind = "newline"
    BY DEF NL, EOF, Char, Symbol
  <2> QED
    BY <2>1
<1> QED
  BY <1>1 DEF OnLine, Reading, Making

(* The steps that read the time. *)
LEMMA TimeMoves ==
  ASSUME Control, NEW T \in Texts, T = text, NEW L, NEW E, Line(T, L, E),
         OnLine(T, L, E, pc, ch, pos, ecode, field), pc' # "done",
         \/ Dash \/ AtNickname \/ AtNumerics \/ FieldStart \/ NextRange \/ ListEnd
  PROVE  OnLine(T, L, E, pc', ch', pos', ecode', field')
<1>1. /\ Len(T) \in Nat /\ L \in Nat \ {0} /\ E \in Nat /\ L < E /\ E <= Len(T) + 1
  BY DEF Texts, Line
<1>2. pc \in Reading
  BY DEF Dash, AtNickname, AtNumerics, FieldStart, NextRange, ListEnd, Reading
<1>3. pos \in (L + 1)..(E + 1) /\ ch = SymbolAt(T, pos - 1)
  BY <1>2 DEF OnLine
<1>4. pos \in Nat /\ pos - 1 \in L..E
  BY <1>1, <1>3
<1>5. ch \in {NL, EOF} <=> pos - 1 = E
  BY <1>3, <1>4, LineSymbol
<1>6. ch \notin {NL, EOF} => pos \in L..E
  BY <1>1, <1>3, <1>5
<1>7. /\ DASH \notin {NL, EOF} /\ AT \notin {NL, EOF} /\ COMMA \notin {NL, EOF}
  <2>1. /\ DASH.kind = "-" /\ AT.kind = "@" /\ COMMA.kind = ","
        /\ NL.kind = "newline" /\ EOF.kind = "EOF"
    BY DEF DASH, AT, COMMA, NL, EOF, Char, Symbol
  <2> QED
    BY <2>1
<1>8. ASSUME Dash PROVE OnLine(T, L, E, pc', ch', pos', ecode', field')
  <2>1. CASE ch = DASH
    <3>1. pos \in L..E
      BY <1>6, <1>7, <2>1
    <3>2. ch' = SymbolAt(T, pos) /\ pos' = After(T, pos) /\ pc' = "time"
      BY <1>8, <2>1 DEF Dash, ReadTo, Return, Goto
    <3>3. OnLine(T, L, E, "time", ch', pos', ecode', field')
      BY <3>1, <3>2, MovedOn DEF Reading
    <3> QED
      BY <3>2, <3>3
  <2>2. CASE ch # DASH
    <3>1. ch' = ch /\ pos' = pos /\ pc' = "time"
      BY <1>8, <2>2 DEF Dash, Goto, stream
    <3> QED
      BY <1>3, <3>1 DEF OnLine, Reading, Making
  <2> QED
    BY <2>1, <2>2
<1>9. ASSUME AtNickname PROVE OnLine(T, L, E, pc', ch', pos', ecode', field')
  <2>1. pos \in L..E
    BY <1>6, <1>7, <1>9 DEF AtNickname
  <2>2. PICK q : q = Find(T, pos, WordEnd)
    OBVIOUS
  <2>3. q \in pos..E
    BY <2>1, <2>2, LineFind DEF WordEnd
  <2>4. q \in L..E
    BY <1>1, <2>1, <2>3
  <2>5. PICK r : r = Skip_Blanks(T, q)
    OBVIOUS
  <2>6. r \in q..E
    BY <2>4, <2>5, LineFind DEF Skip_Blanks, NonBlank
  <2>7. r \in L..E
    BY <1>1, <2>4, <2>6
  <2>8. \/ ReadTo(r) /\ IF ch' \in {NL, EOF} THEN Fail("e_cmd") ELSE Goto("sundays")
        \/ ReadTo(q) /\ Fail("e_timespec")
    BY <1>9, <2>2, <2>5 DEF AtNickname
  <2>9. ASSUME ReadTo(r), IF ch' \in {NL, EOF} THEN Fail("e_cmd") ELSE Goto("sundays")
        PROVE  OnLine(T, L, E, pc', ch', pos', ecode', field')
    <3>1. ch' = SymbolAt(T, r) /\ pos' = After(T, r)
      BY <2>9 DEF ReadTo
    <3>2. /\ OnLine(T, L, E, "eof", ch', pos', ecode', field')
          /\ ch' # EOF => OnLine(T, L, E, "sundays", ch', pos', ecode', field')
      BY <2>7, <3>1, MovedOn DEF Reading
    <3> QED
      BY <2>9, <3>2 DEF Fail, Goto
  <2>10. ASSUME ReadTo(q), Fail("e_timespec")
         PROVE  OnLine(T, L, E, pc', ch', pos', ecode', field')
    <3>1. ch' = SymbolAt(T, q) /\ pos' = After(T, q) /\ pc' = "eof"
      BY <2>10 DEF ReadTo, Fail
    <3> QED
      BY <2>4, <3>1, MovedOn
  <2> QED
    BY <2>8, <2>9, <2>10
<1>10. ASSUME AtNumerics PROVE OnLine(T, L, E, pc', ch', pos', ecode', field')
  <2>1. ch' = ch /\ pos' = pos /\ pc' = "field"
    BY <1>10 DEF AtNumerics, Goto, stream
  <2> QED
    BY <1>3, <2>1 DEF OnLine, Reading, Making
<1>11. ASSUME FieldStart PROVE OnLine(T, L, E, pc', ch', pos', ecode', field')
  <2>1. ch' = ch /\ pos' = pos /\ pc' = "range"
    BY <1>11 DEF FieldStart, Goto, stream
  <2> QED
    BY <1>3, <2>1 DEF OnLine, Reading, Making
<1>12. ASSUME NextRange PROVE OnLine(T, L, E, pc', ch', pos', ecode', field')
  <2>1. pos \in L..E
    BY <1>6, <1>7, <1>12 DEF NextRange
  <2>2. ch' = SymbolAt(T, pos) /\ pos' = After(T, pos) /\ pc' = "range"
    BY <1>12 DEF NextRange, ReadTo, Goto
  <2>3. OnLine(T, L, E, "range", ch', pos', ecode', field')
    BY <2>1, <2>2, MovedOn DEF Reading
  <2> QED
    BY <2>2, <2>3
<1>13. ASSUME ListEnd PROVE OnLine(T, L, E, pc', ch', pos', ecode', field')
  <2>1. PICK q : q = Skip_Nonblanks(T, pos - 1)
    OBVIOUS
  <2>2. q \in (pos - 1)..E
    BY <1>4, <2>1, LineFind DEF Skip_Nonblanks, WordEnd
  <2>3. q \in L..E
    BY <1>1, <1>4, <2>2
  <2>4. PICK r : r = Skip_Blanks(T, q)
    OBVIOUS
  <2>5. r \in q..E
    BY <2>3, <2>4, LineFind DEF Skip_Blanks, NonBlank
  <2>6. r \in L..E
    BY <1>1, <2>3, <2>5
  <2>7. ch' = SymbolAt(T, r) /\ pos' = After(T, r)
    BY <1>13, <2>1, <2>4 DEF ListEnd, ReadTo
  <2>8. /\ OnLine(T, L, E, "eof", ch', pos', ecode', field')
        /\ OnLine(T, L, E, "field", ch', pos', ecode', field')
        /\ ch' # EOF => OnLine(T, L, E, "sundays", ch', pos', ecode', field')
    BY <2>6, <2>7, MovedOn DEF Reading
  <2>9. pc' \in {"eof", "field"} \/ (pc' = "sundays" /\ ch' # EOF)
    BY <1>13 DEF ListEnd, Fail, Goto
  <2> QED
    BY <2>8, <2>9
<1> QED
  BY <1>8, <1>9, <1>10, <1>11, <1>12, <1>13

(* The steps of get_range. *)
LEMMA RangeMoves ==
  ASSUME Control, InLine, NEW T \in Texts, T = text, NEW L, NEW E, Line(T, L, E),
         OnLine(T, L, E, pc, ch, pos, ecode, field),
         \/ RangeStar \/ RangeNumber \/ RangeSpan \/ RangeStep \/ RangeElements
  PROVE  OnLine(T, L, E, pc', ch', pos', ecode', field')
<1>1. /\ Len(T) \in Nat /\ L \in Nat \ {0} /\ E \in Nat /\ L < E /\ E <= Len(T) + 1
  BY DEF Texts, Line
<1>2. pc \in Reading
  BY DEF RangeStar, RangeNumber, RangeSpan, RangeStep, RangeElements, Reading
<1>3. pos \in (L + 1)..(E + 1) /\ ch = SymbolAt(T, pos - 1)
  BY <1>2 DEF OnLine
<1>4. pos \in Nat \ {0} /\ pos - 1 \in L..E
  BY <1>1, <1>3
<1>5. ch \in {NL, EOF} <=> pos - 1 = E
  BY <1>3, <1>4, LineSymbol
<1>6. ch \notin {NL, EOF} => pos \in L..E
  BY <1>1, <1>3, <1>5
<1>7. /\ DASH \notin {NL, EOF} /\ STAR \notin {NL, EOF} /\ SLASH \notin {NL, EOF}
  <2>1. /\ DASH.kind = "-" /\ STAR.kind = "*" /\ SLASH.kind = "/"
        /\ NL.kind = "newline" /\ EOF.kind = "EOF"
    BY DEF DASH, STAR, SLASH, NL, EOF, Char, Symbol
  <2> QED
    BY <2>1
<1>8. PICK f : f = Fields[field]
  OBVIOUS
<1>9. f.low \in Int /\ DOMAIN f.names \subseteq Nat
  BY <1>8, FieldsAre DEF Control
<1>18. Fields[field'] = f
  BY <1>8 DEF RangeStar, RangeNumber, RangeSpan, RangeStep, RangeElements, range
<1>10. ASSUME NEW p \in L..(E + 1), Refuse(p),
              p = E + 1 => E = Len(T) + 1 \/ DropsNewline(T, f, E)
       PROVE  OnLine(T, L, E, pc', ch', pos', ecode', field')
  <2>1. ch' = EOF /\ pos' = p /\ pc' = "eof" /\ ecode' = f.code
    BY <1>8, <1>10 DEF Refuse, Fail
  <2>2. p = E + 1 => p = Len(T) + 2 \/ Kept(T, E, ecode', field')
    BY <1>1, <1>10, <1>18, <2>1 DEF Kept
  <2> QED
    BY <2>1, <2>2, RefusedOn
<1>11. ASSUME NEW q \in L..E, ch' = SymbolAt(T, q), pos' = q + 1,
              pc' \in {"step", "elements", "list"} \/ (pc' = "span" /\ ch' = DASH) \/ pc' = "eof"
       PROVE  OnLine(T, L, E, pc', ch', pos', ecode', field')
  <2>1. pos' = After(T, q)
    BY <1>11, LineSymbol
  <2> QED
    BY <1>11, <2>1, MovedOn DEF Reading
<1>12. ASSUME RangeStar PROVE OnLine(T, L, E, pc', ch', pos', ecode', field')
  <2>1. pos \in L..E
    BY <1>6, <1>7, <1>12 DEF RangeStar
  <2>2. ch' = SymbolAt(T, pos) /\ pos' = After(T, pos) /\ pc' \in {"eof", "step"}
    BY <1>12 DEF RangeStar, ReadTo, Goto, Fail
  <2>3. pos' = pos + 1
    BY <2>1, <2>2, LineSymbol
  <2> QED
    BY <1>11, <2>1, <2>2, <2>3
<1>13. ASSUME RangeNumber PROVE OnLine(T, L, E, pc', ch', pos', ecode', field')
  <2>1. PICK n : n = get_number(f.low, f.names, ch, pos, {",", "-", "blank", "newline"})
    OBVIOUS
  <2>2. \/ /\ n.ok = TRUE /\ n.num \in Int
           /\ pos <= E /\ n.ch = SymbolAt(text, pos) /\ n.ch # EOF /\ n.pos = pos + 1
        \/ /\ n.ok = FALSE
           /\ n.pos \in L..E \/ (n.pos = E + 1 /\ E = Len(text) + 1)
    <3>1. PICK terms : terms = {",", "-", "blank", "newline"}
      OBVIOUS
    <3>2. PICK low, names : low = f.low /\ names = f.names
      OBVIOUS
    <3>3. PICK c, p : c = ch /\ p = pos
      OBVIOUS
    <3>4. NumberCall(L, E, low, names, c, p, terms, n)
      BY <1>3, <1>9, <2>1, <3>1, <3>2, <3>3 DEF NumberCall
    <3>5. \/ /\ n.ok = TRUE /\ n.num \in Int
             /\ IsNumber(names, c) /\ n.num = NumberOf(low, names, c)
             /\ p <= E /\ n.ch = SymbolAt(text, p) /\ n.ch # EOF /\ n.pos = p + 1
          \/ /\ n.ok = FALSE
             /\ n.pos \in L..E \/ (n.pos = E + 1 /\ E = Len(text) + 1)
      BY ONLY <3>4, NumberRead
    <3> QED
      BY <3>3, <3>5
  <2>3. \/ ~n.ok /\ Refuse(n.pos)
        \/ n.ok /\ n.ch = DASH /\ ch' = n.ch /\ pos' = n.pos /\ pc' = "span"
        \/ n.ok /\ ch' = n.ch /\ pos' = n.pos /\ pc' = "list"
        \/ n.ok /\ Refuse(unget_char(n.ch, n.pos))
    BY <1>8, <1>13, <2>1 DEF RangeNumber, Goto
  <2>4. CASE ~n.ok
    <3>1. n.pos \in L..(E + 1) /\ Refuse(n.pos) /\ (n.pos = E + 1 => E = Len(T) + 1)
      BY <1>1, <2>2, <2>3, <2>4
    <3> QED
      BY <1>10, <3>1
  <2>5. CASE n.ok
    <3>1. pos \in L..E /\ n.ch = SymbolAt(T, pos) /\ n.pos = pos + 1 /\ n.ch # EOF
      BY <1>1, <1>3, <2>2, <2>5
    <3>2. unget_char(n.ch, n.pos) \in L..(E + 1) /\ unget_char(n.ch, n.pos) # E + 1
      BY <1>1, <3>1 DEF unget_char
    <3>3. CASE Refuse(unget_char(n.ch, n.pos))
      BY <1>10, <3>2, <3>3
    <3>4. CASE ch' = n.ch /\ pos' = n.pos /\ ((pc' = "span" /\ n.ch = DASH) \/ pc' = "list")
      BY <1>11, <3>1, <3>4
    <3> QED
      BY <2>3, <2>5, <3>3, <3>4
  <2> QED
    BY <2>4, <2>5
<1>14. ASSUME NEW low \in Int, NEW names, DOMAIN names \subseteq Nat, NEW terms, "EOF" \notin terms,
              ch \notin {NL, EOF},
              NEW n, n = get_number(low, names, SymbolAt(T, pos), After(T, pos), terms)
       PROVE  /\ n.pos \in L..(E + 1)
              /\ \/ n.ok = FALSE /\ (n.pos = E + 1 => E = Len(T) + 1)
                 \/ /\ n.ok = TRUE /\ IsNumber(names, T[pos]) /\ n.num = NumberOf(low, names, T[pos])
                    /\ pos + 1 \in L..E /\ n.ch = SymbolAt(T, pos + 1) /\ n.pos = pos + 2
  <2>1. pos \in L..E
    BY <1>6, <1>14
  <2>2. PICK p : p = pos + 1
    OBVIOUS
  <2>3. p \in (L + 1)..(E + 1) /\ pos = p - 1 /\ After(T, pos) = p
    BY <1>1, <2>1, <2>2, LineSymbol
  <2>4. PICK c : c = SymbolAt(text, p - 1)
    OBVIOUS
  <2>5. \/ /\ n.ok = TRUE /\ n.num \in Int
           /\ IsNumber(names, c) /\ n.num = NumberOf(low, names, c)
           /\ p <= E /\ n.ch = SymbolAt(text, p) /\ n.ch # EOF /\ n.pos = p + 1
        \/ /\ n.ok = FALSE
           /\ n.pos \in L..E \/ (n.pos = E + 1 /\ E = Len(text) + 1)
    <3>2. n = get_number(low, names, c, p, terms)
      BY <1>14, <2>3, <2>4
    <3>3. NumberCall(L, E, low, names, c, p, terms, n)
      BY <1>14, <2>3, <2>4, <3>2 DEF NumberCall
    <3> QED
      BY ONLY <3>3, NumberRead
  <2>6. CASE n.ok = FALSE
    BY <1>1, <2>3, <2>5, <2>6
  <2>7. CASE n.ok = TRUE
    <3>1. /\ IsNumber(names, c) /\ n.num = NumberOf(low, names, c)
          /\ p <= E /\ n.ch = SymbolAt(T, p) /\ n.pos = p + 1
      BY <2>5, <2>7
    <3>2. pos \in DOMAIN T /\ pos + 1 \in L..E /\ pos + 2 \in L..(E + 1)
      BY <1>1, <2>1, <2>2, <3>1 DEF Texts
    <3>3. c = T[pos]
      BY <2>3, <2>4, <3>2 DEF SymbolAt
    <3>4. pos + 1 = p /\ pos + 2 = p + 1
      BY <1>4, <2>2
    <3> QED
      BY <2>7, <3>1, <3>2, <3>3, <3>4
  <2> QED
    BY <2>5, <2>6, <2>7
<1>15. ASSUME RangeSpan PROVE OnLine(T, L, E, pc', ch', pos', ecode', field')
  <2>1. ch \notin {NL, EOF}
    BY <1>7, <1>15 DEF RangeSpan, OnLine
  <2>2. PICK n : n = get_number(f.low, f.names, SymbolAt(T, pos), After(T, pos),
                                {"/", ",", "blank", "newline"})
    OBVIOUS
  <2>3. /\ n.pos \in L..(E + 1)
        /\ \/ n.ok = FALSE /\ (n.pos = E + 1 => E = Len(T) + 1)
           \/ /\ n.ok = TRUE /\ IsNumber(f.names, T[pos]) /\ n.num = NumberOf(f.low, f.names, T[pos])
              /\ pos + 1 \in L..E /\ n.ch = SymbolAt(T, pos + 1) /\ n.pos = pos + 2
    <3>1. PICK terms : terms = {"/", ",", "blank", "newline"}
      OBVIOUS
    <3>2. PICK low, names : low = f.low /\ names = f.names
      OBVIOUS
    <3>3. /\ low \in Int /\ DOMAIN names \subseteq Nat /\ "EOF" \notin terms /\ ch \notin {NL, EOF}
          /\ n = get_number(low, names, SymbolAt(T, pos), After(T, pos), terms)
      BY <1>9, <2>1, <2>2, <3>1, <3>2
    <3>4. /\ n.pos \in L..(E + 1)
          /\ \/ n.ok = FALSE /\ (n.pos = E + 1 => E = Len(T) + 1)
             \/ /\ n.ok = TRUE /\ IsNumber(names, T[pos]) /\ n.num = NumberOf(low, names, T[pos])
                /\ pos + 1 \in L..E /\ n.ch = SymbolAt(T, pos + 1) /\ n.pos = pos + 2
      BY ONLY <1>14, <3>3
    <3> QED
      BY <3>2, <3>4
  <2>4. \/ Refuse(n.pos) /\ (~n.ok \/ num1 > n.num)
        \/ n.ok /\ ch' = n.ch /\ pos' = n.pos /\ pc' = "step"
    BY <1>8, <1>15, <2>2 DEF RangeSpan, Goto
  <2>5. ASSUME n.ok, num1 > n.num, n.pos = E + 1 PROVE DropsNewline(T, f, E)
    <3>1. IsNumber(f.names, T[pos]) /\ n.num = NumberOf(f.low, f.names, T[pos]) /\ n.pos = pos + 2
      BY <2>3, <2>5
    <3>2. /\ pos - 2 \in DOMAIN T
          /\ IsNumber(f.names, T[pos - 2]) /\ num1 = NumberOf(f.low, f.names, T[pos - 2])
      BY <1>8, <1>15 DEF RangeSpan, InLine, Spanning
    <3>3. pos - 2 = E - 3 /\ pos - 1 = E - 2 /\ pos = E - 1
      BY <1>1, <1>4, <2>5, <3>1
    <3>4. T[pos - 1] = DASH
      <4>1. pos - 1 \in DOMAIN T
        BY <1>1, <1>4, <3>3 DEF Texts
      <4>2. ch = DASH
        BY <1>15 DEF RangeSpan, OnLine
      <4> QED
        BY <1>3, <4>1, <4>2 DEF SymbolAt
    <3> QED
      BY <2>5, <3>1, <3>2, <3>3, <3>4 DEF DropsNewline, EndsBackwards
  <2>6. CASE n.ok /\ ch' = n.ch /\ pos' = n.pos /\ pc' = "step"
    <3>1. PICK q : q = pos + 1
      OBVIOUS
    <3>2. q \in L..E /\ ch' = SymbolAt(T, q) /\ pos' = q + 1
      BY <1>4, <2>3, <2>6, <3>1
    <3> QED
      BY <1>11, <2>6, <3>2
  <2>7. CASE Refuse(n.pos) /\ (~n.ok \/ num1 > n.num)
    BY <1>10, <2>3, <2>5, <2>7
  <2> QED
    BY <2>4, <2>6, <2>7
<1>16. ASSUME RangeStep PROVE OnLine(T, L, E, pc', ch', pos', ecode', field')
  <2>1. CASE ch # SLASH
    <3>1. ch' = ch /\ pos' = pos /\ pc' = "elements"
      BY <1>16, <2>1 DEF RangeStep, Goto, stream
    <3> QED
      BY <1>3, <3>1 DEF OnLine, Reading, Making
  <2>2. CASE ch = SLASH
    <3>1. ch \notin {NL, EOF}
      BY <1>7, <2>2
    <3>2. PICK n : n = get_number(0, <<>>, SymbolAt(T, pos), After(T, pos), {",", "blank", "newline"})
      OBVIOUS
    <3>3. 0 \in Int /\ DOMAIN <<>> \subseteq Nat /\ "EOF" \notin {",", "blank", "newline"}
      OBVIOUS
    <3>4. /\ n.pos \in L..(E + 1)
          /\ \/ n.ok = FALSE /\ (n.pos = E + 1 => E = Len(T) + 1)
             \/ /\ n.ok = TRUE /\ IsNumber(<<>>, T[pos]) /\ n.num = NumberOf(0, <<>>, T[pos])
                /\ pos + 1 \in L..E /\ n.ch = SymbolAt(T, pos + 1) /\ n.pos = pos + 2
      <4>1. PICK low, names, terms : low = 0 /\ names = <<>> /\ terms = {",", "blank", "newline"}
        OBVIOUS
      <4>2. /\ low \in Int /\ DOMAIN names \subseteq Nat /\ "EOF" \notin terms /\ ch \notin {NL, EOF}
            /\ n = get_number(low, names, SymbolAt(T, pos), After(T, pos), terms)
        BY <3>1, <3>2, <3>3, <4>1
      <4>3. /\ n.pos \in L..(E + 1)
            /\ \/ n.ok = FALSE /\ (n.pos = E + 1 => E = Len(T) + 1)
               \/ /\ n.ok = TRUE /\ IsNumber(names, T[pos]) /\ n.num = NumberOf(low, names, T[pos])
                  /\ pos + 1 \in L..E /\ n.ch = SymbolAt(T, pos + 1) /\ n.pos = pos + 2
        BY ONLY <1>14, <4>2
      <4> QED
        BY <4>1, <4>3
    <3>5. \/ Refuse(n.pos) /\ (~n.ok \/ n.num = 0)
          \/ n.ok /\ ch' = n.ch /\ pos' = n.pos /\ pc' = "elements"
      BY <1>16, <2>2, <3>2 DEF RangeStep, Goto
    <3>6. ASSUME n.ok, n.num = 0, n.pos = E + 1 PROVE DropsNewline(T, f, E)
      <4>1. IsNumber(<<>>, T[pos]) /\ NumberOf(0, <<>>, T[pos]) = 0 /\ n.pos = pos + 2
        BY <3>4, <3>6
      <4>2. pos - 1 = E - 2 /\ pos = E - 1
        BY <1>1, <1>4, <3>6, <4>1
      <4>3. pos - 1 \in DOMAIN T
        BY <1>1, <1>4, <4>2 DEF Texts
      <4>4. T[pos - 1] = SLASH
        BY <1>3, <2>2, <4>3 DEF SymbolAt
      <4>5. T[pos].kind = "number"
        BY <4>1 DEF IsNumber
      <4> QED
        BY <4>1, <4>2, <4>3, <4>4, <4>5 DEF DropsNewline, EndsInZeroStep
    <3>7. CASE n.ok /\ ch' = n.ch /\ pos' = n.pos /\ pc' = "elements"
      <4>1. PICK q : q = pos + 1
        OBVIOUS
      <4>2. q \in L..E /\ ch' = SymbolAt(T, q) /\ pos' = q + 1
        BY <1>4, <3>4, <3>7, <4>1
      <4> QED
        BY <1>11, <3>7, <4>2
    <3>8. CASE Refuse(n.pos) /\ (~n.ok \/ n.num = 0)
      BY <1>10, <3>4, <3>6, <3>8
    <3> QED
      BY <3>5, <3>7, <3>8
  <2> QED
    BY <2>1, <2>2
<1>17. ASSUME RangeElements PROVE OnLine(T, L, E, pc', ch', pos', ecode', field')
  <2>1. \/ ch' = ch /\ pos' = pos /\ pc' = "list"
        \/ Refuse(unget_char(ch, pos))
    BY <1>17 DEF RangeElements, Goto, stream
  <2>2. unget_char(ch, pos) \in L..(E + 1) /\ (unget_char(ch, pos) = E + 1 => E = Len(T) + 1)
    <3>1. ch = EOF => E = Len(T) + 1
      BY <1>3, <1>4, LineSymbol
    <3> QED
      BY <1>1, <1>3, <3>1 DEF unget_char
  <2>3. CASE ch' = ch /\ pos' = pos /\ pc' = "list"
    BY <1>3, <2>3 DEF OnLine, Reading, Making
  <2> QED
    BY <1>10, <2>1, <2>2, <2>3
<1> QED
  BY <1>12, <1>13, <1>15, <1>16, <1>17

(* The steps behind the time. *)
LEMMA RestMoves ==
  ASSUME Control, NEW T \in Texts, T = text, NEW L, NEW E, Line(T, L, E),
         OnLine(T, L, E, pc, ch, pos, ecode, field), pc' # "done",
         \/ EndOfTime \/ Username \/ PwDup \/ EnvCopy \/ SetVariable \/ Command
  PROVE  OnLine(T, L, E, pc', ch', pos', ecode', field')
<1>1. /\ Len(T) \in Nat /\ L \in Nat \ {0} /\ E \in Nat /\ L < E /\ E <= Len(T) + 1
  BY DEF Texts, Line
<1>2. ASSUME EndOfTime PROVE OnLine(T, L, E, pc', ch', pos', ecode', field')
  <2>1. pos \in (L + 1)..(E + 1) /\ ch = SymbolAt(T, pos - 1) /\ ch # EOF
    BY <1>2 DEF EndOfTime, OnLine, Reading
  <2>2. pos - 1 \in L..E
    BY <1>1, <2>1
  <2>3. ch \in {NL, EOF} <=> pos - 1 = E
    BY <2>1, <2>2, LineSymbol
  <2>4. CASE ch \in {NL, STAR}
    <3>1. ch' = ch /\ pos' = pos /\ pc' = "eof"
      BY <1>2, <2>4 DEF EndOfTime, Fail
    <3>2. pos \in L..(E + 1) /\ (pos - 1 = E <=> pos = E + 1)
      BY <1>1, <2>1
    <3>3. ch = NL <=> pos = E + 1
      BY <2>1, <2>3, <3>2
    <3> QED
      BY <3>1, <3>2, <3>3 DEF OnLine, Reading, Making
  <2>5. CASE ch \notin {NL, STAR}
    <3>1. pos' = pos - 1 /\ pc' = "user"
      BY <1>2, <2>1, <2>5 DEF EndOfTime, Goto, unget_char
    <3>2. pos - 1 \in L..(E - 1)
      BY <1>1, <2>1, <2>2, <2>3, <2>5
    <3> QED
      BY <3>1, <3>2 DEF OnLine, Reading, Making
  <2> QED
    BY <2>4, <2>5
<1>3. ASSUME Username PROVE OnLine(T, L, E, pc', ch', pos', ecode', field')
  <2>1. pos \in L..(E - 1)
    BY <1>3 DEF Username, OnLine
  <2>2. pos \in L..E
    BY <1>1, <2>1
  <2>3. PICK q : q = Find(T, pos, WordEnd)
    OBVIOUS
  <2>4. q \in pos..E
    BY <2>2, <2>3, LineFind DEF WordEnd
  <2>5. q \in L..E
    BY <1>1, <2>2, <2>4
  <2>6. ch' = SymbolAt(T, q) /\ pos' = After(T, q)
    BY <1>3, <2>3 DEF Username, ReadTo
  <2>7. pc' = "eof" \/ (pc' = "pw_dup" /\ ch' \notin {NL, EOF})
    BY <1>3 DEF Username, Fail, Goto
  <2> QED
    BY <2>5, <2>6, <2>7, MovedOn DEF Making
<1>4. ASSUME PwDup \/ EnvCopy \/ SetVariable PROVE OnLine(T, L, E, pc', ch', pos', ecode', field')
  <2>1. pc \in Making
    BY <1>4, FollowingIs DEF PwDup, EnvCopy, SetVariable, Making
  <2>2. pos \in L..E /\ ch # NL
    BY <2>1 DEF OnLine
  <2>3. ch' = ch /\ pos' = pos
    BY <1>4 DEF PwDup, EnvCopy, SetVariable, stream
  <2>4. pc' \in Making \cup {"eof"}
    <3>1. CASE PwDup \/ EnvCopy
      BY <3>1 DEF PwDup, EnvCopy, Alloc, Goto, Fail, Return, Making
    <3>2. CASE SetVariable
      <4>1. pc' = "eof" \/ pc' = Following(pc)
        BY <3>2 DEF SetVariable, env_set, Goto, Fail
      <4>2. Following(pc) \in Making
        BY <3>2, FollowingIs DEF SetVariable, Making
      <4> QED
        BY <4>1, <4>2
    <3> QED
      BY <1>4, <3>1, <3>2
  <2>5. pos \in L..(E + 1) /\ pos # E + 1
    BY <1>1, <2>2
  <2>6. CASE pc' \in Making
    <3>1. pc' \notin Reading \cup {"user", "eof", "span", "sundays"}
      BY <2>6 DEF Reading, Making
    <3> QED
      BY <2>2, <2>3, <3>1 DEF OnLine
  <2>7. CASE pc' = "eof"
    BY <2>2, <2>3, <2>5, <2>7 DEF OnLine, Reading, Making
  <2> QED
    BY <2>4, <2>6, <2>7
<1>5. ASSUME Command PROVE OnLine(T, L, E, pc', ch', pos', ecode', field')
  <2>1. pos \in L..E
    BY <1>5 DEF Command, OnLine, Making
  <2>2. Find(T, pos, LineEnd) = E
    BY <2>1, LineFindEnd
  <2>3. ch' = SymbolAt(T, E) /\ pos' = After(T, E) /\ pc' = "eof"
    BY <1>5, <2>2 DEF Command, ReadTo, Fail, Return
  <2>4. E \in L..E
    BY <1>1
  <2> QED
    BY <2>3, <2>4, MovedOn
<1> QED
  BY <1>2, <1>3, <1>4, <1>5

(* The end of the call, in the line or one further. *)
LEMMA LineDone ==
  ASSUME Control, InLine, Control', file' = file, pc \notin {"skip", "done"}, pc' = "done",
         \A L, E : Line(text, L, E) /\ OnLine(text, L, E, pc, ch, pos, ecode, field)
                     => /\ ret' = "entry" => pos' = After(text, E)
                        /\ ret' = "NULL" =>
                             \/ pos' = After(text, E)
                             \/ pos' = EndOf(text, After(text, E)) /\ Kept(text, E, ecode', field')
  PROVE  InLine' /\ StaysInStep'
<1>1. PICK T : T = text
  OBVIOUS
<1>2. T \in Texts /\ text' = T
  BY <1>1, FileIsText DEF text
<1>3. UsefulLines(T) # {} /\ OnLine(T, EntryLine(T), LineStop(T), pc, ch, pos, ecode, field)
  BY <1>1 DEF InLine, Place
<1>4. Line(T, EntryLine(T), LineStop(T))
  BY <1>2, <1>3, LineIs
<1>5. EndOf(T, EntryLine(T)) = After(T, LineStop(T))
  BY DEF EndOf, LineStop
<1>6. /\ ret' = "entry" => pos' = After(T, LineStop(T))
      /\ ret' = "NULL" =>
           \/ pos' = After(T, LineStop(T))
           \/ pos' = EndOf(T, After(T, LineStop(T))) /\ Kept(T, LineStop(T), ecode', field')
  BY <1>1, <1>3, <1>4
<1>7. InLine'
  BY <1>2 DEF InLine, Place, Spanning
<1>8. StaysInStep'
  BY <1>2, <1>5, <1>6 DEF StaysInStep, Kept, LineStop
<1> QED
  BY <1>7, <1>8

LEMMA EofStays ==
  ASSUME Control, InLine, Control', Eof
  PROVE  InLine' /\ StaysInStep'
<1>1. ASSUME NEW T \in Texts, T = text, NEW L, NEW E, Line(T, L, E),
             OnLine(T, L, E, pc, ch, pos, ecode, field)
      PROVE  \/ pos' = After(T, E)
             \/ pos' = EndOf(T, After(T, E)) /\ Kept(T, E, ecode', field')
  <2>1. /\ Len(T) \in Nat /\ L \in Nat \ {0} /\ E \in Nat /\ L < E /\ E <= Len(T) + 1
    BY <1>1 DEF Texts, Line
  <2>2. /\ pos \in L..(E + 1)
        /\ ch = NL => pos = E + 1
        /\ pos = E + 1 => ch = NL \/ pos = Len(T) + 2 \/ Kept(T, E, ecode, field)
    BY <1>1 DEF Eof, OnLine
  <2>3. After(T, E) = E + 1
    BY <1>1, <2>1, AfterIs
  <2>4. CASE ch = NL \/ pos = Len(T) + 2
    <3>1. pos' = pos
      BY <1>1, <2>4 DEF Eof, feof, stream
    <3>2. pos = E + 1
      BY <2>1, <2>2, <2>4
    <3> QED
      BY <2>3, <3>1, <3>2
  <2>5. CASE ~ (ch = NL \/ pos = Len(T) + 2)
    <3>1. pos' = After(T, Find(T, pos, LineEnd)) /\ ecode' = ecode /\ field' = field
      BY <1>1, <2>5 DEF Eof, feof, ReadTo, range
    <3>2. CASE pos = E + 1
      BY <2>2, <2>3, <2>5, <3>1, <3>2 DEF EndOf
    <3>3. CASE pos # E + 1
      <4>1. pos \in L..E
        BY <2>1, <2>2, <3>3
      <4>2. Find(T, pos, LineEnd) = E
        BY <1>1, <4>1, LineFindEnd
      <4> QED
        BY <3>1, <4>2
    <3> QED
      BY <3>2, <3>3
  <2> QED
    BY <2>4, <2>5
<1>2. text \in Texts
  BY FileIsText
<1>3. pc = "eof" /\ pc' = "done" /\ ret' = "NULL" /\ file' = file
  BY DEF Eof, Return
<1>4. \A L, E : Line(text, L, E) /\ OnLine(text, L, E, pc, ch, pos, ecode, field)
                 => /\ ret' = "entry" => pos' = After(text, E)
                    /\ ret' = "NULL" =>
                         \/ pos' = After(text, E)
                         \/ pos' = EndOf(text, After(text, E)) /\ Kept(text, E, ecode', field')
  BY <1>1, <1>2, <1>3
<1> QED
  BY <1>3, <1>4, LineDone

LEMMA DashStays ==
  ASSUME Control, InLine, Control', Dash, pc' = "done"
  PROVE  /\ InLine' /\ StaysInStep'
         /\ text[Len(text)] = DASH
<1>1. ASSUME NEW T \in Texts, T = text, NEW L, NEW E, Line(T, L, E),
             OnLine(T, L, E, pc, ch, pos, ecode, field)
      PROVE  pos' = After(T, E) /\ T[Len(T)] = DASH
  <2>1. /\ Len(T) \in Nat /\ L \in Nat \ {0} /\ E \in Nat /\ L < E /\ E <= Len(T) + 1
    BY <1>1 DEF Texts, Line
  <2>2. pos \in (L + 1)..(E + 1) /\ ch = SymbolAt(T, pos - 1)
    BY <1>1 DEF Dash, OnLine, Reading
  <2>3. /\ ch = DASH /\ ch' = EOF /\ ch' = SymbolAt(T, pos) /\ pos' = After(T, pos)
    BY <1>1 DEF Dash, ReadTo, Goto
  <2>4. DASH \notin {NL, EOF}
    <3>1. DASH.kind = "-" /\ NL.kind = "newline" /\ EOF.kind = "EOF"
      BY DEF DASH, NL, EOF, Char, Symbol
    <3> QED
      BY <3>1
  <2>5. pos - 1 \in L..E /\ pos - 1 # E
    <3>1. pos - 1 \in L..E
      BY <2>1, <2>2
    <3> QED
      BY <1>1, <2>2, <2>3, <2>4, <3>1, LineSymbol
  <2>6. pos \in L..E
    BY <2>1, <2>2, <2>5
  <2>7. pos = E /\ E = Len(T) + 1
    BY <1>1, <2>3, <2>6, LineSymbol
  <2>8. pos - 1 = Len(T) /\ Len(T) \in Nat \ {0}
    BY <2>1, <2>7
  <2>9. T[Len(T)] = DASH
    BY <2>2, <2>3, <2>8 DEF SymbolAt
  <2> QED
    BY <2>3, <2>7, <2>9
<1>2. text \in Texts
  BY FileIsText
<1>3. pc = "dash" /\ file' = file /\ ret' \in {"NULL", "none"}
  BY DEF Dash, Return, Goto, Control
<1>4. \A L, E : Line(text, L, E) /\ OnLine(text, L, E, pc, ch, pos, ecode, field)
                 => /\ ret' = "entry" => pos' = After(text, E)
                    /\ ret' = "NULL" =>
                         \/ pos' = After(text, E)
                         \/ pos' = EndOf(text, After(text, E)) /\ Kept(text, E, ecode', field')
  BY <1>1, <1>2, <1>3
<1>5. InLine' /\ StaysInStep'
  BY <1>3, <1>4, LineDone
<1>6. \E L, E : Line(text, L, E) /\ OnLine(text, L, E, pc, ch, pos, ecode, field)
  BY <1>2, <1>3, LineIs DEF InLine, Place
<1> QED
  BY <1>1, <1>2, <1>5, <1>6

LEMMA CommandStays ==
  ASSUME Control, InLine, Control', Command \/ EnvCopy, pc' = "done"
  PROVE  InLine' /\ StaysInStep'
<1>1. ASSUME NEW T \in Texts, T = text, NEW L, NEW E, Line(T, L, E),
             OnLine(T, L, E, pc, ch, pos, ecode, field), Command
      PROVE  pos' = After(T, E)
  <2>1. pos \in L..E
    BY <1>1 DEF Command, OnLine, Making
  <2>2. Find(T, pos, LineEnd) = E
    BY <1>1, <2>1, LineFindEnd
  <2> QED
    BY <1>1, <2>2 DEF Command, ReadTo
<1>2. text \in Texts
  BY FileIsText
<1>3. pc \in {"command", "env_copy"} /\ file' = file /\ (EnvCopy => ret' = "crash")
  BY DEF Command, EnvCopy, Alloc, Goto, Fail, Return
<1>4. \A L, E : Line(text, L, E) /\ OnLine(text, L, E, pc, ch, pos, ecode, field)
                 => /\ ret' = "entry" => pos' = After(text, E)
                    /\ ret' = "NULL" =>
                         \/ pos' = After(text, E)
                         \/ pos' = EndOf(text, After(text, E)) /\ Kept(text, E, ecode', field')
  BY <1>1, <1>2, <1>3
<1> QED
  BY <1>3, <1>4, LineDone

(* Between lines. *)
LEMMA SkipStays ==
  ASSUME Control, InLine, Control', SkipLine \/ NoMoreLines
  PROVE  InLine' /\ StaysInStep'
<1>1. PICK T : T = text
  OBVIOUS
<1>2. T \in Texts /\ text' = T
  BY <1>1, FileIsText DEF text, SkipLine, NoMoreLines
<1>3. AtLine(T, pos)
  BY <1>1 DEF InLine, Place, SkipLine, NoMoreLines
<1>4. CASE SkipLine
  <2>1. pc' = "skip" /\ pos' = After(T, Find(T, Skip_Blanks(T, pos), LineEnd))
    BY <1>1, <1>4 DEF SkipLine, ReadTo, LineStart
  <2>2. AtLine(T, pos')
    BY <1>1, <1>2, <1>3, <1>4, <2>1, NextLine DEF SkipLine, LineStart
  <2>3. Place(T, pc', ch', pos', ecode', field')
    BY <2>1, <2>2 DEF Place
  <2>4. ret' = "none"
    BY <2>1 DEF Control
  <2> QED
    BY <1>2, <2>1, <2>3, <2>4 DEF InLine, Spanning, StaysInStep
<1>5. CASE NoMoreLines
  <2>1. UsefulLines(T) = {}
    BY <1>1, <1>2, <1>3, <1>5, NoLine DEF NoMoreLines, LineStart
  <2>2. pc' = "done" /\ ret' = "NULL"
    BY <1>5 DEF NoMoreLines, Return
  <2>3. Place(T, pc', ch', pos', ecode', field')
    BY <2>2 DEF Place
  <2> QED
    BY <1>2, <2>1, <2>2, <2>3 DEF InLine, Spanning, StaysInStep
<1> QED
  BY <1>4, <1>5

(* The first bound of a range: only RangeNumber goes on to the second. *)
LEMMA SpanBegins ==
  ASSUME Control, InLine, Next
  PROVE  Spanning'
<1>1. ASSUME pc' = "span" PROVE RangeNumber
  <2>1. SetVariable => pc' # "span"
    <3>1. SetVariable => pc' = Following(pc) \/ pc' = "eof"
      BY DEF SetVariable, env_set, Goto, Fail
    <3>2. SetVariable => Following(pc) # "span"
      BY FollowingIs DEF SetVariable
    <3> QED
      BY <3>1, <3>2
  <2> QED
    BY <1>1, <2>1 DEF Next, SkipLine, NoMoreLines, FirstChar, Dash, AtNickname, AtNumerics,
       FieldStart, RangeStar, RangeSpan, RangeStep, RangeElements, NextRange, ListEnd,
       EndOfTime, Username, PwDup, EnvCopy, Command, Eof, Alloc, Goto, Fail, Return, Refuse
<1>2. SUFFICES ASSUME pc' = "span", RangeNumber
               PROVE  /\ pos' - 2 \in DOMAIN text
                      /\ IsNumber(Fields[field].names, text[pos' - 2])
                      /\ num1' = NumberOf(Fields[field].low, Fields[field].names, text[pos' - 2])
  BY <1>1 DEF Spanning, RangeNumber, range, text
<1>3. PICK T : T = text
  OBVIOUS
<1>4. T \in Texts
  BY <1>3, FileIsText
<1>5. PICK L, E : L = EntryLine(T) /\ E = LineStop(T)
  OBVIOUS
<1>6. UsefulLines(T) # {} /\ OnLine(T, L, E, pc, ch, pos, ecode, field)
  BY <1>2, <1>3, <1>5 DEF RangeNumber, InLine, Place
<1>7. Line(T, L, E)
  BY <1>4, <1>5, <1>6, LineIs
<1>8. pos \in (L + 1)..(E + 1) /\ ch = SymbolAt(T, pos - 1)
  BY <1>2, <1>6 DEF RangeNumber, OnLine, Reading
<1>9. PICK f : f = Fields[field]
  OBVIOUS
<1>10. f.low \in Int /\ DOMAIN f.names \subseteq Nat
  BY <1>9, FieldsAre DEF Control
<1>11. PICK n : n = get_number(f.low, f.names, ch, pos, {",", "-", "blank", "newline"})
  OBVIOUS
<1>12. n.ok /\ num1' = n.num /\ pos' = n.pos
  BY <1>2, <1>9, <1>11 DEF RangeNumber, Goto, Refuse, Fail
<1>13. \/ /\ n.ok = TRUE /\ IsNumber(f.names, ch) /\ n.num = NumberOf(f.low, f.names, ch)
          /\ pos <= E /\ n.pos = pos + 1
       \/ n.ok = FALSE
  <2>1. PICK low, names, terms, c, p :
          /\ low = f.low /\ names = f.names /\ terms = {",", "-", "blank", "newline"}
          /\ c = ch /\ p = pos
    OBVIOUS
  <2>2. NumberCall(L, E, low, names, c, p, terms, n)
    BY <1>3, <1>4, <1>7, <1>8, <1>10, <1>11, <2>1 DEF NumberCall
  <2>3. \/ /\ n.ok = TRUE /\ n.num \in Int
           /\ IsNumber(names, c) /\ n.num = NumberOf(low, names, c)
           /\ p <= E /\ n.ch = SymbolAt(text, p) /\ n.ch # EOF /\ n.pos = p + 1
        \/ /\ n.ok = FALSE
           /\ n.pos \in L..E \/ (n.pos = E + 1 /\ E = Len(text) + 1)
    BY ONLY <2>2, NumberRead
  <2> QED
    BY <2>1, <2>3
<1>14. /\ Len(T) \in Nat /\ L \in Nat \ {0} /\ E \in Nat /\ E <= Len(T) + 1
  BY <1>4, <1>7 DEF Texts, Line
<1>15. pos - 1 \in DOMAIN T /\ pos' - 2 = pos - 1
  BY <1>4, <1>8, <1>12, <1>13, <1>14 DEF Texts
<1>16. ch = T[pos - 1]
  BY <1>8, <1>15 DEF SymbolAt
<1> QED
  BY <1>3, <1>9, <1>12, <1>13, <1>15, <1>16

LEMMA InLineNext ==
  ASSUME Control, InLine, StaysInStep, [Next]_vars
  PROVE  InLine' /\ StaysInStep'
<1>1. Control'
  BY ControlNext
<1>2. text \in Texts
  BY FileIsText
<1> DEFINE Time == \/ Dash \/ AtNickname \/ AtNumerics \/ FieldStart \/ NextRange \/ ListEnd
           Ranging == \/ RangeStar \/ RangeNumber \/ RangeSpan \/ RangeStep \/ RangeElements
           Rest == \/ EndOfTime \/ Username \/ PwDup \/ EnvCopy \/ SetVariable \/ Command
<1>3. ASSUME Time \/ Ranging \/ Rest, pc' # "done"
      PROVE  InLine' /\ StaysInStep'
  <2>1. pc \notin {"skip", "done"} /\ file' = file
    <3>1. CASE Time
      BY <3>1 DEF Dash, AtNickname, AtNumerics, FieldStart, NextRange, ListEnd
    <3>2. CASE Ranging
      BY <3>2 DEF RangeStar, RangeNumber, RangeSpan, RangeStep, RangeElements
    <3>3. CASE Rest
      BY <3>3, FollowingIs DEF EndOfTime, Username, PwDup, EnvCopy, SetVariable, Command
    <3> QED
      BY <1>3, <3>1, <3>2, <3>3
  <2>2. pc' # "skip"
    <3>1. CASE Time
      BY <1>3, <3>1 DEF Dash, AtNickname, AtNumerics, FieldStart, NextRange, ListEnd, Goto, Fail, Return
    <3>2. CASE Ranging
      BY <1>3, <3>2 DEF RangeStar, RangeNumber, RangeSpan, RangeStep, RangeElements, Goto, Fail, Refuse
    <3>3. CASE EndOfTime \/ Username \/ PwDup \/ EnvCopy \/ Command
      BY <1>3, <3>3 DEF EndOfTime, Username, PwDup, EnvCopy, Command, Alloc, Goto, Fail, Return
    <3>4. CASE SetVariable
      BY <1>3, <3>4, FollowingIs DEF SetVariable, env_set, Goto, Fail
    <3> QED
      BY <1>3, <3>1, <3>2, <3>3, <3>4
  <2>3. ASSUME NEW L, NEW E, Line(text, L, E), OnLine(text, L, E, pc, ch, pos, ecode, field)
        PROVE  OnLine(text, L, E, pc', ch', pos', ecode', field')
    <3>1. PICK T : T = text
      OBVIOUS
    <3>2. T \in Texts /\ Line(T, L, E) /\ OnLine(T, L, E, pc, ch, pos, ecode, field)
      BY <1>2, <2>3, <3>1
    <3>3. CASE Time
      BY <1>3, <3>1, <3>2, <3>3, TimeMoves
    <3>4. CASE Ranging
      BY <1>3, <3>1, <3>2, <3>4, RangeMoves
    <3>5. CASE Rest
      BY <1>3, <3>1, <3>2, <3>5, RestMoves
    <3> QED
      BY <1>3, <3>3, <3>4, <3>5
  <2>4. Spanning'
    <3>1. Next
      BY <1>3 DEF Next
    <3> QED
      BY <3>1, SpanBegins
  <2> HIDE DEF Time, Ranging, Rest
  <2> QED
    BY <1>1, <1>3, <2>1, <2>2, <2>3, <2>4, LineStep
<1>4. ASSUME Time \/ Ranging \/ Rest, pc' = "done"
      PROVE  InLine' /\ StaysInStep'
  <2>1. Dash \/ Command \/ EnvCopy
    <3>1. CASE Time
      BY <1>4, <3>1 DEF AtNickname, AtNumerics, FieldStart, NextRange, ListEnd, Goto, Fail
    <3>2. CASE Ranging
      BY <1>4, <3>2 DEF RangeStar, RangeNumber, RangeSpan, RangeStep, RangeElements, Goto, Fail, Refuse
    <3>3. CASE EndOfTime \/ Username \/ PwDup
      BY <1>4, <3>3 DEF EndOfTime, Username, PwDup, Alloc, Goto, Fail
    <3>4. CASE SetVariable
      BY <1>4, <3>4, FollowingIs DEF SetVariable, env_set, Goto, Fail
    <3> QED
      BY <1>4, <3>1, <3>2, <3>3, <3>4
  <2> QED
    BY <1>1, <1>4, <2>1, DashStays, CommandStays
<1>5. ASSUME UNCHANGED vars PROVE InLine' /\ StaysInStep'
  <2>1. /\ text' = text /\ pc' = pc /\ ch' = ch /\ pos' = pos /\ ecode' = ecode
        /\ ret' = ret /\ field' = field /\ num1' = num1
    BY <1>5 DEF vars, stream, range, text
  <2> QED
    BY <2>1 DEF InLine, Spanning, StaysInStep
<1> QED
  BY <1>1, <1>3, <1>4, <1>5, SkipStays, LineFirst, EofStays DEF Next

(***************************************************************************)
(* load_entry keeps to its line: an entry that is returned took exactly    *)
(* its line, and a refusal leaves the stream behind that line; the line    *)
(* behind it is taken along only where the time field that is refused ends *)
(* the line with a backwards range or a step of zero.  For files of any    *)
(* content.                                                                *)
(***************************************************************************)
THEOREM KeepsToItsLine == Spec => []StaysInStep
<1>1. Init => Control /\ InLine /\ StaysInStep
  BY ControlInit, InLineInit
<1>2. Control /\ InLine /\ StaysInStep /\ [Next]_vars => (Control /\ InLine /\ StaysInStep)'
  BY ControlNext, InLineNext
<1> QED
  BY <1>1, <1>2, PTL DEF Spec

-----------------------------------------------------------------------------
(***************************************************************************)
(* The blocks that are allocated at each stage.  From the environment on   *)
(* they are those that the label eof frees, the command apart.             *)
(***************************************************************************)
EnvNames == {env.names[i] : i \in DOMAIN env.names}

Setting == {"SHELL", "HOME", "PATH", "LOGNAME", "USER", "command"}

Holds ==
  /\ env \in [set : BOOLEAN, names : Seq(Blocks)]
  /\ pc = "skip" => heap = {} /\ env = NoEnv
  /\ pc \in Reading \cup {"user", "pw_dup"} => heap = {"entry"} /\ env = NoEnv
  /\ pc = "env_copy" => heap = {"entry", "passwd"} /\ env = NoEnv
  /\ pc \in Setting => env.set = TRUE /\ heap = {"entry", "passwd", "environ"} \cup EnvNames
  /\ pc = "eof" => heap \subseteq Owned

LEMMA EntryOwned == {"entry", "passwd", "cmd"} \subseteq Owned
BY DEF Owned

LEMMA OwnedIs == env.set = TRUE => Owned = {"entry", "passwd", "cmd", "environ"} \cup EnvNames
<1> SUFFICES ASSUME env.set = TRUE PROVE Owned = {"entry", "passwd", "cmd", "environ"} \cup EnvNames
  OBVIOUS
<1>1. Owned = {"entry", "passwd", "cmd"} \cup ({"environ"} \cup EnvNames)
  BY DEF Owned, EnvNames
<1> QED
  BY <1>1

LEMMA HoldsInit == Init => Holds /\ NoGarbage
<1> SUFFICES ASSUME Init PROVE Holds /\ NoGarbage
  OBVIOUS
<1>1. pc = "skip" /\ heap = {} /\ env = NoEnv /\ ret = "none"
  BY DEF Init
<1>2. <<>> \in Seq(Blocks)
  OBVIOUS
<1>3. NoEnv \in [set : BOOLEAN, names : Seq(Blocks)]
  BY <1>2 DEF NoEnv
<1> QED
  BY <1>1, <1>3 DEF Holds, NoGarbage, Reading, Setting

LEMMA HoldsNext ==
  ASSUME Control, InLine, Holds, NoGarbage, [Next]_vars
  PROVE  Holds' /\ NoGarbage'
<1>1. Control'
  BY ControlNext
<1>2. pc' # "done" => ret' = "none"
  BY <1>1 DEF Control
<1>3. pc' # "done" => NoGarbage'
  BY <1>2 DEF NoGarbage
(* Stages before the environment that leave heap and env alone. *)
<1>4. ASSUME pc \in Reading \cup {"user"}, UNCHANGED <<heap, env>>,
             pc' \in Reading \cup {"user", "pw_dup", "eof"}
      PROVE  Holds' /\ NoGarbage'
  <2>1. heap = {"entry"} /\ env = NoEnv /\ env \in [set : BOOLEAN, names : Seq(Blocks)]
    BY <1>4 DEF Holds
  <2>2. "entry" \in Owned'
    BY EntryOwned DEF Owned
  <2>3. Holds'
    BY <1>4, <2>1, <2>2 DEF Holds, Reading, Setting
  <2>4. pc' # "done"
    BY <1>4 DEF Reading
  <2> QED
    BY <1>3, <2>3, <2>4
<1>5. ASSUME SkipLine PROVE Holds' /\ NoGarbage'
  <2>1. pc' = "skip" /\ pc = "skip" /\ UNCHANGED <<heap, env>>
    BY <1>5 DEF SkipLine, made
  <2> QED
    BY <1>3, <2>1 DEF Holds, Reading, Setting
<1>6. ASSUME NoMoreLines PROVE Holds' /\ NoGarbage'
  <2>1. pc' = "done" /\ ret' = "NULL" /\ pc = "skip" /\ UNCHANGED <<heap, env>>
    BY <1>6 DEF NoMoreLines, made, Return
  <2> QED
    BY <2>1 DEF Holds, Reading, Setting, NoGarbage
<1>7. ASSUME FirstChar PROVE Holds' /\ NoGarbage'
  <2>1. /\ \/ pc' = "dash" /\ heap' = {"entry"}
           \/ pc' = "done" /\ ret' = "crash"
        /\ pc = "skip" /\ env' = env
    BY <1>7 DEF FirstChar, Goto, Return
  <2>2. Holds'
    BY <2>1 DEF Holds, Reading, Setting
  <2>3. pc' = "done" => NoGarbage'
    BY <2>1 DEF NoGarbage
  <2> QED
    BY <1>3, <2>2, <2>3
<1>8. ASSUME Dash PROVE Holds' /\ NoGarbage'
  <2>1. pc = "dash" /\ UNCHANGED <<heap, env, file>>
    BY <1>8 DEF Dash
  <2>2. CASE pc' = "done"
    <3>1. text[Len(text)] = DASH
      BY <1>1, <1>8, <2>2, DashStays
    <3>2. ret' \in {"NULL", "none"} /\ text' = text
      BY <1>8, <2>1 DEF Dash, Return, Goto, Control, text
    <3>3. heap' = {"entry"}
      BY <2>1 DEF Holds, Reading
    <3>4. Holds'
      BY <2>1, <2>2 DEF Holds, Reading, Setting
    <3> QED
      BY <3>1, <3>2, <3>3, <3>4 DEF NoGarbage
  <2>3. CASE pc' # "done"
    <3>1. pc' = "time"
      BY <1>8, <2>3 DEF Dash, Return, Goto
    <3> QED
      BY <1>4, <2>1, <3>1 DEF Reading
  <2> QED
    BY <2>2, <2>3
<1>9. ASSUME \/ AtNickname \/ AtNumerics \/ FieldStart \/ NextRange \/ ListEnd
             \/ EndOfTime \/ Username
      PROVE  Holds' /\ NoGarbage'
  <2>1. pc \in Reading \cup {"user"} /\ UNCHANGED <<heap, env>>
    BY <1>9 DEF AtNickname, AtNumerics, FieldStart, NextRange, ListEnd, EndOfTime, Username,
                Reading, made
  <2>2. pc' \in Reading \cup {"user", "pw_dup", "eof"}
    BY <1>9 DEF AtNickname, AtNumerics, FieldStart, NextRange, ListEnd, EndOfTime, Username,
                Reading, Goto, Fail
  <2> QED
    BY <1>4, <2>1, <2>2
<1>10. ASSUME \/ RangeStar \/ RangeNumber \/ RangeSpan \/ RangeStep \/ RangeElements
       PROVE  Holds' /\ NoGarbage'
  <2>1. pc \in Reading \cup {"user"} /\ UNCHANGED <<heap, env>>
    BY <1>10 DEF RangeStar, RangeNumber, RangeSpan, RangeStep, RangeElements, Reading, made
  <2>2. pc' \in Reading \cup {"user", "pw_dup", "eof"}
    BY <1>10 DEF RangeStar, RangeNumber, RangeSpan, RangeStep, RangeElements, Reading, Goto,
                 Fail, Refuse
  <2> QED
    BY <1>4, <2>1, <2>2
<1>11. ASSUME PwDup PROVE Holds' /\ NoGarbage'
  <2>1. heap = {"entry"} /\ env' = env /\ env = NoEnv
    BY <1>11 DEF PwDup, Holds
  <2>2. \/ heap' = {"entry", "passwd"} /\ pc' = "env_copy"
        \/ heap' = {"entry"} /\ pc' = "eof"
    BY <1>11, <2>1 DEF PwDup, Alloc, Goto, Fail
  <2>3. "entry" \in Owned'
    BY DEF Owned
  <2>4. Holds'
    BY <2>1, <2>2, <2>3 DEF Holds, Reading, Setting
  <2> QED
    BY <1>3, <2>2, <2>4
<1>12. ASSUME EnvCopy PROVE Holds' /\ NoGarbage'
  <2>1. heap = {"entry", "passwd"} /\ env = NoEnv
    BY <1>12 DEF EnvCopy, Holds
  <2>2. CASE pc' = "done"
    <3>1. ret' = "crash" /\ UNCHANGED <<heap, env>>
      BY <1>12, <2>2 DEF EnvCopy, Return, Alloc, Goto, Fail
    <3> QED
      BY <2>2, <3>1 DEF Holds, NoGarbage, Reading, Setting
  <2>3. CASE pc' # "done"
    <3>1. /\ env' = IF "environ" \in heap' THEN [env EXCEPT !.set = TRUE] ELSE env
          /\ Alloc("environ", "SHELL")
      BY <1>12, <2>3 DEF EnvCopy, Return
    <3>2. \/ heap' = {"entry", "passwd", "environ"} /\ pc' = "SHELL"
          \/ heap' = {"entry", "passwd"} /\ pc' = "eof"
      BY <2>1, <3>1 DEF Alloc, Goto, Fail
    <3>3. env'.names = <<>> /\ ("environ" \in heap' => env'.set = TRUE)
      BY <2>1, <3>1 DEF NoEnv
    <3>4. env' \in [set : BOOLEAN, names : Seq(Blocks)]
      BY <3>1 DEF Holds
    <3>5. EnvNames' = {}
      BY <3>3 DEF EnvNames
    <3>6. {"entry", "passwd"} \subseteq Owned'
      BY DEF Owned
    <3>7. pc' = "SHELL" => env'.set = TRUE
      BY <3>2, <3>3
    <3>8. Holds'
      BY <3>2, <3>4, <3>5, <3>6, <3>7 DEF Holds, Reading, Setting
    <3> QED
      BY <1>3, <2>3, <3>8
  <2> QED
    BY <2>2, <2>3
<1>13. ASSUME SetVariable PROVE Holds' /\ NoGarbage'
  <2>1. pc \in {"SHELL", "HOME", "PATH", "LOGNAME", "USER"} /\ Following(pc) \in Setting
    BY <1>13, FollowingIs DEF SetVariable, Setting
  <2>2. /\ env \in [set : BOOLEAN, names : Seq(Blocks)]
        /\ env.set = TRUE /\ heap = {"entry", "passwd", "environ"} \cup EnvNames
    BY <2>1 DEF Holds, Setting
  <2>3. CASE UNCHANGED <<heap, env>> /\ pc' \in Setting \cup {"eof"}
    <3>1. EnvNames' = EnvNames /\ Owned' = Owned
      BY <2>3 DEF EnvNames, Owned
    <3>2. heap \subseteq Owned
      BY <2>2, OwnedIs
    <3>3. Holds'
      BY <2>2, <2>3, <3>1, <3>2 DEF Holds, Reading, Setting
    <3> QED
      BY <1>3, <2>3, <3>3 DEF Setting
  <2>4. CASE /\ heap' = heap \cup {pc} /\ pc' \in Setting
             /\ env' = [env EXCEPT !.names = Append(env.names, pc)]
    <3>1. pc \in Blocks
      BY <2>1 DEF Blocks
    <3>2. PICK s : s = env.names
      OBVIOUS
    <3>3. s \in Seq(Blocks)
      BY <2>2, <3>2
    <3>4. env'.names = Append(s, pc) /\ env'.set = env.set
      BY <2>2, <2>4, <3>2
    <3>5. env' \in [set : BOOLEAN, names : Seq(Blocks)]
      BY <2>2, <2>4, <3>1
    <3>6. EnvNames' = EnvNames \cup {pc}
      <4>1. /\ Len(s) \in Nat /\ DOMAIN s = 1..Len(s)
            /\ DOMAIN Append(s, pc) = 1..(Len(s) + 1)
            /\ \A i \in 1..Len(s) : Append(s, pc)[i] = s[i]
            /\ Append(s, pc)[Len(s) + 1] = pc
        BY <3>1, <3>3
      <4>2. ASSUME NEW x PROVE x \in EnvNames' <=> x \in EnvNames \cup {pc}
        <5>1. x \in EnvNames' <=> \E i \in 1..(Len(s) + 1) : x = Append(s, pc)[i]
          BY <3>4, <4>1 DEF EnvNames
        <5>2. x \in EnvNames <=> \E i \in 1..Len(s) : x = s[i]
          BY <3>2, <4>1 DEF EnvNames
        <5> QED
          BY <4>1, <5>1, <5>2
      <4> QED
        BY <4>2
    <3>7. heap' = {"entry", "passwd", "environ"} \cup EnvNames'
      BY <2>2, <2>4, <3>6
    <3>8. pc' \notin Reading \cup {"skip", "user", "pw_dup", "env_copy", "eof", "done"}
      BY <2>4 DEF Reading, Setting
    <3>9. Holds'
      BY <2>2, <2>4, <3>4, <3>5, <3>7, <3>8 DEF Holds
    <3> QED
      BY <1>3, <3>8, <3>9
  <2> QED
    BY <1>13, <2>1, <2>3, <2>4 DEF SetVariable, env_set, Goto, Fail
<1>14. ASSUME Command PROVE Holds' /\ NoGarbage'
  <2>1. pc = "command" /\ env' = env
    BY <1>14 DEF Command
  <2>2. /\ env \in [set : BOOLEAN, names : Seq(Blocks)]
        /\ env.set = TRUE /\ heap = {"entry", "passwd", "environ"} \cup EnvNames
    BY <2>1 DEF Holds, Setting
  <2>3. Owned' = Owned /\ Owned = {"entry", "passwd", "cmd", "environ"} \cup EnvNames
    BY <2>1, <2>2, OwnedIs DEF Owned
  <2>4. \/ pc' = "eof" /\ heap' = heap
        \/ pc' = "done" /\ ret' = "entry" /\ heap' = heap \cup {"cmd"}
    BY <1>14 DEF Command, Fail, Return
  <2>5. Holds'
    BY <2>1, <2>2, <2>3, <2>4 DEF Holds, Reading, Setting
  <2>6. pc' = "done" => NoGarbage'
    <3>1. ASSUME pc' = "done" PROVE ret' = "entry" /\ heap' = Owned'
      BY <2>2, <2>3, <2>4, <3>1
    <3> QED
      BY <3>1 DEF NoGarbage
  <2> QED
    BY <1>3, <2>5, <2>6
<1>15. ASSUME Eof PROVE Holds' /\ NoGarbage'
  <2>1. pc' = "done" /\ ret' = "NULL" /\ heap' = heap \ Owned /\ heap \subseteq Owned /\ env' = env
    BY <1>15 DEF Eof, Return, Holds
  <2>2. heap' = {}
    BY <2>1
  <2> QED
    BY <2>1, <2>2 DEF Holds, NoGarbage, Reading, Setting
<1>16. ASSUME UNCHANGED vars PROVE Holds' /\ NoGarbage'
  <2>1. UNCHANGED <<pc, heap, env, ret>> /\ text' = text
    BY <1>16 DEF vars, made, text
  <2>2. EnvNames' = EnvNames /\ Owned' = Owned
    BY <2>1 DEF EnvNames, Owned
  <2> QED
    BY <2>1, <2>2 DEF Holds, NoGarbage
<1> QED
  BY <1>5, <1>6, <1>7, <1>8, <1>9, <1>10, <1>11, <1>12, <1>13, <1>14, <1>15, <1>16 DEF Next

(***************************************************************************)
(* load_entry leaves no garbage, whichever allocation fails: a refusal has *)
(* freed everything (a "-" that ends the file apart), and a returned entry *)
(* owns all there is.                                                      *)
(***************************************************************************)
THEOREM LeavesNoGarbage == Spec => []NoGarbage
<1>1. Init => Control /\ InLine /\ StaysInStep /\ Holds /\ NoGarbage
  BY ControlInit, InLineInit, HoldsInit
<1>2. Control /\ InLine /\ StaysInStep /\ Holds /\ NoGarbage /\ [Next]_vars
        => (Control /\ InLine /\ StaysInStep /\ Holds /\ NoGarbage)'
  BY ControlNext, InLineNext, HoldsNext
<1> QED
  BY <1>1, <1>2, PTL DEF Spec

-----------------------------------------------------------------------------
(***************************************************************************)
(* The bits of the entry.  The arrays follow one another, each with room   *)
(* for its field, and the flags come behind them all, so that the one bit  *)
(* more that bit_nset sets stays before the flags.                         *)
(***************************************************************************)
LEMMA SizeIs ==
  ASSUME NEW n \in Nat \ {0}
  PROVE  bitstr_size(n) \in Nat \ {0} /\ n <= 8 * bitstr_size(n)
BY DEF bitstr_size

Below(name, count) == name \in Nat /\ count \in Nat \ {0} /\ 8 * name + count < 8 * flagsWord

LEMMA Layout ==
  /\ flagsWord \in Nat
  /\ Below(minute, MINUTE_COUNT) /\ Below(hour, HOUR_COUNT) /\ Below(dom, DOM_COUNT)
  /\ Below(month, MONTH_COUNT) /\ Below(dow, DOW_COUNT)
<1>1. /\ MINUTE_COUNT \in Nat \ {0} /\ HOUR_COUNT \in Nat \ {0} /\ DOM_COUNT \in Nat \ {0}
      /\ MONTH_COUNT \in Nat \ {0} /\ DOW_COUNT \in Nat \ {0}
  BY FieldBounds DEF MINUTE_COUNT, HOUR_COUNT, DOM_COUNT, MONTH_COUNT, DOW_COUNT,
                     FIRST_MINUTE, FIRST_HOUR, FIRST_DOM, FIRST_MONTH, FIRST_DOW
<1>2. /\ minute \in Nat /\ hour \in Nat /\ 8 * minute + MINUTE_COUNT <= 8 * hour
  BY <1>1, SizeIs DEF minute, hour
<1>3. dom \in Nat /\ hour < dom /\ 8 * hour + HOUR_COUNT <= 8 * dom
  BY <1>1, <1>2, SizeIs DEF dom
<1>4. month \in Nat /\ dom < month /\ 8 * dom + DOM_COUNT <= 8 * month
  BY <1>1, <1>3, SizeIs DEF month
<1>5. dow \in Nat /\ month < dow /\ 8 * month + MONTH_COUNT <= 8 * dow
  BY <1>1, <1>4, SizeIs DEF dow
<1>6. padding \in Nat /\ dow < padding
  BY <1>1, <1>5, SizeIs DEF padding
<1>7. flagsWord \in Nat /\ padding <= flagsWord
  BY <1>6 DEF flagsWord
<1>8. 8 * dow + DOW_COUNT < 8 * flagsWord
  <2>1. /\ bit_byte(DOW_COUNT) \in Nat /\ bit_in(DOW_COUNT) \in 0..7
        /\ DOW_COUNT = 8 * bit_byte(DOW_COUNT) + bit_in(DOW_COUNT)
    BY <1>1, BytePlace
  <2> QED
    BY <1>5, <1>7, <2>1, SpareBit
<1> QED
  BY <1>1, <1>2, <1>3, <1>4, <1>5, <1>6, <1>7, <1>8 DEF Below

EntryBits == 0..(8 * flagsWord - 1)

LEMMA AddressIs ==
  ASSUME NEW name \in Nat, NEW bit \in Nat
  PROVE  Address(name, bit) = 8 * name + bit
<1>1. PICK k, b : k = bit_byte(bit) /\ b = bit_in(bit)
  OBVIOUS
<1>2. k \in Nat /\ b \in 0..7 /\ bit = 8 * k + b
  BY <1>1, BytePlace
<1>3. Address(name, bit) = 8 * (name + k) + b
  BY <1>1 DEF Address
<1> QED
  BY <1>2, <1>3

LEMMA SetStaysBelow ==
  ASSUME NEW m, m \subseteq EntryBits, NEW name, NEW count, Below(name, count),
         NEW bit \in 0..count
  PROVE  Address(name, bit) \in EntryBits /\ bit_set(m, name, bit) \subseteq EntryBits
<1>1. Address(name, bit) \in EntryBits
  <2>1. name \in Nat /\ count \in Nat /\ 8 * name + count < 8 * flagsWord /\ flagsWord \in Nat
    BY Layout DEF Below
  <2>2. bit \in Nat /\ bit <= count
    BY <2>1
  <2>3. Address(name, bit) = 8 * name + bit
    BY <2>1, <2>2, AddressIs
  <2>4. 8 * name + bit \in 0..(8 * flagsWord - 1)
    BY <2>1, <2>2
  <2> QED
    BY <2>3, <2>4 DEF EntryBits
<1> QED
  BY <1>1 DEF bit_set

LEMMA NsetStaysBelow ==
  ASSUME NEW m, m \subseteq EntryBits, NEW name, NEW count, Below(name, count)
  PROVE  All(m, name, count) \subseteq EntryBits
<1>1. name \in Nat /\ count \in Nat /\ 8 * name + count < 8 * flagsWord /\ flagsWord \in Nat
  BY Layout DEF Below
<1>2. NsetBits(0, count) = 0..count
  BY <1>1, NsetExact
<1>3. \A i \in 0..count : 8 * name + i \in EntryBits
  BY <1>1 DEF EntryBits
<1> QED
  BY <1>2, <1>3 DEF All, bit_nset

LEMMA NicknameStaysBelow ==
  ASSUME NEW w \in NicknameWords
  PROVE  Nickname(w).mem \subseteq EntryBits /\ Nickname(w).flags \subseteq Flags
<1>1. /\ Below(minute, MINUTE_COUNT) /\ Below(hour, HOUR_COUNT) /\ Below(dom, DOM_COUNT)
      /\ Below(month, MONTH_COUNT) /\ Below(dow, DOW_COUNT)
  BY Layout
<1>2. ASSUME NEW name, NEW count, Below(name, count), NEW m, m \subseteq EntryBits
      PROVE  bit_set(m, name, 0) \subseteq EntryBits
  <2>1. 0 \in 0..count
    BY <1>2 DEF Below
  <2> QED
    BY <1>2, <2>1, SetStaysBelow
<1>3. ASSUME NEW m, m \subseteq EntryBits
      PROVE  /\ bit_set(m, minute, 0) \subseteq EntryBits /\ bit_set(m, hour, 0) \subseteq EntryBits
             /\ bit_set(m, dom, 0) \subseteq EntryBits /\ bit_set(m, month, 0) \subseteq EntryBits
             /\ bit_set(m, dow, 0) \subseteq EntryBits
  BY <1>1, <1>2, <1>3
<1>4. ASSUME NEW m, m \subseteq EntryBits
      PROVE  /\ AnyDow(m) \subseteq EntryBits /\ AnyMonth(m) \subseteq EntryBits
             /\ AnyDom(m) \subseteq EntryBits /\ All(m, hour, HOUR_COUNT) \subseteq EntryBits
  BY <1>1, <1>4, NsetStaysBelow DEF AnyDow, AnyMonth, AnyDom
<1>5. {} \subseteq EntryBits
  OBVIOUS
<1>6. Midnight \subseteq EntryBits
  BY <1>3, <1>5 DEF Midnight
<1>7. CASE w = "reboot"
  BY <1>5, <1>7 DEF Nickname, Flags
<1>8. CASE w \in {"yearly", "annually"}
  <2>1. AnyDow(bit_set(bit_set(Midnight, dom, 0), month, 0)) \subseteq EntryBits
    BY <1>3, <1>4, <1>6
  <2> QED
    BY <1>8, <2>1 DEF Nickname, Flags
<1>9. CASE w = "monthly"
  <2>1. AnyDow(AnyMonth(bit_set(Midnight, dom, 0))) \subseteq EntryBits
    BY <1>3, <1>4, <1>6
  <2> QED
    BY <1>9, <2>1 DEF Nickname, Flags
<1>10. CASE w = "weekly"
  <2>1. bit_set(AnyMonth(AnyDom(Midnight)), dow, 0) \subseteq EntryBits
    BY <1>3, <1>4, <1>6
  <2> QED
    BY <1>10, <2>1 DEF Nickname, Flags
<1>11. CASE w \in {"daily", "midnight"}
  <2>1. AnyDow(AnyMonth(AnyDom(Midnight))) \subseteq EntryBits
    BY <1>4, <1>6
  <2> QED
    BY <1>11, <2>1 DEF Nickname, Flags
<1>12. CASE w = "hourly"
  <2>1. AnyDow(AnyMonth(AnyDom(All(bit_set({}, minute, 0), hour, HOUR_COUNT)))) \subseteq EntryBits
    BY <1>3, <1>4, <1>5
  <2> QED
    BY <1>12, <2>1 DEF Nickname, Flags
<1> QED
  BY <1>7, <1>8, <1>9, <1>10, <1>11, <1>12 DEF NicknameWords

(* Numbers of a field are bits of its array. *)
LEMMA FieldStaysBelow ==
  ASSUME NEW i \in 1..5, NEW S, S \subseteq Fields[i].low..Fields[i].high,
         NEW m, m \subseteq EntryBits
  PROVE  SetBits(m, Fields[i], S) \subseteq EntryBits
<1>1. PICK f : f = Fields[i]
  OBVIOUS
<1>2. \E count : Below(f.name, count) /\ f.high - f.low + 1 = count
  <2>1. CASE i = 1
    BY <1>1, <2>1, Layout DEF Fields, FieldSpec, MINUTE_COUNT
  <2>2. CASE i = 2
    BY <1>1, <2>2, Layout DEF Fields, FieldSpec, HOUR_COUNT
  <2>3. CASE i = 3
    BY <1>1, <2>3, Layout DEF Fields, FieldSpec, DOM_COUNT
  <2>4. CASE i = 4
    BY <1>1, <2>4, Layout DEF Fields, FieldSpec, MONTH_COUNT
  <2>5. CASE i = 5
    BY <1>1, <2>5, Layout DEF Fields, FieldSpec, DOW_COUNT
  <2> QED
    BY <2>1, <2>2, <2>3, <2>4, <2>5
<1>3. PICK count : Below(f.name, count) /\ f.high - f.low + 1 = count
  BY <1>2
<1>4. f.low \in Nat /\ f.high \in Nat
  BY <1>1, FieldsAre
<1>5. ASSUME NEW k \in S PROVE Address(f.name, k - f.low) \in EntryBits
  <2>1. k - f.low \in 0..count
    BY <1>1, <1>3, <1>4
  <2> QED
    BY <1>3, <2>1, SetStaysBelow
<1> QED
  BY <1>1, <1>5 DEF SetBits

LEMMA SundaysStayBelow ==
  ASSUME NEW m, m \subseteq EntryBits
  PROVE  Sundays(m) \subseteq EntryBits
<1>1. dow \in Nat /\ flagsWord \in Nat /\ dow < flagsWord
  BY Layout DEF Below
<1>2. Address(dow, 0) = 8 * dow + 0 /\ Address(dow, 7) = 8 * dow + 7
  BY <1>1, AddressIs
<1>3. 8 * dow + 0 \in 0..(8 * flagsWord - 1) /\ 8 * dow + 7 \in 0..(8 * flagsWord - 1)
  BY <1>1
<1>4. Address(dow, 0) \in EntryBits /\ Address(dow, 7) \in EntryBits
  BY <1>2, <1>3 DEF EntryBits
<1> QED
  BY <1>4 DEF Sundays, bit_set

-----------------------------------------------------------------------------
(***************************************************************************)
(* The rest of the type invariant.                                         *)
(***************************************************************************)
StreamOK == pos \in 1..(Len(text) + 2) /\ ch \in Symbols \cup {EOF}

LEMMA ReadInside ==
  ASSUME NEW T \in Texts, NEW q \in Nat \ {0}
  PROVE  After(T, q) \in 1..(Len(T) + 2) /\ SymbolAt(T, q) \in Symbols \cup {EOF}
<1>1. Len(T) \in Nat
  BY DEF Texts
<1>2. After(T, q) \in 1..(Len(T) + 2)
  BY <1>1 DEF After
<1>3. SymbolAt(T, q) \in Symbols \cup {EOF}
  BY <1>1, SymbolAtIs
<1> QED
  BY <1>2, <1>3

LEMMA FindPositive ==
  ASSUME NEW T \in Texts, NEW p \in Nat \ {0}, NEW K
  PROVE  Find(T, p, K) \in Nat \ {0}
BY FindStops DEF Stop

(* Inside a line the invariant InLine bounds the stream. *)
Bounded ==
  /\ pos \in 1..(Len(text) + 2)
  /\ pc \in Reading => ch \in Symbols \cup {EOF}

LEMMA InLineBounds == Control /\ InLine /\ pc # "done" => Bounded
<1> SUFFICES ASSUME Control, InLine, pc # "done" PROVE Bounded
  OBVIOUS
<1> USE DEF Bounded
<1>1. PICK T : T = text
  OBVIOUS
<1>2. T \in Texts /\ Len(T) \in Nat
  BY <1>1, FileIsText DEF Texts
<1>3. CASE pc = "skip"
  <2>1. AtLine(T, pos)
    BY <1>1, <1>3 DEF InLine, Place
  <2>2. pos \in Nat \ {0} /\ pos <= Len(T) + 2
    BY <1>2, <2>1, AtLineIs
  <2> QED
    BY <1>1, <1>2, <1>3, <2>2 DEF Reading
<1>4. CASE pc # "skip"
  <2>1. PICK L, E : L = EntryLine(T) /\ E = LineStop(T)
    OBVIOUS
  <2>2. UsefulLines(T) # {} /\ OnLine(T, L, E, pc, ch, pos, ecode, field)
    BY <1>1, <1>4, <2>1 DEF InLine, Place
  <2>3. Line(T, L, E)
    BY <1>2, <2>1, <2>2, LineIs
  <2>4. L \in Nat \ {0} /\ E \in Nat /\ L < E /\ E <= Len(T) + 1
    BY <2>3 DEF Line
  <2>5. pc \in Reading \cup Making \cup {"user", "eof"}
    BY <1>4 DEF Control, Stages, Reading, Making
  <2>6. pos \in (L + 1)..(E + 1) \/ pos \in L..(E - 1) \/ pos \in L..E \/ pos \in L..(E + 1)
    BY <2>2, <2>5 DEF OnLine
  <2>7. pos \in 1..(Len(T) + 2)
    BY <1>2, <2>4, <2>6
  <2>8. ASSUME pc \in Reading PROVE ch \in Symbols \cup {EOF}
    <3>1. pos \in (L + 1)..(E + 1) /\ ch = SymbolAt(T, pos - 1)
      BY <2>2, <2>8 DEF OnLine
    <3>2. pos - 1 \in Nat \ {0}
      BY <2>4, <3>1
    <3> QED
      BY <1>2, <3>1, <3>2, ReadInside
  <2> QED
    BY <1>1, <2>7, <2>8
<1> QED
  BY <1>3, <1>4

LEMMA StreamNext ==
  ASSUME Control, InLine, StaysInStep, StreamOK, [Next]_vars
  PROVE  StreamOK'
<1>1. Control' /\ InLine'
  BY ControlNext, InLineNext
<1>2. text \in Texts /\ text' = text /\ pos \in Nat \ {0} /\ Len(text) \in Nat
  <2>1. file' = file
    <3>1. ASSUME Next PROVE file' = file
      <4>1. CASE SkipLine \/ NoMoreLines \/ FirstChar \/ Dash \/ AtNickname \/ AtNumerics \/ FieldStart
        BY <4>1 DEF SkipLine, NoMoreLines, FirstChar, Dash, AtNickname, AtNumerics, FieldStart
      <4>2. CASE \/ RangeStar \/ RangeNumber \/ RangeSpan \/ RangeStep \/ RangeElements \/ NextRange
                 \/ ListEnd
        BY <4>2 DEF RangeStar, RangeNumber, RangeSpan, RangeStep, RangeElements, NextRange, ListEnd
      <4>3. CASE EndOfTime \/ Username \/ PwDup \/ EnvCopy \/ SetVariable \/ Command \/ Eof
        BY <4>3 DEF EndOfTime, Username, PwDup, EnvCopy, SetVariable, Command, Eof
      <4> QED
        BY <3>1, <4>1, <4>2, <4>3 DEF Next
    <3> QED
      BY <3>1 DEF vars
  <2>2. text \in Texts
    BY FileIsText
  <2>3. Len(text) \in Nat
    BY <2>2 DEF Texts
  <2>4. pos \in Nat \ {0}
    BY <2>3 DEF StreamOK
  <2> QED
    BY <2>1, <2>2, <2>3, <2>4 DEF text
<1>3. ASSUME NEW q \in Nat \ {0}, ReadTo(q) PROVE StreamOK'
  <2>1. ch' = SymbolAt(text, q) /\ pos' = After(text, q)
    BY <1>3 DEF ReadTo
  <2>2. PICK T : T = text
    OBVIOUS
  <2>3. After(T, q) \in 1..(Len(T) + 2) /\ SymbolAt(T, q) \in Symbols \cup {EOF}
    BY <1>2, <2>2, ReadInside
  <2> QED
    BY <1>2, <2>1, <2>2, <2>3 DEF StreamOK
<1>4. ASSUME pc' # "done", ch' \in Symbols \cup {EOF} \/ pc' \in Reading PROVE StreamOK'
  <2>1. (Control /\ InLine /\ pc # "done" => Bounded)'
    BY InLineBounds, PTL
  <2> QED
    BY <1>1, <1>4, <2>1 DEF StreamOK, Bounded
<1>5. ASSUME UNCHANGED stream PROVE StreamOK'
  BY <1>2, <1>5 DEF StreamOK, stream
<1>6. LineStart \in Nat \ {0} /\ (\A K : Find(text, pos, K) \in Nat \ {0})
      /\ Find(text, LineStart, LineEnd) \in Nat \ {0}
  BY <1>2, FindPositive DEF LineStart, Skip_Blanks
<1>7. ASSUME SkipLine \/ NoMoreLines \/ FirstChar PROVE StreamOK'
  BY <1>3, <1>6, <1>7 DEF SkipLine, NoMoreLines, FirstChar
<1>8. ASSUME Dash PROVE StreamOK'
  <2>1. ReadTo(pos) \/ UNCHANGED stream
    BY <1>8 DEF Dash
  <2> QED
    BY <1>2, <1>3, <1>5, <2>1
<1>9. ASSUME AtNickname PROVE StreamOK'
  <2>1. PICK q : q = Find(text, pos, WordEnd)
    OBVIOUS
  <2>2. q \in Nat \ {0} /\ Skip_Blanks(text, q) \in Nat \ {0}
    BY <1>2, <1>6, <2>1, FindPositive DEF Skip_Blanks
  <2>3. ReadTo(Skip_Blanks(text, q)) \/ ReadTo(q)
    BY <1>9, <2>1 DEF AtNickname
  <2> QED
    BY <1>3, <2>2, <2>3
<1>10. ASSUME AtNumerics \/ FieldStart \/ PwDup \/ EnvCopy \/ SetVariable PROVE StreamOK'
  BY <1>5, <1>10 DEF AtNumerics, FieldStart, PwDup, EnvCopy, SetVariable
<1>11. ASSUME RangeStar \/ NextRange PROVE StreamOK'
  BY <1>2, <1>3, <1>11 DEF RangeStar, NextRange
<1>12. ASSUME RangeNumber \/ RangeSpan \/ RangeStep \/ RangeElements PROVE StreamOK'
  <2>1. pc' # "done" /\ (ch' = EOF \/ pc' \in Reading)
    BY <1>12 DEF RangeNumber, RangeSpan, RangeStep, RangeElements, Refuse, Fail, Goto, Reading
  <2> QED
    BY <1>4, <2>1
<1>13. ASSUME ListEnd PROVE StreamOK'
  <2>1. PICK q : q = Skip_Blanks(text, Skip_Nonblanks(text, pos - 1))
    OBVIOUS
  <2>2. ReadTo(q) /\ pc' # "done"
    BY <1>13, <2>1 DEF ListEnd, Fail, Goto
  <2>3. ch' = EOF \/ pc' \in Reading
    BY <1>13 DEF ListEnd, Fail, Goto, Reading
  <2> QED
    BY <1>4, <2>2, <2>3
<1>14. ASSUME EndOfTime PROVE StreamOK'
  <2>1. ch' = ch /\ pc' # "done"
    BY <1>14 DEF EndOfTime, Fail, Goto
  <2> QED
    BY <1>4, <2>1 DEF StreamOK
<1>15. ASSUME Username \/ Command PROVE StreamOK'
  BY <1>3, <1>6, <1>15 DEF Username, Command
<1>16. ASSUME Eof PROVE StreamOK'
  <2>1. UNCHANGED stream \/ ReadTo(Find(text, pos, LineEnd))
    BY <1>16 DEF Eof
  <2> QED
    BY <1>3, <1>5, <1>6, <2>1
<1>17. ASSUME UNCHANGED vars PROVE StreamOK'
  BY <1>5, <1>17 DEF vars
<1> QED
  BY <1>7, <1>8, <1>9, <1>10, <1>11, <1>12, <1>13, <1>14, <1>15, <1>16, <1>17 DEF Next

LEMMA NumberInt ==
  ASSUME NEW low \in Int, NEW names, DOMAIN names \subseteq Nat,
         NEW c \in Symbols \cup {EOF}, NEW p, NEW terms,
         NEW n, n = get_number(low, names, c, p, terms)
  PROVE  n.ok => n.num \in Int
<1> DEFINE digits == c.kind = "number"
           known == c.kind = "word" /\ \E i \in DOMAIN names : names[i] = c.text
           value == NumberOf(low, names, c)
<1>5. value = IF digits THEN atoi(c.val) ELSE NameIndex(names, c.text) - 1 + low
  BY DEF NumberOf
<1>1. digits => atoi(c.val) \in Int
  <2>1. EOF.kind = "EOF"
    BY DEF EOF, Char, Symbol
  <2>2. digits => c \in Symbols
    BY <2>1
  <2> QED
    BY <2>2, atoiInt DEF Symbols
<1>2. known => NameIndex(names, c.text) - 1 + low \in Int
  <2>1. known => NameIndex(names, c.text) \in Nat
    BY NameIndexInt
  <2> HIDE DEF known
  <2> QED
    BY <2>1
<1>3. CASE (digits \/ known) /\ SymbolAt(text, p).kind \in terms
  <2>1. n.num = value
    BY <1>3 DEF get_number
  <2> HIDE DEF digits, known, value
  <2>2. digits => value \in Int
    BY <1>1, <1>5
  <2>3. ~digits => value = NameIndex(names, c.text) - 1 + low
    BY <1>5
  <2> QED
    BY <1>2, <1>3, <2>1, <2>2, <2>3
<1>4. CASE ~ ((digits \/ known) /\ SymbolAt(text, p).kind \in terms)
  <2>1. n = NoNumber(SymbolAt(text, p), After(text, p)) \/ n = NoNumber(c, p)
    BY <1>4 DEF get_number
  <2> QED
    BY <2>1 DEF NoNumber
<1> QED
  BY <1>3, <1>4

Data ==
  /\ num1 \in Int /\ num2 \in Int /\ num3 \in Int
  /\ mem \subseteq EntryBits /\ flags \subseteq Flags
  /\ user \in Users \cup {NoUser} /\ cmd \in Seq(Symbols) /\ heap \subseteq Blocks
  /\ lookup \in {"none", "answered", "failed"}

LEMMA DataInit == Init => Data /\ StreamOK
<1> SUFFICES ASSUME Init PROVE Data /\ StreamOK
  OBVIOUS
<1>1. /\ num1 = 0 /\ num2 = 0 /\ num3 = 0 /\ mem = {} /\ flags = {} /\ user = NoUser /\ cmd = <<>>
      /\ heap = {} /\ pos = 1 /\ ch = EOF /\ lookup = "none"
  BY DEF Init
<1>2. Len(text) \in Nat
  BY ControlInit, FileIsText DEF Texts
<1>3. <<>> \in Seq(Symbols)
  OBVIOUS
<1>4. Data
  BY <1>1, <1>3 DEF Data
<1>5. StreamOK
  BY <1>1, <1>2 DEF StreamOK
<1> QED
  BY <1>4, <1>5

LEMMA DataNext ==
  ASSUME Control, InLine, StreamOK, Data, [Next]_vars
  PROVE  Data'
<1> USE DEF Data
<1>1. text \in Texts /\ pos \in Nat \ {0} /\ Len(text) \in Nat /\ ch \in Symbols \cup {EOF}
  <2>1. text \in Texts
    BY FileIsText
  <2>2. Len(text) \in Nat
    BY <2>1 DEF Texts
  <2> QED
    BY <2>1, <2>2 DEF StreamOK
<1>2. PICK f : f = Fields[field]
  OBVIOUS
<1>3. f.low \in Int /\ f.high \in Int /\ DOMAIN f.names \subseteq Nat /\ f.star \in Flags /\ field \in 1..5
  BY <1>2, FieldsAre DEF Control
<1>4. SymbolAt(text, pos) \in Symbols \cup {EOF}
  BY <1>1, ReadInside
<1>5. ASSUME SkipLine \/ NoMoreLines \/ AtNumerics \/ NextRange \/ ListEnd PROVE Data'
  BY <1>5 DEF SkipLine, NoMoreLines, AtNumerics, NextRange, ListEnd, range, made
<1>6. ASSUME FirstChar PROVE Data'
  BY <1>6 DEF FirstChar, range, Blocks
<1>7. ASSUME Dash PROVE Data'
  BY <1>7 DEF Dash, range, Flags
<1>8. ASSUME AtNickname PROVE Data'
  <2>1. \/ \E w \in NicknameWords : mem' = Nickname(w).mem /\ flags' = flags \cup Nickname(w).flags
        \/ UNCHANGED <<mem, flags>>
    BY <1>8 DEF AtNickname
  <2>2. mem' \subseteq EntryBits /\ flags' \subseteq Flags
    BY <2>1, NicknameStaysBelow
  <2>3. UNCHANGED <<num1, num2, num3, user, lookup, cmd, heap>>
    BY <1>8 DEF AtNickname, range
  <2> QED
    BY <2>2, <2>3
<1>9. ASSUME FieldStart PROVE Data'
  <2>1. UNCHANGED <<num1, num2, num3, user, lookup, cmd, heap>>
    BY <1>9 DEF FieldStart, range
  <2>2. mem' \subseteq mem
    BY <1>9 DEF FieldStart, bit_nclear
  <2>3. flags' \subseteq Flags
    BY <1>2, <1>3, <1>9 DEF FieldStart
  <2> QED
    BY <2>1, <2>2, <2>3
<1>10. ASSUME RangeStar PROVE Data'
  BY <1>2, <1>3, <1>10 DEF RangeStar, made
<1>11. ASSUME RangeNumber PROVE Data'
  <2>1. PICK n : n = get_number(f.low, f.names, ch, pos, {",", "-", "blank", "newline"})
    OBVIOUS
  <2>2. n.ok => n.num \in Int
    BY <1>1, <1>3, <2>1, NumberInt
  <2>3. UNCHANGED <<num2, num3, flags, user, lookup, cmd, heap>>
    BY <1>11 DEF RangeNumber, made
  <2>4. num1' = num1 \/ (n.ok /\ num1' = n.num)
    BY <1>2, <1>11, <2>1 DEF RangeNumber
  <2>5. mem' = mem \/ (n.num \in f.low..f.high /\ mem' = SetBits(mem, f, {n.num}))
    BY <1>2, <1>11, <2>1 DEF RangeNumber
  <2>6. mem' \subseteq EntryBits
    <3>1. CASE n.num \in f.low..f.high /\ mem' = SetBits(mem, f, {n.num})
      <4>1. PICK S : S = {n.num}
        OBVIOUS
      <4>2. S \subseteq Fields[field].low..Fields[field].high /\ mem' = SetBits(mem, Fields[field], S)
        BY <1>2, <3>1, <4>1
      <4> QED
        BY <1>3, <4>2, FieldStaysBelow
    <3> QED
      BY <2>5, <3>1
  <2> QED
    BY <2>2, <2>3, <2>4, <2>6
<1>12. ASSUME RangeSpan PROVE Data'
  <2>1. PICK n : n = get_number(f.low, f.names, SymbolAt(text, pos), After(text, pos),
                                {"/", ",", "blank", "newline"})
    OBVIOUS
  <2>2. n.ok => n.num \in Int
    BY <1>3, <1>4, <2>1, NumberInt
  <2>3. UNCHANGED <<num1, num3, mem, flags, user, lookup, cmd, heap>>
    BY <1>12 DEF RangeSpan, made
  <2>4. num2' = num2 \/ (n.ok /\ num2' = n.num)
    BY <1>2, <1>12, <2>1 DEF RangeSpan
  <2> QED
    BY <2>2, <2>3, <2>4
<1>13. ASSUME RangeStep PROVE Data'
  <2>1. PICK n : n = get_number(0, <<>>, SymbolAt(text, pos), After(text, pos), {",", "blank", "newline"})
    OBVIOUS
  <2>2. n.ok => n.num \in Int
    <3>1. PICK low, names : low = 0 /\ names = <<>>
      OBVIOUS
    <3>2. low \in Int /\ DOMAIN names \subseteq Nat
      BY <3>1
    <3> QED
      BY <1>4, <2>1, <3>1, <3>2, NumberInt
  <2>3. UNCHANGED <<num1, num2, mem, flags, user, lookup, cmd, heap>>
    BY <1>13 DEF RangeStep, made
  <2>4. num3' \in {num3, 1} \/ (n.ok /\ num3' = n.num)
    BY <1>13, <2>1 DEF RangeStep
  <2> QED
    BY <2>2, <2>3, <2>4
<1>14. ASSUME RangeElements PROVE Data'
  <2>1. mem' = mem \/ (InField /\ mem' = SetBits(mem, Fields[field], Visited))
    BY <1>14 DEF RangeElements
  <2>2. mem' \subseteq EntryBits
    <3>1. CASE InField /\ mem' = SetBits(mem, Fields[field], Visited)
      <4>1. PICK S : S = Visited
        OBVIOUS
      <4>2. S \subseteq Fields[field].low..Fields[field].high /\ mem' = SetBits(mem, Fields[field], S)
        BY <3>1, <4>1 DEF InField
      <4> QED
        BY <1>3, <4>2, FieldStaysBelow
    <3> QED
      BY <2>1, <3>1
  <2>3. UNCHANGED <<num1, num2, num3, flags, user, lookup, cmd, heap>>
    BY <1>14 DEF RangeElements, made, range
  <2> QED
    BY <2>2, <2>3
<1>15. ASSUME EndOfTime PROVE Data'
  <2>1. mem' = Sundays(mem) /\ UNCHANGED <<num1, num2, num3, flags, user, lookup, cmd, heap>>
    BY <1>15 DEF EndOfTime, made, range
  <2>2. mem' \subseteq EntryBits
    BY <2>1, SundaysStayBelow
  <2> QED
    BY <2>1, <2>2
<1>16. ASSUME Username PROVE Data'
  BY <1>16 DEF Username, range
<1>17. ASSUME PwDup \/ EnvCopy PROVE Data'
  BY <1>17 DEF PwDup, EnvCopy, Alloc, range, Blocks
<1>18. ASSUME SetVariable PROVE Data'
  <2>1. pc \in {"SHELL", "HOME", "PATH", "LOGNAME", "USER"}
    BY <1>18, FollowingIs DEF SetVariable
  <2>2. heap' \subseteq heap \cup {pc}
    BY <1>18 DEF SetVariable, env_set
  <2>3. UNCHANGED <<num1, num2, num3, mem, flags, user, lookup, cmd>>
    BY <1>18 DEF SetVariable, range
  <2> QED
    BY <2>1, <2>2, <2>3 DEF Blocks
<1>19. ASSUME Command PROVE Data'
  <2>1. PICK q : q = Find(text, pos, LineEnd)
    OBVIOUS
  <2>2. q \in Nat /\ q <= Len(text) + 1
    BY <1>1, <2>1, FindStops DEF Stop
  <2>3. cmd' = cmd \/ cmd' = get_string(text, pos, q, MAX_COMMAND)
    BY <1>19, <2>1 DEF Command
  <2>4. heap' \subseteq heap \cup {"cmd"} /\ UNCHANGED <<num1, num2, num3, mem, flags, user, lookup>>
    BY <1>19 DEF Command, range
  <2>5. get_string(text, pos, q, MAX_COMMAND) \in Seq(Symbols)
    <3>1. PICK e : e = IF q - pos < MAX_COMMAND THEN q - 1 ELSE pos + MAX_COMMAND - 2
      OBVIOUS
    <3>2. e \in Int /\ e <= Len(text)
      BY <1>1, <2>2, <3>1, LoadEntryInputs
    <3>3. \A i \in pos..e : text[i] \in Symbols
      BY <1>1, <3>2 DEF Texts
    <3>4. SubSeq(text, pos, e) \in Seq(Symbols)
      BY <1>1, <3>2, <3>3
    <3> QED
      BY <3>1, <3>4 DEF get_string
  <2> QED
    BY <2>3, <2>4, <2>5 DEF Blocks
<1>20. ASSUME Eof PROVE Data'
  BY <1>20 DEF Eof, range
<1>21. ASSUME UNCHANGED vars PROVE Data'
  BY <1>21 DEF vars, range, made
<1> QED
  BY <1>5, <1>6, <1>7, <1>8, <1>9, <1>10, <1>11, <1>12, <1>13, <1>14, <1>15, <1>16,
     <1>17, <1>18, <1>19, <1>20, <1>21 DEF Next

(***************************************************************************)
(* Type correctness of load_entry: in particular the stream stays in the   *)
(* file, and no write to the bit strings reaches the flags behind them,    *)
(* for all files and all field bounds that leave the spare bit its place.  *)
(***************************************************************************)
THEOREM TypeCorrect == Spec => []TypeOK
<1> DEFINE Inv == Control /\ InLine /\ StaysInStep /\ Holds /\ NoGarbage /\ StreamOK /\ Data
<1>1. Init => Inv
  BY ControlInit, InLineInit, HoldsInit, DataInit
<1>2. Inv /\ [Next]_vars => Inv'
  BY ControlNext, InLineNext, HoldsNext, StreamNext, DataNext
<1>3. Inv => TypeOK
  <2>1. Len(Fields) = 5
    BY FieldsAre
  <2> QED
    BY <2>1 DEF Control, StreamOK, Data, Holds, TypeOK, EntryBits
<1> QED
  BY <1>1, <1>2, <1>3, PTL DEF Spec
=============================================================================
