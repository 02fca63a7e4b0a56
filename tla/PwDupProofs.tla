----------------------------- MODULE PwDupProofs -----------------------------
(***************************************************************************)
(* pw_dup never writes outside its block, and the copy reads as the entry  *)
(* does, for passwd entries of any size.                                   *)
(***************************************************************************)
EXTENDS PwDup, TLAPS

(* The bytes of the strings before the k-th, when they have the sizes z. *)
Before(z, k) ==
  (IF k > 1 THEN z["pw_name"] ELSE 0) + (IF k > 2 THEN z["pw_passwd"] ELSE 0)
    + (IF k > 3 THEN z["pw_gecos"] ELSE 0) + (IF k > 4 THEN z["pw_dir"] ELSE 0)
    + (IF k > 5 THEN z["pw_shell"] ELSE 0)

(***************************************************************************)
(* The inductive invariant: the total and cp count the same bytes, one     *)
(* while the strings are measured, the other while they are copied.        *)
(***************************************************************************)
Counted ==
  /\ pc = "measure" => total = STRUCT + Before(size, i)
  /\ pc \in {"malloc", "copy", "wipe", "done"} => total = STRUCT + Before(size, 6)
  /\ pc = "malloc" => i = 1
  /\ pc = "copy" => cp = STRUCT + Before(size, i)
  /\ pc \in {"wipe", "done"} => cp = total

(* The password has its place in the block once it was copied. *)
PasswordPlaced ==
  pc = "wipe" \/ (pc = "copy" /\ i > 2) => newpw["pw_passwd"] \in Nat

PwInv == TypeOK /\ Counted /\ PasswordPlaced

LEMMA StringsAre ==
  /\ Len(Strings) = 5
  /\ Strings[1] = "pw_name" /\ Strings[2] = "pw_passwd" /\ Strings[3] = "pw_gecos"
  /\ Strings[4] = "pw_dir" /\ Strings[5] = "pw_shell"
  /\ \A k \in 1..5 : Strings[k] \in Members
BY DEF Strings, Members

(* The count goes on by one string at a time, and never falls. *)
LEMMA OneByOne ==
  ASSUME NEW z \in [Members -> Nat]
  PROVE  /\ Before(z, 1) = 0
         /\ \A k \in 1..6 : Before(z, k) \in Nat /\ Before(z, k) <= Before(z, 6)
         /\ \A k \in 1..5 : Before(z, k + 1) = Before(z, k) + z[Strings[k]]
<1> DEFINE a == z["pw_name"]  b == z["pw_passwd"]  c == z["pw_gecos"]
           d == z["pw_dir"]  f == z["pw_shell"]
<1>1. a \in Nat /\ b \in Nat /\ c \in Nat /\ d \in Nat /\ f \in Nat
  BY DEF Members
<1>2. \A k \in Nat : Before(z, k) =
        (IF k > 1 THEN a ELSE 0) + (IF k > 2 THEN b ELSE 0) + (IF k > 3 THEN c ELSE 0)
          + (IF k > 4 THEN d ELSE 0) + (IF k > 5 THEN f ELSE 0)
  BY DEF Before
<1>3. /\ z[Strings[1]] = a /\ z[Strings[2]] = b /\ z[Strings[3]] = c
      /\ z[Strings[4]] = d /\ z[Strings[5]] = f
  BY StringsAre
<1> HIDE DEF a, b, c, d, f
<1>4. /\ Before(z, 1) = 0 /\ Before(z, 2) = a /\ Before(z, 3) = a + b
      /\ Before(z, 4) = a + b + c /\ Before(z, 5) = a + b + c + d
      /\ Before(z, 6) = a + b + c + d + f
  BY <1>1, <1>2
<1>5. \A k \in 1..6 : k = 1 \/ k = 2 \/ k = 3 \/ k = 4 \/ k = 5 \/ k = 6
  OBVIOUS
<1>6. \A k \in 1..6 : Before(z, k) \in Nat /\ Before(z, k) <= Before(z, 6)
  BY <1>1, <1>4, <1>5
<1>7. \A k \in 1..5 : Before(z, k + 1) = Before(z, k) + z[Strings[k]]
  <2> SUFFICES ASSUME NEW k \in 1..5
               PROVE  Before(z, k + 1) = Before(z, k) + z[Strings[k]]
    OBVIOUS
  <2>1. k = 1 \/ k = 2 \/ k = 3 \/ k = 4 \/ k = 5
    OBVIOUS
  <2> QED BY <1>1, <1>3, <1>4, <2>1
<1> QED BY <1>4, <1>6, <1>7

(* Measuring the k-th string does not change the count of those before it. *)
LEMMA MeasureKeeps ==
  ASSUME NEW z \in [Members -> Nat], NEW k \in 1..5, NEW n \in Nat
  PROVE  Before([z EXCEPT ![Strings[k]] = n], k) = Before(z, k)
<1> DEFINE y == [z EXCEPT ![Strings[k]] = n]
<1>1. k = 1 \/ k = 2 \/ k = 3 \/ k = 4 \/ k = 5
  OBVIOUS
<1>2. /\ k > 1 => y["pw_name"] = z["pw_name"]
      /\ k > 2 => y["pw_passwd"] = z["pw_passwd"]
      /\ k > 3 => y["pw_gecos"] = z["pw_gecos"]
      /\ k > 4 => y["pw_dir"] = z["pw_dir"]
  BY <1>1, StringsAre DEF Members
<1> HIDE DEF y
<1>3. Before(y, k) = Before(z, k)
  BY <1>1, <1>2 DEF Before
<1> QED BY <1>3 DEF y

(* A copy keeps the length of the block, and writes only characters. *)
LEMMA MemcpyType ==
  ASSUME NEW T \in Nat, block \in [0..(T - 1) -> Char \cup {NUL, Junk}],
         NEW to \in Nat, NEW n, NEW s \in Seq(Char)
  PROVE  memcpy(to, s, n) \in [0..(T - 1) -> Char \cup {NUL, Junk}]
<1> SUFFICES ASSUME NEW k \in 0..(T - 1), to <= k, k < to + n
             PROVE  Byte(s, k - to) \in Char \cup {NUL}
  BY DEF memcpy
<1>1. CASE k - to < Len(s)
  <2>1. k - to + 1 \in 1..Len(s)
    BY <1>1
  <2> QED BY <1>1, <2>1 DEF Byte
<1>2. CASE ~(k - to < Len(s))
  BY <1>2 DEF Byte
<1> QED BY <1>1, <1>2

(* Advance, with the number of strings written out. *)
LEMMA Advances ==
  ASSUME NEW part, i \in 1..5, Advance(part)
  PROVE  (i < 5 /\ i' = i + 1 /\ pc' = pc) \/ (i = 5 /\ i' = 1 /\ pc' = part)
<1>1. IF i < 5 THEN i' = i + 1 /\ UNCHANGED pc ELSE i' = 1 /\ pc' = part
  BY StringsAre, Zenon DEF Advance
<1>2. i < 5 \/ i = 5
  OBVIOUS
<1>3. ~(5 < 5)
  OBVIOUS
<1> QED BY <1>1, <1>2, <1>3, Zenon

LEMMA InitInv == Init => PwInv
<1> SUFFICES ASSUME Init PROVE PwInv
  OBVIOUS
<1>1. TypeOK
  BY PwDupInputs, StringsAre DEF Init, TypeOK
<1>2. Before(size, 1) = 0
  BY <1>1, OneByOne DEF TypeOK
<1>3. Counted
  BY <1>2, PwDupInputs DEF Init, Counted
<1> QED BY <1>1, <1>3 DEF Init, PwInv, PasswordPlaced

LEMMA NextInv == PwInv /\ [Next]_vars => PwInv'
<1> SUFFICES ASSUME PwInv, [Next]_vars PROVE PwInv'
  OBVIOUS
<1>t. /\ i \in 1..5 /\ Strings[i] \in Members /\ size \in [Members -> Nat] /\ total \in Nat
      /\ pw[Strings[i]] \in Seq(Char) \cup {NULL} /\ pw["pw_passwd"] # NULL
  BY PwDupInputs, StringsAre DEF PwInv, TypeOK
<1>n. STRUCT \in Nat /\ Len(Strings) = 5
  BY PwDupInputs, StringsAre
<1>b. /\ Before(size, 1) = 0
      /\ Before(size, i) \in Nat /\ Before(size, 6) \in Nat
      /\ Before(size, i + 1) <= Before(size, 6) /\ Before(size, i + 1) \in Nat
      /\ Before(size, i + 1) = Before(size, i) + size[Strings[i]]
  <2>1. i \in 1..6 /\ i + 1 \in 1..6
    BY <1>t
  <2> QED BY <1>t, <2>1, OneByOne
<1>1. CASE Measure
  <2> DEFINE m == Strings[i]
             n == IF pw[m] = NULL THEN 0 ELSE Len(pw[m]) + 1
  <2>1. n \in Nat
    BY <1>t
  <2>2. pc = "measure" /\ size' = [size EXCEPT ![m] = n] /\ total' = total + n
    BY <1>1 DEF Measure
  <2> HIDE DEF n
  <2>3. /\ UNCHANGED <<pw, newpw>>
        /\ \/ i < 5 /\ i' = i + 1 /\ pc' = "measure"
           \/ i = 5 /\ i' = 1 /\ pc' = "malloc"
    <3>1. Advance("malloc") /\ UNCHANGED <<pw, newpw>>
      BY <1>1 DEF Measure
    <3> QED BY <1>t, <2>2, <3>1, Advances
  <2>4. size' \in [Members -> Nat] /\ total' \in Nat
    BY <1>t, <2>1, <2>2
  <2>5. TypeOK'
    <3>1. i' \in 1..Len(Strings) /\ pc' \in {"measure", "malloc"}
      BY <1>t, <1>n, <2>3
    <3> QED BY <2>3, <2>4, <3>1 DEF PwInv, TypeOK
  <2>6. Before(size', i + 1) = Before(size, i) + n
    <3>1. size'[m] = n
      BY <1>t, <2>2
    <3>2. Before(size', i + 1) = Before(size', i) + size'[m]
      BY <1>t, <2>4, OneByOne
    <3>3. Before(size', i) = Before(size, i)
      BY <1>t, <2>1, <2>2, MeasureKeeps
    <3> QED BY <3>1, <3>2, <3>3
  <2>7. total' = STRUCT + Before(size', i + 1)
    BY <1>n, <1>b, <2>1, <2>2, <2>6 DEF PwInv, Counted
  <2>8. Counted'
    BY <2>3, <2>7 DEF Counted
  <2> QED BY <2>3, <2>5, <2>8 DEF PwInv, PasswordPlaced
<1>2. CASE Malloc
  <2>1. /\ UNCHANGED <<pw, i, size, total, newpw>> /\ i = 1
        /\ \/ pc' = "copy" /\ cp' = STRUCT /\ block' = [k \in 0..(total - 1) |-> Junk]
           \/ pc' = "failed"
    BY <1>2 DEF PwInv, Counted, Malloc
  <2>2. total = STRUCT + Before(size, 6)
    BY <1>2 DEF PwInv, Counted, Malloc
  <2>3. pc' = "copy" =>
          cp' \in 0..total /\ block' \in [0..(total - 1) -> Char \cup {NUL, Junk}]
    BY <1>n, <1>t, <1>b, <2>1, <2>2
  <2>4. TypeOK'
    BY <2>1, <2>3 DEF PwInv, TypeOK
  <2>5. Counted'
    BY <1>n, <1>b, <2>1, <2>2 DEF Counted
  <2> QED BY <2>1, <2>4, <2>5 DEF PwInv, PasswordPlaced
<1>3. CASE Copy
  <2> DEFINE m == Strings[i]
  <2>1. /\ pc = "copy" /\ cp \in Nat /\ block \in [0..(total - 1) -> Char \cup {NUL, Junk}]
        /\ UNCHANGED <<pw, size, total>> /\ cp' = cp + size[m]
        /\ newpw' = [newpw EXCEPT ![m] = IF pw[m] = NULL THEN NULL ELSE cp]
    BY <1>3 DEF PwInv, TypeOK, Copy
  <2>2. \/ i < 5 /\ i' = i + 1 /\ pc' = "copy"
        \/ i = 5 /\ i' = 1 /\ pc' = "wipe"
    <3>1. Advance("wipe")
      BY <1>3 DEF Copy
    <3> QED BY <1>t, <2>1, <3>1, Advances
  <2>3. total = STRUCT + Before(size, 6) /\ cp = STRUCT + Before(size, i)
    BY <2>1 DEF PwInv, Counted
  <2>4. cp' = STRUCT + Before(size, i + 1)
    <3>1. size[m] \in Nat
      BY <1>t
    <3>2. cp' = (STRUCT + Before(size, i)) + size[m]
      BY <2>1, <2>3
    <3>3. \A a, b, c \in Nat : (a + b) + c = a + (b + c)
      OBVIOUS
    <3>4. (STRUCT + Before(size, i)) + size[m] = STRUCT + (Before(size, i) + size[m])
      BY <1>n, <1>b, <3>1, <3>3, Zenon
    <3> QED BY <1>b, <3>2, <3>4, Zenon
  <2>5. cp' \in 0..total
    BY <1>n, <1>b, <2>3, <2>4
  <2>6. block' \in [0..(total - 1) -> Char \cup {NUL, Junk}]
    <3>1. CASE pw[m] = NULL
      BY <1>3, <2>1, <3>1 DEF Copy
    <3>2. CASE pw[m] # NULL
      <4>1. block' = memcpy(cp, pw[m], size[m])
        BY <1>3, <3>2 DEF Copy
      <4> QED BY <1>t, <2>1, <3>2, <4>1, MemcpyType
    <3> QED BY <3>1, <3>2
  <2>7. newpw' \in [Members -> Nat \cup {NULL}]
    BY <2>1 DEF PwInv, TypeOK
  <2>8. i' \in 1..5 /\ pc' \in {"copy", "wipe"}
    BY <1>t, <2>2
  <2>9. TypeOK'
    BY <1>n, <2>1, <2>5, <2>6, <2>7, <2>8 DEF PwInv, TypeOK
  <2>10. Counted'
    <3>1. CASE i < 5
      BY <2>1, <2>2, <2>3, <2>4, <3>1 DEF Counted
    <3>2. CASE i = 5
      BY <2>1, <2>2, <2>3, <2>4, <3>2 DEF Counted
    <3> QED BY <1>t, <3>1, <3>2
  <2>11. PasswordPlaced'
    <3>1. CASE i = 1
      BY <2>2, <3>1 DEF PasswordPlaced
    <3>2. CASE i = 2
      BY <1>t, <2>1, <3>2, StringsAre DEF PwInv, TypeOK, PasswordPlaced, Members
    <3>3. CASE i > 2
      <4>1. m # "pw_passwd"
        <5>1. i = 3 \/ i = 4 \/ i = 5
          BY <1>t, <3>3
        <5> QED BY <5>1, StringsAre
      <4>2. newpw["pw_passwd"] \in Nat
        BY <2>1, <3>3 DEF PwInv, PasswordPlaced
      <4> QED BY <2>1, <4>1, <4>2 DEF PwInv, TypeOK, PasswordPlaced, Members
    <3> QED BY <1>t, <3>1, <3>2, <3>3
  <2> QED BY <2>9, <2>10, <2>11 DEF PwInv
<1>4. CASE Wipe
  <2>1. /\ pc = "wipe" /\ newpw["pw_passwd"] \in Nat
        /\ block \in [0..(total - 1) -> Char \cup {NUL, Junk}]
    BY <1>4 DEF PwInv, TypeOK, PasswordPlaced, Wipe
  <2>2. /\ block' = memcpy(newpw["pw_passwd"], <<>>, strlen(newpw["pw_passwd"]))
        /\ UNCHANGED <<pw, i, size, total, cp, newpw>> /\ pc' = "done"
    BY <1>4 DEF Wipe
  <2>3. block' \in [0..(total - 1) -> Char \cup {NUL, Junk}]
    <3>1. <<>> \in Seq(Char)
      OBVIOUS
    <3> QED BY <1>t, <2>1, <2>2, <3>1, MemcpyType
  <2>4. TypeOK'
    BY <2>1, <2>2, <2>3 DEF PwInv, TypeOK
  <2>5. Counted'
    BY <2>1, <2>2 DEF PwInv, Counted
  <2> QED BY <2>2, <2>4, <2>5 DEF PwInv, PasswordPlaced
<1>5. CASE UNCHANGED vars
  BY <1>5 DEF PwInv, TypeOK, Counted, PasswordPlaced, vars
<1> QED BY <1>1, <1>2, <1>3, <1>4, <1>5 DEF Next

(* Type correctness of pw_dup: cp and the block stay what the total says.  *)
THEOREM TypeCorrect == Spec => []TypeOK
<1>1. PwInv => TypeOK
  BY DEF PwInv
<1> QED BY InitInv, NextInv, <1>1, PTL DEF Spec

(* However long the strings of a passwd entry are, and whichever of them   *)
(* are missing, no memcpy of pw_dup leaves the block it has allocated.     *)
THEOREM NeverOutside == Spec => []InsideBlock
<1>1. PwInv => InsideBlock
  <2> SUFFICES ASSUME PwInv PROVE InsideBlock
    OBVIOUS
  <2>1. CASE pc = "copy"
    <3>1. i \in 1..5 /\ size \in [Members -> Nat] /\ STRUCT \in Nat
      BY StringsAre, PwDupInputs DEF PwInv, TypeOK
    <3>2. cp = STRUCT + Before(size, i) /\ total = STRUCT + Before(size, 6)
      BY <2>1 DEF PwInv, Counted
    <3>3. /\ Before(size, i + 1) = Before(size, i) + size[Strings[i]]
          /\ Before(size, i + 1) <= Before(size, 6)
      <4>1. i + 1 \in 1..6
        BY <3>1
      <4> QED BY <3>1, <4>1, OneByOne
    <3>4. Before(size, i) \in Nat /\ Before(size, 6) \in Nat /\ size[Strings[i]] \in Nat
      <4>1. i \in 1..6
        BY <3>1
      <4> QED BY <3>1, <4>1, OneByOne, StringsAre
    <3> QED BY <2>1, <3>1, <3>2, <3>3, <3>4 DEF InsideBlock
  <2>2. CASE pc # "copy"
    BY <2>2 DEF PwInv, Counted, InsideBlock
  <2> QED BY <2>1, <2>2
<1> QED BY InitInv, NextInv, <1>1, PTL DEF Spec

-----------------------------------------------------------------------------
(***************************************************************************)
(* What the block holds.  Each string that was copied is at its place,     *)
(* with its NUL; the places do not overlap.                                *)
(***************************************************************************)
At(k) == STRUCT + Before(size, k)

Copied(k) == (pc = "copy" /\ k < i) \/ pc \in {"wipe", "done"}

Sized ==
  \A k \in 1..5 : (pc = "measure" => k < i) =>
    size[Strings[k]] = IF pw[Strings[k]] = NULL THEN 0 ELSE Len(pw[Strings[k]]) + 1

Placed ==
  \A k \in 1..5 : Copied(k) =>
    newpw[Strings[k]] = IF pw[Strings[k]] = NULL THEN NULL ELSE At(k)

Filled ==
  \A k \in 1..5 : Copied(k) /\ pw[Strings[k]] # NULL =>
    \A j \in 0..(size[Strings[k]] - 1) :
      block[At(k) + j] = IF pc = "done" /\ k = 2 THEN NUL ELSE Byte(pw[Strings[k]], j)

CopyInv == PwInv /\ Sized /\ Placed /\ Filled

LEMMA StringsDiffer ==
  /\ \A k, l \in 1..5 : Strings[k] = Strings[l] => k = l
  /\ \A m \in Members : \E k \in 1..5 : Strings[k] = m
<1>1. \A k \in 1..5 : k = 1 \/ k = 2 \/ k = 3 \/ k = 4 \/ k = 5
  OBVIOUS
<1>2. \A k, l \in 1..5 : Strings[k] = Strings[l] => k = l
  BY <1>1, StringsAre
<1>3. \A m \in Members : \E k \in 1..5 : Strings[k] = m
  BY StringsAre DEF Members
<1> QED BY <1>2, <1>3

(* A byte of one string is no byte of another, and is inside the block. *)
LEMMA BytesApart ==
  ASSUME NEW z \in [Members -> Nat], NEW k \in 1..5, NEW j \in 0..(z[Strings[k]] - 1)
  PROVE  /\ Before(z, k) \in Nat /\ z[Strings[k]] \in Nat
         /\ Before(z, k) + j < Before(z, 6)
         /\ \A l \in 1..5 : Before(z, l) <= Before(z, k) + j
                              /\ Before(z, k) + j < Before(z, l) + z[Strings[l]] => l = k
<1>1. \A l \in 1..5 : z[Strings[l]] \in Nat /\ Before(z, l + 1) = Before(z, l) + z[Strings[l]]
  BY OneByOne, StringsAre
<1>2. /\ Before(z, 1) \in Nat /\ Before(z, 2) \in Nat /\ Before(z, 3) \in Nat
      /\ Before(z, 4) \in Nat /\ Before(z, 5) \in Nat /\ Before(z, 6) \in Nat
  BY OneByOne
<1>3. /\ Before(z, 2) = Before(z, 1) + z[Strings[1]] /\ z[Strings[1]] \in Nat
      /\ Before(z, 3) = Before(z, 2) + z[Strings[2]] /\ z[Strings[2]] \in Nat
      /\ Before(z, 4) = Before(z, 3) + z[Strings[3]] /\ z[Strings[3]] \in Nat
      /\ Before(z, 5) = Before(z, 4) + z[Strings[4]] /\ z[Strings[4]] \in Nat
      /\ Before(z, 6) = Before(z, 5) + z[Strings[5]] /\ z[Strings[5]] \in Nat
  BY <1>1
<1>4. \A l \in 1..5 : l = 1 \/ l = 2 \/ l = 3 \/ l = 4 \/ l = 5
  OBVIOUS
<1>5. \A l \in 1..5 : Before(z, l) \in Nat
  BY <1>2, <1>4
<1>6. Before(z, k) + j < Before(z, 6)
  BY <1>2, <1>3, <1>4
<1>7. ASSUME NEW l \in 1..5, Before(z, l) <= Before(z, k) + j,
             Before(z, k) + j < Before(z, l) + z[Strings[l]]
      PROVE  l = k
  <2>1. \A n \in 1..5 : \A r \in 1..5 : n < r => Before(z, n) + z[Strings[n]] <= Before(z, r)
    BY <1>2, <1>3, <1>4
  <2>2. ~(l < k)
    BY <1>1, <1>5, <1>7, <2>1
  <2>3. ~(k < l)
    BY <1>1, <1>5, <1>7, <2>1
  <2> QED BY <2>2, <2>3
<1> QED BY <1>1, <1>5, <1>6, <1>7

(* strlen finds the length of a string that is in the block with its NUL. *)
LEMMA StrlenIs ==
  ASSUME NEW at \in Nat, NEW s \in Seq(Char), total \in Nat, at + Len(s) < total,
         DOMAIN block = 0..(total - 1),
         \A j \in 0..Len(s) : block[at + j] = Byte(s, j)
  PROVE  strlen(at) = Len(s)
<1> DEFINE P(n) == /\ at + n \in DOMAIN block => block[at + n] = NUL
                   /\ \A k \in 0..(n - 1) : at + k \in DOMAIN block /\ block[at + k] # NUL
<1>1. Len(s) \in Nat /\ NUL \notin Char
  BY PwDupInputs
<1>2. block[at + Len(s)] = NUL
  BY <1>1 DEF Byte
<1>3. \A k \in 0..(Len(s) - 1) : at + k \in DOMAIN block /\ block[at + k] # NUL
  <2> SUFFICES ASSUME NEW k \in 0..(Len(s) - 1)
               PROVE  at + k \in DOMAIN block /\ block[at + k] # NUL
    OBVIOUS
  <2>1. k \in 0..Len(s) /\ k + 1 \in 1..Len(s) /\ k < Len(s) /\ at + k \in 0..(total - 1)
    BY <1>1
  <2>2. block[at + k] = s[k + 1] /\ s[k + 1] \in Char
    BY <2>1 DEF Byte
  <2> QED BY <1>1, <2>1, <2>2
<1>4. Len(s) \in 0..total /\ P(Len(s))
  BY <1>1, <1>2, <1>3
<1>5. ASSUME NEW n \in 0..total, P(n) PROVE n = Len(s)
  <2>1. ~(n < Len(s))
    BY <1>1, <1>3, <1>5
  <2>2. ~(Len(s) < n)
    BY <1>1, <1>2, <1>5
  <2> QED BY <1>1, <2>1, <2>2
<1>6. strlen(at) = CHOOSE n \in 0..total : P(n)
  BY DEF strlen
<1> HIDE DEF P
<1> QED BY <1>4, <1>5, <1>6

(* A copied string, before the password is wiped. *)
LEMMA CopiedString ==
  ASSUME CopyInv, NEW k \in 1..5, Copied(k), pw[Strings[k]] # NULL, ~(pc = "done" /\ k = 2)
  PROVE  /\ newpw[Strings[k]] = At(k) /\ At(k) \in Nat /\ pw[Strings[k]] \in Seq(Char)
         /\ size[Strings[k]] = Len(pw[Strings[k]]) + 1
         /\ DOMAIN block = 0..(total - 1) /\ total \in Nat
         /\ \A j \in 0..Len(pw[Strings[k]]) : block[At(k) + j] = Byte(pw[Strings[k]], j)
         /\ strlen(At(k)) = Len(pw[Strings[k]])
<1>1. newpw[Strings[k]] = At(k)
  BY DEF CopyInv, Placed
<1>2. size[Strings[k]] = Len(pw[Strings[k]]) + 1
  BY DEF CopyInv, Sized, Copied
<1>3. pw[Strings[k]] \in Seq(Char) /\ size \in [Members -> Nat] /\ STRUCT \in Nat
  BY PwDupInputs, StringsAre DEF CopyInv, PwInv, TypeOK
<1>4. /\ DOMAIN block = 0..(total - 1) /\ total \in Nat
      /\ total = STRUCT + Before(size, 6)
  BY DEF CopyInv, PwInv, TypeOK, Counted, Copied
<1> DEFINE s == pw[Strings[k]]
<1>5. \A j \in 0..Len(s) : j \in 0..(size[Strings[k]] - 1)
  BY <1>2, <1>3
<1>6. \A j \in 0..Len(s) : block[At(k) + j] = Byte(s, j)
  BY <1>5 DEF CopyInv, Filled
<1>7. Len(s) \in 0..(size[Strings[k]] - 1)
  BY <1>2, <1>3
<1>8. Before(size, k) \in Nat /\ Before(size, 6) \in Nat /\ Before(size, k) + Len(s) < Before(size, 6)
  <2>1. Before(size, 6) \in Nat
    BY <1>3, OneByOne
  <2> QED BY <1>3, <1>7, <2>1, BytesApart
<1>9. At(k) \in Nat /\ At(k) + Len(s) < total
  <2>1. Len(s) \in Nat
    BY <1>3
  <2> HIDE DEF s
  <2> QED BY <1>3, <1>4, <1>8, <2>1 DEF At
<1>10. strlen(At(k)) = Len(s)
  BY <1>3, <1>4, <1>6, <1>9, StrlenIs
<1> QED BY <1>1, <1>2, <1>3, <1>4, <1>6, <1>9, <1>10

LEMMA CopyInit == Init => CopyInv
<1> SUFFICES ASSUME Init PROVE CopyInv
  OBVIOUS
<1>1. pc = "measure" /\ i = 1 /\ \A k \in 1..5 : ~(k < 1)
  BY DEF Init
<1> QED BY <1>1, InitInv DEF CopyInv, Sized, Placed, Filled, Copied

LEMMA CopyNext == CopyInv /\ [Next]_vars => CopyInv'
<1> SUFFICES ASSUME CopyInv, [Next]_vars PROVE CopyInv'
  OBVIOUS
<1>t. /\ i \in 1..5 /\ size \in [Members -> Nat] /\ total \in Nat /\ STRUCT \in Nat
      /\ newpw \in [Members -> Nat \cup {NULL}]
      /\ \A k \in 1..5 : /\ Strings[k] \in Members /\ size[Strings[k]] \in Nat
                         /\ pw[Strings[k]] \in Seq(Char) \cup {NULL}
      /\ pw[Strings[2]] # NULL
  BY PwDupInputs, StringsAre DEF CopyInv, PwInv, TypeOK
<1>i. i \in 1..5 /\ STRUCT \in Nat /\ total \in Nat
  BY <1>t
<1>p. PwInv'
  BY NextInv DEF CopyInv
<1>1. CASE Measure
  <2> DEFINE m == Strings[i]
             n == IF pw[m] = NULL THEN 0 ELSE Len(pw[m]) + 1
  <2>1. pc = "measure" /\ size' = [size EXCEPT ![m] = n] /\ pw' = pw
    BY <1>1 DEF Measure
  <2>2. \/ i < 5 /\ i' = i + 1 /\ pc' = "measure"
        \/ i = 5 /\ i' = 1 /\ pc' = "malloc"
    <3>1. Advance("malloc")
      BY <1>1 DEF Measure
    <3> QED BY <1>t, <2>1, <3>1, Advances
  <2>3. Placed' /\ Filled'
    BY <2>2 DEF Placed, Filled, Copied
  <2>4. ASSUME NEW k \in 1..5, pc' = "measure" => k < i'
        PROVE  size'[Strings[k]] = IF pw[Strings[k]] = NULL THEN 0 ELSE Len(pw[Strings[k]]) + 1
    <3>1. k = i \/ k < i
      BY <1>t, <2>2, <2>4
    <3>2. CASE k = i
      BY <1>t, <2>1, <3>2
    <3>3. CASE k < i
      <4>1. Strings[k] # m
        BY <1>i, <3>3, StringsDiffer
      <4>2. size'[Strings[k]] = size[Strings[k]]
        BY <1>t, <2>1, <4>1
      <4> QED BY <2>1, <3>3, <4>2 DEF CopyInv, Sized
    <3> QED BY <3>1, <3>2, <3>3
  <2>5. Sized'
    BY <2>1, <2>4 DEF Sized
  <2> QED BY <1>p, <2>3, <2>5 DEF CopyInv
<1>2. CASE Malloc
  <2>1. /\ UNCHANGED <<pw, i, size, total, newpw>> /\ i = 1 /\ pc = "malloc"
        /\ pc' \in {"copy", "failed"}
    BY <1>2 DEF CopyInv, PwInv, Counted, Malloc
  <2>2. Sized'
    BY <2>1 DEF CopyInv, Sized
  <2>3. \A k \in 1..5 : ~Copied(k)'
    BY <2>1 DEF Copied
  <2> QED BY <1>p, <2>2, <2>3 DEF CopyInv, Placed, Filled
<1>3. CASE Copy
  <2> DEFINE m == Strings[i]
  <2>1. /\ pc = "copy" /\ UNCHANGED <<pw, size, total>>
        /\ newpw' = [newpw EXCEPT ![m] = IF pw[m] = NULL THEN NULL ELSE cp]
        /\ block' = IF pw[m] = NULL THEN block ELSE memcpy(cp, pw[m], size[m])
    BY <1>3 DEF Copy
  <2>2. \/ i < 5 /\ i' = i + 1 /\ pc' = "copy"
        \/ i = 5 /\ i' = 1 /\ pc' = "wipe"
    <3>1. Advance("wipe")
      BY <1>3 DEF Copy
    <3> QED BY <1>t, <2>1, <3>1, Advances
  <2>3. cp = At(i) /\ total = STRUCT + Before(size, 6)
    BY <2>1 DEF CopyInv, PwInv, Counted, At
  <2>8. block \in [0..(total - 1) -> Char \cup {NUL, Junk}]
    BY <2>1 DEF CopyInv, PwInv, TypeOK
  <2>4. \A k \in 1..5 : /\ At(k)' = At(k)
                        /\ Copied(k)' => k = i \/ Copied(k)
                        /\ k # i => Strings[k] # m
    BY <1>t, <2>1, <2>2, StringsDiffer DEF At, Copied
  <2>5. Sized'
    BY <2>1, <2>2 DEF CopyInv, Sized
  <2>6. Placed'
    <3> SUFFICES ASSUME NEW k \in 1..5, Copied(k)'
                 PROVE  newpw'[Strings[k]] = IF pw[Strings[k]] = NULL THEN NULL ELSE At(k)
      BY <2>1, <2>4 DEF Placed
    <3>1. CASE k = i
      BY <1>t, <2>1, <2>3, <3>1
    <3>2. CASE k # i
      <4>1. newpw'[Strings[k]] = newpw[Strings[k]] /\ Copied(k)
        BY <1>t, <2>1, <2>4, <3>2
      <4> QED BY <4>1 DEF CopyInv, Placed
    <3> QED BY <3>1, <3>2
  <2>7. Filled'
    <3> SUFFICES ASSUME NEW k \in 1..5, Copied(k)', pw[Strings[k]] # NULL,
                        NEW j \in 0..(size[Strings[k]] - 1)
                 PROVE  block'[At(k) + j] = Byte(pw[Strings[k]], j)
      BY <2>1, <2>2, <2>4 DEF Filled
    <3>1. /\ Before(size, k) \in Nat /\ Before(size, k) + j < Before(size, 6)
          /\ Before(size, i) <= Before(size, k) + j
               /\ Before(size, k) + j < Before(size, i) + size[m] => i = k
      BY <1>t, BytesApart
    <3>2. Before(size, 6) \in Nat /\ Before(size, i) \in Nat /\ size[m] \in Nat /\ j \in Nat
      <4>1. i \in 1..6 /\ 6 \in 1..6
        BY <1>i
      <4>2. size[m] \in Nat /\ size[Strings[k]] \in Nat
        BY <1>t
      <4>3. j \in Nat
        BY <4>2
      <4>4. Before(size, 6) \in Nat /\ Before(size, i) \in Nat
        BY <1>t, <4>1, OneByOne
      <4> QED BY <4>2, <4>3, <4>4
    <3>3. At(k) + j \in 0..(total - 1)
      BY <1>i, <2>3, <3>1, <3>2 DEF At
    <3>4. CASE k = i
      <4>1. cp <= At(k) + j /\ At(k) + j < cp + size[m] /\ (At(k) + j) - cp = j
        BY <1>i, <2>3, <3>1, <3>2, <3>4 DEF At
      <4>2. block' = memcpy(cp, pw[m], size[m])
        BY <2>1, <3>4
      <4>3. At(k) + j \in DOMAIN block
        BY <2>8, <3>3
      <4> QED BY <3>4, <4>1, <4>2, <4>3 DEF memcpy
    <3>5. CASE k # i
      <4>1. ~(cp <= At(k) + j /\ At(k) + j < cp + size[m])
        BY <1>i, <2>3, <3>1, <3>2, <3>5 DEF At
      <4>2. block'[At(k) + j] = block[At(k) + j]
        BY <2>1, <2>8, <3>3, <4>1 DEF memcpy
      <4> QED BY <2>1, <2>4, <3>5, <4>2 DEF CopyInv, Filled
    <3> QED BY <3>4, <3>5
  <2> QED BY <1>p, <2>5, <2>6, <2>7 DEF CopyInv
<1>4. CASE Wipe
  <2> DEFINE s == pw[Strings[2]]
             n == strlen(newpw["pw_passwd"])
  <2>1. /\ pc = "wipe" /\ pc' = "done" /\ UNCHANGED <<pw, i, size, total, cp, newpw>>
        /\ block' = memcpy(newpw["pw_passwd"], <<>>, n)
    BY <1>4 DEF Wipe
  <2>2. \A k \in 1..5 : Copied(k) /\ Copied(k)' /\ At(k)' = At(k)
    BY <2>1 DEF Copied, At
  <2>3. /\ newpw["pw_passwd"] = At(2) /\ At(2) \in Nat /\ s \in Seq(Char)
        /\ size[Strings[2]] = Len(s) + 1 /\ DOMAIN block = 0..(total - 1)
        /\ \A j \in 0..Len(s) : block[At(2) + j] = Byte(s, j)
        /\ n = Len(s)
    <3>1. 2 \in 1..5 /\ Strings[2] = "pw_passwd"
      BY StringsAre
    <3> QED BY <1>t, <2>1, <2>2, <3>1, CopiedString
  <2>4. Sized' /\ Placed'
    BY <2>1, <2>2 DEF CopyInv, Sized, Placed
  <2>5. total = STRUCT + Before(size, 6)
    BY <2>1 DEF CopyInv, PwInv, Counted
  <2> HIDE DEF n, s
  <2>6. Filled'
    <3> SUFFICES ASSUME NEW k \in 1..5, pw[Strings[k]] # NULL,
                        NEW j \in 0..(size[Strings[k]] - 1)
                 PROVE  block'[At(k) + j] = IF k = 2 THEN NUL ELSE Byte(pw[Strings[k]], j)
      BY <2>1, <2>2 DEF Filled
    <3>1. /\ Before(size, k) \in Nat /\ Before(size, k) + j < Before(size, 6)
          /\ Before(size, 2) <= Before(size, k) + j
               /\ Before(size, k) + j < Before(size, 2) + size[Strings[2]] => 2 = k
      <4>1. 2 \in 1..5
        OBVIOUS
      <4> QED BY <1>t, <4>1, BytesApart
    <3>2. /\ Before(size, 6) \in Nat /\ Before(size, 2) \in Nat /\ size[Strings[2]] \in Nat
          /\ j \in Nat /\ Len(s) \in Nat
      <4>1. 2 \in 1..6 /\ 6 \in 1..6 /\ 2 \in 1..5
        OBVIOUS
      <4>2. size[Strings[2]] \in Nat /\ size[Strings[k]] \in Nat
        BY <1>t, <4>1
      <4>3. j \in Nat /\ Len(s) \in Nat
        BY <2>3, <4>2
      <4>4. Before(size, 6) \in Nat /\ Before(size, 2) \in Nat
        BY <1>t, <4>1, OneByOne
      <4> QED BY <4>2, <4>3, <4>4
    <3>3. At(k) + j \in 0..(total - 1) /\ At(k) \in Nat
      BY <1>i, <2>5, <3>1, <3>2 DEF At
    <3>4. block'[At(k) + j] = IF At(2) <= At(k) + j /\ At(k) + j < At(2) + n
                              THEN Byte(<<>>, At(k) + j - At(2)) ELSE block[At(k) + j]
      BY <2>1, <2>3, <3>3 DEF memcpy
    <3>5. CASE k = 2
      <4>1. j \in 0..Len(s)
        BY <2>3, <3>2, <3>5
      <4>2. CASE j < Len(s)
        <5>1. At(2) <= At(k) + j /\ At(k) + j < At(2) + n /\ At(k) + j - At(2) = j
          BY <2>3, <3>2, <3>5, <4>2
        <5>2. Byte(<<>>, j) = NUL
          BY <3>2 DEF Byte
        <5> QED BY <3>4, <3>5, <5>1, <5>2
      <4>3. CASE j = Len(s)
        <5>1. ~(At(k) + j < At(2) + n)
          BY <2>3, <3>2, <3>5, <4>3
        <5>2. block[At(2) + j] = NUL
          BY <2>3, <3>2, <4>1, <4>3 DEF Byte
        <5> QED BY <3>4, <3>5, <5>1, <5>2
      <4> QED BY <3>2, <4>1, <4>2, <4>3
    <3>6. CASE k # 2
      <4>1. ~(At(2) <= At(k) + j /\ At(k) + j < At(2) + n)
        <5>1. n \in Nat /\ n < size[Strings[2]]
          BY <2>3, <3>2
        <5>2. ~(Before(size, 2) <= Before(size, k) + j
                  /\ Before(size, k) + j < Before(size, 2) + size[Strings[2]])
          BY <3>1, <3>6
        <5>3. \A a, b, z \in Nat : n < z /\ ~(a <= b + j /\ b + j < a + z) =>
                ~(STRUCT + a <= (STRUCT + b) + j /\ (STRUCT + b) + j < (STRUCT + a) + n)
          BY <1>i, <3>2, <5>1
        <5> QED BY <3>1, <3>2, <5>1, <5>2, <5>3 DEF At
      <4>2. block[At(k) + j] = Byte(pw[Strings[k]], j)
        BY <2>1, <2>2, <3>6 DEF CopyInv, Filled
      <4> QED BY <3>4, <3>6, <4>1, <4>2
    <3> QED BY <3>5, <3>6
  <2> QED BY <1>p, <2>4, <2>6 DEF CopyInv
<1>5. CASE UNCHANGED vars
  BY <1>5, <1>p DEF CopyInv, Sized, Placed, Filled, Copied, At, vars
<1> QED BY <1>1, <1>2, <1>3, <1>4, <1>5 DEF Next

(* When pw_dup has returned and the password is wiped, each string of the  *)
(* copy reads as the one it was made from, whatever their lengths and      *)
(* whichever of them are missing, and no byte of the password is left.     *)
THEOREM CopyReadsAsEntry == Spec => []CopyReads
<1>1. CopyInv => CopyReads
  <2> SUFFICES ASSUME CopyInv, pc = "done", NEW m \in Members
               PROVE  IF pw[m] = NULL THEN newpw[m] = NULL
                      ELSE IF m = "pw_passwd"
                      THEN \A k \in 0..(size[m] - 1) : block[newpw[m] + k] = NUL
                      ELSE StringAt(newpw[m]) = pw[m]
    BY DEF CopyReads
  <2>1. PICK k \in 1..5 : Strings[k] = m
    BY StringsDiffer
  <2>2. Copied(k) /\ (m = "pw_passwd" <=> k = 2)
    BY <2>1, StringsAre, StringsDiffer DEF Copied
  <2>3. CASE pw[m] = NULL
    BY <2>1, <2>2, <2>3 DEF CopyInv, Placed
  <2>4. CASE pw[m] # NULL /\ k = 2
    <3>1. newpw[m] = At(k)
      BY <2>1, <2>2, <2>4 DEF CopyInv, Placed
    <3>2. \A j \in 0..(size[m] - 1) : block[At(k) + j] = NUL
      BY <2>1, <2>2, <2>4 DEF CopyInv, Filled
    <3> QED BY <2>2, <2>4, <3>1, <3>2
  <2>5. CASE pw[m] # NULL /\ k # 2
    <3> DEFINE s == pw[m]
    <3>1. /\ newpw[m] = At(k) /\ At(k) \in Nat /\ s \in Seq(Char)
          /\ \A j \in 0..Len(s) : block[At(k) + j] = Byte(s, j)
          /\ strlen(At(k)) = Len(s)
      BY <2>1, <2>2, <2>5, CopiedString
    <3> HIDE DEF s
    <3>2. \A j \in 1..Len(s) : block[At(k) + j - 1] = s[j]
      <4> SUFFICES ASSUME NEW j \in 1..Len(s) PROVE block[At(k) + j - 1] = s[j]
        OBVIOUS
      <4>1. /\ j - 1 \in 0..Len(s) /\ j - 1 < Len(s) /\ (j - 1) + 1 = j
            /\ At(k) + (j - 1) = At(k) + j - 1
        BY <3>1
      <4> QED BY <3>1, <4>1 DEF Byte
    <3>3. StringAt(At(k)) = [j \in 1..Len(s) |-> s[j]]
      BY <3>1, <3>2 DEF StringAt
    <3>4. [j \in 1..Len(s) |-> s[j]] = s
      BY <3>1
    <3> QED BY <2>2, <2>5, <3>1, <3>3, <3>4 DEF s
  <2> QED BY <2>3, <2>4, <2>5
<1> QED BY CopyInit, CopyNext, <1>1, PTL DEF Spec
=============================================================================
