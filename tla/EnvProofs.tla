------------------------------ MODULE EnvProofs ------------------------------
(***************************************************************************)
(* Proofs about the env_ routines for every set of holders, names and      *)
(* values, every memory and every allocator.                               *)
(***************************************************************************)
EXTENDS Env, TLAPS

(* Blocks of the two kinds in use are blocks, and neither is free. *)
LEMMA BlockTypes ==
  /\ Unused \in Blocks
  /\ \A c \in Seq(Pointer) : Array(c) \in Blocks /\ Array(c) # Unused /\ Array(c).cells = c
  /\ \A s \in Seq(Char) : String(s) \in Blocks /\ String(s) # Unused /\ String(s).text = s
BY DEF Blocks, Block, Unused, Array, String

(* What malloc hands out is free; only addresses are. *)
LEMMA FreshIsFree ==
  ASSUME TypeOK
  PROVE  \A a \in Fresh : a \in Addr /\ heap[a] = Unused
BY EnvInputs DEF Fresh, FreeAddr

(* An array of the same length after one cell is written, or none. *)
LEMMA CellTypes ==
  ASSUME NEW c \in Seq(Pointer), NEW k \in 1..Len(c), NEW q \in Addr \cup {NULL}
  PROVE  /\ [c EXCEPT ![k] = q] \in Seq(Pointer)
         /\ Len([c EXCEPT ![k] = q]) = Len(c)
         /\ [c EXCEPT ![k] = q][k] = q
         /\ \A j \in 1..Len(c) : j # k => [c EXCEPT ![k] = q][j] = c[j]
<1>1. c \in [1..Len(c) -> Pointer] /\ q \in Pointer /\ Len(c) \in Nat
  BY DEF Pointer
<1>2. [c EXCEPT ![k] = q] \in [1..Len(c) -> Pointer]
  BY <1>1
<1> QED BY <1>1, <1>2

LEMMA FreshCells ==
  ASSUME NEW c \in Seq(Pointer)
  PROVE  /\ [k \in DOMAIN c |-> Junk] \in Seq(Pointer)
         /\ Len([k \in DOMAIN c |-> Junk]) = Len(c)
<1>1. [k \in DOMAIN c |-> Junk] \in [1..Len(c) -> Pointer] /\ Len(c) \in Nat
  BY DEF Pointer
<1> QED BY <1>1

LEMMA EmptyCells ==
  /\ <<NULL>> \in Seq(Pointer) /\ Len(<<NULL>>) = 1 /\ <<NULL>>[1] = NULL
BY DEF Pointer

(* Names, values and the string glued from them are strings. *)
LEMMA GlueType ==
  ASSUME NEW n \in Names, NEW v \in Values
  PROVE  /\ glue_strings(MAX_ENVSTR, n, v, EQ).text = Setting(n, v)
         /\ Setting(n, v) \in Seq(Char)
         /\ glue_strings(MAX_ENVSTR, n, v, EQ).ok => FitsBuffer(n, v)
<1>1. n \in Seq(Char) /\ v \in Seq(Char) /\ MAX_ENVSTR \in Nat
  BY EnvInputs
<1>2. <<EQ>> \in Seq(Char) /\ Len(<<EQ>>) = 1
  BY EnvInputs
<1>3. Setting(n, v) \in Seq(Char) /\ Len(Setting(n, v)) = Len(n) + 1 + Len(v)
  BY <1>1, <1>2 DEF Setting
<1>4. glue_strings(MAX_ENVSTR, n, v, EQ) =
        [ok |-> Len(Setting(n, v)) < MAX_ENVSTR, text |-> Setting(n, v)]
  BY DEF glue_strings, Setting, EQ
<1>5. glue_strings(MAX_ENVSTR, n, v, EQ).ok => Len(Setting(n, v)) < MAX_ENVSTR
  <2>1. ASSUME NEW r, NEW a, NEW b, NEW t, r = [ok |-> a < b, text |-> t], r.ok
        PROVE  a < b
    BY <2>1, Zenon
  <2> QED BY <1>4, <2>1, Zenon
<1>6. Len(n) \in Nat /\ Len(v) \in Nat
  BY <1>1
<1> QED BY <1>1, <1>3, <1>4, <1>5, <1>6 DEF FitsBuffer

LEMMA GrownType ==
  ASSUME TypeOK, NEW c \in Seq(Pointer), Terminated(c), envtmp \in Addr
  PROVE  /\ Grown(c) \in Seq(Pointer) /\ Len(Grown(c)) = Len(c) + 1
         /\ \A k \in 1..(Len(c) - 1) : Grown(c)[k] = c[k]
         /\ Grown(c)[Len(c)] = envtmp /\ Grown(c)[Len(c) + 1] = NULL
<1>1. Len(c) \in Nat /\ Len(c) > 0 /\ c[Len(c)] = NULL
  BY DEF Terminated
<1>2. \A k \in 1..Len(c) : c[k] \in Pointer
  OBVIOUS
<1>3. \A k \in 1..(Len(c) + 1) :
        (IF k = Len(c) THEN envtmp ELSE IF k = Len(c) + 1 THEN c[Len(c)] ELSE c[k]) \in Pointer
  BY <1>1, <1>2 DEF Pointer
<1>4. Grown(c) \in [1..(Len(c) + 1) -> Pointer]
  BY <1>3 DEF Grown
<1>5. Grown(c) \in Seq(Pointer) /\ Len(Grown(c)) = Len(c) + 1
  BY <1>1, <1>4
<1> QED BY <1>1, <1>5 DEF Grown

(* The parts of a block that is anywhere in memory. *)
LEMMA HeapTypes ==
  ASSUME TypeOK
  PROVE  \A a \in Addr : heap[a] \in Blocks /\ cells(a) \in Seq(Pointer) /\ text(a) \in Seq(Char)
BY DEF TypeOK, Blocks, cells, text

(* The array of env_init, one cell of an array changed, the array that     *)
(* env_copy has filled, and an array that has grown, all end with NULL.    *)
LEMMA Terminates ==
  ASSUME TypeOK
  PROVE  /\ Terminated(<<NULL>>)
         /\ \A c \in Seq(Pointer) : Terminated(c) =>
              \A k \in 1..Len(c), q \in Addr : k < Len(c) => Terminated([c EXCEPT ![k] = q])
         /\ \A c \in Seq(Pointer) :
              Len(c) > 0 /\ (\A k \in 1..(Len(c) - 1) : c[k] \in Addr) =>
                Terminated([c EXCEPT ![Len(c)] = NULL])
         /\ envtmp \in Addr => \A c \in Seq(Pointer) : Terminated(c) => Terminated(Grown(c))
<1>1. Terminated(<<NULL>>)
  BY DEF Terminated
<1>2. ASSUME NEW c \in Seq(Pointer), Terminated(c), NEW k \in 1..Len(c), k < Len(c), NEW q \in Addr
      PROVE  Terminated([c EXCEPT ![k] = q])
  <2>1. /\ Len([c EXCEPT ![k] = q]) = Len(c) /\ Len(c) \in Nat
        /\ \A j \in 1..Len(c) : j # k => [c EXCEPT ![k] = q][j] = c[j]
        /\ [c EXCEPT ![k] = q][k] = q
    BY CellTypes
  <2> DEFINE d == [c EXCEPT ![k] = q]
  <2>2. Len(d) > 0 /\ d[Len(d)] = NULL /\ \A j \in 1..(Len(d) - 1) : d[j] \in Addr
    <3> HIDE DEF d
    <3>1. /\ Len(d) = Len(c) /\ Len(c) \in Nat /\ d[k] = q
          /\ \A j \in 1..Len(c) : j # k => d[j] = c[j]
      BY <2>1 DEF d
    <3> QED BY <1>2, <3>1 DEF Terminated
  <2> QED BY <2>2 DEF Terminated
<1>3. ASSUME NEW c \in Seq(Pointer), Len(c) > 0, \A k \in 1..(Len(c) - 1) : c[k] \in Addr
      PROVE  Terminated([c EXCEPT ![Len(c)] = NULL])
  <2> DEFINE d == [c EXCEPT ![Len(c)] = NULL]
  <2>1. Len(c) \in 1..Len(c)
    BY <1>3
  <2>2. /\ Len(d) = Len(c) /\ Len(c) \in Nat /\ d[Len(c)] = NULL
        /\ \A j \in 1..Len(c) : j # Len(c) => d[j] = c[j]
    BY <2>1, CellTypes
  <2> HIDE DEF d
  <2>3. Terminated(d)
    BY <1>3, <2>2 DEF Terminated
  <2> QED BY <2>3 DEF d
<1>4. ASSUME NEW c \in Seq(Pointer), Terminated(c), envtmp \in Addr
      PROVE  Terminated(Grown(c))
  <2>1. /\ Len(Grown(c)) = Len(c) + 1
        /\ \A k \in 1..(Len(c) - 1) : Grown(c)[k] = c[k]
        /\ Grown(c)[Len(c)] = envtmp /\ Grown(c)[Len(c) + 1] = NULL
    BY <1>4, GrownType
  <2>2. Len(c) \in Nat /\ Len(c) > 0 /\ \A k \in 1..(Len(c) - 1) : c[k] \in Addr
    BY <1>4 DEF Terminated
  <2>3. \A k \in 1..Len(c) : Grown(c)[k] \in Addr
    BY <1>4, <2>1, <2>2
  <2> QED BY <2>1, <2>2, <2>3 DEF Terminated
<1> QED BY <1>1, <1>2, <1>3, <1>4

(* A loop that has not met the NULL stands before a string. *)
LEMMA BeforeEnd ==
  ASSUME NEW c \in Seq(Pointer), Terminated(c), NEW k \in 1..Len(c)
  PROVE  /\ c[k] # NULL => k < Len(c) /\ c[k] \in Addr
         /\ c[k] = NULL => k = Len(c)
BY EnvInputs DEF Terminated

(* What env_copy works on. *)
LEMMA Copying ==
  ASSUME TypeOK, LoopsStop, pc \in {"copy", "unwind"}
  PROVE  /\ p \in Addr /\ src \in Addr /\ who \in Holders
         /\ cells(p) \in Seq(Pointer) /\ cells(src) \in Seq(Pointer)
         /\ Terminated(cells(src))
         /\ i \in 1..Len(cells(src)) /\ Len(cells(p)) = Len(cells(src))
<1>1. p \in Addr /\ src \in Addr /\ who \in Holders /\ i \in Nat \ {0}
  BY DEF TypeOK, LoopsStop
<1>2. PICK g \in Holders : src = envp[g]
  BY DEF LoopsStop
<1>3. src # NULL
  BY <1>1, EnvInputs
<1>4. Terminated(cells(src))
  BY <1>2, <1>3 DEF LoopsStop
<1>5. cells(p) \in Seq(Pointer) /\ cells(src) \in Seq(Pointer)
  BY <1>1, HeapTypes
<1>6. Len(cells(p)) = Len(cells(src)) /\ i <= Len(cells(src)) /\ Len(cells(src)) \in Nat
  BY <1>5 DEF LoopsStop
<1> QED BY <1>1, <1>4, <1>5, <1>6

-----------------------------------------------------------------------------
(***************************************************************************)
(* Type correctness.  The loops read a cell before they know what it is:   *)
(* that env_copy finds a string there, and not the end of its array, needs *)
(* LoopsStop.                                                              *)
(***************************************************************************)
LEMMA TypeInit == Init => TypeOK
BY BlockTypes DEF Init, TypeOK

LEMMA TypeNext == TypeOK /\ LoopsStop /\ [Next]_vars => TypeOK'
<1> SUFFICES ASSUME TypeOK, LoopsStop, [Next]_vars PROVE TypeOK'
  OBVIOUS
<1> USE EnvInputs DEF TypeOK
<1>1. ASSUME NEW h \in Holders, env_init(h) PROVE TypeOK'
  <2>1. PICK a \in Fresh : heap' = [heap EXCEPT ![a] = Array(<<NULL>>)] /\ envp' = [envp EXCEPT ![h] = a]
    BY <1>1 DEF env_init
  <2>2. Array(<<NULL>>) \in Blocks
    BY BlockTypes, EmptyCells
  <2>3. heap' \in [Addr -> Blocks] /\ envp' \in [Holders -> Addr \cup {NULL}]
    BY <2>1, <2>2, FreshIsFree
  <2> QED BY <1>1, <2>3 DEF env_init, locals
<1>2. ASSUME NEW g \in Holders, NEW h \in Holders, env_copy(g, h) PROVE TypeOK'
  <2>1. PICK a \in Fresh :
          /\ heap' = [heap EXCEPT ![a] = Array([k \in DOMAIN cells(envp[g]) |-> Junk])]
          /\ p' = a
    BY <1>2 DEF env_copy
  <2>2. envp[g] \in Addr
    BY <1>2 DEF env_copy
  <2>3. Array([k \in DOMAIN cells(envp[g]) |-> Junk]) \in Blocks
    BY <2>2, BlockTypes, FreshCells, HeapTypes
  <2>4. heap' \in [Addr -> Blocks] /\ p' \in Addr
    BY <2>1, <2>3, FreshIsFree
  <2> QED BY <1>2, <2>2, <2>4 DEF env_copy
<1>3. ASSUME NEW h \in Holders, NEW n \in Names, NEW v \in Values, env_set(h, n, v)
      PROVE  TypeOK'
  BY <1>3, GlueType, FreshIsFree, BlockTypes DEF env_set
<1>4. ASSUME NEW h \in Holders, env_free(h) PROVE TypeOK'
  BY <1>4 DEF env_free
<1>5. CASE CopyString
  <2>1. /\ p \in Addr /\ src \in Addr
        /\ cells(src)[i] \in Addr
        /\ i \in 1..Len(cells(src)) /\ Len(cells(p)) = Len(cells(src))
    BY <1>5, Copying, BeforeEnd DEF CopyString
  <2>2. CASE pc' = "unwind" /\ UNCHANGED <<heap, i>>
    BY <1>5, <2>2 DEF CopyString
  <2>3. ASSUME NEW a \in Fresh,
               heap' = [heap EXCEPT ![a] = heap[cells(src)[i]],
                                    ![p] = Array([cells(p) EXCEPT ![i] = a])],
               i' = i + 1, pc' = pc
        PROVE  TypeOK'
    <3>1. a \in Addr /\ heap[cells(src)[i]] \in Blocks
      BY <2>1, FreshIsFree
    <3>2. Array([cells(p) EXCEPT ![i] = a]) \in Blocks
      BY <2>1, <3>1, HeapTypes, CellTypes, BlockTypes
    <3>3. heap' \in [Addr -> Blocks]
      BY <2>3, <3>1, <3>2
    <3> QED BY <1>5, <2>3, <3>3 DEF CopyString
  <2> QED BY <1>5, <2>2, <2>3 DEF CopyString
<1>6. CASE CopyEnd
  <2>1. /\ p \in Addr /\ src \in Addr /\ who \in Holders
        /\ i \in 1..Len(cells(src)) /\ Len(cells(p)) = Len(cells(src))
    BY <1>6, Copying DEF CopyEnd
  <2>2. Array([cells(p) EXCEPT ![i] = NULL]) \in Blocks
    BY <2>1, HeapTypes, CellTypes, BlockTypes
  <2>3. heap' \in [Addr -> Blocks] /\ envp' \in [Holders -> Addr \cup {NULL}]
    BY <1>6, <2>1, <2>2 DEF CopyEnd
  <2> QED BY <1>6, <2>3 DEF CopyEnd, Return
<1>7. CASE UnwindString
  <2>1. heap' \in [Addr -> Blocks]
    BY <1>7, BlockTypes DEF UnwindString
  <2> QED BY <1>7, <2>1 DEF UnwindString
<1>8. CASE UnwindArray
  BY <1>8, BlockTypes DEF UnwindArray, Return
<1>9. CASE Replace
  <2>1. PICK k \in Found :
          heap' = [heap EXCEPT ![cells(envp[who])[k]] = Unused,
                               ![envp[who]] = Array([cells(envp[who]) EXCEPT ![k] = envtmp])]
    BY <1>9 DEF Replace
  <2>2. envp[who] \in Addr /\ envtmp \in Addr
    BY <1>9 DEF Replace, LoopsStop
  <2>3. k \in 1..Len(cells(envp[who])) /\ cells(envp[who]) \in Seq(Pointer)
    BY <2>2, HeapTypes DEF Found
  <2>4. Array([cells(envp[who]) EXCEPT ![k] = envtmp]) \in Blocks
    BY <2>2, <2>3, CellTypes, BlockTypes
  <2>5. heap' \in [Addr -> Blocks]
    BY <2>1, <2>4, BlockTypes
  <2> QED BY <1>9, <2>5 DEF Replace, Return
<1>10. CASE Grow
  BY <1>10, GrownType, FreshIsFree, HeapTypes, BlockTypes DEF Grow, Return, LoopsStop
<1>11. CASE GrowFails
  BY <1>11, BlockTypes DEF GrowFails, Return
<1>12. CASE FreeString
  <2>1. heap' \in [Addr -> Blocks]
    BY <1>12, BlockTypes DEF FreeString
  <2> QED BY <1>12, <2>1 DEF FreeString
<1>13. CASE FreeArray
  <2>1. heap' \in [Addr -> Blocks] /\ envp' \in [Holders -> Addr \cup {NULL}]
    BY <1>13, BlockTypes DEF FreeArray
  <2> QED BY <1>13, <2>1 DEF FreeArray, Return
<1>14. CASE UNCHANGED vars
  BY <1>14 DEF vars
<1> QED BY <1>1, <1>2, <1>3, <1>4, <1>5, <1>6, <1>7, <1>8, <1>9, <1>10, <1>11,
           <1>12, <1>13, <1>14 DEF Next, Call, Work

-----------------------------------------------------------------------------
(***************************************************************************)
(* Claims on blocks.  A step claims a free block, gives one up, or passes  *)
(* one on; each keeps every block claimed once.                            *)
(***************************************************************************)
LEMMA Claim ==
  \A o, k, a : Owns(o, k, a).owner = o /\ Owns(o, k, a).at = k /\ Owns(o, k, a).block = a
BY DEF Owns

LEMMA ClaimsBlock ==
  ASSUME NEW R, NEW A, Once(R, A), NEW x, x.block \notin A
  PROVE  Once(R \cup {x}, A \cup {x.block})
BY DEF Once

LEMMA GivesUp ==
  ASSUME NEW R, NEW A, Once(R, A), NEW x \in R
  PROVE  Once(R \ {x}, A \ {x.block})
BY DEF Once

LEMMA PassesOn ==
  ASSUME NEW R, NEW A, Once(R, A), NEW x \in R, NEW y, y.block = x.block
  PROVE  Once((R \ {x}) \cup {y}, A)
BY DEF Once

LEMMA PassesAllOn ==
  ASSUME NEW R, NEW A, Once(R, A), NEW S \in SUBSET R, NEW T,
         Once(T, {x.block : x \in S})
  PROVE  Once((R \ S) \cup T, A)
BY DEF Once

(* A claim is on memory in use, and there is no second one on it. *)
LEMMA Claimed ==
  ASSUME OwnedOnce, NEW x \in Ownership, NEW y \in Ownership
  PROVE  /\ x.block \in Addr /\ heap[x.block] # Unused
         /\ x.block = y.block => x = y
<1>1. x.block \in Addr \ FreeAddr
  BY DEF OwnedOnce, Once
<1> QED BY <1>1 DEF OwnedOnce, Once, FreeAddr

(* The claims there are. *)
LEMMA Claims ==
  /\ \A h \in Holders : envp[h] # NULL =>
       /\ Owns(h, 0, envp[h]) \in Ownership
       /\ \A k \in Live(h) : Owns(h, k, cells(envp[h])[k]) \in Ownership
  /\ pc \in {"copy", "unwind"} =>
       /\ Owns("env_copy", 0, p) \in Ownership
       /\ \A k \in 1..(i - 1) : Owns("env_copy", k, cells(p)[k]) \in Ownership
  /\ pc = "set" => Owns("env_set", 0, envtmp) \in Ownership
<1>1. ASSUME NEW h \in Holders, envp[h] # NULL
      PROVE  /\ Owns(h, 0, envp[h]) \in Ownership
             /\ \A k \in Live(h) : Owns(h, k, cells(envp[h])[k]) \in Ownership
  <2>1. OfHolder(h) = {Owns(h, 0, envp[h])} \cup {Owns(h, k, cells(envp[h])[k]) : k \in Live(h)}
    BY <1>1 DEF OfHolder
  <2>2. OfHolder(h) \subseteq Ownership
    BY DEF Ownership
  <2> QED BY <2>1, <2>2
<1>2. ASSUME pc \in {"copy", "unwind"}
      PROVE  /\ Owns("env_copy", 0, p) \in Ownership
             /\ \A k \in 1..(i - 1) : Owns("env_copy", k, cells(p)[k]) \in Ownership
  <2>1. OfCopy = {Owns("env_copy", 0, p)} \cup {Owns("env_copy", k, cells(p)[k]) : k \in 1..(i - 1)}
    BY <1>2 DEF OfCopy
  <2> QED BY <2>1 DEF Ownership
<1>3. pc = "set" => Owns("env_set", 0, envtmp) \in Ownership
  BY DEF OfSet, Ownership
<1> QED BY <1>1, <1>2, <1>3

(* Arrays are apart from each other and from strings, and in use. *)
LEMMA ArraysApart ==
  ASSUME TypeOK, OwnedOnce
  PROVE  /\ \A h \in Holders : envp[h] # NULL => envp[h] \in Addr /\ heap[envp[h]] # Unused
         /\ \A g, h \in Holders : envp[g] # NULL /\ envp[g] = envp[h] => g = h
         /\ \A g, h \in Holders : envp[g] # NULL /\ envp[h] # NULL =>
              \A k \in Live(h) : cells(envp[h])[k] # envp[g]
         /\ pc \in {"copy", "unwind"} =>
              /\ heap[p] # Unused
              /\ \A h \in Holders : p # envp[h]
              /\ \A k \in 1..(i - 1) : cells(p)[k] # p
              /\ \A h \in Holders : envp[h] # NULL => \A k \in 1..(i - 1) : cells(p)[k] # envp[h]
              /\ \A h \in Holders : envp[h] # NULL => \A k \in Live(h) : cells(envp[h])[k] # p
         /\ pc = "set" =>
              /\ heap[envtmp] # Unused
              /\ \A h \in Holders : envtmp # envp[h]
<1> USE Claims, Claimed, Claim
<1>1. \A h \in Holders : envp[h] # NULL => envp[h] \in Addr /\ heap[envp[h]] # Unused
  OBVIOUS
<1>2. \A g, h \in Holders : envp[g] # NULL /\ envp[g] = envp[h] => g = h
  OBVIOUS
<1>3. \A h \in Holders : \A k \in Live(h) : envp[h] # NULL => k # 0
  BY HeapTypes DEF TypeOK, Live
<1>4. \A g, h \in Holders : envp[g] # NULL /\ envp[h] # NULL =>
        \A k \in Live(h) : cells(envp[h])[k] # envp[g]
  BY <1>3
<1>5. ASSUME pc \in {"copy", "unwind"}
      PROVE  /\ heap[p] # Unused
             /\ \A h \in Holders : p # envp[h]
             /\ \A k \in 1..(i - 1) : cells(p)[k] # p
             /\ \A h \in Holders : envp[h] # NULL => \A k \in 1..(i - 1) : cells(p)[k] # envp[h]
             /\ \A h \in Holders : envp[h] # NULL => \A k \in Live(h) : cells(envp[h])[k] # p
  <2>1. heap[p] # Unused /\ p # NULL
    BY <1>5, EnvInputs DEF TypeOK
  <2>2. \A h \in Holders : p # envp[h]
    BY <1>5, <2>1, EnvInputs
  <2>3. \A k \in 1..(i - 1) : cells(p)[k] # p
    BY <1>5 DEF TypeOK
  <2>4. \A h \in Holders : envp[h] # NULL => \A k \in 1..(i - 1) : cells(p)[k] # envp[h]
    BY <1>5, EnvInputs
  <2>5. \A h \in Holders : envp[h] # NULL => \A k \in Live(h) : cells(envp[h])[k] # p
    BY <1>5, EnvInputs
  <2> QED BY <2>1, <2>2, <2>3, <2>4, <2>5
<1>6. ASSUME pc = "set"
      PROVE  heap[envtmp] # Unused /\ \A h \in Holders : envtmp # envp[h]
  <2>1. heap[envtmp] # Unused /\ envtmp # NULL
    BY <1>6, EnvInputs DEF TypeOK
  <2> QED BY <1>6, <2>1, EnvInputs
<1> QED BY <1>1, <1>2, <1>4, <1>5, <1>6

(* Strings are apart from each other, and in use. *)
LEMMA StringsApart ==
  ASSUME TypeOK, OwnedOnce
  PROVE  /\ \A h \in Holders : envp[h] # NULL =>
              \A k \in Live(h) : cells(envp[h])[k] \in Addr /\ heap[cells(envp[h])[k]] # Unused
         /\ \A g, h \in Holders : envp[g] # NULL /\ envp[h] # NULL =>
              \A j \in Live(g) : \A k \in Live(h) :
                cells(envp[g])[j] = cells(envp[h])[k] => g = h /\ j = k
         /\ pc \in {"copy", "unwind"} =>
              /\ \A k \in 1..(i - 1) : cells(p)[k] \in Addr /\ heap[cells(p)[k]] # Unused
              /\ \A j, k \in 1..(i - 1) : cells(p)[j] = cells(p)[k] => j = k
              /\ \A h \in Holders : envp[h] # NULL =>
                   \A j \in 1..(i - 1) : \A k \in Live(h) : cells(p)[j] # cells(envp[h])[k]
         /\ pc = "set" => \A h \in Holders : envp[h] # NULL =>
              \A k \in Live(h) : cells(envp[h])[k] # envtmp
<1> USE Claims, Claimed, Claim
<1>1. \A h \in Holders : envp[h] # NULL =>
        \A k \in Live(h) : cells(envp[h])[k] \in Addr /\ heap[cells(envp[h])[k]] # Unused
  OBVIOUS
<1>2. \A g, h \in Holders : envp[g] # NULL /\ envp[h] # NULL =>
        \A j \in Live(g) : \A k \in Live(h) :
          cells(envp[g])[j] = cells(envp[h])[k] => g = h /\ j = k
  OBVIOUS
<1>3. ASSUME pc \in {"copy", "unwind"}
      PROVE  /\ \A k \in 1..(i - 1) : cells(p)[k] \in Addr /\ heap[cells(p)[k]] # Unused
             /\ \A j, k \in 1..(i - 1) : cells(p)[j] = cells(p)[k] => j = k
             /\ \A h \in Holders : envp[h] # NULL =>
                  \A j \in 1..(i - 1) : \A k \in Live(h) : cells(p)[j] # cells(envp[h])[k]
  <2>1. \A k \in 1..(i - 1) : cells(p)[k] \in Addr /\ heap[cells(p)[k]] # Unused
    BY <1>3
  <2>2. \A j, k \in 1..(i - 1) : cells(p)[j] = cells(p)[k] => j = k
    BY <1>3
  <2>3. \A h \in Holders : envp[h] # NULL =>
          \A j \in 1..(i - 1) : \A k \in Live(h) : cells(p)[j] # cells(envp[h])[k]
    BY <1>3, EnvInputs
  <2> QED BY <2>1, <2>2, <2>3
<1>4. ASSUME pc = "set", NEW h \in Holders, envp[h] # NULL, NEW k \in Live(h)
      PROVE  cells(envp[h])[k] # envtmp
  BY <1>4, EnvInputs
<1> QED BY <1>1, <1>2, <1>3, <1>4

-----------------------------------------------------------------------------
(***************************************************************************)
(* LoopsStop.  A step writes into fresh blocks, into the array it works    *)
(* on, and into strings; that these are not the arrays of the other        *)
(* holders, nor the one that is copied, is OwnedOnce.                      *)
(***************************************************************************)
LEMMA LoopsInit == Init => LoopsStop
BY DEF Init, LoopsStop

(* The array of a holder that a step leaves alone. *)
LEMMA ArrayStays ==
  ASSUME LoopsStop, NEW h \in Holders, envp'[h] # NULL,
         envp'[h] = envp[h], heap'[envp[h]] = heap[envp[h]]
  PROVE  Terminated(cells(envp[h]))'
BY DEF LoopsStop, cells

LEMMA LoopsNext == TypeOK /\ OwnedOnce /\ LoopsStop /\ [Next]_vars => LoopsStop'
<1> SUFFICES ASSUME TypeOK, OwnedOnce, LoopsStop, [Next]_vars PROVE LoopsStop'
  OBVIOUS
<1> USE EnvInputs
<1>1. ASSUME NEW h \in Holders, env_init(h) PROVE LoopsStop'
  <2>1. PICK a \in Fresh : heap' = [heap EXCEPT ![a] = Array(<<NULL>>)] /\ envp' = [envp EXCEPT ![h] = a]
    BY <1>1 DEF env_init
  <2>2. pc' = "idle" /\ i' = 1
    BY <1>1 DEF env_init, locals, LoopsStop
  <2>3. a \in Addr /\ heap[a] = Unused
    BY FreshIsFree
  <2>4. Terminated(cells(envp[h]))'
    <3>1. heap'[a] = Array(<<NULL>>) /\ envp'[h] = a
      BY <2>1, <2>3 DEF TypeOK
    <3>2. heap'[a].cells = <<NULL>>
      BY <3>1, EmptyCells, BlockTypes
    <3> QED BY <3>1, <3>2, Terminates DEF cells
  <2>5. ASSUME NEW g \in Holders, envp'[g] # NULL, g # h PROVE Terminated(cells(envp[g]))'
    BY <2>1, <2>3, <2>5, ArrayStays, ArraysApart DEF TypeOK
  <2> QED BY <2>2, <2>4, <2>5 DEF LoopsStop
<1>2. ASSUME NEW g \in Holders, NEW h \in Holders, env_copy(g, h) PROVE LoopsStop'
  <2>1. PICK a \in Fresh :
          /\ heap' = [heap EXCEPT ![a] = Array([k \in DOMAIN cells(envp[g]) |-> Junk])]
          /\ p' = a
    BY <1>2 DEF env_copy
  <2>2. /\ pc' = "copy" /\ who' = h /\ src' = envp[g] /\ i' = 1 /\ envp' = envp
        /\ envp[g] # NULL /\ envp[h] = NULL
    BY <1>2 DEF env_copy
  <2>3. a \in Addr /\ heap[a] = Unused /\ envp[g] \in Addr /\ heap[envp[g]] # Unused
    BY <2>2, FreshIsFree, ArraysApart DEF TypeOK
  <2>4. cells(envp[g]) \in Seq(Pointer) /\ Len(cells(envp[g])) > 0
    BY <2>2, <2>3, HeapTypes DEF LoopsStop, Terminated
  <2>5. heap'[envp[g]] = heap[envp[g]] /\ Len(heap'[a].cells) = Len(cells(envp[g]))
    BY <2>1, <2>3, <2>4, FreshCells, BlockTypes DEF TypeOK
  <2>6. Len(cells(p))' = Len(cells(src))' /\ i' <= Len(cells(src))' /\ (i - 1)' = 0
    BY <2>1, <2>2, <2>4, <2>5 DEF cells
  <2>7. ASSUME NEW w \in Holders, envp'[w] # NULL PROVE Terminated(cells(envp[w]))'
    BY <2>1, <2>2, <2>3, <2>7, ArrayStays, ArraysApart DEF TypeOK
  <2> QED BY <2>2, <2>6, <2>7 DEF LoopsStop
<1>3. ASSUME NEW h \in Holders, NEW n \in Names, NEW v \in Values, env_set(h, n, v)
      PROVE  LoopsStop'
  <2>1. PICK a \in Fresh : \E s : heap' = [heap EXCEPT ![a] = String(s)]
    BY <1>3 DEF env_set
  <2>2. pc' = "set" /\ who' = h /\ i' = 1 /\ envp' = envp /\ envp[h] # NULL
    BY <1>3 DEF env_set, LoopsStop
  <2>3. a \in Addr /\ heap[a] = Unused
    BY FreshIsFree
  <2>4. ASSUME NEW w \in Holders, envp'[w] # NULL PROVE Terminated(cells(envp[w]))'
    BY <2>1, <2>2, <2>3, <2>4, ArrayStays, ArraysApart DEF TypeOK
  <2> QED BY <2>2, <2>4 DEF LoopsStop
<1>4. ASSUME NEW h \in Holders, env_free(h) PROVE LoopsStop'
  <2>1. /\ pc' = "free" /\ who' = h /\ i' = 1 /\ envp' = envp /\ heap' = heap
        /\ envp[h] # NULL
    BY <1>4 DEF env_free, LoopsStop
  <2>2. Len(cells(envp[h])) \in Nat /\ Len(cells(envp[h])) > 0
    BY <2>1, HeapTypes DEF LoopsStop, Terminated, TypeOK
  <2>3. i' <= Len(cells(envp[who]))'
    BY <2>1, <2>2 DEF cells
  <2>4. ASSUME NEW w \in Holders, envp'[w] # NULL PROVE Terminated(cells(envp[w]))'
    BY <2>1, <2>4, ArrayStays
  <2> QED BY <2>1, <2>3, <2>4 DEF LoopsStop
<1>5. CASE CopyString
  <2>1. /\ p \in Addr /\ src \in Addr /\ who \in Holders
        /\ cells(p) \in Seq(Pointer) /\ cells(src) \in Seq(Pointer)
        /\ i \in 1..Len(cells(src)) /\ Len(cells(p)) = Len(cells(src))
        /\ i < Len(cells(src))
    BY <1>5, Copying, BeforeEnd DEF CopyString
  <2>2. /\ pc = "copy" /\ envp' = envp /\ who' = who /\ src' = src /\ p' = p
        /\ envp[who] = NULL
        /\ \A k \in 1..(i - 1) : cells(p)[k] \in Addr
    BY <1>5 DEF CopyString, LoopsStop
  <2>3. PICK g \in Holders : src = envp[g]
    BY <2>2 DEF LoopsStop
  <2>4. CASE pc' = "unwind" /\ UNCHANGED <<heap, i>>
    BY <2>2, <2>4 DEF LoopsStop, cells
  <2>5. ASSUME NEW a \in Fresh,
               heap' = [heap EXCEPT ![a] = heap[cells(src)[i]],
                                    ![p] = Array([cells(p) EXCEPT ![i] = a])],
               i' = i + 1, pc' = pc
        PROVE  LoopsStop'
    <3>1. a \in Addr /\ heap[a] = Unused /\ src # NULL
      BY <2>1, FreshIsFree
    <3>2. heap'[p] = Array([cells(p) EXCEPT ![i] = a])
      BY <2>1, <2>5, <3>1 DEF TypeOK
    <3>3. \A b \in Addr : b # a /\ b # p => heap'[b] = heap[b]
      BY <2>1, <2>5, <3>1 DEF TypeOK
    <3>4. /\ Len(heap'[p].cells) = Len(cells(p)) /\ heap'[p].cells[i] = a
          /\ \A k \in 1..Len(cells(p)) : k # i => heap'[p].cells[k] = cells(p)[k]
      <4> DEFINE d == [cells(p) EXCEPT ![i] = a]
      <4>1. /\ d \in Seq(Pointer) /\ Len(d) = Len(cells(p)) /\ d[i] = a
            /\ \A k \in 1..Len(cells(p)) : k # i => d[k] = cells(p)[k]
        BY <2>1, <3>1, CellTypes
      <4> HIDE DEF d
      <4>2. heap'[p].cells = d
        BY <3>2, <4>1, BlockTypes DEF d
      <4> QED BY <4>1, <4>2
    <3>5. \A w \in Holders : envp[w] # NULL => heap'[envp[w]] = heap[envp[w]]
      BY <2>2, <3>1, <3>3, ArraysApart DEF TypeOK
    <3>6. ASSUME NEW w \in Holders, envp'[w] # NULL PROVE Terminated(cells(envp[w]))'
      BY <2>2, <3>5, <3>6, ArrayStays
    <3>7. Len(cells(p))' = Len(cells(src))' /\ i' <= Len(cells(src))'
      <4>1. heap'[src] = heap[src]
        BY <2>3, <3>1, <3>5
      <4>2. Len(heap'[p].cells) = Len(heap'[src].cells) /\ i + 1 <= Len(heap'[src].cells)
        BY <2>1, <3>4, <4>1 DEF cells
      <4> QED BY <2>2, <2>5, <4>2 DEF cells
    <3>8. \A k \in 1..(i' - 1) : heap'[p].cells[k] \in Addr
      <4>1. ASSUME NEW k \in 1..i PROVE heap'[p].cells[k] \in Addr
        BY <2>1, <2>2, <3>1, <3>4
      <4>2. i' - 1 = i
        BY <2>1, <2>5
      <4> QED BY <4>1, <4>2
    <3> QED BY <2>1, <2>2, <2>3, <2>5, <3>6, <3>7, <3>8 DEF LoopsStop, cells
  <2> QED BY <1>5, <2>4, <2>5 DEF CopyString
<1>6. CASE CopyEnd
  <2>1. /\ p \in Addr /\ src \in Addr /\ who \in Holders
        /\ cells(p) \in Seq(Pointer) /\ cells(src) \in Seq(Pointer)
        /\ Len(cells(p)) = Len(cells(src)) /\ i = Len(cells(p)) /\ i \in 1..Len(cells(p))
    BY <1>6, Copying, BeforeEnd DEF CopyEnd
  <2>2. /\ heap' = [heap EXCEPT ![p] = Array([cells(p) EXCEPT ![i] = NULL])]
        /\ envp' = [envp EXCEPT ![who] = p] /\ pc' = "idle" /\ i' = 1
        /\ \A k \in 1..(i - 1) : cells(p)[k] \in Addr
    BY <1>6 DEF CopyEnd, Return, LoopsStop
  <2>3. Terminated(heap'[p].cells)
    <3> DEFINE d == [cells(p) EXCEPT ![i] = NULL]
    <3>1. Terminated(d)
      <4>1. Len(cells(p)) > 0 /\ \A k \in 1..(Len(cells(p)) - 1) : cells(p)[k] \in Addr
        BY <2>1, <2>2
      <4>2. Terminated([cells(p) EXCEPT ![Len(cells(p))] = NULL])
        BY <2>1, <4>1, Terminates
      <4> QED BY <2>1, <4>2
    <3>2. d \in Seq(Pointer)
      BY <2>1, CellTypes
    <3>3. heap'[p] = Array(d)
      BY <2>1, <2>2 DEF TypeOK
    <3> HIDE DEF d
    <3> QED BY <3>1, <3>2, <3>3, BlockTypes
  <2>4. ASSUME NEW w \in Holders, envp'[w] # NULL PROVE Terminated(cells(envp[w]))'
    <3>1. CASE w = who
      BY <2>1, <2>2, <2>3, <3>1 DEF cells, TypeOK
    <3>2. CASE w # who
      <4>1. envp'[w] = envp[w] /\ envp[w] # p
        BY <1>6, <2>2, <2>4, <3>2, ArraysApart DEF TypeOK, CopyEnd
      <4>2. heap'[envp[w]] = heap[envp[w]]
        BY <2>2, <2>4, <4>1 DEF TypeOK
      <4> QED BY <2>4, <4>1, <4>2, ArrayStays
    <3> QED BY <3>1, <3>2
  <2> QED BY <2>2, <2>4 DEF LoopsStop
<1>7. CASE UnwindString
  <2>1. /\ p \in Addr /\ src \in Addr /\ who \in Holders /\ i \in Nat /\ i > 1
        /\ Len(cells(p)) = Len(cells(src)) /\ i <= Len(cells(src)) /\ Len(cells(src)) \in Nat
    BY <1>7, Copying DEF UnwindString
  <2>2. /\ pc = "unwind" /\ pc' = pc /\ envp' = envp /\ who' = who /\ src' = src /\ p' = p
        /\ i' = i - 1 /\ envp[who] = NULL
        /\ heap' = [heap EXCEPT ![cells(p)[i - 1]] = Unused]
        /\ \A k \in 1..(i - 1) : cells(p)[k] \in Addr
    BY <1>7 DEF UnwindString, LoopsStop
  <2>3. PICK g \in Holders : src = envp[g]
    BY <2>2 DEF LoopsStop
  <2>4. i - 1 \in 1..(i - 1)
    BY <2>1
  <2>5. heap'[p] = heap[p]
    BY <2>1, <2>2, <2>4, ArraysApart DEF TypeOK
  <2>6. \A w \in Holders : envp[w] # NULL => heap'[envp[w]] = heap[envp[w]]
    BY <2>2, <2>4, ArraysApart DEF TypeOK
  <2>7. ASSUME NEW w \in Holders, envp'[w] # NULL PROVE Terminated(cells(envp[w]))'
    BY <2>2, <2>6, <2>7, ArrayStays
  <2>8. heap'[src] = heap[src]
    BY <2>1, <2>3, <2>6
  <2>9. Len(cells(p))' = Len(cells(src))' /\ i' <= Len(cells(src))'
    BY <2>1, <2>2, <2>5, <2>8 DEF cells
  <2>10. \A k \in 1..(i' - 1) : heap'[p].cells[k] \in Addr
    BY <2>1, <2>2, <2>5 DEF cells
  <2> QED BY <2>1, <2>2, <2>3, <2>7, <2>9, <2>10 DEF LoopsStop, cells
<1>8. CASE UnwindArray
  <2>1. /\ heap' = [heap EXCEPT ![p] = Unused] /\ envp' = envp /\ pc' = "idle" /\ i' = 1
        /\ pc = "unwind"
    BY <1>8 DEF UnwindArray, Return
  <2>2. ASSUME NEW w \in Holders, envp'[w] # NULL PROVE Terminated(cells(envp[w]))'
    BY <2>1, <2>2, ArraysApart, ArrayStays DEF TypeOK
  <2> QED BY <2>1, <2>2 DEF LoopsStop
<1>9. CASE Replace
  <2>1. PICK k \in Found :
          heap' = [heap EXCEPT ![cells(envp[who])[k]] = Unused,
                               ![envp[who]] = Array([cells(envp[who]) EXCEPT ![k] = envtmp])]
    BY <1>9 DEF Replace
  <2>2. pc = "set" /\ envp' = envp /\ pc' = "idle" /\ i' = 1 /\ envtmp \in Addr
    BY <1>9 DEF Replace, Return, TypeOK
  <2>3. /\ who \in Holders /\ envp[who] # NULL /\ envp[who] \in Addr
        /\ Terminated(cells(envp[who])) /\ cells(envp[who]) \in Seq(Pointer)
    BY <2>2, HeapTypes DEF LoopsStop, TypeOK
  <2>4. /\ k \in 1..Len(cells(envp[who])) /\ k \in Live(who)
        /\ k < Len(cells(envp[who])) /\ cells(envp[who])[k] \in Addr
    BY <2>2, <2>3, BeforeEnd DEF Found, Live
  <2>5. heap'[envp[who]] = Array([cells(envp[who]) EXCEPT ![k] = envtmp])
    BY <2>1, <2>3, <2>4 DEF TypeOK
  <2>6. Terminated(heap'[envp[who]].cells)
    <3> DEFINE d == [cells(envp[who]) EXCEPT ![k] = envtmp]
    <3>1. Terminated(d)
      BY <2>2, <2>3, <2>4, Terminates
    <3>2. d \in Seq(Pointer)
      BY <2>2, <2>3, <2>4, CellTypes
    <3> HIDE DEF d
    <3> QED BY <2>5, <3>1, <3>2, BlockTypes DEF d
  <2>7. ASSUME NEW w \in Holders, envp'[w] # NULL PROVE Terminated(cells(envp[w]))'
    <3>1. CASE w = who
      BY <2>2, <2>6, <3>1 DEF cells
    <3>2. CASE w # who
      <4>1. envp[w] # envp[who] /\ envp[w] # cells(envp[who])[k] /\ envp[w] \in Addr
        BY <2>2, <2>3, <2>4, <2>7, <3>2, ArraysApart
      <4>2. heap'[envp[w]] = heap[envp[w]]
        BY <2>1, <2>3, <2>4, <4>1 DEF TypeOK
      <4> QED BY <2>2, <2>7, <4>2, ArrayStays
    <3> QED BY <3>1, <3>2
  <2> QED BY <2>2, <2>7 DEF LoopsStop
<1>10. CASE Grow
  <2>1. PICK b \in Fresh \cup {envp[who]} :
          /\ heap' = [a \in Addr |-> IF a = b THEN Array(Grown(cells(envp[who])))
                                     ELSE IF a = envp[who] THEN Unused ELSE heap[a]]
          /\ envp' = [envp EXCEPT ![who] = b]
    BY <1>10 DEF Grow
  <2>2. pc = "set" /\ pc' = "idle" /\ i' = 1 /\ envtmp \in Addr
    BY <1>10 DEF Grow, Return, TypeOK
  <2>3. /\ who \in Holders /\ envp[who] # NULL /\ envp[who] \in Addr
        /\ Terminated(cells(envp[who])) /\ cells(envp[who]) \in Seq(Pointer)
    BY <2>2, HeapTypes DEF LoopsStop, TypeOK
  <2>4. b \in Addr /\ (b = envp[who] \/ heap[b] = Unused)
    BY <2>3, FreshIsFree
  <2>5. heap'[b].cells = Grown(cells(envp[who]))
    BY <2>1, <2>2, <2>3, <2>4, GrownType, BlockTypes
  <2>6. Terminated(Grown(cells(envp[who])))
    BY <2>2, <2>3, Terminates
  <2>7. ASSUME NEW w \in Holders, envp'[w] # NULL PROVE Terminated(cells(envp[w]))'
    <3>1. CASE w = who
      BY <2>1, <2>3, <2>5, <2>6, <3>1 DEF cells, TypeOK
    <3>2. CASE w # who
      <4>1. envp'[w] = envp[w] /\ envp[w] # NULL
        BY <2>1, <2>7, <3>2 DEF TypeOK
      <4>2. envp[w] # envp[who] /\ envp[w] # b /\ envp[w] \in Addr
        BY <2>3, <2>4, <3>2, <4>1, ArraysApart
      <4>3. heap'[envp[w]] = heap[envp[w]]
        BY <2>1, <4>2
      <4> QED BY <2>7, <4>1, <4>3, ArrayStays
    <3> QED BY <3>1, <3>2
  <2> QED BY <2>2, <2>7 DEF LoopsStop
<1>11. CASE GrowFails
  <2>1. /\ heap' = [heap EXCEPT ![envtmp] = Unused] /\ envp' = envp /\ pc' = "idle" /\ i' = 1
        /\ pc = "set"
    BY <1>11 DEF GrowFails, Return
  <2>2. ASSUME NEW w \in Holders, envp'[w] # NULL PROVE Terminated(cells(envp[w]))'
    BY <2>1, <2>2, ArraysApart, ArrayStays DEF TypeOK
  <2> QED BY <2>1, <2>2 DEF LoopsStop
<1>12. CASE FreeString
  <2>1. /\ pc = "free" /\ pc' = pc /\ envp' = envp /\ who' = who /\ i' = i + 1
        /\ heap' = [heap EXCEPT ![cells(envp[who])[i]] = Unused]
        /\ cells(envp[who])[i] # NULL
    BY <1>12 DEF FreeString
  <2>2. /\ who \in Holders /\ envp[who] # NULL /\ envp[who] \in Addr
        /\ Terminated(cells(envp[who])) /\ cells(envp[who]) \in Seq(Pointer)
        /\ i \in Nat \ {0} /\ i <= Len(cells(envp[who]))
    BY <2>1, HeapTypes DEF LoopsStop, TypeOK
  <2>3. /\ i \in Live(who) /\ i < Len(cells(envp[who])) /\ cells(envp[who])[i] \in Addr
    BY <2>1, <2>2, BeforeEnd DEF Live
  <2>4. \A w \in Holders : envp[w] # NULL => heap'[envp[w]] = heap[envp[w]]
    BY <2>1, <2>2, <2>3, ArraysApart DEF TypeOK
  <2>5. ASSUME NEW w \in Holders, envp'[w] # NULL PROVE Terminated(cells(envp[w]))'
    BY <2>1, <2>4, <2>5, ArrayStays
  <2>6. i' <= Len(cells(envp[who]))'
    BY <2>1, <2>2, <2>3, <2>4 DEF cells
  <2> QED BY <2>1, <2>2, <2>5, <2>6 DEF LoopsStop
<1>13. CASE FreeArray
  <2>1. /\ heap' = [heap EXCEPT ![envp[who]] = Unused] /\ envp' = [envp EXCEPT ![who] = NULL]
        /\ pc = "free" /\ pc' = "idle" /\ i' = 1
    BY <1>13 DEF FreeArray, Return
  <2>2. who \in Holders /\ envp[who] # NULL
    BY <2>1 DEF LoopsStop
  <2>3. ASSUME NEW w \in Holders, envp'[w] # NULL PROVE Terminated(cells(envp[w]))'
    <3>1. w # who /\ envp'[w] = envp[w]
      BY <2>1, <2>2, <2>3 DEF TypeOK
    <3>2. envp[w] # envp[who] /\ envp[w] \in Addr
      BY <2>2, <2>3, <3>1, ArraysApart
    <3>3. heap'[envp[w]] = heap[envp[w]]
      BY <2>1, <3>2 DEF TypeOK
    <3> QED BY <2>3, <3>1, <3>3, ArrayStays
  <2> QED BY <2>1, <2>3 DEF LoopsStop
<1>14. CASE UNCHANGED vars
  BY <1>14 DEF vars, LoopsStop, cells
<1> QED BY <1>1, <1>2, <1>3, <1>4, <1>5, <1>6, <1>7, <1>8, <1>9, <1>10, <1>11,
           <1>12, <1>13, <1>14 DEF Next, Call, Work

-----------------------------------------------------------------------------
(***************************************************************************)
(* OwnedOnce.  For each step: which claims it ends and which it makes, and *)
(* which blocks it frees and allocates.                                    *)
(***************************************************************************)
LEMMA Owners ==
  /\ \A h \in Holders : \A x \in OfHolder(h) : x.owner = h
  /\ \A x \in OfCopy : x.owner = "env_copy"
  /\ \A x \in OfSet : x.owner = "env_set"
<1>1. ASSUME NEW h \in Holders, NEW x \in OfHolder(h) PROVE x.owner = h
  <2>1. \E k, a : x = Owns(h, k, a)
    BY DEF OfHolder
  <2> QED BY <2>1, Claim
<1>2. ASSUME NEW x \in OfCopy PROVE x.owner = "env_copy"
  <2>1. \E k, a : x = Owns("env_copy", k, a)
    BY DEF OfCopy
  <2> QED BY <2>1, Claim
<1>3. ASSUME NEW x \in OfSet PROVE x.owner = "env_set"
  <2>1. \E k, a : x = Owns("env_set", k, a)
    BY DEF OfSet
  <2> QED BY <2>1, Claim
<1> QED BY <1>1, <1>2, <1>3

(* A holder whose array a step leaves alone keeps its claims. *)
LEMMA HolderStays ==
  ASSUME NEW h \in Holders, envp'[h] = envp[h],
         envp[h] # NULL => heap'[envp[h]] = heap[envp[h]],
         \/ ~(pc = "free" /\ who = h) /\ ~(pc' = "free" /\ who' = h)
         \/ pc' = pc /\ who' = who /\ i' = i
  PROVE  OfHolder(h)' = OfHolder(h)
<1>1. CASE envp[h] = NULL
  BY <1>1 DEF OfHolder
<1>2. CASE envp[h] # NULL
  <2>1. cells(envp[h])' = cells(envp[h])
    BY <1>2 DEF cells
  <2>2. Live(h)' = Live(h)
    BY <2>1 DEF Live
  <2> QED BY <1>2, <2>1, <2>2 DEF OfHolder
<1> QED BY <1>1, <1>2

LEMMA OwnedInit == Init => OwnedOnce
<1> SUFFICES ASSUME Init PROVE OwnedOnce
  OBVIOUS
<1>1. FreeAddr = Addr
  BY DEF Init, FreeAddr
<1>2. \A h \in Holders : OfHolder(h) = {}
  BY DEF Init, OfHolder
<1>3. OfCopy = {} /\ OfSet = {}
  BY DEF Init, OfCopy, OfSet
<1>4. Ownership = {}
  BY <1>2, <1>3 DEF Ownership
<1> QED BY <1>1, <1>4 DEF OwnedOnce, Once

LEMMA OwnedNext == TypeOK /\ LoopsStop /\ OwnedOnce /\ [Next]_vars => OwnedOnce'
<1> SUFFICES ASSUME TypeOK, LoopsStop, OwnedOnce, [Next]_vars PROVE OwnedOnce'
  OBVIOUS
<1> USE EnvInputs
<1>0. Once(Ownership, Addr \ FreeAddr)
  BY DEF OwnedOnce
<1>1. ASSUME NEW h \in Holders, env_init(h) PROVE OwnedOnce'
  <2>1. PICK a \in Fresh : heap' = [heap EXCEPT ![a] = Array(<<NULL>>)] /\ envp' = [envp EXCEPT ![h] = a]
    BY <1>1 DEF env_init
  <2>2. /\ pc = "idle" /\ pc' = "idle" /\ who' = who /\ p' = p /\ i' = i /\ envtmp' = envtmp
        /\ envp[h] = NULL
    BY <1>1 DEF env_init, locals
  <2>3. a \in Addr /\ heap[a] = Unused
    BY FreshIsFree
  <2>4. heap'[a] = Array(<<NULL>>) /\ envp'[h] = a
    BY <2>1, <2>3 DEF TypeOK
  <2>5. heap'[a].cells = <<NULL>> /\ heap'[a] # Unused
    BY <2>4, EmptyCells, BlockTypes
  <2>6. OfHolder(h) = {} /\ OfHolder(h)' = {Owns(h, 0, a)}
    <3>1. Live(h)' = {}
      BY <2>4, <2>5, EmptyCells DEF Live, cells
    <3> QED BY <2>2, <2>3, <2>4, <3>1 DEF OfHolder
  <2>7. ASSUME NEW g \in Holders, g # h PROVE OfHolder(g)' = OfHolder(g)
    BY <2>1, <2>2, <2>3, <2>7, HolderStays, ArraysApart DEF TypeOK
  <2>8. OfCopy' = OfCopy /\ OfSet' = OfSet
    BY <2>2 DEF OfCopy, OfSet
  <2>9. Ownership' = Ownership \cup {Owns(h, 0, a)}
    BY <2>6, <2>7, <2>8 DEF Ownership
  <2>10. Addr \ FreeAddr' = (Addr \ FreeAddr) \cup {a} /\ a \notin Addr \ FreeAddr
    BY <2>1, <2>3, <2>5 DEF FreeAddr, TypeOK
  <2> QED BY <1>0, <2>9, <2>10, Claim, ClaimsBlock DEF OwnedOnce
<1>2. ASSUME NEW g \in Holders, NEW h \in Holders, env_copy(g, h) PROVE OwnedOnce'
  <2>1. PICK a \in Fresh :
          /\ heap' = [heap EXCEPT ![a] = Array([k \in DOMAIN cells(envp[g]) |-> Junk])]
          /\ p' = a
    BY <1>2 DEF env_copy
  <2>2. pc = "idle" /\ pc' = "copy" /\ i' = 1 /\ envp' = envp /\ envp[g] \in Addr
    BY <1>2 DEF env_copy, TypeOK
  <2>3. a \in Addr /\ heap[a] = Unused
    BY FreshIsFree
  <2>4. heap'[a] # Unused
    <3>1. [k \in DOMAIN cells(envp[g]) |-> Junk] \in Seq(Pointer)
      BY <2>2, HeapTypes, FreshCells
    <3>2. heap'[a] = Array([k \in DOMAIN cells(envp[g]) |-> Junk])
      BY <2>1, <2>3 DEF TypeOK
    <3> QED BY <3>1, <3>2, BlockTypes
  <2>5. ASSUME NEW w \in Holders PROVE OfHolder(w)' = OfHolder(w)
    BY <2>1, <2>2, <2>3, HolderStays, ArraysApart DEF TypeOK
  <2>6. OfCopy = {} /\ OfSet = {} /\ OfSet' = {} /\ OfCopy' = {Owns("env_copy", 0, a)}
    BY <2>1, <2>2 DEF OfCopy, OfSet
  <2>7. Ownership' = Ownership \cup {Owns("env_copy", 0, a)}
    BY <2>5, <2>6 DEF Ownership
  <2>8. Addr \ FreeAddr' = (Addr \ FreeAddr) \cup {a} /\ a \notin Addr \ FreeAddr
    BY <2>1, <2>3, <2>4 DEF FreeAddr, TypeOK
  <2> QED BY <1>0, <2>7, <2>8, Claim, ClaimsBlock DEF OwnedOnce
<1>3. ASSUME NEW h \in Holders, NEW n \in Names, NEW v \in Values, env_set(h, n, v)
      PROVE  OwnedOnce'
  <2>1. PICK a \in Fresh : heap' = [heap EXCEPT ![a] = String(Setting(n, v))] /\ envtmp' = a
    BY <1>3, GlueType DEF env_set
  <2>2. pc = "idle" /\ pc' = "set" /\ envp' = envp
    BY <1>3 DEF env_set
  <2>3. a \in Addr /\ heap[a] = Unused
    BY FreshIsFree
  <2>4. heap'[a] # Unused
    BY <2>1, <2>3, GlueType, BlockTypes DEF TypeOK
  <2>5. ASSUME NEW w \in Holders PROVE OfHolder(w)' = OfHolder(w)
    BY <2>1, <2>2, <2>3, HolderStays, ArraysApart DEF TypeOK
  <2>6. OfCopy = {} /\ OfSet = {} /\ OfCopy' = {} /\ OfSet' = {Owns("env_set", 0, a)}
    BY <2>1, <2>2 DEF OfCopy, OfSet
  <2>7. Ownership' = Ownership \cup {Owns("env_set", 0, a)}
    BY <2>5, <2>6 DEF Ownership
  <2>8. Addr \ FreeAddr' = (Addr \ FreeAddr) \cup {a} /\ a \notin Addr \ FreeAddr
    BY <2>1, <2>3, <2>4 DEF FreeAddr, TypeOK
  <2> QED BY <1>0, <2>7, <2>8, Claim, ClaimsBlock DEF OwnedOnce
<1>4. ASSUME NEW h \in Holders, env_free(h) PROVE OwnedOnce'
  <2>1. /\ pc = "idle" /\ pc' = "free" /\ who' = h /\ i' = 1 /\ envp' = envp /\ heap' = heap
        /\ envp[h] # NULL
    BY <1>4 DEF env_free, LoopsStop
  <2>2. OfHolder(h)' = OfHolder(h)
    <3>1. cells(envp[h])' = cells(envp[h]) /\ cells(envp[h]) \in Seq(Pointer)
      BY <2>1, HeapTypes DEF cells, TypeOK
    <3>2. Live(h)' = Live(h)
      BY <2>1, <3>1 DEF Live
    <3> QED BY <2>1, <3>1, <3>2 DEF OfHolder
  <2>3. ASSUME NEW g \in Holders, g # h PROVE OfHolder(g)' = OfHolder(g)
    BY <2>1, <2>3, HolderStays
  <2>4. OfCopy' = OfCopy /\ OfSet' = OfSet
    BY <2>1 DEF OfCopy, OfSet
  <2>5. Ownership' = Ownership
    BY <2>2, <2>3, <2>4 DEF Ownership
  <2>6. FreeAddr' = FreeAddr
    BY <2>1 DEF FreeAddr
  <2> QED BY <1>0, <2>5, <2>6 DEF OwnedOnce
<1>5. CASE CopyString
  <2>1. /\ p \in Addr /\ src \in Addr /\ who \in Holders
        /\ cells(p) \in Seq(Pointer) /\ cells(src) \in Seq(Pointer)
        /\ i \in 1..Len(cells(src)) /\ Len(cells(p)) = Len(cells(src))
    BY <1>5, Copying DEF CopyString
  <2>2. pc = "copy" /\ envp' = envp /\ who' = who /\ src' = src /\ p' = p /\ cells(src)[i] # NULL
    BY <1>5 DEF CopyString
  <2>3. PICK g \in Holders : src = envp[g] /\ envp[g] # NULL
    BY <2>1, <2>2 DEF LoopsStop
  <2>4. CASE pc' = "unwind" /\ UNCHANGED <<heap, i>>
    <3>1. ASSUME NEW w \in Holders PROVE OfHolder(w)' = OfHolder(w)
      BY <2>2, <2>4, HolderStays
    <3>2. OfCopy' = OfCopy /\ OfSet' = OfSet
      BY <2>2, <2>4 DEF OfCopy, OfSet, cells
    <3>3. Ownership' = Ownership
      BY <3>1, <3>2 DEF Ownership
    <3>4. FreeAddr' = FreeAddr
      BY <2>4 DEF FreeAddr
    <3> QED BY <1>0, <3>3, <3>4 DEF OwnedOnce
  <2>5. ASSUME NEW a \in Fresh,
               heap' = [heap EXCEPT ![a] = heap[cells(src)[i]],
                                    ![p] = Array([cells(p) EXCEPT ![i] = a])],
               i' = i + 1, pc' = pc
        PROVE  OwnedOnce'
    <3>1. a \in Addr /\ heap[a] = Unused /\ heap[p] # Unused /\ a # p
      BY <2>2, FreshIsFree, ArraysApart
    <3>2. cells(src)[i] \in Addr /\ heap[cells(src)[i]] # Unused
      <4>1. i \in Live(g)
        BY <2>1, <2>2, <2>3 DEF Live
      <4> QED BY <2>3, <4>1, StringsApart
    <3>3. /\ heap'[p] = Array([cells(p) EXCEPT ![i] = a]) /\ heap'[a] = heap[cells(src)[i]]
          /\ \A b \in Addr : b # a /\ b # p => heap'[b] = heap[b]
      BY <2>1, <2>5, <3>1 DEF TypeOK
    <3>4. /\ heap'[p].cells[i] = a /\ heap'[p] # Unused
          /\ \A k \in 1..(i - 1) : heap'[p].cells[k] = cells(p)[k]
      <4> DEFINE d == [cells(p) EXCEPT ![i] = a]
      <4>1. /\ d \in Seq(Pointer) /\ d[i] = a
            /\ \A k \in 1..Len(cells(p)) : k # i => d[k] = cells(p)[k]
        BY <2>1, <3>1, CellTypes
      <4> HIDE DEF d
      <4>2. heap'[p].cells = d /\ heap'[p] # Unused
        BY <3>3, <4>1, BlockTypes DEF d
      <4> QED BY <2>1, <4>1, <4>2
    <3>5. ASSUME NEW w \in Holders PROVE OfHolder(w)' = OfHolder(w)
      BY <2>2, <2>5, <3>1, <3>3, HolderStays, ArraysApart
    <3>6. OfCopy' = OfCopy \cup {Owns("env_copy", i, a)}
      <4>1. OfCopy = {Owns("env_copy", 0, p)} \cup {Owns("env_copy", k, cells(p)[k]) : k \in 1..(i - 1)}
        BY <2>2 DEF OfCopy
      <4>2. i' - 1 = i
        BY <2>1, <2>5
      <4>3. OfCopy' = {Owns("env_copy", 0, p)} \cup {Owns("env_copy", k, heap'[p].cells[k]) : k \in 1..i}
        <5>1. OfCopy' = {Owns("env_copy", 0, p')}
                \cup {Owns("env_copy", k, heap'[p'].cells[k]) : k \in 1..(i' - 1)}
          BY <2>2, <2>5 DEF OfCopy, cells
        <5> QED BY <2>2, <4>2, <5>1
      <4>4. 1..i = (1..(i - 1)) \cup {i}
        BY <2>1
      <4>5. {Owns("env_copy", k, heap'[p].cells[k]) : k \in 1..i} =
              {Owns("env_copy", k, cells(p)[k]) : k \in 1..(i - 1)} \cup {Owns("env_copy", i, a)}
        BY <3>4, <4>4
      <4> QED BY <4>1, <4>3, <4>5
    <3>7. OfSet' = OfSet
      BY <2>2, <2>5 DEF OfSet
    <3>8. Ownership' = Ownership \cup {Owns("env_copy", i, a)}
      BY <3>5, <3>6, <3>7 DEF Ownership
    <3>9. Addr \ FreeAddr' = (Addr \ FreeAddr) \cup {a} /\ a \notin Addr \ FreeAddr
      BY <2>1, <3>1, <3>2, <3>3, <3>4 DEF FreeAddr
    <3> QED BY <1>0, <3>8, <3>9, Claim, ClaimsBlock DEF OwnedOnce
  <2> QED BY <1>5, <2>4, <2>5 DEF CopyString
<1>6. CASE CopyEnd
  <2>1. /\ p \in Addr /\ src \in Addr /\ who \in Holders
        /\ cells(p) \in Seq(Pointer) /\ cells(src) \in Seq(Pointer)
        /\ Len(cells(p)) = Len(cells(src)) /\ i = Len(cells(p)) /\ i \in 1..Len(cells(p))
    BY <1>6, Copying, BeforeEnd DEF CopyEnd
  <2>2. /\ heap' = [heap EXCEPT ![p] = Array([cells(p) EXCEPT ![i] = NULL])]
        /\ envp' = [envp EXCEPT ![who] = p] /\ pc = "copy" /\ pc' = "idle"
        /\ envp[who] = NULL
        /\ \A k \in 1..(i - 1) : cells(p)[k] \in Addr
    BY <1>6 DEF CopyEnd, Return, LoopsStop
  <2>3. /\ heap[p] # Unused /\ heap'[p] # Unused
        /\ Len(heap'[p].cells) = i /\ heap'[p].cells \in Seq(Pointer)
        /\ heap'[p].cells[i] = NULL
        /\ \A k \in 1..(i - 1) : heap'[p].cells[k] = cells(p)[k]
    <3> DEFINE d == [cells(p) EXCEPT ![i] = NULL]
    <3>1. /\ d \in Seq(Pointer) /\ Len(d) = i /\ d[i] = NULL
          /\ \A k \in 1..Len(cells(p)) : k # i => d[k] = cells(p)[k]
      BY <2>1, CellTypes
    <3>2. heap'[p] = Array(d)
      BY <2>1, <2>2 DEF TypeOK
    <3> HIDE DEF d
    <3>3. heap'[p].cells = d /\ heap'[p] # Unused
      BY <3>1, <3>2, BlockTypes
    <3>4. \A k \in 1..(i - 1) : k \in 1..Len(cells(p)) /\ k # i
      BY <2>1
    <3>5. heap[p] # Unused
      BY <2>2, ArraysApart
    <3> QED BY <3>1, <3>3, <3>4, <3>5
  <2>4. OfCopy = {Owns("env_copy", 0, p)} \cup {Owns("env_copy", k, cells(p)[k]) : k \in 1..(i - 1)}
    BY <2>2 DEF OfCopy
  <2>5. OfHolder(who) = {}
    BY <2>2 DEF OfHolder
  <2>6. \A w \in Holders : w = who =>
          OfHolder(w)' = {Owns(w, 0, p)} \cup {Owns(w, k, cells(p)[k]) : k \in 1..(i - 1)}
    <3> SUFFICES ASSUME NEW w \in Holders, w = who
                 PROVE  OfHolder(w)' = {Owns(w, 0, p)} \cup {Owns(w, k, cells(p)[k]) : k \in 1..(i - 1)}
      OBVIOUS
    <3>1. envp'[w] = p
      BY <2>1, <2>2 DEF TypeOK
    <3>2. Live(w)' = 1..(i - 1)
      <4>1. DOMAIN heap'[p].cells = 1..i
        BY <2>3
      <4>2. \A k \in 1..i : heap'[p].cells[k] # NULL <=> k \in 1..(i - 1)
        <5>1. \A k \in 1..(i - 1) : heap'[p].cells[k] # NULL
          BY <2>2, <2>3
        <5>2. \A k \in 1..i : k \in 1..(i - 1) \/ k = i
          BY <2>1
        <5>3. i \notin 1..(i - 1)
          BY <2>1
        <5> QED BY <2>3, <5>1, <5>2, <5>3
      <4>3. Live(w)' = {k \in DOMAIN heap'[p].cells : heap'[p].cells[k] # NULL}
        BY <2>2, <3>1 DEF Live, cells
      <4> QED BY <2>1, <4>1, <4>2, <4>3
    <3>3. OfHolder(w)' = {Owns(w, 0, p)} \cup {Owns(w, k, heap'[p].cells[k]) : k \in 1..(i - 1)}
      BY <2>1, <3>1, <3>2 DEF OfHolder, cells
    <3> QED BY <2>3, <3>3
  <2>7. ASSUME NEW w \in Holders, w # who PROVE OfHolder(w)' = OfHolder(w)
    <3>1. envp'[w] = envp[w]
      BY <2>2, <2>7 DEF TypeOK
    <3>2. envp[w] # NULL => heap'[envp[w]] = heap[envp[w]]
      BY <2>2, ArraysApart DEF TypeOK
    <3> QED BY <2>2, <3>1, <3>2, HolderStays
  <2>8. OfSet = {} /\ OfSet' = {} /\ OfCopy' = {}
    BY <2>2 DEF OfSet, OfCopy
  <2> DEFINE T == {Owns(who, 0, p)} \cup {Owns(who, k, cells(p)[k]) : k \in 1..(i - 1)}
  <2>9. \A h \in Holders : OfHolder(h) \cap OfCopy = {}
    BY Owners
  <2>10. Ownership' = (Ownership \ OfCopy) \cup T
    <3>1. \A w \in Holders : w = who => OfHolder(w)' = T
      BY <2>6
    <3> HIDE DEF T
    <3> QED BY <2>1, <2>5, <2>7, <2>8, <2>9, <3>1 DEF Ownership
  <2>11. Once(T, {x.block : x \in OfCopy})
    <3>1. \A j, k \in 1..(i - 1) : cells(p)[j] = cells(p)[k] => j = k
      BY <2>2, StringsApart
    <3>2. \A k \in 1..(i - 1) : cells(p)[k] # p
      BY <2>2, ArraysApart
    <3>3. \A x, y \in T : x.block = y.block => x = y
      BY <3>1, <3>2, Claim
    <3>4. \A x \in T : \E y \in OfCopy : x.block = y.block
      <4>1. Owns("env_copy", 0, p) \in OfCopy
        BY <2>4
      <4>2. \A k \in 1..(i - 1) : Owns("env_copy", k, cells(p)[k]) \in OfCopy
        BY <2>4
      <4>3. \A x \in T : x = Owns(who, 0, p) \/ \E k \in 1..(i - 1) : x = Owns(who, k, cells(p)[k])
        OBVIOUS
      <4> HIDE DEF T
      <4> QED BY <4>1, <4>2, <4>3, Claim
    <3>5. \A y \in OfCopy : \E x \in T : x.block = y.block
      <4>1. Owns(who, 0, p) \in T /\ \A k \in 1..(i - 1) : Owns(who, k, cells(p)[k]) \in T
        OBVIOUS
      <4>2. \A y \in OfCopy : \/ y = Owns("env_copy", 0, p)
                              \/ \E k \in 1..(i - 1) : y = Owns("env_copy", k, cells(p)[k])
        BY <2>4
      <4> HIDE DEF T
      <4> QED BY <4>1, <4>2, Claim
    <3> HIDE DEF T
    <3> QED BY <3>3, <3>4, <3>5 DEF Once
  <2>12. FreeAddr' = FreeAddr
    BY <2>1, <2>2, <2>3 DEF FreeAddr, TypeOK
  <2> QED
    <3> HIDE DEF T
    <3>1. OfCopy \subseteq Ownership
      BY DEF Ownership
    <3>2. Once((Ownership \ OfCopy) \cup T, Addr \ FreeAddr)
      BY <1>0, <2>11, <3>1, PassesAllOn
    <3> QED BY <2>10, <2>12, <3>2 DEF OwnedOnce
<1>7. CASE UnwindString
  <2>1. /\ pc = "unwind" /\ pc' = pc /\ envp' = envp /\ who' = who /\ p' = p /\ i' = i - 1
        /\ i \in Nat /\ i > 1 /\ p \in Addr
        /\ heap' = [heap EXCEPT ![cells(p)[i - 1]] = Unused]
    BY <1>7 DEF UnwindString, TypeOK
  <2> DEFINE a == cells(p)[i - 1]
             x == Owns("env_copy", i - 1, a)
  <2>2. i - 1 \in 1..(i - 1)
    BY <2>1
  <2>3. a \in Addr /\ heap[a] # Unused /\ a # p
    BY <2>1, <2>2, StringsApart, ArraysApart
  <2>4. x \in OfCopy /\ x \in Ownership /\ x.block = a
    BY <2>1, <2>2, Claim DEF OfCopy, Ownership
  <2>5. ASSUME NEW w \in Holders PROVE OfHolder(w)' = OfHolder(w)
    <3>1. envp[w] # NULL => envp[w] # a /\ envp[w] \in Addr
      BY <2>1, <2>2, ArraysApart
    <3> QED BY <2>1, <3>1, HolderStays DEF TypeOK
  <2>6. OfCopy' = OfCopy \ {x}
    <3>1. cells(p)' = cells(p)
      BY <2>1, <2>3 DEF cells, TypeOK
    <3>2. OfCopy = {Owns("env_copy", 0, p)} \cup {Owns("env_copy", k, cells(p)[k]) : k \in 1..(i - 1)}
      BY <2>1 DEF OfCopy
    <3>3. OfCopy' = {Owns("env_copy", 0, p)} \cup {Owns("env_copy", k, cells(p)[k]) : k \in 1..((i - 1) - 1)}
      BY <2>1, <3>1 DEF OfCopy
    <3>4. \A k \in 1..(i - 1) : k \in 1..((i - 1) - 1) <=> k # i - 1
      BY <2>1
    <3>5. \A k \in 1..((i - 1) - 1) : k \in 1..(i - 1)
      BY <2>1
    <3>6. \A k : Owns("env_copy", k, cells(p)[k]) = x <=> k = i - 1
      BY Claim
    <3>7. Owns("env_copy", 0, p) # x
      BY <2>1, Claim
    <3> HIDE DEF x
    <3> QED BY <2>4, <3>2, <3>3, <3>4, <3>5, <3>6, <3>7
  <2>7. OfSet = {} /\ OfSet' = {}
    BY <2>1 DEF OfSet
  <2>8. Ownership' = Ownership \ {x}
    <3>1. \A w \in Holders : x \notin OfHolder(w)
      BY <2>4, Owners
    <3> HIDE DEF x
    <3> QED BY <2>5, <2>6, <2>7, <3>1 DEF Ownership
  <2>9. Addr \ FreeAddr' = (Addr \ FreeAddr) \ {a}
    BY <2>1, <2>3 DEF FreeAddr, TypeOK
  <2> HIDE DEF x, a
  <2> QED BY <1>0, <2>4, <2>8, <2>9, GivesUp DEF OwnedOnce
<1>8. CASE UnwindArray
  <2>1. /\ heap' = [heap EXCEPT ![p] = Unused] /\ envp' = envp /\ pc' = "idle" /\ i = 1
        /\ pc = "unwind" /\ p \in Addr
    BY <1>8 DEF UnwindArray, Return, TypeOK
  <2> DEFINE x == Owns("env_copy", 0, p)
  <2>2. OfCopy = {x} /\ OfCopy' = {} /\ OfSet = {} /\ OfSet' = {}
    BY <2>1 DEF OfCopy, OfSet
  <2>3. ASSUME NEW w \in Holders PROVE OfHolder(w)' = OfHolder(w)
    BY <2>1, HolderStays, ArraysApart DEF TypeOK
  <2>4. x \in Ownership /\ x.block = p
    BY <2>2, Claim DEF Ownership
  <2>5. \A w \in Holders : x \notin OfHolder(w)
    BY <2>2, Owners
  <2>6. Addr \ FreeAddr' = (Addr \ FreeAddr) \ {p}
    BY <2>1 DEF FreeAddr, TypeOK
  <2> HIDE DEF x
  <2>7. Ownership' = Ownership \ {x}
    BY <2>2, <2>3, <2>5 DEF Ownership
  <2> QED BY <1>0, <2>4, <2>6, <2>7, GivesUp DEF OwnedOnce
<1>9. CASE Replace
  <2>1. PICK k \in Found :
          heap' = [heap EXCEPT ![cells(envp[who])[k]] = Unused,
                               ![envp[who]] = Array([cells(envp[who]) EXCEPT ![k] = envtmp])]
    BY <1>9 DEF Replace
  <2>2. pc = "set" /\ envp' = envp /\ pc' = "idle" /\ envtmp \in Addr
    BY <1>9 DEF Replace, Return, TypeOK
  <2>3. PICK w \in Holders : w = who
    BY <2>2 DEF LoopsStop
  <2> DEFINE c == cells(envp[w])
  <2>4. envp[w] # NULL /\ envp[w] \in Addr /\ Terminated(c) /\ c \in Seq(Pointer)
    BY <2>2, <2>3, HeapTypes DEF LoopsStop, TypeOK
  <2>5. k \in 1..Len(c) /\ k \in Live(w) /\ c[k] \in Addr
    BY <2>2, <2>3, <2>4, BeforeEnd DEF Found, Live
  <2>6. c[k] # envp[w] /\ heap[c[k]] # Unused /\ heap[envp[w]] # Unused
    BY <2>4, <2>5, ArraysApart, StringsApart
  <2> DEFINE d == [c EXCEPT ![k] = envtmp]
  <2>7. /\ heap'[envp[w]] = Array(d) /\ heap'[c[k]] = Unused
        /\ \A b \in Addr : b # envp[w] /\ b # c[k] => heap'[b] = heap[b]
    BY <2>1, <2>3, <2>4, <2>5, <2>6 DEF TypeOK
  <2>8. /\ d \in Seq(Pointer) /\ Len(d) = Len(c) /\ d[k] = envtmp
        /\ \A j \in 1..Len(c) : j # k => d[j] = c[j]
    BY <2>2, <2>4, <2>5, CellTypes
  <2> DEFINE old == Owns(w, k, c[k])
             tmp == Owns("env_set", 0, envtmp)
             new == Owns(w, k, envtmp)
  <2>9. old.block = c[k] /\ tmp.block = envtmp /\ new.block = envtmp /\ old # tmp
    BY Claim
  <2>10. OfHolder(w)' = (OfHolder(w) \ {old}) \cup {new}
    <3>1. OfHolder(w) = {Owns(w, 0, envp[w])} \cup {Owns(w, j, c[j]) : j \in Live(w)}
      BY <2>4 DEF OfHolder
    <3> HIDE DEF d
    <3>2. heap'[envp[w]].cells = d /\ DOMAIN d = DOMAIN c
      BY <2>4, <2>7, <2>8, BlockTypes
    <3>3. Live(w) = {j \in DOMAIN c : c[j] # NULL}
      BY <2>2 DEF Live
    <3>4. Live(w)' = {j \in DOMAIN d : d[j] # NULL}
      BY <2>2, <3>2 DEF Live, cells
    <3>5. Live(w)' = Live(w)
      BY <2>2, <2>4, <2>5, <2>8, <3>2, <3>3, <3>4
    <3>6. OfHolder(w)' = {Owns(w, 0, envp[w])} \cup {Owns(w, j, d[j]) : j \in Live(w)}
      BY <2>2, <2>4, <3>2, <3>5 DEF OfHolder, cells
    <3>7. \A j \in Live(w) : j # k => d[j] = c[j]
      BY <2>4, <2>8, <3>3
    <3>8. \A j \in Live(w) : Owns(w, j, c[j]) = old <=> j = k
      BY Claim
    <3>9. Owns(w, 0, envp[w]) # old
      BY <2>6, Claim
    <3>10. Owns(w, k, d[k]) = new
      BY <2>8
    <3> HIDE DEF old, new, c
    <3> QED BY <2>5, <3>1, <3>6, <3>7, <3>8, <3>9, <3>10
  <2>11. ASSUME NEW h \in Holders, h # w PROVE OfHolder(h)' = OfHolder(h)
    <3>1. envp[h] # NULL => envp[h] # envp[w] /\ envp[h] # c[k] /\ envp[h] \in Addr
      BY <2>4, <2>5, <2>11, ArraysApart
    <3> QED BY <2>2, <2>7, <3>1, HolderStays
  <2>12. OfCopy = {} /\ OfCopy' = {} /\ OfSet = {tmp} /\ OfSet' = {}
    BY <2>2 DEF OfCopy, OfSet
  <2>13. old \in OfHolder(w)
    BY <2>4, <2>5 DEF OfHolder
  <2>14. /\ tmp \in Ownership /\ old \in Ownership
         /\ \A h \in Holders : tmp \notin OfHolder(h)
         /\ \A h \in Holders : h # w => old \notin OfHolder(h)
         /\ tmp # new
    <3>1. tmp.owner = "env_set" /\ old.owner = w /\ new.owner = w
      BY Claim
    <3> HIDE DEF old, tmp, new
    <3> QED BY <2>12, <2>13, <3>1, Owners DEF Ownership
  <2>15. Addr \ FreeAddr' = (Addr \ FreeAddr) \ {c[k]}
    <3>1. heap'[envp[w]] # Unused
      BY <2>7, <2>8, BlockTypes
    <3> QED BY <2>4, <2>5, <2>6, <2>7, <3>1 DEF FreeAddr
  <2> HIDE DEF old, tmp, new, c, d
  <2>16. Ownership' = ((Ownership \ {old}) \ {tmp}) \cup {new}
    BY <2>10, <2>11, <2>12, <2>13, <2>14 DEF Ownership
  <2>17. Once(Ownership \ {old}, (Addr \ FreeAddr) \ {c[k]})
    BY <1>0, <2>9, <2>14, GivesUp
  <2>18. Once(((Ownership \ {old}) \ {tmp}) \cup {new}, (Addr \ FreeAddr) \ {c[k]})
    BY <2>9, <2>14, <2>17, PassesOn
  <2> QED BY <2>15, <2>16, <2>18 DEF OwnedOnce
<1>10. CASE Grow
  <2>1. PICK b \in Fresh \cup {envp[who]} :
          /\ heap' = [a \in Addr |-> IF a = b THEN Array(Grown(cells(envp[who])))
                                     ELSE IF a = envp[who] THEN Unused ELSE heap[a]]
          /\ envp' = [envp EXCEPT ![who] = b]
    BY <1>10 DEF Grow
  <2>2. pc = "set" /\ pc' = "idle" /\ envtmp \in Addr
    BY <1>10 DEF Grow, Return, TypeOK
  <2>3. PICK w \in Holders : w = who
    BY <2>2 DEF LoopsStop
  <2> DEFINE c == cells(envp[w])
             d == Grown(c)
  <2>4. /\ envp[w] # NULL /\ envp[w] \in Addr /\ heap[envp[w]] # Unused
        /\ Terminated(c) /\ c \in Seq(Pointer)
    BY <2>2, <2>3, HeapTypes, ArraysApart DEF LoopsStop, TypeOK
  <2>5. b \in Addr /\ (b = envp[w] \/ heap[b] = Unused)
    BY <2>3, <2>4, FreshIsFree
  <2>6. /\ d \in Seq(Pointer) /\ Len(d) = Len(c) + 1
        /\ \A j \in 1..(Len(c) - 1) : d[j] = c[j]
        /\ d[Len(c)] = envtmp /\ d[Len(c) + 1] = NULL
    BY <2>2, <2>4, GrownType
  <2>7. /\ heap'[b] = Array(d) /\ (b # envp[w] => heap'[envp[w]] = Unused)
        /\ \A a \in Addr : a # b /\ a # envp[w] => heap'[a] = heap[a]
        /\ envp'[w] = b /\ \A h \in Holders : h # w => envp'[h] = envp[h]
    BY <2>1, <2>3, <2>4, <2>5 DEF TypeOK
  <2> HIDE DEF d
  <2>8. heap'[b].cells = d /\ heap'[b] # Unused
    BY <2>6, <2>7, BlockTypes
  <2> DEFINE m == Len(c)
             root == Owns(w, 0, envp[w])
             tmp == Owns("env_set", 0, envtmp)
             new == Owns(w, m, envtmp)
             moved == Owns(w, 0, b)
  <2>9. /\ root.block = envp[w] /\ tmp.block = envtmp /\ new.block = envtmp /\ moved.block = b
        /\ root # tmp
    BY Claim
  <2>10. m \in Nat /\ m > 0
    BY <2>4 DEF Terminated
  <2>11. OfHolder(w)' = ((OfHolder(w) \ {root}) \cup {new}) \cup {moved}
    <3>1. OfHolder(w) = {root} \cup {Owns(w, j, c[j]) : j \in Live(w)}
      BY <2>4 DEF OfHolder
    <3>2. Live(w) = 1..(m - 1)
      <4>1. Live(w) = {j \in DOMAIN c : c[j] # NULL}
        BY <2>2 DEF Live
      <4>2. DOMAIN c = 1..m
        BY <2>4
      <4>3. \A j \in 1..m : c[j] # NULL <=> j # m
        BY <2>4, BeforeEnd DEF Terminated
      <4>4. \A j : j \in 1..(m - 1) <=> j \in 1..m /\ j # m
        BY <2>10
      <4> HIDE DEF c, m
      <4> QED BY <4>1, <4>2, <4>3, <4>4
    <3>3. Live(w)' = 1..m
      <4>1. Live(w)' = {j \in DOMAIN d : d[j] # NULL}
        BY <2>2, <2>7, <2>8 DEF Live, cells
      <4>2. DOMAIN d = 1..(m + 1)
        BY <2>6
      <4>3. \A j \in 1..(m - 1) : d[j] # NULL
        BY <2>4, <2>6 DEF Terminated
      <4>4. \A j : j \in 1..m <=> j \in 1..(m + 1) /\ j # m + 1
        BY <2>10
      <4>5. \A j \in 1..m : j \in 1..(m - 1) \/ j = m
        BY <2>10
      <4>6. d[m] = envtmp /\ d[m + 1] = NULL
        BY <2>6
      <4> HIDE DEF c, m
      <4> QED BY <2>2, <4>1, <4>2, <4>3, <4>4, <4>5, <4>6
    <3>4. OfHolder(w)' = {moved} \cup {Owns(w, j, d[j]) : j \in 1..m}
      BY <2>5, <2>7, <2>8, <3>3 DEF OfHolder, cells
    <3>5. \A j : j \in 1..m <=> j \in 1..(m - 1) \/ j = m
      BY <2>10
    <3>6. \A j \in 1..(m - 1) : d[j] = c[j]
      BY <2>6
    <3>7. Owns(w, m, d[m]) = new
      BY <2>6
    <3>8. \A j \in 1..(m - 1) : Owns(w, j, c[j]) # root
      BY <2>10, Claim
    <3> HIDE DEF c, m, root, new, moved
    <3> QED BY <3>1, <3>2, <3>4, <3>5, <3>6, <3>7, <3>8
  <2>12. ASSUME NEW h \in Holders, h # w PROVE OfHolder(h)' = OfHolder(h)
    <3>1. envp[h] # NULL => envp[h] # envp[w] /\ envp[h] # b /\ envp[h] \in Addr
      BY <2>4, <2>5, <2>12, ArraysApart
    <3> QED BY <2>2, <2>7, <2>12, <3>1, HolderStays
  <2>13. OfCopy = {} /\ OfCopy' = {} /\ OfSet = {tmp} /\ OfSet' = {}
    BY <2>2 DEF OfCopy, OfSet
  <2>14. root \in OfHolder(w)
    BY <2>4 DEF OfHolder
  <2>15. /\ tmp \in Ownership /\ root \in Ownership
         /\ \A h \in Holders : tmp \notin OfHolder(h)
         /\ \A h \in Holders : h # w => root \notin OfHolder(h)
         /\ tmp # new /\ tmp # moved /\ root # new
    <3>1. /\ tmp.owner = "env_set" /\ root.owner = w /\ new.owner = w /\ moved.owner = w
          /\ root.at = 0 /\ new.at = m /\ m # 0
      BY <2>10, Claim
    <3> HIDE DEF root, tmp, new, moved
    <3> QED BY <2>13, <2>14, <3>1, Owners DEF Ownership
  <2>16. Addr \ FreeAddr' = ((Addr \ FreeAddr) \ {envp[w]}) \cup {b}
    BY <2>4, <2>5, <2>7, <2>8 DEF FreeAddr
  <2>17. b \notin (Addr \ FreeAddr) \ {envp[w]}
    BY <2>5 DEF FreeAddr
  <2> HIDE DEF root, tmp, new, moved, c, m
  <2>18. Ownership' = (((Ownership \ {root}) \ {tmp}) \cup {new}) \cup {moved}
    BY <2>11, <2>12, <2>13, <2>14, <2>15 DEF Ownership
  <2>19. Once(Ownership \ {root}, (Addr \ FreeAddr) \ {envp[w]})
    BY <1>0, <2>9, <2>15, GivesUp
  <2>20. Once(((Ownership \ {root}) \ {tmp}) \cup {new}, (Addr \ FreeAddr) \ {envp[w]})
    BY <2>9, <2>15, <2>19, PassesOn
  <2>21. Once((((Ownership \ {root}) \ {tmp}) \cup {new}) \cup {moved},
              ((Addr \ FreeAddr) \ {envp[w]}) \cup {b})
    BY <2>9, <2>17, <2>20, ClaimsBlock
  <2> QED BY <2>16, <2>18, <2>21 DEF OwnedOnce
<1>11. CASE GrowFails
  <2>1. /\ heap' = [heap EXCEPT ![envtmp] = Unused] /\ envp' = envp /\ pc' = "idle"
        /\ pc = "set" /\ envtmp \in Addr
    BY <1>11 DEF GrowFails, Return, TypeOK
  <2> DEFINE x == Owns("env_set", 0, envtmp)
  <2>2. OfCopy = {} /\ OfCopy' = {} /\ OfSet = {x} /\ OfSet' = {}
    BY <2>1 DEF OfCopy, OfSet
  <2>3. ASSUME NEW w \in Holders PROVE OfHolder(w)' = OfHolder(w)
    BY <2>1, HolderStays, ArraysApart DEF TypeOK
  <2>4. x \in Ownership /\ x.block = envtmp
    BY <2>2, Claim DEF Ownership
  <2>5. \A w \in Holders : x \notin OfHolder(w)
    BY <2>2, Owners
  <2>6. Addr \ FreeAddr' = (Addr \ FreeAddr) \ {envtmp}
    BY <2>1 DEF FreeAddr, TypeOK
  <2> HIDE DEF x
  <2>7. Ownership' = Ownership \ {x}
    BY <2>2, <2>3, <2>5 DEF Ownership
  <2> QED BY <1>0, <2>4, <2>6, <2>7, GivesUp DEF OwnedOnce
<1>12. CASE FreeString
  <2>1. /\ pc = "free" /\ pc' = pc /\ envp' = envp /\ who' = who /\ i' = i + 1
        /\ heap' = [heap EXCEPT ![cells(envp[who])[i]] = Unused]
        /\ cells(envp[who])[i] # NULL
    BY <1>12 DEF FreeString
  <2>2. PICK w \in Holders : w = who
    BY <2>1 DEF LoopsStop
  <2> DEFINE c == cells(envp[w])
             x == Owns(w, i, c[i])
  <2>3. /\ envp[w] # NULL /\ envp[w] \in Addr /\ c \in Seq(Pointer)
        /\ i \in Nat /\ i \in DOMAIN c
    BY <2>1, <2>2, HeapTypes DEF LoopsStop, TypeOK
  <2>4. i \in Live(w)
    BY <2>1, <2>2, <2>3 DEF Live
  <2>5. c[i] \in Addr /\ heap[c[i]] # Unused /\ \A h \in Holders : envp[h] # NULL => c[i] # envp[h]
    BY <2>3, <2>4, StringsApart, ArraysApart
  <2>6. OfHolder(w)' = OfHolder(w) \ {x}
    <3>1. OfHolder(w) = {Owns(w, 0, envp[w])} \cup {Owns(w, k, c[k]) : k \in Live(w)}
      BY <2>3 DEF OfHolder
    <3>2. cells(envp[w])' = c
      BY <2>1, <2>2, <2>3, <2>5 DEF cells, TypeOK
    <3>3. \A k : k \in Live(w)' <=> k \in Live(w) /\ k # i
      <4>1. Live(w) = {k \in DOMAIN c : c[k] # NULL /\ ~ (k < i)}
        BY <2>1, <2>2 DEF Live
      <4>2. Live(w)' = {k \in DOMAIN c : c[k] # NULL /\ ~ (k < i + 1)}
        BY <2>1, <2>2, <3>2 DEF Live
      <4>3. \A k \in DOMAIN c : k < i + 1 <=> k < i \/ k = i
        BY <2>3
      <4> HIDE DEF c
      <4> QED BY <4>1, <4>2, <4>3
    <3>4. OfHolder(w)' = {Owns(w, 0, envp[w])} \cup {Owns(w, k, c[k]) : k \in Live(w)'}
      BY <2>1, <2>3, <3>2 DEF OfHolder
    <3>5. \A k : Owns(w, k, c[k]) = x <=> k = i
      BY Claim
    <3>6. Owns(w, 0, envp[w]) # x
      BY <2>3, <2>5, Claim
    <3> HIDE DEF c, x
    <3> QED BY <2>4, <3>1, <3>3, <3>4, <3>5, <3>6
  <2>7. ASSUME NEW h \in Holders, h # w PROVE OfHolder(h)' = OfHolder(h)
    <3>1. envp[h] # NULL => heap'[envp[h]] = heap[envp[h]]
      BY <2>1, <2>2, <2>5, ArraysApart DEF TypeOK
    <3> QED BY <2>1, <2>2, <2>7, <3>1, HolderStays
  <2>8. OfCopy = {} /\ OfCopy' = {} /\ OfSet = {} /\ OfSet' = {}
    BY <2>1 DEF OfCopy, OfSet
  <2>9. x \in OfHolder(w) /\ x \in Ownership /\ x.block = c[i]
    <3>1. x \in OfHolder(w)
      BY <2>3, <2>4 DEF OfHolder
    <3>2. x.block = c[i]
      BY Claim
    <3> QED BY <3>1, <3>2 DEF Ownership
  <2>10. \A h \in Holders : h # w => x \notin OfHolder(h)
    BY <2>9, Owners
  <2>11. Addr \ FreeAddr' = (Addr \ FreeAddr) \ {c[i]}
    BY <2>1, <2>2, <2>5 DEF FreeAddr, TypeOK
  <2> HIDE DEF x, c
  <2>12. Ownership' = Ownership \ {x}
    BY <2>6, <2>7, <2>8, <2>10 DEF Ownership
  <2> QED BY <1>0, <2>9, <2>11, <2>12, GivesUp DEF OwnedOnce
<1>13. CASE FreeArray
  <2>1. /\ heap' = [heap EXCEPT ![envp[who]] = Unused] /\ envp' = [envp EXCEPT ![who] = NULL]
        /\ pc = "free" /\ pc' = "idle" /\ cells(envp[who])[i] = NULL
    BY <1>13 DEF FreeArray, Return
  <2>2. PICK w \in Holders : w = who
    BY <2>1 DEF LoopsStop
  <2> DEFINE c == cells(envp[w])
             x == Owns(w, 0, envp[w])
  <2>3. /\ envp[w] # NULL /\ envp[w] \in Addr /\ c \in Seq(Pointer) /\ Terminated(c)
        /\ i \in 1..Len(c)
    BY <2>1, <2>2, HeapTypes DEF LoopsStop, TypeOK
  <2>4. i = Len(c)
    BY <2>1, <2>2, <2>3, BeforeEnd
  <2>5. Live(w) = {}
    <3>1. \A k \in DOMAIN c : c[k] # NULL => k < i
      BY <2>3, <2>4, BeforeEnd
    <3> QED BY <2>1, <2>2, <3>1 DEF Live
  <2>6. OfHolder(w) = {x} /\ OfHolder(w)' = {}
    BY <2>1, <2>2, <2>3, <2>5 DEF OfHolder, TypeOK
  <2>7. ASSUME NEW h \in Holders, h # w PROVE OfHolder(h)' = OfHolder(h)
    <3>1. envp'[h] = envp[h]
      BY <2>1, <2>2, <2>7 DEF TypeOK
    <3>2. envp[h] # NULL => heap'[envp[h]] = heap[envp[h]]
      BY <2>1, <2>2, <2>3, <2>7, ArraysApart DEF TypeOK
    <3> QED BY <2>1, <2>2, <2>7, <3>1, <3>2, HolderStays
  <2>8. OfCopy = {} /\ OfCopy' = {} /\ OfSet = {} /\ OfSet' = {}
    BY <2>1 DEF OfCopy, OfSet
  <2>9. x \in Ownership /\ x.block = envp[w]
    BY <2>6, Claim DEF Ownership
  <2>10. \A h \in Holders : h # w => x \notin OfHolder(h)
    BY <2>6, Owners
  <2>11. Addr \ FreeAddr' = (Addr \ FreeAddr) \ {envp[w]}
    BY <2>1, <2>2, <2>3 DEF FreeAddr, TypeOK
  <2> HIDE DEF x, c
  <2>12. Ownership' = Ownership \ {x}
    BY <2>6, <2>7, <2>8, <2>10 DEF Ownership
  <2> QED BY <1>0, <2>9, <2>11, <2>12, GivesUp DEF OwnedOnce
<1>14. CASE UNCHANGED vars
  <2>1. ASSUME NEW h \in Holders PROVE OfHolder(h)' = OfHolder(h)
    BY <1>14, HolderStays DEF vars
  <2>2. OfCopy' = OfCopy /\ OfSet' = OfSet
    BY <1>14 DEF vars, OfCopy, OfSet, cells
  <2>3. Ownership' = Ownership
    BY <2>1, <2>2 DEF Ownership
  <2>4. FreeAddr' = FreeAddr
    BY <1>14 DEF vars, FreeAddr
  <2> QED BY <1>0, <2>3, <2>4 DEF OwnedOnce
<1> QED BY <1>1, <1>2, <1>3, <1>4, <1>5, <1>6, <1>7, <1>8, <1>9, <1>10, <1>11,
           <1>12, <1>13, <1>14 DEF Next, Call, Work

(***************************************************************************)
(* The three together are inductive.                                       *)
(***************************************************************************)
EnvInv == TypeOK /\ LoopsStop /\ OwnedOnce

LEMMA EnvInvHolds == Spec => []EnvInv
<1>1. Init => EnvInv
  BY TypeInit, LoopsInit, OwnedInit DEF EnvInv
<1>2. EnvInv /\ [Next]_vars => EnvInv'
  BY TypeNext, LoopsNext, OwnedNext DEF EnvInv
<1> QED BY <1>1, <1>2, PTL DEF Spec

(* Blocks stay whole and the locals of the env_ routines are what their    *)
(* code takes them for.                                                    *)
THEOREM TypeCorrect == Spec => []TypeOK
<1>1. EnvInv => TypeOK
  BY DEF EnvInv
<1> QED BY <1>1, EnvInvHolds, PTL

(* The loops of env_copy, env_get and env_free meet a NULL at the end of   *)
(* the array they walk and stay inside it, for any holders, any strings    *)
(* and any allocator, wherever memory runs out.                            *)
THEOREM LoopsStayInside == Spec => []LoopsStop
<1>1. EnvInv => LoopsStop
  BY DEF EnvInv
<1> QED BY <1>1, EnvInvHolds, PTL

(* The env_ routines never leak, share or keep a freed block, for any      *)
(* holders, any strings and any allocator, wherever memory runs out.       *)
THEOREM NoLeakNoSharing == Spec => []OwnedOnce
<1>1. EnvInv => OwnedOnce
  BY DEF EnvInv
<1> QED BY <1>1, EnvInvHolds, PTL
=============================================================================
