--------------------------------- MODULE Env ---------------------------------
(***************************************************************************)
(* env_init, env_copy, env_set, env_get and env_free: an environment is an *)
(* array of pointers to strings that ends with NULL.                       *)
(*                                                                         *)
(* Their caller is load_entry, which copies the environment of the file,   *)
(* sets variables in the copy and frees it on an error; here a caller may  *)
(* hold several environments and call the routines in any order.  Memory   *)
(* may run out at every call of malloc, strdup and realloc.  An operation  *)
(* that fails at its first allocation changes nothing and is no step.      *)
(***************************************************************************)
EXTENDS Integers, Sequences

CONSTANTS
  Addr,           \* addresses of memory blocks
  malloc(_),      \* which of the free ones the allocator may hand out
  NULL, Junk,     \* the null pointer; a pointer that nobody has written
  Holders,        \* who can hold an environment
  Char,           \* characters; NUL, which ends a string, is none of them
  Names, Values,  \* strings of characters
  MAX_ENVSTR,     \* size of the buffer that load_entry glues a string in
  Absent

EQ == "="

ASSUME EnvInputs ==
  /\ NULL \notin Addr /\ Junk \notin Addr \cup {NULL}
  /\ \A S \in SUBSET Addr : malloc(S) \subseteq S
  /\ Holders \cap {NULL, "env_copy", "env_set"} = {}
  /\ EQ \in Char /\ "NUL" \notin Char
  /\ \A n \in Names : n \in Seq(Char) /\ \A i \in DOMAIN n : n[i] # EQ
  /\ Values \subseteq Seq(Char)
  /\ Absent \notin Values
  /\ NULL \notin [Names -> Values \cup {Absent}]
  /\ MAX_ENVSTR \in Nat

VARIABLES
  heap,    \* what each block holds
  envp,    \* the array of each holder
  pc,      \* the part of the routine that runs, or "idle"
  who,     \* the holder it runs for
  src, p,  \* env_copy: the array it copies, and the copy
  i,       \* the index of its loop, from 1
  envtmp   \* env_set: the duplicate of the string

vars == <<heap, envp, pc, who, src, p, i, envtmp>>
locals == <<who, src, p, i, envtmp>>

(* A block is free, an array of pointers or a string. *)
Block(kind, cells, text) == [kind |-> kind, cells |-> cells, text |-> text]
Unused == Block("free", <<>>, <<>>)
Array(cells) == Block("array", cells, <<>>)
String(text) == Block("string", <<>>, text)

FreeAddr == {a \in Addr : heap[a] = Unused}

Fresh == malloc(FreeAddr)

cells(a) == heap[a].cells
text(a) == heap[a].text

Init ==
  /\ heap = [a \in Addr |-> Unused]
  /\ envp = [h \in Holders |-> NULL]
  /\ pc = "idle" /\ who = NULL /\ src = NULL /\ p = NULL /\ i = 1 /\ envtmp = NULL

(* The routine returns; its locals are gone. *)
Return ==
  pc' = "idle" /\ who' = NULL /\ src' = NULL /\ p' = NULL /\ i' = 1 /\ envtmp' = NULL

-----------------------------------------------------------------------------
(***************************************************************************)
(* Strings.  strcmp_until compares up to the first character where the two *)
(* differ or the left one ends; equal means that both end there.           *)
(***************************************************************************)
CharAt(s, k) == IF k <= Len(s) THEN s[k] ELSE "NUL"

(* Slip: the strings are compared to their ends. *)
strcmp_whole(left, right, until) == left = right

strcmp_until(left, right, until) ==
  \E k \in 1..(Len(left) + 1) :
    /\ \A j \in 1..(k - 1) : left[j] # until /\ left[j] = CharAt(right, j)
    /\ CharAt(left, k) \in {"NUL", until}
    /\ CharAt(right, k) \in {"NUL", until}

(* Slip: the buffer is taken to hold one character more. *)
glue_strings_full(size, a, b, separator) ==
  LET joined == a \o <<separator>> \o b
  IN  [ok |-> Len(joined) <= size, text |-> joined]

(* A path separator is not doubled.  The last byte of the buffer is for    *)
(* the NUL; the three tests for a full buffer amount to one.               *)
glue_strings(size, a, b, separator) ==
  LET sep == IF separator = "/" /\ a # <<>> /\ a[Len(a)] = "/" THEN <<>> ELSE <<separator>>
      joined == a \o sep \o b
  IN  [ok |-> Len(joined) < size, text |-> joined]

(* env_get: the first string that reads name=... *)
IsSetting(s, name) ==
  Len(s) > Len(name) /\ s[Len(name) + 1] = EQ /\ SubSeq(s, 1, Len(name)) = name

env_get(name, array) ==
  LET hits == {k \in DOMAIN cells(array) :
                 cells(array)[k] # NULL /\ IsSetting(text(cells(array)[k]), name)}
      s == text(cells(array)[CHOOSE k \in hits : \A j \in hits : k <= j])
  IN  IF hits = {} THEN Absent ELSE SubSeq(s, Len(name) + 2, Len(s))

-----------------------------------------------------------------------------
env_init(h) ==
  /\ pc = "idle" /\ envp[h] = NULL
  /\ \E a \in Fresh :
       /\ heap' = [heap EXCEPT ![a] = Array(<<NULL>>)]
       /\ envp' = [envp EXCEPT ![h] = a]
  /\ UNCHANGED <<pc, locals>>

(***************************************************************************)
(* env_copy: an array of the same length, then one string after another.   *)
(* When a string cannot be duplicated, those before it are freed again.    *)
(* (The slip before it: the result of malloc is not tested.)               *)
(***************************************************************************)
env_copy_untested(g, h) ==
  /\ pc = "idle" /\ envp[g] # NULL /\ envp[h] = NULL
  /\ \E a \in Fresh \cup {NULL} :
       /\ heap' = [b \in Addr |->
            IF b = a THEN Array([k \in DOMAIN cells(envp[g]) |-> Junk]) ELSE heap[b]]
       /\ p' = a
  /\ pc' = "copy" /\ who' = h /\ src' = envp[g] /\ i' = 1
  /\ UNCHANGED <<envp, envtmp>>

env_copy(g, h) ==
  /\ pc = "idle" /\ envp[g] # NULL /\ envp[h] = NULL
  /\ \E a \in Fresh :
       /\ heap' = [heap EXCEPT ![a] = Array([k \in DOMAIN cells(envp[g]) |-> Junk])]
       /\ p' = a
  /\ pc' = "copy" /\ who' = h /\ src' = envp[g] /\ i' = 1
  /\ UNCHANGED <<envp, envtmp>>

(* Slip: the copy shares the strings of the original. *)
CopyStringShared ==
  /\ pc = "copy" /\ cells(src)[i] # NULL
  /\ heap' = [heap EXCEPT ![p] = Array([cells(p) EXCEPT ![i] = cells(src)[i]])]
  /\ i' = i + 1
  /\ UNCHANGED <<envp, pc, who, src, p, envtmp>>

CopyString ==
  /\ pc = "copy" /\ cells(src)[i] # NULL
  /\ \/ /\ \E a \in Fresh :
             heap' = [heap EXCEPT ![a] = heap[cells(src)[i]],
                                  ![p] = Array([cells(p) EXCEPT ![i] = a])]
        /\ i' = i + 1 /\ UNCHANGED pc
     \/ pc' = "unwind" /\ UNCHANGED <<heap, i>>
  /\ UNCHANGED <<envp, who, src, p, envtmp>>

CopyEnd ==
  /\ pc = "copy" /\ cells(src)[i] = NULL
  /\ heap' = [heap EXCEPT ![p] = Array([cells(p) EXCEPT ![i] = NULL])]
  /\ envp' = [envp EXCEPT ![who] = p]
  /\ Return

UnwindString ==
  /\ pc = "unwind" /\ i > 1
  /\ heap' = [heap EXCEPT ![cells(p)[i - 1]] = Unused]
  /\ i' = i - 1
  /\ UNCHANGED <<envp, pc, who, src, p, envtmp>>

UnwindArray ==
  /\ pc = "unwind" /\ i = 1
  /\ heap' = [heap EXCEPT ![p] = Unused]
  /\ UNCHANGED envp
  /\ Return

(***************************************************************************)
(* load_entry glues name and value; env_set duplicates the string, then    *)
(* puts it in the place of the (last) string of that name, or makes the    *)
(* array longer.  realloc may move it.                                     *)
(***************************************************************************)
env_set(h, name, value) ==
  /\ pc = "idle" /\ envp[h] # NULL
  /\ LET envstr == glue_strings(MAX_ENVSTR, name, value, EQ)
     IN  /\ envstr.ok
         /\ \E a \in Fresh :
              /\ heap' = [heap EXCEPT ![a] = String(envstr.text)]
              /\ envtmp' = a
  /\ pc' = "set" /\ who' = h
  /\ UNCHANGED <<envp, src, p, i>>

Found ==
  {k \in DOMAIN cells(envp[who]) :
     /\ cells(envp[who])[k] # NULL
     /\ strcmp_until(text(cells(envp[who])[k]), text(envtmp), EQ)}

Replace ==
  /\ pc = "set"
  /\ \E k \in Found :
       /\ \A j \in Found : j <= k
       /\ heap' = [heap EXCEPT ![cells(envp[who])[k]] = Unused,
                               ![envp[who]] = Array([cells(envp[who]) EXCEPT ![k] = envtmp])]
  /\ UNCHANGED envp
  /\ Return

(* Slip: the NULL is not moved behind the new string. *)
GrownOpen(c) == [k \in 1..(Len(c) + 1) |->
  IF k = Len(c) THEN envtmp ELSE IF k = Len(c) + 1 THEN Junk ELSE c[k]]

Grown(c) == [k \in 1..(Len(c) + 1) |->
  IF k = Len(c) THEN envtmp ELSE IF k = Len(c) + 1 THEN c[Len(c)] ELSE c[k]]

Grow ==
  /\ pc = "set" /\ Found = {}
  /\ \E b \in Fresh \cup {envp[who]} :
       /\ heap' = [a \in Addr |-> IF a = b THEN Array(Grown(cells(envp[who])))
                                  ELSE IF a = envp[who] THEN Unused ELSE heap[a]]
       /\ envp' = [envp EXCEPT ![who] = b]
  /\ Return

GrowFails ==
  /\ pc = "set" /\ Found = {}
  /\ heap' = [heap EXCEPT ![envtmp] = Unused]
  /\ UNCHANGED envp
  /\ Return

(***************************************************************************)
(* env_free.  The caller forgets the array with it.                        *)
(***************************************************************************)
env_free(h) ==
  /\ pc = "idle" /\ envp[h] # NULL
  /\ pc' = "free" /\ who' = h
  /\ UNCHANGED <<heap, envp, src, p, i, envtmp>>

(* Slip: the loop does not move on. *)
FreeStringAgain ==
  /\ pc = "free" /\ cells(envp[who])[i] # NULL
  /\ heap' = [heap EXCEPT ![cells(envp[who])[i]] = Unused]
  /\ UNCHANGED <<envp, pc, who, src, p, i, envtmp>>

FreeString ==
  /\ pc = "free" /\ cells(envp[who])[i] # NULL
  /\ heap' = [heap EXCEPT ![cells(envp[who])[i]] = Unused]
  /\ i' = i + 1
  /\ UNCHANGED <<envp, pc, who, src, p, envtmp>>

FreeArray ==
  /\ pc = "free" /\ cells(envp[who])[i] = NULL
  /\ heap' = [heap EXCEPT ![envp[who]] = Unused]
  /\ envp' = [envp EXCEPT ![who] = NULL]
  /\ Return

(* A call, and the steps of the routine that was called. *)
Call ==
  \E h \in Holders :
    \/ env_init(h)
    \/ \E g \in Holders : env_copy(g, h)
    \/ \E n \in Names, v \in Values : env_set(h, n, v)
    \/ env_free(h)

Work ==
  \/ CopyString \/ CopyEnd \/ UnwindString \/ UnwindArray
  \/ Replace \/ Grow \/ GrowFails \/ FreeString \/ FreeArray

Next == Call \/ Work

(* The caller may stop calling; a routine that was called goes on. *)
Spec == Init /\ [][Next]_vars /\ WF_vars(Work)

-----------------------------------------------------------------------------
Pointer == Addr \cup {NULL, Junk}

Blocks == [kind : {"free", "array", "string"}, cells : Seq(Pointer), text : Seq(Char)]

(* Type invariant: blocks are whole, and each routine has the locals it    *)
(* uses.                                                                   *)
TypeOK ==
  /\ heap \in [Addr -> Blocks]
  /\ envp \in [Holders -> Addr \cup {NULL}]
  /\ pc \in {"idle", "copy", "unwind", "set", "free"}
  /\ i \in Nat \ {0}
  /\ pc # "idle" <=> who # NULL
  /\ pc \in {"copy", "unwind"} => {src, p} \subseteq Addr
  /\ pc = "set" => envtmp \in Addr

(***************************************************************************)
(* Who owns what: a holder its array and the strings in it that are not    *)
(* freed yet, env_copy the array and the strings it has made, env_set the  *)
(* string that is in no array yet.                                         *)
(***************************************************************************)
Live(h) ==
  {k \in DOMAIN cells(envp[h]) :
     cells(envp[h])[k] # NULL /\ ~(pc = "free" /\ who = h /\ k < i)}

Owns(owner, k, a) == [owner |-> owner, at |-> k, block |-> a]

OfHolder(h) ==
  IF envp[h] = NULL THEN {}
  ELSE {Owns(h, 0, envp[h])} \cup {Owns(h, k, cells(envp[h])[k]) : k \in Live(h)}

OfCopy ==
  IF pc \notin {"copy", "unwind"} THEN {}
  ELSE {Owns("env_copy", 0, p)} \cup {Owns("env_copy", k, cells(p)[k]) : k \in 1..(i - 1)}

OfSet == IF pc = "set" THEN {Owns("env_set", 0, envtmp)} ELSE {}

Ownership == (UNION {OfHolder(h) : h \in Holders}) \cup OfCopy \cup OfSet

(* The claims R name every block of A, and none of them twice. *)
Once(R, A) ==
  /\ \A x, y \in R : x.block = y.block => x = y
  /\ {x.block : x \in R} = A

(* In every state of every routine each allocated block has exactly one    *)
(* owner, and nobody owns a block that is free: no leak, no dangling       *)
(* pointer and no sharing, however the last allocation ended.              *)
OwnedOnce == Once(Ownership, Addr \ FreeAddr)

(***************************************************************************)
(* What the loops of the routines rely on.                                 *)
(***************************************************************************)
Terminated(c) ==
  /\ Len(c) > 0 /\ c[Len(c)] = NULL
  /\ \A k \in 1..(Len(c) - 1) : c[k] \in Addr

(* An array that a holder has ends with a NULL and has no other, also      *)
(* while its strings are freed; env_copy works on an array of a holder and *)
(* has written every cell it has passed; and no loop has passed the end.   *)
LoopsStop ==
  /\ \A h \in Holders : envp[h] # NULL => Terminated(cells(envp[h]))
  /\ pc # "idle" => who \in Holders
  /\ pc \in {"idle", "set"} => i = 1
  /\ pc \in {"copy", "unwind"} =>
       /\ envp[who] = NULL
       /\ \E g \in Holders : src = envp[g]
       /\ Len(cells(p)) = Len(cells(src)) /\ i <= Len(cells(src))
       /\ \A k \in 1..(i - 1) : cells(p)[k] \in Addr
  /\ pc \in {"set", "free"} => envp[who] # NULL
  /\ pc = "free" => i <= Len(cells(envp[who]))

(* The environment that a holder sees through env_get. *)
View(h) ==
  IF envp[h] = NULL \/ (pc = "free" /\ who = h) THEN NULL
  ELSE [n \in Names |-> env_get(n, envp[h])]

FitsBuffer(n, v) == Len(n) + 1 + Len(v) + 1 <= MAX_ENVSTR

Promise == INSTANCE Environment WITH
  None <- NULL,
  Fits <- FitsBuffer,
  env <- [h \in Holders |-> View(h)]

(* Seen through env_get the arrays are environments: a call changes the    *)
(* one variable of the one holder it is about, and a call that fails half  *)
(* way changes nothing.                                                    *)
KeepsEnvironment == Promise!Spec

(***************************************************************************)
(* What env_get relies on.                                                 *)
(***************************************************************************)
Setting(n, v) == n \o <<EQ>> \o v

SetsVariable(s) == \E n \in Names, v \in Values : FitsBuffer(n, v) /\ s = Setting(n, v)

(* The strings of an array at the places K each set another variable. *)
EachOnce(c, K) ==
  /\ \A k \in K : SetsVariable(text(c[k]))
  /\ \A n \in Names : \A j, k \in K :
       IsSetting(text(c[j]), n) /\ IsSetting(text(c[k]), n) => j = k

(* Every string of an environment sets a variable, and no two of them the  *)
(* same one; env_copy has so far copied what it has passed, and env_set    *)
(* holds a string that sets a variable.                                    *)
SetsEachOnce ==
  /\ \A h \in Holders : envp[h] # NULL => EachOnce(cells(envp[h]), Live(h))
  /\ pc = "copy" => \A k \in 1..(i - 1) : text(cells(p)[k]) = text(cells(src)[k])
  /\ pc = "set" => SetsVariable(text(envtmp))

(* Every routine returns: its loop meets the NULL of the array. *)
Returns == pc # "idle" ~> pc = "idle"
=============================================================================
