-------------------------- MODULE EnvironmentProofs --------------------------
(***************************************************************************)
(* The env_ routines implement Environment: seen through env_get an array  *)
(* is a function from names to values, and every step of every routine is  *)
(* a step of Environment or changes nothing that can be seen.              *)
(***************************************************************************)
EXTENDS EnvProofs

(***************************************************************************)
(* Strings that set a variable.  A name has no = and no NUL in it, so the  *)
(* first = of such a string is the one behind the name.                    *)
(***************************************************************************)
LEMMA SettingIs ==
  ASSUME NEW n \in Names, NEW v \in Values
  PROVE  /\ n \in Seq(Char) /\ v \in Seq(Char) /\ Len(n) \in Nat /\ Len(v) \in Nat
         /\ Setting(n, v) \in Seq(Char)
         /\ Len(Setting(n, v)) = Len(n) + 1 + Len(v)
         /\ \A j \in 1..Len(n) : Setting(n, v)[j] = n[j] /\ n[j] # EQ /\ n[j] # "NUL"
         /\ Setting(n, v)[Len(n) + 1] = EQ
         /\ \A j \in 1..Len(v) : Setting(n, v)[Len(n) + 1 + j] = v[j]
<1>1. /\ n \in Seq(Char) /\ v \in Seq(Char) /\ <<EQ>> \in Seq(Char) /\ Len(<<EQ>>) = 1
      /\ \A j \in 1..Len(n) : n[j] # EQ /\ n[j] # "NUL"
  BY EnvInputs
<1>2. /\ n \o <<EQ>> \in Seq(Char) /\ Len(n \o <<EQ>>) = Len(n) + 1
      /\ \A j \in 1..Len(n) : (n \o <<EQ>>)[j] = n[j]
      /\ (n \o <<EQ>>)[Len(n) + 1] = EQ
  BY <1>1
<1> DEFINE a == n \o <<EQ>>
<1>3. /\ a \o v \in Seq(Char) /\ Len(a \o v) = Len(a) + Len(v)
      /\ \A j \in 1..Len(a) : (a \o v)[j] = a[j]
      /\ \A j \in 1..Len(v) : (a \o v)[Len(a) + j] = v[j]
  <2>1. a \in Seq(Char)
    BY <1>2
  <2> HIDE DEF a
  <2>2. Len(a) \in Nat /\ Len(v) \in Nat
    BY <1>1, <2>1
  <2> QED BY <1>1, <2>1, <2>2
<1>4. Setting(n, v) = a \o v
  BY DEF Setting
<1> HIDE DEF a
<1>5. /\ Len(a) = Len(n) + 1 /\ \A j \in 1..Len(n) : a[j] = n[j]
      /\ a[Len(n) + 1] = EQ
  BY <1>2 DEF a
<1>6. Len(n) \in Nat /\ Len(v) \in Nat
  BY <1>1
<1> QED BY <1>1, <1>3, <1>4, <1>5, <1>6

(* env_get finds a string under its own name only. *)
LEMMA NameOf ==
  ASSUME NEW n \in Names, NEW v \in Values, NEW m \in Names
  PROVE  IsSetting(Setting(n, v), m) <=> n = m
<1> DEFINE s == Setting(n, v)
<1>1. /\ s \in Seq(Char) /\ Len(s) = Len(n) + 1 + Len(v) /\ s[Len(n) + 1] = EQ
      /\ \A j \in 1..Len(n) : s[j] = n[j] /\ n[j] # EQ
      /\ Len(n) \in Nat /\ Len(v) \in Nat /\ n \in Seq(Char)
  BY SettingIs
<1>2. m \in Seq(Char) /\ Len(m) \in Nat /\ \A j \in 1..Len(m) : m[j] # EQ
  BY EnvInputs
<1> HIDE DEF s
<1>3. \A l \in Nat : l <= Len(s) => /\ SubSeq(s, 1, l) \in Seq(Char) /\ Len(SubSeq(s, 1, l)) = l
                                    /\ \A j \in 1..l : SubSeq(s, 1, l)[j] = s[j]
  BY <1>1
<1>4. ASSUME n = m PROVE IsSetting(s, m)
  <2>1. Len(s) > Len(n) /\ Len(n) <= Len(s)
    BY <1>1
  <2>2. SubSeq(s, 1, Len(n)) = n
    BY <1>1, <1>3, <2>1
  <2> QED BY <1>1, <1>4, <2>1, <2>2 DEF IsSetting
<1>5. ASSUME IsSetting(s, m) PROVE n = m
  <2>1. Len(s) > Len(m) /\ s[Len(m) + 1] = EQ /\ SubSeq(s, 1, Len(m)) = m
    BY <1>5 DEF IsSetting
  <2>2. \A j \in 1..Len(m) : s[j] = m[j]
    BY <1>1, <1>2, <1>3, <2>1
  <2>3. ~(Len(m) < Len(n))
    <3>1. Len(m) < Len(n) => Len(m) + 1 \in 1..Len(n)
      BY <1>1, <1>2
    <3> QED BY <1>1, <2>1, <3>1
  <2>4. ~(Len(n) < Len(m))
    BY <1>1, <1>2, <2>2
  <2>5. Len(n) = Len(m)
    BY <1>1, <1>2, <2>3, <2>4
  <2> QED BY <1>1, <1>2, <2>2, <2>5
<1> QED BY <1>4, <1>5 DEF s

(* What env_get returns of it is the value. *)
LEMMA ValueOf ==
  ASSUME NEW n \in Names, NEW v \in Values
  PROVE  SubSeq(Setting(n, v), Len(n) + 2, Len(Setting(n, v))) = v
<1> DEFINE s == Setting(n, v)
<1>1. /\ s \in Seq(Char) /\ Len(s) = Len(n) + 1 + Len(v)
      /\ \A j \in 1..Len(v) : s[Len(n) + 1 + j] = v[j]
      /\ Len(n) \in Nat /\ Len(v) \in Nat /\ v \in Seq(Char)
  BY SettingIs
<1> HIDE DEF s
<1>2. /\ SubSeq(s, Len(n) + 2, Len(s)) \in Seq(Char)
      /\ Len(SubSeq(s, Len(n) + 2, Len(s))) = Len(v)
      /\ \A j \in 1..Len(v) : SubSeq(s, Len(n) + 2, Len(s))[j] = s[Len(n) + 2 + j - 1]
  BY <1>1
<1>3. \A j \in 1..Len(v) : Len(n) + 2 + j - 1 = Len(n) + 1 + j
  BY <1>1
<1>4. \A j \in 1..Len(v) : SubSeq(s, Len(n) + 2, Len(s))[j] = v[j]
  BY <1>1, <1>2, <1>3
<1>5. SubSeq(s, Len(n) + 2, Len(s)) = v
  BY <1>1, <1>2, <1>4
<1> QED BY <1>5 DEF s

(* env_set takes two strings for the same variable when they are. *)
LEMMA SameName ==
  ASSUME NEW n \in Names, NEW v \in Values, NEW m \in Names, NEW u \in Values
  PROVE  strcmp_until(Setting(n, v), Setting(m, u), EQ) <=> n = m
<1> DEFINE s == Setting(n, v)
           t == Setting(m, u)
<1>1. /\ s \in Seq(Char) /\ Len(s) = Len(n) + 1 + Len(v) /\ s[Len(n) + 1] = EQ
      /\ \A j \in 1..Len(n) : s[j] = n[j] /\ n[j] # EQ /\ n[j] # "NUL"
      /\ Len(n) \in Nat /\ Len(v) \in Nat /\ n \in Seq(Char)
  BY SettingIs
<1>2. /\ t \in Seq(Char) /\ Len(t) = Len(m) + 1 + Len(u) /\ t[Len(m) + 1] = EQ
      /\ \A j \in 1..Len(m) : t[j] = m[j] /\ m[j] # EQ /\ m[j] # "NUL"
      /\ Len(m) \in Nat /\ Len(u) \in Nat /\ m \in Seq(Char)
  BY SettingIs
<1> HIDE DEF s, t
<1>3. /\ \A j \in 1..(Len(n) + 1) : CharAt(s, j) = s[j]
      /\ \A j \in 1..(Len(m) + 1) : CharAt(t, j) = t[j]
  BY <1>1, <1>2 DEF CharAt
<1>4. ASSUME n = m PROVE strcmp_until(s, t, EQ)
  <2> DEFINE k == Len(n) + 1
  <2>1. k \in 1..(Len(s) + 1)
    BY <1>1
  <2>2. \A j \in 1..(k - 1) : s[j] # EQ /\ s[j] = CharAt(t, j)
    <3>1. \A j \in 1..(k - 1) : j \in 1..Len(n) /\ j \in 1..Len(m) /\ j \in 1..(Len(m) + 1)
      BY <1>1, <1>4
    <3> HIDE DEF k
    <3> QED BY <1>1, <1>2, <1>3, <1>4, <3>1
  <2>3. CharAt(s, k) = EQ /\ CharAt(t, k) = EQ
    BY <1>1, <1>2, <1>3, <1>4
  <2> HIDE DEF k
  <2> QED BY <2>1, <2>2, <2>3 DEF strcmp_until
<1>5. ASSUME strcmp_until(s, t, EQ) PROVE n = m
  <2>1. PICK k \in 1..(Len(s) + 1) :
          /\ \A j \in 1..(k - 1) : s[j] # EQ /\ s[j] = CharAt(t, j)
          /\ CharAt(s, k) \in {"NUL", EQ}
          /\ CharAt(t, k) \in {"NUL", EQ}
    BY <1>5 DEF strcmp_until
  <2>2. k \in Nat /\ k >= 1
    BY <1>1
  <2>3. ~(k > Len(n) + 1)
    BY <1>1, <2>1, <2>2
  <2>4. ~(k <= Len(n))
    BY <1>1, <1>3, <2>1, <2>2
  <2>5. k = Len(n) + 1
    BY <1>1, <2>2, <2>3, <2>4
  <2>6. \A j \in 1..Len(n) : n[j] = CharAt(t, j)
    BY <1>1, <2>1, <2>5
  <2>7. ~(Len(m) < Len(n))
    <3> SUFFICES ASSUME Len(m) < Len(n) PROVE FALSE
      OBVIOUS
    <3>1. Len(m) + 1 \in 1..Len(n) /\ Len(m) + 1 \in 1..(Len(m) + 1)
      BY <1>1, <1>2
    <3> QED BY <1>1, <1>2, <1>3, <2>6, <3>1
  <2>8. ~(Len(n) < Len(m))
    <3> SUFFICES ASSUME Len(n) < Len(m) PROVE FALSE
      OBVIOUS
    <3>1. k \in 1..Len(m) /\ k \in 1..(Len(m) + 1)
      BY <1>1, <1>2, <2>5
    <3> QED BY <1>2, <1>3, <2>1, <3>1
  <2>9. Len(n) = Len(m)
    BY <1>1, <1>2, <2>7, <2>8
  <2>10. \A j \in 1..Len(n) : n[j] = m[j]
    BY <1>2, <1>3, <2>6, <2>9
  <2> QED BY <1>1, <1>2, <2>9, <2>10
<1> QED BY <1>4, <1>5 DEF s, t

-----------------------------------------------------------------------------
(***************************************************************************)
(* EachOnce and env_get of a memory H that need not be the present one.    *)
(***************************************************************************)
EachIn(H, c, K) ==
  /\ \A k \in K : SetsVariable(H[c[k]].text)
  /\ \A n \in Names : \A j, k \in K :
       IsSetting(H[c[j]].text, n) /\ IsSetting(H[c[k]].text, n) => j = k

StringsIn(H, a) == {k \in DOMAIN H[a].cells : H[a].cells[k] # NULL}

GetIn(n, H, a) ==
  LET hits == {k \in DOMAIN H[a].cells :
                 H[a].cells[k] # NULL /\ IsSetting(H[H[a].cells[k]].text, n)}
      s == H[H[a].cells[CHOOSE k \in hits : \A j \in hits : k <= j]].text
  IN  IF hits = {} THEN Absent ELSE SubSeq(s, Len(n) + 2, Len(s))

(* In an array whose strings each set another variable, env_get gives the  *)
(* value of the one string with the name, or Absent when there is none.    *)
LEMMA Lookup ==
  ASSUME NEW H \in [Addr -> Blocks], NEW a \in Addr, NEW n \in Names,
         EachIn(H, H[a].cells, StringsIn(H, a))
  PROVE  \/ \E k \in StringsIn(H, a), v \in Values :
              H[H[a].cells[k]].text = Setting(n, v) /\ GetIn(n, H, a) = v
         \/ /\ \A k \in StringsIn(H, a) : ~IsSetting(H[H[a].cells[k]].text, n)
            /\ GetIn(n, H, a) = Absent
<1> DEFINE c == H[a].cells
           hits == {k \in DOMAIN c : c[k] # NULL /\ IsSetting(H[c[k]].text, n)}
           s == H[c[CHOOSE k \in hits : \A j \in hits : k <= j]].text
<1>1. GetIn(n, H, a) = IF hits = {} THEN Absent ELSE SubSeq(s, Len(n) + 2, Len(s))
  BY DEF GetIn
<1>2. c \in Seq(Pointer)
  BY DEF Blocks
<1>3. hits = {k \in StringsIn(H, a) : IsSetting(H[c[k]].text, n)}
  BY DEF StringsIn
<1>4. CASE hits = {}
  <2> HIDE DEF s
  <2> QED BY <1>1, <1>3, <1>4
<1>5. CASE hits # {}
  <2>1. PICK k \in hits : TRUE
    BY <1>5
  <2>2. k \in StringsIn(H, a) /\ IsSetting(H[c[k]].text, n) /\ k \in Int
    BY <1>2, <1>3, <2>1 DEF StringsIn
  <2>3. hits = {k}
    BY <1>3, <2>1, <2>2 DEF EachIn
  <2>4. (CHOOSE l \in hits : \A j \in hits : l <= j) = k
    <3> HIDE DEF hits
    <3> QED BY <2>2, <2>3
  <2>5. PICK m \in Names, v \in Values : H[c[k]].text = Setting(m, v)
    BY <2>2 DEF EachIn, SetsVariable
  <2>6. m = n
    BY <2>2, <2>5, NameOf
  <2>7. s = Setting(n, v)
    <3> HIDE DEF hits
    <3> QED BY <2>4, <2>5, <2>6
  <2>8. GetIn(n, H, a) = v
    <3> HIDE DEF hits, s
    <3> QED BY <1>1, <1>5, <2>7, ValueOf
  <2> QED BY <2>2, <2>5, <2>6, <2>8
<1> QED BY <1>4, <1>5

(* Two arrays, in two memories, whose strings are the same give the same   *)
(* values.                                                                 *)
LEMMA SameStrings ==
  ASSUME NEW H \in [Addr -> Blocks], NEW a \in Addr,
         NEW G \in [Addr -> Blocks], NEW b \in Addr,
         EachIn(H, H[a].cells, StringsIn(H, a)),
         StringsIn(G, b) = StringsIn(H, a),
         \A k \in StringsIn(H, a) : G[G[b].cells[k]].text = H[H[a].cells[k]].text
  PROVE  /\ EachIn(G, G[b].cells, StringsIn(G, b))
         /\ \A n \in Names : GetIn(n, G, b) = GetIn(n, H, a)
<1>1. EachIn(G, G[b].cells, StringsIn(G, b))
  BY DEF EachIn
<1>2. ASSUME NEW n \in Names PROVE GetIn(n, G, b) = GetIn(n, H, a)
  <2>1. CASE \E k \in StringsIn(H, a), v \in Values :
               H[H[a].cells[k]].text = Setting(n, v) /\ GetIn(n, H, a) = v
    <3>1. PICK k \in StringsIn(H, a), v \in Values :
            H[H[a].cells[k]].text = Setting(n, v) /\ GetIn(n, H, a) = v
      BY <2>1
    <3>2. IsSetting(G[G[b].cells[k]].text, n)
      BY <3>1, NameOf
    <3>3. PICK j \in StringsIn(G, b), u \in Values :
            G[G[b].cells[j]].text = Setting(n, u) /\ GetIn(n, G, b) = u
      BY <1>1, <3>1, <3>2, Lookup
    <3>4. j = k
      BY <1>1, <3>2, <3>3, NameOf DEF EachIn
    <3>5. u = v
      <4>1. Setting(n, u) = Setting(n, v)
        BY <3>1, <3>3, <3>4
      <4>2. /\ SubSeq(Setting(n, u), Len(n) + 2, Len(Setting(n, u))) = u
            /\ SubSeq(Setting(n, v), Len(n) + 2, Len(Setting(n, v))) = v
        BY ValueOf
      <4> QED BY <4>1, <4>2
    <3> QED BY <3>1, <3>3, <3>5
  <2>2. CASE /\ \A k \in StringsIn(H, a) : ~IsSetting(H[H[a].cells[k]].text, n)
             /\ GetIn(n, H, a) = Absent
    <3>1. \A k \in StringsIn(G, b) : ~IsSetting(G[G[b].cells[k]].text, n)
      BY <2>2
    <3>2. GetIn(n, G, b) = Absent
      BY <1>1, <3>1, Lookup, NameOf
    <3> QED BY <2>2, <3>2
  <2> QED BY <2>1, <2>2, Lookup
<1> QED BY <1>1, <1>2

-----------------------------------------------------------------------------
(***************************************************************************)
(* What a step leaves alone: the array and the strings of every holder but *)
(* the one it works for.                                                   *)
(***************************************************************************)
Untouched(h) ==
  /\ envp'[h] = envp[h]
  /\ envp[h] # NULL => /\ heap'[envp[h]] = heap[envp[h]]
                       /\ \A k \in Live(h) : heap'[cells(envp[h])[k]] = heap[cells(envp[h])[k]]

(* A step that writes to fresh blocks only leaves everybody alone. *)
LEMMA FreshApart ==
  ASSUME EnvInv, NEW a \in Fresh, NEW h \in Holders, envp[h] # NULL
  PROVE  /\ a \in Addr /\ a # envp[h] /\ envp[h] \in Addr
         /\ \A k \in Live(h) : a # cells(envp[h])[k] /\ cells(envp[h])[k] \in Addr
<1>1. a \in Addr /\ heap[a] = Unused
  BY FreshIsFree DEF EnvInv
<1> QED BY <1>1, ArraysApart, StringsApart DEF EnvInv

LEMMA CallLeaves ==
  ASSUME EnvInv, NEW h \in Holders, NEW g \in Holders,
         \/ env_init(g) /\ g # h
         \/ \E f \in Holders : env_copy(f, g)
         \/ \E n \in Names, v \in Values : env_set(g, n, v)
         \/ env_free(g)
  PROVE  Untouched(h)
<1>1. CASE env_init(g) /\ g # h
  <2>1. PICK a \in Fresh : heap' = [heap EXCEPT ![a] = Array(<<NULL>>)] /\ envp' = [envp EXCEPT ![g] = a]
    BY <1>1 DEF env_init
  <2> QED BY <1>1, <2>1, FreshApart DEF EnvInv, TypeOK, Untouched
<1>2. ASSUME NEW f \in Holders, env_copy(f, g) PROVE Untouched(h)
  <2>1. PICK a \in Fresh : \E b : heap' = [heap EXCEPT ![a] = b]
    BY <1>2 DEF env_copy
  <2>2. envp' = envp
    BY <1>2 DEF env_copy
  <2> QED BY <2>1, <2>2, FreshApart DEF EnvInv, TypeOK, Untouched
<1>3. ASSUME NEW n \in Names, NEW v \in Values, env_set(g, n, v) PROVE Untouched(h)
  <2>1. PICK a \in Fresh : \E b : heap' = [heap EXCEPT ![a] = b]
    BY <1>3 DEF env_set
  <2>2. envp' = envp
    BY <1>3 DEF env_set
  <2> QED BY <2>1, <2>2, FreshApart DEF EnvInv, TypeOK, Untouched
<1>4. CASE env_free(g)
  BY <1>4 DEF env_free, Untouched
<1> QED BY <1>1, <1>2, <1>3, <1>4

LEMMA WorkLeaves ==
  ASSUME EnvInv, Work, NEW h \in Holders, h # who \/ CopyString \/ UnwindString \/ UnwindArray \/ GrowFails
  PROVE  Untouched(h)
<1> USE EnvInputs
<1>0. heap \in [Addr -> Blocks] /\ envp \in [Holders -> Addr \cup {NULL}]
  BY DEF EnvInv, TypeOK
<1>1. CASE CopyString
  <2>1. pc = "copy" /\ envp' = envp
    BY <1>1 DEF CopyString
  <2>2. CASE UNCHANGED heap
    BY <2>1, <2>2 DEF Untouched
  <2>3. ASSUME NEW a \in Fresh,
               heap' = [heap EXCEPT ![a] = heap[cells(src)[i]],
                                    ![p] = Array([cells(p) EXCEPT ![i] = a])]
        PROVE  Untouched(h)
    <3>1. \A b \in Addr : b # a /\ b # p => heap'[b] = heap[b]
      BY <1>0, <2>3
    <3>2. /\ p # envp[h]
          /\ envp[h] # NULL => \A k \in Live(h) : cells(envp[h])[k] # p
      BY <2>1, ArraysApart DEF EnvInv
    <3> QED BY <2>1, <3>1, <3>2, FreshApart DEF Untouched
  <2> QED BY <1>1, <2>2, <2>3 DEF CopyString
<1>2. CASE UnwindString
  <2>1. /\ pc = "unwind" /\ envp' = envp /\ heap' = [heap EXCEPT ![cells(p)[i - 1]] = Unused]
        /\ i - 1 \in 1..(i - 1)
    BY <1>2 DEF UnwindString, EnvInv, TypeOK
  <2>2. envp[h] # NULL => /\ cells(p)[i - 1] # envp[h] /\ envp[h] \in Addr
                          /\ \A k \in Live(h) : /\ cells(p)[i - 1] # cells(envp[h])[k]
                                                 /\ cells(envp[h])[k] \in Addr
    BY <2>1, ArraysApart, StringsApart DEF EnvInv
  <2> QED BY <1>0, <2>1, <2>2 DEF Untouched
<1>3. CASE UnwindArray \/ CopyEnd
  <2>1. /\ pc \in {"copy", "unwind"}
        /\ \E b : heap' = [heap EXCEPT ![p] = b]
    BY <1>3 DEF UnwindArray, CopyEnd
  <2>2. envp'[h] = envp[h]
    BY <1>0, <1>3 DEF UnwindArray, CopyEnd, CopyString, UnwindString, GrowFails
  <2>3. envp[h] # NULL => /\ p # envp[h] /\ envp[h] \in Addr
                          /\ \A k \in Live(h) : /\ p # cells(envp[h])[k]
                                                 /\ cells(envp[h])[k] \in Addr
    BY <2>1, ArraysApart, StringsApart DEF EnvInv
  <2> QED BY <1>0, <2>1, <2>2, <2>3 DEF Untouched
<1>4. CASE GrowFails
  <2>1. pc = "set" /\ envp' = envp /\ heap' = [heap EXCEPT ![envtmp] = Unused]
    BY <1>4 DEF GrowFails
  <2>2. envp[h] # NULL => /\ envtmp # envp[h] /\ envp[h] \in Addr
                          /\ \A k \in Live(h) : /\ envtmp # cells(envp[h])[k]
                                                 /\ cells(envp[h])[k] \in Addr
    BY <2>1, ArraysApart, StringsApart DEF EnvInv
  <2> QED BY <1>0, <2>1, <2>2 DEF Untouched
<1>5. CASE Replace /\ h # who
  <2>1. PICK k \in Found :
          heap' = [heap EXCEPT ![cells(envp[who])[k]] = Unused,
                               ![envp[who]] = Array([cells(envp[who]) EXCEPT ![k] = envtmp])]
    BY <1>5 DEF Replace
  <2>2. pc = "set" /\ envp' = envp
    BY <1>5 DEF Replace
  <2>3. who \in Holders /\ envp[who] # NULL /\ k \in Live(who)
    BY <2>1, <2>2 DEF Found, Live, EnvInv, LoopsStop
  <2>4. envp[h] # NULL =>
          /\ envp[h] \in Addr /\ envp[h] # envp[who] /\ envp[h] # cells(envp[who])[k]
          /\ \A j \in Live(h) : /\ cells(envp[h])[j] \in Addr
                                 /\ cells(envp[h])[j] # envp[who]
                                 /\ cells(envp[h])[j] # cells(envp[who])[k]
    BY <1>5, <2>3, ArraysApart, StringsApart DEF EnvInv
  <2> QED BY <1>0, <2>1, <2>2, <2>4 DEF Untouched
<1>6. CASE Grow /\ h # who
  <2>1. PICK b \in Fresh \cup {envp[who]} :
          /\ heap' = [a \in Addr |-> IF a = b THEN Array(Grown(cells(envp[who])))
                                     ELSE IF a = envp[who] THEN Unused ELSE heap[a]]
          /\ envp' = [envp EXCEPT ![who] = b]
    BY <1>6 DEF Grow
  <2>2. who \in Holders /\ envp[who] # NULL
    BY <1>6 DEF Grow, EnvInv, LoopsStop
  <2>3. envp[h] # NULL =>
          /\ envp[h] \in Addr /\ envp[h] # envp[who] /\ envp[h] # b
          /\ \A j \in Live(h) : /\ cells(envp[h])[j] \in Addr
                                 /\ cells(envp[h])[j] # envp[who]
                                 /\ cells(envp[h])[j] # b
    BY <1>6, <2>2, FreshApart, ArraysApart, StringsApart DEF EnvInv
  <2> QED BY <1>0, <1>6, <2>1, <2>3 DEF Untouched
<1>7. CASE (FreeString \/ FreeArray) /\ h # who
  <2>1. who \in Holders /\ envp[who] # NULL /\ pc = "free" /\ i \in DOMAIN cells(envp[who])
    BY <1>7, HeapTypes DEF FreeString, FreeArray, EnvInv, LoopsStop, TypeOK
  <2>2. envp'[h] = envp[h]
    BY <1>0, <1>7 DEF FreeString, FreeArray
  <2>3. CASE FreeString
    <3>1. i \in Live(who) /\ heap' = [heap EXCEPT ![cells(envp[who])[i]] = Unused]
      BY <2>1, <2>3 DEF FreeString, Live, EnvInv, TypeOK
    <3>2. envp[h] # NULL =>
            /\ envp[h] \in Addr /\ envp[h] # cells(envp[who])[i]
            /\ \A j \in Live(h) : /\ cells(envp[h])[j] \in Addr
                                   /\ cells(envp[h])[j] # cells(envp[who])[i]
      BY <1>7, <2>1, <3>1, ArraysApart, StringsApart DEF EnvInv
    <3> QED BY <1>0, <2>2, <3>1, <3>2 DEF Untouched
  <2>4. CASE FreeArray
    <3>1. heap' = [heap EXCEPT ![envp[who]] = Unused]
      BY <2>4 DEF FreeArray
    <3>2. envp[h] # NULL =>
            /\ envp[h] \in Addr /\ envp[h] # envp[who]
            /\ \A j \in Live(h) : /\ cells(envp[h])[j] \in Addr
                                   /\ cells(envp[h])[j] # envp[who]
      BY <1>7, <2>1, ArraysApart, StringsApart DEF EnvInv
    <3> QED BY <1>0, <2>2, <3>1, <3>2 DEF Untouched
  <2> QED BY <1>7, <2>3, <2>4
<1> QED BY <1>1, <1>2, <1>3, <1>4, <1>5, <1>6, <1>7 DEF Work

(***************************************************************************)
(* A holder that is left alone, and whose environment is not being freed.  *)
(***************************************************************************)
Freeing(h) == pc = "free" /\ who = h

LEMMA LiveIs ==
  ASSUME NEW h \in Holders, ~Freeing(h)
  PROVE  Live(h) = StringsIn(heap, envp[h])
BY DEF Live, Freeing, StringsIn, cells

LEMMA EachIs ==
  ASSUME NEW h \in Holders
  PROVE  EachOnce(cells(envp[h]), Live(h)) <=> EachIn(heap, heap[envp[h]].cells, Live(h))
BY DEF EachOnce, EachIn, cells, text

LEMMA Stays ==
  ASSUME EnvInv, SetsEachOnce, TypeOK', NEW h \in Holders, Untouched(h),
         ~Freeing(h), ~Freeing(h)'
  PROVE  /\ (envp[h] # NULL => EachOnce(cells(envp[h]), Live(h)))'
         /\ View(h)' = View(h)
<1>1. CASE envp[h] = NULL
  BY <1>1 DEF Untouched, View
<1>2. CASE envp[h] # NULL
  <2>1. /\ heap \in [Addr -> Blocks] /\ heap' \in [Addr -> Blocks]
        /\ envp[h] \in Addr /\ envp'[h] = envp[h]
    BY <1>2 DEF EnvInv, TypeOK, Untouched
  <2>2. Live(h) = StringsIn(heap, envp[h]) /\ Live(h)' = StringsIn(heap', envp'[h])
    BY LiveIs DEF Live, Freeing, StringsIn, cells
  <2>3. EachIn(heap, heap[envp[h]].cells, StringsIn(heap, envp[h]))
    BY <1>2, <2>2, EachIs DEF SetsEachOnce
  <2>4. heap'[envp[h]] = heap[envp[h]]
    BY <1>2 DEF Untouched
  <2>5. StringsIn(heap', envp[h]) = StringsIn(heap, envp[h])
    BY <2>4 DEF StringsIn
  <2>6. \A k \in StringsIn(heap, envp[h]) :
          heap'[heap'[envp[h]].cells[k]].text = heap[heap[envp[h]].cells[k]].text
    BY <1>2, <2>2, <2>4 DEF Untouched, cells
  <2>7. /\ EachIn(heap', heap'[envp[h]].cells, StringsIn(heap', envp[h]))
        /\ \A n \in Names : GetIn(n, heap', envp[h]) = GetIn(n, heap, envp[h])
    BY <2>1, <2>3, <2>5, <2>6, SameStrings
  <2>8. EachOnce(cells(envp[h]), Live(h))'
    BY <2>1, <2>2, <2>7 DEF EachOnce, EachIn, cells, text
  <2>9. \A n \in Names : /\ env_get(n, envp[h]) = GetIn(n, heap, envp[h])
                         /\ env_get(n, envp[h])' = GetIn(n, heap', envp'[h])
    BY DEF env_get, GetIn, cells, text
  <2>10. /\ View(h) = [n \in Names |-> env_get(n, envp[h])]
         /\ View(h)' = [n \in Names |-> env_get(n, envp[h])']
    BY <1>2, <2>1 DEF View, Freeing
  <2> QED BY <2>1, <2>7, <2>8, <2>9, <2>10
<1> QED BY <1>1, <1>2

(* One string put into an array, at a new place or at the place of the     *)
(* string with its name: that variable has the new value, and no other     *)
(* variable has changed.                                                   *)
OnePut(H, a, G, b, q, n, v) ==
  /\ StringsIn(G, b) = StringsIn(H, a) \cup {q}
  /\ G[G[b].cells[q]].text = Setting(n, v)
  /\ \A k \in StringsIn(H, a) : k # q => G[G[b].cells[k]].text = H[H[a].cells[k]].text
  /\ \A k \in StringsIn(H, a) : IsSetting(H[H[a].cells[k]].text, n) <=> k = q

LEMMA OneString ==
  ASSUME NEW H \in [Addr -> Blocks], NEW a \in Addr,
         NEW G \in [Addr -> Blocks], NEW b \in Addr,
         EachIn(H, H[a].cells, StringsIn(H, a)),
         NEW q, NEW n \in Names, NEW v \in Values, FitsBuffer(n, v),
         OnePut(H, a, G, b, q, n, v)
  PROVE  /\ EachIn(G, G[b].cells, StringsIn(G, b))
         /\ \A m \in Names : GetIn(m, G, b) = IF m = n THEN v ELSE GetIn(m, H, a)
<1> USE DEF OnePut
<1>1. \A m \in Names : IsSetting(G[G[b].cells[q]].text, m) <=> m = n
  BY NameOf
<1>2. EachIn(G, G[b].cells, StringsIn(G, b))
  <2>1. ASSUME NEW k \in StringsIn(G, b) PROVE SetsVariable(G[G[b].cells[k]].text)
    BY DEF EachIn, SetsVariable
  <2>2. ASSUME NEW m \in Names, NEW j \in StringsIn(G, b), NEW k \in StringsIn(G, b),
               IsSetting(G[G[b].cells[j]].text, m), IsSetting(G[G[b].cells[k]].text, m)
        PROVE  j = k
    <3>1. CASE j = q \/ k = q
      BY <1>1, <2>2, <3>1
    <3>2. CASE j # q /\ k # q
      <4>1. /\ j \in StringsIn(H, a) /\ IsSetting(H[H[a].cells[j]].text, m)
            /\ k \in StringsIn(H, a) /\ IsSetting(H[H[a].cells[k]].text, m)
        BY <2>2, <3>2
      <4> QED BY <4>1 DEF EachIn
    <3> QED BY <3>1, <3>2
  <2> QED BY <2>1, <2>2 DEF EachIn
<1>3. GetIn(n, G, b) = v
  <2>1. PICK k \in StringsIn(G, b), u \in Values :
          G[G[b].cells[k]].text = Setting(n, u) /\ GetIn(n, G, b) = u
    BY <1>1, <1>2, Lookup
  <2>2. IsSetting(G[G[b].cells[k]].text, n) /\ q \in StringsIn(G, b)
    BY <2>1, NameOf
  <2>3. k = q
    BY <1>1, <1>2, <2>2 DEF EachIn
  <2>4. Setting(n, u) = Setting(n, v)
    BY <2>1, <2>3
  <2>5. /\ SubSeq(Setting(n, u), Len(n) + 2, Len(Setting(n, u))) = u
        /\ SubSeq(Setting(n, v), Len(n) + 2, Len(Setting(n, v))) = v
    BY ValueOf
  <2> QED BY <2>1, <2>4, <2>5
<1>4. ASSUME NEW m \in Names, m # n PROVE GetIn(m, G, b) = GetIn(m, H, a)
  <2>1. CASE \E k \in StringsIn(H, a), u \in Values :
               H[H[a].cells[k]].text = Setting(m, u) /\ GetIn(m, H, a) = u
    <3>1. PICK k \in StringsIn(H, a), u \in Values :
            H[H[a].cells[k]].text = Setting(m, u) /\ GetIn(m, H, a) = u
      BY <2>1
    <3>2. k # q
      BY <1>4, <3>1, NameOf
    <3>3. k \in StringsIn(G, b) /\ G[G[b].cells[k]].text = Setting(m, u)
      BY <3>1, <3>2
    <3>4. IsSetting(G[G[b].cells[k]].text, m)
      BY <3>3, NameOf
    <3>5. PICK j \in StringsIn(G, b), w \in Values :
            G[G[b].cells[j]].text = Setting(m, w) /\ GetIn(m, G, b) = w
      BY <1>2, <3>3, <3>4, Lookup
    <3>6. IsSetting(G[G[b].cells[j]].text, m)
      BY <3>5, NameOf
    <3>7. j = k
      BY <1>2, <3>3, <3>4, <3>6 DEF EachIn
    <3>8. Setting(m, w) = Setting(m, u)
      BY <3>3, <3>5, <3>7
    <3>9. /\ SubSeq(Setting(m, u), Len(m) + 2, Len(Setting(m, u))) = u
          /\ SubSeq(Setting(m, w), Len(m) + 2, Len(Setting(m, w))) = w
      BY ValueOf
    <3> QED BY <3>1, <3>5, <3>8, <3>9
  <2>2. CASE /\ \A k \in StringsIn(H, a) : ~IsSetting(H[H[a].cells[k]].text, m)
             /\ GetIn(m, H, a) = Absent
    <3>1. \A k \in StringsIn(G, b) : ~IsSetting(G[G[b].cells[k]].text, m)
      BY <1>1, <1>4, <2>2
    <3>2. ~ \E k \in StringsIn(G, b), u \in Values : G[G[b].cells[k]].text = Setting(m, u)
      BY <3>1, NameOf
    <3>3. GetIn(m, G, b) = Absent
      BY <1>2, <3>2, Lookup
    <3> QED BY <2>2, <3>3
  <2> QED BY <2>1, <2>2, Lookup
<1> QED BY <1>2, <1>3, <1>4

(* What a holder sees of an environment that is not being freed. *)
LEMMA ViewIs ==
  ASSUME NEW h \in Holders, envp[h] # NULL, ~Freeing(h)
  PROVE  View(h) = [n \in Names |-> GetIn(n, heap, envp[h])]
<1>1. \A n \in Names : env_get(n, envp[h]) = GetIn(n, heap, envp[h])
  BY DEF env_get, GetIn, cells, text
<1> QED BY <1>1 DEF View, Freeing

(* It is an environment, which NULL is not. *)
LEMMA ViewType ==
  ASSUME EnvInv, SetsEachOnce, NEW h \in Holders
  PROVE  /\ envp[h] # NULL /\ ~Freeing(h) => View(h) \in [Names -> Values \cup {Absent}] /\ View(h) # NULL
         /\ envp[h] = NULL \/ Freeing(h) => View(h) = NULL
<1>1. ASSUME envp[h] # NULL, ~Freeing(h)
      PROVE  View(h) \in [Names -> Values \cup {Absent}] /\ View(h) # NULL
  <2>1. heap \in [Addr -> Blocks] /\ envp[h] \in Addr
    BY <1>1 DEF EnvInv, TypeOK
  <2>2. EachIn(heap, heap[envp[h]].cells, StringsIn(heap, envp[h]))
    BY <1>1, LiveIs, EachIs DEF SetsEachOnce
  <2>3. \A n \in Names : GetIn(n, heap, envp[h]) \in Values \cup {Absent}
    BY <2>1, <2>2, Lookup
  <2>4. View(h) \in [Names -> Values \cup {Absent}]
    BY <1>1, <2>3, ViewIs
  <2> QED BY <2>4, EnvInputs
<1>2. envp[h] = NULL \/ Freeing(h) => View(h) = NULL
  BY DEF View, Freeing
<1> QED BY <1>1, <1>2

-----------------------------------------------------------------------------
(***************************************************************************)
(* What the holder sees whom a step works for.                             *)
(***************************************************************************)
Sees(h, f) ==
  /\ (envp[h] # NULL => EachOnce(cells(envp[h]), Live(h)))'
  /\ View(h)' = f

(* The next state, in terms of the next memory. *)
LEMMA SeesArray ==
  ASSUME NEW h \in Holders, NEW a, envp'[h] = a, a # NULL, pc' = "idle",
         EachIn(heap', heap'[a].cells, StringsIn(heap', a)),
         NEW f, f = [n \in Names |-> f[n]], \A n \in Names : GetIn(n, heap', a) = f[n]
  PROVE  Sees(h, f)
<1>1. Live(h)' = StringsIn(heap', a)
  BY DEF Live, StringsIn, cells
<1>2. EachOnce(cells(envp[h]), Live(h))'
  BY <1>1 DEF EachOnce, EachIn, cells, text
<1>3. \A n \in Names : env_get(n, envp[h])' = GetIn(n, heap', a)
  BY DEF env_get, GetIn, cells, text
<1>4. View(h)' = [n \in Names |-> env_get(n, envp[h])']
  BY DEF View
<1> QED BY <1>2, <1>3, <1>4 DEF Sees

LEMMA InitSees ==
  ASSUME EnvInv, NEW h \in Holders, env_init(h)
  PROVE  Sees(h, [n \in Names |-> Absent])
<1>1. PICK a \in Fresh : heap' = [heap EXCEPT ![a] = Array(<<NULL>>)] /\ envp' = [envp EXCEPT ![h] = a]
  BY DEF env_init
<1>2. a \in Addr /\ a # NULL /\ pc' = "idle" /\ envp'[h] = a /\ heap'[a] = Array(<<NULL>>)
  BY <1>1, FreshIsFree, EnvInputs DEF env_init, EnvInv, TypeOK
<1>3. StringsIn(heap', a) = {}
  <2>1. heap'[a].cells = <<NULL>>
    BY <1>2, EmptyCells, BlockTypes
  <2>2. DOMAIN <<NULL>> = {1} /\ <<NULL>>[1] = NULL
    OBVIOUS
  <2> QED BY <2>1, <2>2 DEF StringsIn
<1>4. EachIn(heap', heap'[a].cells, StringsIn(heap', a))
  BY <1>3 DEF EachIn
<1>5. \A n \in Names : GetIn(n, heap', a) = Absent
  <2> SUFFICES ASSUME NEW n \in Names PROVE GetIn(n, heap', a) = Absent
    OBVIOUS
  <2>1. {k \in DOMAIN heap'[a].cells : heap'[a].cells[k] # NULL
           /\ IsSetting(heap'[heap'[a].cells[k]].text, n)} = {}
    BY <1>3 DEF StringsIn
  <2> QED BY <2>1 DEF GetIn
<1> QED BY <1>2, <1>4, <1>5, SeesArray

LEMMA CopySees ==
  ASSUME EnvInv, SetsEachOnce, TypeOK', CopyEnd, NEW g \in Holders, src = envp[g]
  PROVE  /\ who \in Holders /\ envp[who] = NULL /\ envp[g] # NULL
         /\ \A w \in Holders : w = who => Sees(w, View(g))
<1>1. /\ p \in Addr /\ src \in Addr /\ who \in Holders
      /\ cells(p) \in Seq(Pointer) /\ cells(src) \in Seq(Pointer) /\ Terminated(cells(src))
      /\ Len(cells(p)) = Len(cells(src)) /\ i = Len(cells(p)) /\ i \in 1..Len(cells(p))
  BY Copying, BeforeEnd DEF CopyEnd, EnvInv
<1>2. /\ heap' = [heap EXCEPT ![p] = Array([cells(p) EXCEPT ![i] = NULL])]
      /\ envp' = [envp EXCEPT ![who] = p] /\ pc = "copy" /\ pc' = "idle"
      /\ envp[who] = NULL
      /\ \A k \in 1..(i - 1) : cells(p)[k] \in Addr
  BY DEF CopyEnd, Return, EnvInv, LoopsStop
<1>3. heap \in [Addr -> Blocks] /\ heap' \in [Addr -> Blocks]
  BY DEF EnvInv, TypeOK
<1>4. /\ Len(heap'[p].cells) = i /\ heap'[p].cells \in Seq(Pointer)
      /\ heap'[p].cells[i] = NULL
      /\ \A k \in 1..(i - 1) : heap'[p].cells[k] = cells(p)[k]
  <2> DEFINE d == [cells(p) EXCEPT ![i] = NULL]
  <2>1. /\ d \in Seq(Pointer) /\ Len(d) = i /\ d[i] = NULL
        /\ \A k \in 1..Len(cells(p)) : k # i => d[k] = cells(p)[k]
    BY <1>1, CellTypes
  <2>2. heap'[p] = Array(d)
    BY <1>1, <1>2, <1>3
  <2> HIDE DEF d
  <2>3. heap'[p].cells = d
    BY <2>1, <2>2, BlockTypes
  <2>4. \A k \in 1..(i - 1) : k \in 1..Len(cells(p)) /\ k # i
    BY <1>1
  <2> QED BY <2>1, <2>3, <2>4
<1>5. StringsIn(heap', p) = 1..(i - 1) /\ StringsIn(heap, src) = 1..(i - 1)
  <2>1. \A k : k \in 1..(i - 1) <=> k \in 1..i /\ k # i
    BY <1>1
  <2>2. DOMAIN heap'[p].cells = 1..i /\ DOMAIN heap[src].cells = 1..i
    BY <1>1, <1>4 DEF cells
  <2>3. \A k \in 1..(i - 1) : heap'[p].cells[k] # NULL
    BY <1>2, <1>4, EnvInputs
  <2>4. \A k \in 1..i : heap[src].cells[k] = NULL <=> k = i
    BY <1>1, BeforeEnd, EnvInputs DEF Terminated, cells
  <2> QED BY <1>4, <2>1, <2>2, <2>3, <2>4 DEF StringsIn
<1>6. envp[g] # NULL /\ ~Freeing(g)
  BY <1>1, <1>2, EnvInputs DEF Freeing
<1>7. EachIn(heap, heap[src].cells, StringsIn(heap, src))
  BY <1>6, LiveIs, EachIs DEF SetsEachOnce
<1>8. \A k \in StringsIn(heap, src) : heap'[heap'[p].cells[k]].text = heap[heap[src].cells[k]].text
  <2> SUFFICES ASSUME NEW k \in 1..(i - 1)
               PROVE  heap'[heap'[p].cells[k]].text = heap[heap[src].cells[k]].text
    BY <1>5
  <2>1. cells(p)[k] \in Addr /\ cells(p)[k] # p
    BY <1>2, ArraysApart DEF EnvInv
  <2>2. heap'[cells(p)[k]] = heap[cells(p)[k]]
    BY <1>2, <1>3, <2>1
  <2>3. text(cells(p)[k]) = text(cells(src)[k])
    BY <1>2 DEF SetsEachOnce
  <2> QED BY <1>4, <2>2, <2>3 DEF text, cells
<1>9. /\ EachIn(heap', heap'[p].cells, StringsIn(heap', p))
      /\ \A n \in Names : GetIn(n, heap', p) = GetIn(n, heap, src)
  <2>1. StringsIn(heap', p) = StringsIn(heap, src)
    BY <1>5
  <2>2. PICK a \in Addr, b \in Addr : a = src /\ b = p
    BY <1>1
  <2>3. /\ EachIn(heap, heap[a].cells, StringsIn(heap, a))
        /\ StringsIn(heap', b) = StringsIn(heap, a)
        /\ \A k \in StringsIn(heap, a) : heap'[heap'[b].cells[k]].text = heap[heap[a].cells[k]].text
    BY <1>7, <1>8, <2>1, <2>2
  <2>4. /\ EachIn(heap', heap'[b].cells, StringsIn(heap', b))
        /\ \A n \in Names : GetIn(n, heap', b) = GetIn(n, heap, a)
    BY <1>3, <2>3, SameStrings
  <2> QED BY <2>2, <2>4
<1>10. View(g) = [n \in Names |-> GetIn(n, heap, src)]
  BY <1>6, ViewIs
<1>11. ASSUME NEW w \in Holders, w = who PROVE Sees(w, View(g))
  <2>1. envp'[w] = p /\ p # NULL
    BY <1>1, <1>2, <1>11, EnvInputs DEF EnvInv, TypeOK
  <2>2. \A n \in Names : GetIn(n, heap', p) = View(g)[n]
    BY <1>9, <1>10
  <2>3. View(g) = [n \in Names |-> View(g)[n]]
    BY <1>10
  <2>4. PICK b, f : b = p /\ f = View(g)
    OBVIOUS
  <2>5. /\ envp'[w] = b /\ b # NULL /\ pc' = "idle"
        /\ EachIn(heap', heap'[b].cells, StringsIn(heap', b))
        /\ f = [n \in Names |-> f[n]] /\ \A n \in Names : GetIn(n, heap', b) = f[n]
    BY <1>2, <1>9, <2>1, <2>2, <2>3, <2>4
  <2>6. Sees(w, f)
    BY <2>5, SeesArray
  <2> QED BY <2>4, <2>6
<1> QED BY <1>1, <1>2, <1>6, <1>11

(* What env_set works on.  The string that it looks for is the one that    *)
(* env_get finds.                                                          *)
LEMMA Setter ==
  ASSUME EnvInv, SetsEachOnce, pc = "set", NEW w \in Holders, w = who
  PROVE  /\ envp[w] \in Addr /\ envp[w] # NULL /\ envtmp \in Addr
         /\ cells(envp[w]) \in Seq(Pointer) /\ Terminated(cells(envp[w]))
         /\ Live(w) = StringsIn(heap, envp[w])
         /\ EachIn(heap, heap[envp[w]].cells, StringsIn(heap, envp[w]))
         /\ Found \subseteq StringsIn(heap, envp[w])
         /\ \A n \in Names, v \in Values : text(envtmp) = Setting(n, v) =>
              \A k \in StringsIn(heap, envp[w]) :
                k \in Found <=> IsSetting(heap[heap[envp[w]].cells[k]].text, n)
<1>1. envp[w] \in Addr /\ envp[w] # NULL /\ envtmp \in Addr
  BY DEF EnvInv, LoopsStop, TypeOK
<1>2. cells(envp[w]) \in Seq(Pointer) /\ Terminated(cells(envp[w]))
  BY <1>1, HeapTypes DEF EnvInv, LoopsStop
<1>3. Live(w) = StringsIn(heap, envp[w])
  BY LiveIs DEF Freeing
<1>4. EachIn(heap, heap[envp[w]].cells, StringsIn(heap, envp[w]))
  BY <1>1, <1>3, EachIs DEF SetsEachOnce
<1>5. \A k : k \in Found <=> /\ k \in StringsIn(heap, envp[w])
                             /\ strcmp_until(heap[heap[envp[w]].cells[k]].text, text(envtmp), EQ)
  BY DEF Found, StringsIn, cells, text
<1>6. ASSUME NEW n \in Names, NEW v \in Values, text(envtmp) = Setting(n, v),
             NEW k \in StringsIn(heap, envp[w])
      PROVE  k \in Found <=> IsSetting(heap[heap[envp[w]].cells[k]].text, n)
  <2>1. PICK m \in Names, u \in Values : heap[heap[envp[w]].cells[k]].text = Setting(m, u)
    BY <1>4 DEF EachIn, SetsVariable
  <2>2. k \in Found <=> m = n
    BY <1>5, <1>6, <2>1, SameName
  <2>3. IsSetting(Setting(m, u), n) <=> m = n
    BY NameOf
  <2> QED BY <2>1, <2>2, <2>3
<1> QED BY <1>1, <1>2, <1>3, <1>4, <1>5, <1>6

(* One string put into the array of a holder sets one variable. *)
LEMMA PutSees ==
  ASSUME EnvInv, SetsEachOnce, TypeOK', NEW w \in Holders, NEW b \in Addr, NEW q
  PROVE  /\ pc = "set" /\ pc' = "idle" /\ w = who /\ envp'[w] = b
         /\ StringsIn(heap', b) = StringsIn(heap, envp[w]) \cup {q}
         /\ heap'[heap'[b].cells[q]].text = text(envtmp)
         /\ \A k \in StringsIn(heap, envp[w]) : k # q =>
              heap'[heap'[b].cells[k]].text = heap[heap[envp[w]].cells[k]].text
         /\ \A k \in StringsIn(heap, envp[w]) : k \in Found <=> k = q
         => \E n \in Names, v \in Values : FitsBuffer(n, v) /\ Sees(w, [View(w) EXCEPT ![n] = v])
<1>0. SUFFICES ASSUME /\ pc = "set" /\ pc' = "idle" /\ w = who /\ envp'[w] = b
                      /\ StringsIn(heap', b) = StringsIn(heap, envp[w]) \cup {q}
                      /\ heap'[heap'[b].cells[q]].text = text(envtmp)
                      /\ \A k \in StringsIn(heap, envp[w]) : k # q =>
                           heap'[heap'[b].cells[k]].text = heap[heap[envp[w]].cells[k]].text
                      /\ \A k \in StringsIn(heap, envp[w]) : k \in Found <=> k = q
               PROVE  \E n \in Names, v \in Values :
                        FitsBuffer(n, v) /\ Sees(w, [View(w) EXCEPT ![n] = v])
  OBVIOUS
<1>1. PICK n \in Names, v \in Values : FitsBuffer(n, v) /\ text(envtmp) = Setting(n, v)
  BY <1>0 DEF SetsEachOnce, SetsVariable
<1>2. /\ heap \in [Addr -> Blocks] /\ heap' \in [Addr -> Blocks]
      /\ b # NULL
  BY EnvInputs DEF EnvInv, TypeOK
<1>3. PICK a \in Addr : a = envp[w]
  BY <1>0, Setter
<1>4. /\ a # NULL /\ EachIn(heap, heap[a].cells, StringsIn(heap, a))
      /\ \A k \in StringsIn(heap, a) : k \in Found <=> IsSetting(heap[heap[a].cells[k]].text, n)
  BY <1>0, <1>1, <1>3, Setter
<1>5. /\ StringsIn(heap', b) = StringsIn(heap, a) \cup {q}
      /\ heap'[heap'[b].cells[q]].text = Setting(n, v)
      /\ \A k \in StringsIn(heap, a) : k # q =>
           heap'[heap'[b].cells[k]].text = heap[heap[a].cells[k]].text
      /\ \A k \in StringsIn(heap, a) : IsSetting(heap[heap[a].cells[k]].text, n) <=> k = q
  BY <1>0, <1>1, <1>3, <1>4
<1>6. /\ EachIn(heap', heap'[b].cells, StringsIn(heap', b))
      /\ \A m \in Names : GetIn(m, heap', b) = IF m = n THEN v ELSE GetIn(m, heap, a)
  <2>1. PICK H \in [Addr -> Blocks], G \in [Addr -> Blocks] : H = heap /\ G = heap'
    BY <1>2
  <2>2. EachIn(H, H[a].cells, StringsIn(H, a)) /\ OnePut(H, a, G, b, q, n, v)
    BY <1>4, <1>5, <2>1 DEF OnePut
  <2>3. /\ EachIn(G, G[b].cells, StringsIn(G, b))
        /\ \A m \in Names : GetIn(m, G, b) = IF m = n THEN v ELSE GetIn(m, H, a)
    BY <1>1, <2>2, OneString
  <2> QED BY <2>1, <2>3
<1>7. View(w) = [m \in Names |-> GetIn(m, heap, a)]
  BY <1>0, <1>3, <1>4, ViewIs DEF Freeing
<1>8. PICK f : f = [View(w) EXCEPT ![n] = v]
  OBVIOUS
<1>9. f = [m \in Names |-> f[m]] /\ \A m \in Names : GetIn(m, heap', b) = f[m]
  BY <1>6, <1>7, <1>8
<1>10. /\ envp'[w] = b /\ b # NULL /\ pc' = "idle"
       /\ EachIn(heap', heap'[b].cells, StringsIn(heap', b))
       /\ f = [m \in Names |-> f[m]] /\ \A m \in Names : GetIn(m, heap', b) = f[m]
  BY <1>0, <1>2, <1>6, <1>9
<1>11. Sees(w, f)
  BY <1>10, SeesArray
<1> QED BY <1>1, <1>8, <1>11

LEMMA SetSees ==
  ASSUME EnvInv, SetsEachOnce, TypeOK', Replace \/ Grow, NEW w \in Holders, w = who
  PROVE  \E n \in Names, v \in Values : FitsBuffer(n, v) /\ Sees(w, [View(w) EXCEPT ![n] = v])
<1> DEFINE a == envp[w]
           c == cells(a)
<1>1. pc = "set" /\ pc' = "idle"
  BY DEF Replace, Grow, Return
<1>2. /\ a \in Addr /\ a # NULL /\ envtmp \in Addr /\ c \in Seq(Pointer) /\ Terminated(c)
      /\ Live(w) = StringsIn(heap, a) /\ Found \subseteq StringsIn(heap, a)
      /\ heap \in [Addr -> Blocks] /\ envp \in [Holders -> Addr \cup {NULL}]
  BY <1>1, Setter DEF EnvInv, TypeOK
<1>3. /\ envtmp # a /\ heap[envtmp] # Unused
      /\ \A k \in StringsIn(heap, a) : /\ c[k] \in Addr /\ c[k] # a /\ c[k] # envtmp
                                       /\ heap[c[k]] # Unused
      /\ \A j, k \in StringsIn(heap, a) : c[j] = c[k] => j = k
  BY <1>1, <1>2, ArraysApart, StringsApart DEF EnvInv
<1>4. c = heap[a].cells /\ Len(c) \in Nat /\ Len(c) > 0 /\ DOMAIN c = 1..Len(c)
  BY <1>2 DEF cells, Terminated
<1>5. StringsIn(heap, a) = 1..(Len(c) - 1)
  <2>1. \A k \in 1..Len(c) : c[k] = NULL <=> k = Len(c)
    BY <1>2, BeforeEnd DEF Terminated
  <2>2. \A k : k \in 1..(Len(c) - 1) <=> k \in 1..Len(c) /\ k # Len(c)
    BY <1>4
  <2> HIDE DEF c, a
  <2> QED BY <1>4, <2>1, <2>2 DEF StringsIn
<1>6. CASE Replace
  <2>1. PICK q \in Found :
          /\ \A j \in Found : j <= q
          /\ heap' = [heap EXCEPT ![c[q]] = Unused, ![a] = Array([c EXCEPT ![q] = envtmp])]
    BY <1>6 DEF Replace
  <2>2. envp'[w] = a /\ q \in StringsIn(heap, a) /\ q \in 1..Len(c)
    BY <1>2, <1>4, <1>5, <1>6, <2>1 DEF Replace
  <2> DEFINE d == [c EXCEPT ![q] = envtmp]
  <2>3. /\ d \in Seq(Pointer) /\ Len(d) = Len(c) /\ d[q] = envtmp
        /\ \A k \in 1..Len(c) : k # q => d[k] = c[k]
    BY <1>2, <2>2, CellTypes
  <2>4. heap'[a] = Array(d) /\ \A b \in Addr : b # a /\ b # c[q] => heap'[b] = heap[b]
    BY <1>2, <2>1
  <2> HIDE DEF d
  <2>5. heap'[a].cells = d
    BY <2>3, <2>4, BlockTypes
  <2>6. envtmp # NULL
    BY <1>2, EnvInputs
  <2>7. StringsIn(heap', a) = StringsIn(heap, a) \cup {q}
    <3>1. DOMAIN d = DOMAIN c
      BY <1>4, <2>3
    <3> HIDE DEF a, c
    <3> QED BY <1>4, <2>2, <2>3, <2>5, <2>6, <3>1 DEF StringsIn
  <2>8. heap'[heap'[a].cells[q]].text = text(envtmp)
    BY <1>2, <1>3, <2>2, <2>3, <2>4, <2>5 DEF text
  <2>9. \A k \in StringsIn(heap, a) : k # q => heap'[heap'[a].cells[k]].text = heap[heap[a].cells[k]].text
    <3> SUFFICES ASSUME NEW k \in StringsIn(heap, a), k # q
                 PROVE  heap'[d[k]].text = heap[c[k]].text
      BY <1>4, <2>5
    <3>1. d[k] = c[k]
      BY <1>4, <2>3 DEF StringsIn
    <3>2. c[k] \in Addr /\ c[k] # a /\ c[k] # c[q]
      BY <1>3, <2>2
    <3> QED BY <2>4, <3>1, <3>2
  <2>10. \A k \in StringsIn(heap, a) : k \in Found <=> k = q
    <3>1. PICK n \in Names, v \in Values : text(envtmp) = Setting(n, v)
      BY <1>1 DEF SetsEachOnce, SetsVariable
    <3>2. \A k \in StringsIn(heap, a) : k \in Found <=> IsSetting(heap[heap[a].cells[k]].text, n)
      BY <1>1, <3>1, Setter
    <3>3. EachIn(heap, heap[a].cells, StringsIn(heap, a))
      BY <1>1, Setter
    <3> QED BY <2>1, <2>2, <3>2, <3>3 DEF EachIn
  <2> QED BY <1>1, <1>2, <2>2, <2>7, <2>8, <2>9, <2>10, PutSees
<1>7. CASE Grow
  <2>1. PICK b \in Fresh \cup {a} :
          /\ heap' = [x \in Addr |-> IF x = b THEN Array(Grown(c))
                                     ELSE IF x = a THEN Unused ELSE heap[x]]
          /\ envp' = [envp EXCEPT ![w] = b]
    BY <1>7 DEF Grow
  <2>2. b \in Addr /\ (b = a \/ heap[b] = Unused) /\ envp'[w] = b /\ Found = {}
    BY <1>2, <1>7, <2>1, FreshIsFree DEF EnvInv, Grow
  <2> DEFINE q == Len(c)
             d == Grown(c)
  <2>3. /\ d \in Seq(Pointer) /\ Len(d) = q + 1 /\ d[q] = envtmp /\ d[q + 1] = NULL
        /\ \A k \in 1..(q - 1) : d[k] = c[k]
    BY <1>2, GrownType DEF EnvInv
  <2>4. heap'[b] = Array(d) /\ \A x \in Addr : x # a /\ x # b => heap'[x] = heap[x]
    BY <2>1, <2>2
  <2> HIDE DEF d
  <2>5. heap'[b].cells = d
    BY <2>3, <2>4, BlockTypes
  <2>6. envtmp # NULL /\ envtmp # b /\ \A k \in StringsIn(heap, a) : c[k] # NULL /\ c[k] # b
    BY <1>2, <1>3, <2>2, EnvInputs
  <2>7. StringsIn(heap', b) = StringsIn(heap, a) \cup {q}
    <3>1. DOMAIN d = 1..(q + 1)
      BY <1>4, <2>3
    <3>2. \A k : k \in 1..(q + 1) <=> k \in 1..(q - 1) \/ k = q \/ k = q + 1
      BY <1>4
    <3>3. q + 1 # q /\ q + 1 \notin 1..(q - 1)
      BY <1>4
    <3> HIDE DEF a, c, q
    <3> QED BY <1>5, <2>3, <2>5, <2>6, <3>1, <3>2, <3>3 DEF StringsIn, q
  <2>8. heap'[heap'[b].cells[q]].text = text(envtmp)
    BY <1>2, <1>3, <2>3, <2>4, <2>5, <2>6 DEF text
  <2>9. \A k \in StringsIn(heap, a) : k # q => heap'[heap'[b].cells[k]].text = heap[heap[a].cells[k]].text
    <3> SUFFICES ASSUME NEW k \in StringsIn(heap, a)
                 PROVE  heap'[d[k]].text = heap[c[k]].text
      BY <1>4, <2>5
    <3>1. d[k] = c[k]
      BY <1>5, <2>3
    <3>2. c[k] \in Addr /\ c[k] # a /\ c[k] # b
      BY <1>3, <2>6
    <3> QED BY <2>4, <3>1, <3>2
  <2>10. \A k \in StringsIn(heap, a) : k \in Found <=> k = q
    <3>1. q \notin 1..(q - 1)
      BY <1>4
    <3> QED BY <1>5, <2>2, <3>1
  <2> QED BY <1>1, <2>2, <2>7, <2>8, <2>9, <2>10, PutSees
<1> QED BY <1>6, <1>7

(* From the call of env_free on the holder sees nothing; the strings that  *)
(* are left still each set another variable.                               *)
LEMMA FreeSees ==
  ASSUME EnvInv, SetsEachOnce, NEW w \in Holders,
         env_free(w) \/ ((FreeString \/ FreeArray) /\ w = who)
  PROVE  Sees(w, NULL)
<1>0. heap \in [Addr -> Blocks] /\ envp \in [Holders -> Addr \cup {NULL}] /\ i \in Nat \ {0}
  BY DEF EnvInv, TypeOK
<1>1. CASE env_free(w)
  <2>1. /\ heap' = heap /\ envp' = envp /\ pc = "idle" /\ pc' = "free" /\ who' = w /\ i' = i
        /\ envp[w] # NULL /\ i = 1
    BY <1>1 DEF env_free, EnvInv, LoopsStop
  <2>2. cells(envp[w]) \in Seq(Pointer)
    BY <1>0, <2>1, HeapTypes DEF EnvInv
  <2>3. \A k \in DOMAIN cells(envp[w]) : ~(k < 1)
    BY <2>2
  <2>4. Live(w)' = Live(w)
    BY <2>1, <2>3 DEF Live, cells
  <2>5. EachOnce(cells(envp[w]), Live(w))
    BY <2>1 DEF SetsEachOnce
  <2>6. EachOnce(cells(envp[w]), Live(w))'
    BY <2>1, <2>4, <2>5 DEF EachOnce, cells, text
  <2> QED BY <2>1, <2>6 DEF Sees, View
<1>2. CASE FreeString /\ w = who
  <2>1. /\ heap' = [heap EXCEPT ![cells(envp[w])[i]] = Unused] /\ envp' = envp
        /\ pc = "free" /\ pc' = "free" /\ who' = w /\ i' = i + 1
        /\ envp[w] # NULL /\ cells(envp[w])[i] # NULL
    BY <1>2 DEF FreeString, EnvInv, LoopsStop
  <2>2. envp[w] \in Addr /\ cells(envp[w]) \in Seq(Pointer) /\ i \in DOMAIN cells(envp[w])
    BY <1>0, <1>2, <2>1, HeapTypes DEF EnvInv, LoopsStop
  <2>3. i \in Live(w)
    BY <1>0, <2>1, <2>2 DEF Live
  <2>4. heap'[envp[w]] = heap[envp[w]]
    BY <1>0, <2>1, <2>2, <2>3, ArraysApart DEF EnvInv
  <2>5. \A k \in Live(w)' : k \in Live(w) /\ k # i
    <3>1. cells(envp[w])' = cells(envp[w])
      BY <2>1, <2>4 DEF cells
    <3>2. \A k \in DOMAIN cells(envp[w]) : ~(k < i + 1) => ~(k < i) /\ k # i
      BY <1>0, <2>2
    <3> QED BY <1>2, <2>1, <3>1, <3>2 DEF Live
  <2>6. \A k \in Live(w)' : heap'[heap'[envp[w]].cells[k]] = heap[heap[envp[w]].cells[k]]
    <3> SUFFICES ASSUME NEW k \in Live(w)'
                 PROVE  heap'[heap[envp[w]].cells[k]] = heap[heap[envp[w]].cells[k]]
      BY <2>4
    <3>1. cells(envp[w])[k] \in Addr /\ cells(envp[w])[k] # cells(envp[w])[i]
      BY <2>1, <2>3, <2>5, StringsApart DEF EnvInv
    <3> QED BY <1>0, <2>1, <3>1 DEF cells
  <2>7. EachIn(heap, heap[envp[w]].cells, Live(w))
    BY <2>1, EachIs DEF SetsEachOnce
  <2>8. EachIn(heap', heap'[envp[w]].cells, Live(w)')
    BY <2>5, <2>6, <2>7 DEF EachIn
  <2>9. EachOnce(cells(envp[w]), Live(w))'
    BY <2>1, <2>8 DEF EachOnce, EachIn, cells, text
  <2> QED BY <2>1, <2>9 DEF Sees, View
<1>3. CASE FreeArray /\ w = who
  <2>1. envp'[w] = NULL
    BY <1>0, <1>3 DEF FreeArray
  <2> QED BY <2>1 DEF Sees, View
<1> QED BY <1>1, <1>2, <1>3

-----------------------------------------------------------------------------
(***************************************************************************)
(* What one step does to all holders: at most one of them sees a change,   *)
(* and the change is one that Environment allows.                          *)
(***************************************************************************)
Effect(w, f) ==
  \/ View(w) = NULL /\ f = [n \in Names |-> Absent]
  \/ \E g \in Holders : View(g) # NULL /\ View(w) = NULL /\ f = View(g)
  \/ \E n \in Names, v \in Values :
       View(w) # NULL /\ FitsBuffer(n, v) /\ f = [View(w) EXCEPT ![n] = v]
  \/ View(w) # NULL /\ f = NULL
  \/ f = View(w)

LEMMA StepSees ==
  ASSUME EnvInv, SetsEachOnce, TypeOK', Next
  PROVE  \E w \in Holders : \E f : /\ Effect(w, f) /\ Sees(w, f)
                                   /\ \A h \in Holders : h # w => Sees(h, View(h))
<1>0. ASSUME NEW h \in Holders, Untouched(h), ~Freeing(h), ~Freeing(h)' PROVE Sees(h, View(h))
  BY <1>0, Stays DEF Sees
<1>1. ASSUME NEW w \in Holders, env_init(w)
      PROVE  /\ Effect(w, [n \in Names |-> Absent]) /\ Sees(w, [n \in Names |-> Absent])
             /\ \A h \in Holders : h # w => Sees(h, View(h))
  <2>1. View(w) = NULL /\ pc = "idle" /\ pc' = "idle"
    BY <1>1 DEF env_init, View
  <2>2. \A h \in Holders : ~Freeing(h) /\ ~Freeing(h)'
    BY <2>1 DEF Freeing
  <2>3. ASSUME NEW h \in Holders, h # w PROVE Untouched(h)
    BY <1>1, <2>3, CallLeaves
  <2> QED BY <1>0, <1>1, <2>1, <2>2, <2>3, InitSees DEF Effect
<1>2. ASSUME NEW w \in Holders,
             \/ \E g \in Holders : env_copy(g, w)
             \/ \E n \in Names, v \in Values : env_set(w, n, v)
      PROVE  \A h \in Holders : Sees(h, View(h))
  <2>1. \A h \in Holders : ~Freeing(h) /\ ~Freeing(h)'
    BY <1>2 DEF env_copy, env_set, Freeing
  <2>2. ASSUME NEW h \in Holders PROVE Untouched(h)
    BY <1>2, CallLeaves
  <2> QED BY <1>0, <2>1, <2>2
<1>3. ASSUME NEW w \in Holders, env_free(w) \/ ((FreeString \/ FreeArray) /\ w = who)
      PROVE  Effect(w, NULL) /\ Sees(w, NULL) /\ \A h \in Holders : h # w => Sees(h, View(h))
  <2>1. Effect(w, NULL)
    BY DEF Effect
  <2>2. ASSUME NEW h \in Holders, h # w PROVE ~Freeing(h) /\ ~Freeing(h)'
    BY <1>3, <2>2 DEF env_free, FreeString, FreeArray, Return, Freeing
  <2>3. ASSUME NEW h \in Holders, h # w PROVE Untouched(h)
    BY <1>3, <2>3, CallLeaves, WorkLeaves DEF Work
  <2> QED BY <1>0, <1>3, <2>1, <2>2, <2>3, FreeSees
<1>4. ASSUME CopyString \/ UnwindString \/ UnwindArray \/ GrowFails
      PROVE  \A h \in Holders : Sees(h, View(h))
  <2>1. \A h \in Holders : ~Freeing(h) /\ ~Freeing(h)'
    BY <1>4 DEF CopyString, UnwindString, UnwindArray, GrowFails, Return, Freeing
  <2>2. ASSUME NEW h \in Holders PROVE Untouched(h)
    BY <1>4, WorkLeaves DEF Work
  <2> QED BY <1>0, <2>1, <2>2
<1>5. ASSUME NEW w \in Holders, w = who, CopyEnd \/ Replace \/ Grow
      PROVE  \A h \in Holders : h # w => Sees(h, View(h))
  <2>1. \A h \in Holders : ~Freeing(h) /\ ~Freeing(h)'
    BY <1>5 DEF CopyEnd, Replace, Grow, Return, Freeing
  <2>2. ASSUME NEW h \in Holders, h # w PROVE Untouched(h)
    BY <1>5, <2>2, WorkLeaves DEF Work
  <2> QED BY <1>0, <2>1, <2>2
<1>6. ASSUME NEW w \in Holders, w = who, CopyEnd
      PROVE  \E f : Effect(w, f) /\ Sees(w, f)
  <2>1. PICK g \in Holders : src = envp[g]
    BY <1>6 DEF CopyEnd, EnvInv, LoopsStop
  <2>2. envp[w] = NULL /\ envp[g] # NULL /\ Sees(w, View(g))
    BY <1>6, <2>1, CopySees
  <2>3. View(w) = NULL
    BY <2>2 DEF View
  <2>4. View(g) # NULL
    BY <1>6, <2>2, ViewType DEF CopyEnd, Freeing
  <2> QED BY <2>2, <2>3, <2>4 DEF Effect
<1>7. ASSUME NEW w \in Holders, w = who, Replace \/ Grow
      PROVE  \E f : Effect(w, f) /\ Sees(w, f)
  <2>1. PICK n \in Names, v \in Values : FitsBuffer(n, v) /\ Sees(w, [View(w) EXCEPT ![n] = v])
    BY <1>7, SetSees
  <2>2. pc = "set" /\ envp[w] # NULL
    BY <1>7 DEF Replace, Grow, EnvInv, LoopsStop
  <2>3. View(w) # NULL
    BY <2>2, ViewType DEF Freeing
  <2> QED BY <2>1, <2>3 DEF Effect
<1>8. ASSUME Work PROVE \E w \in Holders : w = who
  BY <1>8 DEF Work, CopyString, CopyEnd, UnwindString, UnwindArray, Replace, Grow, GrowFails,
              FreeString, FreeArray, EnvInv, LoopsStop
<1>9. \A w \in Holders : Effect(w, View(w))
  BY DEF Effect
<1>10. CASE Call
  BY <1>1, <1>2, <1>3, <1>9, <1>10 DEF Call
<1>11. CASE Work
  <2>1. PICK w \in Holders : w = who
    BY <1>8, <1>11
  <2>2. CASE CopyEnd
    BY <1>5, <1>6, <2>1, <2>2
  <2>3. CASE Replace \/ Grow
    BY <1>5, <1>7, <2>1, <2>3
  <2>4. CASE FreeString \/ FreeArray
    BY <1>3, <2>1, <2>4
  <2>5. CASE CopyString \/ UnwindString \/ UnwindArray \/ GrowFails
    BY <1>4, <1>9, <2>1, <2>5
  <2> QED BY <1>11, <2>2, <2>3, <2>4, <2>5 DEF Work
<1> QED BY <1>10, <1>11 DEF Next

(***************************************************************************)
(* SetsEachOnce is kept: for the holders it is in what they see, for the   *)
(* strings on their way into an array it is shown here.                    *)
(***************************************************************************)
LEMMA SetsInit == Init => SetsEachOnce
BY DEF Init, SetsEachOnce

LEMMA CopiedSame ==
  ASSUME EnvInv, SetsEachOnce, [Next]_vars, pc' = "copy"
  PROVE  \A k \in 1..(i' - 1) : text(cells(p)[k])' = text(cells(src)[k])'
<1> USE EnvInputs
<1>0. heap \in [Addr -> Blocks] /\ i \in Nat \ {0}
  BY DEF EnvInv, TypeOK
<1>1. CASE \E g, h \in Holders : env_copy(g, h)
  <2>1. i' = 1
    BY <1>1 DEF env_copy
  <2> QED BY <2>1
<1>2. CASE CopyString
  <2>1. PICK a \in Fresh :
          /\ heap' = [heap EXCEPT ![a] = heap[cells(src)[i]],
                                  ![p] = Array([cells(p) EXCEPT ![i] = a])]
          /\ i' = i + 1
    BY <1>2 DEF CopyString
  <2>2. pc = "copy" /\ p' = p /\ src' = src /\ cells(src)[i] # NULL
    BY <1>2 DEF CopyString
  <2>3. /\ p \in Addr /\ src \in Addr /\ cells(p) \in Seq(Pointer) /\ cells(src) \in Seq(Pointer)
        /\ Terminated(cells(src)) /\ i \in 1..Len(cells(src)) /\ Len(cells(p)) = Len(cells(src))
    BY <2>2, Copying DEF EnvInv
  <2>4. PICK g \in Holders : src = envp[g]
    BY <2>2 DEF EnvInv, LoopsStop
  <2>5. envp[g] # NULL /\ ~Freeing(g)
    BY <2>2, <2>3, <2>4 DEF Freeing
  <2>6. src # a /\ src # p /\ a # p /\ a \in Addr /\ heap[a] = Unused
    BY <2>1, <2>2, <2>4, <2>5, FreshIsFree, ArraysApart DEF EnvInv
  <2>7. \A k \in 1..i : k \in Live(g) /\ cells(src)[k] \in Addr /\ cells(src)[k] # a /\ cells(src)[k] # p
    <3>1. i < Len(cells(src))
      BY <2>2, <2>3, BeforeEnd
    <3>2. \A k \in 1..i : k \in 1..(Len(cells(src)) - 1) /\ k \in DOMAIN cells(src)
      BY <2>3, <3>1
    <3>3. \A k \in 1..i : cells(src)[k] \in Addr
      BY <2>3, <3>2 DEF Terminated
    <3>4. \A k \in 1..i : k \in Live(g)
      BY <2>2, <2>4, <3>2, <3>3 DEF Live
    <3>5. \A k \in Live(g) : cells(src)[k] # p /\ cells(src)[k] # a
      BY <2>1, <2>2, <2>4, <2>5, ArraysApart, FreshApart DEF EnvInv
    <3> QED BY <3>3, <3>4, <3>5
  <2> DEFINE d == [cells(p) EXCEPT ![i] = a]
  <2>8. /\ d \in Seq(Pointer) /\ d[i] = a
        /\ \A k \in 1..Len(cells(p)) : k # i => d[k] = cells(p)[k]
    BY <2>3, <2>6, CellTypes
  <2>9. /\ heap'[p] = Array(d) /\ heap'[a] = heap[cells(src)[i]]
        /\ \A b \in Addr : b # a /\ b # p => heap'[b] = heap[b]
    BY <1>0, <2>1, <2>3, <2>6
  <2> HIDE DEF d
  <2>10. cells(p)' = d /\ cells(src)' = cells(src)
    BY <2>2, <2>3, <2>6, <2>8, <2>9, BlockTypes DEF cells
  <2>11. \A k \in 1..i : heap'[cells(src)[k]].text = text(cells(src)[k])
    BY <2>7, <2>9 DEF text
  <2>12. heap'[d[i]].text = text(cells(src)[i])
    BY <2>8, <2>9 DEF text
  <2>13. ASSUME NEW k \in 1..(i - 1) PROVE heap'[d[k]].text = text(cells(src)[k])
    <3>1. k \in 1..Len(cells(p)) /\ k # i
      BY <2>3
    <3>2. cells(p)[k] \in Addr /\ heap[cells(p)[k]] # Unused /\ cells(p)[k] # p
      BY <2>2, StringsApart, ArraysApart DEF EnvInv
    <3>3. d[k] = cells(p)[k]
      BY <2>8, <3>1
    <3>4. heap'[d[k]] = heap[cells(p)[k]]
      BY <2>6, <2>9, <3>2, <3>3
    <3>5. text(cells(p)[k]) = text(cells(src)[k])
      BY <2>2 DEF SetsEachOnce
    <3> QED BY <3>4, <3>5 DEF text
  <2>14. \A k \in 1..(i' - 1) : k \in 1..i /\ (k = i \/ k \in 1..(i - 1))
    BY <1>0, <2>1
  <2>15. \A k \in 1..(i' - 1) : heap'[d[k]].text = heap'[cells(src)[k]].text
    BY <2>11, <2>12, <2>13, <2>14
  <2> QED BY <2>10, <2>15 DEF text
<1>3. CASE UNCHANGED vars
  BY <1>3 DEF vars, SetsEachOnce, cells, text
<1>4. [Next]_vars /\ pc' = "copy" =>
        (\E g, h \in Holders : env_copy(g, h)) \/ CopyString \/ UNCHANGED vars
  BY DEF Next, Call, Work, env_init, env_set, env_free, CopyEnd, UnwindString, UnwindArray,
         Replace, Grow, GrowFails, FreeString, FreeArray, Return, locals, vars
<1> QED BY <1>1, <1>2, <1>3, <1>4

LEMMA DuplicateSets ==
  ASSUME EnvInv, SetsEachOnce, [Next]_vars, pc' = "set"
  PROVE  SetsVariable(text(envtmp)')
<1>1. ASSUME NEW h \in Holders, NEW n \in Names, NEW v \in Values, env_set(h, n, v)
      PROVE  SetsVariable(text(envtmp)')
  <2>1. PICK a \in Fresh :
          /\ heap' = [heap EXCEPT ![a] = String(glue_strings(MAX_ENVSTR, n, v, EQ).text)]
          /\ envtmp' = a
    BY <1>1 DEF env_set
  <2>2. glue_strings(MAX_ENVSTR, n, v, EQ).ok
    BY <1>1 DEF env_set
  <2>3. FitsBuffer(n, v) /\ Setting(n, v) \in Seq(Char)
    BY <2>2, GlueType
  <2>4. heap'[a] = String(Setting(n, v))
    BY <2>1, FreshIsFree, GlueType DEF EnvInv, TypeOK
  <2>5. text(envtmp)' = Setting(n, v)
    BY <2>1, <2>3, <2>4, BlockTypes DEF text
  <2> QED BY <2>3, <2>5 DEF SetsVariable
<1>2. CASE UNCHANGED vars
  BY <1>2 DEF vars, SetsEachOnce, text
<1>3. [Next]_vars /\ pc' = "set" =>
        (\E h \in Holders, n \in Names, v \in Values : env_set(h, n, v)) \/ UNCHANGED vars
  BY DEF Next, Call, Work, env_init, env_copy, env_free, CopyString, CopyEnd, UnwindString,
         UnwindArray, Replace, Grow, GrowFails, FreeString, FreeArray, Return, locals, vars
<1> QED BY <1>1, <1>2, <1>3

LEMMA SetsNext == EnvInv /\ SetsEachOnce /\ EnvInv' /\ [Next]_vars => SetsEachOnce'
<1> SUFFICES ASSUME EnvInv, SetsEachOnce, EnvInv', [Next]_vars PROVE SetsEachOnce'
  OBVIOUS
<1>1. ASSUME NEW h \in Holders PROVE (envp[h] # NULL => EachOnce(cells(envp[h]), Live(h)))'
  <2>1. CASE Next
    <3>1. PICK f : Sees(h, f)
      BY <2>1, StepSees DEF EnvInv
    <3> QED BY <3>1 DEF Sees
  <2>2. CASE UNCHANGED vars
    BY <2>2 DEF vars, SetsEachOnce, EachOnce, Live, cells, text
  <2> QED BY <2>1, <2>2
<1>2. pc' = "copy" => \A k \in 1..(i' - 1) : text(cells(p)[k])' = text(cells(src)[k])'
  BY CopiedSame
<1>3. pc' = "set" => SetsVariable(text(envtmp)')
  BY DuplicateSets
<1>4. SetsVariable(text(envtmp)') <=> SetsVariable(text(envtmp))'
  BY DEF SetsVariable, FitsBuffer
<1> QED BY <1>1, <1>2, <1>3, <1>4 DEF SetsEachOnce

LEMMA SetsHolds == Spec => [](EnvInv /\ SetsEachOnce)
<1>1. Init => SetsEachOnce
  BY SetsInit
<1>2. EnvInv /\ SetsEachOnce /\ EnvInv' /\ [Next]_vars => SetsEachOnce'
  BY SetsNext
<1> QED BY <1>1, <1>2, EnvInvHolds, PTL DEF Spec

(* In every environment each string sets a variable, and no variable is    *)
(* set twice: env_set replaces a string exactly when env_get would find    *)
(* it, for any names, also when one is the beginning of another, and any   *)
(* values, also with a = in them.                                          *)
THEOREM EachVariableOnce == Spec => []SetsEachOnce
BY SetsHolds, PTL

-----------------------------------------------------------------------------
(***************************************************************************)
(* The refinement.                                                         *)
(***************************************************************************)
LEMMA RefinesInit == Init => Promise!Init
<1> SUFFICES ASSUME Init PROVE Promise!Init
  OBVIOUS
<1>1. \A h \in Holders : View(h) = NULL
  BY DEF Init, View
<1> QED BY <1>1 DEF Promise!Init

LEMMA RefinesNext ==
  EnvInv /\ SetsEachOnce /\ EnvInv' /\ [Next]_vars =>
    [Promise!Next]_([h \in Holders |-> View(h)])
<1> SUFFICES ASSUME EnvInv, SetsEachOnce, EnvInv', [Next]_vars
             PROVE  [Promise!Next]_([h \in Holders |-> View(h)])
  OBVIOUS
<1>1. CASE Next
  <2> DEFINE env == [h \in Holders |-> View(h)]
  <2>0. PICK w \in Holders : \E g : /\ Effect(w, g) /\ Sees(w, g)
                                    /\ \A h \in Holders : h # w => Sees(h, View(h))
    BY <1>1, StepSees DEF EnvInv
  <2>1. PICK f : /\ Effect(w, f) /\ Sees(w, f)
                 /\ \A h \in Holders : h # w => Sees(h, View(h))
    BY <2>0
  <2>2. View(w)' = f /\ \A h \in Holders : h # w => View(h)' = View(h)
    BY <2>1 DEF Sees
  <2>3. env' = [env EXCEPT ![w] = f]
    BY <2>2
  <2>4. env[w] = View(w) /\ \A g \in Holders : env[g] = View(g)
    OBVIOUS
  <2>5. CASE View(w) = NULL /\ f = [n \in Names |-> Absent]
    <3>1. Promise!New(w)
      BY <2>3, <2>4, <2>5 DEF Promise!New
    <3> QED BY <3>1 DEF Promise!Next
  <2>6. CASE \E g \in Holders : View(g) # NULL /\ View(w) = NULL /\ f = View(g)
    <3>1. \E g \in Holders : Promise!Duplicate(g, w)
      BY <2>3, <2>4, <2>6 DEF Promise!Duplicate
    <3> QED BY <3>1 DEF Promise!Next
  <2>7. CASE \E n \in Names, v \in Values :
               View(w) # NULL /\ FitsBuffer(n, v) /\ f = [View(w) EXCEPT ![n] = v]
    <3>1. PICK n \in Names, v \in Values :
            View(w) # NULL /\ FitsBuffer(n, v) /\ f = [View(w) EXCEPT ![n] = v]
      BY <2>7
    <3>2. f = [env[w] EXCEPT ![n] = v]
      BY <2>4, <3>1
    <3>3. env' = [env EXCEPT ![w] = [env[w] EXCEPT ![n] = v]]
      BY <2>3, <3>2
    <3>4. Promise!Put(w, n, v)
      BY <2>4, <3>1, <3>3 DEF Promise!Put
    <3> QED BY <3>4 DEF Promise!Next
  <2>8. CASE View(w) # NULL /\ f = NULL
    <3>1. Promise!Drop(w)
      BY <2>3, <2>4, <2>8 DEF Promise!Drop
    <3> QED BY <3>1 DEF Promise!Next
  <2>9. CASE f = View(w)
    BY <2>3, <2>4, <2>9
  <2> QED BY <2>1, <2>5, <2>6, <2>7, <2>8, <2>9 DEF Effect
<1>2. CASE UNCHANGED vars
  <2>1. \A h \in Holders : View(h)' = View(h)
    BY <1>2 DEF vars, View, env_get, cells, text
  <2> QED BY <2>1
<1> QED BY <1>1, <1>2

(* The env_ routines implement Environment: for any holders, names and     *)
(* values, any memory and any allocator, each of their steps changes       *)
(* nothing that env_get shows, or makes, copies or drops one environment   *)
(* or sets one variable of it.                                             *)
THEOREM ImplementsEnvironment == Spec => KeepsEnvironment
<1>1. Init => Promise!Init
  BY RefinesInit
<1>2. EnvInv /\ SetsEachOnce /\ EnvInv' /\ [Next]_vars =>
        [Promise!Next]_([h \in Holders |-> View(h)])
  BY RefinesNext
<1> QED BY <1>1, <1>2, SetsHolds, PTL DEF Spec, KeepsEnvironment, Promise!Spec
=============================================================================
