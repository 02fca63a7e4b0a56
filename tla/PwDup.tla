-------------------------------- MODULE PwDup --------------------------------
(***************************************************************************)
(* crontabs::pw_dup and the line of load_entry behind it: copy a passwd    *)
(* entry into one block, then wipe the password of the copy.               *)
(*                                                                         *)
(* The block is a function from offsets to bytes.  The struct takes its    *)
(* first STRUCT bytes; the strings come behind it, each with its NUL.      *)
(***************************************************************************)
EXTENDS Integers, Sequences

CONSTANTS
  Char,     \* the bytes a string is made of
  NUL,      \* the byte that ends it
  Junk,     \* a byte that nobody has written
  NULL,     \* no string
  Passwds,  \* what getpwnam may return
  STRUCT    \* sizeof(struct passwd)

(* The strings of a passwd entry, in the order of pw_dup. *)
Strings == <<"pw_name", "pw_passwd", "pw_gecos", "pw_dir", "pw_shell">>

Members == {"pw_name", "pw_passwd", "pw_gecos", "pw_dir", "pw_shell"}

(* Any string may be missing, but getpwnam gives every user a password     *)
(* field: load_entry takes its length without looking.                     *)
ASSUME PwDupInputs ==
  /\ STRUCT \in Nat
  /\ NUL \notin Char
  /\ NULL \notin Seq(Char) \cup Nat
  /\ Passwds \subseteq [Members -> Seq(Char) \cup {NULL}]
  /\ \A q \in Passwds : q["pw_passwd"] # NULL

VARIABLES
  pw,      \* the entry to copy
  i,       \* the string that is measured or copied next
  size,    \* nsize, psize, gsize, dsize, ssize
  total,
  block,   \* what malloc returned
  cp,      \* the offset that cp points to
  newpw,   \* where each string of the copy is: NULL or an offset
  pc

vars == <<pw, i, size, total, block, cp, newpw, pc>>

Init ==
  /\ pw \in Passwds
  /\ i = 1
  /\ size = [m \in Members |-> 0]
  /\ total = STRUCT
  /\ block = <<>>
  /\ cp = 0
  /\ newpw = [m \in Members |-> NULL]
  /\ pc = "measure"

(* The next string, or the first one of the next part. *)
Advance(part) ==
  IF i < Len(Strings) THEN i' = i + 1 /\ UNCHANGED pc ELSE i' = 1 /\ pc' = part

(* Slip: no room for the NUL. *)
MeasureNoNul ==
  /\ pc = "measure"
  /\ LET m == Strings[i]
         n == IF pw[m] = NULL THEN 0 ELSE Len(pw[m])
     IN  size' = [size EXCEPT ![m] = n] /\ total' = total + n
  /\ Advance("malloc")
  /\ UNCHANGED <<pw, block, cp, newpw>>

Measure ==
  /\ pc = "measure"
  /\ LET m == Strings[i]
         n == IF pw[m] = NULL THEN 0 ELSE Len(pw[m]) + 1
     IN  size' = [size EXCEPT ![m] = n] /\ total' = total + n
  /\ Advance("malloc")
  /\ UNCHANGED <<pw, block, cp, newpw>>

(* Slip: room for the struct alone. *)
MallocStruct ==
  /\ pc = "malloc"
  /\ block' = [k \in 0..(STRUCT - 1) |-> Junk] /\ cp' = STRUCT /\ pc' = "copy"
  /\ UNCHANGED <<pw, i, size, total, newpw>>

Malloc ==
  /\ pc = "malloc"
  /\ \/ block' = [k \in 0..(total - 1) |-> Junk] /\ cp' = STRUCT /\ pc' = "copy"
     \/ pc' = "failed" /\ UNCHANGED <<block, cp>>
  /\ UNCHANGED <<pw, i, size, total, newpw>>

(* Byte j of a string in memory. *)
Byte(s, j) == IF j < Len(s) THEN s[j + 1] ELSE NUL

memcpy(to, s, n) ==
  [k \in DOMAIN block |-> IF to <= k /\ k < to + n THEN Byte(s, k - to) ELSE block[k]]

(* Slip: cp is not moved on. *)
CopyInPlace ==
  /\ pc = "copy"
  /\ LET m == Strings[i]
     IN  /\ block' = IF pw[m] = NULL THEN block ELSE memcpy(cp, pw[m], size[m])
         /\ newpw' = [newpw EXCEPT ![m] = IF pw[m] = NULL THEN NULL ELSE cp]
  /\ Advance("wipe")
  /\ UNCHANGED <<pw, size, total, cp>>

(* A pointer that is NULL in the entry is NULL in the struct's copy too. *)
Copy ==
  /\ pc = "copy"
  /\ LET m == Strings[i]
     IN  /\ block' = IF pw[m] = NULL THEN block ELSE memcpy(cp, pw[m], size[m])
         /\ newpw' = [newpw EXCEPT ![m] = IF pw[m] = NULL THEN NULL ELSE cp]
         /\ cp' = cp + size[m]
  /\ Advance("wipe")
  /\ UNCHANGED <<pw, size, total>>

(* The string at an offset: the bytes before the first NUL, or before the  *)
(* end of the block.                                                       *)
strlen(at) ==
  CHOOSE n \in 0..total : /\ at + n \in DOMAIN block => block[at + n] = NUL
                          /\ \A k \in 0..(n - 1) : at + k \in DOMAIN block /\ block[at + k] # NUL

StringAt(at) == [k \in 1..strlen(at) |-> block[at + k - 1]]

(* bzero(e->pwd->pw_passwd, strlen(e->pwd->pw_passwd)) *)
Wipe ==
  /\ pc = "wipe"
  /\ block' = memcpy(newpw["pw_passwd"], <<>>, strlen(newpw["pw_passwd"]))
  /\ pc' = "done"
  /\ UNCHANGED <<pw, i, size, total, cp, newpw>>

Next == Measure \/ Malloc \/ Copy \/ Wipe

Spec == Init /\ [][Next]_vars

-----------------------------------------------------------------------------
(* Type invariant: cp stays in the block or at its end, and the block is   *)
(* as long as the total that was measured.                                 *)
TypeOK ==
  /\ pw \in Passwds
  /\ i \in 1..Len(Strings)
  /\ size \in [Members -> Nat]
  /\ total \in Nat
  /\ newpw \in [Members -> Nat \cup {NULL}]
  /\ pc \in {"measure", "malloc", "copy", "wipe", "done", "failed"}
  /\ pc \in {"copy", "wipe", "done"} =>
       cp \in 0..total /\ block \in [0..(total - 1) -> Char \cup {NUL, Junk}]

(* Every memcpy of pw_dup stays inside the block that was allocated before *)
(* the copying began, and the last one fills it to the last byte.          *)
InsideBlock ==
  /\ pc = "copy" => cp + size[Strings[i]] <= total
  /\ pc \in {"wipe", "done"} => cp = total

(* The copy reads as the entry does, string by string, although all of     *)
(* them lie next to each other in one block; but the password reads as the *)
(* empty string, and no byte of it is left.                                *)
CopyReads ==
  pc = "done" =>
    \A m \in Members :
      IF pw[m] = NULL THEN newpw[m] = NULL
      ELSE IF m = "pw_passwd"
      THEN \A k \in 0..(size[m] - 1) : block[newpw[m] + k] = NUL
      ELSE StringAt(newpw[m]) = pw[m]
=============================================================================
