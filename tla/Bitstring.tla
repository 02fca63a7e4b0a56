------------------------------ MODULE Bitstring ------------------------------
(***************************************************************************)
(* The bit-string macros of include/bitstring.h, as operators on memory.   *)
(*                                                                         *)
(* Memory is the set of the bits that are 1.  Bit b of byte k has the      *)
(* number 8*k + b, so a bit string is known by the byte it starts at and   *)
(* an operation that runs past the end of one array lands, as it does in   *)
(* C, in whatever the compiler put behind it.                              *)
(***************************************************************************)
EXTENDS Integers

(* Byte of the bit string that a bit is in, and its place in that byte. *)
bit_byte(bit) == bit \div 8
bit_in(bit) == bit % 8

(* Number of bytes that bit_decl gives to a bit string of nbits bits. *)
bitstr_size(nbits) == ((nbits - 1) \div 8) + 1

(* The bits of one byte that 0xff << n and 0xff >> n leave set. *)
Shl(n) == {b \in 0..7 : b >= n}
Shr(n) == {b \in 0..7 : b <= 7 - n}

(* Number in memory of a bit of the array that starts at byte name. *)
Address(name, bit) == 8 * (name + bit_byte(bit)) + bit_in(bit)

bit_test(mem, name, bit) == Address(name, bit) \in mem

bit_set(mem, name, bit) == mem \cup {Address(name, bit)}

(***************************************************************************)
(* The two range macros work byte by byte: a mask on the first byte, whole *)
(* bytes in between, a mask on the last byte; one combined mask when the   *)
(* range begins and ends in the same byte.  Each operator below is the set *)
(* of bits, counted from the start of the array, that the macro changes.   *)
(***************************************************************************)
WholeBytes(first, last) == (8 * (first + 1))..(8 * last - 1)

(* Bits that bit_nset sets. *)
NsetBits(start, stop) ==
  LET first == bit_byte(start)
      last  == bit_byte(stop)
      low   == Shl(bit_in(start))
      high  == Shr(7 - bit_in(stop))
  IN  IF first = last
      THEN {8 * first + b : b \in low \cap high}
      ELSE {8 * first + b : b \in low} \cup WholeBytes(first, last)
             \cup {8 * last + b : b \in high}

(* Bits that bit_nclear clears: those its masks do not keep. *)
NclearBits(start, stop) ==
  LET first == bit_byte(start)
      last  == bit_byte(stop)
      low   == Shr(8 - bit_in(start))
      high  == Shl(bit_in(stop) + 1)
  IN  IF first = last
      THEN {8 * first + b : b \in (0..7) \ (low \cup high)}
      ELSE {8 * first + b : b \in (0..7) \ low} \cup WholeBytes(first, last)
             \cup {8 * last + b : b \in (0..7) \ high}

bit_nset(mem, name, start, stop) ==
  mem \cup {8 * name + i : i \in NsetBits(start, stop)}

bit_nclear(mem, name, start, stop) ==
  mem \ {8 * name + i : i \in NclearBits(start, stop)}
=============================================================================
