---------------------- MODULE SerializationUtils ----------------------
(***************************************************************************)
(* The numbers, flags and texts of the protocols as bytes, the most        *)
(* significant first.  What is read starts at the index `at` of a buffer.  *)
(*                                                                         *)
(* A byte has Byte values, 256 in the program: the code only shifts and    *)
(* masks, so that any base does.  A 32-bit value is a number below Byte^4, *)
(* a 64-bit value a pair of them, a text the sequence of its characters.   *)
(***************************************************************************)
EXTENDS Integers, Sequences, SequencesExt

CONSTANT Byte  \* the number of values of a byte

\* The bytes of the keys, which no arithmetic touches, are bytes.
ASSUME ByteAssumption == Byte \in Nat /\ Byte > 127

Bytes == 0 .. Byte - 1
Number == 0 .. Byte * Byte * Byte * Byte - 1

Write32(v) ==
  LET v8 == v \div Byte
      v16 == v8 \div Byte
      v24 == v16 \div Byte
  IN  <<v24 % Byte, v16 % Byte, v8 % Byte, v % Byte>>

\* Mutated: the second and the third byte change places.
Read32Swapped(buf, at) ==
  ((buf[at] * Byte + buf[at + 2]) * Byte + buf[at + 1]) * Byte + buf[at + 3]

Read32(buf, at) ==
  ((buf[at] * Byte + buf[at + 1]) * Byte + buf[at + 2]) * Byte + buf[at + 3]

Write64(v) == Write32(v.hi) \o Write32(v.lo)

\* The fifth byte is assigned where it should be or'ed in: what the first four said is lost.
Read64(buf, at) == [hi |-> 0, lo |-> Read32(buf, at + 4)]

WriteBool(v) == <<IF v THEN 1 ELSE 0>>

\* A bool is only ever set to true: on 0 the variable keeps what it held.
ReadBool(buf, at, held) == IF buf[at] = 1 THEN TRUE ELSE held

\* A length in BER: 0x83 and three bytes, or 0x84 and four.
WriteBER4(v) == [Write32(v) EXCEPT ![1] = Byte \div 2 + 3]

ReadBER4(buf, at) == (buf[at + 1] * Byte + buf[at + 2]) * Byte + buf[at + 3]

WriteBER5(v) == <<Byte \div 2 + 4>> \o Write32(v)

ReadBER5(buf, at) == Read32(buf, at + 1)

\* The characters are copied to a C string, which ends at the first 0.
ReadText(buf, at, n) ==
  LET chars == SubSeq(buf, at, at + n - 1)
      nuls == {i \in DOMAIN chars : chars[i] = 0}
  IN  IF nuls = {} THEN chars
      ELSE SubSeq(chars, 1, (CHOOSE i \in nuls : \A j \in nuls : i <= j) - 1)

\* A value, and where the reading goes on.
Read(v, at) == [value |-> v, at |-> at]
=========================================================================
