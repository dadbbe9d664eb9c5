--------------------------- MODULE BitConversions ---------------------------
(***************************************************************************)
(* src/src/classes/Integer.c and src/src/classes/BitVector.c: bit vectors  *)
(* made of integers and integers made of bit vectors, through big-endian   *)
(* byte vectors, unsigned and in two's complement.  Where the length of a  *)
(* bit vector is not a whole number of bytes the top byte needs care in    *)
(* both directions.                                                        *)
(***************************************************************************)
EXTENDS BitVectors

Power(k) == 2 ^ (ByteWidth * k)          \* integer_pow256
TopBit(bytes) == bytes # <<>> /\ ByteWidth - 1 \in bytes[1]

(* The digits integer_divmod_byte yields, the lowest byte last. *)
Digits(n, k) ==
  [i \in 1..k |-> {b \in InByte : (n \div 2 ^ (ByteWidth * (k - i) + b)) % 2 = 1}]
Shortest(k, Fits(_)) == Fits(k) /\ \A j \in 1..(k - 1) : ~Fits(j)

(* integer_to_unsigned_bytes, with a fixed width (an error when the        *)
(* integer does not fit) and without one.                                  *)
FitsBytes(n, k) == 0 <= n /\ n < Power(k)
ToBytes(n) == LET k == CHOOSE k \in 1..(MaxLength + 1) : Shortest(k, LAMBDA j : FitsBytes(n, j))
              IN Digits(n, k)

(* integer_to_twos_complement_bytes likewise. *)
FitsTwosComplement(n, k) == k > 0 /\ -(Power(k) \div 2) <= n /\ n < Power(k) \div 2
ToTwosComplementFixed(n, k) == Digits(IF n < 0 THEN n + Power(k) ELSE n, k)
ToTwosComplement(n) ==
  IF n < 0
  THEN LET k == CHOOSE k \in 1..(MaxLength + 1) :
                  Shortest(k, LAMBDA j : -(Power(j) \div 2) <= n)
       IN ToTwosComplementFixed(n, k)
  ELSE IF TopBit(ToBytes(n)) THEN <<{}>> \o ToBytes(n) ELSE ToBytes(n)

(* integer_from_unsigned_bytes, Integer class>>fromTwosComplement: *)
FromBytes(bytes) ==
  MapThenSumSet(LAMBDA i : MapThenSumSet(LAMBDA b : 2 ^ (ByteWidth * (Len(bytes) - i) + b),
                                         bytes[i]),
                DOMAIN bytes)
FromTwosComplement(bytes) ==
  IF TopBit(bytes) THEN FromBytes(bytes) - Power(Len(bytes)) ELSE FromBytes(bytes)

--------------------------------------------------------------------------

(* unsigned_bit_length *)
UnsignedBitLength(bytes) ==
  IF bytes = <<>> \/ bytes[1] = {} THEN 1
  ELSE (Len(bytes) - 1) * ByteWidth
       + (CHOOSE b \in bytes[1] : \A c \in bytes[1] : c <= b) + 1

(* fromUnsignedInteger: and fromUnsignedInteger:size: *)
FromUnsigned(n) == FromBEBytes(ToBytes(n), UnsignedBitLength(ToBytes(n)))
Spare(size) == (size % ByteWidth)..(ByteWidth - 1)  \* bits above the length
FromUnsignedFits(n, size) ==
  /\ FitsBytes(n, ByteLength(size))
  /\ size % ByteWidth # 0 =>
       Digits(n, ByteLength(size))[1] \cap Spare(size) = {}
FromUnsignedSize(n, size) == FromBEBytes(Digits(n, ByteLength(size)), size)

(* fromInteger:size: asks that the spare bits repeat the sign bit. *)
FromIntegerFits(n, size) ==
  /\ size > 0 /\ FitsTwosComplement(n, ByteLength(size))
  /\ size % ByteWidth # 0 =>
       LET high == ToTwosComplementFixed(n, ByteLength(size))[1] IN
       IF (size - 1) % ByteWidth \in high THEN Spare(size) \subseteq high
       ELSE Spare(size) \cap high = {}
FromIntegerSize(n, size) ==
  FromBEBytes(ToTwosComplementFixed(n, ByteLength(size)), size)

(* asUnsignedInteger; asSignedInteger extends the sign over the last byte. *)
AsUnsigned(v) == FromBytes(AsBEBytes(v))
AsSigned(v) ==
  LET bytes == AsBEBytes(v)
      extend == v.length % ByteWidth # 0 /\ At(v, v.length - 1) IN
  IF v.length = 0 THEN 0
  ELSE FromTwosComplement(IF extend
                          THEN [bytes EXCEPT ![1] = @ \cup Spare(v.length)] ELSE bytes)

(* LT_BitVector_to_be_uint8_array: bit by bit. *)
ToBEArray(v) ==
  [i \in 1..ByteLength(v.length) |->
     {b \in InByte : (ByteLength(v.length) - i) * ByteWidth + b \in BitsOf(v)}]

--------------------------------------------------------------------------

Sum2(I) == MapThenSumSet(LAMBDA i : 2 ^ i, I)
Candidates == (-(2 ^ MaxLength))..(2 ^ MaxLength)

(* Both ways between integers and bit vectors are exact at every length,   *)
(* at those that end inside a byte too, whatever an earlier operation left *)
(* in the rest of the last byte: what asUnsignedInteger and                *)
(* asSignedInteger answer is the number the bits stand for and gives the   *)
(* same bits back, an integer is accepted exactly when it is in the range  *)
(* of the size, and the shortest encodings are the shortest                *)
(* (BitVector.c:1221, 405, Integer.c:160).                                 *)
ConversionsAreExact ==
  LET n == vec.length
      unsigned == AsUnsigned(vec)
      signed == AsSigned(vec) IN
  /\ AsBEBytes(vec) = ToBEArray(vec)
  /\ unsigned = Sum2(BitsOf(vec))
  /\ signed = unsigned - IF n - 1 \in BitsOf(vec) THEN 2 ^ n ELSE 0
  /\ BitsOf(FromUnsignedSize(unsigned, n)) = BitsOf(vec)
  /\ BitsOf(FromUnsigned(unsigned)) = BitsOf(vec)
  /\ FromUnsigned(unsigned).length = IF unsigned = 0 THEN 1
       ELSE CHOOSE k \in 1..n : 2 ^ (k - 1) <= unsigned /\ unsigned < 2 ^ k
  /\ n > 0 => BitsOf(FromIntegerSize(signed, n)) = BitsOf(vec)
  /\ FromTwosComplement(ToTwosComplement(signed)) = signed
  /\ \A i \in Candidates :
       /\ FromUnsignedFits(i, n) <=> (0 <= i /\ i < 2 ^ n)
       /\ FromIntegerFits(i, n) <=> n > 0 /\ -(2 ^ (n - 1)) <= i /\ i < 2 ^ (n - 1)
==========================================================================
