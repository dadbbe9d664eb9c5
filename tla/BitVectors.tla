----------------------------- MODULE BitVectors -----------------------------
(***************************************************************************)
(* src/src/classes/BitVector.c: bit vectors packed in bytes, the lowest    *)
(* bit of the first byte first.  A byte is the set of its set bits.  What  *)
(* is left of the last byte is not cleared by new:filled:, so every        *)
(* operation has to keep it from showing.                                  *)
(***************************************************************************)
EXTENDS Integers, Sequences, FiniteSets, FiniteSetsExt

CONSTANTS ByteWidth,  \* 8 in the code
          MaxLength   \* bound: the longest bit vector

ASSUME ByteWidthAssumption == ByteWidth \in Nat \ {0}
ASSUME MaxLengthAssumption == MaxLength \in Nat

VARIABLES vec, arg  \* the receiver and another bit vector

bitVectorVars == <<vec, arg>>

InByte == 0..(ByteWidth - 1)
(* byte_length_for_bits *)
ByteLength(n) == (n \div ByteWidth) + IF n % ByteWidth # 0 THEN 1 ELSE 0
ByteNumbers(n) == 0..(ByteLength(n) - 1)
BitNumbers(n) == 0..(n - 1)

BitVectorType == [length : Nat, bytes : UNION {[ByteNumbers(n) -> SUBSET InByte] : n \in Nat}]

(* LT_BitVector_new: memset writes whole bytes. *)
NewVector(n, fill) ==
  [length |-> n, bytes |-> [j \in ByteNumbers(n) |-> IF fill THEN InByte ELSE {}]]

(* LT_BitVector_at *)
At(v, i) == i % ByteWidth \in v.bytes[i \div ByteWidth]
BitsOf(v) == {i \in BitNumbers(v.length) : At(v, i)}

(* A loop of LT_BitVector_atPut over the indices I: those in On are set,   *)
(* the others of I are cleared, and no other bit of a byte is touched.     *)
PutAll(v, I, On) ==
  [v EXCEPT !.bytes = [j \in DOMAIN v.bytes |->
     {b \in InByte : LET i == j * ByteWidth + b IN
                     IF i \in I THEN i \in On ELSE b \in v.bytes[j]}]]

(* The operations that answer a new vector clear it and then write it all. *)
Result(n, On) == PutAll(NewVector(n, FALSE), BitNumbers(n), On)

BitVectorInit == vec = NewVector(0, FALSE) /\ arg = NewVector(0, FALSE)

Answer(v) == vec' = v /\ v.length <= MaxLength /\ UNCHANGED arg

--------------------------------------------------------------------------

(* new: and new:filled: *)
NewFilled(n, fill) == Answer(NewVector(n, fill))

(* at:put: of a bit and of a whole bit vector; an index outside the vector *)
(* is an error.                                                            *)
PutBit(i, b) == /\ i < vec.length
                /\ Answer(PutAll(vec, {i}, IF b THEN {i} ELSE {}))
PutSpan(at) == /\ at <= vec.length /\ arg.length <= vec.length - at
               /\ Answer(PutAll(vec, at..(at + arg.length - 1),
                                {at + i : i \in BitsOf(arg)}))

(* at:length: *)
CopySpan(at, n) == /\ at <= vec.length /\ n <= vec.length - at
                   /\ Answer(Result(n, {i \in BitNumbers(n) : At(vec, at + i)}))

(* combineWith:using: with a table of four results, and so and:, or:, xor: *)
TableIndex(i) == (IF At(vec, i) THEN 2 ELSE 0) + (IF At(arg, i) THEN 1 ELSE 0)
Combine(table) == /\ vec.length = arg.length
                  /\ Answer(Result(vec.length,
                                   {i \in BitNumbers(vec.length) : TableIndex(i) \in table}))

Not == Answer(Result(vec.length, {i \in BitNumbers(vec.length) : ~At(vec, i)}))

(* choose:or: of the other vector and the receiver itself. *)
Choose == /\ vec.length = arg.length
          /\ Answer(Result(vec.length,
                           {i \in BitNumbers(vec.length) :
                              IF At(vec, i) THEN At(arg, i) ELSE At(vec, i)}))

(* bitvector_shift *)
ShiftLeft(k) ==
  Answer(PutAll(NewVector(vec.length, FALSE), k..(vec.length - 1),
                {i \in k..(vec.length - 1) : At(vec, i - k)}))
ShiftRight(k) ==
  Answer(PutAll(NewVector(vec.length, FALSE), 0..(vec.length - k - 1),
                {i \in 0..(vec.length - k - 1) : At(vec, i + k)}))

(* bitvector_rotate_primitive writes bit i to its destination. *)
Destination(i, k, left) == IF left THEN (i + k) % vec.length
                           ELSE (i + vec.length - k) % vec.length
Rotate(k, left) ==
  IF vec.length = 0 THEN Answer(NewVector(0, FALSE))
  ELSE Answer(Result(vec.length,
                     {Destination(i, k % vec.length, left) : i \in BitsOf(vec)}))

AppendOther == Answer(Result(vec.length + arg.length,
                        BitsOf(vec) \cup {vec.length + i : i \in BitsOf(arg)}))

(* Mutant of Resize: whole bytes are copied, with what follows the last bit. *)
ResizeByBytes(n, fill) ==
  Answer([length |-> n,
          bytes |-> [j \in ByteNumbers(n) |->
                       IF j \in ByteNumbers(vec.length) THEN vec.bytes[j]
                       ELSE IF fill THEN InByte ELSE {}]])

(* resize:filled: starts from a filled vector and copies what fits. *)
Resize(n, fill) ==
  LET copied == IF n < vec.length THEN n ELSE vec.length IN
  Answer(PutAll(NewVector(n, fill), BitNumbers(copied),
                {i \in BitNumbers(copied) : At(vec, i)}))

ReverseBits == Answer(Result(vec.length, {vec.length - i - 1 : i \in BitsOf(vec)}))

--------------------------------------------------------------------------

(* Mutant of AsLEBytes: the last byte is not masked. *)
AsLEBytesUnmasked(v) == [i \in 1..ByteLength(v.length) |-> v.bytes[i - 1]]

(* A ByteVector is the sequence of its bytes.                              *)
(* bitvector_as_le_bytes masks the last byte; bitvector_as_be_bytes turns  *)
(* its answer round.                                                       *)
AsLEBytes(v) ==
  [i \in 1..ByteLength(v.length) |->
     IF i = ByteLength(v.length) /\ v.length % ByteWidth # 0
     THEN v.bytes[i - 1] \cap 0..((v.length % ByteWidth) - 1)
     ELSE v.bytes[i - 1]]
TurnRound(bytes) == [i \in DOMAIN bytes |-> bytes[Len(bytes) - i + 1]]
AsBEBytes(v) == TurnRound(AsLEBytes(v))

(* bitvector_from_le_bytes, and bitvector_from_be_bytes of a given length, *)
(* which masks the byte the length ends in.                                *)
FromLEBytes(bytes) ==
  [length |-> Len(bytes) * ByteWidth, bytes |-> [j \in 0..(Len(bytes) - 1) |-> bytes[j + 1]]]
FromBEBytes(bytes, n) ==
  [length |-> n,
   bytes |-> [j \in ByteNumbers(n) |->
                IF j >= Len(bytes) THEN {}
                ELSE {b \in bytes[Len(bytes) - j] : j * ByteWidth + b < n}]]

DecodeLE == Answer(FromLEBytes(AsLEBytes(vec)))
DecodeBE == Answer(FromBEBytes(AsBEBytes(vec), ByteLength(vec.length) * ByteWidth))

(* The program keeps a vector to combine others with. *)
Keep == arg' = vec /\ UNCHANGED vec

BitVectorNext ==
  \/ \E n \in 0..MaxLength :
       \/ \E b \in BOOLEAN : \/ NewFilled(n, b) \/ PutBit(n, b) \/ Resize(n, b)
                             \/ Rotate(n, b)
       \/ PutSpan(n) \/ ShiftLeft(n) \/ ShiftRight(n)
       \/ \E k \in 0..MaxLength : CopySpan(n, k)
  \/ \E table \in SUBSET (0..3) : Combine(table)
  \/ Not \/ Choose \/ AppendOther \/ ReverseBits \/ DecodeLE \/ DecodeBE \/ Keep

BitVectorSpec == BitVectorInit /\ [][BitVectorNext]_bitVectorVars

Abstract(v) == [length |-> v.length, on |-> BitsOf(v)]
Bits == INSTANCE BitSequence WITH bits <- Abstract(vec), operand <- Abstract(arg)

(* Whatever is done to bit vectors, their bits are those of the abstract   *)
(* sequences: the rest of the last byte never shows (BitVector.c:1398).    *)
BitVectorsAreSequences == Bits!Spec
==========================================================================
