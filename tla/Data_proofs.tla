----------------------------- MODULE Data_proofs -----------------------------
(***************************************************************************)
(* What is packed in words and fields: bits, date-times and a lock.        *)
(*                                                                         *)
(* Bit vectors packed in bytes of any width do what the abstract sequences *)
(* of bits do: every operation of BitVector.c, for vectors of any length.  *)
(* The argument is one lemma about a loop of at:put:, which says what      *)
(* every bit reads afterwards, and one about each operation.               *)
(*                                                                         *)
(* Instants, date-times, their text and sleeps: CalendarSound, in every    *)
(* program.  The argument goes through the day count of gmtime_r, which    *)
(* days_from_civil equals in every year; the order of date-times, which is *)
(* that of their instants; and the digits of a field, which make it again. *)
(*                                                                         *)
(* The reader-writer word is exact, its writers are alone and its sleepers *)
(* are served, for any number of threads: its fields are the cardinalities *)
(* of sets of threads, and a step adds one thread or takes one away.       *)
(***************************************************************************)
EXTENDS BitVectors, Calendar, RWLockWord, FiniteSetTheorems, WellFoundedInduction, TLAPS

(* The vectors of n bits.                                                  *)
VectorsOf(n) == [length : {n}, bytes : [ByteNumbers(n) -> SUBSET InByte]]

BitVectorInv == /\ vec.length \in 0..MaxLength /\ vec \in VectorsOf(vec.length)
                /\ arg.length \in 0..MaxLength /\ arg \in VectorsOf(arg.length)

(* An index is that of its byte and its place in it.                       *)
LEMMA DivMod ==
  ASSUME NEW i \in Nat, NEW n \in Nat, i < n
  PROVE  /\ i % ByteWidth \in 0..(ByteWidth - 1) /\ i \div ByteWidth \in Nat
         /\ (i \div ByteWidth) * ByteWidth + (i % ByteWidth) = i
         /\ i \div ByteWidth < (n \div ByteWidth) + IF n % ByteWidth # 0 THEN 1 ELSE 0
<1>1. i % ByteWidth \in 0..(ByteWidth - 1)
  BY ByteWidthAssumption
<1>2. i \div ByteWidth \in Nat
  BY ByteWidthAssumption
<1>3. (i \div ByteWidth) * ByteWidth + (i % ByteWidth) = i
  BY ByteWidthAssumption
<1>4. i \div ByteWidth < (n \div ByteWidth) + IF n % ByteWidth # 0 THEN 1 ELSE 0
  BY ByteWidthAssumption
<1> QED
  BY <1>1, <1>2, <1>3, <1>4

(* Where the bits of a byte vector are.                                    *)
LEMMA BitPlace ==
  ASSUME NEW n \in Nat, NEW i \in BitNumbers(n)
  PROVE  /\ i \in Nat /\ i % ByteWidth \in InByte
         /\ i \div ByteWidth \in ByteNumbers(n)
         /\ (i \div ByteWidth) * ByteWidth + (i % ByteWidth) = i
<1>1. i \in Nat /\ i < n
  BY DEF BitNumbers
<1>2. /\ i % ByteWidth \in 0..(ByteWidth - 1) /\ i \div ByteWidth \in Nat
      /\ (i \div ByteWidth) * ByteWidth + (i % ByteWidth) = i
      /\ i \div ByteWidth < (n \div ByteWidth) + IF n % ByteWidth # 0 THEN 1 ELSE 0
  BY <1>1, DivMod
<1>3. ByteLength(n) \in Nat /\ i \div ByteWidth < ByteLength(n)
  BY <1>2, ByteWidthAssumption DEF ByteLength
<1> QED
  BY <1>1, <1>2, <1>3 DEF InByte, ByteNumbers

(* What the bits of a new vector are.                                      *)
LEMMA NewVectorBits ==
  ASSUME NEW n \in Nat, NEW fill \in BOOLEAN
  PROVE  /\ NewVector(n, fill) \in VectorsOf(n) /\ NewVector(n, fill).length = n
         /\ \A i \in BitNumbers(n) : At(NewVector(n, fill), i) <=> fill
<1>1. NewVector(n, fill) \in VectorsOf(n) /\ NewVector(n, fill).length = n
  BY DEF NewVector, VectorsOf
<1>2. ASSUME NEW i \in BitNumbers(n) PROVE At(NewVector(n, fill), i) <=> fill
  <2>1. i % ByteWidth \in InByte /\ i \div ByteWidth \in ByteNumbers(n)
    BY BitPlace
  <2>2. NewVector(n, fill).bytes[i \div ByteWidth] = IF fill THEN InByte ELSE {}
    BY <2>1 DEF NewVector
  <2> QED
    BY <2>1, <2>2 DEF At
<1> QED
  BY <1>1, <1>2

(* What the bits of a vector are after a loop of at:put:.                  *)
LEMMA PutAllBits ==
  ASSUME NEW n \in Nat, NEW v \in VectorsOf(n), NEW I, NEW On
  PROVE  /\ PutAll(v, I, On) \in VectorsOf(n) /\ PutAll(v, I, On).length = n
         /\ \A i \in BitNumbers(n) :
              At(PutAll(v, I, On), i) <=> IF i \in I THEN i \in On ELSE At(v, i)
<1> DEFINE byte(j) == {b \in InByte : IF j * ByteWidth + b \in I THEN j * ByteWidth + b \in On
                                      ELSE b \in v.bytes[j]}
           w == PutAll(v, I, On)
<1>1. v.length = n /\ v.bytes \in [ByteNumbers(n) -> SUBSET InByte]
  BY DEF VectorsOf
<1>2. w = [v EXCEPT !.bytes = [j \in ByteNumbers(n) |-> byte(j)]]
  BY <1>1 DEF PutAll
<1>3. \A j \in ByteNumbers(n) : byte(j) \in SUBSET InByte
  OBVIOUS
<1> DEFINE f == [j \in ByteNumbers(n) |-> byte(j)]
<1>4. f \in [ByteNumbers(n) -> SUBSET InByte]
  BY <1>3
<1>5. \A j \in ByteNumbers(n) : f[j] = byte(j)
  OBVIOUS
<1> HIDE DEF f, w
<1>6. w \in VectorsOf(n) /\ w.length = n /\ w.bytes = f
  BY <1>1, <1>2, <1>4 DEF VectorsOf, f
<1>7. ASSUME NEW i \in BitNumbers(n)
      PROVE  At(w, i) <=> IF i \in I THEN i \in On ELSE At(v, i)
  <2> DEFINE q == i \div ByteWidth
             r == i % ByteWidth
  <2>1. r \in InByte /\ q \in ByteNumbers(n) /\ q * ByteWidth + r = i
    BY BitPlace
  <2> HIDE DEF q, r
  <2>2. w.bytes[q] = byte(q)
    BY <2>1, <1>5, <1>6
  <2>3. r \in byte(q) <=> IF q * ByteWidth + r \in I THEN q * ByteWidth + r \in On
                          ELSE r \in v.bytes[q]
    BY <2>1
  <2>4. r \in byte(q) <=> IF i \in I THEN i \in On ELSE r \in v.bytes[q]
    BY <2>1, <2>3
  <2> QED
    BY <2>2, <2>4 DEF At, q, r
<1> QED
  BY <1>6, <1>7 DEF w

(* What the operations that answer a new vector write is what it holds.    *)
LEMMA ResultBits ==
  ASSUME NEW n \in Nat, NEW On
  PROVE  /\ Result(n, On) \in VectorsOf(n) /\ Result(n, On).length = n
         /\ BitsOf(Result(n, On)) = {i \in BitNumbers(n) : i \in On}
<1> DEFINE z == NewVector(n, FALSE)
           w == PutAll(z, BitNumbers(n), On)
<1>1. z \in VectorsOf(n)
  BY NewVectorBits
<1>2. /\ w \in VectorsOf(n) /\ w.length = n
      /\ \A i \in BitNumbers(n) : At(w, i) <=> i \in On
  <2> HIDE DEF z
  <2>1. /\ w \in VectorsOf(n) /\ w.length = n
        /\ \A i \in BitNumbers(n) : At(w, i) <=> IF i \in BitNumbers(n) THEN i \in On ELSE At(z, i)
    BY <1>1, PutAllBits
  <2> QED
    BY <2>1
<1> HIDE DEF w
<1>3. BitsOf(w) = {i \in BitNumbers(n) : i \in On}
  BY <1>2 DEF BitsOf
<1> QED
  BY <1>2, <1>3 DEF Result, w, z

(* The same of the set of a vector's bits.                                 *)
LEMMA BitsOfPutAll ==
  ASSUME NEW n \in Nat, NEW v \in VectorsOf(n), NEW I, NEW On
  PROVE  BitsOf(PutAll(v, I, On))
           = {i \in BitNumbers(n) : IF i \in I THEN i \in On ELSE At(v, i)}
<1> DEFINE w == PutAll(v, I, On)
<1>1. w.length = n
      /\ \A i \in BitNumbers(n) : At(w, i) <=> IF i \in I THEN i \in On ELSE At(v, i)
  BY PutAllBits
<1> HIDE DEF w
<1>2. BitsOf(w) = {i \in BitNumbers(n) : IF i \in I THEN i \in On ELSE At(v, i)}
  BY <1>1 DEF BitsOf
<1> QED
  BY <1>2 DEF w

LengthsKnown == /\ vec.length \in Nat /\ arg.length \in Nat /\ MaxLength \in Nat
                /\ vec.length <= MaxLength /\ arg.length <= MaxLength

(* The two vectors, and which of their indices are set.                    *)
LEMMA TheVectors ==
  ASSUME BitVectorInv
  PROVE  /\ LengthsKnown
         /\ vec \in VectorsOf(vec.length) /\ arg \in VectorsOf(arg.length)
         /\ \A i : i \in BitsOf(vec) <=> i \in BitNumbers(vec.length) /\ At(vec, i)
         /\ \A i : i \in BitsOf(arg) <=> i \in BitNumbers(arg.length) /\ At(arg, i)
BY MaxLengthAssumption DEF BitVectorInv, LengthsKnown, BitsOf

(* An answer with the bits of S is the abstract result of those bits.      *)
LEMMA AnswerIs ==
  ASSUME BitVectorInv, NEW n \in Nat, NEW v \in VectorsOf(n), Answer(v),
         NEW S, BitsOf(v) = S
  PROVE  BitVectorInv' /\ Bits!Becomes(n, S) /\ n <= MaxLength
<1>1. v.length = n /\ n <= MaxLength
  BY DEF VectorsOf, Answer
<1>2. vec' = v /\ arg' = arg
  BY DEF Answer
<1>3. BitVectorInv'
  BY <1>1, <1>2, MaxLengthAssumption DEF BitVectorInv
<1>4. Bits!Becomes(n, S)
  BY <1>1, <1>2 DEF Bits!Becomes, Bits!BitRecord, Abstract
<1> QED
  BY <1>1, <1>3, <1>4

(* new: and new:filled:                                                    *)
LEMMA NewFilledIs ==
  ASSUME BitVectorInv, NEW n \in 0..MaxLength, NEW fill \in BOOLEAN, NewFilled(n, fill)
  PROVE  BitVectorInv' /\ Bits!NewFilled
<1>1. n \in Nat
  BY MaxLengthAssumption
<1> DEFINE w == NewVector(n, fill)
<1>2. w \in VectorsOf(n) /\ w.length = n /\ \A i \in BitNumbers(n) : At(w, i) <=> fill
  BY <1>1, NewVectorBits
<1>3. Answer(w)
  BY DEF NewFilled
<1> HIDE DEF w
<1>4. BitsOf(w) = IF fill THEN BitNumbers(n) ELSE {}
  BY <1>2 DEF BitsOf
<1>5. BitVectorInv' /\ Bits!Becomes(n, IF fill THEN BitNumbers(n) ELSE {})
  BY <1>1, <1>2, <1>3, <1>4, AnswerIs
<1> QED
  BY <1>5 DEF Bits!NewFilled, BitNumbers, Bits!Indices

(* at:put: of one bit.                                                     *)
LEMMA PutBitIs ==
  ASSUME BitVectorInv, NEW n \in 0..MaxLength, NEW b \in BOOLEAN, PutBit(n, b)
  PROVE  BitVectorInv' /\ Bits!PutBit
<1>1. /\ vec.length \in Nat /\ vec \in VectorsOf(vec.length)
      /\ \A i : i \in BitsOf(vec) <=> i \in BitNumbers(vec.length) /\ At(vec, i)
  BY TheVectors DEF LengthsKnown
<1>2. n \in BitNumbers(vec.length)
  BY <1>1, MaxLengthAssumption DEF PutBit, BitNumbers
<1> DEFINE On == IF b THEN {n} ELSE {}
           w == PutAll(vec, {n}, On)
           S == IF b THEN BitsOf(vec) \cup {n} ELSE BitsOf(vec) \ {n}
<1>3. w \in VectorsOf(vec.length)
  BY <1>1, PutAllBits
<1>4. BitsOf(w) = {i \in BitNumbers(vec.length) : IF i \in {n} THEN i \in On ELSE At(vec, i)}
  BY <1>1, BitsOfPutAll
<1>5. Answer(w)
  BY DEF PutBit
<1> HIDE DEF w
<1>6. BitsOf(w) = S
  BY <1>1, <1>2, <1>4
<1>7. BitVectorInv' /\ Bits!Becomes(vec.length, S)
  BY <1>1, <1>3, <1>5, <1>6, AnswerIs
<1> QED
  BY <1>2, <1>7 DEF Bits!PutBit, BitNumbers, Bits!Indices, Abstract

(* at:put: of a whole bit vector.                                          *)
LEMMA PutSpanIs ==
  ASSUME BitVectorInv, NEW at \in 0..MaxLength, PutSpan(at)
  PROVE  BitVectorInv' /\ Bits!PutSpan
<1> DEFINE L == vec.length
           A == arg.length
           I == at..(at + A - 1)
           On == {at + i : i \in BitsOf(arg)}
           w == PutAll(vec, I, On)
           S == {i \in BitNumbers(L) : IF i \in I THEN i - at \in BitsOf(arg) ELSE i \in BitsOf(vec)}
<1>1. /\ L \in Nat /\ A \in Nat /\ vec \in VectorsOf(L)
      /\ \A i : i \in BitsOf(vec) <=> i \in BitNumbers(L) /\ At(vec, i)
      /\ \A i \in BitsOf(arg) : i \in BitNumbers(A)
  BY TheVectors DEF LengthsKnown
<1>2. at \in Nat /\ at \in 0..(L - A)
  BY <1>1, MaxLengthAssumption DEF PutSpan
<1>3. Answer(w)
  BY DEF PutSpan
<1>4. w \in VectorsOf(L)
  BY <1>1, PutAllBits
<1>5. BitsOf(w) = {i \in BitNumbers(L) : IF i \in I THEN i \in On ELSE At(vec, i)}
  BY <1>1, BitsOfPutAll
<1>6. \A i \in BitNumbers(L) : i \in On <=> i - at \in BitsOf(arg)
  BY <1>1, <1>2 DEF BitNumbers
<1> HIDE DEF w, On, I, L
<1>7. BitsOf(w) = S
  BY <1>1, <1>5, <1>6
<1>8. BitVectorInv' /\ Bits!Becomes(L, S)
  BY <1>1, <1>3, <1>4, <1>7, AnswerIs
<1> QED
  BY <1>2, <1>8 DEF Bits!PutSpan, BitNumbers, Bits!Indices, Abstract, L, I

(* at:length:                                                              *)
LEMMA CopySpanIs ==
  ASSUME BitVectorInv, NEW at \in 0..MaxLength, NEW n \in 0..MaxLength, CopySpan(at, n)
  PROVE  BitVectorInv' /\ Bits!CopySpan
<1> DEFINE L == vec.length
           On == {i \in BitNumbers(n) : At(vec, at + i)}
           w == Result(n, On)
           S == {i \in BitNumbers(n) : at + i \in BitsOf(vec)}
<1>1. /\ L \in Nat
      /\ \A i : i \in BitsOf(vec) <=> i \in BitNumbers(L) /\ At(vec, i)
  BY TheVectors DEF LengthsKnown
<1>2. /\ at \in Nat /\ n \in Nat /\ at \in 0..L /\ n \in 0..(L - at)
  BY <1>1, MaxLengthAssumption DEF CopySpan
<1>3. Answer(w)
  BY DEF CopySpan
<1>4. w \in VectorsOf(n) /\ BitsOf(w) = {i \in BitNumbers(n) : i \in On}
  BY <1>2, ResultBits
<1>5. \A i \in BitNumbers(n) : at + i \in BitNumbers(L)
  BY <1>1, <1>2 DEF BitNumbers
<1> HIDE DEF w
<1>6. BitsOf(w) = S
  BY <1>1, <1>4, <1>5
<1>7. BitVectorInv' /\ Bits!Becomes(n, S)
  BY <1>2, <1>3, <1>4, <1>6, AnswerIs
<1> QED
  BY <1>2, <1>7 DEF Bits!CopySpan, BitNumbers, Bits!Indices, Abstract

(* combineWith:using:                                                      *)
LEMMA CombineIs ==
  ASSUME BitVectorInv, NEW table \in SUBSET (0..3), Combine(table)
  PROVE  BitVectorInv' /\ Bits!Combine
<1> DEFINE L == vec.length
           index(i) == (IF i \in BitsOf(vec) THEN 2 ELSE 0) + (IF i \in BitsOf(arg) THEN 1 ELSE 0)
           On == {i \in BitNumbers(L) : TableIndex(i) \in table}
           w == Result(L, On)
           S == {i \in BitNumbers(L) : index(i) \in table}
<1>1. /\ L \in Nat /\ arg.length = L
      /\ \A i : i \in BitsOf(vec) <=> i \in BitNumbers(L) /\ At(vec, i)
      /\ \A i : i \in BitsOf(arg) <=> i \in BitNumbers(arg.length) /\ At(arg, i)
  BY TheVectors DEF LengthsKnown, Combine
<1>2. Answer(w)
  BY DEF Combine
<1>3. w \in VectorsOf(L) /\ BitsOf(w) = {i \in BitNumbers(L) : i \in On}
  BY <1>1, ResultBits
<1>4. \A i \in BitNumbers(L) : TableIndex(i) = index(i)
  BY <1>1 DEF TableIndex
<1> HIDE DEF w, index
<1>5. BitsOf(w) = S
  BY <1>3, <1>4
<1>6. BitVectorInv' /\ Bits!Becomes(L, S)
  BY <1>1, <1>2, <1>3, <1>5, AnswerIs
<1> QED
  BY <1>1, <1>6 DEF Bits!Combine, BitNumbers, Bits!Indices, Abstract, index

(* not                                                                     *)
LEMMA NotIs ==
  ASSUME BitVectorInv, Not
  PROVE  BitVectorInv' /\ Bits!Not
<1> DEFINE L == vec.length
           On == {i \in BitNumbers(L) : ~At(vec, i)}
           w == Result(L, On)
           S == BitNumbers(L) \ BitsOf(vec)
<1>1. /\ L \in Nat
      /\ \A i : i \in BitsOf(vec) <=> i \in BitNumbers(L) /\ At(vec, i)
  BY TheVectors DEF LengthsKnown
<1>2. Answer(w)
  BY DEF Not
<1>3. w \in VectorsOf(L) /\ BitsOf(w) = {i \in BitNumbers(L) : i \in On}
  BY <1>1, ResultBits
<1> HIDE DEF w
<1>4. BitsOf(w) = S
  BY <1>1, <1>3
<1>5. BitVectorInv' /\ Bits!Becomes(L, S)
  BY <1>1, <1>2, <1>3, <1>4, AnswerIs
<1> QED
  BY <1>5 DEF Bits!Not, BitNumbers, Bits!Indices, Abstract

(* choose:or: of another vector and the receiver.                          *)
LEMMA ChooseIs ==
  ASSUME BitVectorInv, Choose
  PROVE  BitVectorInv' /\ Bits!Choose
<1> DEFINE L == vec.length
           On == {i \in BitNumbers(L) : IF At(vec, i) THEN At(arg, i) ELSE At(vec, i)}
           w == Result(L, On)
           S == BitsOf(vec) \cap BitsOf(arg)
<1>1. /\ L \in Nat /\ arg.length = L
      /\ \A i : i \in BitsOf(vec) <=> i \in BitNumbers(L) /\ At(vec, i)
      /\ \A i : i \in BitsOf(arg) <=> i \in BitNumbers(arg.length) /\ At(arg, i)
  BY TheVectors DEF LengthsKnown, Choose
<1>2. Answer(w)
  BY DEF Choose
<1>3. w \in VectorsOf(L) /\ BitsOf(w) = {i \in BitNumbers(L) : i \in On}
  BY <1>1, ResultBits
<1> HIDE DEF w
<1>4. BitsOf(w) = S
  BY <1>1, <1>3
<1>5. BitVectorInv' /\ Bits!Becomes(L, S)
  BY <1>1, <1>2, <1>3, <1>4, AnswerIs
<1> QED
  BY <1>1, <1>5 DEF Bits!Choose, Abstract

(* Shifts by k to either side: the bits that are shifted in are false.     *)
LEMMA ShiftIs ==
  ASSUME BitVectorInv, NEW k \in 0..MaxLength, ShiftLeft(k) \/ ShiftRight(k)
  PROVE  BitVectorInv' /\ Bits!Shift
<1> DEFINE L == vec.length
           z == NewVector(L, FALSE)
           S(d) == {i \in BitNumbers(L) : i - d \in BitsOf(vec)}
<1>1. /\ L \in Nat /\ k \in Nat
      /\ \A i : i \in BitsOf(vec) <=> i \in BitNumbers(L) /\ At(vec, i)
  BY TheVectors, MaxLengthAssumption DEF LengthsKnown
<1>2. z \in VectorsOf(L) /\ \A i \in BitNumbers(L) : ~At(z, i)
  BY <1>1, NewVectorBits
<1> HIDE DEF z
<1>3. ASSUME ShiftLeft(k)
      PROVE  BitVectorInv' /\ Bits!Becomes(L, S(k))
  <2> DEFINE I == k..(L - 1)
             On == {i \in I : At(vec, i - k)}
             w == PutAll(z, I, On)
  <2>1. Answer(w)
    BY <1>3 DEF ShiftLeft, z
  <2>2. w \in VectorsOf(L)
    BY <1>1, <1>2, PutAllBits
  <2>3. BitsOf(w) = {i \in BitNumbers(L) : IF i \in I THEN i \in On ELSE At(z, i)}
    BY <1>1, <1>2, BitsOfPutAll
  <2>4. \A i \in BitNumbers(L) : i \in I <=> i - k \in BitNumbers(L)
    BY <1>1 DEF BitNumbers
  <2> HIDE DEF w, I
  <2>5. BitsOf(w) = S(k)
    BY <1>1, <1>2, <2>3, <2>4
  <2> QED
    BY <1>1, <2>1, <2>2, <2>5, AnswerIs
<1>4. ASSUME ShiftRight(k)
      PROVE  BitVectorInv' /\ Bits!Becomes(L, S(-k))
  <2> DEFINE I == 0..(L - k - 1)
             On == {i \in I : At(vec, i + k)}
             w == PutAll(z, I, On)
  <2>1. Answer(w)
    BY <1>4 DEF ShiftRight, z
  <2>2. w \in VectorsOf(L)
    BY <1>1, <1>2, PutAllBits
  <2>3. BitsOf(w) = {i \in BitNumbers(L) : IF i \in I THEN i \in On ELSE At(z, i)}
    BY <1>1, <1>2, BitsOfPutAll
  <2>4. \A i \in BitNumbers(L) : (i \in I <=> i + k \in BitNumbers(L)) /\ i - (-k) = i + k
    BY <1>1 DEF BitNumbers
  <2> HIDE DEF w, I
  <2>5. BitsOf(w) = S(-k)
    BY <1>1, <1>2, <2>3, <2>4
  <2> QED
    BY <1>1, <2>1, <2>2, <2>5, AnswerIs
<1>5. k \in (-MaxLength)..MaxLength /\ -k \in (-MaxLength)..MaxLength
  BY MaxLengthAssumption
<1>6. ASSUME NEW d \in (-MaxLength)..MaxLength, Bits!Becomes(L, S(d)) PROVE Bits!Shift
  BY <1>6 DEF Bits!Shift, BitNumbers, Bits!Indices, Abstract
<1> HIDE DEF S, L
<1> QED
  BY <1>3, <1>4, <1>5, <1>6

(* append: of another bit vector.                                          *)
LEMMA AppendIs ==
  ASSUME BitVectorInv, AppendOther
  PROVE  BitVectorInv' /\ Bits!Append
<1> DEFINE L == vec.length
           A == arg.length
           On == BitsOf(vec) \cup {L + i : i \in BitsOf(arg)}
           w == Result(L + A, On)
           S == BitsOf(vec) \cup {i \in L..(L + A - 1) : i - L \in BitsOf(arg)}
<1>1. /\ L \in Nat /\ A \in Nat
      /\ \A i \in BitsOf(vec) : i \in BitNumbers(L)
      /\ \A i \in BitsOf(arg) : i \in BitNumbers(A)
  BY TheVectors DEF LengthsKnown
<1>2. Answer(w)
  BY DEF AppendOther
<1>3. L + A \in Nat /\ w \in VectorsOf(L + A)
      /\ BitsOf(w) = {i \in BitNumbers(L + A) : i \in On}
  BY <1>1, ResultBits
<1> HIDE DEF w
<1>4. \A i : i \in BitNumbers(L + A) /\ i \in On <=> i \in S
  BY <1>1 DEF BitNumbers
<1> HIDE DEF On, S
<1>5. BitsOf(w) = S
  <2>1. \A i : i \in BitsOf(w) <=> i \in S
    BY <1>3, <1>4
  <2> QED
    BY <2>1 DEF BitsOf, S
<1>6. BitVectorInv' /\ Bits!Becomes(L + A, S)
  BY <1>2, <1>3, <1>5, AnswerIs
<1> QED
  BY <1>6 DEF Bits!Append, Abstract, S

(* resize:filled:                                                          *)
LEMMA ResizeIs ==
  ASSUME BitVectorInv, NEW n \in 0..MaxLength, NEW fill \in BOOLEAN, Resize(n, fill)
  PROVE  BitVectorInv' /\ Bits!Resize
<1> DEFINE L == vec.length
           copied == IF n < L THEN n ELSE L
           z == NewVector(n, fill)
           I == BitNumbers(copied)
           On == {i \in I : At(vec, i)}
           w == PutAll(z, I, On)
           S == {i \in BitNumbers(n) : IF i < L THEN i \in BitsOf(vec) ELSE fill}
<1>1. /\ L \in Nat /\ n \in Nat
      /\ \A i : i \in BitsOf(vec) <=> i \in BitNumbers(L) /\ At(vec, i)
  BY TheVectors, MaxLengthAssumption DEF LengthsKnown
<1>2. z \in VectorsOf(n) /\ \A i \in BitNumbers(n) : At(z, i) <=> fill
  BY <1>1, NewVectorBits
<1>3. Answer(w)
  BY DEF Resize
<1> HIDE DEF z
<1>4. w \in VectorsOf(n)
  BY <1>1, <1>2, PutAllBits
<1>5. BitsOf(w) = {i \in BitNumbers(n) : IF i \in I THEN i \in On ELSE At(z, i)}
  BY <1>1, <1>2, BitsOfPutAll
<1>6. \A i \in BitNumbers(n) : (i \in I <=> i < L) /\ (i \in BitNumbers(L) <=> i < L)
  BY <1>1 DEF BitNumbers
<1> HIDE DEF w, I
<1>7. BitsOf(w) = S
  BY <1>1, <1>2, <1>5, <1>6
<1>8. BitVectorInv' /\ Bits!Becomes(n, S)
  BY <1>1, <1>3, <1>4, <1>7, AnswerIs
<1> QED
  BY <1>8 DEF Bits!Resize, BitNumbers, Bits!Indices, Abstract

(* reverse                                                                 *)
LEMMA ReverseIs ==
  ASSUME BitVectorInv, ReverseBits
  PROVE  BitVectorInv' /\ Bits!Reverse
<1> DEFINE L == vec.length
           On == {L - i - 1 : i \in BitsOf(vec)}
           w == Result(L, On)
           S == {i \in BitNumbers(L) : L - 1 - i \in BitsOf(vec)}
<1>1. L \in Nat /\ \A i \in BitsOf(vec) : i \in BitNumbers(L)
  BY TheVectors DEF LengthsKnown
<1>2. Answer(w)
  BY DEF ReverseBits
<1>3. w \in VectorsOf(L) /\ BitsOf(w) = {i \in BitNumbers(L) : i \in On}
  BY <1>1, ResultBits
<1>4. \A i \in BitNumbers(L) : i \in On <=> L - 1 - i \in BitsOf(vec)
  BY <1>1 DEF BitNumbers
<1> HIDE DEF w, On
<1>5. BitsOf(w) = S
  BY <1>3, <1>4
<1>6. BitVectorInv' /\ Bits!Becomes(L, S)
  BY <1>1, <1>2, <1>3, <1>5, AnswerIs
<1> QED
  BY <1>6 DEF Bits!Reverse, BitNumbers, Bits!Indices, Abstract

(* Sums of two indices, reduced once.                                      *)
LEMMA ModOfSum ==
  ASSUME NEW L \in Nat \ {0}, NEW a \in 0..(L - 1), NEW b \in 0..L
  PROVE  (a + b) % L = IF a + b < L THEN a + b ELSE a + b - L
<1>1. CASE a + b < L
  BY <1>1
<1>2. CASE ~(a + b < L)
  <2> DEFINE r == a + b - L
  <2>1. r \in 0..(L - 1) /\ a + b = L + r
    BY <1>2
  <2> HIDE DEF r
  <2>2. (L + r) % L = r
    BY <2>1
  <2>3. r = a + b - L
    BY DEF r
  <2> QED
    BY <1>2, <2>1, <2>2, <2>3
<1> QED
  BY <1>1, <1>2

(* The bits that a rotation by k moves to i are those k further on.        *)
LEMMA RotateTo ==
  ASSUME NEW L \in Nat \ {0}, NEW k \in 0..L, NEW On \in SUBSET (0..(L - 1)),
         NEW i \in 0..(L - 1)
  PROVE  i \in {(j + k) % L : j \in On} <=> (i + (L - k)) % L \in On
<1> DEFINE to(j) == IF j + k < L THEN j + k ELSE j + k - L
           from == IF i + (L - k) < L THEN i + (L - k) ELSE i + (L - k) - L
<1>1. \A j \in On : (j + k) % L = to(j)
  BY ModOfSum
<1>2. L - k \in 0..L
  OBVIOUS
<1>3. (i + (L - k)) % L = from
  BY <1>2, ModOfSum
<1>4. \A j \in On : i = to(j) <=> j = from
  OBVIOUS
<1> HIDE DEF to, from
<1> QED
  BY <1>1, <1>3, <1>4

(* rotate-left: and rotate-right:                                          *)
LEMMA RotateIs ==
  ASSUME BitVectorInv, NEW k \in 0..MaxLength, NEW left \in BOOLEAN, Rotate(k, left)
  PROVE  BitVectorInv' /\ Bits!Rotate
<1> DEFINE L == vec.length
           S(d) == {i \in BitNumbers(L) : (i + d) % L \in BitsOf(vec)}
<1>1. /\ L \in Nat /\ L <= MaxLength /\ k \in Nat /\ MaxLength \in Nat
      /\ \A i \in BitsOf(vec) : i \in BitNumbers(L)
  BY TheVectors, MaxLengthAssumption DEF LengthsKnown
<1>2. ASSUME NEW d \in 0..MaxLength, Bits!Becomes(L, S(d)) PROVE Bits!Rotate
  BY <1>2 DEF Bits!Rotate, BitNumbers, Bits!Indices, Abstract
<1>3. CASE L = 0
  <2> DEFINE z == NewVector(0, FALSE)
  <2>1. Answer(z)
    BY <1>3 DEF Rotate
  <2>2. z \in VectorsOf(0) /\ z.length = 0
    BY NewVectorBits
  <2> HIDE DEF z
  <2>3. BitNumbers(0) = {}
    BY DEF BitNumbers
  <2>4. BitsOf(z) = S(0)
    BY <1>3, <2>2, <2>3 DEF BitsOf
  <2>5. BitVectorInv' /\ Bits!Becomes(L, S(0))
    <3> HIDE DEF S, L
    <3> QED
      BY <1>1, <1>3, <2>1, <2>2, <2>4, AnswerIs
  <2>6. 0 \in 0..MaxLength
    BY MaxLengthAssumption
  <2> HIDE DEF S, L
  <2> QED
    BY <1>2, <2>5, <2>6
<1>4. CASE L # 0
  <2>1. L \in Nat \ {0} /\ BitNumbers(L) = 0..(L - 1) /\ BitsOf(vec) \in SUBSET (0..(L - 1))
    BY <1>1, <1>4 DEF BitNumbers
  <2> DEFINE m == k % L
             On == {Destination(i, m, left) : i \in BitsOf(vec)}
             w == Result(L, On)
  <2>2. Answer(w)
    BY <1>4 DEF Rotate
  <2>3. w \in VectorsOf(L) /\ BitsOf(w) = {i \in BitNumbers(L) : i \in On}
    BY <1>1, ResultBits
  <2>4. m \in 0..(L - 1)
    BY <1>1, <2>1
  <2> HIDE DEF w, m
  <2>5. CASE left = TRUE
    <3>1. On = {(i + m) % L : i \in BitsOf(vec)}
      BY <2>5 DEF Destination
    <3>2. m \in 0..L /\ L - m \in 0..MaxLength
      BY <1>1, <2>4
    <3> HIDE DEF On, L
    <3>3. \A i \in BitNumbers(L) : i \in On <=> (i + (L - m)) % L \in BitsOf(vec)
      BY <2>1, <3>1, <3>2, RotateTo
    <3>4. BitsOf(w) = S(L - m)
      BY <2>3, <3>3
    <3> HIDE DEF S
    <3>5. BitVectorInv' /\ Bits!Becomes(L, S(L - m))
      BY <1>1, <2>2, <2>3, <3>4, AnswerIs
    <3> QED
      BY <1>2, <3>2, <3>5
  <2>6. CASE left = FALSE
    <3>0. m \in 0..MaxLength /\ L - m \in 0..L /\ L - (L - m) = m
      BY <1>1, <2>4
    <3>1. \A i \in BitsOf(vec) : (i + L - m) % L = (i + (L - m)) % L
      <4>1. \A i \in BitsOf(vec) : i \in Nat
        BY <2>1
      <4>2. \A i \in BitsOf(vec) : i + L - m = i + (L - m)
        BY <1>1, <2>4, <4>1
      <4> QED
        BY <4>2
    <3>2. On = {(i + (L - m)) % L : i \in BitsOf(vec)}
      BY <2>6, <3>1 DEF Destination
    <3> HIDE DEF On, L
    <3>3. \A i \in BitNumbers(L) : i \in On <=> (i + (L - (L - m))) % L \in BitsOf(vec)
      BY <2>1, <3>0, <3>2, RotateTo
    <3>4. BitsOf(w) = S(m)
      BY <2>3, <3>0, <3>3
    <3> HIDE DEF S
    <3>5. BitVectorInv' /\ Bits!Becomes(L, S(m))
      BY <1>1, <2>2, <2>3, <3>4, AnswerIs
    <3> QED
      BY <1>2, <3>0, <3>5
  <2> QED
    BY <2>5, <2>6
<1> QED
  BY <1>3, <1>4

(* Bytes of whole vectors: what a vector of n bytes is made of.            *)
LEMMA WholeBytes ==
  ASSUME NEW n \in Nat
  PROVE  n * ByteWidth \in Nat /\ ByteLength(n * ByteWidth) = n
<1> DEFINE N == n * ByteWidth
<1>1. N \in Nat
  BY ByteWidthAssumption
<1>2. N \div ByteWidth = n /\ N % ByteWidth = 0
  BY ByteWidthAssumption
<1> HIDE DEF N
<1> QED
  BY <1>1, <1>2 DEF ByteLength, N

(* A place in a byte is before the end of L bits if its byte is before the *)
(* last one, or it is before the end of the last one.                      *)
LEMMA PlaceBefore ==
  ASSUME NEW L \in Nat, NEW q \in Nat, NEW r \in InByte
  PROVE  q * ByteWidth + r < L
           <=> (q < L \div ByteWidth) \/ (q = L \div ByteWidth /\ r < L % ByteWidth)
<1> DEFINE d == L \div ByteWidth
           m == L % ByteWidth
<1>1. d \in Nat /\ m \in 0..(ByteWidth - 1) /\ L = d * ByteWidth + m
  BY ByteWidthAssumption
<1> HIDE DEF d, m
<1>2. r \in 0..(ByteWidth - 1) /\ ByteWidth \in Nat
  BY ByteWidthAssumption DEF InByte
<1>3. CASE q < d
  <2>1. q + 1 <= d
    BY <1>1, <1>3
  <2>2. (q + 1) * ByteWidth <= d * ByteWidth
    BY <1>1, <1>2, <2>1
  <2>3. (q + 1) * ByteWidth = q * ByteWidth + ByteWidth /\ q * ByteWidth \in Nat /\ d * ByteWidth \in Nat
    BY <1>1, <1>2
  <2>4. q * ByteWidth + r < L
    BY <1>1, <1>2, <2>2, <2>3
  <2> QED
    BY <1>3, <2>4 DEF d
<1>4. CASE q = d
  <2>1. d * ByteWidth \in Nat
    BY <1>1, <1>2
  <2>2. q * ByteWidth + r < L <=> r < m
    BY <1>1, <1>2, <1>4, <2>1
  <2>3. ~(q < d)
    BY <1>1, <1>4
  <2> QED
    BY <1>4, <2>2, <2>3 DEF d, m
<1>5. CASE d < q
  <2>1. d + 1 <= q
    BY <1>1, <1>5
  <2>2. (d + 1) * ByteWidth <= q * ByteWidth
    BY <1>1, <1>2, <2>1
  <2>3. (d + 1) * ByteWidth = d * ByteWidth + ByteWidth /\ q * ByteWidth \in Nat /\ d * ByteWidth \in Nat
    BY <1>1, <1>2
  <2>4. ~(q * ByteWidth + r < L) /\ ~(q < d) /\ q # d
    BY <1>1, <1>2, <1>5, <2>2, <2>3
  <2> QED
    BY <2>4 DEF d, m
<1> QED
  BY <1>1, <1>3, <1>4, <1>5

(* A vector's bytes in order, the last one masked, are a vector again,     *)
(* longer by what was left of the last byte, which is false.               *)
LEMMA DecodeLEBits ==
  ASSUME BitVectorInv
  PROVE  LET v == FromLEBytes(AsLEBytes(vec))
             n == ByteLength(vec.length) * ByteWidth
         IN n \in Nat /\ vec.length <= n /\ v \in VectorsOf(n) /\ BitsOf(v) = BitsOf(vec)
<1> DEFINE L == vec.length
           B == ByteLength(L)
           n == B * ByteWidth
           le == AsLEBytes(vec)
           v == FromLEBytes(le)
<1>1. /\ L \in Nat /\ vec.bytes \in [ByteNumbers(L) -> SUBSET InByte]
      /\ \A i : i \in BitsOf(vec) <=> i \in BitNumbers(L) /\ At(vec, i)
  BY TheVectors DEF LengthsKnown, VectorsOf
<1>2. B \in Nat
  BY <1>1, ByteWidthAssumption DEF ByteLength
<1>3. n \in Nat /\ ByteLength(n) = B
  BY <1>2, WholeBytes
<1>4. ByteNumbers(L) = 0..(B - 1) /\ ByteNumbers(n) = 0..(B - 1)
  BY <1>3 DEF ByteNumbers
<1>5. le = [i \in 1..B |-> IF i = B /\ L % ByteWidth # 0
                           THEN vec.bytes[i - 1] \cap 0..((L % ByteWidth) - 1)
                           ELSE vec.bytes[i - 1]]
  BY DEF AsLEBytes
<1>6. \A i \in 1..B : i - 1 \in ByteNumbers(L)
  BY <1>2, <1>4
<1>7. \A i \in 1..B : vec.bytes[i - 1] \in SUBSET InByte
  BY <1>1, <1>6
<1>8. \A i \in 1..B : le[i] \in SUBSET InByte
  BY <1>5, <1>7
<1>9. le \in Seq(SUBSET InByte) /\ Len(le) = B
  BY <1>2, <1>5, <1>8
<1> HIDE DEF le, B
<1> DEFINE f == [j \in 0..(B - 1) |-> le[j + 1]]
<1>10. f \in [0..(B - 1) -> SUBSET InByte]
  BY <1>2, <1>8
<1>11. v = [length |-> n, bytes |-> f]
  BY <1>9 DEF FromLEBytes
<1> HIDE DEF n, v
<1>12. v \in VectorsOf(n) /\ v.length = n
  <2> HIDE DEF f
  <2> QED
    BY <1>4, <1>10, <1>11 DEF VectorsOf
<1>13. \A j \in 0..(B - 1) : v.bytes[j] = le[j + 1]
  BY <1>11
<1>14. B = (L \div ByteWidth) + (IF L % ByteWidth # 0 THEN 1 ELSE 0)
       /\ L \div ByteWidth \in Nat /\ L % ByteWidth \in 0..(ByteWidth - 1)
  BY <1>1, ByteWidthAssumption DEF B, ByteLength
<1>15. ASSUME NEW i \in BitNumbers(n)
       PROVE  At(v, i) <=> i \in BitNumbers(L) /\ At(vec, i)
  <2> DEFINE q == i \div ByteWidth
             r == i % ByteWidth
  <2>1. r \in InByte /\ q \in 0..(B - 1) /\ q * ByteWidth + r = i /\ i \in Nat
    BY <1>3, <1>4, BitPlace
  <2>2. (At(v, i) <=> r \in v.bytes[q]) /\ (At(vec, i) <=> r \in vec.bytes[q])
    BY DEF At
  <2> HIDE DEF q, r
  <2>3. q \in Nat /\ q + 1 \in 1..B /\ (q + 1) - 1 = q /\ v.bytes[q] = le[q + 1]
    BY <1>2, <1>13, <2>1
  <2>4. i \in BitNumbers(L)
          <=> (q < L \div ByteWidth) \/ (q = L \div ByteWidth /\ r < L % ByteWidth)
    <3>1. i \in BitNumbers(L) <=> i < L
      BY <1>1, <2>1 DEF BitNumbers
    <3>2. i < L
            <=> (q < L \div ByteWidth) \/ (q = L \div ByteWidth /\ r < L % ByteWidth)
      BY <1>1, <2>1, <2>3, PlaceBefore
    <3> QED
      BY <3>1, <3>2
  <2> HIDE DEF L
  <2>5. CASE q + 1 = B /\ L % ByteWidth # 0
    <3>1. q = L \div ByteWidth
      BY <1>14, <2>3, <2>5
    <3>2. le[q + 1] = vec.bytes[q] \cap 0..((L % ByteWidth) - 1)
      BY <1>5, <2>3, <2>5
    <3>3. r \in 0..((L % ByteWidth) - 1) <=> r < L % ByteWidth
      BY <1>14, <2>1, ByteWidthAssumption DEF InByte
    <3>4. ~(q < L \div ByteWidth)
      BY <1>14, <3>1
    <3> QED
      BY <2>2, <2>3, <2>4, <3>1, <3>2, <3>3, <3>4
  <2>6. CASE ~(q + 1 = B /\ L % ByteWidth # 0)
    <3>1. le[q + 1] = vec.bytes[q]
      BY <1>5, <2>3, <2>6
    <3>2. q < L \div ByteWidth
      BY <1>2, <1>14, <2>3, <2>6
    <3>3. i \in BitNumbers(L)
      BY <2>4, <3>2
    <3>4. At(v, i) <=> At(vec, i)
      BY <2>2, <2>3, <3>1
    <3> QED
      BY <3>3, <3>4
  <2> QED
    BY <2>5, <2>6
<1>16. L <= n
  <2>1. B \in Nat /\ 0 \in InByte
    BY <1>2, ByteWidthAssumption DEF InByte
  <2>2. ~(B < L \div ByteWidth) /\ (B = L \div ByteWidth => L % ByteWidth = 0)
    BY <1>14
  <2>3. ~(B * ByteWidth + 0 < L)
    <3>1. ~(0 < L % ByteWidth) \/ B # L \div ByteWidth
      BY <1>14, <2>2
    <3> QED
      BY <1>1, <2>1, <2>2, <3>1, PlaceBefore
  <2> QED
    BY <1>1, <1>3, <2>3 DEF n
<1>17. BitNumbers(L) \subseteq BitNumbers(n)
  BY <1>1, <1>3, <1>16 DEF BitNumbers
<1>18. BitsOf(v) = BitsOf(vec)
  <2>1. BitsOf(v) = {i \in BitNumbers(n) : At(v, i)}
    BY <1>12 DEF BitsOf
  <2> HIDE DEF L
  <2> QED
    BY <1>1, <1>15, <1>17, <2>1 DEF BitsOf, L
<1> QED
  BY <1>3, <1>12, <1>16, <1>18 DEF n, v, le, B

(* Turning the bytes round and reading them from the other end gives the   *)
(* same vector.                                                            *)
LEMMA DecodeBESame ==
  ASSUME BitVectorInv
  PROVE  FromBEBytes(AsBEBytes(vec), ByteLength(vec.length) * ByteWidth)
           = FromLEBytes(AsLEBytes(vec))
<1> DEFINE B == ByteLength(vec.length)
           n == B * ByteWidth
           le == AsLEBytes(vec)
           be == AsBEBytes(vec)
<1>1. vec.length \in Nat /\ vec.bytes \in [ByteNumbers(vec.length) -> SUBSET InByte]
  BY TheVectors DEF LengthsKnown, VectorsOf
<1>2. B \in Nat
  BY <1>1, ByteWidthAssumption DEF ByteLength
<1>3. n \in Nat /\ ByteNumbers(n) = 0..(B - 1) /\ ByteNumbers(vec.length) = 0..(B - 1)
  BY <1>2, WholeBytes DEF ByteNumbers
<1>4. DOMAIN le = 1..B /\ \A i \in 1..B : le[i] \in SUBSET (vec.bytes[i - 1])
  BY DEF AsLEBytes
<1>5. \A i \in 1..B : vec.bytes[i - 1] \in SUBSET InByte
  <2>1. \A i \in 1..B : i - 1 \in ByteNumbers(vec.length)
    BY <1>2, <1>3
  <2> QED
    BY <1>1, <2>1
<1>6. \A i \in 1..B : le[i] \in SUBSET InByte
  BY <1>4, <1>5
<1>7. le = [i \in 1..B |-> le[i]]
  BY DEF AsLEBytes
<1> HIDE DEF B, le
<1>8. le \in Seq(SUBSET InByte) /\ Len(le) = B
  BY <1>2, <1>4, <1>6, <1>7
<1>9. be = [i \in 1..B |-> le[B - i + 1]]
  BY <1>4, <1>8 DEF AsBEBytes, TurnRound, le
<1> HIDE DEF be
<1>10. Len(be) = B
  BY <1>2, <1>9
<1>11. \A j \in 0..(B - 1) : B - j \in 1..B /\ B - (B - j) + 1 = j + 1 /\ j + 1 \in 1..B /\ ~(j >= B)
  BY <1>2
<1>12. \A j \in 0..(B - 1) : be[B - j] = le[j + 1]
  BY <1>9, <1>11
<1>13. ASSUME NEW j \in 0..(B - 1), NEW b \in InByte PROVE j * ByteWidth + b < n
  <2>1. j \in Nat /\ b \in 0..(ByteWidth - 1) /\ j + 1 <= B /\ ByteWidth \in Nat
    BY <1>2, ByteWidthAssumption DEF InByte
  <2>2. (j + 1) * ByteWidth <= B * ByteWidth
    BY <1>2, <2>1
  <2>3. (j + 1) * ByteWidth = j * ByteWidth + ByteWidth /\ j * ByteWidth \in Nat
    BY <2>1
  <2>4. j * ByteWidth + b < (j + 1) * ByteWidth
    BY <2>1, <2>3
  <2> QED
    BY <1>2, <1>3, <2>1, <2>2, <2>3, <2>4
<1>14. \A j \in 0..(B - 1) : {b \in be[B - j] : j * ByteWidth + b < n} = le[j + 1]
  <2> SUFFICES ASSUME NEW j \in 0..(B - 1)
               PROVE  {b \in be[B - j] : j * ByteWidth + b < n} = le[j + 1]
    OBVIOUS
  <2>1. le[j + 1] \subseteq InByte /\ be[B - j] = le[j + 1]
    BY <1>6, <1>11, <1>12
  <2>2. \A b \in le[j + 1] : j * ByteWidth + b < n
    BY <2>1, <1>13
  <2> HIDE DEF n
  <2> QED
    BY <2>1, <2>2
<1> DEFINE f == [j \in ByteNumbers(n) |->
                   IF j >= Len(be) THEN {} ELSE {b \in be[Len(be) - j] : j * ByteWidth + b < n}]
           g == [j \in 0..(Len(le) - 1) |-> le[j + 1]]
<1>15. f = g
  <2> HIDE DEF n
  <2> QED
    BY <1>3, <1>8, <1>10, <1>11, <1>14
<1>16. FromBEBytes(be, n) = [length |-> n, bytes |-> f]
  BY DEF FromBEBytes
<1>17. FromLEBytes(le) = [length |-> n, bytes |-> g]
  BY <1>8 DEF FromLEBytes
<1> QED
  BY <1>15, <1>16, <1>17 DEF be, le, B

(* Through bytes and back.                                                 *)
LEMMA DecodeIs ==
  ASSUME BitVectorInv, DecodeLE \/ DecodeBE
  PROVE  BitVectorInv' /\ Bits!Decode
<1> DEFINE v == FromLEBytes(AsLEBytes(vec))
           n == ByteLength(vec.length) * ByteWidth
<1>1. n \in Nat /\ vec.length <= n /\ v \in VectorsOf(n) /\ BitsOf(v) = BitsOf(vec)
  BY DecodeLEBits
<1>2. Answer(v)
  BY DecodeBESame DEF DecodeLE, DecodeBE
<1> HIDE DEF v, n
<1>3. BitVectorInv' /\ Bits!Becomes(n, BitsOf(vec)) /\ n <= MaxLength
  BY <1>1, <1>2, AnswerIs
<1>4. n \in vec.length..MaxLength
  BY <1>1, <1>3, TheVectors DEF LengthsKnown
<1> QED
  BY <1>3, <1>4 DEF Bits!Decode, Abstract

(* The program keeps a vector to combine others with.                      *)
LEMMA KeepIs == ASSUME BitVectorInv, Keep PROVE BitVectorInv' /\ Bits!Keep
BY DEF BitVectorInv, Keep, Bits!Keep, Abstract

(* Every operation on packed bytes is the operation on the sequence of     *)
(* bits, or leaves it as it is.                                            *)
LEMMA BitStep ==
  ASSUME BitVectorInv, [BitVectorNext]_bitVectorVars
  PROVE  BitVectorInv' /\ [Bits!Next]_<<Abstract(vec), Abstract(arg)>>
<1>1. ASSUME NEW n \in 0..MaxLength, NEW b \in BOOLEAN,
             NewFilled(n, b) \/ PutBit(n, b) \/ Resize(n, b) \/ Rotate(n, b)
      PROVE  BitVectorInv' /\ Bits!Next
  BY <1>1, NewFilledIs, PutBitIs, ResizeIs, RotateIs DEF Bits!Next
<1>2. ASSUME NEW n \in 0..MaxLength, PutSpan(n) \/ ShiftLeft(n) \/ ShiftRight(n)
      PROVE  BitVectorInv' /\ Bits!Next
  BY <1>2, PutSpanIs, ShiftIs DEF Bits!Next
<1>3. ASSUME NEW n \in 0..MaxLength, NEW k \in 0..MaxLength, CopySpan(n, k)
      PROVE  BitVectorInv' /\ Bits!Next
  BY <1>3, CopySpanIs DEF Bits!Next
<1>4. ASSUME NEW table \in SUBSET (0..3), Combine(table)
      PROVE  BitVectorInv' /\ Bits!Next
  BY <1>4, CombineIs DEF Bits!Next
<1>5. ASSUME Not \/ Choose \/ AppendOther \/ ReverseBits \/ DecodeLE \/ DecodeBE \/ Keep
      PROVE  BitVectorInv' /\ Bits!Next
  BY <1>5, NotIs, ChooseIs, AppendIs, ReverseIs, DecodeIs, KeepIs DEF Bits!Next
<1>6. ASSUME UNCHANGED bitVectorVars
      PROVE  BitVectorInv' /\ UNCHANGED <<Abstract(vec), Abstract(arg)>>
  BY <1>6 DEF bitVectorVars, BitVectorInv, Abstract
<1>7. CASE BitVectorNext
  BY <1>1, <1>2, <1>3, <1>4, <1>5, <1>7 DEF BitVectorNext
<1> QED
  BY <1>6, <1>7

(* BitVector.c:1398: whatever is done to bit vectors, what they show are   *)
(* the sequences of bits that the operations promise, and never what is    *)
(* left of the last byte, for bytes of any width and vectors of any        *)
(* length.                                                                 *)
THEOREM BitVectorsRefineSequences == BitVectorSpec => BitVectorsAreSequences
<1>1. BitVectorInit => BitVectorInv /\ Bits!Init
  <2> DEFINE z == NewVector(0, FALSE)
  <2>1. z \in VectorsOf(0) /\ z.length = 0
    BY NewVectorBits
  <2>2. BitVectorInit => vec = z /\ arg = z
    BY DEF BitVectorInit
  <2> HIDE DEF z
  <2>3. BitNumbers(0) = {}
    BY DEF BitNumbers
  <2>4. BitsOf(z) = {}
    BY <2>1, <2>3 DEF BitsOf
  <2>5. 0 \in 0..MaxLength
    BY MaxLengthAssumption
  <2> QED
    BY <2>1, <2>2, <2>4, <2>5 DEF BitVectorInv, Bits!Init, Bits!BitRecord, Abstract
<1>2. BitVectorInv /\ [BitVectorNext]_bitVectorVars
        => BitVectorInv' /\ [Bits!Next]_<<Abstract(vec), Abstract(arg)>>
  BY BitStep
<1> QED
  BY <1>1, <1>2, PTL DEF BitVectorSpec, BitVectorsAreSequences, Bits!Spec
-----------------------------------------------------------------------------
(* DateTime.c and gmtime_r: days.  The day of a date, counted from January *)
(* 1 of the year 0.                                                        *)
DayOf(y, m, d) == YearBegins(y) + MonthBegins(y, m) + d - 1
YearLength(y) == IF LeapYear(y) THEN 366 ELSE 365
March(z) == 365 * z + (z \div 4) - (z \div 100) + (z \div 400)

(* Years follow each other without a gap.                                  *)
LEMMA YearsFollow ==
  ASSUME NEW y \in Int, NEW z \in Int, z = y + 1
  PROVE  YearBegins(z) = YearBegins(y) + YearLength(y)
BY SMT DEF YearBegins, YearLength, LeapYear

(* A later year begins after the whole of an earlier one.                  *)
LEMMA YearsGrow ==
  ASSUME NEW y \in Int, NEW z \in Int, y < z
  PROVE  YearBegins(y) + YearLength(y) <= YearBegins(z)
<1>1. YearBegins(y + 1) <= YearBegins(z)
  BY DEF YearBegins
<1> QED
  BY <1>1, YearsFollow, SMT

(* The sizes of months.                                                    *)
LEMMA MonthSizes ==
  \A y \in Int, m \in 1..12 :
    MonthBegins(y, m) \in Nat /\ DaysInMonth(y, m) \in 28..31 /\ DaysInMonth(y, m) \in Int
<1> TAKE y \in Int, m \in 1..12
<1>1. m \in {1, 2, 3, 4, 5, 6, 7, 8, 9, 10, 11, 12}
  OBVIOUS
<1> QED
  BY <1>1 DEF MonthBegins, DaysInMonth

(* So do months in a year.                                                 *)
LEMMA MonthsFollow ==
  ASSUME NEW y \in Int, NEW m \in 1..12
  PROVE  /\ MonthBegins(y, 1) = 0
         /\ \A n \in 1..12 : m < n => MonthBegins(y, m) + DaysInMonth(y, m) <= MonthBegins(y, n)
         /\ \A n \in 1..12 : n = m + 1 => MonthBegins(y, m) + DaysInMonth(y, m) = MonthBegins(y, n)
         /\ m = 12 => MonthBegins(y, m) + DaysInMonth(y, m) = YearLength(y)
         /\ MonthBegins(y, m) + DaysInMonth(y, m) <= YearLength(y)
<1>1. m \in {1, 2, 3, 4, 5, 6, 7, 8, 9, 10, 11, 12}
  OBVIOUS
<1> QED
  BY <1>1 DEF MonthBegins, DaysInMonth, YearLength

(* The days before a year that begins in March.                            *)
LEMMA DaysOfEra ==
  ASSUME NEW z \in Int, NEW e \in Int, e = z \div 400
  PROVE  e * 146097 + (z - e * 400) * 365 + ((z - e * 400) \div 4) - ((z - e * 400) \div 100) = March(z)
<1>1. PICK r \in 0..399 : z = 400 * e + r
  OBVIOUS
<1>2. z - e * 400 = r
  BY <1>1
<1>3. e * 146097 + r * 365 + (r \div 4) - (r \div 100) = 365 * z + (z \div 4) - (z \div 100) + (z \div 400)
  BY <1>1
<1> QED
  BY <1>2, <1>3 DEF March

(* Years that begin in January and in March, and the leap day between.     *)
LEMMA MarchOfYear ==
  ASSUME NEW y \in Int
  PROVE  /\ YearBegins(y) = March(y - 1) + 366
         /\ March(y) = YearBegins(y) - 1 + (IF LeapYear(y) THEN 1 ELSE 0)
         /\ March(y) \in Int /\ March(y - 1) \in Int
BY DEF YearBegins, March, LeapYear

(* The days of the months before one, in a year that begins in March.      *)
LEMMA MonthFormula ==
  ASSUME NEW y \in Int, NEW m \in 1..12
  PROVE  /\ m <= 2 => (153 * (m + 9) + 2) \div 5 = MonthBegins(y, m) + 306
         /\ m > 2 => (153 * (m + -3) + 2) \div 5
                      = MonthBegins(y, m) - 59 - (IF LeapYear(y) THEN 1 ELSE 0)
<1>1. m \in {1, 2, 3, 4, 5, 6, 7, 8, 9, 10, 11, 12}
  OBVIOUS
<1> QED
  BY <1>1, SMT DEF MonthBegins

(* days_from_civil counts the days gmtime_r does, in every year.           *)
LEMMA CivilDays ==
  ASSUME NEW y \in Int, NEW m \in 1..12, NEW d \in Int
  PROVE  DaysFromCivil(y, m, d) = DayOf(y, m, d) - YearBegins(1970)
<1> DEFINE z == IF m <= 2 THEN y - 1 ELSE y
           doy == ((153 * (m + (IF m > 2 THEN -3 ELSE 9)) + 2) \div 5) + d - 1
           e == z \div 400
<1>1. z \in Int /\ e \in Int
  OBVIOUS
<1> DEFINE era == CQuotient(IF z >= 0 THEN z ELSE z - 399, 400)
<1>2. era = e
  <2> HIDE DEF z
  <2> QED
    BY <1>1, SMT DEF CQuotient
<1>3. DaysFromCivil(y, m, d)
        = e * 146097 + (z - e * 400) * 365 + ((z - e * 400) \div 4) - ((z - e * 400) \div 100) + doy - 719468
  <2>1. DaysFromCivil(y, m, d)
          = era * 146097 + (z - era * 400) * 365 + ((z - era * 400) \div 4) - ((z - era * 400) \div 100) + doy - 719468
    BY SMT DEF DaysFromCivil
  <2> HIDE DEF era, z, doy, e
  <2> QED
    BY <1>2, <2>1, SMT
<1>4. e * 146097 + (z - e * 400) * 365 + ((z - e * 400) \div 4) - ((z - e * 400) \div 100) = March(z)
  <2> HIDE DEF z
  <2> QED
    BY <1>1, DaysOfEra, SMT
<1>5. DaysFromCivil(y, m, d) = March(z) + doy - 719468
  BY <1>3, <1>4, SMT
<1>6. YearBegins(1970) = 719528
  BY SMT DEF YearBegins
<1>7. MonthBegins(y, m) \in Int /\ YearBegins(y) \in Int
  <2>1. MonthBegins(y, m) \in Nat
    BY MonthSizes
  <2>2. YearBegins(y) \in Int
    BY SMT DEF YearBegins
  <2> QED
    BY <2>1, <2>2
<1>10. /\ YearBegins(y) = March(y - 1) + 366
       /\ March(y) = YearBegins(y) - 1 + (IF LeapYear(y) THEN 1 ELSE 0)
       /\ March(y) \in Int /\ March(y - 1) \in Int
  BY MarchOfYear
<1>8. CASE m <= 2
  <2>1. March(z) = YearBegins(y) - 366 /\ doy = MonthBegins(y, m) + 306 + d - 1
    BY <1>8, <1>7, <1>10, MonthFormula, SMT
  <2> HIDE DEF doy, z
  <2> QED
    BY <1>5, <1>6, <1>7, <2>1, SMT DEF DayOf
<1>9. CASE m > 2
  <2> DEFINE leap == IF LeapYear(y) THEN 1 ELSE 0
  <2>1. March(z) = YearBegins(y) - 1 + leap /\ doy = MonthBegins(y, m) - 59 - leap + d - 1
    BY <1>9, <1>7, <1>10, MonthFormula, SMT
  <2>2. leap \in Int
    OBVIOUS
  <2> HIDE DEF doy, z, leap
  <2> QED
    BY <1>5, <1>6, <1>7, <2>1, <2>2, SMT DEF DayOf
<1> QED
  BY <1>8, <1>9

-----------------------------------------------------------------------------
(* gmtime_r: the year, the month and the time of a day.                    *)

(* A set of natural numbers has a least one.                               *)
LEMMA LeastOf ==
  ASSUME NEW T, T \subseteq Nat, T # {}
  PROVE  \E x \in T : \A y \in T : x <= y
<1> DEFINE R == OpToRel(<, Nat)
<1>1. \E x \in T : \A y \in T : ~ (<<y, x>> \in R)
  <2>1. IsWellFoundedOn(R, Nat)
    BY NatLessThanWellFounded
  <2> HIDE DEF R
  <2> QED
    BY <2>1, WFMin, Zenon
<1>2. \A x, y \in Nat : <<y, x>> \in R <=> y < x
  BY DEF OpToRel
<1> HIDE DEF R
<1>3. PICK x \in T : \A y \in T : ~ (<<y, x>> \in R)
  BY <1>1
<1>4. \A y \in T : ~(y < x)
  BY <1>2, <1>3, Zenon
<1> QED
  BY <1>4, SMT

(* A set of integers that is bounded above and is not empty has a maximum. *)
LEMMA MaxOfBounded ==
  ASSUME NEW a \in Int, NEW b \in Int, NEW S \in SUBSET (a..b), S # {}
  PROVE  Max(S) \in S /\ \A y \in S : y <= Max(S)
<1> DEFINE T == {n \in Nat : b - n \in S}
<1>1. T # {}
  <2>1. PICK y \in S : TRUE
    OBVIOUS
  <2>2. b - y \in Nat /\ b - (b - y) = y
    BY <2>1
  <2> QED
    BY <2>1, <2>2
<1>2. PICK n \in T : \A k \in T : n <= k
  <2>1. T \subseteq Nat
    OBVIOUS
  <2> HIDE DEF T
  <2> QED
    BY <1>1, <2>1, LeastOf
<1>3. b - n \in S /\ \A y \in S : y <= b - n
  <2>1. ASSUME NEW y \in S PROVE y <= b - n
    <3>1. y \in a..b
      OBVIOUS
    <3>2. b - y \in Nat /\ b - (b - y) = y
      BY <3>1
    <3>3. n <= b - y
      BY <1>2, <3>2
    <3>4. n \in Nat
      BY <1>2
    <3> QED
      BY <3>1, <3>3, <3>4
  <2> QED
    BY <2>1, <1>2
<1> QED
  BY <1>3 DEF Max

(* The year a day is in is near the quotient that gmtime_r begins with.    *)
LEMMA YearIsNear ==
  ASSUME NEW day \in Int, NEW guess \in Int, guess = day \div 366,
         NEW size \in Nat, size \in {guess, 0 - guess},
         NEW margin \in Int, margin = (size \div 365) + 2
  PROVE  /\ YearBegins(guess - margin) <= day
         /\ YearBegins(guess + margin + 1) > day
         /\ margin > 0
<1>1. 366 * guess <= day /\ day < 366 * guess + 366
  BY SMT
<1>2. CASE guess >= 0
  <2>1. 365 * margin > guess + 365 /\ margin > 0
    BY <1>2, SMT
  <2> DEFINE low == guess - margin
             high == guess + margin + 1
  <2>2. YearBegins(low) <= 366 * guess
    BY <1>2, <2>1, SMT DEF YearBegins
  <2>3. YearBegins(high) >= 365 * high
    BY <1>2, <2>1, SMT DEF YearBegins
  <2>4. YearBegins(low) \in Int /\ YearBegins(high) \in Int
    BY SMT DEF YearBegins
  <2> QED
    BY <1>1, <2>1, <2>2, <2>3, <2>4, SMT
<1>3. CASE guess < 0
  <2>1. 365 * margin > 365 - guess /\ margin > 0
    BY <1>3, SMT
  <2> DEFINE low == guess - margin
             high == guess + margin + 1
  <2>2. YearBegins(low) <= 366 * guess
    BY <1>3, <2>1, SMT DEF YearBegins
  <2>3. YearBegins(high) >= 366 * guess + 366
    BY <1>3, <2>1, SMT DEF YearBegins
  <2>4. YearBegins(low) \in Int /\ YearBegins(high) \in Int
    BY SMT DEF YearBegins
  <2> QED
    BY <1>1, <2>1, <2>2, <2>3, <2>4, SMT
<1> QED
  BY <1>2, <1>3

(* The year in which a day is.                                             *)
YearOf(day) ==
  LET guess == day \div 366
      margin == (Max({guess, 0 - guess}) \div 365) + 2
  IN Max({y \in guess - margin..guess + margin : YearBegins(y) <= day})
MonthOf(day) == Max({m \in 1..12 : YearBegins(YearOf(day)) + MonthBegins(YearOf(day), m) <= day})

(* gmtime_r finds the year a day is in.                                    *)
LEMMA YearOfDay ==
  ASSUME NEW day \in Int
  PROVE  /\ YearOf(day) \in Int
         /\ YearBegins(YearOf(day)) <= day
         /\ day < YearBegins(YearOf(day)) + YearLength(YearOf(day))
<1> DEFINE guess == day \div 366
           size == Max({guess, 0 - guess})
           margin == (size \div 365) + 2
           S == {y \in guess - margin..guess + margin : YearBegins(y) <= day}
<1>1. guess \in Int
  OBVIOUS
<1>2. size = (IF guess >= 0 THEN guess ELSE 0 - guess)
  <2> DEFINE a == IF guess >= 0 THEN 0 - guess ELSE guess
             b == IF guess >= 0 THEN guess ELSE 0 - guess
             P == {guess, 0 - guess}
  <2> HIDE DEF guess
  <2>1. a \in Int /\ b \in Int /\ P # {} /\ P \in SUBSET (a..b)
    BY <1>1
  <2>2. Max(P) \in P /\ \A y \in P : y <= Max(P)
    BY <2>1, MaxOfBounded
  <2> QED
    BY <1>1, <2>2
<1>3. margin \in Int
  BY <1>1, <1>2
<1>4. /\ YearBegins(guess - margin) <= day
      /\ YearBegins(guess + margin + 1) > day
      /\ margin > 0
  <2>1. size \in Nat /\ size \in {guess, 0 - guess}
    BY <1>1, <1>2
  <2>2. guess = day \div 366 /\ margin = (size \div 365) + 2
    OBVIOUS
  <2> HIDE DEF guess, margin, size
  <2> QED
    BY <1>1, <1>3, <2>1, <2>2, YearIsNear
<1> HIDE DEF guess, margin
<1>5. Max(S) \in S /\ \A y \in S : y <= Max(S)
  <2>1. guess - margin \in S
    BY <1>1, <1>3, <1>4
  <2>2. S \in SUBSET (guess - margin..guess + margin)
    OBVIOUS
  <2>3. guess - margin \in Int /\ guess + margin \in Int
    BY <1>1, <1>3
  <2> HIDE DEF S
  <2> QED
    BY <2>1, <2>2, <2>3, MaxOfBounded
<1>6. YearOf(day) = Max(S)
  BY DEF YearOf, guess, margin
<1> DEFINE year == Max(S)
<1>7. year \in guess - margin..guess + margin /\ YearBegins(year) <= day
  BY <1>5
<1>8. year \in Int /\ year + 1 \in Int
  BY <1>1, <1>3, <1>7
<1>9. YearBegins(year + 1) > day
  <2>1. CASE year = guess + margin
    BY <1>4, <2>1
  <2>2. CASE year # guess + margin
    <3>1. year + 1 \in guess - margin..guess + margin
      BY <1>1, <1>3, <1>7, <2>2
    <3>2. YearBegins(year + 1) \in Int
      BY <1>8, SMT DEF YearBegins
    <3>3. ~(year + 1 \in S)
      BY <1>5, <1>8
    <3> QED
      BY <3>1, <3>2, <3>3
  <2> QED
    BY <2>1, <2>2
<1>10. YearBegins(year + 1) = YearBegins(year) + YearLength(year)
  BY <1>8, YearsFollow
<1> QED
  BY <1>6, <1>7, <1>8, <1>9, <1>10

(* The month, and the day of the month.                                    *)
LEMMA MonthOfDay ==
  ASSUME NEW day \in Int
  PROVE  /\ MonthOf(day) \in 1..12
         /\ day - YearBegins(YearOf(day)) - MonthBegins(YearOf(day), MonthOf(day)) + 1
              \in 1..DaysInMonth(YearOf(day), MonthOf(day))
<1> DEFINE year == YearOf(day)
           S == {m \in 1..12 : YearBegins(year) + MonthBegins(year, m) <= day}
           month == Max(S)
<1>1. /\ year \in Int /\ YearBegins(year) <= day
      /\ day < YearBegins(year) + YearLength(year)
  BY YearOfDay
<1> HIDE DEF year
<1>2. YearBegins(year) \in Int
  BY <1>1, SMT DEF YearBegins
<1>3. \A m \in 1..12 : MonthBegins(year, m) \in Nat /\ DaysInMonth(year, m) \in 28..31
  BY <1>1, MonthSizes
<1>4. month \in S /\ \A y \in S : y <= month
  <2>1. 1 \in S
    BY <1>1, <1>2, MonthsFollow
  <2>2. S \in SUBSET (1..12)
    OBVIOUS
  <2> HIDE DEF S
  <2> QED
    BY <2>1, <2>2, MaxOfBounded
<1>5. month \in 1..12 /\ YearBegins(year) + MonthBegins(year, month) <= day
  BY <1>4
<1>6. day < YearBegins(year) + MonthBegins(year, month) + DaysInMonth(year, month)
  <2>1. CASE month = 12
    <3>1. MonthBegins(year, 12) + DaysInMonth(year, 12) = YearLength(year)
      BY <1>1, MonthsFollow
    <3> QED
      BY <1>1, <1>2, <1>3, <1>5, <2>1, <3>1
  <2>2. CASE month # 12
    <3> DEFINE n == month + 1
    <3>1. n \in 1..12
      BY <1>5, <2>2
    <3>2. MonthBegins(year, month) + DaysInMonth(year, month) = MonthBegins(year, n)
      BY <1>1, <1>5, <3>1, MonthsFollow
    <3>3. n \notin S
      BY <1>4, <1>5
    <3>4. ~(YearBegins(year) + MonthBegins(year, n) <= day)
      BY <3>1, <3>3
    <3> HIDE DEF n
    <3> QED
      BY <1>2, <1>3, <1>5, <3>1, <3>2, <3>4
  <2> QED
    BY <2>1, <2>2
<1>7. MonthOf(day) = month
  BY DEF MonthOf, year
<1> HIDE DEF month
<1>8. day - YearBegins(year) - MonthBegins(year, month) + 1 \in 1..DaysInMonth(year, month)
  BY <1>2, <1>3, <1>5, <1>6
<1> QED
  BY <1>5, <1>7, <1>8 DEF year

-----------------------------------------------------------------------------
(* DateTime.c: the fields of a moment and the moment of the fields.        *)
DateTimes ==
  [year : Int, month : Int, day : Int, hour : Int, minute : Int, second : Int,
   microsecond : 0..TicksPerSecond - 1]
OnClock(d) ==
  /\ d.hour \in 0..HoursPerDay - 1 /\ d.minute \in 0..MinutesPerHour - 1
  /\ d.second \in 0..SecondsPerMinute - 1
OnCalendar(d) == d.month \in 1..12 /\ d.day \in 1..DaysInMonth(d.year, d.month)
Proper(d) == d \in DateTimes /\ OnCalendar(d) /\ OnClock(d)
TimeOf(d) == (d.hour * MinutesPerHour + d.minute) * SecondsPerMinute + d.second
Clock == 0..SecondsPerDay - 1

(* The units of the clock are whole and not nothing.                       *)
LEMMA ClockUnits ==
  /\ HoursPerDay \in Nat \ {0} /\ MinutesPerHour \in Nat \ {0} /\ SecondsPerMinute \in Nat \ {0}
  /\ HoursPerDay <= 60 /\ MinutesPerHour <= 60 /\ SecondsPerMinute <= 60
  /\ TicksPerSecond \in Nat \ {0} /\ SecondsPerDay \in Nat \ {0}
<1>1. HoursPerDay \in 1..60 /\ MinutesPerHour \in 1..60 /\ SecondsPerMinute \in 1..60
  BY FieldAssumption
<1>2. FractionDigits \in {1, 2, 3, 4, 5, 6}
  BY FieldAssumption
<1>3. TicksPerSecond \in Nat \ {0}
  BY <1>2, SMT DEF TicksPerSecond, TenTo
<1>4. \A a, b \in Nat \ {0} : a * b \in Nat \ {0}
  OBVIOUS
<1>5. HoursPerDay * MinutesPerHour \in Nat \ {0}
  BY <1>1, <1>4
<1>6. SecondsPerDay \in Nat \ {0}
  BY <1>1, <1>4, <1>5 DEF SecondsPerDay
<1> QED
  BY <1>1, <1>3, <1>6

(* What division leaves, and what it finds again.                          *)
LEMMA Divided ==
  ASSUME NEW a \in Int, NEW b \in Nat \ {0}
  PROVE  a \div b \in Int /\ a % b \in 0..b - 1 /\ a = b * (a \div b) + (a % b)
OBVIOUS

(* A quotient and a remainder are found again.                             *)
LEMMA Quotient ==
  ASSUME NEW q \in Int, NEW b \in Nat \ {0}, NEW r \in 0..b - 1
  PROVE  (b * q + r) \div b = q /\ (b * q + r) % b = r
OBVIOUS

(* What is short of n units of b is one of n times b.                      *)
LEMMA InUnits ==
  ASSUME NEW q \in Nat, NEW n \in Nat, NEW b \in Nat, NEW r \in 0..b - 1, q < n
  PROVE  b * q + r \in 0..n * b - 1
<1>1. b * q + b <= n * b
  <2>1. b * (q + 1) <= b * n
    OBVIOUS
  <2> QED
    BY <2>1
<1>2. b * q \in Nat /\ n * b \in Nat
  OBVIOUS
<1> QED
  BY <1>1, <1>2

(* The time of a day goes to hours, minutes and seconds and back.          *)
LEMMA TimeOfDay ==
  ASSUME NEW time \in Clock
  PROVE  LET h == time \div (MinutesPerHour * SecondsPerMinute)
             m == (time \div SecondsPerMinute) % MinutesPerHour
             s == time % SecondsPerMinute
         IN /\ h \in 0..HoursPerDay - 1 /\ m \in 0..MinutesPerHour - 1
            /\ s \in 0..SecondsPerMinute - 1
            /\ (h * MinutesPerHour + m) * SecondsPerMinute + s = time
<1> DEFINE H == HoursPerDay
           M == MinutesPerHour
           S == SecondsPerMinute
           q == time \div S
           s == time % S
           h == q \div M
           m == q % M
<1>1. H \in Nat \ {0} /\ M \in Nat \ {0} /\ S \in Nat \ {0}
  BY ClockUnits
<1>2. time \in Int /\ time >= 0 /\ time < H * M * S
  <2>1. H * M * S \in Nat
    BY <1>1
  <2> QED
    BY <2>1, SMT DEF Clock, SecondsPerDay
<1> HIDE DEF H, M, S
<1>3. q \in Int /\ s \in 0..S - 1 /\ time = S * q + s
  BY <1>1, <1>2, Divided
<1>4. h \in Int /\ m \in 0..M - 1 /\ q = M * h + m
  <2> HIDE DEF q
  <2> QED
    BY <1>1, <1>3, Divided
<1> HIDE DEF q, s, h, m
<1>5. time = (M * S) * h + (S * m + s)
  <2>1. S * (M * h + m) = (M * S) * h + S * m
    BY <1>1, <1>3, <1>4, SMT
  <2> QED
    BY <1>1, <1>3, <1>4, <2>1, SMT
<1>6. S * m + s \in 0..(M * S) - 1
  BY <1>1, <1>3, <1>4, InUnits
<1>7. M * S \in Nat \ {0}
  BY <1>1
<1>8. time \div (M * S) = h
  <2> DEFINE b == M * S
             r == S * m + s
  <2> HIDE DEF b, r
  <2>1. time = b * h + r /\ r \in 0..b - 1 /\ b \in Nat \ {0}
    BY <1>5, <1>6, <1>7 DEF b, r
  <2>2. time \div b = h
    BY <2>1, <1>4, Quotient
  <2> QED
    BY <2>2 DEF b
<1>9. h >= 0
  <2>1. ASSUME h < 0 PROVE FALSE
    <3>1. (M * S) * h <= (M * S) * (-1)
      BY <1>4, <1>7, <2>1, SMT
    <3> QED
      BY <1>2, <1>4, <1>5, <1>6, <1>7, <3>1, SMT
  <2> QED
    BY <2>1, <1>4
<1>10. h < H
  <2>1. ASSUME h >= H PROVE FALSE
    <3>1. (M * S) * h >= (M * S) * H
      BY <1>1, <1>4, <1>7, <2>1, SMT
    <3>2. (M * S) * H = H * M * S
      BY <1>1, SMT
    <3> QED
      BY <1>1, <1>2, <1>4, <1>5, <1>6, <1>7, <3>1, <3>2, SMT
  <2> QED
    BY <2>1, <1>1, <1>4
<1>11. (h * M + m) * S + s = time
  BY <1>1, <1>3, <1>4, SMT
<1>12. h \in 0..H - 1
  BY <1>1, <1>4, <1>9, <1>10
<1> QED
  BY <1>3, <1>4, <1>8, <1>11, <1>12 DEF H, M, S, q, s, m

(* The fields gmtime_r makes are proper, and count back to the second.     *)
LEMMA GmtimeExact ==
  ASSUME NEW s \in Int
  PROVE  /\ Gmtime(s) \in DateTimes /\ Gmtime(s).microsecond = 0
         /\ OnCalendar(Gmtime(s)) /\ OnClock(Gmtime(s))
         /\ WholeSeconds(Gmtime(s)) = s
<1> DEFINE day == (s \div SecondsPerDay) + YearBegins(1970)
           time == s % SecondsPerDay
           y == YearOf(day)
           m == MonthOf(day)
           d == day - YearBegins(y) - MonthBegins(y, m) + 1
           h == time \div (MinutesPerHour * SecondsPerMinute)
           mi == (time \div SecondsPerMinute) % MinutesPerHour
           se == time % SecondsPerMinute
           g == Gmtime(s)
<1>1. g = UTCDateTime(y, m, d, h, mi, se, 0)
  BY DEF Gmtime, YearOf, MonthOf
<1>2. YearBegins(1970) = 719528
  BY SMT DEF YearBegins
<1>3. s \div SecondsPerDay \in Int /\ time \in Clock /\ s = SecondsPerDay * (s \div SecondsPerDay) + time
  BY ClockUnits, Divided DEF Clock
<1>4. day \in Int
  BY <1>2, <1>3, SMT
<1> HIDE DEF day
<1>5. y \in Int /\ YearBegins(y) \in Int
  <2>1. y \in Int
    BY <1>4, YearOfDay
  <2> HIDE DEF y
  <2> QED
    BY <2>1, SMT DEF YearBegins
<1>6. m \in 1..12 /\ d \in 1..DaysInMonth(y, m)
  BY <1>4, MonthOfDay
<1>7. MonthBegins(y, m) \in Nat /\ DaysInMonth(y, m) \in 28..31
  <2> HIDE DEF y, m
  <2> QED
    BY <1>5, <1>6, MonthSizes
<1>8. /\ h \in 0..HoursPerDay - 1 /\ mi \in 0..MinutesPerHour - 1 /\ se \in 0..SecondsPerMinute - 1
      /\ (h * MinutesPerHour + mi) * SecondsPerMinute + se = time
  BY <1>3, TimeOfDay
<1>9. d \in Int /\ DaysFromCivil(y, m, d) = day - YearBegins(1970)
  <2>1. d \in Int
    BY <1>6, <1>7
  <2>2. DayOf(y, m, d) = day
    <3>1. d = day - YearBegins(y) - MonthBegins(y, m) + 1
      OBVIOUS
    <3> HIDE DEF y, m, d
    <3> QED
      BY <1>4, <1>5, <1>7, <3>1, SMT DEF DayOf
  <2> HIDE DEF y, m, d
  <2> QED
    BY <1>5, <1>6, <2>1, <2>2, CivilDays
<1>10. day - YearBegins(1970) = s \div SecondsPerDay
  BY <1>2, <1>3, SMT DEF day
<1>11. WholeSeconds(g) = s
  <2>1. WholeSeconds(g) = DaysFromCivil(y, m, d) * SecondsPerDay
                            + (h * MinutesPerHour + mi) * SecondsPerMinute + se
    <3> HIDE DEF y, m, d, h, mi, se
    <3> QED
      BY <1>1 DEF WholeSeconds, UTCDateTime, g
  <2>2. DaysFromCivil(y, m, d) = s \div SecondsPerDay
    BY <1>9, <1>10
  <2> DEFINE whole == s \div SecondsPerDay
             units == (h * MinutesPerHour + mi) * SecondsPerMinute
  <2>3. units \in Int /\ se \in Int /\ whole \in Int /\ time \in Int /\ SecondsPerDay \in Int
    <3>1. HoursPerDay \in Int /\ MinutesPerHour \in Int /\ SecondsPerMinute \in Int /\ SecondsPerDay \in Int
      BY ClockUnits
    <3>2. h \in Int /\ mi \in Int /\ se \in Int /\ time \in Int
      BY <1>3, <1>8, <3>1 DEF Clock
    <3> HIDE DEF h, mi, se, time
    <3> QED
      BY <1>3, <3>1, <3>2
  <2>4. units + se = time
    BY <1>8
  <2>5. s = SecondsPerDay * whole + time
    BY <1>3
  <2>6. WholeSeconds(g) = whole * SecondsPerDay + units + se
    BY <2>1, <2>2
  <2> HIDE DEF whole, units, se, time
  <2> QED
    BY <2>3, <2>4, <2>5, <2>6, SMT
<1>12. /\ g \in DateTimes /\ g.microsecond = 0 /\ OnCalendar(g) /\ OnClock(g)
  <2>1. d \in Int /\ m \in Int /\ h \in Int /\ mi \in Int /\ se \in Int /\ 0 \in 0..TicksPerSecond - 1
    BY <1>6, <1>8, <1>9, ClockUnits
  <2> HIDE DEF y, m, d, h, mi, se
  <2> QED
    BY <1>1, <1>5, <1>6, <1>8, <2>1 DEF UTCDateTime, DateTimes, OnCalendar, OnClock, g
<1> QED
  BY <1>11, <1>12

(* A double holds whole numbers, and small ones exactly.                   *)
LEMMA DoubleHolds ==
  ASSUME NEW n \in Int
  PROVE  /\ AsDouble(n) \in Int
         /\ n \in 0 - ExactDoubles..ExactDoubles => AsDouble(n) = n
BY DEF AsDouble

(* The instant of the date-time of an instant is the instant, when its     *)
(* seconds are a double.                                                   *)
LEMMA FromInstantExact ==
  ASSUME NEW i \in Int
  PROVE  Proper(FromInstant(i)) /\ (HeldExactly(i) => AsInstant(FromInstant(i)) = i)
<1> DEFINE s == i \div TicksPerSecond
           g == Gmtime(AsDouble(s))
           f == [g EXCEPT !.microsecond = i - s * TicksPerSecond]
<1>1. TicksPerSecond \in Nat \ {0}
  BY ClockUnits
<1>2. s \in Int /\ i - s * TicksPerSecond \in 0..TicksPerSecond - 1
  <2>1. s \in Int /\ i % TicksPerSecond \in 0..TicksPerSecond - 1 /\ i = TicksPerSecond * s + (i % TicksPerSecond)
    BY <1>1, Divided
  <2> HIDE DEF s
  <2> QED
    BY <1>1, <2>1, SMT
<1>3. FromInstant(i) = f
  BY DEF FromInstant
<1>a. AsDouble(s) \in Int /\ (HeldExactly(i) => AsDouble(s) = s)
  BY <1>2, DoubleHolds DEF HeldExactly
<1> HIDE DEF s
<1>4. g \in DateTimes /\ OnCalendar(g) /\ OnClock(g) /\ WholeSeconds(g) = AsDouble(s)
  BY <1>a, GmtimeExact
<1> HIDE DEF g
<1>5. f \in DateTimes
  BY <1>2, <1>4 DEF DateTimes
<1>6. /\ f.year = g.year /\ f.month = g.month /\ f.day = g.day /\ f.hour = g.hour
      /\ f.minute = g.minute /\ f.second = g.second /\ f.microsecond = i - s * TicksPerSecond
  BY <1>4 DEF DateTimes
<1>7. Proper(f)
  BY <1>4, <1>5, <1>6 DEF Proper, OnCalendar, OnClock
<1>8. WholeSeconds(f) = AsDouble(s)
  BY <1>4, <1>6 DEF WholeSeconds
<1>9. HeldExactly(i) => AsInstant(f) = i
  <2> SUFFICES ASSUME HeldExactly(i) PROVE AsInstant(f) = i
    OBVIOUS
  <2>1. WholeSeconds(f) = s
    BY <1>a, <1>8
  <2> QED
    BY <1>1, <1>2, <1>6, <2>1, SMT DEF AsInstant
<1> QED
  BY <1>3, <1>7, <1>9

-----------------------------------------------------------------------------
(* The order of date-times is that of instants.                            *)
SameMinute(d, e) ==
  d.year = e.year /\ d.month = e.month /\ d.day = e.day /\ d.hour = e.hour /\ d.minute = e.minute
SoonerDay(d, e) ==
  \/ d.year < e.year
  \/ d.year = e.year /\ d.month < e.month
  \/ d.year = e.year /\ d.month = e.month /\ d.day < e.day
SameDay(d, e) == d.year = e.year /\ d.month = e.month /\ d.day = e.day
SoonerMinute(d, e) ==
  \/ SoonerDay(d, e)
  \/ SameDay(d, e) /\ d.hour < e.hour
  \/ SameDay(d, e) /\ d.hour = e.hour /\ d.minute < e.minute
Sooner(d, e) ==
  \/ SoonerMinute(d, e)
  \/ SameMinute(d, e) /\ d.second < e.second
  \/ SameMinute(d, e) /\ d.second = e.second /\ d.microsecond < e.microsecond

(* Prefixes are those of their elements.                                   *)
LEMMA PrefixesAgree ==
  ASSUME NEW f \in Seq(Int), NEW g \in Seq(Int), NEW k \in Nat, k <= Len(f), k <= Len(g),
         \A j \in 1..k : f[j] = g[j]
  PROVE  SubSeq(f, 1, k) = SubSeq(g, 1, k)
<1>1. SubSeq(f, 1, k) = [j \in 1..k |-> f[j]] /\ SubSeq(g, 1, k) = [j \in 1..k |-> g[j]]
  OBVIOUS
<1> QED
  BY <1>1

(* A sooner date-time is earlier, field by field.                          *)
LEMMA SoonerIsEarlier ==
  ASSUME NEW d \in DateTimes, NEW e \in DateTimes, Sooner(d, e)
  PROVE  Earlier(Fields(d), Fields(e))
<1> DEFINE f == Fields(d)
           g == Fields(e)
<1>1. /\ d.year \in Int /\ d.month \in Int /\ d.day \in Int /\ d.hour \in Int /\ d.minute \in Int
      /\ d.second \in Int /\ d.microsecond \in Int
      /\ e.year \in Int /\ e.month \in Int /\ e.day \in Int /\ e.hour \in Int /\ e.minute \in Int
      /\ e.second \in Int /\ e.microsecond \in Int
  BY ClockUnits DEF DateTimes
<1>2. f \in Seq(Int) /\ g \in Seq(Int) /\ Len(f) = 7 /\ Len(g) = 7 /\ DOMAIN f = 1..7
  BY <1>1 DEF Fields
<1>3. /\ f[1] = d.year /\ f[2] = d.month /\ f[3] = d.day /\ f[4] = d.hour /\ f[5] = d.minute
      /\ f[6] = d.second /\ f[7] = d.microsecond
      /\ g[1] = e.year /\ g[2] = e.month /\ g[3] = e.day /\ g[4] = e.hour /\ g[5] = e.minute
      /\ g[6] = e.second /\ g[7] = e.microsecond
  BY DEF Fields
<1> HIDE DEF f, g
<1>4. \E k \in 1..7 : f[k] < g[k] /\ \A j \in 1..7 : j < k => f[j] = g[j]
  <2>1. CASE d.year < e.year
    BY <1>1, <1>3, <2>1
  <2>2. CASE d.year = e.year /\ d.month < e.month
    <3>1. f[2] < g[2] /\ \A j \in 1..7 : j < 2 => f[j] = g[j]
      BY <1>3, <2>2
    <3> QED
      BY <3>1
  <2>3. CASE d.year = e.year /\ d.month = e.month /\ d.day < e.day
    <3>1. f[3] < g[3] /\ \A j \in 1..7 : j < 3 => j \in {1, 2}
      BY <1>3, <2>3
    <3> QED
      BY <1>3, <2>3, <3>1
  <2>4. CASE SameDay(d, e) /\ d.hour < e.hour
    <3>1. f[4] < g[4] /\ \A j \in 1..7 : j < 4 => j \in {1, 2, 3}
      BY <1>3, <2>4
    <3> QED
      BY <1>3, <2>4, <3>1 DEF SameDay
  <2>5. CASE SameDay(d, e) /\ d.hour = e.hour /\ d.minute < e.minute
    <3>1. f[5] < g[5] /\ \A j \in 1..7 : j < 5 => j \in {1, 2, 3, 4}
      BY <1>3, <2>5
    <3> QED
      BY <1>3, <2>5, <3>1 DEF SameDay
  <2>6. CASE SameMinute(d, e) /\ d.second < e.second
    <3>1. f[6] < g[6] /\ \A j \in 1..7 : j < 6 => j \in {1, 2, 3, 4, 5}
      BY <1>3, <2>6
    <3> QED
      BY <1>3, <2>6, <3>1 DEF SameMinute
  <2>7. CASE SameMinute(d, e) /\ d.second = e.second /\ d.microsecond < e.microsecond
    <3>1. f[7] < g[7] /\ \A j \in 1..7 : j < 7 => j \in {1, 2, 3, 4, 5, 6}
      BY <1>3, <2>7
    <3> QED
      BY <1>3, <2>7, <3>1 DEF SameMinute
  <2> QED
    BY <2>1, <2>2, <2>3, <2>4, <2>5, <2>6, <2>7 DEF Sooner, SoonerMinute, SoonerDay
<1>5. PICK k \in 1..7 : f[k] < g[k] /\ \A j \in 1..7 : j < k => f[j] = g[j]
  BY <1>4
<1>6. SubSeq(f, 1, k - 1) = SubSeq(g, 1, k - 1)
  BY <1>2, <1>5, PrefixesAgree
<1> QED
  BY <1>2, <1>5, <1>6 DEF Earlier, f, g

(* Of two date-times one is the sooner, or they are the same.              *)
LEMMA SoonerOrLater ==
  ASSUME NEW d \in DateTimes, NEW e \in DateTimes
  PROVE  Sooner(d, e) \/ d = e \/ Sooner(e, d)
<1>1. /\ d.year \in Int /\ d.month \in Int /\ d.day \in Int /\ d.hour \in Int /\ d.minute \in Int
      /\ d.second \in Int /\ d.microsecond \in Int
      /\ e.year \in Int /\ e.month \in Int /\ e.day \in Int /\ e.hour \in Int /\ e.minute \in Int
      /\ e.second \in Int /\ e.microsecond \in Int
  BY ClockUnits DEF DateTimes
<1>2. CASE SameMinute(d, e) /\ d.second = e.second /\ d.microsecond = e.microsecond
  BY <1>2 DEF SameMinute, DateTimes
<1>3. CASE ~(SameMinute(d, e) /\ d.second = e.second /\ d.microsecond = e.microsecond)
  BY <1>1, <1>3, SMT DEF SameMinute, Sooner, SoonerMinute, SoonerDay, SameDay
<1> QED
  BY <1>2, <1>3

(* The day of a date-time.                                                 *)
DayOfDate(d) == DayOf(d.year, d.month, d.day)

(* A sooner day has fewer days before it.                                  *)
LEMMA SoonerDayIsLess ==
  ASSUME NEW d \in DateTimes, NEW e \in DateTimes, OnCalendar(d), OnCalendar(e), SoonerDay(d, e)
  PROVE  DayOfDate(d) < DayOfDate(e)
<1>1. /\ d.year \in Int /\ d.month \in 1..12 /\ d.day \in 1..DaysInMonth(d.year, d.month)
      /\ e.year \in Int /\ e.month \in 1..12 /\ e.day \in 1..DaysInMonth(e.year, e.month)
  BY DEF DateTimes, OnCalendar
<1>2. /\ DaysInMonth(d.year, d.month) \in Int /\ DaysInMonth(e.year, e.month) \in Int
      /\ MonthBegins(d.year, d.month) \in Nat /\ MonthBegins(e.year, e.month) \in Nat
  BY <1>1, MonthSizes
<1>3. YearBegins(d.year) \in Int /\ YearBegins(e.year) \in Int
  BY <1>1, SMT DEF YearBegins
<1>4. d.day \in Int /\ e.day \in Int /\ d.day <= DaysInMonth(d.year, d.month) /\ e.day >= 1
  BY <1>1, <1>2
<1>5. CASE d.year < e.year
  <2>1. YearBegins(d.year) + YearLength(d.year) <= YearBegins(e.year)
    BY <1>1, <1>5, YearsGrow
  <2>2. MonthBegins(d.year, d.month) + DaysInMonth(d.year, d.month) <= YearLength(d.year)
    BY <1>1, MonthsFollow
  <2>3. YearLength(d.year) \in Int
    BY DEF YearLength
  <2> QED
    BY <1>2, <1>3, <1>4, <2>1, <2>2, <2>3, SMT DEF DayOfDate, DayOf
<1>6. CASE d.year = e.year /\ d.month < e.month
  <2>1. MonthBegins(d.year, d.month) + DaysInMonth(d.year, d.month) <= MonthBegins(e.year, e.month)
    BY <1>1, <1>6, MonthsFollow
  <2> QED
    BY <1>2, <1>3, <1>4, <1>6, <2>1, SMT DEF DayOfDate, DayOf
<1>7. CASE d.year = e.year /\ d.month = e.month /\ d.day < e.day
  BY <1>2, <1>3, <1>4, <1>7, SMT DEF DayOfDate, DayOf
<1> QED
  BY <1>5, <1>6, <1>7 DEF SoonerDay

(* Of two mixed numbers the one whose whole is less is less.               *)
LEMMA WholesCount ==
  ASSUME NEW a \in Int, NEW b \in Int, NEW u \in Nat, NEW s \in Int, NEW t \in Int,
         s < u, t >= 0, a < b
  PROVE  a * u + s < b * u + t
<1>1. a * u + u <= b * u
  <2>1. (a + 1) * u <= b * u
    OBVIOUS
  <2> QED
    BY <2>1
<1>2. a * u \in Int /\ b * u \in Int
  OBVIOUS
<1> QED
  BY <1>1, <1>2

(* The seconds of a date are those of its days and of its time.            *)
LEMMA SecondsOfDate ==
  ASSUME NEW d \in DateTimes, OnCalendar(d), OnClock(d)
  PROVE  /\ WholeSeconds(d) = (DayOfDate(d) - 719528) * SecondsPerDay + TimeOf(d)
         /\ DayOfDate(d) \in Int /\ TimeOf(d) \in Clock /\ WholeSeconds(d) \in Int
<1>1. /\ d.year \in Int /\ d.month \in 1..12 /\ d.day \in 1..DaysInMonth(d.year, d.month)
      /\ d.day \in Int /\ d.hour \in Int /\ d.minute \in Int /\ d.second \in Int
  BY DEF DateTimes, OnCalendar
<1>2. /\ d.hour \in Nat /\ d.hour < HoursPerDay /\ d.minute \in 0..MinutesPerHour - 1
      /\ d.second \in 0..SecondsPerMinute - 1
      /\ HoursPerDay \in Nat /\ MinutesPerHour \in Nat /\ SecondsPerMinute \in Nat /\ SecondsPerDay \in Nat
  BY ClockUnits DEF OnClock
<1> DEFINE H == HoursPerDay
           M == MinutesPerHour
           S == SecondsPerMinute
           hours == M * d.hour + d.minute
<1>3. hours \in 0..H * M - 1
  BY <1>2, InUnits
<1>4. hours \in Nat /\ H * M \in Nat /\ hours < H * M
  <2>1. H * M \in Nat
    BY <1>2
  <2> HIDE DEF hours
  <2> QED
    BY <1>3, <2>1
<1>5. S * hours + d.second \in 0..(H * M) * S - 1
  <2> DEFINE n == H * M
  <2>1. n \in Nat /\ hours < n
    BY <1>4
  <2> HIDE DEF n, hours
  <2>2. S * hours + d.second \in 0..n * S - 1
    BY <1>2, <1>4, <2>1, InUnits
  <2> QED
    BY <2>2 DEF n
<1>6. TimeOf(d) = S * hours + d.second
  BY <1>1, <1>2, SMT DEF TimeOf
<1>7. TimeOf(d) \in Clock
  BY <1>5, <1>6 DEF Clock, SecondsPerDay
<1>8. DaysFromCivil(d.year, d.month, d.day) = DayOfDate(d) - 719528
  <2>1. YearBegins(1970) = 719528
    BY SMT DEF YearBegins
  <2>2. DaysFromCivil(d.year, d.month, d.day) = DayOf(d.year, d.month, d.day) - YearBegins(1970)
    BY <1>1, CivilDays
  <2> QED
    BY <2>1, <2>2, SMT DEF DayOfDate
<1>9. DayOfDate(d) \in Int
  <2>1. YearBegins(d.year) \in Int
    BY <1>1, SMT DEF YearBegins
  <2>2. MonthBegins(d.year, d.month) \in Nat
    BY <1>1, MonthSizes
  <2> QED
    BY <1>1, <2>1, <2>2, SMT DEF DayOfDate, DayOf
<1>10. (d.hour * M + d.minute) * S \in Int /\ TimeOf(d) \in Int
  BY <1>1, <1>2, SMT DEF TimeOf
<1>11. WholeSeconds(d) = (DayOfDate(d) - 719528) * SecondsPerDay + TimeOf(d)
  <2> DEFINE units == (d.hour * M + d.minute) * S
  <2>1. WholeSeconds(d) = (DayOfDate(d) - 719528) * SecondsPerDay + units + d.second
    BY <1>8, SMT DEF WholeSeconds
  <2>2. TimeOf(d) = units + d.second
    BY DEF TimeOf
  <2>3. units \in Int
    BY <1>10
  <2> HIDE DEF units
  <2> QED
    BY <1>1, <1>2, <1>9, <2>1, <2>2, <2>3, SMT
<1>12. WholeSeconds(d) \in Int
  BY <1>2, <1>9, <1>10, <1>11, SMT
<1> QED
  BY <1>7, <1>9, <1>11, <1>12

(* Of two proper date-times the sooner is the earlier instant.             *)
LEMMA SoonerIsLess ==
  ASSUME NEW d, Proper(d), NEW e, Proper(e), Sooner(d, e)
  PROVE  AsInstant(d) < AsInstant(e)
<1> DEFINE a == DayOfDate(d)
           b == DayOfDate(e)
           D == SecondsPerDay
           S == SecondsPerMinute
           T == TicksPerSecond
<1>1. d \in DateTimes /\ e \in DateTimes /\ OnCalendar(d) /\ OnCalendar(e) /\ OnClock(d) /\ OnClock(e)
  BY DEF Proper
<1>2. /\ WholeSeconds(d) = (a - 719528) * D + TimeOf(d) /\ WholeSeconds(e) = (b - 719528) * D + TimeOf(e)
      /\ a \in Int /\ b \in Int /\ TimeOf(d) \in Clock /\ TimeOf(e) \in Clock
      /\ WholeSeconds(d) \in Int /\ WholeSeconds(e) \in Int
  BY <1>1, SecondsOfDate
<1>3. D \in Nat \ {0} /\ S \in Nat \ {0} /\ T \in Nat \ {0} /\ MinutesPerHour \in Nat \ {0}
  BY ClockUnits
<1>4. /\ d.microsecond \in 0..T - 1 /\ e.microsecond \in 0..T - 1
      /\ d.second \in Int /\ e.second \in Int /\ d.minute \in Int /\ e.minute \in Int
      /\ d.hour \in Int /\ e.hour \in Int
  BY <1>1 DEF DateTimes
<1>5. /\ TimeOf(d) \in Int /\ TimeOf(e) \in Int /\ TimeOf(d) < D /\ TimeOf(e) >= 0
      /\ d.microsecond \in Int /\ e.microsecond \in Int /\ d.microsecond < T /\ e.microsecond >= 0
  BY <1>2, <1>3, <1>4 DEF Clock
<1>6. /\ d.second < S /\ e.second >= 0 /\ d.minute < MinutesPerHour /\ e.minute >= 0
  BY <1>1, <1>3 DEF OnClock
<1> HIDE DEF a, b, D, S, T
<1>7. ASSUME WholeSeconds(d) < WholeSeconds(e) PROVE AsInstant(d) < AsInstant(e)
  BY <1>2, <1>3, <1>5, <1>7, WholesCount DEF AsInstant, T
<1>8. ASSUME SameDay(d, e), TimeOf(d) < TimeOf(e) PROVE WholeSeconds(d) < WholeSeconds(e)
  <2>1. a = b
    BY <1>8 DEF SameDay, DayOfDate, a, b
  <2>2. (a - 719528) * D \in Int
    BY <1>2, <1>3
  <2> QED
    BY <1>2, <1>5, <1>8, <2>1, <2>2
<1>9. CASE SoonerDay(d, e)
  <2>1. a < b
    BY <1>1, <1>9, SoonerDayIsLess DEF a, b
  <2>2. a - 719528 \in Int /\ b - 719528 \in Int /\ a - 719528 < b - 719528 /\ D \in Nat
    BY <1>2, <1>3, <2>1
  <2>3. (a - 719528) * D + TimeOf(d) < (b - 719528) * D + TimeOf(e)
    BY <1>5, <2>2, WholesCount
  <2> QED
    BY <1>2, <1>7, <2>3
<1>10. CASE SameDay(d, e) /\ d.hour < e.hour
  <2>1. d.hour * MinutesPerHour + d.minute < e.hour * MinutesPerHour + e.minute
    BY <1>3, <1>4, <1>6, <1>10, WholesCount
  <2>2. d.hour * MinutesPerHour + d.minute \in Int /\ e.hour * MinutesPerHour + e.minute \in Int
    BY <1>3, <1>4
  <2>3. TimeOf(d) < TimeOf(e)
    BY <1>3, <1>4, <1>6, <2>1, <2>2, WholesCount DEF TimeOf, S
  <2> QED
    BY <1>7, <1>8, <1>10, <2>3
<1>11. CASE SameDay(d, e) /\ d.hour = e.hour /\ d.minute < e.minute
  <2>1. d.hour * MinutesPerHour + d.minute < e.hour * MinutesPerHour + e.minute
    BY <1>3, <1>4, <1>11
  <2>2. d.hour * MinutesPerHour + d.minute \in Int /\ e.hour * MinutesPerHour + e.minute \in Int
    BY <1>3, <1>4
  <2>3. TimeOf(d) < TimeOf(e)
    BY <1>3, <1>4, <1>6, <2>1, <2>2, WholesCount DEF TimeOf, S
  <2> QED
    BY <1>7, <1>8, <1>11, <2>3
<1>12. ASSUME SameMinute(d, e) PROVE SameDay(d, e) /\ TimeOf(d) - d.second = TimeOf(e) - e.second
  <2> DEFINE u == (d.hour * MinutesPerHour + d.minute) * S
  <2>1. u \in Int
    BY <1>3, <1>4
  <2>2. TimeOf(d) = u + d.second /\ TimeOf(e) = u + e.second
    BY <1>12 DEF SameMinute, TimeOf, S
  <2> HIDE DEF u
  <2> QED
    BY <1>4, <1>12, <2>1, <2>2 DEF SameMinute, SameDay
<1>13. CASE SameMinute(d, e) /\ d.second < e.second
  BY <1>4, <1>5, <1>7, <1>8, <1>12, <1>13
<1>14. CASE SameMinute(d, e) /\ d.second = e.second /\ d.microsecond < e.microsecond
  <2>1. WholeSeconds(d) = WholeSeconds(e)
    <3>1. a = b
      BY <1>12, <1>14 DEF SameDay, DayOfDate, a, b
    <3>2. TimeOf(d) = TimeOf(e)
      BY <1>4, <1>5, <1>12, <1>14
    <3> QED
      BY <1>2, <3>1, <3>2
  <2>2. WholeSeconds(d) * T \in Int
    BY <1>2, <1>3
  <2> QED
    BY <1>5, <1>14, <2>1, <2>2 DEF AsInstant, T
<1> QED
  BY <1>9, <1>10, <1>11, <1>13, <1>14 DEF Sooner, SoonerMinute

(* A proper date-time has an instant.                                      *)
LEMMA InstantOfProper == ASSUME NEW d, Proper(d) PROVE AsInstant(d) \in Int
<1>1. WholeSeconds(d) \in Int /\ TicksPerSecond \in Nat /\ d.microsecond \in Int
  BY SecondsOfDate, ClockUnits DEF Proper, DateTimes
<1> QED
  BY <1>1, SMT DEF AsInstant

(* The order of instants is that of proper date-times.                     *)
LEMMA LessIsSooner ==
  ASSUME NEW d, Proper(d), NEW e, Proper(e)
  PROVE  /\ AsInstant(d) < AsInstant(e) => Sooner(d, e)
         /\ AsInstant(d) = AsInstant(e) => d = e
<1>1. Sooner(d, e) \/ d = e \/ Sooner(e, d)
  BY SoonerOrLater DEF Proper
<1>2. AsInstant(d) \in Int /\ AsInstant(e) \in Int
  BY InstantOfProper
<1>3. Sooner(d, e) => AsInstant(d) < AsInstant(e)
  BY SoonerIsLess
<1>4. Sooner(e, d) => AsInstant(e) < AsInstant(d)
  BY SoonerIsLess
<1> QED
  BY <1>1, <1>2, <1>3, <1>4

(* A leap second is later than its minute and no later than the next.      *)
LEMMA LeapSecond ==
  ASSUME NEW d \in DateTimes, OnCalendar(d), d.hour \in 0..HoursPerDay - 1,
         d.minute \in 0..MinutesPerHour - 1, d.second = SecondsPerMinute,
         NEW e, Proper(e), AsInstant(d) <= AsInstant(e)
  PROVE  Sooner(d, e) /\ AsInstant(d) \in Int
<1> DEFINE c == [d EXCEPT !.second = SecondsPerMinute - 1]
           T == TicksPerSecond
<1>1. SecondsPerMinute \in Nat \ {0} /\ MinutesPerHour \in Nat /\ HoursPerDay \in Nat /\ SecondsPerDay \in Nat /\ T \in Nat \ {0}
  BY ClockUnits
<1>2. c \in DateTimes
  BY <1>1 DEF DateTimes
<1>3. /\ c.year = d.year /\ c.month = d.month /\ c.day = d.day /\ c.hour = d.hour
      /\ c.minute = d.minute /\ c.second = SecondsPerMinute - 1 /\ c.microsecond = d.microsecond
  BY DEF DateTimes
<1>13. c.year \in Int /\ c.month \in Int /\ c.day \in Int /\ c.hour \in Int /\ c.minute \in Int
  BY <1>2 DEF DateTimes
<1> HIDE DEF c
<1>4. Proper(c)
  BY <1>1, <1>2, <1>3 DEF Proper, OnCalendar, OnClock
<1>5. /\ d.hour \in Int /\ d.minute \in Int /\ d.microsecond \in 0..T - 1
      /\ e.second \in 0..SecondsPerMinute - 1 /\ e.microsecond \in 0..T - 1
  BY DEF DateTimes, Proper, OnClock
<1>6. WholeSeconds(c) \in Int /\ AsInstant(c) \in Int /\ AsInstant(e) \in Int
  BY <1>4, SecondsOfDate, InstantOfProper DEF Proper
<1>7. WholeSeconds(d) = WholeSeconds(c) + 1
  <2> DEFINE days == DaysFromCivil(d.year, d.month, d.day) * SecondsPerDay
             units == (d.hour * MinutesPerHour + d.minute) * SecondsPerMinute
  <2>1. WholeSeconds(d) = days + units + SecondsPerMinute
    BY DEF WholeSeconds
  <2>2. WholeSeconds(c) = days + units + (SecondsPerMinute - 1)
    BY <1>3 DEF WholeSeconds
  <2>3. days \in Int /\ units \in Int
    <3>1. DaysFromCivil(d.year, d.month, d.day) \in Int
      <4>1. c.year \in Int /\ c.month \in 1..12 /\ c.day \in Int /\ OnCalendar(c)
        BY <1>2, <1>4 DEF Proper, OnCalendar, DateTimes
      <4>2. DaysFromCivil(c.year, c.month, c.day) = DayOfDate(c) - YearBegins(1970)
        BY <4>1, CivilDays DEF DayOfDate
      <4>3. YearBegins(1970) \in Int
        BY SMT DEF YearBegins
      <4>4. DayOfDate(c) \in Int
        BY <1>4, SecondsOfDate DEF Proper
      <4> QED
        BY <1>3, <4>2, <4>3, <4>4
    <3> QED
      BY <1>1, <1>5, <3>1
  <2> HIDE DEF days, units
  <2> QED
    BY <1>1, <2>1, <2>2, <2>3
<1>8. AsInstant(d) = AsInstant(c) + T
  <2>1. AsInstant(c) = WholeSeconds(c) * T + d.microsecond
    BY <1>3 DEF AsInstant
  <2>2. AsInstant(d) = (WholeSeconds(c) + 1) * T + d.microsecond
    BY <1>7 DEF AsInstant
  <2>3. WholeSeconds(c) * T \in Int /\ (WholeSeconds(c) + 1) * T = WholeSeconds(c) * T + T
    BY <1>1, <1>6
  <2> HIDE DEF T
  <2> QED
    BY <1>1, <1>5, <2>1, <2>2, <2>3
<1>9. Sooner(c, e)
  <2>1. AsInstant(c) < AsInstant(e)
    BY <1>1, <1>6, <1>8
  <2> QED
    BY <1>4, <2>1, LessIsSooner
<1>12. AsInstant(d) \in Int
  BY <1>1, <1>6, <1>8
<1>10. CASE SoonerMinute(c, e)
  <2>1. SoonerMinute(d, e)
    BY <1>3, <1>10, Zenon DEF SoonerMinute, SoonerDay, SameDay
  <2> QED
    BY <2>1, <1>12 DEF Sooner
<1>11. ASSUME SameMinute(c, e) PROVE FALSE
  <2>1. SecondsPerMinute - 1 <= e.second
    BY <1>9, <1>3, <1>1, <1>5, <1>11, <1>13 DEF Sooner, SoonerMinute, SoonerDay, SameDay, SameMinute
  <2>2. e.second = SecondsPerMinute - 1
    BY <2>1, <1>1, <1>5
  <2>3. WholeSeconds(e) = WholeSeconds(c)
    BY <2>2, <1>3, <1>11 DEF SameMinute, WholeSeconds
  <2>4. WholeSeconds(c) * T \in Int
    BY <1>1, <1>6
  <2>5. AsInstant(e) - AsInstant(c) = e.microsecond - d.microsecond
    BY <2>3, <2>4, <1>3, <1>5 DEF AsInstant
  <2>6. e.microsecond - d.microsecond < T
    BY <1>1, <1>5
  <2> HIDE DEF T
  <2> QED
    BY <1>1, <1>6, <1>8, <1>5, <2>5, <2>6
<1> QED
  BY <1>9, <1>10, <1>11, <1>12 DEF Sooner

(* What passes for a date is on the calendar, its second may be a leap     *)
(* second, and it has an instant.                                          *)
LEMMA DateHasInstant ==
  ASSUME NEW d \in DateTimes, IsDate(d)
  PROVE  /\ OnCalendar(d) /\ d.hour \in 0..HoursPerDay - 1 /\ d.minute \in 0..MinutesPerHour - 1
         /\ Proper(d) \/ d.second = SecondsPerMinute
         /\ AsInstant(d) \in Int
<1>1. /\ OnCalendar(d) /\ d.hour \in 0..HoursPerDay - 1 /\ d.minute \in 0..MinutesPerHour - 1
      /\ d.second \in 0..SecondsPerMinute
  <2>1. d.day \in 1..DaysInMonth(d.year, d.month)
    BY SMT DEF IsDate
  <2>2. /\ d.month \in 1..12 /\ d.hour \in 0..HoursPerDay - 1 /\ d.minute \in 0..MinutesPerHour - 1
        /\ d.second \in 0..SecondsPerMinute
    <3>1. PICK low, high : InRange(d, low, high)
      BY SMT DEF IsDate
    <3> QED
      BY <3>1, Zenon DEF InRange
  <2> QED
    BY <2>1, <2>2 DEF OnCalendar
<1>2. d.second = SecondsPerMinute \/ d.second \in 0..SecondsPerMinute - 1
  BY <1>1, ClockUnits
<1>3. Proper(d) \/ d.second = SecondsPerMinute
  BY <1>1, <1>2 DEF Proper, OnClock
<1>4. AsInstant(d) \in Int
  <2>1. d.year \in Int /\ d.month \in 1..12 /\ d.day \in Int /\ d.hour \in Int /\ d.minute \in Int
        /\ d.second \in Int /\ d.microsecond \in Int
    BY <1>1, ClockUnits DEF OnCalendar, DateTimes
  <2>2. DaysFromCivil(d.year, d.month, d.day) \in Int
    <3>1. DaysFromCivil(d.year, d.month, d.day) = DayOf(d.year, d.month, d.day) - YearBegins(1970)
      BY <2>1, CivilDays
    <3>2. YearBegins(1970) \in Int /\ YearBegins(d.year) \in Int
      BY <2>1, SMT DEF YearBegins
    <3>3. MonthBegins(d.year, d.month) \in Nat
      BY <2>1, MonthSizes
    <3> QED
      BY <2>1, <3>1, <3>2, <3>3, SMT DEF DayOf
  <2>3. WholeSeconds(d) \in Int
    BY <2>1, <2>2, ClockUnits, SMT DEF WholeSeconds
  <2> QED
    BY <2>1, <2>3, ClockUnits, SMT DEF AsInstant
<1> QED
  BY <1>1, <1>3, <1>4

(* CalendarExact, of any instant and any date-time.                        *)
LEMMA ExactOfAny ==
  ASSUME instant \in Int, dateTime \in DateTimes
  PROVE  CalendarExact
<1> DEFINE d == dateTime
           back == FromInstant(AsInstant(d))
           now == FromInstant(instant)
<1>1. Proper(now) /\ (HeldExactly(instant) => AsInstant(now) = instant)
  BY FromInstantExact
<1>2. ASSUME IsDate(d)
      PROVE  /\ OnCalendar(d) /\ d.hour \in 0..HoursPerDay - 1 /\ d.minute \in 0..MinutesPerHour - 1
             /\ Proper(d) \/ d.second = SecondsPerMinute
             /\ AsInstant(d) \in Int
  BY <1>2, DateHasInstant
<1>3. ASSUME IsDate(d), HeldExactly(AsInstant(d))
      PROVE  Proper(back) /\ AsInstant(back) = AsInstant(d)
  BY <1>2, <1>3, FromInstantExact
<1>4. ASSUME IsDate(d), HeldExactly(AsInstant(d)), d.second < SecondsPerMinute /\ d.microsecond < TicksPerSecond
      PROVE  back = d
  <2>1. Proper(d)
    BY <1>2, <1>4, ClockUnits
  <2> QED
    BY <1>3, <1>4, <2>1, LessIsSooner
<1>5. ASSUME IsDate(d), HeldExactly(AsInstant(d)), ~(d.second < SecondsPerMinute /\ d.microsecond < TicksPerSecond)
      PROVE  Earlier(Fields(d), Fields(back))
  <2>1. d.microsecond < TicksPerSecond
    BY ClockUnits DEF DateTimes
  <2>2. d.second = SecondsPerMinute
    BY <1>2, <1>5, <2>1, ClockUnits DEF Proper, OnClock
  <2>3. AsInstant(d) <= AsInstant(back)
    BY <1>2, <1>3, <1>5
  <2>4. Sooner(d, back)
    BY <1>2, <1>3, <1>5, <2>2, <2>3, LeapSecond
  <2>5. back \in DateTimes
    BY <1>3, <1>5 DEF Proper
  <2> QED
    BY <2>4, <2>5, SoonerIsEarlier
<1>6. ASSUME IsDate(d), AsInstant(d) < instant, HeldExactly(instant) PROVE Earlier(Fields(d), Fields(now))
  <2>1. Sooner(d, now)
    <3>1. CASE Proper(d)
      BY <1>1, <1>6, <3>1, LessIsSooner
    <3>2. CASE d.second = SecondsPerMinute
      <4>1. AsInstant(d) <= AsInstant(now)
        BY <1>1, <1>2, <1>6
      <4> QED
        BY <1>1, <1>2, <1>6, <3>2, <4>1, LeapSecond
    <3> QED
      BY <1>2, <1>6, <3>1, <3>2
  <2>2. now \in DateTimes
    BY <1>1 DEF Proper
  <2> QED
    BY <2>1, <2>2, SoonerIsEarlier
<1> QED
  BY <1>1, <1>4, <1>5, <1>6 DEF CalendarExact

-----------------------------------------------------------------------------
(* Instant.c: a sleep.                                                     *)
Naptimes == [remaining : Nat, chunk : Nat, request : Nat, asked : Nat, passed : Nat]
NapSound(n) ==
  /\ n \in Naptimes
  /\ n.request <= n.chunk /\ n.chunk <= n.remaining
  /\ n.request = 0 => n.remaining = 0
  /\ n.passed + n.remaining = n.asked + (n.chunk - n.request)

(* A member that is no more than the others is the least.                  *)
LEMMA MinIs ==
  ASSUME NEW S, S \subseteq Int, NEW x \in S, \A y \in S : x <= y
  PROVE  Min(S) = x
<1>1. \A z \in S : (\A y \in S : z <= y) => z = x
  OBVIOUS
<1>2. Min(S) \in S /\ \A y \in S : Min(S) <= y
  BY DEF Min
<1> QED
  BY <1>1, <1>2

(* A chunk is something unless nothing remains.                            *)
LEMMA ChunkOfRest ==
  ASSUME NEW n \in Naptimes, n.passed + n.remaining = n.asked
  PROVE  NapSound(NextChunk(n))
<1> DEFINE S == {n.remaining, LongestSleep}
           c == Min(S)
<1>1. n.remaining \in Nat /\ LongestSleep \in Nat \ {0} /\ n.passed \in Nat /\ n.asked \in Nat
  BY FieldAssumption DEF Naptimes
<1>a. S \subseteq Int /\ n.remaining \in S /\ LongestSleep \in S
      /\ \A y \in S : y = n.remaining \/ y = LongestSleep
  BY <1>1
<1> HIDE DEF S
<1>2. c \in Nat /\ c <= n.remaining /\ (c = 0 => n.remaining = 0)
  <2>1. CASE n.remaining <= LongestSleep
    <3>a. \A y \in S : n.remaining <= y
      BY <1>1, <1>a, <2>1
    <3>1. c = n.remaining
      BY <1>a, <3>a, MinIs
    <3> QED
      BY <1>1, <3>1
  <2>2. CASE ~(n.remaining <= LongestSleep)
    <3>a. \A y \in S : LongestSleep <= y
      BY <1>1, <1>a, <2>2
    <3>1. c = LongestSleep
      BY <1>a, <3>a, MinIs
    <3> QED
      BY <1>1, <2>2, <3>1
  <2> QED
    BY <2>1, <2>2
<1>3. NextChunk(n) = [n EXCEPT !.chunk = c, !.request = c]
  BY DEF NextChunk, S
<1> HIDE DEF c
<1>4. NextChunk(n) \in Naptimes
  BY <1>2, <1>3 DEF Naptimes
<1>5. /\ NextChunk(n).chunk = c /\ NextChunk(n).request = c /\ NextChunk(n).remaining = n.remaining
      /\ NextChunk(n).passed = n.passed /\ NextChunk(n).asked = n.asked
  BY <1>3 DEF Naptimes
<1> QED
  BY <1>1, <1>2, <1>4, <1>5 DEF NapSound

(* However often a request is interrupted, nothing is slept twice or       *)
(* forgotten.                                                              *)
LEMMA SleepKeepsSound ==
  ASSUME NapSound(nap), SleepStep
  PROVE  NapSound(nap')
<1>1. /\ nap \in Naptimes /\ nap.remaining \in Nat /\ nap.chunk \in Nat /\ nap.request \in Nat
      /\ nap.asked \in Nat /\ nap.passed \in Nat /\ nap.request > 0
      /\ nap.request <= nap.chunk /\ nap.chunk <= nap.remaining
      /\ nap.passed + nap.remaining = nap.asked + (nap.chunk - nap.request)
  BY DEF NapSound, Naptimes, SleepStep
<1>2. CASE Interrupted
  <2>1. PICK t \in 0..nap.request - 1 : nap' = [nap EXCEPT !.request = @ - t, !.passed = @ + t]
    BY <1>2 DEF Interrupted
  <2>2. /\ nap'.request = nap.request - t /\ nap'.passed = nap.passed + t /\ nap'.chunk = nap.chunk
        /\ nap'.remaining = nap.remaining /\ nap'.asked = nap.asked
    BY <1>1, <2>1 DEF Naptimes
  <2>a. nap.request - t \in Nat /\ nap.passed + t \in Nat
    BY <1>1
  <2>3. nap' \in Naptimes
    BY <1>1, <2>1, <2>a DEF Naptimes
  <2> QED
    BY <1>1, <2>2, <2>3 DEF NapSound
<1>3. CASE Slept
  <2> DEFINE rest == [nap EXCEPT !.remaining = @ - nap.chunk, !.passed = @ + nap.request,
                                 !.request = 0, !.chunk = 0]
  <2>1. nap' = IF rest.remaining > 0 THEN NextChunk(rest) ELSE rest
    BY <1>3 DEF Slept
  <2>a. nap.remaining - nap.chunk \in Nat /\ nap.passed + nap.request \in Nat
    BY <1>1
  <2>2. rest \in Naptimes
    BY <1>1, <2>a DEF Naptimes
  <2>3. /\ rest.remaining = nap.remaining - nap.chunk /\ rest.passed = nap.passed + nap.request
        /\ rest.request = 0 /\ rest.chunk = 0 /\ rest.asked = nap.asked
    BY <1>1 DEF Naptimes
  <2> HIDE DEF rest
  <2>4. rest.passed + rest.remaining = rest.asked /\ rest.remaining \in Nat
    BY <1>1, <2>3
  <2>5. CASE rest.remaining > 0
    BY <2>1, <2>2, <2>4, <2>5, ChunkOfRest
  <2>6. CASE ~(rest.remaining > 0)
    BY <1>1, <2>1, <2>2, <2>3, <2>4, <2>6 DEF NapSound
  <2> QED
    BY <2>5, <2>6
<1> QED
  BY <1>2, <1>3 DEF SleepStep

-----------------------------------------------------------------------------
(* The text of a date-time.                                                *)
(* The marks of a text that are digits.                                    *)
Digit == 0..9

(* What two texts after one another are.                                   *)
LEMMA Concatenated ==
  ASSUME NEW f \in Seq(Int), NEW g \in Seq(Int)
  PROVE  /\ f \o g \in Seq(Int) /\ Len(f \o g) = Len(f) + Len(g)
         /\ \A k \in 1..Len(f) : (f \o g)[k] = f[k]
         /\ \A k \in 1..Len(g) : (f \o g)[Len(f) + k] = g[k]
OBVIOUS

(* A mark after a text.                                                    *)
LEMMA MarkAfter ==
  ASSUME NEW f \in Seq(Int), NEW x \in Int
  PROVE  /\ f \o <<x>> \in Seq(Int) /\ Len(f \o <<x>>) = Len(f) + 1
         /\ \A k \in 1..Len(f) : (f \o <<x>>)[k] = f[k]
         /\ (f \o <<x>>)[Len(f) + 1] = x
OBVIOUS

(* Digits are digits, and there are as many as asked for.                  *)
LEMMA DigitsAre ==
  ASSUME NEW w \in 1..6, NEW n \in Nat
  PROVE  /\ FieldDigits(n, w) \in Seq(Int) /\ Len(FieldDigits(n, w)) = w
         /\ \A k \in 1..w : /\ FieldDigits(n, w)[k] = (n \div TenTo(w - k)) % 10
                            /\ FieldDigits(n, w)[k] \in Digit
<1>1. \A j \in 0..5 : TenTo(j) \in Nat \ {0}
  <2> TAKE j \in 0..5
  <2>1. j \in {0, 1, 2, 3, 4, 5}
    OBVIOUS
  <2> QED
    BY <2>1, SMT DEF TenTo
<1>2. \A k \in 1..w : (n \div TenTo(w - k)) % 10 \in Digit
  <2> TAKE k \in 1..w
  <2>1. w - k \in 0..5
    OBVIOUS
  <2>2. TenTo(w - k) \in Nat \ {0}
    BY <1>1, <2>1
  <2>3. n \div TenTo(w - k) \in Int
    <3> DEFINE b == TenTo(w - k)
    <3> HIDE DEF b
    <3>1. b \in Nat \ {0}
      BY <2>2 DEF b
    <3>2. n \div b \in Int
      BY <3>1, Divided
    <3> QED
      BY <3>2 DEF b
  <2> DEFINE q == n \div TenTo(w - k)
  <2> HIDE DEF q
  <2>4. q % 10 \in 0..9
    BY <2>3 DEF q
  <2> QED
    BY <2>4 DEF q, Digit
<1> DEFINE D == FieldDigits(n, w)
<1>3. D = [k \in 1..w |-> (n \div TenTo(w - k)) % 10]
  BY DEF FieldDigits
<1>4. D \in [1..w -> Digit]
  BY <1>2, <1>3
<1>5. D \in Seq(Digit) /\ Len(D) = w
  BY <1>4
<1>6. Digit \subseteq Int
  BY DEF Digit
<1>7. D \in [1..w -> Int]
  BY <1>4, <1>6
<1> QED
  BY <1>2, <1>3, <1>5, <1>7

(* Powers of ten.                                                          *)
LEMMA Tens ==
  /\ TenTo(0) = 1 /\ TenTo(1) = 10 /\ TenTo(2) = 100 /\ TenTo(3) = 1000
  /\ TenTo(4) = 10000 /\ TenTo(5) = 100000 /\ TenTo(6) = 1000000
BY SMT DEF TenTo

(* The decimal digits of a number.                                         *)
Column(n) == [i \in 0..5 |-> (n \div TenTo(i)) % 10]

(* They make the number, and those past its width are zero.                *)
LEMMA Columns ==
  ASSUME NEW n \in Nat, NEW w \in 1..6, n < TenTo(w)
  PROVE  LET c == Column(n)
         IN /\ \A i \in 0..5 : c[i] \in Digit
            /\ \A i \in w..5 : c[i] = 0
            /\ n = c[0] + 10 * c[1] + 100 * c[2] + 1000 * c[3] + 10000 * c[4] + 100000 * c[5]
<1> DEFINE c == Column(n)
<1>1. /\ c[0] = n % 10 /\ c[1] = (n \div 10) % 10 /\ c[2] = (n \div 100) % 10
      /\ c[3] = (n \div 1000) % 10 /\ c[4] = (n \div 10000) % 10 /\ c[5] = (n \div 100000) % 10
  <2>1. n \div 1 = n
    BY SMT
  <2>2. \A i \in 0..5 : c[i] = (n \div TenTo(i)) % 10
    BY DEF Column
  <2> HIDE DEF c
  <2> QED
    BY <2>1, <2>2, Tens, SMT
<1>2. w \in {1, 2, 3, 4, 5, 6}
  OBVIOUS
<1> HIDE DEF c
<1>3. n < 1000000
  BY <1>2, Tens, SMT
<1>4. n = c[0] + 10 * c[1] + 100 * c[2] + 1000 * c[3] + 10000 * c[4] + 100000 * c[5]
  <2>1. n = 10 * (n \div 10) + c[0]
    BY <1>1, SMT
  <2>2. n \div 10 = 10 * (n \div 100) + c[1]
    BY <1>1, SMT
  <2>3. n \div 100 = 10 * (n \div 1000) + c[2]
    BY <1>1, SMT
  <2>4. n \div 1000 = 10 * (n \div 10000) + c[3]
    BY <1>1, SMT
  <2>5. n \div 10000 = 10 * (n \div 100000) + c[4]
    BY <1>1, SMT
  <2>6. n \div 100000 = c[5]
    BY <1>1, <1>3, SMT
  <2> QED
    BY <1>1, <2>1, <2>2, <2>3, <2>4, <2>5, <2>6, SMT
<1>5. \A i \in 0..5 : c[i] \in Digit
  <2> TAKE i \in 0..5
  <2>1. i \in {0, 1, 2, 3, 4, 5}
    OBVIOUS
  <2> QED
    BY <1>1, <2>1, SMT DEF Digit
<1>6. \A i \in w..5 : c[i] = 0
  <2>1. n < 10 => c[1] = 0
    BY <1>1, SMT
  <2>2. n < 100 => c[2] = 0
    BY <1>1, SMT
  <2>3. n < 1000 => c[3] = 0
    BY <1>1, SMT
  <2>4. n < 10000 => c[4] = 0
    BY <1>1, SMT
  <2>5. n < 100000 => c[5] = 0
    BY <1>1, SMT
  <2> TAKE i \in w..5
  <2>6. i \in {1, 2, 3, 4, 5} /\ w <= i
    OBVIOUS
  <2>7. n < TenTo(i)
    BY <1>2, <2>6, Tens, SMT
  <2> QED
    BY <2>1, <2>2, <2>3, <2>4, <2>5, <2>6, <2>7, Tens, SMT
<1> QED
  BY <1>4, <1>5, <1>6 DEF c

(* What a number of so many digits is.                                     *)
LEMMA NumberOf ==
  ASSUME NEW p, NEW o \in Nat, NEW w \in 1..6, \A k \in 1..w : p[o + k] \in Int
  PROVE  /\ w = 1 => NumberAt(p, o, w) = p[o + 1]
         /\ w = 2 => NumberAt(p, o, w) = 10 * p[o + 1] + p[o + 2]
         /\ w = 3 => NumberAt(p, o, w) = 100 * p[o + 1] + 10 * p[o + 2] + p[o + 3]
         /\ w = 4 => NumberAt(p, o, w) = 1000 * p[o + 1] + 100 * p[o + 2] + 10 * p[o + 3] + p[o + 4]
         /\ w = 5 => NumberAt(p, o, w) = 10000 * p[o + 1] + 1000 * p[o + 2] + 100 * p[o + 3] + 10 * p[o + 4] + p[o + 5]
         /\ w = 6 => NumberAt(p, o, w) = 100000 * p[o + 1] + 10000 * p[o + 2] + 1000 * p[o + 3] + 100 * p[o + 4]
                                           + 10 * p[o + 5] + p[o + 6]
<1> DEFINE x(k) == p[o + k]
<1>1. \A k \in 1..w : x(k) \in Int
  OBVIOUS
<1>2. CASE w = 1
  BY <1>1, <1>2, Tens, SMT DEF NumberAt
<1>3. CASE w = 2
  BY <1>1, <1>3, Tens, SMT DEF NumberAt
<1>4. CASE w = 3
  BY <1>1, <1>4, Tens, SMT DEF NumberAt
<1>5. CASE w = 4
  BY <1>1, <1>5, Tens, SMT DEF NumberAt
<1>6. CASE w = 5
  BY <1>1, <1>6, Tens, SMT DEF NumberAt
<1>7. CASE w = 6
  BY <1>1, <1>7, Tens, SMT DEF NumberAt
<1> QED
  BY <1>2, <1>3, <1>4, <1>5, <1>6, <1>7

(* The digits of a number make the number.                                 *)
LEMMA DigitsMean ==
  ASSUME NEW w \in 1..6, NEW n \in Nat, n < TenTo(w)
  PROVE  NumberAt(FieldDigits(n, w), 0, w) = n
<1> DEFINE c == Column(n)
           D == FieldDigits(n, w)
           N == NumberAt(D, 0, w)
<1> SUFFICES N = n
  OBVIOUS
<1>1. \A k \in 1..w : D[k] = c[w - k] /\ D[k] \in Int
  <2>1. \A k \in 1..w : D[k] = (n \div TenTo(w - k)) % 10 /\ D[k] \in Digit
    BY DigitsAre, Zenon
  <2> TAKE k \in 1..w
  <2>2. w - k \in 0..5
    OBVIOUS
  <2>3. c[w - k] = (n \div TenTo(w - k)) % 10
    BY <2>2 DEF Column
  <2>4. Digit \subseteq Int
    BY DEF Digit
  <2> HIDE DEF c, D
  <2> QED
    BY <2>1, <2>3, <2>4
<1>2. /\ c[0] \in Int /\ c[1] \in Int /\ c[2] \in Int /\ c[3] \in Int /\ c[4] \in Int /\ c[5] \in Int
      /\ \A i \in w..5 : c[i] = 0
      /\ n = c[0] + 10 * c[1] + 100 * c[2] + 1000 * c[3] + 10000 * c[4] + 100000 * c[5]
  BY Columns DEF Digit
<1> HIDE DEF c, D
<1>3. \A k \in 1..w : D[0 + k] \in Int
  BY <1>1
<1>4. /\ w = 1 => N = D[1]
      /\ w = 2 => N = 10 * D[1] + D[2]
      /\ w = 3 => N = 100 * D[1] + 10 * D[2] + D[3]
      /\ w = 4 => N = 1000 * D[1] + 100 * D[2] + 10 * D[3] + D[4]
      /\ w = 5 => N = 10000 * D[1] + 1000 * D[2] + 100 * D[3] + 10 * D[4] + D[5]
      /\ w = 6 => N = 100000 * D[1] + 10000 * D[2] + 1000 * D[3] + 100 * D[4] + 10 * D[5] + D[6]
  <2>1. 0 \in Nat
    OBVIOUS
  <2> QED
    BY <1>3, <2>1, NumberOf
<1> HIDE DEF N
<1>5. CASE w = 1
  <2>1. D[1] = c[0]
    BY <1>1, <1>5
  <2>2. c[1] = 0 /\ c[2] = 0 /\ c[3] = 0 /\ c[4] = 0 /\ c[5] = 0
    BY <1>2, <1>5
  <2> QED
    BY <1>2, <1>4, <1>5, <2>1, <2>2, SMT
<1>6. CASE w = 2
  <2>1. D[1] = c[1] /\ D[2] = c[0]
    BY <1>1, <1>6
  <2>2. c[2] = 0 /\ c[3] = 0 /\ c[4] = 0 /\ c[5] = 0
    BY <1>2, <1>6
  <2> QED
    BY <1>2, <1>4, <1>6, <2>1, <2>2, SMT
<1>7. CASE w = 3
  <2>1. D[1] = c[2] /\ D[2] = c[1] /\ D[3] = c[0]
    BY <1>1, <1>7
  <2>2. c[3] = 0 /\ c[4] = 0 /\ c[5] = 0
    BY <1>2, <1>7
  <2> QED
    BY <1>2, <1>4, <1>7, <2>1, <2>2, SMT
<1>8. CASE w = 4
  <2>1. D[1] = c[3] /\ D[2] = c[2] /\ D[3] = c[1] /\ D[4] = c[0]
    BY <1>1, <1>8
  <2>2. c[4] = 0 /\ c[5] = 0
    BY <1>2, <1>8
  <2> QED
    BY <1>2, <1>4, <1>8, <2>1, <2>2, SMT
<1>9. CASE w = 5
  <2>1. D[1] = c[4] /\ D[2] = c[3] /\ D[3] = c[2] /\ D[4] = c[1] /\ D[5] = c[0]
    BY <1>1, <1>9
  <2>2. c[5] = 0
    BY <1>2, <1>9
  <2> QED
    BY <1>2, <1>4, <1>9, <2>1, <2>2, SMT
<1>10. CASE w = 6
  <2>1. D[1] = c[5] /\ D[2] = c[4] /\ D[3] = c[3] /\ D[4] = c[2] /\ D[5] = c[1] /\ D[6] = c[0]
    BY <1>1, <1>10
  <2> QED
    BY <1>2, <1>4, <1>10, <2>1, SMT
<1>11. w \in {1, 2, 3, 4, 5, 6}
  OBVIOUS
<1> QED
  BY <1>5, <1>6, <1>7, <1>8, <1>9, <1>10, <1>11 DEF N, D

(* Powers of ten multiply.                                                 *)
LEMMA TensMultiply ==
  /\ \A a \in 0..6 : TenTo(a) \in Nat \ {0}
  /\ \A a, b, c \in 0..6 : a + b = c => TenTo(a) * TenTo(b) = TenTo(c)
<1>1. ASSUME NEW a \in 0..6 PROVE TenTo(a) \in Nat \ {0}
  <2>1. a \in {0, 1, 2, 3, 4, 5, 6}
    OBVIOUS
  <2> QED
    BY <2>1, Tens, SMT
<1>2. ASSUME NEW a \in 0..6, NEW b \in 0..6, NEW c \in 0..6, a + b = c
      PROVE  TenTo(a) * TenTo(b) = TenTo(c)
  <2>1. a \in {0, 1, 2, 3, 4, 5, 6} /\ b \in {0, 1, 2, 3, 4, 5, 6}
    OBVIOUS
  <2> QED
    BY <1>2, <2>1, Tens, SMT
<1> QED
  BY <1>1, <1>2

(* What one digit adds to a number.                                        *)
Place(t, o, w, k) == IF k <= w THEN t[o + k] * TenTo(w - k) ELSE 0

(* The digits that are left without the zeros at the end make the number.  *)
LEMMA SignificantDigits ==
  ASSUME NEW w \in 1..6, NEW n \in Nat, n < TenTo(w), NEW j \in 1..w, NEW p,
         \A k \in 1..j : p[k] = FieldDigits(n, w)[k],
         \A k \in j + 1..w : FieldDigits(n, w)[k] = 0
  PROVE  NumberAt(p, 0, j) * TenTo(w - j) = n
<1> DEFINE D == FieldDigits(n, w)
           T == TenTo(w - j)
           x(k) == Place(p, 0, j, k)
           y(k) == Place(D, 0, w, k)
<1>1. NumberAt(D, 0, w) = n
  BY DigitsMean
<1>2. \A k \in 1..w : D[k] \in Int
  <2>1. \A k \in 1..w : D[k] \in Digit
    BY DigitsAre, Zenon
  <2> QED
    BY <2>1 DEF Digit
<1> HIDE DEF D
<1>3. T \in Nat
  <2>1. w - j \in 0..6
    OBVIOUS
  <2> QED
    BY <2>1, TensMultiply
<1>4. \A k \in 1..6 : x(k) \in Int /\ x(k) * T = y(k)
  <2> TAKE k \in 1..6
  <2>1. CASE k <= j
    <3>1. /\ TenTo(j - k) * T = TenTo(w - k) /\ TenTo(j - k) \in Nat
      <4>1. j - k \in 0..6 /\ w - j \in 0..6 /\ (j - k) + (w - j) = w - k /\ w - k \in 0..6
        BY <2>1
      <4> DEFINE a == j - k
                 b == w - j
                 c == w - k
      <4>2. a \in 0..6 /\ b \in 0..6 /\ c \in 0..6 /\ a + b = c
        BY <4>1
      <4> HIDE DEF a, b, c
      <4>3. TenTo(a) * TenTo(b) = TenTo(c) /\ TenTo(a) \in Nat
        BY <4>2, TensMultiply
      <4> QED
        BY <4>3 DEF a, b, c
    <3>2. p[0 + k] = D[0 + k] /\ D[0 + k] \in Int
      BY <1>2, <2>1 DEF D
    <3>3. x(k) = D[0 + k] * TenTo(j - k) /\ y(k) = D[0 + k] * TenTo(w - k)
      BY <2>1, <3>2 DEF Place
    <3> HIDE DEF T, x, y
    <3>4. \A a, b, c \in Int : (a * b) * c = a * (b * c) /\ a * b \in Int
      OBVIOUS
    <3> QED
      BY <1>3, <3>1, <3>2, <3>3, <3>4
  <2>2. CASE k > j /\ k <= w
    <3>1. x(k) = 0 /\ D[0 + k] = 0
      BY <2>2 DEF Place, D
    <3>2. TenTo(w - k) \in Nat
      <4>1. w - k \in 0..6
        BY <2>2
      <4> QED
        BY <4>1, TensMultiply
    <3>3. y(k) = 0
      BY <2>2, <3>1, <3>2 DEF Place
    <3> QED
      BY <1>3, <3>1, <3>3
  <2>3. CASE k > w
    <3>1. x(k) = 0 /\ y(k) = 0
      BY <2>3 DEF Place
    <3> QED
      BY <1>3, <3>1
  <2> QED
    BY <2>1, <2>2, <2>3
<1>5. NumberAt(p, 0, j) = x(1) + x(2) + x(3) + x(4) + x(5) + x(6)
  BY DEF NumberAt, Place
<1>6. NumberAt(D, 0, w) = y(1) + y(2) + y(3) + y(4) + y(5) + y(6)
  BY DEF NumberAt, Place
<1> SUFFICES NumberAt(p, 0, j) * T = n
  OBVIOUS
<1> HIDE DEF x, y, T
<1>7. /\ x(1) \in Int /\ x(2) \in Int /\ x(3) \in Int /\ x(4) \in Int /\ x(5) \in Int /\ x(6) \in Int
      /\ x(1) * T = y(1) /\ x(2) * T = y(2) /\ x(3) * T = y(3)
      /\ x(4) * T = y(4) /\ x(5) * T = y(5) /\ x(6) * T = y(6)
  BY <1>4
<1>8. (x(1) + x(2) + x(3) + x(4) + x(5) + x(6)) * T = y(1) + y(2) + y(3) + y(4) + y(5) + y(6)
  <2>1. (x(1) + x(2) + x(3) + x(4) + x(5) + x(6)) * T
          = x(1) * T + x(2) * T + x(3) * T + x(4) * T + x(5) * T + x(6) * T
    BY <1>3, <1>7
  <2> QED
    BY <1>7, <2>1, Zenon
<1> QED
  BY <1>1, <1>5, <1>6, <1>8, Zenon

(* Digits make a number of so many digits.                                 *)
LEMMA NumberIsBounded ==
  ASSUME NEW p, NEW o \in Nat, NEW w \in 1..6, \A k \in 1..w : p[o + k] \in Digit
  PROVE  NumberAt(p, o, w) \in 0..TenTo(w) - 1
<1>1. \A k \in 1..w : p[o + k] \in Int /\ p[o + k] >= 0 /\ p[o + k] <= 9
  BY DEF Digit
<1> DEFINE N == NumberAt(p, o, w)
           x(k) == p[o + k]
<1>2. /\ w = 1 => N = x(1)
      /\ w = 2 => N = 10 * x(1) + x(2)
      /\ w = 3 => N = 100 * x(1) + 10 * x(2) + x(3)
      /\ w = 4 => N = 1000 * x(1) + 100 * x(2) + 10 * x(3) + x(4)
      /\ w = 5 => N = 10000 * x(1) + 1000 * x(2) + 100 * x(3) + 10 * x(4) + x(5)
      /\ w = 6 => N = 100000 * x(1) + 10000 * x(2) + 1000 * x(3) + 100 * x(4) + 10 * x(5) + x(6)
  BY <1>1, NumberOf
<1>3. \A k \in 1..w : x(k) \in Int /\ x(k) >= 0 /\ x(k) <= 9
  BY <1>1
<1>4. w \in {1, 2, 3, 4, 5, 6}
  OBVIOUS
<1> HIDE DEF x, N
<1>5. CASE w = 1
  BY <1>2, <1>3, <1>5, Tens, SMT DEF N
<1>6. CASE w = 2
  BY <1>2, <1>3, <1>6, Tens, SMT DEF N
<1>7. CASE w = 3
  BY <1>2, <1>3, <1>7, Tens, SMT DEF N
<1>8. CASE w = 4
  BY <1>2, <1>3, <1>8, Tens, SMT DEF N
<1>9. CASE w = 5
  BY <1>2, <1>3, <1>9, Tens, SMT DEF N
<1>10. CASE w = 6
  BY <1>2, <1>3, <1>10, Tens, SMT DEF N
<1> QED
  BY <1>4, <1>5, <1>6, <1>7, <1>8, <1>9, <1>10

(* A fraction in ticks is less than a second.                              *)
LEMMA FractionIsBounded ==
  ASSUME NEW w \in 1..6, NEW j \in 1..w, NEW x \in 0..TenTo(j) - 1
  PROVE  x * TenTo(w - j) \in 0..TenTo(w) - 1
<1>1. TenTo(j) \in Nat \ {0} /\ TenTo(w - j) \in Nat \ {0} /\ TenTo(j) * TenTo(w - j) = TenTo(w)
  <2>1. j \in {1, 2, 3, 4, 5, 6} /\ w \in {1, 2, 3, 4, 5, 6} /\ j <= w
    OBVIOUS
  <2> QED
    BY <2>1, Tens, SMT
<1> DEFINE a == TenTo(j)
           b == TenTo(w - j)
<1> HIDE DEF a, b
<1>2. a \in Nat \ {0} /\ b \in Nat \ {0} /\ x \in Nat /\ x < a /\ a * b = TenTo(w) /\ 0 \in 0..b - 1
  BY <1>1 DEF a, b
<1>3. b * x + 0 \in 0..a * b - 1
  BY <1>2, InUnits
<1> QED
  BY <1>2, <1>3 DEF b

(* Two texts have the same digits in two places.                           *)
SameDigits(t, o, u, p, w) == \A k \in 1..w : t[o + k] = u[p + k]

(* A number is where its digits are.                                       *)
LEMMA SameNumber ==
  ASSUME NEW t, NEW o, NEW u, NEW p, NEW w \in 1..6, SameDigits(t, o, u, p, w)
  PROVE  NumberAt(t, o, w) = NumberAt(u, p, w)
<1>1. \A k \in 1..6 : Place(t, o, w, k) = Place(u, p, w, k)
  <2> TAKE k \in 1..6
  <2>1. CASE k <= w
    <3>1. t[o + k] = u[p + k]
      BY <2>1 DEF SameDigits
    <3> QED
      BY <3>1 DEF Place
  <2>2. CASE ~(k <= w)
    BY <2>2 DEF Place
  <2> QED
    BY <2>1, <2>2
<1>2. \A s, q : NumberAt(s, q, w) = Place(s, q, w, 1) + Place(s, q, w, 2) + Place(s, q, w, 3)
                                      + Place(s, q, w, 4) + Place(s, q, w, 5) + Place(s, q, w, 6)
  BY DEF NumberAt, Place
<1>3. /\ Place(t, o, w, 1) = Place(u, p, w, 1) /\ Place(t, o, w, 2) = Place(u, p, w, 2)
      /\ Place(t, o, w, 3) = Place(u, p, w, 3) /\ Place(t, o, w, 4) = Place(u, p, w, 4)
      /\ Place(t, o, w, 5) = Place(u, p, w, 5) /\ Place(t, o, w, 6) = Place(u, p, w, 6)
  BY <1>1
<1> QED
  BY <1>2, <1>3, Zenon

(* A text that begins as another keeps its marks and numbers.              *)
Begins(f, g) == /\ f \in Seq(Int) /\ g \in Seq(Int) /\ Len(f) <= Len(g)
                /\ \A k \in 1..Len(f) : g[k] = f[k]

(* One beginning leads to the next.                                        *)
LEMMA BeginsOn ==
  ASSUME NEW f, NEW g, NEW h, Begins(f, g), Begins(g, h)
  PROVE  Begins(f, h)
<1>1. Len(f) \in Nat /\ Len(g) \in Nat /\ Len(h) \in Nat /\ Len(f) <= Len(g) /\ Len(g) <= Len(h)
  BY DEF Begins
<1>2. \A k \in 1..Len(f) : h[k] = f[k]
  <2> TAKE k \in 1..Len(f)
  <2>1. k \in 1..Len(g)
    BY <1>1
  <2> QED
    BY <2>1 DEF Begins
<1> QED
  BY <1>1, <1>2 DEF Begins

(* A number within the beginning is kept.                                  *)
LEMMA NumberKept ==
  ASSUME NEW f, NEW g, Begins(f, g), NEW o \in Nat, NEW w \in 1..6, o + w <= Len(f)
  PROVE  NumberAt(g, o, w) = NumberAt(f, o, w)
<1>1. SameDigits(g, o, f, o, w)
  <2> SUFFICES ASSUME NEW k \in 1..w PROVE g[o + k] = f[o + k]
    BY DEF SameDigits
  <2>1. Len(f) \in Nat
    BY DEF Begins
  <2>2. o + k \in 1..Len(f)
    BY <2>1
  <2> QED
    BY <2>2 DEF Begins
<1> QED
  BY <1>1, SameNumber

(* A field after a text.                                                   *)
LEMMA FieldAfter ==
  ASSUME NEW f \in Seq(Int), NEW w \in 1..6, NEW n \in Nat, n < TenTo(w)
  PROVE  LET g == f \o FieldDigits(n, w)
         IN /\ Begins(f, g) /\ Len(g) = Len(f) + w
            /\ \A k \in 1..w : g[Len(f) + k] \in Digit
            /\ NumberAt(g, Len(f), w) = n
<1> DEFINE D == FieldDigits(n, w)
           g == f \o D
<1>1. D \in Seq(Int) /\ Len(D) = w /\ \A k \in 1..w : D[k] \in Digit
  BY DigitsAre, Zenon
<1>2. NumberAt(D, 0, w) = n
  BY DigitsMean, Zenon
<1> HIDE DEF D
<1>3. /\ g \in Seq(Int) /\ Len(g) = Len(f) + Len(D)
      /\ \A k \in 1..Len(f) : g[k] = f[k]
      /\ \A k \in 1..Len(D) : g[Len(f) + k] = D[k]
  BY <1>1, Concatenated
<1> HIDE DEF g
<1>4. Len(f) \in Nat
  OBVIOUS
<1>5. Begins(f, g)
  BY <1>1, <1>3, <1>4 DEF Begins
<1>6. SameDigits(g, Len(f), D, 0, w)
  BY <1>1, <1>3 DEF SameDigits
<1>7. NumberAt(g, Len(f), w) = NumberAt(D, 0, w)
  BY <1>6, SameNumber
<1> QED
  BY <1>1, <1>2, <1>3, <1>5, <1>7 DEF g, D

(* A field of two digits and the mark behind it.                           *)
LEMMA FieldAndMark ==
  ASSUME NEW f \in Seq(Int), NEW n \in 0..99, NEW m \in Int
  PROVE  LET g == f \o FieldDigits(n, 2) \o <<m>>
         IN /\ Begins(f, g) /\ Len(g) = Len(f) + 3
            /\ g[Len(f) + 1] \in Digit /\ g[Len(f) + 2] \in Digit /\ g[Len(f) + 3] = m
            /\ NumberAt(g, Len(f), 2) = n
<1> DEFINE e == f \o FieldDigits(n, 2)
           g == e \o <<m>>
<1>1. /\ Begins(f, e) /\ Len(e) = Len(f) + 2
      /\ \A k \in 1..2 : e[Len(f) + k] \in Digit
      /\ NumberAt(e, Len(f), 2) = n
  <2>1. 2 \in 1..6 /\ n \in Nat /\ n < TenTo(2)
    BY Tens, SMT
  <2> QED
    BY <2>1, FieldAfter, Zenon
<1> HIDE DEF e
<1>2. e \in Seq(Int)
  BY <1>1 DEF Begins
<1>3. /\ g \in Seq(Int) /\ Len(g) = Len(e) + 1 /\ g[Len(e) + 1] = m
      /\ \A k \in 1..Len(e) : g[k] = e[k]
  BY <1>2, MarkAfter
<1> HIDE DEF g
<1>4. Len(f) \in Nat /\ Len(e) \in Nat
  BY <1>2
<1>5. Begins(e, g)
  BY <1>2, <1>3, <1>4 DEF Begins
<1>6. Begins(f, g)
  BY <1>1, <1>5, BeginsOn
<1>7. NumberAt(g, Len(f), 2) = n
  <2>1. Len(f) + 2 <= Len(e) /\ 2 \in 1..6
    BY <1>1, <1>4
  <2> QED
    BY <1>1, <1>4, <1>5, <2>1, NumberKept
<1>8. g[Len(f) + 1] \in Digit /\ g[Len(f) + 2] \in Digit /\ g[Len(f) + 3] = m /\ Len(g) = Len(f) + 3
  <2>1. /\ Len(f) + 1 \in 1..Len(e) /\ Len(f) + 2 \in 1..Len(e) /\ Len(e) + 1 = Len(f) + 3
        /\ 1 \in 1..2 /\ 2 \in 1..2
    BY <1>1, <1>4
  <2> QED
    BY <1>1, <1>3, <2>1
<1> QED
  BY <1>6, <1>7, <1>8 DEF g, e

(* The date and time of a text, up to the fraction.                        *)
DateText(d) ==
  FieldDigits(d.year, 4) \o <<DASH>> \o FieldDigits(d.month, 2) \o <<DASH>> \o FieldDigits(d.day, 2) \o <<LETTER_T>>
    \o FieldDigits(d.hour, 2) \o <<COLON_MARK>> \o FieldDigits(d.minute, 2) \o <<COLON_MARK>> \o FieldDigits(d.second, 2)

(* The marks, the digits and the numbers of a text are where they should be.*)
MarksStand(t) == t[5] = DASH /\ t[8] = DASH /\ t[11] = LETTER_T /\ t[14] = COLON_MARK /\ t[17] = COLON_MARK
DigitsStand(t) == \A k \in (1..19) \ {5, 8, 11, 14, 17} : t[k] \in Digit
Reads(t, d) ==
  /\ NumberAt(t, 0, 4) = d.year /\ NumberAt(t, 5, 2) = d.month /\ NumberAt(t, 8, 2) = d.day
  /\ NumberAt(t, 11, 2) = d.hour /\ NumberAt(t, 14, 2) = d.minute /\ NumberAt(t, 17, 2) = d.second

(* Fields of as many digits as the text has for them.                      *)
HasFields(d) == /\ d.year \in 0..9999 /\ d.month \in 0..99 /\ d.day \in 0..99
                /\ d.hour \in 0..99 /\ d.minute \in 0..99 /\ d.second \in 0..99

(* Such a text has its marks, its digits, and the numbers of the fields.   *)
LEMMA HeadIs ==
  ASSUME NEW d, HasFields(d)
  PROVE  /\ DateText(d) \in Seq(Int) /\ Len(DateText(d)) = 19
         /\ MarksStand(DateText(d)) /\ DigitsStand(DateText(d)) /\ Reads(DateText(d), d)
<1> DEFINE yy == d.year
           mo == d.month
           dd == d.day
           hh == d.hour
           mi == d.minute
           ss == d.second
<1>0. /\ mo \in 0..99 /\ dd \in 0..99 /\ hh \in 0..99 /\ mi \in 0..99 /\ ss \in 0..99
      /\ 4 \in 1..6 /\ yy \in Nat /\ yy < TenTo(4)
  <2>1. /\ mo \in 0..99 /\ dd \in 0..99 /\ hh \in 0..99 /\ mi \in 0..99 /\ ss \in 0..99
        /\ yy \in 0..9999
    BY SMT DEF HasFields
  <2> HIDE DEF yy, mo, dd, hh, mi, ss
  <2>2. yy \in Nat /\ yy < 10000
    BY <2>1, SMT
  <2>3. TenTo(4) = 10000
    BY Tens
  <2> QED
    BY <2>1, <2>2, <2>3, SMT
<1> DEFINE y0 == FieldDigits(yy, 4)
           h1 == y0 \o <<DASH>>
           h2 == h1 \o FieldDigits(mo, 2) \o <<DASH>>
           h3 == h2 \o FieldDigits(dd, 2) \o <<LETTER_T>>
           h4 == h3 \o FieldDigits(hh, 2) \o <<COLON_MARK>>
           h5 == h4 \o FieldDigits(mi, 2) \o <<COLON_MARK>>
           h6 == h5 \o FieldDigits(ss, 2)
<1>1. DateText(d) = h6
  BY DEF DateText
<1> HIDE DEF yy, mo, dd, hh, mi, ss
<1>2. DASH \in Int /\ LETTER_T \in Int /\ COLON_MARK \in Int
  BY DEF DASH, LETTER_T, COLON_MARK
<1>3. /\ h1 \in Seq(Int) /\ Len(h1) = 5 /\ h1[5] = DASH
      /\ \A k \in 1..4 : h1[k] \in Digit
      /\ NumberAt(h1, 0, 4) = yy
  <2>2. y0 \in Seq(Int) /\ Len(y0) = 4 /\ \A k \in 1..4 : y0[k] \in Digit
    BY <1>0, DigitsAre, Zenon
  <2>3. NumberAt(y0, 0, 4) = yy
    BY <1>0, DigitsMean, Zenon
  <2> HIDE DEF y0
  <2>4. h1 \in Seq(Int) /\ Len(h1) = Len(y0) + 1 /\ h1[Len(y0) + 1] = DASH
        /\ \A k \in 1..Len(y0) : h1[k] = y0[k]
    BY <1>2, <2>2, MarkAfter
  <2> HIDE DEF h1
  <2>5. Begins(y0, h1)
    BY <2>2, <2>4 DEF Begins
  <2>6. NumberAt(h1, 0, 4) = NumberAt(y0, 0, 4)
    <3>1. 0 \in Nat /\ 0 + 4 <= Len(y0)
      BY <2>2
    <3> QED
      BY <1>0, <2>5, <3>1, NumberKept
  <2> QED
    BY <2>2, <2>3, <2>4, <2>6
<1> HIDE DEF h1
<1>4. /\ Begins(h1, h2) /\ h2 \in Seq(Int) /\ Len(h2) = 8
      /\ h2[6] \in Digit /\ h2[7] \in Digit /\ h2[8] = DASH
      /\ NumberAt(h2, 5, 2) = mo
  <2>1. /\ Begins(h1, h2) /\ Len(h2) = Len(h1) + 3
        /\ h2[Len(h1) + 1] \in Digit /\ h2[Len(h1) + 2] \in Digit /\ h2[Len(h1) + 3] = DASH
        /\ NumberAt(h2, Len(h1), 2) = mo
    <3>1. h1 \in Seq(Int) /\ mo \in 0..99 /\ DASH \in Int
      BY <1>0, <1>2, <1>3
    <3> QED
      BY <3>1, FieldAndMark, Zenon
  <2> HIDE DEF h2
  <2>2. h2 \in Seq(Int)
    BY <2>1 DEF Begins
  <2> QED
    BY <1>3, <2>1, <2>2
<1> HIDE DEF h2
<1>5. /\ Begins(h2, h3) /\ h3 \in Seq(Int) /\ Len(h3) = 11
      /\ h3[9] \in Digit /\ h3[10] \in Digit /\ h3[11] = LETTER_T
      /\ NumberAt(h3, 8, 2) = dd
  <2>1. /\ Begins(h2, h3) /\ Len(h3) = Len(h2) + 3
        /\ h3[Len(h2) + 1] \in Digit /\ h3[Len(h2) + 2] \in Digit /\ h3[Len(h2) + 3] = LETTER_T
        /\ NumberAt(h3, Len(h2), 2) = dd
    <3>1. h2 \in Seq(Int) /\ dd \in 0..99 /\ LETTER_T \in Int
      BY <1>0, <1>2, <1>4
    <3> QED
      BY <3>1, FieldAndMark, Zenon
  <2> HIDE DEF h3
  <2>2. h3 \in Seq(Int)
    BY <2>1 DEF Begins
  <2> QED
    BY <1>4, <2>1, <2>2
<1> HIDE DEF h3
<1>6. /\ Begins(h3, h4) /\ h4 \in Seq(Int) /\ Len(h4) = 14
      /\ h4[12] \in Digit /\ h4[13] \in Digit /\ h4[14] = COLON_MARK
      /\ NumberAt(h4, 11, 2) = hh
  <2>1. /\ Begins(h3, h4) /\ Len(h4) = Len(h3) + 3
        /\ h4[Len(h3) + 1] \in Digit /\ h4[Len(h3) + 2] \in Digit /\ h4[Len(h3) + 3] = COLON_MARK
        /\ NumberAt(h4, Len(h3), 2) = hh
    <3>1. h3 \in Seq(Int) /\ hh \in 0..99 /\ COLON_MARK \in Int
      BY <1>0, <1>2, <1>5
    <3> QED
      BY <3>1, FieldAndMark, Zenon
  <2> HIDE DEF h4
  <2>2. h4 \in Seq(Int)
    BY <2>1 DEF Begins
  <2> QED
    BY <1>5, <2>1, <2>2
<1> HIDE DEF h4
<1>7. /\ Begins(h4, h5) /\ h5 \in Seq(Int) /\ Len(h5) = 17
      /\ h5[15] \in Digit /\ h5[16] \in Digit /\ h5[17] = COLON_MARK
      /\ NumberAt(h5, 14, 2) = mi
  <2>1. /\ Begins(h4, h5) /\ Len(h5) = Len(h4) + 3
        /\ h5[Len(h4) + 1] \in Digit /\ h5[Len(h4) + 2] \in Digit /\ h5[Len(h4) + 3] = COLON_MARK
        /\ NumberAt(h5, Len(h4), 2) = mi
    <3>1. h4 \in Seq(Int) /\ mi \in 0..99 /\ COLON_MARK \in Int
      BY <1>0, <1>2, <1>6
    <3> QED
      BY <3>1, FieldAndMark, Zenon
  <2> HIDE DEF h5
  <2>2. h5 \in Seq(Int)
    BY <2>1 DEF Begins
  <2> QED
    BY <1>6, <2>1, <2>2
<1> HIDE DEF h5
<1>8. /\ Begins(h5, h6) /\ h6 \in Seq(Int) /\ Len(h6) = 19
      /\ h6[18] \in Digit /\ h6[19] \in Digit
      /\ NumberAt(h6, 17, 2) = ss
  <2>1. 2 \in 1..6 /\ ss \in Nat /\ ss < TenTo(2)
    BY <1>0, Tens, SMT
  <2>2. /\ Begins(h5, h6) /\ Len(h6) = Len(h5) + 2
        /\ \A k \in 1..2 : h6[Len(h5) + k] \in Digit
        /\ NumberAt(h6, Len(h5), 2) = ss
    BY <1>7, <2>1, FieldAfter, Zenon
  <2> HIDE DEF h6
  <2>3. h6 \in Seq(Int)
    BY <2>2 DEF Begins
  <2>4. 1 \in 1..2 /\ 2 \in 1..2 /\ 17 + 1 = 18 /\ 17 + 2 = 19
    OBVIOUS
  <2> QED
    BY <1>7, <2>2, <2>3, <2>4
<1> HIDE DEF h6
<1>9. Begins(h4, h6) /\ Begins(h3, h6) /\ Begins(h2, h6) /\ Begins(h1, h6)
  <2>1. Begins(h4, h6)
    BY <1>7, <1>8, BeginsOn
  <2>2. Begins(h3, h6)
    BY <1>6, <2>1, BeginsOn
  <2>3. Begins(h2, h6)
    BY <1>5, <2>2, BeginsOn
  <2>4. Begins(h1, h6)
    BY <1>4, <2>3, BeginsOn
  <2> QED
    BY <2>1, <2>2, <2>3, <2>4
<1>10. /\ \A k \in 1..5 : h6[k] = h1[k]
       /\ \A k \in 1..8 : h6[k] = h2[k]
       /\ \A k \in 1..11 : h6[k] = h3[k]
       /\ \A k \in 1..14 : h6[k] = h4[k]
       /\ \A k \in 1..17 : h6[k] = h5[k]
  BY <1>3, <1>4, <1>5, <1>6, <1>7, <1>8, <1>9 DEF Begins
<1>11. MarksStand(h6)
  BY <1>3, <1>4, <1>5, <1>6, <1>7, <1>10 DEF MarksStand
<1>12. DigitsStand(h6)
  <2> SUFFICES ASSUME NEW k \in (1..19) \ {5, 8, 11, 14, 17}
               PROVE  h6[k] \in Digit
    BY DEF DigitsStand
  <2>1. CASE k \in 1..4
    BY <1>3, <1>10, <2>1
  <2>2. CASE k \in {6, 7}
    BY <1>4, <1>10, <2>2
  <2>3. CASE k \in {9, 10}
    BY <1>5, <1>10, <2>3
  <2>4. CASE k \in {12, 13}
    BY <1>6, <1>10, <2>4
  <2>5. CASE k \in {15, 16}
    BY <1>7, <1>10, <2>5
  <2>6. CASE k \in {18, 19}
    BY <1>8, <2>6
  <2> QED
    BY <2>1, <2>2, <2>3, <2>4, <2>5, <2>6
<1>13. Reads(h6, d)
  <2>1. NumberAt(h6, 0, 4) = NumberAt(h1, 0, 4)
    <3>1. Begins(h1, h6) /\ 0 \in Nat /\ 4 \in 1..6 /\ 0 + 4 <= Len(h1)
      BY <1>3, <1>9
    <3> QED
      BY <3>1, NumberKept, Zenon
  <2>2. NumberAt(h6, 5, 2) = NumberAt(h2, 5, 2)
    <3>1. Begins(h2, h6) /\ 5 \in Nat /\ 2 \in 1..6 /\ 5 + 2 <= Len(h2)
      BY <1>4, <1>9
    <3> QED
      BY <3>1, NumberKept, Zenon
  <2>3. NumberAt(h6, 8, 2) = NumberAt(h3, 8, 2)
    <3>1. Begins(h3, h6) /\ 8 \in Nat /\ 2 \in 1..6 /\ 8 + 2 <= Len(h3)
      BY <1>5, <1>9
    <3> QED
      BY <3>1, NumberKept, Zenon
  <2>4. NumberAt(h6, 11, 2) = NumberAt(h4, 11, 2)
    <3>1. Begins(h4, h6) /\ 11 \in Nat /\ 2 \in 1..6 /\ 11 + 2 <= Len(h4)
      BY <1>6, <1>9
    <3> QED
      BY <3>1, NumberKept, Zenon
  <2>5. NumberAt(h6, 14, 2) = NumberAt(h5, 14, 2)
    <3>1. Begins(h5, h6) /\ 14 \in Nat /\ 2 \in 1..6 /\ 14 + 2 <= Len(h5)
      BY <1>7, <1>8
    <3> QED
      BY <3>1, NumberKept, Zenon
  <2> QED
    BY <1>3, <1>4, <1>5, <1>6, <1>7, <1>8, <2>1, <2>2, <2>3, <2>4, <2>5 DEF Reads, yy, mo, dd, hh, mi, ss
<1> QED
  BY <1>1, <1>8, <1>11, <1>12, <1>13

(* A longer text reads the same.                                           *)
LEMMA HeadKept ==
  ASSUME NEW d, NEW h, NEW t, Begins(h, t), Len(h) = 19, MarksStand(h), DigitsStand(h), Reads(h, d)
  PROVE  MarksStand(t) /\ DigitsStand(t) /\ Reads(t, d)
<1>1. \A k \in 1..19 : t[k] = h[k]
  BY DEF Begins
<1>2. MarksStand(t)
  BY <1>1 DEF MarksStand
<1>3. DigitsStand(t)
  BY <1>1 DEF DigitsStand
<1>4. Reads(t, d)
  <2>1. \A o \in {0, 5, 8, 11, 14, 17}, w \in {2, 4} :
          o \in Nat /\ w \in 1..6 /\ (o + w <= 19 => NumberAt(t, o, w) = NumberAt(h, o, w))
    <3> TAKE o \in {0, 5, 8, 11, 14, 17}, w \in {2, 4}
    <3>1. o \in Nat /\ w \in 1..6
      OBVIOUS
    <3> QED
      BY <3>1, NumberKept
  <2> QED
    BY <2>1 DEF Reads
<1> QED
  BY <1>2, <1>3, <1>4

(* A part of a text.                                                       *)
LEMMA PartOf ==
  ASSUME NEW t \in Seq(Int), NEW m \in Nat, NEW l \in Nat, NEW n \in Nat, n = m + l, n <= Len(t)
  PROVE  /\ SubSeq(t, m + 1, n) \in Seq(Int) /\ Len(SubSeq(t, m + 1, n)) = l
         /\ \A k \in 1..l : SubSeq(t, m + 1, n)[k] = t[m + k]
OBVIOUS

(* A fraction is written without the zeros at its end.                     *)
LEMMA FractionWritten ==
  ASSUME NEW us \in 1..TicksPerSecond - 1
  PROVE  LET s == Stripped(FieldDigits(us, FractionDigits))
         IN /\ s \in Seq(Int) /\ Len(s) \in 1..FractionDigits
            /\ \A k \in 1..Len(s) : s[k] \in Digit
            /\ NumberAt(s, 0, Len(s)) * TenTo(FractionDigits - Len(s)) = us
<1> DEFINE w == FractionDigits
           D == FieldDigits(us, w)
           S == {k \in DOMAIN D : D[k] # 0} \cup {0}
           j == Max(S)
           s == Stripped(D)
<1>1. w \in 1..6 /\ us \in Nat /\ us # 0 /\ us < TenTo(w)
  <2>1. TicksPerSecond \in Nat
    BY ClockUnits
  <2> QED
    BY <2>1, FieldAssumption DEF TicksPerSecond
<1> HIDE DEF w
<1>2. D \in Seq(Int) /\ Len(D) = w /\ \A k \in 1..w : D[k] \in Digit
  BY <1>1, DigitsAre, Zenon
<1>3. s = SubSeq(D, 1, j)
  BY DEF Stripped
<1> HIDE DEF s
<1>4. j \in S /\ \A y \in S : y <= j
  <2>1. S \in SUBSET (0..w) /\ S # {} /\ 0 \in Int /\ w \in Int
    <3>1. DOMAIN D = 1..w
      <4> HIDE DEF D
      <4> QED
        BY <1>2
    <3> HIDE DEF D
    <3> QED
      BY <1>1, <3>1
  <2> HIDE DEF S
  <2> QED
    BY <2>1, MaxOfBounded
<1> HIDE DEF j
<1>5. DOMAIN D = 1..w
  <2> HIDE DEF D
  <2> QED
    BY <1>2
<1>6. j \in 0..w /\ \A k \in j + 1..w : D[k] = 0
  <2> HIDE DEF D
  <2>1. j \in 0..w
    BY <1>1, <1>4, <1>5
  <2>2. ASSUME NEW k \in j + 1..w, D[k] # 0 PROVE FALSE
    <3>1. k \in 1..w /\ k > j
      BY <1>1, <2>1
    <3>2. k \in S
      BY <1>5, <2>2, <3>1
    <3> QED
      BY <1>1, <1>4, <2>1, <3>1, <3>2
  <2> QED
    BY <2>1, <2>2
<1>7. j # 0
  <2> SUFFICES ASSUME j = 0 PROVE FALSE
    OBVIOUS
  <2>1. NumberAt(D, 0, w) = us
    BY <1>1, DigitsMean, Zenon
  <2> HIDE DEF D
  <2>2. \A k \in 1..6 : Place(D, 0, w, k) = 0
    <3> TAKE k \in 1..6
    <3>1. CASE k <= w
      <4>1. D[0 + k] = 0
        BY <1>1, <1>6, <3>1
      <4>2. TenTo(w - k) \in Nat
        <5>1. w - k \in 0..6
          BY <1>1, <3>1
        <5> QED
          BY <5>1, TensMultiply
      <4> QED
        BY <4>1, <4>2 DEF Place
    <3>2. CASE ~(k <= w)
      BY <3>2 DEF Place
    <3> QED
      BY <3>1, <3>2
  <2>3. NumberAt(D, 0, w) = Place(D, 0, w, 1) + Place(D, 0, w, 2) + Place(D, 0, w, 3)
                              + Place(D, 0, w, 4) + Place(D, 0, w, 5) + Place(D, 0, w, 6)
    BY DEF NumberAt, Place
  <2>4. NumberAt(D, 0, w) = 0
    BY <2>2, <2>3
  <2> QED
    BY <1>1, <2>1, <2>4
<1>8. s \in Seq(Int) /\ Len(s) = j /\ \A k \in 1..j : s[k] = D[k]
  <2> HIDE DEF D
  <2>1. 0 \in Nat /\ j \in Nat /\ j = 0 + j /\ j <= Len(D) /\ 0 + 1 = 1
    BY <1>1, <1>2, <1>6
  <2>2. /\ SubSeq(D, 0 + 1, j) \in Seq(Int) /\ Len(SubSeq(D, 0 + 1, j)) = j
        /\ \A k \in 1..j : SubSeq(D, 0 + 1, j)[k] = D[0 + k]
    BY <1>2, <2>1, PartOf, Zenon
  <2>3. \A k \in 1..j : 0 + k = k
    BY <2>1
  <2> QED
    BY <1>3, <2>1, <2>2, <2>3
<1>9. j \in 1..w
  BY <1>1, <1>6, <1>7
<1>10. NumberAt(s, 0, j) * TenTo(w - j) = us
  BY <1>1, <1>6, <1>8, <1>9, SignificantDigits
<1>11. \A k \in 1..j : s[k] \in Digit
  <2> HIDE DEF D
  <2> QED
    BY <1>1, <1>2, <1>8, <1>9
<1> QED
  BY <1>8, <1>9, <1>10, <1>11 DEF s, w

(* The digits of a fraction end before the first mark that is none.        *)
LEMMA FractionEnds ==
  ASSUME NEW t \in Seq(Int), NEW e \in 20..Len(t), \A k \in 21..e : t[k] \in Digit,
         e < Len(t) => t[e + 1] \notin Digit
  PROVE  FractionEnd(t) = e
<1> DEFINE S == {k \in 21..Len(t) : ~IsDigitMark(t[k])} \cup {Len(t) + 1}
<1>1. Len(t) \in Nat /\ e \in Int /\ e >= 20 /\ e <= Len(t)
  OBVIOUS
<1>2. S \subseteq Int /\ e + 1 \in S /\ \A y \in S : e + 1 <= y
  <2>1. S \subseteq Int
    BY <1>1
  <2>2. e + 1 \in S
    <3>1. CASE e = Len(t)
      BY <3>1
    <3>2. CASE e < Len(t)
      <4>1. e + 1 \in 21..Len(t) /\ ~IsDigitMark(t[e + 1])
        BY <1>1, <3>2 DEF IsDigitMark, Digit
      <4> QED
        BY <4>1
    <3> QED
      BY <1>1, <3>1, <3>2
  <2>3. ASSUME NEW y \in S PROVE e + 1 <= y
    <3>1. CASE y = Len(t) + 1
      BY <1>1, <3>1
    <3>2. CASE y \in 21..Len(t) /\ ~IsDigitMark(t[y])
      <4>1. ~(y \in 21..e)
        BY <3>2 DEF IsDigitMark, Digit
      <4> QED
        BY <1>1, <3>2, <4>1
    <3> QED
      BY <3>1, <3>2
  <2> QED
    BY <2>1, <2>2, <2>3
<1>3. FractionEnd(t) = Min(S) - 1
  BY DEF FractionEnd
<1> HIDE DEF S
<1>4. Min(S) = e + 1
  BY <1>2, MinIs
<1> QED
  BY <1>1, <1>3, <1>4

(* The text of a date-time reads back as it.                               *)
LEMMA TextReadsBack ==
  ASSUME NEW d \in DateTimes, HasText(d)
  PROVE  /\ AsISO8601(d) \in Seq(Int)
         /\ CanParse(AsISO8601(d)) /\ FromISO8601(AsISO8601(d)) = d
<1> DEFINE h == DateText(d)
           us == d.microsecond
           f == FractionalSecond(us)
           u == h \o f
           t == u \o <<LETTER_Z>>
           w == FractionDigits
<1>1. AsISO8601(d) = t
  BY DEF AsISO8601, DateText
<1>2. h \in Seq(Int) /\ Len(h) = 19 /\ MarksStand(h) /\ DigitsStand(h) /\ Reads(h, d)
  <2>1. InRange(d, 0, 9999) /\ d.day \in 1..31
    BY SMT DEF HasText
  <2>2. d.year \in 0..9999 /\ d.month \in 1..12 /\ d.second \in 0..SecondsPerMinute
        /\ d.hour \in 0..HoursPerDay - 1 /\ d.minute \in 0..MinutesPerHour - 1
    BY <2>1, SMT DEF InRange
  <2>3. HasFields(d)
    BY <2>1, <2>2, ClockUnits, SMT DEF HasFields
  <2> QED
    BY <2>3, HeadIs, Zenon
<1> HIDE DEF h
<1>3. us \in 0..TicksPerSecond - 1
  BY DEF DateTimes
<1>4. TicksPerSecond \in Nat \ {0} /\ w \in 1..6
  BY ClockUnits, FieldAssumption
<1> HIDE DEF w
<1>5. /\ LETTER_Z = 14 /\ POINT = 13 /\ LETTER_Z \in Int /\ POINT \in Int /\ LETTER_Z # POINT
      /\ LETTER_Z \notin Digit
  BY DEF LETTER_Z, POINT, Digit
<1>6. ASSUME f \in Seq(Int)
      PROVE  /\ t \in Seq(Int) /\ Len(t) = 20 + Len(f) /\ t[Len(t)] = LETTER_Z
             /\ \A k \in 1..Len(f) : t[19 + k] = f[k]
             /\ MarksStand(t) /\ DigitsStand(t) /\ Reads(t, d)
  <2> HIDE DEF f
  <2>1. /\ u \in Seq(Int) /\ Len(u) = 19 + Len(f)
        /\ \A k \in 1..Len(h) : u[k] = h[k]
        /\ \A k \in 1..Len(f) : u[19 + k] = f[k]
    <3>1. /\ u \in Seq(Int) /\ Len(u) = Len(h) + Len(f)
          /\ \A k \in 1..Len(h) : u[k] = h[k]
          /\ \A k \in 1..Len(f) : u[Len(h) + k] = f[k]
      BY <1>2, <1>6, Concatenated, Zenon
    <3> HIDE DEF u
    <3> QED
      BY <1>2, <3>1, Zenon
  <2> HIDE DEF u
  <2>2. /\ t \in Seq(Int) /\ Len(t) = Len(u) + 1 /\ t[Len(u) + 1] = LETTER_Z
        /\ \A k \in 1..Len(u) : t[k] = u[k]
    BY <1>5, <2>1, MarkAfter
  <2> HIDE DEF t
  <2>3. Len(f) \in Nat
    BY <1>6
  <2>4. Begins(h, t)
    <3>1. Begins(h, u)
      BY <1>2, <2>1, <2>3 DEF Begins
    <3>2. Begins(u, t)
      BY <2>1, <2>2, <2>3 DEF Begins
    <3> QED
      BY <3>1, <3>2, BeginsOn
  <2>5. MarksStand(t) /\ DigitsStand(t) /\ Reads(t, d)
    BY <1>2, <2>4, HeadKept
  <2>6. \A k \in 1..Len(f) : t[19 + k] = f[k]
    <3> TAKE k \in 1..Len(f)
    <3>1. 19 + k \in 1..Len(u)
      BY <2>1, <2>3
    <3> QED
      BY <2>1, <2>2, <3>1
  <2>7. Len(t) = 20 + Len(f) /\ t[Len(t)] = LETTER_Z
    <3>1. Len(u) + 1 = 20 + Len(f)
      BY <2>1, <2>3
    <3> QED
      BY <2>2, <3>1, Zenon
  <2> QED
    BY <2>2, <2>5, <2>6, <2>7
<1>7. d = UTCDateTime(d.year, d.month, d.day, d.hour, d.minute, d.second, us)
  BY DEF DateTimes, UTCDateTime
<1>8. MarksStand(t) /\ DigitsStand(t) =>
        /\ t[5] = DASH /\ t[8] = DASH /\ t[11] = LETTER_T /\ t[14] = COLON_MARK /\ t[17] = COLON_MARK
        /\ \A k \in (1..19) \ {5, 8, 11, 14, 17} : IsDigitMark(t[k])
  BY DEF MarksStand, DigitsStand, IsDigitMark, Digit
<1>9. \A fraction : Reads(t, d) =>
        Parsed(t, fraction) = UTCDateTime(d.year, d.month, d.day, d.hour, d.minute, d.second,
                                NumberAt(fraction, 0, Len(fraction)) * TenTo(w - Len(fraction)))
  BY DEF Parsed, Reads, w
<1>10. CASE us = 0
  <2>1. f = <<>>
    BY <1>10 DEF FractionalSecond
  <2>2. t \in Seq(Int) /\ Len(t) = 20 /\ t[20] = LETTER_Z /\ MarksStand(t) /\ DigitsStand(t) /\ Reads(t, d)
    <3>1. f \in Seq(Int) /\ Len(f) = 0
      BY <2>1
    <3> HIDE DEF f, t
    <3>2. 20 + Len(f) = 20
      BY <3>1
    <3> QED
      BY <1>6, <3>1, <3>2, Zenon
  <2> HIDE DEF t
  <2>3. CanParse(t)
    BY <1>5, <1>8, <2>2 DEF CanParse
  <2>4. NumberAt(<<0>>, 0, 1) = 0 /\ TenTo(w - 1) \in Nat
    <3>1. w - 1 \in 0..6
      BY <1>4
    <3> DEFINE z == <<0>>
    <3>2. 0 \in Nat /\ 1 \in 1..6 /\ z[0 + 1] = 0 /\ \A k \in 1..1 : z[0 + k] \in Int
      OBVIOUS
    <3> HIDE DEF z
    <3>3. NumberAt(z, 0, 1) = z[0 + 1]
      BY <3>2, NumberOf
    <3>4. TenTo(w - 1) \in Nat
      BY <3>1, TensMultiply
    <3> QED
      BY <3>2, <3>3, <3>4 DEF z
  <2>5. FromISO8601(t) = Parsed(t, <<0>>)
    BY <1>5, <2>2 DEF FromISO8601
  <2>6. FromISO8601(t) = d
    <3>1. NumberAt(<<0>>, 0, Len(<<0>>)) * TenTo(w - Len(<<0>>)) = us
      <4>1. Len(<<0>>) = 1
        OBVIOUS
      <4>2. 0 * TenTo(w - 1) = 0
        BY <2>4
      <4> QED
        BY <1>10, <2>4, <4>1, <4>2, Zenon
    <3> HIDE DEF us
    <3> QED
      BY <1>7, <1>9, <2>2, <2>5, <3>1, Zenon
  <2> QED
    BY <1>1, <2>2, <2>3, <2>6 DEF t
<1>11. CASE us # 0
  <2> DEFINE s == Stripped(FieldDigits(us, FractionDigits))
             j == Len(s)
  <2>1. f = <<POINT>> \o s
    BY <1>11 DEF FractionalSecond
  <2>2. /\ s \in Seq(Int) /\ j \in 1..w /\ \A k \in 1..j : s[k] \in Digit
        /\ NumberAt(s, 0, j) * TenTo(w - j) = us
    <3>1. us \in 1..TicksPerSecond - 1
      BY <1>3, <1>4, <1>11
    <3> QED
      BY <3>1, FractionWritten DEF w
  <2> HIDE DEF s
  <2>3. f \in Seq(Int) /\ Len(f) = 1 + j /\ f[1] = POINT /\ \A k \in 1..j : f[1 + k] = s[k]
    <3>1. <<POINT>> \in Seq(Int) /\ Len(<<POINT>>) = 1 /\ <<POINT>>[1] = POINT
      BY <1>5
    <3> DEFINE g == <<POINT>>
    <3> HIDE DEF g
    <3>2. /\ g \o s \in Seq(Int) /\ Len(g \o s) = 1 + j /\ (g \o s)[1] = POINT
          /\ \A k \in 1..j : (g \o s)[1 + k] = s[k]
      <4>1. g \in Seq(Int) /\ Len(g) = 1 /\ g[1] = POINT /\ 1 \in 1..1
        BY <3>1 DEF g
      <4>2. /\ g \o s \in Seq(Int) /\ Len(g \o s) = Len(g) + Len(s)
            /\ \A k \in 1..Len(g) : (g \o s)[k] = g[k]
            /\ \A k \in 1..Len(s) : (g \o s)[Len(g) + k] = s[k]
        BY <2>2, <4>1, Concatenated, Zenon
      <4> DEFINE e == g \o s
      <4> HIDE DEF e
      <4> SUFFICES e \in Seq(Int) /\ Len(e) = 1 + Len(s) /\ e[1] = POINT /\ \A k \in 1..Len(s) : e[1 + k] = s[k]
        BY DEF e
      <4>3. /\ e \in Seq(Int) /\ Len(e) = Len(g) + Len(s)
            /\ \A k \in 1..Len(g) : e[k] = g[k]
            /\ \A k \in 1..Len(s) : e[Len(g) + k] = s[k]
        BY <4>2 DEF e
      <4> QED
        BY <4>1, <4>3, Zenon
    <3> QED
      BY <2>1, <3>2 DEF g
  <2> HIDE DEF f
  <2>4. j \in Nat /\ j >= 1 /\ j <= w
    BY <1>4, <2>2
  <2> HIDE DEF j
  <2>5. /\ t \in Seq(Int) /\ Len(t) = 21 + j /\ t[21 + j] = LETTER_Z /\ t[20] = POINT
        /\ \A k \in 1..j : t[20 + k] = s[k]
        /\ MarksStand(t) /\ DigitsStand(t) /\ Reads(t, d)
    <3> HIDE DEF t
    <3>1. /\ t \in Seq(Int) /\ Len(t) = 21 + j /\ t[21 + j] = LETTER_Z
          /\ MarksStand(t) /\ DigitsStand(t) /\ Reads(t, d)
      BY <1>6, <2>3, <2>4
    <3>2. \A k \in 1..1 + j : t[19 + k] = f[k]
      BY <1>6, <2>3
    <3>3. t[20] = POINT
      <4>1. 1 \in 1..1 + j /\ 19 + 1 = 20
        BY <2>4
      <4> QED
        BY <2>3, <3>2, <4>1
    <3>4. \A k \in 1..j : t[20 + k] = s[k]
      <4> TAKE k \in 1..j
      <4>1. 1 + k \in 1..1 + j /\ 19 + (1 + k) = 20 + k
        BY <2>4
      <4> QED
        BY <2>3, <3>2, <4>1
    <3> QED
      BY <3>1, <3>3, <3>4
  <2> HIDE DEF t
  <2>6. FractionEnd(t) = 20 + j
    <3>1. \A k \in 21..20 + j : t[k] \in Digit
      <4> TAKE k \in 21..20 + j
      <4>1. k - 20 \in 1..j /\ 20 + (k - 20) = k
        BY <2>4
      <4> QED
        BY <2>2, <2>5, <4>1 DEF j
    <3>2. 20 + j \in 20..Len(t) /\ t[20 + j + 1] \notin Digit
      BY <1>5, <2>4, <2>5
    <3> QED
      BY <2>5, <3>1, <3>2, FractionEnds
  <2>7. CanParse(t)
    <3>1. Last(t) = LETTER_Z
      BY <2>5 DEF Last
    <3>2. FractionEnd(t) \in 21..20 + FractionDigits /\ FractionEnd(t) + 1 = Len(t) /\ Len(t) >= 20
      BY <1>4, <2>4, <2>5, <2>6 DEF w
    <3> QED
      BY <1>8, <2>5, <3>1, <3>2 DEF CanParse
  <2> DEFINE p == SubSeq(t, 21, 20 + j)
  <2>8. Len(p) = j /\ \A k \in 1..j : p[k] = t[20 + k]
    <3> DEFINE o == 20
               n == o + j
    <3>1. o \in Nat /\ n \in Nat /\ n = o + j /\ n <= Len(t) /\ j \in Nat /\ t \in Seq(Int)
      BY <2>4, <2>5
    <3>2. o + 1 = 21
      OBVIOUS
    <3> HIDE DEF o, n
    <3>3. /\ Len(SubSeq(t, o + 1, n)) = j
          /\ \A k \in 1..j : SubSeq(t, o + 1, n)[k] = t[o + k]
      BY <3>1, PartOf
    <3> QED
      BY <3>2, <3>3 DEF o, n
  <2>9. FromISO8601(t) = Parsed(t, p)
    BY <2>5, <2>6 DEF FromISO8601
  <2> HIDE DEF p
  <2>10. NumberAt(p, 0, j) = NumberAt(s, 0, j)
    <3>1. SameDigits(p, 0, s, 0, j)
      BY <2>4, <2>5, <2>8 DEF SameDigits
    <3>2. j \in 1..6
      BY <1>4, <2>4
    <3> QED
      BY <3>1, <3>2, SameNumber
  <2>11. NumberAt(p, 0, Len(p)) * TenTo(w - Len(p)) = us
    BY <2>2, <2>8, <2>10 DEF j
  <2>12. FromISO8601(t) = d
    BY <1>7, <1>9, <2>5, <2>9, <2>11
  <2> QED
    BY <1>1, <2>5, <2>7, <2>12 DEF t
<1> QED
  BY <1>10, <1>11

-----------------------------------------------------------------------------
(* The module's invariant: instants and fields are integers, and a sleep   *)
(* has slept or has still to sleep what was asked.                         *)
CalendarInv == instant \in Int /\ dateTime \in DateTimes /\ NapSound(nap)

(* A text stays one when a mark is replaced, dropped or doubled.           *)
LEMMA TextsAreTexts ==
  ASSUME NEW s \in Seq(Int), NEW t \in Texts(s)
  PROVE  t \in Seq(Int)
<1>1. \A m \in Nat, n \in Nat : m >= 1 /\ n <= Len(s) => SubSeq(s, m, n) \in Seq(Int)
  OBVIOUS
<1>2. \A f \in Seq(Int), g \in Seq(Int) : f \o g \in Seq(Int)
  OBVIOUS
<1>3. \A x \in Int : <<x>> \in Seq(Int)
  OBVIOUS
<1>4. \A k \in DOMAIN s : /\ k \in Nat /\ k - 1 \in Nat /\ k + 1 \in Nat /\ k >= 1 /\ k - 1 <= Len(s)
                          /\ k + 1 >= 1 /\ s[k] \in Int
  OBVIOUS
<1>5. Len(s) \in Nat /\ 1 \in Nat /\ 1 >= 1 /\ Len(s) <= Len(s)
  OBVIOUS
<1>6. ASSUME NEW k \in DOMAIN s PROVE RemoveAt(s, k) \in Seq(Int) /\ InsertAt(s, k, s[k]) \in Seq(Int)
  <2>1. SubSeq(s, 1, k - 1) \in Seq(Int) /\ SubSeq(s, k + 1, Len(s)) \in Seq(Int) /\ SubSeq(s, k, Len(s)) \in Seq(Int)
    BY <1>1, <1>4, <1>5, Zenon
  <2>2. <<s[k]>> \in Seq(Int)
    BY <1>3, <1>4, Zenon
  <2> QED
    BY <1>2, <2>1, <2>2, Zenon DEF RemoveAt, InsertAt
<1>7. ASSUME NEW k \in DOMAIN s, NEW m \in {3, POINT} PROVE [s EXCEPT ![k] = m] \in Seq(Int)
  <2>1. m \in Int
    BY DEF POINT
  <2> QED
    BY <2>1
<1>8. \/ t = s
      \/ \E k \in DOMAIN s : t = RemoveAt(s, k) \/ t = InsertAt(s, k, s[k])
      \/ \E k \in DOMAIN s, m \in {3, POINT} : t = [s EXCEPT ![k] = m]
  <2> DEFINE A(k) == {RemoveAt(s, k), InsertAt(s, k, s[k])}
             E(k, m) == [s EXCEPT ![k] = m]
             U == UNION {A(k) : k \in DOMAIN s}
             V == {E(k, m) : k \in DOMAIN s, m \in {3, POINT}}
  <2>1. t \in {s} \cup V \cup U
    BY DEF Texts
  <2>2. \A k : t \in A(k) => t = RemoveAt(s, k) \/ t = InsertAt(s, k, s[k])
    OBVIOUS
  <2>3. t \in U => \E k \in DOMAIN s : t \in A(k)
    <3> HIDE DEF A
    <3> QED
      BY Zenon
  <2>4. t \in V => \E k \in DOMAIN s, m \in {3, POINT} : t = E(k, m)
    OBVIOUS
  <2> HIDE DEF A, U, V
  <2> QED
    BY <2>1, <2>2, <2>3, <2>4
<1> QED
  BY <1>6, <1>7, <1>8, Zenon

(* Whatever text is parsed, its fields are those of a date-time.           *)
LEMMA ParsedIsDateTime ==
  ASSUME NEW t \in Seq(Int), CanParse(t)
  PROVE  FromISO8601(t) \in DateTimes
<1> DEFINE w == FractionDigits
<1>1. w \in 1..6 /\ TicksPerSecond = TenTo(w)
  BY FieldAssumption DEF TicksPerSecond
<1> HIDE DEF w
<1>2. Len(t) \in Nat /\ \A k \in 1..Len(t) : t[k] \in Int
  OBVIOUS
<1>3. /\ Len(t) >= 20
      /\ \A k \in (1..19) \ {5, 8, 11, 14, 17} : t[k] \in Digit
  BY DEF CanParse, IsDigitMark, Digit
<1>4. ASSUME NEW o \in Nat, NEW n \in 1..6, \A k \in 1..n : t[o + k] \in Digit
      PROVE  NumberAt(t, o, n) \in Int
  <2>1. NumberAt(t, o, n) \in 0..TenTo(n) - 1
    BY <1>4, NumberIsBounded
  <2> QED
    BY <2>1
<1>5. /\ NumberAt(t, 0, 4) \in Int /\ NumberAt(t, 5, 2) \in Int /\ NumberAt(t, 8, 2) \in Int
      /\ NumberAt(t, 11, 2) \in Int /\ NumberAt(t, 14, 2) \in Int /\ NumberAt(t, 17, 2) \in Int
  <2>1. ASSUME NEW o \in {5, 8, 11, 14, 17} PROVE NumberAt(t, o, 2) \in Int
    <3>1. o \in Nat /\ 2 \in 1..6
      OBVIOUS
    <3>2. \A k \in 1..2 : t[o + k] \in Digit
      <4> TAKE k \in 1..2
      <4>1. o + k \in (1..19) \ {5, 8, 11, 14, 17}
        OBVIOUS
      <4> QED
        BY <1>3, <4>1
    <3> QED
      BY <1>4, <3>1, <3>2
  <2>2. NumberAt(t, 0, 4) \in Int
    <3>1. 0 \in Nat /\ 4 \in 1..6
      OBVIOUS
    <3>2. \A k \in 1..4 : t[0 + k] \in Digit
      BY <1>3
    <3> QED
      BY <1>4, <3>1, <3>2
  <2> QED
    BY <2>1, <2>2
<1>6. ASSUME NEW p, NEW j \in 1..w, Len(p) = j, \A k \in 1..j : p[k] \in Digit
      PROVE  Parsed(t, p) \in DateTimes
  <2>1. NumberAt(p, 0, j) \in 0..TenTo(j) - 1
    <3>1. 0 \in Nat /\ j \in 1..6 /\ \A k \in 1..j : p[0 + k] \in Digit
      BY <1>1, <1>6
    <3> QED
      BY <3>1, NumberIsBounded
  <2>2. NumberAt(p, 0, j) * TenTo(w - j) \in 0..TenTo(w) - 1
    BY <1>1, <2>1, FractionIsBounded
  <2> QED
    BY <1>1, <1>5, <1>6, <2>2 DEF Parsed, UTCDateTime, DateTimes, w
<1>7. CASE t[20] = POINT
  <2> DEFINE e == FractionEnd(t)
             S == {k \in 21..Len(t) : ~IsDigitMark(t[k])} \cup {Len(t) + 1}
  <2>1. e \in 21..20 + w /\ e + 1 = Len(t)
    BY <1>7 DEF CanParse, w
  <2>2. PICK x \in S : \A y \in S : x <= y
    <3>1. S \subseteq Nat /\ S # {}
      BY <1>2
    <3> HIDE DEF S
    <3> QED
      BY <3>1, LeastOf
  <2>3. S \subseteq Int
    BY <1>2
  <2>4. e = Min(S) - 1
    BY DEF FractionEnd
  <2>5. Min(S) = x
    <3> HIDE DEF S, e
    <3> QED
      BY <2>2, <2>3, MinIs
  <2>6. x \in Int /\ e = x - 1 /\ e \in Int
    <3> HIDE DEF S, e
    <3> QED
      BY <2>2, <2>3, <2>4, <2>5
  <2> HIDE DEF e
  <2>7. \A k \in 21..e : t[k] \in Digit
    <3> TAKE k \in 21..e
    <3>1. k \in 21..Len(t) /\ ~(x <= k)
      BY <1>2, <2>1, <2>6
    <3>2. k \notin S
      BY <2>2, <3>1
    <3> QED
      BY <3>1, <3>2 DEF IsDigitMark, Digit
  <2> DEFINE p == SubSeq(t, 21, e)
             j == e - 20
  <2>8. j \in 1..w /\ j \in Nat /\ 20 \in Nat /\ e \in Nat /\ e = 20 + j /\ e <= Len(t) /\ 20 + 1 = 21
    BY <1>1, <1>2, <2>1
  <2> HIDE DEF j
  <2>9. /\ Len(SubSeq(t, 20 + 1, e)) = j
        /\ \A k \in 1..j : SubSeq(t, 20 + 1, e)[k] = t[20 + k]
    <3>1. t \in Seq(Int) /\ j \in Nat /\ 20 \in Nat /\ 20 + j \in Nat /\ 20 + j <= Len(t)
      BY <2>8
    <3>2. /\ Len(SubSeq(t, 20 + 1, 20 + j)) = j
          /\ \A k \in 1..j : SubSeq(t, 20 + 1, 20 + j)[k] = t[20 + k]
      <4> DEFINE o == 20
                 n == o + j
      <4>1. o \in Nat /\ n \in Nat /\ n = o + j /\ n <= Len(t) /\ j \in Nat
        BY <3>1
      <4> HIDE DEF o, n, S
      <4>2. /\ Len(SubSeq(t, o + 1, n)) = j
            /\ \A k \in 1..j : SubSeq(t, o + 1, n)[k] = t[o + k]
        BY <4>1, PartOf
      <4> QED
        BY <4>2 DEF o, n
    <3>3. e = 20 + j
      BY <2>8
    <3> QED
      BY <3>2, <3>3, Zenon
  <2>10. Len(p) = j /\ \A k \in 1..j : p[k] \in Digit
    <3>1. \A k \in 1..j : 20 + k \in 21..e
      BY <2>8
    <3> QED
      BY <2>7, <2>8, <2>9, <3>1
  <2>11. FromISO8601(t) = Parsed(t, p)
    BY <1>7 DEF FromISO8601, e
  <2> HIDE DEF p
  <2> QED
    BY <1>6, <2>8, <2>10, <2>11
<1>8. CASE t[20] # POINT
  <2> DEFINE z == <<0>>
  <2>1. Len(z) = 1 /\ z[1] = 0 /\ 0 \in Digit /\ 1 \in 1..w
    BY <1>1 DEF Digit
  <2>2. FromISO8601(t) = Parsed(t, z)
    BY <1>8 DEF FromISO8601
  <2> HIDE DEF z
  <2>3. \A k \in 1..1 : z[k] \in Digit
    BY <2>1
  <2> QED
    BY <1>6, <2>1, <2>2, <2>3
<1> QED
  BY <1>7, <1>8

(* Who is awake has slept what was asked: nothing.                         *)
LEMMA AwakeIsSound == NapSound(Awake) /\ Awake \in Naptimes
BY DEF NapSound, Naptimes, Awake

(* The invariant holds at first.                                           *)
LEMMA CalendarInitial == CalendarInit => CalendarInv
<1> SUFFICES ASSUME CalendarInit PROVE CalendarInv
  OBVIOUS
<1>1. instant \in Int /\ nap = Awake /\ dateTime = FromInstant(instant)
  BY FieldAssumption DEF CalendarInit
<1>2. dateTime \in DateTimes
  BY <1>1, FromInstantExact DEF Proper
<1> QED
  BY <1>1, <1>2, AwakeIsSound DEF CalendarInv

(* The invariant is kept by every call and every step of a sleep.          *)
LEMMA CalendarKept == CalendarInv /\ [CalendarNext]_calendarVars => CalendarInv'
<1> SUFFICES ASSUME CalendarInv, [CalendarNext]_calendarVars PROVE CalendarInv'
  OBVIOUS
<1>1. instant \in Int /\ dateTime \in DateTimes /\ NapSound(nap)
  BY DEF CalendarInv
<1>2. ASSUME NEW d \in Durations, AfterDuration(d) \/ BeforeDuration(d) PROVE CalendarInv'
  <2>1. d \in Int
    BY FieldAssumption
  <2>2. instant' \in Int /\ dateTime' = dateTime /\ nap' = nap
    BY <1>1, <1>2, <2>1 DEF AfterDuration, BeforeDuration
  <2> QED
    BY <1>1, <2>2 DEF CalendarInv
<1>3. CASE ToInstant
  <2>1. instant' = AsInstant(dateTime) /\ IsDate(dateTime) /\ dateTime' = dateTime /\ nap' = nap
    BY <1>3 DEF ToInstant
  <2>2. instant' \in Int
    BY <1>1, <2>1, DateHasInstant
  <2> QED
    BY <1>1, <2>1, <2>2 DEF CalendarInv
<1>4. CASE ToDateTime
  <2>1. dateTime' = FromInstant(instant) /\ instant' = instant /\ nap' = nap
    BY <1>4 DEF ToDateTime
  <2>2. dateTime' \in DateTimes
    BY <1>1, <2>1, FromInstantExact DEF Proper
  <2> QED
    BY <1>1, <2>1, <2>2 DEF CalendarInv
<1>5. CASE FromFields
  <2>1. instant' = instant /\ nap' = nap
    BY <1>5 DEF FromFields
  <2>2. dateTime' \in DateTimes
    <3>1. PICK y \in Years, m \in {0, 1, 2, 3, 12}, d \in {1, 28, 29, 31}, s \in {0, SecondsPerMinute} :
             dateTime' = UTCDateTime(y, m, d, HoursPerDay - 1, MinutesPerHour - 1, s, TicksPerSecond - 1)
      BY <1>5 DEF FromFields
    <3>2. /\ y \in Int /\ m \in Int /\ d \in Int /\ s \in Int
          /\ HoursPerDay - 1 \in Int /\ MinutesPerHour - 1 \in Int /\ TicksPerSecond - 1 \in 0..TicksPerSecond - 1
      BY FieldAssumption, ClockUnits
    <3> QED
      BY <3>1, <3>2 DEF UTCDateTime, DateTimes
  <2> QED
    BY <1>1, <2>1, <2>2 DEF CalendarInv
<1>6. CASE ParseText
  <2>1. instant' = instant /\ nap' = nap /\ HasText(dateTime)
    BY <1>6 DEF ParseText
  <2>2. PICK t \in Texts(AsISO8601(dateTime)) : CanParse(t) /\ dateTime' = FromISO8601(t)
    BY <1>6 DEF ParseText
  <2>3. AsISO8601(dateTime) \in Seq(Int)
    BY <1>1, <2>1, TextReadsBack
  <2>4. t \in Seq(Int)
    BY <2>3, TextsAreTexts
  <2>5. dateTime' \in DateTimes
    BY <2>2, <2>4, ParsedIsDateTime
  <2> QED
    BY <1>1, <2>1, <2>5 DEF CalendarInv
<1>7. CASE StartSleep
  <2>1. PICK d \in Naps : nap' = NextChunk([Awake EXCEPT !.remaining = d, !.asked = d])
    BY <1>7 DEF StartSleep
  <2>2. instant' = instant /\ dateTime' = dateTime
    BY <1>7 DEF StartSleep
  <2> DEFINE n == [Awake EXCEPT !.remaining = d, !.asked = d]
  <2>3. n \in Naptimes /\ n.passed + n.remaining = n.asked
    <3>1. d \in Nat
      BY FieldAssumption
    <3> QED
      <4>1. Awake \in Naptimes /\ Awake.passed = 0
        BY AwakeIsSound DEF Awake
      <4>2. n \in Naptimes
        BY <3>1, <4>1 DEF Naptimes
      <4>3. n.passed = 0 /\ n.remaining = d /\ n.asked = d
        BY <4>1 DEF Naptimes
      <4> QED
        BY <3>1, <4>2, <4>3
  <2> HIDE DEF n
  <2>4. NapSound(NextChunk(n))
    BY <2>3, ChunkOfRest
  <2> QED
    BY <1>1, <2>1, <2>2, <2>4 DEF CalendarInv, n
<1>8. CASE SleepStep
  <2>1. instant' = instant /\ dateTime' = dateTime
    BY <1>8 DEF SleepStep
  <2>2. NapSound(nap')
    BY <1>1, <1>8, SleepKeepsSound
  <2> QED
    BY <1>1, <2>1, <2>2 DEF CalendarInv
<1>9. CASE UNCHANGED calendarVars
  BY <1>1, <1>9 DEF calendarVars, CalendarInv
<1> QED
  BY <1>2, <1>3, <1>4, <1>5, <1>6, <1>7, <1>8, <1>9 DEF CalendarNext

(* The invariant is as strong as the property.                             *)
LEMMA CalendarInvIsSound == CalendarInv => CalendarSound
<1> SUFFICES ASSUME CalendarInv PROVE CalendarSound
  OBVIOUS
<1>1. instant \in Int /\ dateTime \in DateTimes /\ NapSound(nap)
  BY DEF CalendarInv
<1>2. CalendarExact
  BY <1>1, ExactOfAny
<1>3. TextIsExact
  <2>1. HasText(dateTime) => CanParse(AsISO8601(dateTime)) /\ FromISO8601(AsISO8601(dateTime)) = dateTime
    BY <1>1, TextReadsBack
  <2> QED
    BY <2>1 DEF TextIsExact
<1>4. SleepsLongEnough
  <2>1. /\ nap.request \in Nat /\ nap.chunk \in Nat /\ nap.remaining \in Nat /\ nap.passed \in Nat
        /\ nap.asked \in Nat
        /\ nap.request = 0 => nap.remaining = 0
        /\ nap.chunk <= nap.remaining
        /\ nap.passed + nap.remaining = nap.asked + (nap.chunk - nap.request)
    BY <1>1 DEF NapSound, Naptimes
  <2> QED
    BY <2>1 DEF SleepsLongEnough
<1> QED
  BY <1>2, <1>3, <1>4 DEF CalendarSound

(* In every program, whatever instants, durations, fields and naps it      *)
(* uses: an instant comes back from its date-time and a date-time from its *)
(* instant, later instants have later date-times, a text reads back as its *)
(* date-time, and a sleep lasts as long as it was asked to (DateTime.c:115,*)
(* :193, :328, :409, Instant.c:76).                                        *)
THEOREM CalendarStaysSound == CalendarSpec => []CalendarSound
<1>1. CalendarInit => CalendarInv
  BY CalendarInitial
<1>2. CalendarInv /\ [CalendarNext]_calendarVars => CalendarInv'
  BY CalendarKept
<1>3. CalendarInv => CalendarSound
  BY CalendarInvIsSound
<1> QED
  BY <1>1, <1>2, <1>3, PTL DEF CalendarSpec

-----------------------------------------------------------------------------
(* RWLockWord: the fields of the word are the counts of its threads.       *)


(* Cardinalities of the two sets the word counts. *)
LEMMA CountedFinite ==
  /\ IsFiniteSet(Holders("read")) /\ Cardinality(Holders("read")) \in Nat
  /\ IsFiniteSet(Counted) /\ Cardinality(Counted) \in Nat
<1>1. Holders("read") \subseteq Threads /\ Counted \subseteq Threads
  BY DEF Holders, Counted
<1> QED
  BY <1>1, RWAssumption, FS_Subset, FS_CardinalityType

(* A word that LT_RWLockWord_init has set up satisfies the invariant.      *)
LEMMA InitIInv == Init => IInv
<1> SUFFICES ASSUME Init PROVE IInv
  OBVIOUS
<1>1. Holders("read") = {} /\ Counted = {} /\ Holders("write") = {}
  BY DEF Init, Holders, Counted
<1>2. WordInv
  BY <1>1, FS_EmptySet DEF Init, WordInv
<1> QED
  BY <1>2, RWAssumption DEF Init, IInv, TypeOK, WriterAlone, QueueInv, CallInv, Labels, InQueue


(* A step in which the readers and the writer change with the holders and  *)
(* the waiter count with the counted threads keeps the word exact. *)
LEMMA WordKept ==
  ASSUME WordInv, UNCHANGED <<writer, readers, held>>, waiters' = waiters, Counted' = Counted
  PROVE  WordInv'
<1>1. Holders("read")' = Holders("read") /\ Holders("write")' = Holders("write")
  BY DEF Holders
<1> QED
  BY <1>1 DEF WordInv

(* A reader that takes the lock is counted once.                           *)
LEMMA ReaderAdded ==
  ASSUME TypeOK, readers = Cardinality(Holders("read")),
         NEW t \in Threads, held[t] = "none",
         held' = [held EXCEPT ![t] = "read"], readers' = readers + 1
  PROVE  readers' = Cardinality(Holders("read")')
<1>1. Holders("read")' = Holders("read") \cup {t} /\ t \notin Holders("read")
  BY DEF Holders, TypeOK
<1> QED
  BY <1>1, CountedFinite, FS_AddElement

(* A reader that leaves is taken off the count.                            *)
LEMMA ReaderRemoved ==
  ASSUME TypeOK, readers = Cardinality(Holders("read")),
         NEW t \in Threads, held[t] = "read",
         held' = [held EXCEPT ![t] = "none"], readers' = readers - 1
  PROVE  readers' = Cardinality(Holders("read")') /\ readers > 0
<1>1. Holders("read")' = Holders("read") \ {t} /\ t \in Holders("read")
  BY DEF Holders, TypeOK
<1> QED
  BY <1>1, CountedFinite, FS_RemoveElement, FS_EmptySet

(* The count of readers is zero exactly when nobody reads.                 *)
LEMMA NoReaders ==
  ASSUME readers = Cardinality(Holders("read"))
  PROVE  readers = 0 <=> \A t \in Threads : held[t] # "read"
<1>1. Cardinality(Holders("read")) = 0 <=> Holders("read") = {}
  BY CountedFinite, FS_EmptySet
<1> QED
  BY <1>1 DEF Holders

(* A thread that enters a slow path is counted as a waiter once.           *)
LEMMA CountedAdded ==
  ASSUME TypeOK, waiters = Cardinality(Counted), waiters' = waiters + 1,
         NEW t \in Threads, t \notin Counted, Counted' = Counted \cup {t}
  PROVE  waiters' = Cardinality(Counted')
BY CountedFinite, FS_AddElement

(* A thread that leaves a slow path is taken off the count of waiters,     *)
(* which was not zero.                                                     *)
LEMMA CountedRemoved ==
  ASSUME TypeOK, waiters = Cardinality(Counted), waiters' = waiters - 1,
         NEW t \in Counted, Counted' = Counted \ {t}
  PROVE  waiters' = Cardinality(Counted') /\ waiters > 0
<1>1. Cardinality(Counted \ {t}) = Cardinality(Counted) - 1
  BY CountedFinite, FS_RemoveElement
<1>2. Cardinality(Counted) # 0
  BY CountedFinite, FS_EmptySet
<1> QED
  BY <1>1, <1>2, CountedFinite

-----------------------------------------------------------------------------
(* Every step of the reader-writer word keeps the invariant, one case per  *)
(* action.                                                                 *)
LEMMA StepIInv == IInv /\ [Next]_vars => IInv'
<1> SUFFICES ASSUME IInv, [Next]_vars PROVE IInv'
  OBVIOUS
<1>0. (readers = 0 <=> \A t \in Threads : held[t] # "read")
      /\ (writer <=> \E t \in Threads : held[t] = "write")
  BY NoReaders DEF IInv, WordInv, Holders
<1> USE RWAssumption
    DEF IInv, TypeOK, Labels, InQueue, Goto, word
<1>1. ASSUME NEW t \in Threads, NEW m \in {"read", "write"}, Lock(t, m) PROVE IInv'
  <2>1. CASE TryLock(t, m)
    <3>1. Counted' = Counted
      BY <2>1 DEF TryLock, Counted
    <3>2. CASE m = "read"
      <4>1. readers' = Cardinality(Holders("read")')
        BY <1>1, <2>1, <3>2, ReaderAdded DEF Lock, TryLock, Take, WordInv
      <4>2. WordInv'
        BY <1>1, <1>0, <2>1, <3>1, <3>2, <4>1
        DEF Lock, TryLock, Take, FastAllowed, WordInv, Holders
      <4> QED
        BY <1>1, <1>0, <2>1, <3>2, <4>2
        DEF Lock, TryLock, Take, FastAllowed, WriterAlone, QueueInv, CallInv
    <3>3. CASE m = "write"
      <4>1. Holders("read")' = Holders("read")
        BY <1>1, <2>1, <3>3 DEF Lock, TryLock, Take, Holders
      <4>2. WordInv'
        BY <1>1, <2>1, <3>1, <3>3, <4>1 DEF Lock, TryLock, Take, WordInv, Holders
      <4> QED
        BY <1>1, <1>0, <2>1, <3>3, <4>2
        DEF Lock, TryLock, Take, FastAllowed, WriterAlone, QueueInv, CallInv
    <3> QED
      BY <3>2, <3>3
  <2>2. CASE ~TryLock(t, m)
    <3>1. Counted' = Counted
      BY <1>1, <2>2 DEF Lock, Counted
    <3>2. WordInv'
      BY <1>1, <2>2, <3>1, WordKept DEF Lock
    <3> QED
      BY <1>1, <2>2, <3>2 DEF Lock, WriterAlone, QueueInv, CallInv
  <2> QED
    BY <2>1, <2>2
<1>2. ASSUME NEW t \in Threads, Enter(t) PROVE IInv'
  <2>1. Counted' = Counted
    BY <1>2 DEF Enter, Counted
  <2>2. WordInv'
    BY <1>2, <2>1, WordKept DEF Enter
  <2> QED
    BY <1>2, <2>2 DEF Enter, WriterAlone, QueueInv, CallInv
<1>3. ASSUME NEW t \in Threads, Count(t) PROVE IInv'
  <2>1. Counted' = Counted \cup {t} /\ t \notin Counted
    BY <1>3 DEF Count, Counted
  <2>2. waiters' = Cardinality(Counted')
    BY <1>3, <2>1, CountedAdded DEF Count, WordInv
  <2>3. Holders("read")' = Holders("read") /\ Holders("write")' = Holders("write")
    BY <1>3 DEF Count, Holders
  <2>4. WordInv'
    BY <1>3, <2>2, <2>3 DEF Count, WordInv
  <2> QED
    BY <1>3, <2>4 DEF Count, WriterAlone, QueueInv, CallInv
<1>4. ASSUME NEW t \in Threads, Try(t) PROVE IInv'
  <2>1. CASE ~SlowAllowed(mode[t])
    <3>1. Counted' = Counted
      BY <1>4, <2>1 DEF Try, Counted
    <3>2. WordInv'
      BY <1>4, <2>1, <3>1, WordKept DEF Try
    <3> QED
      BY <1>4, <2>1, <3>2 DEF Try, WriterAlone, QueueInv, CallInv
  <2>2. CASE SlowAllowed(mode[t])
    <3>1. Counted' = Counted \ {t} /\ t \in Counted
      BY <1>4, <2>2 DEF Try, Counted
    <3>2. waiters' = Cardinality(Counted') /\ waiters > 0
      BY <1>4, <2>2, <3>1, CountedRemoved DEF Try, WordInv
    <3>3. held[t] = "none"
      BY <1>4 DEF Try, CallInv
    <3>4. CASE mode[t] = "read"
      <4>1. readers' = Cardinality(Holders("read")')
        BY <1>4, <2>2, <3>3, <3>4, ReaderAdded DEF Try, Take, WordInv
      <4>2. WordInv'
        BY <1>4, <1>0, <2>2, <3>2, <3>3, <3>4, <4>1
        DEF Try, Take, SlowAllowed, WordInv, Holders
      <4> QED
        BY <1>4, <1>0, <2>2, <3>2, <3>4, <4>2
        DEF Try, Take, SlowAllowed, WriterAlone, QueueInv, CallInv
    <3>5. CASE mode[t] = "write"
      <4>1. Holders("read")' = Holders("read")
        BY <1>4, <2>2, <3>3, <3>5 DEF Try, Take, Holders
      <4>2. WordInv'
        BY <1>4, <2>2, <3>2, <3>5, <4>1 DEF Try, Take, WordInv, Holders
      <4>3. TypeOK' /\ QueueInv' /\ CallInv'
        BY <1>4, <2>2, <3>2, <3>5 DEF Try, Take, QueueInv, CallInv
      <4>4. WriterAlone'
        BY <1>4, <1>0, <2>2, <3>5 DEF Try, Take, SlowAllowed, WriterAlone
      <4> QED
        BY <4>2, <4>3, <4>4
    <3> QED
      BY <3>4, <3>5
  <2> QED
    BY <2>1, <2>2
<1>5. ASSUME NEW t \in Threads, Leave(t) PROVE IInv'
  <2>1. Counted' = Counted
    BY <1>5 DEF Leave, Counted
  <2>2. WordInv'
    BY <1>5, <2>1, WordKept DEF Leave
  <2> QED
    BY <1>5, <2>2 DEF Leave, WriterAlone, QueueInv, CallInv
<1>6. ASSUME NEW t \in Threads, Unlock(t) PROVE IInv'
  <2>1. Counted' = Counted
    BY <1>6 DEF Unlock, Counted
  <2>2. CASE held[t] = "write"
    <3>1. Holders("read")' = Holders("read") /\ Holders("write")' = {}
      BY <1>6, <2>2 DEF Unlock, Holders, WriterAlone
    <3>2. WordInv'
      BY <1>6, <2>1, <2>2, <3>1 DEF Unlock, WordInv
    <3> QED
      BY <1>6, <2>2, <3>2 DEF Unlock, WriterAlone, QueueInv, CallInv
  <2>3. CASE held[t] = "read"
    <3>1. readers' = Cardinality(Holders("read")') /\ readers > 0
      BY <1>6, <2>3, ReaderRemoved DEF Unlock, WordInv
    <3>2. Holders("write")' = Holders("write")
      BY <1>6, <2>3 DEF Unlock, Holders
    <3>3. WordInv'
      BY <1>6, <2>1, <2>3, <3>1, <3>2 DEF Unlock, WordInv
    <3> QED
      BY <1>6, <2>3, <3>1, <3>3 DEF Unlock, WriterAlone, QueueInv, CallInv
  <2> QED
    BY <1>6, <2>2, <2>3 DEF Unlock
<1>7. ASSUME NEW t \in Threads, Wake(t) PROVE IInv'
  <2>1. Counted' = Counted
    BY <1>7 DEF Wake, Counted
  <2>2. WordInv'
    BY <1>7, <2>1, WordKept DEF Wake
  <2> QED
    BY <1>7, <2>2 DEF Wake, WriterAlone, QueueInv, CallInv
<1>8. ASSUME NEW t \in Threads, SpuriousWakeup(t) PROVE IInv'
  <2>1. Counted' = Counted
    BY <1>8 DEF SpuriousWakeup, Counted
  <2>2. WordInv'
    BY <1>8, <2>1, WordKept DEF SpuriousWakeup
  <2> QED
    BY <1>8, <2>2 DEF SpuriousWakeup, WriterAlone, QueueInv, CallInv
<1>9. CASE UNCHANGED vars
  <2>1. Counted' = Counted
    BY <1>9 DEF vars, Counted
  <2>2. WordInv'
    BY <1>9, <2>1, WordKept DEF vars
  <2> QED
    BY <1>9, <2>2 DEF vars, WriterAlone, QueueInv, CallInv
<1> HIDE DEF IInv
<1> QED
  BY <1>1, <1>2, <1>3, <1>4, <1>5, <1>6, <1>7, <1>8, <1>9 DEF Next, Continue

(* The word counts its holders and its waiters exactly in every run.       *)
THEOREM WordExact == Spec => []IInv
BY InitIInv, StepIInv, PTL DEF Spec

(* A writer excludes every other holder, for any number of threads.        *)
THEOREM WriterIsAlone == Spec => []WriterAlone
<1>1. IInv => WriterAlone
  BY DEF IInv
<1> QED
  BY <1>1, WordExact, PTL

-----------------------------------------------------------------------------
(* A thread that is about to sleep or asleep is counted, so an unlock that *)
(* leaves the lock free sees it. *)
LEMMA SleeperCounted ==
  ASSUME IInv, NEW t \in Threads, pc[t] \in {"park", "parked"}
  PROVE  waiters > 0
<1>1. t \in Counted
  BY DEF Counted
<1> QED
  BY <1>1, CountedFinite, FS_EmptySet DEF IInv, WordInv

(* A step leaves no sleeper with a lock it could have, unless an unlock    *)
(* is about to broadcast.                                                  *)
LEMMA StepNoSleeperStranded ==
  IInv /\ NoSleeperStranded /\ [Next]_vars => NoSleeperStranded'
<1> SUFFICES ASSUME IInv, NoSleeperStranded, [Next]_vars,
                    NEW t \in Threads, pc'[t] \in {"park", "parked"},
                    SlowAllowed(mode[t])'
             PROVE  \E u \in Threads : pc'[u] = "wake"
  BY DEF NoSleeperStranded
<1>a. TypeOK /\ QueueInv
  BY DEF IInv
<1>b. ASSUME pc[t] \in {"park", "parked"} PROVE waiters > 0
  BY <1>b, SleeperCounted
<1>c. ASSUME NEW v \in Threads, held[v] = "write" PROVE readers = 0
  BY <1>c, NoReaders DEF IInv, WordInv, WriterAlone
<1> USE RWAssumption
    DEF NoSleeperStranded, TypeOK, Labels, InQueue, Goto, word, SlowAllowed
<1>1. ASSUME NEW v \in Threads, NEW m \in {"read", "write"}, Lock(v, m)
      PROVE  \E u \in Threads : pc'[u] = "wake"
  BY <1>1, <1>a, <1>b DEF Lock, TryLock, Take, FastAllowed
<1>2. ASSUME NEW v \in Threads, Enter(v) PROVE \E u \in Threads : pc'[u] = "wake"
  BY <1>2, <1>a DEF Enter
<1>3. ASSUME NEW v \in Threads, Count(v) PROVE \E u \in Threads : pc'[u] = "wake"
  BY <1>3, <1>a DEF Count
<1>4. ASSUME NEW v \in Threads, Try(v) PROVE \E u \in Threads : pc'[u] = "wake"
  BY <1>4, <1>a DEF Try, Take
<1>5. ASSUME NEW v \in Threads, Leave(v) PROVE \E u \in Threads : pc'[u] = "wake"
  BY <1>5, <1>a DEF Leave
<1>6. ASSUME NEW v \in Threads, Unlock(v) PROVE \E u \in Threads : pc'[u] = "wake"
  <2>1. CASE held[v] = "write"
    BY <1>6, <1>a, <1>b, <1>c, <2>1 DEF Unlock, Active
  <2>2. CASE held[v] = "read"
    BY <1>6, <1>a, <1>b, <2>2 DEF Unlock, Active
  <2> QED
    BY <1>6, <1>a, <2>1, <2>2 DEF Unlock
<1>7. ASSUME NEW v \in Threads, Wake(v) PROVE \E u \in Threads : pc'[u] = "wake"
  BY <1>7, <1>a DEF Wake, QueueInv
<1>8. ASSUME NEW v \in Threads, SpuriousWakeup(v) PROVE \E u \in Threads : pc'[u] = "wake"
  BY <1>8, <1>a DEF SpuriousWakeup
<1>9. CASE UNCHANGED vars
  BY <1>9, <1>a DEF vars
<1> QED
  BY <1>1, <1>2, <1>3, <1>4, <1>5, <1>6, <1>7, <1>8, <1>9 DEF Next, Continue

(* No thread sleeps for a lock it could have, for any number of threads.   *)
THEOREM SleepersServed == Spec => []NoSleeperStranded
<1>1. Init => NoSleeperStranded
  BY DEF Init, NoSleeperStranded
<1> QED
  BY <1>1, StepNoSleeperStranded, WordExact, PTL DEF Spec
=============================================================================
