---------------------------- MODULE BigIntegers ----------------------------
(***************************************************************************)
(* src/src/classes/BigInteger.c: integers of any size as a sign and limbs, *)
(* the lowest first, and the small integers they turn into and come from.  *)
(* Two integers of a program go through every operation; beside them run   *)
(* the numbers they should be.                                             *)
(***************************************************************************)
EXTENDS Integers, Sequences, SequencesExt

CONSTANTS LimbBits,    \* 32 in the code
          FixnumMax,   \* LT_VALUE_FIXNUM_MAX; the least fixnum is one further
          ChunkBase,   \* the base decimal output is cut in, 10^9 in the code
          MaxMagnitude \* bound: results beyond it are not followed

ASSUME LimbBitsAssumption == LimbBits \in Nat \ {0}

VARIABLES first, second,            \* the integers
          firstNumber, secondNumber \* history: the numbers

integerVars == <<first, second, firstNumber, secondNumber>>

Base == 2 ^ LimbBits
FixnumMin == -FixnumMax - 1

Small(n) == [small |-> TRUE, value |-> n]
Big(negative, limbs) == [small |-> FALSE, negative |-> negative, limbs |-> limbs]

--------------------------------------------------------------------------
(* Magnitudes. *)

Limb(l, i) == IF i \in DOMAIN l THEN l[i] ELSE 0

(* trim_limb_count *)
Trim(l) == LET top == CHOOSE k \in 0..Len(l) :
                        /\ k = 0 \/ l[k] # 0
                        /\ \A i \in (k + 1)..Len(l) : l[i] = 0
           IN SubSeq(l, 1, top)

(* compare_abs_limbs: the highest limb that differs decides. *)
CompareAbs(l, r) ==
  LET a == Trim(l)  b == Trim(r)
      differ == {i \in DOMAIN a : a[i] # b[i]}
      top == CHOOSE i \in differ : \A j \in differ : j <= i IN
  CASE Len(a) # Len(b) -> IF Len(a) < Len(b) THEN -1 ELSE 1
    [] Len(a) = Len(b) /\ differ = {} -> 0
    [] OTHER -> IF a[top] < b[top] THEN -1 ELSE 1

(* Mutant of AddAbs: the carry out of the highest limb is dropped. *)
AddAbsNoCarryOut(l, r) ==
  LET n == IF Len(l) > Len(r) THEN Len(l) ELSE Len(r)
      carry[i \in 0..n] ==
        IF i = 0 THEN 0 ELSE (carry[i - 1] + Limb(l, i) + Limb(r, i)) \div Base
  IN Trim([i \in 1..n |-> (carry[i - 1] + Limb(l, i) + Limb(r, i)) % Base])

(* add_abs_limbs *)
AddAbs(l, r) ==
  LET n == IF Len(l) > Len(r) THEN Len(l) ELSE Len(r)
      carry[i \in 0..n] ==
        IF i = 0 THEN 0 ELSE (carry[i - 1] + Limb(l, i) + Limb(r, i)) \div Base
  IN Trim([i \in 1..(n + 1) |->
             IF i > n THEN carry[n] ELSE (carry[i - 1] + Limb(l, i) + Limb(r, i)) % Base])

(* subtract_abs_limbs, subtract_abs_inplace: l is not less than r. *)
SubtractAbs(l, r) ==
  LET borrow[i \in 0..Len(l)] ==
        IF i = 0 THEN 0 ELSE IF l[i] < Limb(r, i) + borrow[i - 1] THEN 1 ELSE 0
  IN Trim([i \in DOMAIN l |->
             l[i] - (Limb(r, i) + borrow[i - 1]) + IF borrow[i] = 1 THEN Base ELSE 0])

(* multiply_abs_limbs adds a row for each limb of l and carries on past it. *)
AddRow(result, i, l, r) ==
  LET n == Len(result) - i + 1
      carry[j \in 0..n] ==
        IF j = 0 THEN 0
        ELSE (l[i] * Limb(r, j) + result[i + j - 1] + carry[j - 1]) \div Base
  IN [k \in DOMAIN result |->
        IF k < i THEN result[k]
        ELSE (l[i] * Limb(r, k - i + 1) + result[k] + carry[k - i]) % Base]
MultiplyAbs(l, r) ==
  Trim(FoldLeft(LAMBDA result, i : AddRow(result, i, l, r),
                [k \in 1..(Len(l) + Len(r)) |-> 0],
                [i \in DOMAIN l |-> i]))

BitLengthAbs(l) ==
  LET t == Trim(l) IN
  IF t = <<>> THEN 0
  ELSE (Len(t) - 1) * LimbBits
       + CHOOSE b \in 1..LimbBits : 2 ^ (b - 1) <= Last(t) /\ Last(t) < 2 ^ b

ShiftLeftAbs(l, shift) ==
  LET words == shift \div LimbBits
      by == 2 ^ (shift % LimbBits) IN
  IF l = <<>> THEN <<>>
  ELSE Trim([i \in 1..(Len(l) + words + IF by = 1 THEN 0 ELSE 1) |->
               ((Limb(l, i - words) * by) % Base)
               + ((Limb(l, i - words - 1) * by) \div Base)])

ShiftRightOne(l) ==
  Trim([i \in DOMAIN l |-> (l[i] \div 2) + (Limb(l, i + 1) % 2) * (Base \div 2)])

(* divide_abs_values by a divisor of one limb: from the top limb down.     *)
DivideByLimb(l, d) ==
  LET rem[i \in 1..(Len(l) + 1)] ==
        IF i > Len(l) THEN 0 ELSE (rem[i + 1] * Base + l[i]) % d
  IN [quotient |-> Trim([i \in DOMAIN l |-> (rem[i + 1] * Base + l[i]) \div d]),
      remainder |-> IF rem[1] = 0 THEN <<>> ELSE <<rem[1]>>]

(* By a longer one: shift the divisor up, then subtract and shift down.    *)
DivideByShifting(l, d) ==
  LET shift == BitLengthAbs(l) - BitLengthAbs(d)
      SetBit(q, s) == [q EXCEPT ![(s \div LimbBits) + 1] = @ + 2 ^ (s % LimbBits)]
      Step(state, s) ==
        LET fits == CompareAbs(state.remainder, state.divisor) >= 0 IN
        [remainder |-> IF fits THEN SubtractAbs(state.remainder, state.divisor)
                       ELSE state.remainder,
         quotient |-> IF fits THEN SetBit(state.quotient, s) ELSE state.quotient,
         divisor |-> IF s = 0 THEN state.divisor ELSE ShiftRightOne(state.divisor)]
      end == FoldLeft(Step,
                      [remainder |-> l, divisor |-> ShiftLeftAbs(d, shift),
                       quotient |-> [i \in 1..((shift \div LimbBits) + 1) |-> 0]],
                      [k \in 1..(shift + 1) |-> shift + 1 - k])
  IN [quotient |-> Trim(end.quotient), remainder |-> end.remainder]

DivideAbs(l, d) ==
  CASE Len(d) = 1 -> DivideByLimb(l, d[1])
    [] Len(d) > 1 /\ CompareAbs(l, d) < 0 -> [quotient |-> <<>>, remainder |-> l]
    [] OTHER -> DivideByShifting(l, d)

--------------------------------------------------------------------------
(* Integers. *)

(* The limbs of a natural number; integer_ref_init of a small integer.     *)
LimbsOf(n) ==
  LET count == CHOOSE k \in 0..n : n < Base ^ k /\ (k = 0 \/ Base ^ (k - 1) <= n)
  IN [i \in 1..count |-> (n \div Base ^ (i - 1)) % Base]
Ref(v) == IF v.small
          THEN [negative |-> v.value < 0,
                limbs |-> LimbsOf(IF v.value < 0 THEN -v.value ELSE v.value)]
          ELSE [negative |-> v.negative, limbs |-> v.limbs]

Magnitude(l) == FoldRight(LAMBDA limb, n : n * Base + limb, l, 0)

(* limbs_fit_fixnum; two limbs hold a fixnum in the code. *)
FitsFixnum(negative, l) ==
  /\ Len(Trim(l)) <= 2
  /\ Magnitude(l) <= IF negative THEN FixnumMax + 1 ELSE FixnumMax
FixnumOf(negative, l) == IF negative THEN -Magnitude(l) ELSE Magnitude(l)

(* make_integer_from_limbs *)
MakeInteger(negative, l) ==
  IF FitsFixnum(negative, l) THEN Small(FixnumOf(negative, l))
  ELSE Big(negative, Trim(l))

IsZero(v) == Ref(v).limbs = <<>>
Negative(v) == Ref(v).negative /\ ~IsZero(v)

(* LT_Integer_compare *)
Compare(l, r) ==
  LET a == Ref(l)  b == Ref(r)  abs == CompareAbs(a.limbs, b.limbs) IN
  CASE a.limbs = <<>> /\ b.limbs = <<>> -> 0
    [] a.negative # b.negative -> IF a.negative THEN -1 ELSE 1
    [] OTHER -> IF a.negative THEN -abs ELSE abs

(* LT_Integer_negate; the least fixnum becomes a big integer. *)
Negate(v) ==
  IF v.small /\ v.value # FixnumMin THEN Small(-v.value)
  ELSE MakeInteger(~Ref(v).negative, Ref(v).limbs)
(* LT_Integer_abs *)
Abs(v) == IF v.small /\ v.value >= 0 THEN v
          ELSE IF v.small /\ v.value # FixnumMin THEN Small(-v.value)
          ELSE MakeInteger(FALSE, Ref(v).limbs)

(* LT_Integer_add and, with the sign of r turned, LT_Integer_subtract: the *)
(* short way when both operands and the answer are fixnums, else by signs. *)
Both(l, r, fast, flip) ==
  LET a == Ref(l)
      b == Ref(r)
      bNegative == IF flip THEN ~b.negative ELSE b.negative
      compare == CompareAbs(a.limbs, b.limbs) IN
  CASE /\ FitsFixnum(a.negative, a.limbs) /\ FitsFixnum(b.negative, b.limbs)
       /\ fast \in FixnumMin..FixnumMax -> Small(fast)
    [] a.negative = bNegative -> MakeInteger(a.negative, AddAbs(a.limbs, b.limbs))
    [] compare = 0 -> Small(0)
    [] compare > 0 -> MakeInteger(a.negative, SubtractAbs(a.limbs, b.limbs))
    [] OTHER -> MakeInteger(bNegative, SubtractAbs(b.limbs, a.limbs))
Fixnum(v) == FixnumOf(Ref(v).negative, Ref(v).limbs)
Add(l, r) == Both(l, r, Fixnum(l) + Fixnum(r), FALSE)
Subtract(l, r) == Both(l, r, Fixnum(l) - Fixnum(r), TRUE)

(* LT_Integer_multiply; one limb times one limb needs no array. *)
Multiply(l, r) ==
  LET a == Ref(l)
      b == Ref(r)
      negative == a.negative # b.negative IN
  CASE IsZero(l) \/ IsZero(r) -> Small(0)
    [] Len(a.limbs) = 1 /\ Len(b.limbs) = 1 ->
         LET p == a.limbs[1] * b.limbs[1]
         IN MakeInteger(negative, <<p % Base, p \div Base>>)
    [] OTHER -> MakeInteger(negative, MultiplyAbs(a.limbs, b.limbs))

(* LT_Integer_divmod truncates: the remainder has the dividend's sign. *)
DivMod(l, r) ==
  LET d == DivideAbs(Ref(l).limbs, Ref(r).limbs) IN
  [quotient |-> MakeInteger(Ref(l).negative # Ref(r).negative, d.quotient),
   remainder |-> MakeInteger(Ref(l).negative, d.remainder)]

(* LT_Integer_gcd; its fixnum loop is the same algorithm. *)
Gcd(l, r) ==
  LET bound == 2 * BitLengthAbs(Ref(r).limbs) + 2  \* enough for any pair
      Step(pair, k) == IF IsZero(pair[2]) THEN pair
                       ELSE <<pair[2], Abs(DivMod(pair[1], pair[2]).remainder)>>
  IN FoldLeft(Step, <<Abs(l), Abs(r)>>, [k \in 1..bound |-> k])[1]

(* integer_multiply_by_small and LT_BigInteger_new_from_digits. *)
MultiplyBySmall(v, factor) ==
  IF IsZero(v) \/ factor = 0 THEN Small(0)
  ELSE LET a == Ref(v)
           row == AddRow([k \in 1..(Len(a.limbs) + 1) |-> 0], 1, <<factor>>, a.limbs)
       IN MakeInteger(a.negative, row)
FromDigits(negative, digits, radix) ==
  LET n == FoldLeft(LAMBDA v, d : Add(MultiplyBySmall(v, radix), Small(d)), Small(0), digits)
  IN IF negative THEN Negate(n) ELSE n

(* LT_BigInteger_to_decimal_cstr: chunks, the lowest first, of a big one.  *)
Chunks(v) ==
  LET Step(state, k) ==
        IF state.limbs = <<>> THEN state
        ELSE LET d == DivideByLimb(state.limbs, ChunkBase)
             IN [limbs |-> d.quotient,
                 chunks |-> Append(state.chunks, Magnitude(d.remainder))]
  IN FoldLeft(Step, [limbs |-> Ref(v).limbs, chunks |-> <<>>],
              [k \in 1..(2 * Len(Ref(v).limbs) + 1) |-> k]).chunks

--------------------------------------------------------------------------

IntegerInit == /\ first = Small(0) /\ second = Small(0)
               /\ firstNumber = 0 /\ secondNumber = 0

(* A result becomes the first integer and the first one the second. *)
IntegerAnswer(v, n) == /\ n \in (-MaxMagnitude)..MaxMagnitude
                /\ first' = v /\ firstNumber' = n
                /\ second' = first /\ secondNumber' = firstNumber

Read(negative, digits, radix) ==
  LET n == FoldLeft(LAMBDA m, d : m * radix + d, 0, digits)
  IN IntegerAnswer(FromDigits(negative, digits, radix), IF negative THEN -n ELSE n)

Magn(n) == IF n < 0 THEN -n ELSE n
Signed(negative, n) == IF negative THEN -n ELSE n
Divides(d, n) == d # 0 /\ n % d = 0
Quotient(n, d) == Signed((n < 0) # (d < 0), Magn(n) \div Magn(d))
GreatestDivisor(m, n) ==
  IF m = 0 \/ n = 0 THEN m + n
  ELSE CHOOSE d \in 1..m : /\ Divides(d, m) /\ Divides(d, n)
                           /\ \A e \in (d + 1)..m : ~(Divides(e, m) /\ Divides(e, n))

Arithmetic ==
  \/ IntegerAnswer(Add(first, second), firstNumber + secondNumber)
  \/ IntegerAnswer(Subtract(first, second), firstNumber - secondNumber)
  \/ IntegerAnswer(Multiply(first, second), firstNumber * secondNumber)
  \/ /\ ~IsZero(second)
     /\ IntegerAnswer(DivMod(first, second).quotient, Quotient(firstNumber, secondNumber))
  \/ /\ ~IsZero(second)
     /\ IntegerAnswer(DivMod(first, second).remainder,
               firstNumber - secondNumber * Quotient(firstNumber, secondNumber))
  \/ IntegerAnswer(Negate(first), -firstNumber)
  \/ IntegerAnswer(Abs(first), Magn(firstNumber))
  \/ IntegerAnswer(Gcd(first, second), GreatestDivisor(Magn(firstNumber), Magn(secondNumber)))
  \/ \E negative \in BOOLEAN, d \in 0..2, e \in 0..2 : Read(negative, <<d, e>>, 3)

IntegerNext == Arithmetic

(* Whatever road a result took, short or long, it is the number it should  *)
(* be, it is a small integer exactly when it is in the fixnum range (two   *)
(* equal integers are therefore represented alike, which the hash and the  *)
(* comparisons with == rely on), no high limb is zero, comparisons agree   *)
(* with the numbers, and its decimal chunks are its digits                 *)
(* (BigInteger.c:311, 354, 594).                                           *)
ArithmeticIsExact ==
  /\ \A p \in {<<first, firstNumber>>, <<second, secondNumber>>} :
       /\ Ref(p[1]) = [negative |-> p[2] < 0, limbs |-> LimbsOf(Magn(p[2]))]
       /\ p[1].small <=> p[2] \in FixnumMin..FixnumMax
  /\ Compare(first, second) = CASE firstNumber < secondNumber -> -1
                                [] firstNumber = secondNumber -> 0
                                [] OTHER -> 1
  /\ ~first.small =>
       /\ FoldRight(LAMBDA c, n : n * ChunkBase + c, Chunks(first), 0) = Magn(firstNumber)
       /\ \A c \in ToSet(Chunks(first)) : c < ChunkBase
       /\ Last(Chunks(first)) # 0
==========================================================================
