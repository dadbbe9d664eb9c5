------------------------------ MODULE Numbers ------------------------------
(***************************************************************************)
(* src/src/classes/Number.c: exact integers and fractions, floats, and     *)
(* complex numbers of either, their arithmetic, equality and hash.  A      *)
(* float is the rational number it stands for, with FloatBits significant  *)
(* bits; infinities, not-a-number and the sign of zero are left out.       *)
(***************************************************************************)
EXTENDS Integers, Sequences, SequencesExt

CONSTANTS LargestFixnum,    \* integers of -LargestFixnum - 1..LargestFixnum are immediate
          SmallNumerator,   \* LT_SMALL_FRACTION_NUMERATOR_MAX
          SmallDenominator, \* LT_SMALL_FRACTION_DENOMINATOR_MAX
          FloatBits,        \* 53 in the code
          MaxPart,          \* bound: numerators and denominators
          MaxComplexPart    \* bound: the same in complex numbers

VARIABLES x, y  \* two numbers of the program

numberVars == <<x, y>>

IntegerMagnitude(n) == IF n < 0 THEN -n ELSE n
CommonDivisor(m, n) ==
  CHOOSE d \in 1..n : /\ m % d = 0 /\ n % d = 0
                      /\ \A e \in (d + 1)..n : ~(m % e = 0 /\ n % e = 0)

(* allocate_exact_number: the representation of a reduced fraction. *)
Fraction(n, d) ==
  [n |-> n, d |-> d,
   kind |-> CASE d = 1 -> "integer"
              [] d \in 2..SmallDenominator
                 /\ n \in (-SmallNumerator - 1)..SmallNumerator -> "small fraction"
              [] OTHER -> "fraction"]
Exact(n) == Fraction(n, 1)

(* make_fraction; the denominator is not zero. *)
Divided(n, d, g) == Fraction(n \div g, d \div g)
MakeFraction(numerator, denominator) ==
  IF numerator = 0 THEN Exact(0)
  ELSE Divided(IF denominator < 0 THEN -numerator ELSE numerator,
               IntegerMagnitude(denominator),
               CommonDivisor(IntegerMagnitude(numerator), IntegerMagnitude(denominator)))

ExactP(v) == v.kind \in {"integer", "small fraction", "fraction"}
FloatP(v) == v.kind = "float"
RealP(v) == ExactP(v) \/ FloatP(v)
ComplexP(v) == v.kind \in {"exact complex", "inexact complex"}

(* A fraction scaled by a power of two, the power that leaves FloatBits    *)
(* bits before the point, and the integer nearest to it, the even of two.  *)
Scaled(n, d, e) == IF e < 0 THEN <<n * 2 ^ (-e), d>> ELSE <<n, d * 2 ^ e>>
Fills(q) == 2 ^ (FloatBits - 1) * q[2] <= q[1] /\ q[1] < 2 ^ FloatBits * q[2]
Exponent(n, d) == CHOOSE e \in -8..8 : Fills(Scaled(n, d, e))
NearestEven(q, below, twice) ==
  IF twice > q[2] \/ (twice = q[2] /\ below % 2 = 1) THEN below + 1 ELSE below
Significand(q) == NearestEven(q, q[1] \div q[2], 2 * (q[1] % q[2]))
Placed(significand, e) == IF e < 0 THEN MakeFraction(significand, 2 ^ (-e))
                          ELSE Exact(significand * 2 ^ e)
AtExponent(n, d, e) ==
  Placed((IF n < 0 THEN -1 ELSE 1) * Significand(Scaled(IntegerMagnitude(n), d, e)), e)

(* The float nearest to n/d, the even one of two. *)
Rounded(n, d) ==
  [(IF n = 0 THEN Exact(0) ELSE AtExponent(n, d, Exponent(IntegerMagnitude(n), d)))
     EXCEPT !.kind = "float"]

(* LT_Number_to_double: an exact number converts its parts, then divides. *)
FloatQuotient(f) == Rounded(f[1].n * f[2].d, f[1].d * f[2].n)
ToDouble(v) == IF FloatP(v) THEN v
               ELSE FloatQuotient([i \in 1..2 |-> Rounded(<<v.n, v.d>>[i], 1)])

--------------------------------------------------------------------------
(* Real arithmetic, each operation on two rational numbers: the checked    *)
(* exact functions reduce what it gives, those on floats round it.         *)

Over(l, r, g, sign) == <<l.n * (r.d \div g) + sign * r.n * (l.d \div g), l.d * (r.d \div g)>>
Sum(l, r) == Over(l, r, CommonDivisor(l.d, r.d), 1)
Difference(l, r) == Over(l, r, CommonDivisor(l.d, r.d), -1)
Product(l, r) == <<l.n * r.n, l.d * r.d>>
Ratio(l, r) == IF r.n < 0 THEN <<(-l.n) * r.d, l.d * (-r.n)>> ELSE <<l.n * r.d, l.d * r.n>>

Reduce(q) == MakeFraction(q[1], q[2])
RoundOff(q) == Rounded(q[1], q[2])
OnPair(Op(_, _), pair) == Op(pair[1], pair[2])
OnReals(Op(_, _), l, r) ==
  IF ExactP(l) /\ ExactP(r) THEN Reduce(Op(l, r))
  ELSE RoundOff(OnPair(Op, [i \in 1..2 |-> ToDouble(<<l, r>>[i])]))

RealAdd(l, r) == OnReals(Sum, l, r)
RealSubtract(l, r) == OnReals(Difference, l, r)
RealMultiply(l, r) == OnReals(Product, l, r)
RealDivide(l, r) == OnReals(Ratio, l, r)
RealNegate(v) == IF ExactP(v) THEN MakeFraction(-v.n, v.d) ELSE [v EXCEPT !.n = -v.n]

(* compare_real_numbers *)
Sign(n) == CASE n < 0 -> -1 [] n = 0 -> 0 [] OTHER -> 1
CompareParts(a, b) == Sign(a.n * b.d - b.n * a.d)
RealCompare(l, r) == CompareParts(IF ExactP(r) THEN l ELSE ToDouble(l),
                                  IF ExactP(l) THEN r ELSE ToDouble(r))

(* The integers near a real number.  exact_rational_divmod truncates; the  *)
(* float functions do the same to the number the float stands for.         *)
Truncated(v) == (IF v.n < 0 THEN -1 ELSE 1) * (IntegerMagnitude(v.n) \div v.d)
Left(v) == v.n - Truncated(v) * v.d
Away(v) == IF Left(v) < 0 THEN Truncated(v) - 1 ELSE Truncated(v) + 1
Floor(v) == IF Left(v) < 0 THEN Truncated(v) - 1 ELSE Truncated(v)
Ceiling(v) == IF Left(v) > 0 THEN Truncated(v) + 1 ELSE Truncated(v)
Round(v) == IF Left(v) # 0 /\ 2 * IntegerMagnitude(Left(v)) >= v.d THEN Away(v)
            ELSE Truncated(v)

--------------------------------------------------------------------------
(* Complex numbers. *)

RealPart(v) == IF ComplexP(v) THEN v.real ELSE v
ImaginaryPart(v) == IF ComplexP(v) THEN v.imaginary ELSE Exact(0)

(* make_complex_from_values: no imaginary part, no complex number. *)
InexactComplex(parts) ==
  IF parts[2].n = 0 THEN parts[1]
  ELSE [kind |-> "inexact complex", real |-> parts[1], imaginary |-> parts[2]]
MakeComplex(real, imaginary) ==
  IF ExactP(real) /\ ExactP(imaginary)
  THEN IF imaginary.n = 0 THEN real
       ELSE [kind |-> "exact complex", real |-> real, imaginary |-> imaginary]
  ELSE InexactComplex([i \in 1..2 |-> ToDouble(<<real, imaginary>>[i])])

PartNames == <<"real", "imaginary">>
Part(v, name) == IF name = "real" THEN RealPart(v) ELSE ImaginaryPart(v)
Rectangular(parts) == MakeComplex(parts[1], parts[2])

(* LT_Number_add2 and LT_Number_subtract2 work on the parts. *)
OnParts(Op(_, _), l, r) ==
  IF ComplexP(l) \/ ComplexP(r)
  THEN Rectangular([i \in 1..2 |-> Op(Part(l, PartNames[i]), Part(r, PartNames[i]))])
  ELSE Op(l, r)
Add2(l, r) == OnParts(RealAdd, l, r)
Subtract2(l, r) == OnParts(RealSubtract, l, r)

(* The products of the parts a, b of one number and c, d of the other.     *)
Products(l, r) == [i, j \in 1..2 |-> RealMultiply(Part(l, PartNames[i]), Part(r, PartNames[j]))]

(* (a + bi)(c + di); the product of two real numbers is that of their real *)
(* parts.                                                                  *)
ComplexProduct(p) == MakeComplex(RealSubtract(p[1, 1], p[2, 2]), RealAdd(p[1, 2], p[2, 1]))
Multiply2(l, r) ==
  IF ComplexP(l) \/ ComplexP(r) THEN ComplexProduct(Products(l, r)) ELSE RealMultiply(l, r)

(* The same with -d for d, each part divided by cc + dd. *)
SquaredNorm(p) == RealAdd(p[1, 1], p[2, 2])
ConjugateProduct(p) == <<RealAdd(p[1, 1], p[2, 2]), RealSubtract(p[2, 1], p[1, 2])>>
DividedBy(parts, norm) == Rectangular([i \in 1..2 |-> RealDivide(parts[i], norm)])
Divide2(l, r) ==
  IF ComplexP(l) \/ ComplexP(r)
  THEN DividedBy(ConjugateProduct(Products(l, r)), SquaredNorm(Products(r, r)))
  ELSE RealDivide(l, r)
NumberNegate(v) == IF ComplexP(v) THEN MakeComplex(RealNegate(v.real), RealNegate(v.imaginary))
                   ELSE RealNegate(v)

(* number_integer_power squares the factor for each bit of the exponent. *)
PowerStep(state, bit, n) ==
  [result |-> IF (n \div 2 ^ bit) % 2 = 1 THEN Multiply2(state.result, state.factor)
              ELSE state.result,
   factor |-> IF n >= 2 ^ (bit + 1) THEN Multiply2(state.factor, state.factor)
              ELSE state.factor]
NaturalPower(base, n) ==
  FoldLeft(LAMBDA state, bit : PowerStep(state, bit, n),
           [result |-> Exact(1), factor |-> base], <<0, 1, 2>>).result
IntegerPower(base, exponent) ==
  IF exponent < 0 THEN Divide2(Exact(1), NaturalPower(base, -exponent))
  ELSE NaturalPower(base, exponent)

(* LT_Number_equal_p *)
NumberEqual(l, r) ==
  CASE RealP(l) /\ RealP(r) ->
         IF ExactP(l) /\ ExactP(r) THEN l.n = r.n /\ l.d = r.d
         ELSE ToDouble(l) = ToDouble(r)
    [] ComplexP(l) /\ ComplexP(r) ->
         IF l.kind = r.kind THEN l.real = r.real /\ l.imaginary = r.imaginary
         ELSE \A i \in 1..2 : ToDouble(l[PartNames[i]]) = ToDouble(r[PartNames[i]])
    [] OTHER -> FALSE

(* Number_class_hash: what the hash depends on. *)
Fixnums == (-LargestFixnum - 1)..LargestFixnum
HashDouble(v) == IF v.n = 0 THEN <<"fixnum", 0>> ELSE <<"double", v.n, v.d>>
ExactHash(v) == CASE v.d # 1 -> <<"fraction", v.n, v.d>>
                  [] v.n \in Fixnums -> <<"fixnum", v.n>>
                  [] OTHER -> <<"limbs", v.n>>
(* Mutant of NumberHash: floats are always hashed by their bits. *)
NumberHashByBits(v) ==
  CASE ExactP(v) -> ExactHash(v)
    [] FloatP(v) -> HashDouble(v)
    [] v.kind = "exact complex" -> <<ExactHash(v.real), ExactHash(v.imaginary)>>
    [] OTHER -> <<HashDouble(v.real), HashDouble(v.imaginary)>>

NumberHash(v) ==
  CASE ExactP(v) -> ExactHash(v)
    [] FloatP(v) -> IF v.d = 1 /\ v.n \in Fixnums THEN <<"fixnum", v.n>> ELSE HashDouble(v)
    [] v.kind = "exact complex" -> <<ExactHash(v.real), ExactHash(v.imaginary)>>
    [] OTHER -> <<HashDouble(v.real), HashDouble(v.imaginary)>>

--------------------------------------------------------------------------

NumberInit == x = Exact(0) /\ y = Exact(0)

RealWithin(v, bound) == IntegerMagnitude(v.n) <= bound /\ v.d <= bound
Within(v) == IF ComplexP(v)
             THEN RealWithin(v.real, MaxComplexPart) /\ RealWithin(v.imaginary, MaxComplexPart)
             ELSE RealWithin(v, MaxPart)

(* A result becomes the first number and the first one the second. *)
Yield(v) == Within(v) /\ x' = v /\ y' = x

(* LT_Number_parse_token of n/d and parse_float_token of a decimal. *)
ParseRational == \E n \in (-MaxPart)..MaxPart, d \in (-2)..MaxPart :
                   d # 0 /\ Yield(MakeFraction(n, d))
ParseFloat == \E n \in (-MaxPart)..MaxPart, d \in {1, 5} : Yield(Rounded(n, d))
(* parse_complex_rectangular_token *)
ParseComplex == RealP(x) /\ RealP(y) /\ Yield(MakeComplex(x, y))

Invertible(v) == ~NumberEqual(v, Exact(0))
ArithmeticStep == \/ Yield(Add2(x, y)) \/ Yield(Subtract2(x, y)) \/ Yield(Multiply2(x, y))
                  \/ Invertible(y) /\ Yield(Divide2(x, y))
                  \/ Yield(NumberNegate(x))
RoundStep == /\ RealP(x)
             /\ \/ Yield(Exact(Floor(x))) \/ Yield(Exact(Ceiling(x)))
                \/ Yield(Exact(Truncated(x))) \/ Yield(Exact(Round(x)))
MinMaxStep == /\ RealP(x) /\ RealP(y)
              /\ \/ Yield(IF RealCompare(x, y) <= 0 THEN x ELSE y)
                 \/ Yield(IF RealCompare(x, y) >= 0 THEN x ELSE y)

NumberNext == ParseRational \/ ParseFloat \/ ParseComplex
              \/ ArithmeticStep \/ RoundStep \/ MinMaxStep

--------------------------------------------------------------------------

ExactNumberP(v) == ExactP(v) \/ v.kind = "exact complex"
CanonicalReal(v) == ExactP(v) => v = MakeFraction(v.n, v.d)
Canonical(v) ==
  IF RealP(v) THEN CanonicalReal(v)
  ELSE /\ v.imaginary.n # 0
       /\ CanonicalReal(v.real) /\ CanonicalReal(v.imaginary)

(* Exact arithmetic, complex included, is that of a field: what one        *)
(* operation does its inverse undoes, to the same representation.          *)
FieldLaws ==
  (ExactNumberP(x) /\ ExactNumberP(y)) =>
    /\ Subtract2(Add2(x, y), y) = x
    /\ Add2(x, y) = Add2(y, x) /\ Multiply2(x, y) = Multiply2(y, x)
    /\ Multiply2(x, Add2(y, Exact(1))) = Add2(Multiply2(x, y), x)
    /\ Invertible(y) => Multiply2(Divide2(x, y), y) = x
    /\ NumberNegate(x) = Subtract2(Exact(0), x)

Powers == (ExactNumberP(x) /\ Invertible(x)) =>
  LET power == [k \in -2..5 |-> IntegerPower(x, k)] IN
  \A k \in -2..4 : power[k + 1] = Multiply2(power[k], x)

(* The integer nearest below, above, towards zero; the nearest one, halves *)
(* away from zero.                                                         *)
Neighbours ==
  RealP(x) => /\ Floor(x) * x.d <= x.n /\ x.n < (Floor(x) + 1) * x.d
              /\ (Ceiling(x) - 1) * x.d < x.n /\ x.n <= Ceiling(x) * x.d
              /\ Truncated(x) = IF x.n < 0 THEN Ceiling(x) ELSE Floor(x)
              /\ LET off == 2 * IntegerMagnitude(Round(x) * x.d - x.n) IN
                 off < x.d \/ (off = x.d /\ Round(x) = IF x.n < 0 THEN Floor(x) ELSE Ceiling(x))

(* Comparing agrees with equality, and with the order of the numbers when  *)
(* their parts are floats without rounding.                                *)
Ordered ==
  (RealP(x) /\ RealP(y)) =>
    /\ RealCompare(x, y) = 0 <=> NumberEqual(x, y)
    /\ RealCompare(x, y) = -RealCompare(y, x)
    /\ (\A v \in {x, y} : Rounded(v.n, 1).n = v.n /\ Rounded(v.d, 1).n = v.d) =>
          /\ RealCompare(x, y) < 0 => x.n * y.d < y.n * x.d
          /\ RealCompare(x, y) = 0 /\ (ExactP(x) <=> ExactP(y)) => x.n * y.d = y.n * x.d

(* Equal numbers hash alike, as a dictionary needs, with one exception in  *)
(* the code, exactly this: an exact and an inexact number that are equal   *)
(* have different hashes unless the exact one is a fixnum and the float    *)
(* is that integer itself (Number.c:602).                                  *)
EqualNumbersHashAlike ==
  NumberEqual(x, y) =>
    ((NumberHash(x) = NumberHash(y)) <=>
       \/ ExactNumberP(x) <=> ExactNumberP(y)
       \/ /\ RealP(x) /\ RealP(y)
          /\ x.d = 1 /\ y.d = 1 /\ x.n = y.n /\ x.n \in Fixnums)

(* Numbers that results are made of stay canonical, so that equality of    *)
(* exact numbers is equality of parts, arithmetic is exact, and the hash   *)
(* follows equality but for the exception above (Number.c:82, 104, 594).   *)
NumbersSound ==
  /\ Canonical(x) /\ FieldLaws /\ Powers /\ Neighbours /\ Ordered
  /\ EqualNumbersHashAlike
============================================================================
