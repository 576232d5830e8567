------------------------------- MODULE DataLab -------------------------------
(***************************************************************************)
(* The data lab: the bit puzzles of datalab/bits.c, the functions of       *)
(* tests.c they are tested against, and how btest.c tests them.  An int    *)
(* has W bits, of which F are the fraction and W - 1 - F the exponent when *)
(* it is taken for a float; the code has 32 and 23, and its constants are  *)
(* written in terms of W and F here.  Additions and shifts wrap around.    *)
(***************************************************************************)
EXTENDS Integers, Sequences, FiniteSets, Bitwise

CONSTANTS W, F

TMin     == -(2 ^ (W - 1))
TMax     == 2 ^ (W - 1) - 1
Wrap(x)   == ((x + 2 ^ (W - 1)) % 2 ^ W) - 2 ^ (W - 1)

\* The operators of C on ints: ~, &, |, ^, <<, >>, +, !.
Inv(x)    == -x - 1
BAnd(x, y) == Wrap((x % 2 ^ W) & (y % 2 ^ W))
BOr(x, y)  == Wrap((x % 2 ^ W) | (y % 2 ^ W))
BXor(x, y) == Wrap((x % 2 ^ W) ^^ (y % 2 ^ W))
Shl(x, n) == Wrap(x * 2 ^ n)
Shr(x, n) == x \div 2 ^ n
Add(x, y) == Wrap(x + y)
Bool(b)   == IF b THEN 1 ELSE 0
Bang(x)   == Bool(x = 0)

------------------------------------------------------------------------------
bitAnd(x, y)       == Inv(BOr(Inv(x), Inv(y)))
getByte(x, n)      == BAnd(Shr(x, n * (W \div 4)), 2 ^ (W \div 4) - 1)

logicalShift(x, n) == BAnd(Shr(x, n), Inv(Shl(Shr(Shl(1, W - 1), n), 1)))

\* Every group of 2k bits becomes the sum of its two halves. In mask, every other group
\* of k bits is set.
Halves(x, k) ==
  LET mask == Wrap(((2 ^ W - 1) \div (2 ^ (2 * k) - 1)) * (2 ^ k - 1))
  IN  Add(BAnd(Shr(x, k), mask), BAnd(x, mask))

Count[k \in 1 .. W] ==
  [x \in TMin .. TMax |-> IF k = 1 THEN x ELSE Halves(Count[k \div 2][x], k \div 2)]

bitCount(x) == LET c == Count[W \div 2][x]
               IN  BAnd(Add(c, Shr(c, W \div 2)), 2 ^ (W \div 2) - 1)

Smear(x, k) == BAnd(Shr(x, k), x)
bang(x) == LET smear[k \in 1 .. W] ==
                 IF k = W THEN Inv(x) ELSE LET s == smear[2 * k] IN Smear(s, k)
           IN  BAnd(smear[1], 1)

tmin == Shl(1, W - 1)

fitsBits(x, n) == LET right == W + Inv(n) + 1
                  IN  Bang(BXor(x, Shr(Shl(x, right), right)))

divpwr2(x, n) == LET bias == BAnd(Shr(x, W - 1), Inv(Shl(Shr(Shl(1, W - 1), W - 1), n)))
                 IN  Shr(Add(x, bias), n)

negate(x)     == Add(Inv(x), 1)
isPositive(x) == BAnd(Bang(BAnd(Shr(x, W - 1), 1)), Bang(Bang(x)))

\* Mutant: the sign of the difference decides alone.
isLessOrEqual_Difference(x, y) ==
  BOr(Bang(BXor(x, y)), BAnd(Shr(Add(x, negate(y)), W - 1), 1))

isLessOrEqual(x, y) ==
  LET sgn(z) == BAnd(Shr(z, W - 1), 1)
      d == Add(x, negate(y))
  IN  BOr(BOr(Bang(BXor(x, y)), BAnd(sgn(x), Bang(sgn(y)))),
         BAnd(Bang(BXor(sgn(x), sgn(y))), sgn(d)))

ilog2(x) == LET pass[k \in 1 .. W] == IF k = 1 THEN BOr(x, Shr(x, 1))
                                      ELSE LET p == pass[k \div 2] IN BOr(p, Shr(p, k))
            IN  bitCount(pass[W \div 2]) - 1

------------------------------------------------------------------------------
(* Floats, as unsigned ints.                                               *)
E       == W - 1 - F
Sign    == 2 ^ (W - 1)
Inf     == (2 ^ E - 1) * 2 ^ F
Bias    == 2 ^ (E - 1) - 1
NaN(u)  == u % Sign > Inf

float_neg(uf) == IF NaN(uf) THEN uf ELSE (uf + Sign) % 2 ^ W

\* A carry out of the fraction is looked for with rounded \div abs > 1, which can hold
\* only when abs is 1.
float_i2f(x) ==
  LET mag   == IF x > 0 THEN x ELSE -x
      least == IF x > 0 THEN Bias * 2 ^ F ELSE Sign + Bias * 2 ^ F
      log2  == CHOOSE k \in 0 .. W - 2 : 2 ^ k <= mag /\ mag < 2 ^ (k + 1)
      drop  == log2 - F
      rest  == mag % 2 ^ drop
      abs   == mag \div 2 ^ drop
      half  == 2 ^ (drop - 1)
      up    == Bool(rest > half \/ (rest = half /\ abs % 2 = 1))
      carry == IF (abs + up) \div abs > 1 THEN 2 ^ F ELSE 0
      tmin_ == Sign + (Bias + W - 1) * 2 ^ F
      f     == least + log2 * 2 ^ F
  IN  CASE x = 0 -> 0
        [] x = TMin -> tmin_
        [] x \notin {0, TMin} /\ mag >= 2 ^ (W - 1) - 2 ^ (W - 3 - F) -> tmin_
        [] OTHER -> IF drop > 0 THEN f + carry + ((abs + up) % 2 ^ F)
                                ELSE f + ((mag * 2 ^ (-drop)) % 2 ^ F)

float_twice(uf) ==
  LET fraction == uf % 2 ^ F
      exponent == (uf % Sign) - fraction
      twice    == (2 * fraction) % 2 ^ F
      sign     == uf - (uf % Sign)
  IN  CASE exponent = Inf -> uf
        [] exponent = 0 -> sign + twice + IF twice >= 2 ^ (F - 1) THEN 2 ^ F ELSE 0
        [] OTHER -> sign + exponent + 2 ^ F + IF exponent + 2 ^ F = Inf THEN 0 ELSE fraction

------------------------------------------------------------------------------
(* tests.c. What the machine does with a float is written with its value,  *)
(* as a multiple of the smallest one.                                      *)
test_bitCount(x) == Cardinality({i \in 0 .. W - 1 : BAnd(Shr(x, i), 1) = 1})
test_fitsBits(x, n) == Bool(x >= Wrap(-Shl(1, n - 1)) /\ x <= Wrap(Shl(1, n - 1) - 1))
test_divpwr2(x, n) == IF x >= 0 THEN x \div 2 ^ n ELSE -((-x) \div 2 ^ n)
test_ilog2(x) == CHOOSE r \in 0 .. W - 1 : BAnd(x, Shl(1, r)) # 0 /\
                                           \A i \in r + 1 .. W - 1 : BAnd(x, Shl(1, i)) = 0

Value(u) == LET exponent == (u % Sign) \div 2 ^ F
            IN  IF exponent = 0 THEN u % 2 ^ F
                ELSE (2 ^ F + (u % 2 ^ F)) * 2 ^ (exponent - 1)
Finite == {u \in 0 .. Sign - 1 : u < Inf}
Distance(u, val) == IF Value(u) > val THEN Value(u) - val ELSE val - Value(u)

\* The finite float nearest to val, of two that are as near the one that is even.
Nearest(val) ==
  CHOOSE u \in Finite :
    \A o \in Finite : Distance(u, val) < Distance(o, val)
                        \/ (Distance(u, val) = Distance(o, val) /\ (o = u \/ u % 2 = 0))

test_float_neg(uf)   == IF NaN(uf) THEN uf ELSE IF uf >= Sign THEN uf - Sign ELSE uf + Sign
test_float_i2f(x)    == LET one == 2 ^ (Bias - 1 + F)
                        IN  IF x < 0 THEN Sign + Nearest(-x * one) ELSE Nearest(x * one)
test_float_twice(uf) == LET sign == uf - (uf % Sign)
                            two  == {u \in Finite : Value(u) = 2 * Value(uf)}
                        IN  CASE NaN(uf) \/ uf % Sign = Inf -> uf
                              [] ~NaN(uf) /\ uf % Sign # Inf /\ two = {} -> sign + Inf
                              [] OTHER -> sign + CHOOSE u \in two : TRUE

------------------------------------------------------------------------------
(* btest.c: test_set gives the number of arguments of a function and their *)
(* ranges; {1, 1} stands for floats.                                       *)
Any      == <<TMin, TMax>>
Floats   == <<1, 1>>
test_set == [bitAnd |-> <<Any, Any>>, getByte |-> <<Any, <<0, 3>>>>,
             logicalShift |-> <<Any, <<0, W - 1>>>>, bitCount |-> <<Any>>, bang |-> <<Any>>,
             tmin |-> <<>>, fitsBits |-> <<Any, <<1, W>>>>, divpwr2 |-> <<Any, <<0, W - 2>>>>,
             negate |-> <<Any>>, isPositive |-> <<Any>>, isLessOrEqual |-> <<Any, Any>>,
             ilog2 |-> <<<<1, TMax>>>>, float_neg |-> <<Floats>>, float_i2f |-> <<Floats>>,
             float_twice |-> <<Floats>>]
Puzzles == DOMAIN test_set

solution(f, x, y) ==
  CASE f = "bitAnd" -> bitAnd(x, y)
    [] f = "getByte" -> getByte(x, y)
    [] f = "logicalShift" -> logicalShift(x, y)
    [] f = "bitCount" -> bitCount(x)
    [] f = "bang" -> bang(x)
    [] f = "tmin" -> tmin
    [] f = "fitsBits" -> fitsBits(x, y)
    [] f = "divpwr2" -> divpwr2(x, y)
    [] f = "negate" -> negate(x)
    [] f = "isPositive" -> isPositive(x)
    [] f = "isLessOrEqual" -> isLessOrEqual(x, y)
    [] f = "ilog2" -> ilog2(x)
    [] f = "float_neg" -> float_neg(x % 2 ^ W)
    [] f = "float_i2f" -> float_i2f(Wrap(x))
    [] f = "float_twice" -> float_twice(x % 2 ^ W)

test(f, x, y) ==
  CASE f = "bitAnd" -> BAnd(x, y)
    [] f = "getByte" -> (x \div 2 ^ (y * (W \div 4))) % 2 ^ (W \div 4)
    [] f = "logicalShift" -> Wrap((x % 2 ^ W) \div 2 ^ y)
    [] f = "bitCount" -> test_bitCount(x)
    [] f = "bang" -> Bang(x)
    [] f = "tmin" -> TMin
    [] f = "fitsBits" -> test_fitsBits(x, y)
    [] f = "divpwr2" -> test_divpwr2(x, y)
    [] f = "negate" -> Wrap(-x)
    [] f = "isPositive" -> Bool(x > 0)
    [] f = "isLessOrEqual" -> Bool(x <= y)
    [] f = "ilog2" -> test_ilog2(x)
    [] f = "float_neg" -> test_float_neg(x % 2 ^ W)
    [] f = "float_i2f" -> test_float_i2f(Wrap(x))
    [] f = "float_twice" -> test_float_twice(x % 2 ^ W)

\* The values a function is tested with, but for the random ones; range says how many
\* there are on each side of the interesting values.
gen_vals(min, max, range, max_vals) ==
  LET near == 0 .. range - 1
      bit  == 0 .. (IF range > 2 ^ F THEN 2 ^ F ELSE range) - 1
      abs  == UNION {{i, 2 ^ F + i, 2 ^ F - i, Bias * 2 ^ F + i, Bias * 2 ^ F - i,
                      Inf - 2 ^ F - i, Inf, Inf + 2 ^ (F - 1)} : i \in bit}
  IN  IF <<min, max>> = Floats THEN abs \union {u + Sign : u \in abs}
      ELSE IF max - max_vals <= min THEN min .. max
      ELSE {min + i : i \in near} \union {max - i : i \in near}
             \union {i \in near \union {-i : i \in near} : min <= i /\ i <= max}

\* The arguments that a function gets, with 0 for those it does not have; ranges is how
\* far the values go for a function of one and of two arguments.
arg_test_vals(f, ranges, max_vals) ==
  LET args == test_set[f]
      vals(i) == IF i > Len(args) THEN {0}
                 ELSE gen_vals(args[i][1], args[i][2], ranges[Len(args)], max_vals)
  IN  vals(1) \X vals(2)
==============================================================================
