---------------------------- MODULE ArithmeticMC ----------------------------
(***************************************************************************)
(* A caller of the numeric kernels makes one call after the other, with    *)
(* inputs from small sets, and the answer is compared with a reference on  *)
(* TLC's own integers.  The calls of a series share one workspace.         *)
(***************************************************************************)
EXTENDS BigIntFunctions

CONSTANTS
    MinScale, MaxScale, MaxPower, SmallPower, ChunkedPower,     \* BigDecimal
    ScientificThreshold, LimbWidth, PrefixEntry, PrefixGuard, AutoChars,
    GuardDigits

Dec == INSTANCE DecimalFormat
Rat == INSTANCE Rationals

VARIABLES
    call,       \* the call that was answered last, with its inputs
    workspace   \* the decimal workspace of the series
kernels == <<call, workspace>>

Idle == [op |-> "none"]
KernelsInit == call = Idle /\ workspace = Dec!NewWorkspace

Ask(op, in, answer) == call' = [op |-> op, in |-> in, answer |-> answer]

\* A call outside the series; such a call has no state but its own.
Pure == call = Idle /\ workspace = Dec!NewWorkspace /\ UNCHANGED workspace

-----------------------------------------------------------------------------
(* Inputs.                                                                 *)

LowestScale == -13
AllWitnesses == <<2, 325, 9375, 28178, 450775, 9780504, 1795265022>>

\* One to four limbs of four bits, around the limits of a limb, with zeros
\* inside, with estimates of a quotient digit that are one or two too large.
Whole == {0, 1, 2, 3, 5, 10, 15, 16, 17, 31, 32, 100, 127, 128, 255, 256, 272, 1000,
          2047, 2048, 2063, 4000, 4095, 4096, 4097, 8191, 30000, 32767, 32768, 40000, 46340}
Signed == Whole \cup {-n : n \in {1, 16, 255, 4097}}
Small == 0 .. 12

Decimals == {Dec!Decimal(c, s) : c \in {1, -5, 15, -25, 95, 996, -997}, s \in {-2, 0, 1, 3}}
            \cup {Dec!Zero, Dec!Decimal(2, MaxScale), Dec!Decimal(15, MaxScale - 1),
                  Dec!Decimal(5, MinScale), Dec!Decimal(-3, MinScale + 1)}
Near == {x \in Decimals : x.scale \in -2 .. 3}
SeriesDecimals == {Dec!Decimal(c, s) : c \in {-25, 996, 1234}, s \in {0, 2}} \cup {Dec!Zero}
Written == {Dec!Decimal(c, s) : c \in {1, 25, -95, 995, 9996, -99951, 1234567, 7654321, 16777217, 20000001},
                                s \in {-1, 0, 3, 9}} \cup {Dec!Zero}
Columns == {<<x>> : x \in {y \in Near : Magnitude(y.coefficient) < 100}}
           \cup {<<Dec!Decimal(c, 0), Dec!Decimal(d, s)>> : c \in {1, -5, 25}, d \in {4, 25}, s \in {0, 1}}
           \cup {<<Dec!Decimal(1, 0), Dec!Decimal(c, 0), Dec!Decimal(d, 1)>> : c \in {2, 9}, d \in {-7, 12, 20 - 1}}
Fractions == {Rat!Fraction(n, d).value : n \in {-6, -1, 0, 4, 9, 35}, d \in {1, -2, 9, 15, 16}}

-----------------------------------------------------------------------------
(* Calls on integers.                                                      *)

IntegerCall ==
    /\ Pure
    /\ \E m, n \in Signed :
        LET a == FromInt(m)
            b == FromInt(n)
        IN  \/ Ask("add", <<m, n>>, Add(a, b))
            \/ Ask("sub", <<m, n>>, Sub(a, b))
            \/ Ask("mul", <<m, n>>, Mul(a, b))
            \/ Ask("mul", <<m, n>>, MulWithin(a, b, FALSE))
            \/ Ask("mul", <<m, n>>, MulWorkspace(a, b))
            \/ Ask("div", <<m, n>>, Div(a, b))
            \/ Ask("mod", <<m, n>>, Mod(a, b))
            \/ Ask("gcd", <<m, n>>, Gcd(a, b))
            \/ Ask("lcm", <<m, n>>, Lcm(a, b))
            \/ Ask("and", <<m, n>>, BitAnd(a, b))
            \/ Ask("or", <<m, n>>, BitOr(a, b))
            \/ Ask("xor", <<m, n>>, BitXor(a, b))

SmallIntegerCall ==
    /\ Pure
    /\ \E m \in Signed, n \in Small, fits \in BOOLEAN :
        LET a == FromInt(m)
        IN  \/ Magnitude(m) < 1001 /\ n < 4 /\ Ask("pow", <<m, n>>, Pow(a, FromInt(n)))
            \/ Ask("shift left", <<m, n>>, ShiftLeft(a, n))
            \/ Ask("shift right", <<m, n>>, ShiftRight(a, n))
            \/ Ask("factorial", <<n>>, Factorial(FromInt(n), fits))
            \/ m \in Small /\ Ask("combination", <<m, n>>, Combinatorial(a, FromInt(n), TRUE))
            \/ m \in Small /\ Ask("permutation", <<m, n>>, Combinatorial(a, FromInt(n), FALSE))

UnaryIntegerCall ==
    /\ Pure
    /\ \E m \in Signed, fits \in BOOLEAN :
        LET a == FromInt(m)
        IN  \/ Ask("not", <<m>>, BitNot(a))
            \/ Ask("isqrt", <<m>>, ISqrt(a))
            \/ Ask("square", <<m>>, IsPerfectSquare(a))
            \/ Ask("prime", <<m>>, IsProbablePrime(a))
            \/ Ask("digits", <<m>>, Ok(DecimalDigits(a)))
            \/ Ask("strip", <<m>>, Ok(StripDecimalZeros(a, fits)))
            \/ \E radix \in {2, 10, 15} :
                 Ask("text", <<m>>, SetStringBase(ToStringBase(a, radix), radix))

-----------------------------------------------------------------------------
(* Calls on decimals.                                                      *)

DecimalCall ==
    /\ Pure
    /\ \E a, b \in Decimals :
        \/ Ask("decimal add", <<a, b>>, Dec!Add(a, b))
        \/ Ask("decimal sub", <<a, b>>, Dec!Sub(a, b))
        \/ Ask("decimal mul", <<a, b>>, Dec!Mul(a, b))
        \/ Ask("decimal compare", <<a, b>>, Ok(Dec!Compare(a, b)))
        \/ \E mode \in Dec!Modes, digits \in 1 .. 3 :
            \/ Ask("divide", <<a, b, digits, mode>>, Dec!DivSignificant(a, b, digits, mode))
            \/ Ask("divide finite", <<a, b, digits, mode>>,
                   Dec!DivExactOrSignificant(a, b, digits, mode))

RoundingCall ==
    /\ Pure
    /\ \E a \in Near, mode \in Dec!Modes :
        \/ \E target \in -3 .. 2 : Ask("rescale", <<a, target, mode>>, Dec!Rescale(a, target, mode))
        \/ \E digits \in 1 .. 2 :
            \/ Ask("round", <<a, digits, mode>>, Dec!RoundSignificant(a, digits, mode))
            \/ \E degree \in 2 .. 3 : Ask("root", <<a, degree, digits, mode>>, Dec!Root(a, degree, digits, mode))
        \/ \E b \in Near, target \in -1 .. 1 :
            Ask("divide at", <<a, b, target, mode>>, Dec!Div(a, b, target, mode))
        \/ \E exponent \in -2 .. 3 :
            /\ Magnitude(a.coefficient) < 100 /\ a.scale \in {0, 1}
            /\ Ask("decimal power", <<a, exponent, 3, mode>>, Dec!PowSigned(a, exponent, 3, mode))

TextCall ==
    /\ Pure
    /\ \E a \in Written, mode \in Dec!Modes, places \in {Dec!AllDigits, 0, 1, 3} :
        \/ Ask("format", <<a, places, mode>>, Dec!Format(a, places, mode))
        \/ \E form \in {"AUTO", "PLAIN", "SCIENTIFIC", "MATHEMATICAL"}, limit \in {0, 6, 40} :
            Ask("format mode", <<a, places, mode, form, limit>>,
                Dec!FormatMode(a, places, mode, form, limit))

FractionCall ==
    /\ Pure
    /\ \E p, q \in Fractions :
        \/ Ask("fraction add", <<p, q>>, Rat!AddFractions(p, q))
        \/ Ask("fraction mul", <<p, q>>, Rat!MulFractions(p, q))
        \/ Ask("fraction div", <<p, q>>, Rat!DivFractions(p, q))
        \/ Ask("fraction compare", <<p, q>>, Ok(Rat!CompareFractions(p, q)))
        \/ p = q /\ Ask("fraction root", <<p>>, Rat!SqrtExact(p))
        \/ p = q /\ \E mode \in Dec!Modes : Ask("fraction decimal", <<p, 3, mode>>, Rat!ToDecimal(p, 3, mode))
        \/ \E x \in Near : Ask("decimal fraction", <<x>>, Rat!FromDecimal(x))

StatisticsCall ==
    /\ Pure
    /\ \E values \in Columns, mode \in Dec!Modes, sample \in BOOLEAN :
        \/ Ask("mean", <<values, 3, mode>>, Rat!Mean(values, 3, mode))
        \/ Ask("median", <<values>>, Rat!Median(values))
        \/ Ask("variance", <<values, sample, 3, mode>>, Rat!Variance(values, sample, 3, mode))
        \/ Ask("deviation", <<values, sample, 2, mode>>, Rat!StandardDeviation(values, sample, 2, mode))
        \/ Ask("geometric mean", <<values, 2, mode>>, Rat!GeometricMean(values, 2, mode))
        \/ Ask("harmonic mean", <<values, 3, mode>>, Rat!HarmonicMean(values, 3, mode))

-----------------------------------------------------------------------------
(* A series: the workspace goes from call to call.  A budget may stop one  *)
(* before, in and after a power of ten, in an alignment and in a division. *)

Plenty == 20    \* more checks than any operation makes

SeriesCall ==
    /\ call = Idle
    /\ \E a, b \in SeriesDecimals, digits \in 1 .. 2, mode \in {"FLOOR", "HALF_EVEN"},
          paid \in (0 .. 4) \cup {Plenty} :
        LET step(op, done) == /\ workspace' = done.workspace
                              /\ call' = [op |-> op, in |-> <<a, b, digits, mode, paid>>, answer |-> done.call]
        IN  \/ step("series add", Dec!AddSignificantIn(workspace, a, b, digits, mode, paid))
            \/ step("series mul", Dec!MulSignificantIn(workspace, a, b, digits, mode, paid))
            \/ step("series div", Dec!DivSignificantIn(workspace, a, b, digits, mode, paid))

Return == call # Idle /\ call' = Idle /\ UNCHANGED workspace

TextsSpec == KernelsInit /\ [][TextCall \/ Return]_kernels

-----------------------------------------------------------------------------
(* The references.                                                         *)

GCD(m, n) ==
    LET gcd[x \in Nat, y \in Nat] == IF y = 0 THEN x ELSE gcd[y, x % y] IN gcd[m, n]
Fact(n) == Loop(n, 1, LAMBDA product, i : product * i)

\* What an integer call answers to m and n.
ExpectedInteger(op, m, n) ==
    CASE op = "add" -> m + n
      [] op = "sub" -> m - n
      [] op = "mul" -> m * n
      [] op = "div" -> Quotient(m, n)
      [] op = "mod" -> Remainder(m, n)
      [] op = "and" -> m & n
      [] op = "or" -> m | n
      [] op = "xor" -> m ^^ n
      [] op = "pow" -> Loop(n, 1, LAMBDA power, i : power * m)
      [] op = "shift left" -> m * 2 ^ n
      [] op = "shift right" -> Quotient(m, 2 ^ n)
      [] op = "combination" -> Fact(m) \div (Fact(n) * Fact(m - n))
      [] op = "permutation" -> Fact(m) \div Fact(m - n)

\* n / d to an integer.
Rounded(n, d, mode) ==
    LET below == n \div d
        twice == 2 * (n % d)
        nearest(tie) == IF twice < d THEN below ELSE IF twice > d THEN below + 1 ELSE tie
        even == IF below % 2 = 0 THEN below ELSE below + 1
    IN  IF twice = 0 THEN below
        ELSE CASE mode = "FLOOR" -> below
               [] mode = "CEILING" -> below + 1
               [] mode = "TOWARD_ZERO" -> IF n < 0 THEN below + 1 ELSE below
               [] mode = "AWAY_FROM_ZERO" -> IF n < 0 THEN below ELSE below + 1
               [] mode = "HALF_UP" -> nearest(IF n < 0 THEN below ELSE below + 1)
               [] mode = "HALF_EVEN" -> nearest(even)

\* A ratio of integers to `digits' digits, at the scale that gives them.
RoundedRatio(n, d, digits, mode) ==
    LET up(t) == Magnitude(n) * 10 ^ Larger(t, 0)
        down(t) == Magnitude(d) * 10 ^ Larger(-t, 0)
        guess == digits - 1 - (Dec!DigitCount(n) - Dec!DigitCount(d))
        t == CHOOSE s \in {guess, guess + 1} :
                 10 ^ (digits - 1) * down(s) <= up(s) /\ up(s) < 10 ^ digits * down(s)
    IN  [coefficient |-> Rounded(Sign(n) * Sign(d) * up(t), down(t), mode), scale |-> t]

\* a / b, exact when it has a finite expansion and `finite' asks for it.
ExpectedQuotient(a, b, digits, mode, finite) ==
    LET n == a.coefficient
        d == b.coefficient
        ends == {j \in 0 .. 6 : (Magnitude(n) % Magnitude(d)) * (10 ^ j % Magnitude(d)) % Magnitude(d) = 0}
        j == CHOOSE k \in ends : \A i \in ends : k <= i
        ratio == IF finite /\ ends # {} THEN [coefficient |-> Quotient(n * 10 ^ j, d), scale |-> j]
                 ELSE RoundedRatio(n, d, digits, mode)
    IN  IF d = 0 THEN Refused("DIVISION_BY_ZERO")
        ELSE IF n = 0 THEN Ok(Dec!Zero)
        ELSE Dec!Normalize(ratio.coefficient, ratio.scale + a.scale - b.scale)

\* The only root that is not rounded is a decimal itself.
ExpectedRoot(x, degree, digits, mode) ==
    LET c == Magnitude(x.coefficient)
        exact == {r \in 1 .. 2000 : r <= c /\ (degree = 3 => r < 1200) /\ r ^ degree = c}
        scale == digits - 1 - ((Dec!DigitCount(c) - 1 - x.scale) \div degree)
        shift == scale * degree - x.scale
        n == c * 10 ^ Larger(shift, 0)
        d == 10 ^ Larger(-shift, 0)
        below == CHOOSE f \in 10 ^ (digits - 1) .. 10 ^ digits : f ^ degree * d <= n /\ (f + 1) ^ degree * d > n
        above == CASE mode = "TOWARD_ZERO" -> FALSE
                   [] mode = "AWAY_FROM_ZERO" -> TRUE
                   [] mode = "FLOOR" -> x.coefficient < 0
                   [] mode = "CEILING" -> x.coefficient > 0
                   [] OTHER -> n * 2 ^ degree > (2 * below + 1) ^ degree * d
    IN  IF x.coefficient = 0 THEN Ok(Dec!Zero)
        ELSE IF x.coefficient < 0 /\ degree = 2 THEN Refused("INVALID_ARGUMENT")
        ELSE IF degree = 1 THEN Ok(x)
        ELSE IF exact # {} /\ x.scale % degree = 0
        THEN Dec!Normalize(Sign(x.coefficient) * CHOOSE r \in exact : TRUE, x.scale \div degree)
        ELSE Dec!Normalize(Sign(x.coefficient) * (IF above THEN below + 1 ELSE below), scale)

ExpectedRescaled(x, target, mode) ==
    IF x.coefficient = 0 \/ target >= x.scale THEN Ok(x)
    ELSE Dec!Normalize(Rounded(x.coefficient, 10 ^ (x.scale - target), mode), target)

ExpectedRound(x, digits, mode) ==
    LET extra == Dec!DigitCount(x.coefficient) - digits
    IN  IF extra <= 0 THEN Ok(x) ELSE ExpectedRescaled(x, x.scale - extra, mode)

\* Both coefficients at the larger scale, when that power of ten can be had.
Aligned(a, b) == Magnitude(a.scale - b.scale) <= MaxPower
AlignedPair(a, b) ==
    LET scale == Larger(a.scale, b.scale)
    IN  <<a.coefficient * 10 ^ (scale - a.scale), b.coefficient * 10 ^ (scale - b.scale), scale>>

ExpectedSum(a, b, sign) ==
    LET pair == AlignedPair(a, b)
    IN  IF a.coefficient = 0 THEN Ok([b EXCEPT !.coefficient = sign * @])
        ELSE IF b.coefficient = 0 THEN Ok(a)
        ELSE IF Aligned(a, b) THEN Dec!Normalize(pair[1] + sign * pair[2], pair[3])
        ELSE Refused("VALUE_TOO_LARGE")

\* Decimals that cannot be aligned here have less than four digits.
ExpectedComparison(a, b) ==
    IF Aligned(a, b) THEN Sign(AlignedPair(a, b)[1] - AlignedPair(a, b)[2])
    ELSE IF a.coefficient = 0 \/ b.coefficient = 0 THEN Sign(a.coefficient - b.coefficient)
    ELSE IF a.scale < b.scale THEN Sign(a.coefficient) ELSE -Sign(b.coefficient)

ExpectedPower(x, exponent, digits, mode) ==
    LET n == Magnitude(exponent)
        power == [coefficient |-> Loop(n, 1, LAMBDA p, i : p * x.coefficient), scale |-> x.scale * n]
    IN  IF exponent >= 0 THEN Dec!Normalize(power.coefficient, power.scale)
        ELSE IF x.coefficient = 0 THEN Refused("DIVISION_BY_ZERO")
        ELSE ExpectedQuotient(Dec!Integer(1), power, digits, mode, TRUE)

\* Integers at a common scale, for the statistics of a column.
ColumnScale(values) == CHOOSE s \in {Larger(values[i].scale, 0) : i \in DOMAIN values} :
                          \A i \in DOMAIN values : values[i].scale <= s
Column(values) == [i \in DOMAIN values |-> values[i].coefficient * 10 ^ (ColumnScale(values) - values[i].scale)]
Total(column, Term(_)) == Loop(Len(column), 0, LAMBDA sum, i : sum + Term(i))
All(column) == Loop(Len(column), 1, LAMBDA product, i : product * column[i])

ExpectedVariance(values, sample, digits, mode) ==
    LET column == Column(values)
        n == Len(values)
        sum == Total(column, LAMBDA i : column[i])
        spread == n * Total(column, LAMBDA i : column[i] * column[i]) - sum * sum
    IN  IF sample /\ n < 2 THEN Refused("INVALID_ARGUMENT")
        ELSE ExpectedQuotient(Dec!Decimal(spread, 2 * ColumnScale(values)),
                              Dec!Integer(n * (IF sample THEN n - 1 ELSE n)), digits, mode, TRUE)

ExpectedMedian(values) ==
    LET column == Column(values)
        middle == {i \in DOMAIN values :
            /\ 2 * Cardinality({j \in DOMAIN values : column[j] < column[i]}) <= Len(values)
            /\ 2 * Cardinality({j \in DOMAIN values : column[j] > column[i]}) <= Len(values)}
        low == CHOOSE i \in middle : \A j \in middle : column[i] <= column[j]
        high == CHOOSE i \in middle : \A j \in middle : column[i] >= column[j]
    IN  Dec!Normalize((column[low] + column[high]) * 5, ColumnScale(values) + 1)

ExpectedHarmonic(values, digits, mode) ==
    LET column == Column(values)
        cofactors == Total(column, LAMBDA i : All(column) \div column[i])
    IN  IF \E i \in DOMAIN column : column[i] <= 0 THEN Refused("INVALID_ARGUMENT")
        ELSE ExpectedQuotient(Dec!Decimal(Len(values) * All(column), ColumnScale(values)),
                              Dec!Integer(cofactors), digits, mode, TRUE)

ExpectedGeometric(values, digits, mode) ==
    LET product == Dec!Normalize(All(Column(values)), Len(values) * ColumnScale(values)).value
    IN  IF \E i \in DOMAIN values : values[i].coefficient < 0 THEN Refused("INVALID_ARGUMENT")
        ELSE ExpectedRoot(product, Len(values), digits, mode)

ExpectedDecimal(op, in) ==
    CASE op = "decimal add" -> ExpectedSum(in[1], in[2], 1)
      [] op = "decimal sub" -> ExpectedSum(in[1], in[2], -1)
      [] op = "decimal mul" -> Dec!Normalize(in[1].coefficient * in[2].coefficient, in[1].scale + in[2].scale)
      [] op = "decimal compare" -> Ok(ExpectedComparison(in[1], in[2]))
      [] op = "divide" -> ExpectedQuotient(in[1], in[2], in[3], in[4], FALSE)
      [] op = "divide finite" -> ExpectedQuotient(in[1], in[2], in[3], in[4], TRUE)
      [] op = "divide at" ->
           LET shift == in[3] + in[2].scale - in[1].scale
               n == in[1].coefficient * 10 ^ Larger(shift, 0)
               d == in[2].coefficient * 10 ^ Larger(-shift, 0)
           IN  IF d = 0 THEN Refused("DIVISION_BY_ZERO")
               ELSE Dec!Normalize(Rounded(Sign(d) * n, Magnitude(d), in[4]), in[3])
      [] op = "rescale" -> ExpectedRescaled(in[1], in[2], in[3])
      [] op = "round" -> ExpectedRound(in[1], in[2], in[3])
      [] op = "root" -> ExpectedRoot(in[1], in[2], in[3], in[4])
      [] op = "decimal power" -> ExpectedPower(in[1], in[2], in[3], in[4])
      [] op = "mean" -> ExpectedQuotient(
             Dec!Decimal(Total(Column(in[1]), LAMBDA i : Column(in[1])[i]), ColumnScale(in[1])),
             Dec!Integer(Len(in[1])), in[2], in[3], TRUE)
      [] op = "median" -> ExpectedMedian(in[1])
      [] op = "variance" -> ExpectedVariance(in[1], in[2], in[3], in[4])
      [] op = "deviation" -> Then(ExpectedVariance(in[1], in[2], in[3] + GuardDigits, "HALF_EVEN"), LAMBDA v :
                                  ExpectedRoot(v, 2, in[3], in[4]))
      [] op = "geometric mean" -> ExpectedGeometric(in[1], in[2], in[3])
      [] op = "harmonic mean" -> ExpectedHarmonic(in[1], in[2], in[3])

\* The length of a text, its sign, point and exponent included.
Bytes(text, form) ==
    LET one(condition) == IF condition THEN 1 ELSE 0
    IN  IF text.notation = "plain"
        THEN one(text.text.negative) + Len(text.text.whole) + Len(text.text.fraction)
             + one(text.text.fraction # <<>>)
        ELSE Dec!ScientificLength(text, form = "MATHEMATICAL")

ExpectedText(x, places, mode) ==
    LET exponent(y) == Dec!DigitCount(y.coefficient) - 1 - y.scale
        far(y) == y.coefficient # 0 /\ Magnitude(exponent(y)) >= ScientificThreshold
        rounded == IF places = Dec!AllDigits THEN Ok(x)
                   ELSE IF far(x) THEN ExpectedRound(x, places + 1, mode)
                   ELSE ExpectedRescaled(x, places, mode)
    IN  Then(rounded, LAMBDA y : Ok([value |-> y,
            notation |-> IF far(x) \/ far(y) THEN "scientific" ELSE "plain",
            exponent |-> IF y.coefficient = 0 THEN 0 ELSE exponent(y)]))

\* The text of a rounded decimal in a mode: bigdecimal.h:581-587.
ExpectedMode(y, form) ==
    LET exponent == Dec!DigitCount(y.coefficient) - 1 - y.scale
        plain == Dec!Plain(y)
        isShort == Magnitude(exponent) < ScientificThreshold /\ Bytes(plain, form) <= AutoChars
    IN  IF y.coefficient = 0 \/ form = "PLAIN" \/ (form = "AUTO" /\ isShort) THEN plain
        ELSE Dec!Scientific(y.coefficient < 0, Dec!DigitsOf(y.coefficient), exponent)

\* A rounding that drops more digits than a power of ten can have.
TooManyDigits(x, places) ==
    Dec!DigitCount(x.coefficient) - (places + 1) > MaxPower \/ x.scale - places > MaxPower

-----------------------------------------------------------------------------
(* The properties.                                                         *)

Answered(op, value) ==
    call.answer.status = "OK" /\ Canonical(call.answer.value) /\ ValueOf(call.answer.value) = value

\* The big integers compute what integers are, in canonical limbs, and refuse
\* only what has no answer (bigint.c and the files on top of it: carries,
\* borrows, quotient digits that are corrected, Karatsuba's halves).
IntegersExact ==
    LET m == call.in[1]
        n == call.in[2]
        value == ValueOf(call.answer.value)
        refused == call.answer.status # "OK"
    IN  /\ call.op \in {"add", "sub", "mul", "pow", "shift left", "shift right"} =>
               Answered(call.op, ExpectedInteger(call.op, m, n))
        /\ call.op \in {"div", "mod"} =>
               IF n = 0 THEN refused ELSE Answered(call.op, ExpectedInteger(call.op, m, n))
        /\ call.op \in {"and", "or", "xor"} =>
               IF m < 0 \/ n < 0 THEN refused ELSE Answered(call.op, ExpectedInteger(call.op, m, n))
        /\ call.op \in {"combination", "permutation"} =>
               IF n > m THEN refused ELSE Answered(call.op, ExpectedInteger(call.op, m, n))
        /\ call.op = "factorial" => Answered(call.op, Fact(m))
        /\ call.op = "not" => Answered(call.op, -m - 1)
        /\ call.op = "text" => Answered(call.op, m)
        /\ call.op = "gcd" =>
               /\ ~refused /\ Canonical(call.answer.value)
               /\ IF m = 0 \/ n = 0 THEN value = Magnitude(m + n)
                  ELSE /\ value > 0 /\ m % value = 0 /\ n % value = 0
                       /\ GCD(Magnitude(m) \div value, Magnitude(n) \div value) = 1
        /\ call.op = "lcm" =>
               IF m = 0 \/ n = 0 THEN Answered(call.op, 0)
               ELSE Answered(call.op, (Magnitude(m) \div GCD(Magnitude(m), Magnitude(n))) * Magnitude(n))
        /\ call.op = "isqrt" =>
               IF m < 0 THEN refused
               ELSE ~refused /\ Canonical(call.answer.value)
                    /\ value * value <= m /\ (value + 1) * (value + 1) > m
        /\ call.op = "square" => call.answer = Ok(\E k \in 0 .. 220 : k * k = m)
        /\ call.op = "prime" =>
               call.answer = Ok(m > 1 /\ \A k \in 2 .. 220 : k < m => m % k # 0)
        /\ call.op = "digits" => call.answer = Ok(Larger(1, Dec!DigitCount(m)))
        /\ call.op = "strip" =>
               LET kept == ValueOf(call.answer.value.value)
               IN  /\ kept * 10 ^ call.answer.value.removed = m
                   /\ m # 0 => kept % 10 # 0

\* An answer in decimals is the exact one, or its one rounding in the mode that
\* was asked for, and is refused only for a scale or a power of ten that cannot
\* be had; fractions stay reduced (bigdecimal's arithmetic.c, division.c,
\* roots.c, operations.c, aggregation.c, statistics.c; bigrational.c).
DecimalsRounded ==
    LET value == call.answer.value
        p == call.in[1]
        q == call.in[2]
        isFraction(n, d) == call.answer.status = "OK" /\ Rat!Reduced(value)
                            /\ value.numerator * d = n * value.denominator
    IN  /\ call.op \in {"decimal add", "decimal sub", "decimal mul", "decimal compare", "divide",
                        "divide finite", "divide at", "rescale", "round", "root", "decimal power",
                        "mean", "median", "variance", "deviation", "geometric mean", "harmonic mean"} =>
               call.answer = ExpectedDecimal(call.op, call.in)
        /\ call.op = "fraction add" => isFraction(p.numerator * q.denominator + q.numerator * p.denominator,
                                                  p.denominator * q.denominator)
        /\ call.op = "fraction mul" => isFraction(p.numerator * q.numerator, p.denominator * q.denominator)
        /\ call.op = "fraction div" =>
               IF q.numerator = 0 THEN call.answer.status = "DIVISION_BY_ZERO"
               ELSE isFraction(p.numerator * q.denominator, p.denominator * q.numerator)
        /\ call.op = "fraction compare" =>
               value = Sign(p.numerator * q.denominator - q.numerator * p.denominator)
        /\ call.op = "fraction root" =>
               IF p.numerator < 0 THEN call.answer.status = "INVALID_ARGUMENT"
               ELSE IF \E n \in 0 .. 10, d \in 1 .. 10 : n * n * p.denominator = d * d * p.numerator
               THEN value.exact /\ value.root.numerator ^ 2 * p.denominator = value.root.denominator ^ 2 * p.numerator
               ELSE ~value.exact
        /\ call.op = "fraction decimal" =>
               call.answer = ExpectedQuotient(Dec!Integer(p.numerator), Dec!Integer(p.denominator), 3, call.in[3], TRUE)
        /\ call.op = "decimal fraction" => isFraction(p.coefficient * 10 ^ Larger(-p.scale, 0), 10 ^ Larger(p.scale, 0))

\* A text shows the value that was asked for, rounded once: the digits of a
\* scientific notation and the places of a fixed one never come from a value
\* that was rounded before, and bounds on the leading limbs answer only where
\* the whole coefficient gives the same text.  A mode changes the notation and
\* nothing else, a text fills the memory that was allocated for it, and only
\* what is longer than the limit is refused, where the sign of a plain text is
\* not counted (format.c, format_mode.c).
TextsRounded ==
    LET text == call.answer.value
        expected == ExpectedText(call.in[1], call.in[2], call.in[3])
        form == call.in[4]
        shown == ExpectedMode(expected.value.value, form)
        fits == IF shown.notation = "plain" /\ shown.text.negative
                THEN Bytes(shown, form) <= call.in[5] + 1
                ELSE Bytes(shown, form) <= call.in[5]
    IN  /\ call.op = "format" =>
               IF call.answer.status = "OK"
               THEN /\ Dec!ValueOfText(text) = Ok(expected.value.value)
                    /\ text.notation = expected.value.notation
                    /\ text.notation = "scientific" => text.exponent = expected.value.exponent
               ELSE call.answer.status = "VALUE_TOO_LARGE" /\ TooManyDigits(call.in[1], call.in[2])
        /\ call.op = "format mode" =>
               IF call.answer.status = "OK"
               THEN text.text = shown /\ text.length = Bytes(shown, form) /\ fits
               ELSE /\ call.answer.status = "VALUE_TOO_LARGE"
                    /\ TooManyDigits(call.in[1], call.in[2]) \/ ~fits

\* What the header says of every mode: the limit bounds the text without its
\* NUL (bigdecimal.h:586, C_API.md:215-217).
OutputIsBounded ==
    call.op = "format mode" /\ call.answer.status = "OK" =>
        Bytes(call.answer.value.text, call.in[4]) <= call.in[5]

\* A workspace changes nothing but the cost: every operation of a series gives
\* what the public operation followed by one rounding gives, whatever the calls
\* before it left in the workspace, one that a budget stopped half-way through
\* a power of ten included (workspace.c).
SeriesAgrees ==
    LET a == call.in[1]
        b == call.in[2]
        digits == call.in[3]
        mode == call.in[4]
        public == CASE call.op = "series add" ->
                         Then(Dec!Add(a, b), LAMBDA x : Dec!RoundSignificant(x, digits, mode))
                    [] call.op = "series mul" ->
                         Then(Dec!Mul(a, b), LAMBDA x : Dec!RoundSignificant(x, digits, mode))
                    [] call.op = "series div" -> Dec!DivSignificant(a, b, digits, mode)
    IN  call.op \in {"series add", "series mul", "series div"} =>
            \/ call.answer = public
            \/ call.answer = Refused("OUT_OF_MEMORY") /\ call.in[5] # Plenty
=============================================================================
