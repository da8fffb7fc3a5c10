--------------------------- MODULE ExactEvaluator ---------------------------
(***************************************************************************)
(* The evaluation of an expression over fractions                          *)
(* (src/src/engine/evaluator/exact_evaluator.c and exact_functions.c).     *)
(*                                                                         *)
(* A tree comes from module Parser, with every variable replaced by the    *)
(* value it holds.  `env' is what an evaluation is given: the working      *)
(* digits, the rounding, the previous answer and the next random draw.     *)
(* Integers are those of TLA+: the limbs under them are in module BigInt.  *)
(***************************************************************************)
EXTENDS Parser, UnitConversion

CONSTANTS
    DefaultDigits,      \* CALCULATOR_DEFAULT_DIVISION_SCALE
    ExactExponent,      \* 4096: a larger exponent is not expanded
    FactorialLimit,     \* CALCULATOR_FACTORIAL_MAX_N
    MaxRootDegree,      \* CALCULATOR_MAX_ROOT_DEGREE
    MaxPlaces,          \* CALCULATOR_MAX_OUTPUT_SCALE
    ModulusGuard        \* 12: the digits added below a modulus

NotImplemented == Refused("NOT_IMPLEMENTED")
InvalidArgument == Refused("INVALID_ARGUMENT")

\* A value is a fraction, a decimal, or a pair of fractions.
Exactly(r) == [kind |-> IF r.denominator = 1 THEN "INTEGER" ELSE "RATIONAL", exact |-> r]
NoAnswer == [kind |-> "NONE"]
IsExactReal(v) == v.kind \in {"INTEGER", "RATIONAL"}

Bound(v) == Node("VARIABLE", "bound", <<>>, <<>>) @@ [value |-> v]

-----------------------------------------------------------------------------
(* The text of a number.                                                   *)

DigitValue == [d \in Digits |-> CHOOSE n \in 0 .. 9 : ToString(n) = d]
Numerals(text, i, end) == [k \in 1 .. end - i |-> DigitValue[text[i + k - 1]]]

\* Where the digits of an exponent begin, past the end when there is none.
ExponentDigits(text) ==
    LET marker == Past(text, 1, Digits \cup Separators)
    IN  IF CharAt(text, marker + 1) \in Signs THEN marker + 2 ELSE marker + 1
ExponentMagnitude(text) ==
    NumberOf(Numerals(text, ExponentDigits(text), Larger(Len(text) + 1, ExponentDigits(text))))

SetNumber(text) ==
    LET whole == Past(text, 1, Digits)
        from == IF CharAt(text, whole) \in Separators THEN whole + 1 ELSE whole
        fraction == Past(text, from, Digits)
        sign == IF CharAt(text, ExponentDigits(text) - 1) = "-" THEN -1 ELSE 1
    IN  SetString([negative |-> FALSE, whole |-> Numerals(text, 1, whole),
                   fraction |-> Numerals(text, from, fraction),
                   exponent |-> sign * ExponentMagnitude(text)])

-----------------------------------------------------------------------------
(* Which trees can be exact at all.                                        *)

IntegerFunctions == {"factorial", "isqrt", "gcd", "lcm", "mod", "npr", "ncr"}
RoundingFunctions == {"floor", "ceil", "trunc", "round"}
SeriesFunctions == {"sum", "product", "mean"}
StatisticsFunctions == {"geomean", "harmean", "variance", "stdevp", "stdev"}
ExactFunctions ==
    IntegerFunctions \cup RoundingFunctions \cup SeriesFunctions \cup StatisticsFunctions
        \cup {"convert", "sqrt", "cbrt", "root", "pow", "abs", "sign", "min", "max", "median"}

From(call) == Units[call.text[1]]
To(call) == Units[call.text[2]]

RECURSIVE ExactSupported(_, _)
ExactSupported(tree, answer) ==
    CASE tree.kind = "NUMBER" -> ExponentMagnitude(tree.text) <= ExactExponent
      [] tree.kind = "VARIABLE" -> IsExactReal(tree.value)
      [] tree.kind = "ANSWER" -> IsExactReal(answer)
      [] tree.kind \in {"UNARY", "BINARY", "POSTFIX", "CALL"} ->
            /\ tree.kind = "CALL" => tree.name \in ExactFunctions
            /\ tree.kind = "CALL" /\ tree.name = "convert" => ConversionIsExact(From(tree), To(tree))
            /\ \A i \in DOMAIN tree.parts : ExactSupported(tree.parts[i], answer)
      [] OTHER -> FALSE

-----------------------------------------------------------------------------
(* Powers and roots.                                                       *)

PowerOf(n, k) == IF k = 0 THEN 1 ELSE n ^ k

ExactPower(base, exponent) ==
    LET k == Magnitude(exponent.numerator)
        top == PowerOf(base.numerator, k)
        bottom == PowerOf(base.denominator, k)
    IN  IF exponent.denominator # 1 THEN InvalidArgument
        ELSE IF exponent.numerator >= 0 THEN Fraction(top, bottom)
        ELSE IF base.numerator = 0 THEN Refused("DIVISION_BY_ZERO")
        ELSE Fraction(bottom, top)

ExactSqrt(r) ==
    Then(SqrtExact(r), LAMBDA root : IF root.exact THEN Ok(root.root) ELSE NotImplemented)

\* A decimal root that is whole is not yet an exact one.
ExactIntegerRoot_Unchecked(n, degree) ==
    Then(FromBigInt(n), LAMBDA operand :
    Then(Root(operand, degree, DefaultDigits, "HALF_EVEN"), LAMBDA root :
         IF ~IsInteger(root) THEN NotImplemented ELSE ToBigInt(root)))
\* A decimal root of the default digits, kept when its power is the operand.
ExactIntegerRoot(n, degree) ==
    Then(FromBigInt(n), LAMBDA operand :
    Then(Root(operand, degree, DefaultDigits, "HALF_EVEN"), LAMBDA root :
         IF ~IsInteger(root) THEN NotImplemented
         ELSE Then(ToBigInt(root), LAMBDA whole :
              IF PowerOf(whole, degree) # n THEN NotImplemented ELSE Ok(whole))))

ExactNthRoot(r, degree) ==
    IF degree = 2 THEN ExactSqrt(r)
    ELSE IF r.numerator < 0 /\ degree % 2 = 0 THEN InvalidArgument
    ELSE Then(ExactIntegerRoot(Magnitude(r.numerator), degree), LAMBDA top :
         Then(ExactIntegerRoot(r.denominator, degree), LAMBDA bottom :
              Fraction(IF r.numerator < 0 THEN -top ELSE top, bottom)))

ExactRoot(r, degree) ==
    IF degree.denominator # 1 \/ degree.numerator <= 0 THEN InvalidArgument
    ELSE IF degree.numerator > MaxRootDegree THEN Refused("VALUE_TOO_LARGE")
    ELSE ExactNthRoot(r, degree.numerator)

-----------------------------------------------------------------------------
(* Functions of integers.                                                  *)

Falling(n, r) == Loop(r, 1, LAMBDA product, k : product * (n - k + 1))
FactorialOf(n) == Falling(n, n)

\* What bigint_factorial and its neighbours compute.
IntegerFunction(function, a) ==
    CASE function = "factorial" -> IF a[1] < 0 THEN InvalidArgument ELSE Ok(FactorialOf(a[1]))
      [] function = "isqrt" -> IF a[1] < 0 THEN InvalidArgument ELSE Ok(IntegerRoot(a[1], 2))
      [] function = "gcd" -> Ok(GcdOf(a[1], a[2]))
      [] function = "lcm" -> Ok(IF a[1] = 0 \/ a[2] = 0 THEN 0
                                ELSE (Magnitude(a[1]) \div GcdOf(a[1], a[2])) * Magnitude(a[2]))
      [] function = "mod" -> IF a[2] = 0 THEN Refused("DIVISION_BY_ZERO") ELSE Ok(Remainder(a[1], a[2]))
      [] OTHER -> IF a[2] < 0 \/ a[2] > a[1] THEN InvalidArgument
                  ELSE IF function = "npr" THEN Ok(Falling(a[1], a[2]))
                  ELSE Ok(Falling(a[1], a[2]) \div FactorialOf(a[2]))

ExactIntegerOperation(function, items) ==
    IF \E i \in DOMAIN items : items[i].denominator # 1 THEN InvalidArgument
    ELSE IF function = "factorial" /\ items[1].numerator > FactorialLimit THEN Refused("VALUE_TOO_LARGE")
    ELSE Then(IntegerFunction(function, [i \in DOMAIN items |-> items[i].numerator]),
              LAMBDA n : Ok(Rational(n, 1)))

-----------------------------------------------------------------------------
(* Rounding to a decimal place, by one division with remainder.            *)

Away(function, quotient, remainder, denominator, negative) ==
    CASE remainder = 0 -> FALSE
      [] function = "floor" -> negative
      [] function = "ceil" -> ~negative
      [] function = "round" -> \/ 2 * Magnitude(remainder) > denominator
                               \/ 2 * Magnitude(remainder) = denominator /\ quotient % 2 # 0
      [] OTHER -> FALSE

RoundAt(function, r, places) ==
    LET power == 10 ^ Magnitude(places)
        n == IF places > 0 THEN r.numerator * power ELSE r.numerator
        d == IF places < 0 THEN r.denominator * power ELSE r.denominator
        negative == r.numerator < 0
        cut == Quotient(n, d)
        rounded == IF Away(function, cut, Remainder(n, d), d, negative)
                   THEN IF negative THEN cut - 1 ELSE cut + 1
                   ELSE cut
    IN  IF places > 0 THEN Fraction(rounded, power)
        ELSE Ok(Rational(IF places < 0 THEN rounded * power ELSE rounded, 1))

ExactRounding(function, items) ==
    LET places == IF Len(items) = 2 THEN items[2] ELSE Rational(0, 1)
    IN  IF places.denominator # 1 THEN InvalidArgument
        ELSE IF Magnitude(places.numerator) > MaxPlaces THEN NotImplemented
        ELSE RoundAt(function, items[1], places.numerator)

-----------------------------------------------------------------------------
(* Several items.                                                          *)

Count(items) == Rational(Len(items), 1)
Folded(items, Step(_, _)) ==
    LoopWhileOk(Len(items) - 1, items[1], LAMBDA result, i : Step(result, items[i + 1]))

\* The first of the least, or of the largest.
Chosen(function, items) ==
    Loop(Len(items) - 1, items[1], LAMBDA best, i :
        LET comparison == CompareFractions(items[i + 1], best)
        IN  IF comparison = (IF function = "min" THEN -1 ELSE 1) THEN items[i + 1] ELSE best)

ExactSeries(function, items) ==
    Then(Folded(items, LAMBDA a, b : IF function = "product" THEN MulFractions(a, b) ELSE AddFractions(a, b)),
         LAMBDA total : IF function = "mean" THEN DivFractions(total, Count(items)) ELSE Ok(total))

\* Insertion sort: an item moves down past the larger ones.
Sorted(items) ==
    Loop(Len(items), <<>>, LAMBDA sorted, i :
        LET place == Least(Len(sorted), LAMBDA n :
                        \A j \in n + 1 .. Len(sorted) : CompareFractions(sorted[j], items[i]) > 0)
        IN  SubSeq(sorted, 1, place) \o <<items[i]>> \o SubSeq(sorted, place + 1, Len(sorted)))

ExactMedian(sorted) ==
    LET middle == Len(sorted) \div 2
    IN  IF Len(sorted) % 2 = 1 THEN Ok(sorted[middle + 1])
        ELSE Then(AddFractions(sorted[middle + 1], sorted[middle]), LAMBDA sum :
                  DivFractions(sum, Rational(2, 1)))

\* The product, or the sum of the reciprocals, of items of the right sign.
ExactMeans(function, items) ==
    LET refused(r) == r.numerator < 0 \/ (r.numerator = 0 /\ function = "harmean")
        start == IF function = "geomean" THEN Rational(1, 1) ELSE Rational(0, 1)
        step(result, r) ==
            IF function = "geomean" THEN MulFractions(result, r)
            ELSE Then(DivFractions(Rational(1, 1), r), LAMBDA reciprocal : AddFractions(result, reciprocal))
        total == LoopWhileOk(Len(items), start, LAMBDA result, i :
                     IF refused(items[i]) THEN InvalidArgument ELSE step(result, items[i]))
    IN  Then(total, LAMBDA result :
             IF function = "geomean" THEN ExactNthRoot(result, Len(items))
             ELSE DivFractions(Count(items), result))

\* The mean first, then the squares of the distances from it.
ExactVariance(function, items) ==
    LET squares(mean) ==
            LoopWhileOk(Len(items), Rational(0, 1), LAMBDA sum, i :
                Then(SubFractions(items[i], mean), LAMBDA distance :
                Then(MulFractions(distance, distance), LAMBDA square : AddFractions(sum, square))))
        divisor == IF function = "stdev" THEN Rational(Len(items) - 1, 1) ELSE Count(items)
    IN  Then(ExactSeries("mean", items), LAMBDA mean :
        Then(squares(mean), LAMBDA sum :
        Then(DivFractions(sum, divisor), LAMBDA variance :
             IF function = "variance" THEN Ok(variance) ELSE ExactSqrt(variance))))

ExactStatistics(function, items) ==
    IF function \in {"geomean", "harmean"} THEN ExactMeans(function, items)
    ELSE ExactVariance(function, items)

-----------------------------------------------------------------------------
(* Trees.                                                                  *)

RECURSIVE ExactValue(_, _)

ExactItems(trees, answer) ==
    LoopWhileOk(Len(trees), <<>>, LAMBDA items, i :
        Then(ExactValue(trees[i], answer), LAMBDA item : Ok(Append(items, item))))

ExactCall(function, items) ==
    CASE function = "sqrt" -> ExactSqrt(items[1])
      [] function = "cbrt" -> ExactNthRoot(items[1], 3)
      [] function = "root" -> ExactRoot(items[1], items[2])
      [] function = "pow" -> ExactPower(items[1], items[2])
      [] function \in IntegerFunctions -> ExactIntegerOperation(function, items)
      [] function \in RoundingFunctions -> ExactRounding(function, items)
      [] function = "abs" -> Ok(AbsFraction(items[1]))
      [] function = "sign" -> Ok(Rational(Sign(items[1].numerator), 1))
      [] function \in {"min", "max"} -> Ok(Chosen(function, items))
      [] function \in SeriesFunctions -> ExactSeries(function, items)
      [] function = "median" -> ExactMedian(Sorted(items))
      [] function \in StatisticsFunctions -> ExactStatistics(function, items)
      [] OTHER -> NotImplemented

ExactBinary(operation, left, right) ==
    CASE operation = "+" -> AddFractions(left, right)
      [] operation = "-" -> SubFractions(left, right)
      [] operation = "*" -> MulFractions(left, right)
      [] operation = "/" -> DivFractions(left, right)
      [] operation = "^" -> ExactPower(left, right)

ExactPostfix(operation, operand) ==
    IF operation = "!" THEN ExactIntegerOperation("factorial", <<operand>>)
    ELSE ExactPower(operand, Rational(IF operation = "squared" THEN 2 ELSE 3, 1))

ExactNode(tree, items) ==
    CASE tree.kind = "UNARY" -> Ok(IF tree.name = "-" THEN NegateFraction(items[1]) ELSE items[1])
      [] tree.kind = "POSTFIX" -> ExactPostfix(tree.name, items[1])
      [] tree.kind = "BINARY" -> ExactBinary(tree.name, items[1], items[2])
      [] tree.kind = "CALL" /\ tree.name = "convert" -> ConvertRational(items[1], From(tree), To(tree))
      [] tree.kind = "CALL" -> ExactCall(tree.name, items)
      [] OTHER -> InvalidArgument

\* calculator_evaluate_exact, of a tree that is ExactSupported.
ExactValue(tree, answer) ==
    CASE tree.kind = "NUMBER" -> Then(SetNumber(tree.text), FromDecimal)
      [] tree.kind = "VARIABLE" -> Ok(tree.value.exact)
      [] tree.kind = "ANSWER" -> Ok(answer.exact)
      [] OTHER -> Then(ExactItems(tree.parts, answer), LAMBDA items : ExactNode(tree, items))
=============================================================================
