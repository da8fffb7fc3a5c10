-------------------------- MODULE DecimalEvaluator --------------------------
(***************************************************************************)
(* The evaluation of an expression over decimals                           *)
(* (src/src/engine/evaluator/evaluator.c and evaluator_functions.c).       *)
(*                                                                         *)
(* A part that can be exact is evaluated over fractions and rounded once;  *)
(* everything else rounds at each operation that has to.  The values of    *)
(* the transcendental functions are not modelled: what their calls do      *)
(* first is, and then the answer is Numerical.  The budget is in module    *)
(* Budget.                                                                 *)
(*                                                                         *)
(* env.decimal is the previous answer as a decimal, or the refusal of it;  *)
(* env.draw the decimal that the random state gives next.                  *)
(***************************************************************************)
EXTENDS ExactEvaluator

\* calculator_constant_set_value rounds them from as many digits as it needs.
Constants == ("pi" :> Decimal(314159, 5)) @@ ("e" :> Decimal(271828, 5)) @@ ("phi" :> Decimal(161803, 5))

ToWorking(r, env) == ToDecimal(r, env.digits, env.rounding)

\* calculator_materialize_exact, and a copy of what is a decimal already.
Materialised(v, env) ==
    CASE v.kind = "DECIMAL" -> Ok(v.number)
      [] IsExactReal(v) -> ToWorking(v.exact, env)
      [] OTHER -> InvalidArgument

MethodDigits(env) == Larger(env.digits, DefaultDigits)

-----------------------------------------------------------------------------
(* Operators.                                                              *)

IsCount(x) == IsInteger(x) /\ x.coefficient >= 0

DecimalPower(base, exponent, env) ==
    Then(ToBigInt(exponent), LAMBDA n : PowSigned(base, n, env.digits, env.rounding))

DecimalBinary(operation, left, right, env) ==
    CASE operation = "+" -> Add(left, right)
      [] operation = "-" -> Sub(left, right)
      [] operation = "*" -> Mul(left, right)
      [] operation = "/" -> DivExactOrSignificant(left, right, env.digits, env.rounding)
      [] operation = "^" -> DecimalPower(left, right, env)

DecimalFactorial(x) ==
    IF ~IsCount(x) THEN InvalidArgument
    ELSE IF Compare(x, Integer(FactorialLimit)) > 0 THEN Refused("VALUE_TOO_LARGE")
    ELSE Then(ToBigInt(x), LAMBDA n : Then(IntegerFunction("factorial", <<n>>), FromBigInt))

DecimalPostfix(operation, x) ==
    IF operation = "!" THEN DecimalFactorial(x)
    ELSE Then(Mul(x, x), LAMBDA square : IF operation = "squared" THEN Ok(square) ELSE Mul(square, x))

-----------------------------------------------------------------------------
(* Calls.                                                                  *)

SignedFunctions == {"gcd", "lcm", "mod"}
WholeNumber(function, x) ==
    IF function \notin SignedFunctions /\ ~IsCount(x) THEN InvalidArgument ELSE ToBigInt(x)

TakesIntegers(tree) == tree.kind = "CALL" /\ tree.name \in IntegerFunctions \ {"factorial"}

DegreeOf(function, items) ==
    IF function # "root" THEN Ok(IF function = "cbrt" THEN 3 ELSE 2)
    ELSE IF ~IsCount(items[2]) \/ items[2].coefficient = 0 THEN InvalidArgument
    ELSE IF Compare(items[2], Integer(MaxRootDegree)) > 0 THEN Refused("VALUE_TOO_LARGE")
    ELSE ToBigInt(items[2])

DecimalRoot(function, items, env) ==
    Then(DegreeOf(function, items), LAMBDA degree :
         Root(items[1], degree, MethodDigits(env), env.rounding))

\* The selected one keeps its place until a later one is strictly better.
DecimalChoice(function, items) ==
    Loop(Len(items) - 1, items[1], LAMBDA selected, i :
        IF Compare(items[i + 1], selected) = (IF function = "min" THEN -1 ELSE 1)
        THEN items[i + 1] ELSE selected)

DecimalAggregate(function, items, env) ==
    CASE function = "sum" -> Sum(items)
      [] function = "product" -> ProductOf(items)
      [] function = "mean" -> Mean(items, env.digits, env.rounding)
      [] function = "median" -> Median(items)
      [] function = "geomean" -> GeometricMean(items, env.digits, env.rounding)
      [] function = "harmean" -> HarmonicMean(items, env.digits, env.rounding)
      [] function = "variance" -> Variance(items, FALSE, env.digits, env.rounding)
      [] function \in {"stdev", "stdevp"} ->
            StandardDeviation(items, function = "stdev", env.digits, env.rounding)

PlacesOf(items) == IF Len(items) < 2 THEN Ok(0) ELSE ToBigInt(items[2])
DecimalRounding(function, items) ==
    Then(PlacesOf(items), LAMBDA places :
         CASE function = "floor" -> Floor(items[1])
           [] function = "ceil" -> Ceil(items[1])
           [] function = "trunc" -> Trunc(items[1])
           [] function = "round" -> Round(items[1], places))

\* Between 0 and 1, 0 and an end, or two ends, when they are in order.
RandomCall(items, env) ==
    LET lower == IF Len(items) = 2 THEN items[1] ELSE Zero
        upper == IF items = <<>> THEN Integer(1) ELSE items[Len(items)]
    IN  IF Compare(lower, upper) >= 0 THEN InvalidArgument
        ELSE Then(Sub(upper, lower), LAMBDA span :
             Then(Mul(span, env.draw), LAMBDA offset : Add(lower, offset)))

TranscendentalFunctions ==
    {"exp", "ln", "log", "sinh", "cosh", "tanh", "asinh", "acosh", "atanh", "sin", "cos", "tan",
     "asin", "acos", "atan", "radians", "degrees"}
AggregateFunctions == SeriesFunctions \cup StatisticsFunctions \cup {"median"}

\* pow and factorial become the operators of the same name, which cannot be
\* exact either.
DecimalCall(function, items, tree, env) ==
    CASE function = "pow" -> DecimalBinary("^", items[1], items[2], env)
      [] function = "factorial" -> DecimalFactorial(items[1])
      [] function \in IntegerFunctions \ {"factorial"} ->
            Then(IntegerFunction(function, items), FromBigInt)
      [] function = "convert" -> ConvertDecimal(items[1], From(tree), To(tree), env.digits, env.rounding)
      [] function = "rand" -> RandomCall(items, env)
      [] function \in {"sqrt", "cbrt", "root"} -> DecimalRoot(function, items, env)
      [] function \in TranscendentalFunctions -> Numerical
      [] function = "abs" -> Ok(Abs(items[1]))
      [] function = "sign" -> Ok(Integer(Sign(items[1].coefficient)))
      [] function \in {"min", "max"} -> Ok(DecimalChoice(function, items))
      [] function \in AggregateFunctions -> DecimalAggregate(function, items, env)
      [] function \in RoundingFunctions -> DecimalRounding(function, items)
      [] OTHER -> NotImplemented

-----------------------------------------------------------------------------
(* Trees.                                                                  *)

\* Operators and calls, and the sign of an operator, are tried exactly first.
TriedExactly(tree, answer) ==
    /\ \/ tree.kind \in {"BINARY", "POSTFIX", "CALL"}
       \/ tree.kind = "UNARY" /\ tree.parts[1].kind = "BINARY"
    /\ ExactSupported(tree, answer)

DecimalLeaf(tree, env) ==
    CASE tree.kind = "VARIABLE" -> Materialised(tree.value, env)
      [] tree.kind = "ANSWER" -> env.decimal
      [] tree.kind = "NUMBER" -> SetNumber(tree.text)
      [] tree.kind = "CONSTANT" -> RoundSignificant(Constants[NameOf(tree.text)], env.digits, env.rounding)
      [] OTHER -> InvalidArgument

DecimalNode(tree, items, env) ==
    CASE tree.kind = "UNARY" -> Ok(IF tree.name = "-" THEN Negate(items[1]) ELSE items[1])
      [] tree.kind = "POSTFIX" -> DecimalPostfix(tree.name, items[1])
      [] tree.kind = "BINARY" -> DecimalBinary(tree.name, items[1], items[2], env)
      [] tree.kind = "CALL" -> DecimalCall(tree.name, items, tree, env)

\* Operands from left to right; the first that is refused ends the node.
RECURSIVE DecimalValue(_, _)
DecimalItems(tree, env) ==
    LoopWhileOk(Len(tree.parts), <<>>, LAMBDA items, i :
        Then(DecimalValue(tree.parts[i], env), LAMBDA item :
        Then(IF TakesIntegers(tree) THEN WholeNumber(tree.name, item) ELSE Ok(item), LAMBDA checked :
             Ok(Append(items, checked)))))

NodeOfItems(tree, items, env) ==
    IF items.status = "OK" THEN DecimalNode(tree, items.value, env) ELSE items

\* A fraction, unless none is defined: then the decimals of the parts.
OrElse(exact, tree, env) ==
    IF exact.status # "NOT_IMPLEMENTED" THEN Then(exact, LAMBDA r : ToWorking(r, env))
    ELSE IF tree.kind \notin {"UNARY", "POSTFIX", "BINARY", "CALL"} THEN DecimalLeaf(tree, env)
    ELSE NodeOfItems(tree, DecimalItems(tree, env), env)

DecimalValue(tree, env) ==
    OrElse(IF TriedExactly(tree, env.answer) THEN ExactValue(tree, env.answer) ELSE NotImplemented,
           tree, env)
=============================================================================
