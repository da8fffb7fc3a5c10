-------------------------- MODULE ComplexEvaluator --------------------------
(***************************************************************************)
(* The evaluation of an expression that has, or may get, a complex value   *)
(* (src/src/engine/evaluator/complex_evaluator.c and                       *)
(* src/src/core/bigcomplex/bigrationalcomplex.c).                          *)
(*                                                                         *)
(* The operands of a node are evaluated first, and what they turn out to   *)
(* be decides between the evaluators of real values and the arithmetic of  *)
(* pairs of fractions.  Pairs of decimals come from numerical methods: an  *)
(* answer that is one is Numerical.                                        *)
(***************************************************************************)
EXTENDS DecimalEvaluator

Complex(re, im) == [kind |-> "COMPLEX_RATIONAL", re |-> re, im |-> im]
RationalValue(r) == [kind |-> "RATIONAL", exact |-> r]
DecimalOf(x) == [kind |-> "DECIMAL", number |-> x]
ComplexDecimal == [kind |-> "COMPLEX_DECIMAL"]

IsComplex(v) == v.kind \in {"COMPLEX_RATIONAL", "COMPLEX_DECIMAL"}
IsExact(v) == IsExactReal(v) \/ v.kind = "COMPLEX_RATIONAL"
AsExact(v) == IF IsComplex(v) THEN v ELSE Complex(v.exact, Rational(0, 1))
IntegerValue(n) == Exactly(Rational(n, 1))

-----------------------------------------------------------------------------
(* Pairs of fractions.                                                     *)

Pair(re, im) == Then(re, LAMBDA x : Then(im, LAMBDA y : Ok(Complex(x, y))))
Conjugate(z) == Complex(z.re, NegateFraction(z.im))

\* The sum, or the difference, of two products.
Crossed(a, b, c, d, Join(_, _)) ==
    Then(MulFractions(a, b), LAMBDA x : Then(MulFractions(c, d), LAMBDA y : Join(x, y)))
AbsSquared(z) == Crossed(z.re, z.re, z.im, z.im, AddFractions)

Product(a, b) == Pair(Crossed(a.re, b.re, a.im, b.im, SubFractions),
                      Crossed(a.im, b.re, a.re, b.im, AddFractions))
Ratio(a, b) ==
    Then(AbsSquared(b), LAMBDA d :
         Pair(Then(Crossed(a.re, b.re, a.im, b.im, AddFractions), LAMBDA x : DivFractions(x, d)),
              Then(Crossed(a.im, b.re, a.re, b.im, SubFractions), LAMBDA y : DivFractions(y, d))))

ComplexBinary(operation, a, b) ==
    CASE operation = "+" -> Pair(AddFractions(a.re, b.re), AddFractions(a.im, b.im))
      [] operation = "-" -> Pair(SubFractions(a.re, b.re), SubFractions(a.im, b.im))
      [] operation = "*" -> Product(a, b)
      [] operation = "/" -> Ratio(a, b)

\* One factor for each bit of the exponent, the base squared in between.
ComplexOne == Complex(Rational(1, 1), Rational(0, 1))
ComplexPower(z, exponent) ==
    LET n == Magnitude(exponent)
        bits == Least(31, LAMBDA k : n < 2 ^ k)
        power == LoopWhileOk(bits, [power |-> ComplexOne, base |-> z], LAMBDA state, i :
            Then(IF (n \div 2 ^ (i - 1)) % 2 = 1 THEN Product(state.power, state.base) ELSE Ok(state.power),
                 LAMBDA next :
            Then(IF i < bits THEN Product(state.base, state.base) ELSE Ok(state.base), LAMBDA square :
                 Ok([power |-> next, base |-> square]))))
    IN  Then(power, LAMBDA state :
             IF exponent < 0 THEN Ratio(ComplexOne, state.power) ELSE Ok(state.power))

\* The half-angle formulas, when both roots are rational.
HalfOf(sum) == Then(sum, LAMBDA s : DivFractions(s, Rational(2, 1)))
ExactSquareRoot(z) ==
    Then(AbsSquared(z), LAMBDA squared :
    Then(ExactSqrt(squared), LAMBDA radius :
    Then(Then(HalfOf(AddFractions(radius, z.re)), ExactSqrt), LAMBDA u :
    Then(Then(HalfOf(SubFractions(radius, z.re)), ExactSqrt), LAMBDA v :
         Ok(Complex(u, IF z.im.numerator < 0 THEN NegateFraction(v) ELSE v))))))

-----------------------------------------------------------------------------
(* Which trees have a complex part, or may get one.                        *)

ComplexFunctions == {"complex", "re", "im", "conj", "arg"}
PromotingFunctions ==
    {"sqrt", "ln", "log", "asin", "acos", "acosh", "atanh", "pow", "root", "cbrt"}

RECURSIVE UsesComplex(_, _, _)
UsesComplex(tree, answer, promoting) ==
    \/ tree.kind = "IMAGINARY"
    \/ tree.kind = "ANSWER" /\ IsComplex(answer)
    \/ tree.kind = "VARIABLE" /\ IsComplex(tree.value)
    \/ tree.kind = "BINARY" /\ promoting /\ tree.name = "^"
    \/ tree.kind = "CALL" /\ tree.name \in ComplexFunctions
    \/ tree.kind = "CALL" /\ promoting /\ tree.name \in PromotingFunctions
    \/ \E i \in DOMAIN tree.parts : UsesComplex(tree.parts[i], answer, promoting)
HasComplex(tree, answer) == UsesComplex(tree, answer, FALSE)
MayBeComplex(tree, answer) == UsesComplex(tree, answer, TRUE)

-----------------------------------------------------------------------------
(* Real parts.                                                             *)

\* The previous answer is a decimal before anything is evaluated.
AnswerAsDecimal(env) ==
    IF env.answer.kind = "NONE" \/ IsComplex(env.answer) THEN Refused("UNDEFINED_ANSWER")
    ELSE Materialised(env.answer, env)

\* calculator_evaluate_with_answer: over decimals only.
EvaluateWithAnswer(tree, decimal, env) ==
    IF decimal.status \notin {"OK", "UNDEFINED_ANSWER"} THEN decimal
    ELSE IF HasComplex(tree, env.answer) THEN InvalidArgument
    ELSE DecimalValue(tree, [env EXCEPT !.decimal = decimal])

\* The exact value, unless none is defined.
FirstExactly(exact, env, otherwise) ==
    IF exact.status = "NOT_IMPLEMENTED" THEN otherwise
    ELSE Then(exact, LAMBDA r : Then(ToWorking(r, env), LAMBDA x : Ok(RationalValue(r))))

EvaluateReal(tree, env) ==
    FirstExactly(IF ExactSupported(tree, env.answer) THEN ExactValue(tree, env.answer) ELSE NotImplemented,
                 env,
                 Then(EvaluateWithAnswer(tree, AnswerAsDecimal(env), env), LAMBDA x : Ok(DecimalOf(x))))

\* The evaluator of real values is asked, and the operands stand for
\* themselves, as variables: none is evaluated twice.
OfReals(tree) == [status |-> "OF_REALS", tree |-> tree]
RealOperation(tree, values) ==
    OfReals([tree EXCEPT !.parts = [i \in DOMAIN values |-> Bound(values[i])]])

SignOf(v) == IF IsExactReal(v) THEN Sign(v.exact.numerator) ELSE Sign(v.number.coefficient)
CompareReal(v, n) ==
    IF IsExactReal(v) THEN CompareFractions(v.exact, Rational(n, 1)) ELSE Compare(v.number, Integer(n))

-----------------------------------------------------------------------------
(* Operations of complex values.                                           *)

ExponentValue(v, env) ==
    IF IsComplex(v) THEN InvalidArgument
    ELSE IF v.kind = "RATIONAL"
    THEN IF v.exact.denominator = 1 THEN Ok(v.exact.numerator) ELSE InvalidArgument
    ELSE Then(Materialised(v, env), LAMBDA x :
         LET n == ToBigInt(x) IN IF n.status = "OK" THEN n ELSE InvalidArgument)

\* An exponent that is no integer has a method of its own.
WithExponent(v, env, Whole(_), Fractional) ==
    LET n == ExponentValue(v, env)
    IN  IF n.status = "INVALID_ARGUMENT" THEN Fractional ELSE Then(n, Whole)

Arithmetic(operation, a, b, env) ==
    IF operation = "^"
    THEN WithExponent(b, env,
             LAMBDA n : IF IsExact(a) THEN ComplexPower(AsExact(a), n) ELSE Numerical, Numerical)
    ELSE IF IsExact(a) /\ IsExact(b) THEN ComplexBinary(operation, AsExact(a), AsExact(b))
    ELSE Numerical

OrNumerically(call) == IF call.status = "NOT_IMPLEMENTED" THEN Numerical ELSE call

\* A distance whose square has no rational root is rounded twice.
AbsoluteValue(z, env) ==
    Then(AbsSquared(z), LAMBDA squared :
    LET exact == ExactSqrt(squared)
    IN  IF exact.status = "OK" THEN Ok(RationalValue(exact.value))
        ELSE Then(ToDecimal(squared, env.digits + ModulusGuard, env.rounding), LAMBDA x :
             Then(Root(x, 2, env.digits, env.rounding), LAMBDA root : Ok(DecimalOf(root)))))

ComplexFunction(function, v, env) ==
    LET pair == v.kind = "COMPLEX_RATIONAL"
    IN  CASE function = "sqrt" /\ pair -> OrNumerically(ExactSquareRoot(v))
          [] function \in {"re", "conj"} /\ ~IsComplex(v) -> Ok(v)
          [] function = "im" /\ ~IsComplex(v) -> Ok(RationalValue(Rational(0, 1)))
          [] function = "re" /\ pair -> Ok(RationalValue(v.re))
          [] function = "im" /\ pair -> Ok(RationalValue(v.im))
          [] function = "conj" /\ pair -> Ok(Conjugate(v))
          [] function = "abs" /\ pair -> AbsoluteValue(v, env)
          [] OTHER -> Numerical

Promoted(v) == CASE IsComplex(v) -> v
                 [] IsExactReal(v) -> AsExact(v)
                 [] OTHER -> ComplexDecimal

\* Where a real argument has no real value.
LeavesTheReals(function, v) ==
    CASE function \in {"sqrt", "ln", "log"} -> SignOf(v) < 0
      [] function \in {"asin", "acos", "atanh"} -> CompareReal(v, -1) < 0 \/ CompareReal(v, 1) > 0
      [] function = "acosh" -> CompareReal(v, 1) < 0
      [] OTHER -> FALSE
PromoteArguments(function, values) ==
    [i \in DOMAIN values |->
        IF ~IsComplex(values[i]) /\ LeavesTheReals(function, values[i])
        THEN Promoted(values[i]) ELSE values[i]]

ComplexRoot(v, degree, env) ==
    IF degree = 2 THEN ComplexFunction("sqrt", v, env)
    ELSE Arithmetic("^", v, RationalValue(Rational(1, degree)), env)

ComplexAggregate(function, values, env) ==
    LET total == LoopWhileOk(Len(values) - 1, AsExact(values[1]), LAMBDA z, i :
                     ComplexBinary(IF function = "product" THEN "*" ELSE "+", z, AsExact(values[i + 1])))
    IN  IF \E i \in DOMAIN values : ~IsExact(values[i]) THEN Numerical
        ELSE IF function # "mean" THEN total
        ELSE Then(total, LAMBDA z : Ratio(z, AsExact(IntegerValue(Len(values)))))

Construct(re, im) ==
    IF IsComplex(re) \/ IsComplex(im) THEN InvalidArgument
    ELSE IF IsExactReal(re) /\ IsExactReal(im) THEN Ok(Complex(re.exact, im.exact))
    ELSE Numerical

-----------------------------------------------------------------------------
(* Calls.                                                                  *)

AnyComplex(values) == \E i \in DOMAIN values : IsComplex(values[i])

ElementaryFunctions == (TranscendentalFunctions \ {"log", "radians", "degrees"}) \cup {"sqrt"}

Dispatch(tree, values, fractional, env) ==
    LET function == tree.name
        complex == AnyComplex(values)
    IN  CASE function = "complex" -> Construct(values[1], values[2])
          [] complex /\ function \in SeriesFunctions -> ComplexAggregate(function, values, env)
          [] \/ function \in {"re", "im", "conj", "arg"}
             \/ complex /\ function \in ElementaryFunctions \cup {"abs"} ->
                ComplexFunction(function, values[1], env)
          [] function = "log" /\ complex -> Numerical
          [] function = "pow" /\ (complex \/ fractional) -> Arithmetic("^", values[1], values[2], env)
          [] OTHER -> IF complex THEN InvalidArgument ELSE RealOperation(tree, values)

RootDegree(function, values, env) ==
    IF function = "cbrt" THEN Ok(3)
    ELSE Then(ExponentValue(values[2], env), LAMBDA degree :
              IF degree < 1 THEN InvalidArgument
              ELSE IF degree > MaxRootDegree THEN Refused("VALUE_TOO_LARGE")
              ELSE Ok(degree))

\* A degree is checked, and then it is the real root unless there is none.
RootCall(tree, values, env) ==
    Then(RootDegree(tree.name, values, env), LAMBDA degree :
         IF AnyComplex(values) \/ (SignOf(values[1]) < 0 /\ degree % 2 = 0)
         THEN ComplexRoot(Promoted(values[1]), degree, env)
         ELSE RealOperation(tree, values))

FractionalPower(tree, values, env) ==
    IF tree.name # "pow" \/ AnyComplex(values) THEN Ok(FALSE)
    ELSE WithExponent(values[2], env, LAMBDA n : Ok(FALSE), Ok(TRUE))

ComplexCall(tree, values, env) ==
    IF tree.name \in {"root", "cbrt"} THEN RootCall(tree, values, env)
    ELSE Then(FractionalPower(tree, values, env), LAMBDA fractional :
              Dispatch(tree, PromoteArguments(tree.name, values), fractional, env))

-----------------------------------------------------------------------------
(* Trees.                                                                  *)

\* A sign, a postfix or a binary operator.  (The exponential of a complex
\* exponent of the constant e is as Numerical as any complex power is.)
Operands(tree, values) ==
    CASE tree.kind = "UNARY" -> <<IntegerValue(0), values[1]>>
      [] tree.kind = "POSTFIX" -> <<values[1], IntegerValue(IF tree.name = "squared" THEN 2 ELSE 3)>>
      [] OTHER -> values
OperatorOf(tree) == IF tree.kind = "POSTFIX" THEN "^" ELSE tree.name

ComplexOperation(tree, values, env) ==
    IF AnyComplex(values)
    THEN IF tree.kind = "UNARY" /\ tree.name = "+" THEN Ok(values[1])
         ELSE IF tree.kind = "POSTFIX" /\ tree.name = "!" THEN InvalidArgument
         ELSE Arithmetic(OperatorOf(tree), Operands(tree, values)[1], Operands(tree, values)[2], env)
    ELSE IF tree.kind = "BINARY" /\ tree.name = "^"
    THEN WithExponent(values[2], env, LAMBDA n : RealOperation(tree, values), Numerical)
    ELSE RealOperation(tree, values)

RECURSIVE EvaluateComplex(_, _)
ComplexItems(trees, env) ==
    LoopWhileOk(Len(trees), <<>>, LAMBDA values, i :
        Then(EvaluateComplex(trees[i], env), LAMBDA v : Ok(Append(values, v))))

OfValues(tree, values, env) ==
    IF values.status # "OK" THEN values
    ELSE IF tree.kind = "CALL" THEN ComplexCall(tree, values.value, env)
    ELSE ComplexOperation(tree, values.value, env)

ComplexValue(tree, env) ==
    IF ~MayBeComplex(tree, env.answer) THEN OfReals(tree)
    ELSE CASE tree.kind = "VARIABLE" -> Ok(tree.value)
           [] tree.kind = "ANSWER" -> Ok(env.answer)
           [] tree.kind = "IMAGINARY" -> Ok(Complex(Rational(0, 1), Rational(1, 1)))
           [] OTHER -> OfValues(tree, ComplexItems(tree.parts, env), env)

Resolved(call, env) == IF call.status = "OF_REALS" THEN EvaluateReal(call.tree, env) ELSE call

\* calculator_evaluate_complex
EvaluateComplex(tree, env) == Resolved(ComplexValue(tree, env), env)
=============================================================================
