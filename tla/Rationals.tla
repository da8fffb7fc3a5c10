------------------------------ MODULE Rationals -----------------------------
(***************************************************************************)
(* The reduced fractions of src/src/core/bigrational and the statistics of *)
(* src/src/core/bigdecimal/statistics.c, the two users of decimals that    *)
(* promise an exact answer, or one rounding of it.                         *)
(***************************************************************************)
EXTENDS BigDecimal

CONSTANT GuardDigits    \* 16: BIGDECIMAL_STATISTICS_GUARD_DIGITS

Half == Decimal(5, 1)

Rational(n, d) == [numerator |-> n, denominator |-> d]

Fraction(n, d) ==
    LET g == GcdOf(n, d)
    IN  IF d = 0 THEN Refused("DIVISION_BY_ZERO")
        ELSE IF n = 0 THEN Ok(Rational(0, 1))
        ELSE IF d < 0 THEN Ok(Rational(-Quotient(n, g), Magnitude(Quotient(d, g))))
        ELSE Ok(Rational(Quotient(n, g), Quotient(d, g)))

Reduced(r) == r.denominator > 0 /\ GcdOf(r.numerator, r.denominator) = 1

FromDecimal(x) ==
    Then(PowerOfTen(Larger(x.scale, 0)), LAMBDA denominator :
    Then(TimesPowerOfTen(x.coefficient, Larger(-x.scale, 0)), LAMBDA numerator :
         Fraction(numerator, denominator)))

ToDecimal(r, digits, rounding) ==
    Then(FromBigInt(r.numerator), LAMBDA numerator :
    Then(FromBigInt(r.denominator), LAMBDA denominator :
         DivExactOrSignificant(numerator, denominator, digits, rounding)))

\* Both sides over the least common denominator.
CompareFractions(a, b) ==
    LET g == GcdOf(a.denominator, b.denominator)
    IN  Sign(a.numerator * (b.denominator \div g) - b.numerator * (a.denominator \div g))

NegateFraction(r) == [r EXCEPT !.numerator = -@]
AbsFraction(r) == [r EXCEPT !.numerator = Magnitude(@)]

AddFractions(a, b) ==
    LET g == GcdOf(a.denominator, b.denominator)
        u == b.denominator \div g
        v == a.denominator \div g
    IN  Fraction(a.numerator * u + b.numerator * v, a.denominator * u)
SubFractions(a, b) == AddFractions(a, NegateFraction(b))

\* The cross factors are taken out before the products are made.
FractionOfProducts(a, top, bottom) ==
    LET g1 == GcdOf(a.numerator, bottom)
        g2 == GcdOf(top, a.denominator)
    IN  Fraction(Quotient(a.numerator, g1) * Quotient(top, g2),
                 Quotient(a.denominator, g2) * Quotient(bottom, g1))
MulFractions(a, b) == FractionOfProducts(a, b.numerator, b.denominator)
DivFractions(a, b) ==
    IF b.numerator = 0 THEN Refused("DIVISION_BY_ZERO")
    ELSE FractionOfProducts(a, b.denominator, b.numerator)

\* A rational root when both parts are squares.
SqrtExact(r) ==
    LET top == IntegerRoot(r.numerator, 2)
        bottom == IntegerRoot(r.denominator, 2)
        exact == top * top = r.numerator /\ bottom * bottom = r.denominator
    IN  IF r.numerator < 0 THEN Refused("INVALID_ARGUMENT")
        ELSE IF ~exact THEN Ok([exact |-> FALSE])
        ELSE Then(Fraction(top, bottom), LAMBDA root : Ok([exact |-> TRUE, root |-> root]))

-----------------------------------------------------------------------------
(* Statistics of a sequence of decimals.                                   *)

\* Insertion of each reference before the first larger one.
Ordered(values) ==
    Loop(Len(values), <<>>, LAMBDA ordered, i :
        LET place == Least(Len(ordered), LAMBDA n :
                        \A j \in n + 1 .. Len(ordered) : Compare(ordered[j], values[i]) > 0)
        IN  SubSeq(ordered, 1, place) \o <<values[i]>> \o SubSeq(ordered, place + 1, Len(ordered)))

Median(values) ==
    LET ordered == Ordered(values)
        middle == Len(values) \div 2
    IN  IF Len(values) = 0 THEN Refused("INVALID_ARGUMENT")
        ELSE IF Len(values) % 2 = 1 THEN Ok(ordered[middle + 1])
        ELSE Then(Add(ordered[middle], ordered[middle + 1]), LAMBDA sum : Mul(sum, Half))

Some(values, Holds(_)) == \E i \in DOMAIN values : Holds(values[i])

GeometricMean(values, digits, rounding) ==
    IF Len(values) = 0 \/ Some(values, LAMBDA x : x.coefficient < 0) THEN Refused("INVALID_ARGUMENT")
    ELSE IF Some(values, LAMBDA x : x.coefficient = 0) THEN Ok(Zero)
    ELSE Then(ProductOf(values), LAMBDA product : Root(product, Len(values), digits, rounding))

\* The sum of the reciprocals stays a fraction; one division at the end.
HarmonicMean(values, digits, rounding) ==
    LET sum == LoopWhileOk(Len(values), [numerator |-> Zero, denominator |-> Integer(1)],
            LAMBDA state, i :
                Then(Mul(state.numerator, values[i]), LAMBDA product :
                Then(Add(product, state.denominator), LAMBDA numerator :
                Then(Mul(state.denominator, values[i]), LAMBDA denominator :
                     Ok([numerator |-> numerator, denominator |-> denominator])))))
    IN  IF Len(values) = 0 \/ Some(values, LAMBDA x : x.coefficient <= 0)
        THEN Refused("INVALID_ARGUMENT")
        ELSE Then(sum, LAMBDA state :
             Then(Mul(state.denominator, FromBigInt(Len(values)).value), LAMBDA scaled :
                  DivExactOrSignificant(scaled, state.numerator, digits, rounding)))

\* (n sum d^2 - (sum d)^2) / n m, of the deviations d from the first value.
Variance(values, sample, digits, rounding) ==
    LET n == FromBigInt(Len(values)).value
        m == FromBigInt(IF sample THEN Len(values) - 1 ELSE Len(values)).value
        sums == LoopWhileOk(Len(values) - 1, [deviations |-> Zero, squares |-> Zero],
            LAMBDA state, i :
                Then(Sub(values[i + 1], values[1]), LAMBDA difference :
                Then(Add(state.deviations, difference), LAMBDA deviations :
                Then(Mul(difference, difference), LAMBDA square :
                Then(Add(state.squares, square), LAMBDA squares :
                     Ok([deviations |-> deviations, squares |-> squares]))))))
    IN  IF Len(values) < (IF sample THEN 2 ELSE 1) THEN Refused("INVALID_ARGUMENT")
        ELSE Then(sums, LAMBDA state :
             Then(Mul(n, state.squares), LAMBDA left :
             Then(Mul(state.deviations, state.deviations), LAMBDA right :
             Then(Sub(left, right), LAMBDA numerator :
             Then(Mul(n, m), LAMBDA denominator :
                  DivExactOrSignificant(numerator, denominator, digits, rounding))))))

StandardDeviation(values, sample, digits, rounding) ==
    Then(Variance(values, sample, digits + GuardDigits, "HALF_EVEN"), LAMBDA variance :
         Root(variance, 2, digits, rounding))
=============================================================================
