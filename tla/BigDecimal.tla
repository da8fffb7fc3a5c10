----------------------------- MODULE BigDecimal -----------------------------
(***************************************************************************)
(* The decimals of src/src/core/bigdecimal: coefficient * 10^-scale, with  *)
(* an integer of any size for coefficient (module BigInt) and a signed     *)
(* 64-bit scale.  A zero has scale 0, any other coefficient is not         *)
(* divisible by ten.                                                       *)
(*                                                                         *)
(* A public operation computes into a temporary and commits when nothing   *)
(* can fail any more, so a refused call changes nothing: the operators     *)
(* below return the value that is committed, or the status of the refusal. *)
(***************************************************************************)
EXTENDS Calls

CONSTANTS
    MinScale, MaxScale,  \* INT64_MIN and INT64_MAX
    MaxPower,            \* the largest power of ten whose limbs can be had
    SmallPower,          \* 19: the powers of ten that fit one limb
    ChunkedPower         \* 65536: up to here a cached power is made in chunks

Modes == {"TOWARD_ZERO", "AWAY_FROM_ZERO", "FLOOR", "CEILING", "HALF_UP", "HALF_EVEN"}

InScale(s) == IF s \in MinScale .. MaxScale THEN Ok(s) ELSE Refused("SCALE_OVERFLOW")

\* Three scales are added in every order until no partial sum overflows.
SumInSomeOrder(x, y, z) ==
    IF {x + y, x + z, y + z} \cap (MinScale .. MaxScale) # {} THEN InScale(x + y + z)
    ELSE Refused("SCALE_OVERFLOW")

PowerOfTen(exponent) ==
    IF exponent > MaxPower THEN Refused("VALUE_TOO_LARGE") ELSE Ok(10 ^ exponent)
TimesPowerOfTen(n, exponent) ==
    IF exponent > MaxPower THEN Refused("VALUE_TOO_LARGE") ELSE Ok(n * 10 ^ exponent)

DigitCount(n) == Least(12, LAMBDA k : Magnitude(n) < 10 ^ k)
DigitsOf(n) == [i \in 1 .. DigitCount(n) |-> (Magnitude(n) \div 10 ^ (DigitCount(n) - i)) % 10]
NumberOf(digits) == Loop(Len(digits), 0, LAMBDA n, i : 10 * n + digits[i])

-----------------------------------------------------------------------------
(* Values.                                                                 *)

Decimal(coefficient, scale) == [coefficient |-> coefficient, scale |-> scale]
Zero == Decimal(0, 0)
Integer(n) == Decimal(n, 0)

Shifted(coefficient, scale, zeros) ==
    IF scale - zeros \notin MinScale .. MaxScale THEN Refused("SCALE_OVERFLOW")
    ELSE Ok(Decimal(Quotient(coefficient, 10 ^ zeros), scale - zeros))

\* Zeros that end the coefficient move to the scale.
Normalize(coefficient, scale) ==
    LET removed == Least(12, LAMBDA k : Magnitude(coefficient) % 10 ^ (k + 1) # 0)
    IN  IF coefficient = 0 THEN Ok(Zero) ELSE Shifted(coefficient, scale, removed)

Canonical(x) == IF x.coefficient = 0 THEN x.scale = 0
                ELSE Magnitude(x.coefficient) % 10 # 0 /\ x.scale \in MinScale .. MaxScale

\* One rounding decision for a quotient that division truncated.
RoundQuotient(quotient, remainder, divisor, negative, rounding) ==
    LET twice == 2 * Magnitude(remainder)
        away == CASE rounding = "TOWARD_ZERO" -> FALSE
                  [] rounding = "AWAY_FROM_ZERO" -> TRUE
                  [] rounding = "FLOOR" -> negative
                  [] rounding = "CEILING" -> ~negative
                  [] rounding = "HALF_UP" -> twice >= Magnitude(divisor)
                  [] rounding = "HALF_EVEN" ->
                        \/ twice > Magnitude(divisor)
                        \/ twice = Magnitude(divisor) /\ quotient % 2 = 1
    IN  IF remainder = 0 \/ ~away THEN quotient
        ELSE IF negative THEN quotient - 1 ELSE quotient + 1

\* numerator / divisor as an integer at `scale', rounded once.
DivideAndRound(numerator, divisor, scale, rounding) ==
    Normalize(RoundQuotient(Quotient(numerator, divisor), Remainder(numerator, divisor), divisor,
                            (numerator < 0) # (divisor < 0), rounding),
              scale)

-----------------------------------------------------------------------------
(* Exact arithmetic.                                                       *)

Abs(x) == [x EXCEPT !.coefficient = Magnitude(@)]
Negate(x) == [x EXCEPT !.coefficient = -@]

Add(a, b) ==
    LET scale == Larger(a.scale, b.scale)
    IN  IF a.coefficient = 0 THEN Ok(b) ELSE IF b.coefficient = 0 THEN Ok(a)
        ELSE Then(TimesPowerOfTen(a.coefficient, scale - a.scale), LAMBDA left :
             Then(TimesPowerOfTen(b.coefficient, scale - b.scale), LAMBDA right :
                  Normalize(left + right, scale)))
Sub(a, b) == Add(a, Negate(b))

\* The product is normalized before the scales are added: trailing zeros of
\* two factors can bring the scale back into its range.
Mul(a, b) ==
    Then(Normalize(a.coefficient * b.coefficient, 0), LAMBDA product :
         IF product.coefficient = 0 THEN Ok(Zero)
         ELSE Then(SumInSomeOrder(a.scale, b.scale, product.scale), LAMBDA scale :
                   Ok(Decimal(product.coefficient, scale))))

IsInteger(x) == x.scale <= 0

\* Signs, then decimal exponents, then digits: nothing is aligned.
Compare(a, b) ==
    LET as == DigitsOf(a.coefficient)
        bs == DigitsOf(b.coefficient)
        digit(s, i) == IF i \in DOMAIN s THEN s[i] ELSE 0
        differ == {i \in 1 .. Larger(Len(as), Len(bs)) : digit(as, i) # digit(bs, i)}
        first == CHOOSE i \in differ : \A j \in differ : i <= j
        exponents == Sign((Len(as) - a.scale) - (Len(bs) - b.scale))
        magnitudes == IF exponents # 0 THEN exponents
                      ELSE IF differ = {} THEN 0 ELSE Sign(digit(as, first) - digit(bs, first))
    IN  IF (a.coefficient < 0) # (b.coefficient < 0) THEN IF a.coefficient < 0 THEN -1 ELSE 1
        ELSE IF a.coefficient = 0 \/ b.coefficient = 0 THEN Sign(a.coefficient - b.coefficient)
        ELSE IF a.scale = b.scale THEN Sign(a.coefficient - b.coefficient)
        ELSE IF a.coefficient < 0 THEN -magnitudes ELSE magnitudes

Min(a, b) == IF Compare(a, b) <= 0 THEN a ELSE b
Max(a, b) == IF Compare(a, b) >= 0 THEN a ELSE b

\* Squares as long as a bit of the exponent is left.
Pow(base, exponent) ==
    LET bits == Least(31, LAMBDA k : exponent < 2 ^ k)
        power == LoopWhileOk(bits, [accumulator |-> Integer(1), factor |-> base],
            LAMBDA state, i :
                Then(IF (exponent \div 2 ^ (i - 1)) % 2 = 1 THEN Mul(state.accumulator, state.factor)
                     ELSE Ok(state.accumulator), LAMBDA accumulator :
                Then(IF i < bits THEN Mul(state.factor, state.factor)
                     ELSE Ok(state.factor), LAMBDA factor :
                     Ok([accumulator |-> accumulator, factor |-> factor]))))
    IN  IF exponent < 0 THEN Refused("INVALID_ARGUMENT")
        ELSE Then(power, LAMBDA state : Ok(state.accumulator))

-----------------------------------------------------------------------------
(* Rounding and division.                                                  *)

Rescale(x, target, rounding) ==
    IF x.coefficient = 0 \/ target >= x.scale THEN Ok(x)
    ELSE Then(PowerOfTen(x.scale - target), LAMBDA divisor :
              DivideAndRound(x.coefficient, divisor, target, rounding))
Floor(x) == Rescale(x, 0, "FLOOR")
Ceil(x) == Rescale(x, 0, "CEILING")
Trunc(x) == Rescale(x, 0, "TOWARD_ZERO")
Round(x, places) == Rescale(x, places, "HALF_EVEN")

RoundSignificant(x, digits, rounding) ==
    LET length == DigitCount(x.coefficient)
    IN  IF digits < 1 THEN Refused("INVALID_ARGUMENT")
        ELSE IF x.coefficient = 0 \/ length <= digits THEN Ok(x)
        ELSE Then(InScale(x.scale - (length - digits)), LAMBDA target : Rescale(x, target, rounding))

\* Only one of the two coefficients is scaled.
Div(a, b, target, rounding) ==
    LET exponent == target + b.scale - a.scale
        reachable == {target + b.scale, target - a.scale} \cap (MinScale .. MaxScale) # {}
    IN  IF b.coefficient = 0 THEN Refused("DIVISION_BY_ZERO")
        ELSE IF a.coefficient = 0 THEN Ok(a)
        ELSE IF ~reachable THEN Refused("SCALE_OVERFLOW")
        ELSE Then(InScale(exponent), LAMBDA e :
             Then(TimesPowerOfTen(a.coefficient, Larger(e, 0)), LAMBDA numerator :
             Then(TimesPowerOfTen(b.coefficient, Larger(-e, 0)), LAMBDA divisor :
                  DivideAndRound(numerator, divisor, target, rounding))))

\* The scale that leaves `digits' digits in the quotient of the coefficients:
\* the shorter one is padded to tell which mantissa is the larger.
SignificantTarget(a, b, digits) ==
    LET aLength == DigitCount(a.coefficient)
        bLength == DigitCount(b.coefficient)
        length == Larger(aLength, bLength)
        comparison == Sign(Magnitude(a.coefficient) * 10 ^ (length - aLength)
                           - Magnitude(b.coefficient) * 10 ^ (length - bLength))
        exponent == aLength - bLength - (IF comparison < 0 THEN 1 ELSE 0)
    IN  InScale(digits - 1 - exponent)

\* Mutant: the scale of the divisor is added.
WithScales_Added(quotient, a, b) ==
    IF quotient.coefficient = 0 THEN Ok(quotient)
    ELSE Then(SumInSomeOrder(quotient.scale, a.scale, b.scale), LAMBDA scale :
              Ok([quotient EXCEPT !.scale = scale]))

\* The scales of the operands are applied to a quotient of coefficients.
WithScales(quotient, a, b) ==
    IF quotient.coefficient = 0 THEN Ok(quotient)
    ELSE Then(SumInSomeOrder(quotient.scale, a.scale, -b.scale), LAMBDA scale :
              Ok([quotient EXCEPT !.scale = scale]))

DivSignificant(a, b, digits, rounding) ==
    IF digits < 1 THEN Refused("INVALID_ARGUMENT")
    ELSE IF b.coefficient = 0 THEN Refused("DIVISION_BY_ZERO")
    ELSE IF a.coefficient = 0 THEN Ok(a)
    ELSE Then(SignificantTarget(a, b, digits), LAMBDA target :
         Then(Div(Integer(a.coefficient), Integer(b.coefficient), target, rounding), LAMBDA q :
              WithScales(q, a, b)))

\* How often a prime divides n.
Multiplicity(n, prime) == Least(31, LAMBDA k : n % prime ^ (k + 1) # 0)
GcdOf(m, n) ==
    LET gcd[x \in Nat, y \in Nat] == IF y = 0 THEN x ELSE gcd[y, x % y]
    IN  gcd[Magnitude(m), Magnitude(n)]

\* A quotient whose reduced denominator is made of twos and fives is exact.
DivExactOrSignificant(a, b, digits, rounding) ==
    LET denominator == Magnitude(b.coefficient) \div GcdOf(a.coefficient, b.coefficient)
        twos == Multiplicity(denominator, 2)
        rest == denominator \div 2 ^ twos
        fives == Multiplicity(rest, 5)
        finite == rest = 5 ^ fives
    IN  IF digits < 1 THEN Refused("INVALID_ARGUMENT")
        ELSE IF b.coefficient = 0 THEN Refused("DIVISION_BY_ZERO")
        ELSE IF a.coefficient = 0 THEN Ok(a)
        ELSE IF finite
        THEN Then(Div(Integer(a.coefficient), Integer(b.coefficient), Larger(twos, fives), rounding),
                  LAMBDA q : WithScales(q, a, b))
        ELSE DivSignificant(a, b, digits, rounding)

PowSigned(base, exponent, digits, rounding) ==
    IF digits < 1 THEN Refused("INVALID_ARGUMENT")
    ELSE IF exponent >= 0 THEN Pow(base, exponent)
    ELSE IF base.coefficient = 0 THEN Refused("DIVISION_BY_ZERO")
    ELSE Then(Pow(base, -exponent), LAMBDA power :
              DivExactOrSignificant(Integer(1), power, digits, rounding))

-----------------------------------------------------------------------------
(* Roots.                                                                  *)

\* Newton from a power of two above the root, down to the first step that
\* does not decrease.
IntegerRoot(number, degree) ==
    LET bits == Least(31, LAMBDA k : number < 2 ^ k)
        next(x) == (number \div x ^ (degree - 1) + x * (degree - 1)) \div degree
        descend[x \in Nat] == IF next(x) >= x THEN x ELSE descend[next(x)]
    IN  IF number = 0 THEN 0 ELSE IF bits <= degree THEN 1
        ELSE descend[2 ^ (bits \div degree + IF bits % degree # 0 THEN 1 ELSE 0)]

\* An inexact root keeps one guard digit and a 1 for the tail that was cut.
Root(x, degree, digits, rounding) ==
    LET number == Magnitude(x.coefficient)
        signed(n) == IF x.coefficient < 0 THEN -n ELSE n
        exact == IntegerRoot(number, degree)
        length == DigitCount(number)
        adjustment == length - 1 - Remainder(x.scale, degree)
        exponent == adjustment \div degree - Quotient(x.scale, degree)
        required == degree * digits + (adjustment % degree) + 1
        radicand == NumberOf([i \in 1 .. required |->
                        IF i <= length THEN DigitsOf(number)[i] ELSE 0])
        sticky == 10 * IntegerRoot(radicand, degree) + 1
    IN  IF degree = 0 \/ digits < 1 \/ (x.coefficient < 0 /\ degree % 2 = 0)
        THEN Refused("INVALID_ARGUMENT")
        ELSE IF degree = 1 \/ x.coefficient = 0 THEN Ok(x)
        ELSE IF Remainder(x.scale, degree) = 0 /\ exact ^ degree = number
        THEN Normalize(signed(exact), Quotient(x.scale, degree))
        ELSE Then(Normalize(signed(sticky), digits - exponent + 1), LAMBDA temporary :
                  Rescale(temporary, digits - 1 - exponent, rounding))

-----------------------------------------------------------------------------
(* A series of rounded operations in one workspace, which keeps the last   *)
(* power of ten that was too large for a limb.  The budget in force may    *)
(* say no at any check: `paid' of them are granted, one for each product   *)
(* with a chunk of ten and one for any other piece of work, and none after *)
(* the first that is refused.                                              *)

WithinBudget(paid, checks, call) == IF paid < checks THEN Refused("OUT_OF_MEMORY") ELSE call

NewWorkspace == [power |-> 0, exponent |-> 0, valid |-> FALSE]

\* Mutant: a power that was not finished stays valid.
CachedPower_KeepsPartial(workspace, exponent, paid) ==
    LET kept == [power |-> 10 ^ exponent, exponent |-> exponent, valid |-> TRUE]
    IN  IF workspace.valid /\ workspace.exponent = exponent
        THEN [call |-> Ok(workspace.power), workspace |-> workspace]
        ELSE IF paid < exponent \div SmallPower
        THEN [call |-> Refused("OUT_OF_MEMORY"), workspace |-> [kept EXCEPT !.power = 10 ^ paid]]
        ELSE [call |-> PowerOfTen(exponent), workspace |-> kept]

\* `paid' chunks are multiplied before the budget in force says no.
CachedPower(workspace, exponent, paid) ==
    LET made == WithinBudget(paid, 1, PowerOfTen(exponent))
        kept == [power |-> 10 ^ exponent, exponent |-> exponent, valid |-> TRUE]
        partial == [workspace EXCEPT !.valid = FALSE, !.power = 10 ^ (SmallPower * paid)]
    IN  IF workspace.valid /\ workspace.exponent = exponent
        THEN [call |-> Ok(workspace.power), workspace |-> workspace]
        ELSE IF exponent > ChunkedPower
        THEN [call |-> made, workspace |-> IF made.status = "OK" THEN kept
                                           ELSE [workspace EXCEPT !.valid = FALSE]]
        ELSE IF paid < exponent \div SmallPower
        THEN [call |-> Refused("OUT_OF_MEMORY"), workspace |-> partial]
        ELSE [call |-> Ok(kept.power), workspace |-> kept]

PowerChecks(workspace, exponent) ==
    IF workspace.valid /\ workspace.exponent = exponent THEN 0
    ELSE IF exponent > ChunkedPower THEN 1
    ELSE exponent \div SmallPower

\* Checks on the way of a coefficient to `places' more digits, chunk by chunk.
AlignChecks(places) == IF places = 0 THEN 0 ELSE places \div SmallPower + 1
ScaleChecks(places) == IF places > ChunkedPower THEN 1 ELSE AlignChecks(places)

\* The operations of a workspace return the workspace they leave as well.
RoundSignificantIn(workspace, x, digits, rounding, paid) ==
    LET discarded == DigitCount(x.coefficient) - digits
        target == InScale(x.scale - discarded)
        isSmall == discarded <= SmallPower
        power == IF isSmall THEN [call |-> Ok(10 ^ discarded), workspace |-> workspace]
                 ELSE CachedPower(workspace, discarded, paid - 1)
        checks == 2 + (IF isSmall THEN 0 ELSE PowerChecks(workspace, discarded))
        answer(call) == [call |-> call, workspace |-> workspace]
    IN  IF paid < 1 THEN answer(Refused("OUT_OF_MEMORY"))
        ELSE IF x.coefficient = 0 \/ discarded <= 0 THEN answer(Ok(x))
        ELSE IF target.status # "OK" THEN answer(target)
        ELSE [call |-> Then(power.call, LAMBDA divisor :
                       WithinBudget(paid, checks,
                              DivideAndRound(x.coefficient, divisor, target.value, rounding))),
              workspace |-> power.workspace]

\* The rounding of a raw result that took `checks' checks.
RoundedIn(workspace, call, digits, rounding, paid, checks) ==
    LET raw == WithinBudget(paid, checks, call)
    IN  IF raw.status # "OK" THEN [call |-> raw, workspace |-> workspace]
        ELSE RoundSignificantIn(workspace, raw.value, digits, rounding, paid - checks)
MulSignificantIn(workspace, a, b, digits, rounding, paid) ==
    RoundedIn(workspace, Mul(a, b), digits, rounding, paid, 2)
AddSignificantIn(workspace, a, b, digits, rounding, paid) ==
    RoundedIn(workspace, Add(a, b), digits, rounding, paid,
              IF a.coefficient = 0 \/ b.coefficient = 0 THEN 1
              ELSE 1 + ScaleChecks(Magnitude(a.scale - b.scale)))

\* A quotient scales one coefficient with a power of its own, after it padded
\* the shorter one to compare them.
DivSignificantIn(workspace, a, b, digits, rounding, paid) ==
    LET compared == 1 + AlignChecks(Magnitude(DigitCount(a.coefficient) - DigitCount(b.coefficient)))
        scaled(target) == compared + ScaleChecks(Magnitude(target))
        quotient(target) ==
            WithinBudget(paid, scaled(target),
            Then(TimesPowerOfTen(a.coefficient, Larger(target, 0)), LAMBDA numerator :
            Then(TimesPowerOfTen(b.coefficient, Larger(-target, 0)), LAMBDA divisor :
            WithinBudget(paid, scaled(target) + 1,
            Then(DivideAndRound(numerator, divisor, target, rounding), LAMBDA q :
                 WithScales(q, a, b))))))
    IN  [call |-> IF b.coefficient = 0 THEN Refused("DIVISION_BY_ZERO")
                  ELSE IF a.coefficient = 0 THEN WithinBudget(paid, 1, Ok(a))
                  ELSE WithinBudget(paid, compared, Then(SignificantTarget(a, b, digits), quotient)),
         workspace |-> workspace]

-----------------------------------------------------------------------------
(* Aggregates of a non-empty sequence.                                     *)

Aggregate(values, Combine(_, _)) ==
    LoopWhileOk(Len(values) - 1, Head(values), LAMBDA sum, i : Combine(sum, values[i + 1]))
Sum(values) == Aggregate(values, Add)
ProductOf(values) == Aggregate(values, Mul)
Mean(values, digits, rounding) ==
    Then(Sum(values), LAMBDA sum :
         DivExactOrSignificant(sum, Normalize(Len(values), 0).value, digits, rounding))

-----------------------------------------------------------------------------
(* Text: a sign, the digits on both sides of the point and, when it is     *)
(* read, an exponent.                                                      *)

SetString(text) ==
    LET coefficient == NumberOf(text.whole \o text.fraction)
    IN  IF text.whole \o text.fraction = <<>> THEN Refused("INVALID_ARGUMENT")
        ELSE Then(InScale(text.exponent), LAMBDA exponent :
             Then(InScale(Len(text.fraction) - exponent), LAMBDA scale :
                  Normalize(IF text.negative THEN -coefficient ELSE coefficient, scale)))

PlainText(x) ==
    LET digits == IF x.coefficient = 0 THEN <<0>> ELSE DigitsOf(x.coefficient)
        before == Len(digits) - x.scale
        zeros(n) == [i \in 1 .. n |-> 0]
        text(whole, fraction) == [negative |-> x.coefficient < 0, exponent |-> 0,
                                  whole |-> whole, fraction |-> fraction]
    IN  IF x.scale <= 0 THEN text(digits \o zeros(-x.scale), <<>>)
        ELSE IF x.scale >= Len(digits) THEN text(<<0>>, zeros(-before) \o digits)
        ELSE text(SubSeq(digits, 1, before), SubSeq(digits, before + 1, Len(digits)))

ToBigInt(x) ==
    IF x.scale > 0 THEN Refused("INVALID_ARGUMENT") ELSE Ok(NumberOf(PlainText(x).whole)
                                                          * (IF x.coefficient < 0 THEN -1 ELSE 1))
FromBigInt(n) == Normalize(n, 0)
=============================================================================
