-------------------------- MODULE BigIntFunctions --------------------------
(***************************************************************************)
(* What the big integers build on their kernel: src/src/core/bigint, files *)
(* multiplication.c (Karatsuba), arithmetic.c (products and powers),       *)
(* bitwise.c, roots.c, number_theory.c, factorial.c, primality.c,          *)
(* conversion.c and normalization.c.  Text is a sign and a sequence of     *)
(* digit values.                                                           *)
(***************************************************************************)
EXTENDS BigInt, Bitwise, SequencesExt

CONSTANTS
    KaratsubaEntry,   \* the size from which bigint_mul leaves the school method
    KaratsubaLeaf,    \* the size under which the recursion returns to it
    InverseEntry,     \* limbs from which zeros are stripped by the inverse of 5^k: 128
    FactorialEntry,   \* the factorial from which a product tree is used: 8192
    FactorialLeaf,    \* the range of factors a leaf of the tree multiplies: 32
    Witnesses         \* the bases of the Miller-Rabin test

ASSUME BigIntFunctionsAssumption ==
    /\ KaratsubaLeaf \in Nat /\ KaratsubaLeaf >= 4    \* the recursion shrinks
    /\ KaratsubaEntry \in Nat /\ KaratsubaEntry >= KaratsubaLeaf
    /\ LimbBits % 4 = 0      \* a power of Base ends in 6, and is 1 modulo 5
    /\ {InverseEntry, FactorialEntry, FactorialLeaf} \subseteq Nat \ {0}
    /\ Witnesses \in Seq(Nat \ {0})

\* The powers of ten and of five one limb holds: 10^19 and 5^27 in the code.
DecimalBlock == CHOOSE k \in 1 .. LimbBits : 10 ^ k < Base /\ 10 ^ (k + 1) >= Base
InverseBlock == CHOOSE k \in 1 .. LimbBits : 5 ^ k < Base /\ 5 ^ (k + 1) >= Base

-----------------------------------------------------------------------------
(* Products and powers.                                                    *)

\* The limbs of scratch a product of n limbs by n limbs carves from its arena.
RECURSIVE ScratchSize(_)
ScratchSize(n) ==
    LET h == n - n \div 2 + 1
    IN  IF n < KaratsubaLeaf THEN 0 ELSE 4 * h + ScratchSize(h)

\* One product of magnitudes.  `frames' gives the scratch at each depth: an
\* arena the cross product takes the rest of, or the frames of a workspace.
RECURSIVE MultiplyMagnitudes(_, _, _, _, _)
MultiplyMagnitudes(left, right, arena, frames, depth) ==
    LET a == Trimmed(left)
        b == Trimmed(right)
        n == Larger(Len(a), Len(b))
        k == n \div 2
        padded(limbs) == limbs \o Zeros(Len(left) + Len(right) - Len(limbs))
        low(s) == SubSeq(s, 1, Smaller(Len(s), k))
        high(s) == SubSeq(s, k + 1, Len(s))
        frame == 2 * (Larger(Len(low(a)), Len(high(a))) + Larger(Len(low(b)), Len(high(b))) + 2)
        available == IF frames = <<>> THEN arena
                     ELSE IF depth + 1 \in DOMAIN frames THEN frames[depth + 1] ELSE 0
        cross == MultiplyMagnitudes(SumHalves(a, k), SumHalves(b, k),
                                    arena - frame, frames, depth + 1)
        combined(z0, z2) ==
            Then(cross, LAMBDA z1 :
            Then(SubtractFrom(z1, Trimmed(z0)), LAMBDA less0 :
            Then(SubtractFrom(less0, Trimmed(z2)), LAMBDA middle :
                 AddShifted(z0 \o z2, Trimmed(middle), k))))
    IN  IF a = <<>> \/ b = <<>> THEN Ok(padded(<<>>))
        ELSE IF Smaller(Len(a), Len(b)) < KaratsubaLeaf \/ Smaller(Len(a), Len(b)) <= n \div 2
        THEN Ok(padded(School(a, b)))
        ELSE Then(MultiplyMagnitudes(low(a), low(b), arena, frames, depth + 1), LAMBDA z0 :
             Then(MultiplyMagnitudes(high(a), high(b), arena, frames, depth + 1), LAMBDA z2 :
                  IF frame > available THEN Refused("VALUE_TOO_LARGE")
                  ELSE Then(combined(z0, z2), LAMBDA limbs : Ok(padded(limbs)))))

\* A product is worth splitting when neither operand is half of the other.
Balanced(a, b, least) ==
    LET larger == Larger(Size(a), Size(b))
        smaller == Smaller(Size(a), Size(b))
    IN  smaller >= least /\ smaller > larger \div 2

Product(a, b, call) == Then(call, LAMBDA limbs : Ok(BigInt(a.negative # b.negative, limbs)))

MulKaratsuba(a, b) ==
    LET scratch == IF Balanced(a, b, KaratsubaLeaf) THEN ScratchSize(Larger(Size(a), Size(b))) ELSE 0
    IN  IF a = Zero \/ b = Zero THEN Ok(Zero)
        ELSE IF Size(a) + Size(b) > MaxLimbs THEN Refused("VALUE_TOO_LARGE")
        ELSE Product(a, b, MultiplyMagnitudes(a.limbs, b.limbs, scratch, <<>>, 0))

\* `fits': the budget in force can pay for the product and its scratch.
MulWithin(a, b, fits) ==
    IF a = Zero \/ b = Zero THEN Ok(Zero)
    ELSE IF Balanced(a, b, KaratsubaEntry) /\ Size(a) + Size(b) <= MaxLimbs /\ fits
    THEN MulKaratsuba(a, b)
    ELSE Product(a, b, Within(Size(a) + Size(b), School(a.limbs, b.limbs)))
Mul(a, b) == MulWithin(a, b, TRUE)

\* The frames of a workspace, each a power of two times the smallest one.
RECURSIVE WorkspaceFrames(_)
WorkspaceFrames(n) ==
    LET h == n - n \div 2 + 1
        capacity == CHOOSE c \in {KaratsubaLeaf * 2 ^ e : e \in 0 .. 8} :
                        c >= 4 * h /\ (c = KaratsubaLeaf \/ c \div 2 < 4 * h)
    IN  IF n < KaratsubaLeaf THEN <<>> ELSE <<capacity>> \o WorkspaceFrames(h)

MulWorkspace(a, b) ==
    IF ~Balanced(a, b, KaratsubaEntry) THEN Mul(a, b)
    ELSE IF Size(a) + Size(b) > MaxLimbs THEN Refused("VALUE_TOO_LARGE")
    ELSE Product(a, b, MultiplyMagnitudes(a.limbs, b.limbs, 0,
                                          WorkspaceFrames(Larger(Size(a), Size(b))), 0))

\* Binary exponentiation; the base is not squared after the last bit.
Pow(base, exponent) ==
    LET bits == BitLength(exponent.limbs)
        odd == GetBit(exponent.limbs, 0) = 1
        power == Loop(bits, Ok([product |-> One, square |-> Abs(base)]), LAMBDA call, i :
            Then(call, LAMBDA state :
            Then(IF GetBit(exponent.limbs, i - 1) = 1 THEN Mul(state.product, state.square)
                 ELSE Ok(state.product), LAMBDA product :
            Then(IF i < bits THEN Mul(state.square, state.square)
                 ELSE Ok(state.square), LAMBDA square :
                 Ok([product |-> product, square |-> square])))))
    IN  IF exponent.negative THEN Refused("NEGATIVE_ARGUMENT")
        ELSE IF exponent = Zero THEN Ok(One)
        ELSE IF base = Zero THEN Ok(Zero)
        ELSE Then(power, LAMBDA state : Ok(BigInt(base.negative /\ odd, state.product.limbs)))

-----------------------------------------------------------------------------
(* Bitwise operations and shifts.                                          *)

Bitwise(a, b, n, Combine(_, _)) ==
    IF a.negative \/ b.negative THEN Refused("NEGATIVE_ARGUMENT")
    ELSE Ok(Positive([i \in 1 .. n |-> Combine(LimbAt(a.limbs, i), LimbAt(b.limbs, i))]))

BitAnd(a, b) == Bitwise(a, b, Smaller(Size(a), Size(b)), LAMBDA x, y : x & y)
BitOr(a, b) == Bitwise(a, b, Larger(Size(a), Size(b)), LAMBDA x, y : x | y)
BitXor(a, b) == Bitwise(a, b, Larger(Size(a), Size(b)), LAMBDA x, y : x ^^ y)
BitNot(a) == Then(Add(a, One), LAMBDA sum : Ok(Negate(sum)))

ShiftLeft(a, n) ==
    LET whole == n \div LimbBits
        shifted == Zeros(whole) \o ShiftedLimbs(a.limbs, n % LimbBits)
    IN  IF a = Zero \/ n = 0 THEN Ok(a)
        ELSE Within(Size(a) + whole + 1, BigInt(a.negative, shifted))

\* Toward zero, as it works on the magnitude.
ShiftRight(a, n) ==
    LET whole == n \div LimbBits
        bits == n % LimbBits
        merged(i) == (LimbAt(a.limbs, i + whole) \div 2 ^ bits)
                     + IF bits = 0 THEN 0
                       ELSE (LimbAt(a.limbs, i + whole + 1) * 2 ^ (LimbBits - bits)) % Base
    IN  IF a = Zero \/ n = 0 THEN Ok(a)
        ELSE IF whole >= Size(a) THEN Ok(Zero)
        ELSE Ok(BigInt(a.negative, [i \in 1 .. Size(a) - whole |-> merged(i)]))

-----------------------------------------------------------------------------
(* Roots.                                                                  *)

\* Newton's iteration from above: it stops at the first step that does not
\* decrease.
RECURSIVE NewtonSqrt(_, _)
NewtonSqrt(number, root) ==
    Then(Div(number, root), LAMBDA quotient :
    Then(Add(quotient, root), LAMBDA sum :
    Then(ShiftRight(sum, 1), LAMBDA next :
         IF Compare(next, root) >= 0 THEN Ok(root) ELSE NewtonSqrt(number, next))))

ISqrt(value) ==
    LET bits == BitLength(value.limbs)
    IN  IF value.negative THEN Refused("NEGATIVE_ARGUMENT")
        ELSE IF value = Zero THEN Ok(Zero)
        ELSE Then(ShiftLeft(One, bits \div 2 + (bits % 2)), LAMBDA root : NewtonSqrt(value, root))

\* The root bit by bit, from the top: a bit stays when the square does not
\* overshoot.
IsPerfectSquare(value) ==
    LET rootBits == (BitLength(value.limbs) + 1) \div 2
        root == LoopDown(rootBits, Ok(<<>>), LAMBDA call, i :
            Then(call, LAMBDA kept :
            Then(SetBit(kept, i - 1), LAMBDA candidate :
            Then(Mul(Positive(candidate), Positive(candidate)), LAMBDA square :
                 Ok(IF CompareAbs(square.limbs, value.limbs) <= 0 THEN candidate ELSE kept)))))
    IN  IF value.negative THEN Ok(FALSE)
        ELSE IF value = Zero THEN Ok(TRUE)
        ELSE Then(root, LAMBDA limbs :
             Then(Mul(Positive(limbs), Positive(limbs)), LAMBDA square :
                  Ok(CompareAbs(square.limbs, value.limbs) = 0)))

-----------------------------------------------------------------------------
(* Number theory.                                                          *)

RECURSIVE Euclid(_, _)
Euclid(x, y) ==
    IF y = Zero THEN Ok(x)
    ELSE Then(DivModAbs(x.limbs, y.limbs), LAMBDA d : Euclid(y, Positive(d.remainder)))
Gcd(a, b) == Euclid(Abs(a), Abs(b))

\* (|a| / gcd) * |b|: the division comes first and is exact.
Lcm(a, b) ==
    IF a = Zero \/ b = Zero THEN Ok(Zero)
    ELSE Then(Gcd(a, b), LAMBDA g :
         Then(Div(Abs(a), g), LAMBDA quotient : Mul(quotient, Abs(b))))

\* The product of low .. high: consecutive factors are packed into one limb
\* before the accumulator is multiplied.
PackedProduct(low, high) ==
    LET packed == Loop(Larger(high - low + 1, 0), [call |-> Ok(<<1>>), group |-> 1], LAMBDA state, k :
            LET factor == low + k - 1
            IN  IF state.group > (Base - 1) \div factor
                THEN [call |-> Then(state.call, LAMBDA v : MultiplyByUint(v, state.group)),
                      group |-> factor]
                ELSE [state EXCEPT !.group = @ * factor])
    IN  Then(packed.call, LAMBDA v : MultiplyByUint(v, packed.group))

FactorialGrouped(n) == Then(PackedProduct(2, n), LAMBDA limbs : Ok(Positive(limbs)))

RECURSIVE RangeProduct(_, _)
RangeProduct(low, high) ==
    LET middle == low + (high - low) \div 2
    IN  IF low > high THEN Ok(One)
        ELSE IF high - low < FactorialLeaf
        THEN Then(PackedProduct(low, high), LAMBDA limbs : Ok(Positive(limbs)))
        ELSE Then(RangeProduct(low, middle), LAMBDA left :
             Then(RangeProduct(middle + 1, high), LAMBDA right : MulWorkspace(left, right)))

\* `fits': the budget in force can pay for the tree.
Factorial(value, fits) ==
    IF value.negative THEN Refused("NEGATIVE_ARGUMENT")
    ELSE IF Size(value) > 1 THEN Refused("VALUE_TOO_LARGE")
    ELSE LET n == LimbAt(value.limbs, 1)
         IN  IF n >= FactorialEntry /\ fits THEN RangeProduct(2, n) ELSE FactorialGrouped(n)

\* A falling product.  A combination divides by each next factor of r! at
\* once; the division is exact at every step, and is checked to be.
CombinatorialStep(state, combination) ==
    Then(Add(state.factor, One), LAMBDA factor :
    Then(Add(state.counter, One), LAMBDA counter :
    Then(IF Size(factor) = 1
         THEN Then(MultiplyByUint(state.product.limbs, factor.limbs[1]), LAMBDA v : Ok(Positive(v)))
         ELSE Mul(state.product, factor), LAMBDA product :
         IF ~combination THEN Ok([product |-> product, factor |-> factor, counter |-> counter])
         ELSE Then(DivMod(product, counter), LAMBDA d :
              IF d.remainder # Zero THEN Refused("INVALID_ARGUMENT")
              ELSE Ok([product |-> d.quotient, factor |-> factor, counter |-> counter])))))

RECURSIVE CombinatorialSteps(_, _, _)
CombinatorialSteps(state, r, combination) ==
    IF Compare(state.counter, r) >= 0 THEN Ok(state.product)
    ELSE Then(CombinatorialStep(state, combination),
              LAMBDA next : CombinatorialSteps(next, r, combination))

Combinatorial(n, r, combination) ==
    IF n.negative \/ r.negative THEN Refused("NEGATIVE_ARGUMENT")
    ELSE IF Compare(r, n) > 0 THEN Refused("INVALID_ARGUMENT")
    ELSE Then(Sub(n, r), LAMBDA difference :
         LET effective == IF combination /\ Compare(r, difference) > 0 THEN difference ELSE r
         IN  Then(Sub(n, effective), LAMBDA factor :
                  CombinatorialSteps([product |-> One, factor |-> factor, counter |-> Zero],
                                     effective, combination)))

-----------------------------------------------------------------------------
(* Primality.                                                              *)

IsEven(v) == LimbAt(v.limbs, 1) % 2 = 0

ModularMultiply(a, b, modulus) == Then(Mul(a, b), LAMBDA product : Mod(product, modulus))

RECURSIVE ModularSteps(_, _, _, _)
ModularSteps(product, factor, remaining, modulus) ==
    IF remaining = Zero THEN Ok(product)
    ELSE Then(IF IsEven(remaining) THEN Ok(product) ELSE ModularMultiply(product, factor, modulus),
              LAMBDA next :
         Then(ShiftRight(remaining, 1), LAMBDA rest :
         Then(IF rest = Zero THEN Ok(factor) ELSE ModularMultiply(factor, factor, modulus),
              LAMBDA square : ModularSteps(next, square, rest, modulus))))
ModularPow(base, exponent, modulus) ==
    Then(Mod(One, modulus), LAMBDA one :
    Then(Mod(base, modulus), LAMBDA factor : ModularSteps(one, factor, exponent, modulus)))

\* Squares until -1 shows up, at most `left' times.
RECURSIVE ReachesMinusOne(_, _, _)
ReachesMinusOne(x, value, left) ==
    IF left = 0 THEN Ok(FALSE)
    ELSE Then(ModularMultiply(x, x, value), LAMBDA square :
         Then(Sub(value, One), LAMBDA minusOne :
              IF square = minusOne THEN Ok(TRUE) ELSE ReachesMinusOne(square, value, left - 1)))

MillerRabinPasses(value, oddPart, squarings, witness) ==
    Then(Mod(FromInt(witness), value), LAMBDA base :
         IF base = Zero THEN Ok(TRUE)
         ELSE Then(ModularPow(base, oddPart, value), LAMBDA x :
              Then(Sub(value, One), LAMBDA minusOne :
                   IF x \in {One, minusOne} THEN Ok(TRUE)
                   ELSE ReachesMinusOne(x, value, squarings - 1))))

\* The first witness that fails ends the test.
RECURSIVE TryWitnesses(_, _, _)
TryWitnesses(value, split, i) ==
    IF i > Len(Witnesses) THEN Ok(TRUE)
    ELSE Then(MillerRabinPasses(value, split.odd, split.squarings, Witnesses[i]), LAMBDA passes :
              IF passes THEN TryWitnesses(value, split, i + 1) ELSE Ok(FALSE))

RECURSIVE OddPart(_, _)
OddPart(v, squarings) ==
    IF ~IsEven(v) THEN Ok([odd |-> v, squarings |-> squarings])
    ELSE Then(ShiftRight(v, 1), LAMBDA half : OddPart(half, squarings + 1))

IsProbablePrime(value) ==
    IF value.negative \/ Compare(value, FromInt(2)) < 0 THEN Ok(FALSE)
    ELSE IF IsEven(value) THEN Ok(value = FromInt(2))
    ELSE Then(Sub(value, One), LAMBDA minusOne :
         Then(OddPart(minusOne, 0), LAMBDA split : TryWitnesses(value, split, 1)))

-----------------------------------------------------------------------------
(* Decimal zeros.                                                          *)

TrailingZeros(n, most) == CHOOSE k \in 0 .. most : n % 10 ^ k = 0 /\ (k = most \/ n % 10 ^ (k + 1) # 0)

BlockZeros(remainder) ==
    IF remainder = 0 THEN DecimalBlock ELSE TrailingZeros(remainder, DecimalBlock)

RECURSIVE StripBlocks(_, _)
StripBlocks(limbs, removed) ==
    LET count == BlockZeros(DivideByUint(limbs, 10 ^ DecimalBlock).remainder)
        stripped == [limbs |-> DivideByUint(limbs, 10 ^ count).quotient, removed |-> removed + count]
    IN  IF count < DecimalBlock THEN stripped ELSE StripBlocks(stripped.limbs, stripped.removed)

\* The last digit is known from the limbs: every power of Base but the first
\* ends in 6.
StripClassic(limbs) ==
    LET digit == Loop(Len(limbs), 0, LAMBDA sum, i :
                    (sum + (IF i = 1 THEN 1 ELSE 6) * (limbs[i] % 10)) % 10)
    IN  IF limbs = <<>> \/ digit # 0 THEN [limbs |-> limbs, removed |-> 0]
        ELSE StripBlocks(limbs, 0)

\* Exact division by 10^k: a shift, then each limb of the quotient from the
\* inverse of 5^k.  A carry out of the last limb says that it was not exact.
TrialDivision(limbs) ==
    LET divisor == 5 ^ InverseBlock
        inverse == Loop(6, 1, LAMBDA x, i : (x * ((2 - divisor * x) % Base)) % Base)
        shift == 2 ^ InverseBlock
        word(i) == limbs[i] \div shift + ((LimbAt(limbs, i + 1) * (Base \div shift)) % Base)
    IN  Loop(Len(limbs), [limbs |-> <<>>, carry |-> 0], LAMBDA state, i :
            LET quotient == (((word(i) - state.carry) % Base) * inverse) % Base
            IN  [limbs |-> Append(state.limbs, quotient),
                 carry |-> MultiplyLimbs(quotient, divisor).high
                           + IF word(i) < state.carry THEN 1 ELSE 0])

RECURSIVE StripTrials(_, _)
StripTrials(limbs, removed) ==
    LET next(trial) == IF trial.carry # 0 THEN [limbs |-> limbs, removed |-> removed]
                       ELSE StripTrials(Trimmed(trial.limbs), removed + InverseBlock)
    IN  IF limbs = <<>> \/ limbs[1] % 2 ^ InverseBlock # 0
        THEN [limbs |-> limbs, removed |-> removed]
        ELSE next(TrialDivision(limbs))

\* `fits': the budget in force can pay for the trial quotient.
StripInverse(limbs, fits) ==
    LET modulo5 == Loop(Len(limbs), 0, LAMBDA sum, i : (sum + (limbs[i] % 5)) % 5)
        before(removed, tail) == [tail EXCEPT !.removed = @ + removed]
        finish(trials) == before(trials.removed, StripClassic(trials.limbs))
    IN  IF limbs # <<>> /\ limbs[1] % 2 ^ InverseBlock = 0 /\ modulo5 # 0
        THEN [limbs |-> limbs, removed |-> 0]
        ELSE finish(IF limbs # <<>> /\ limbs[1] % 2 ^ InverseBlock = 0 /\ fits
                    THEN StripTrials(limbs, 0) ELSE [limbs |-> limbs, removed |-> 0])

StripDecimalZeros(value, fits) ==
    LET stripped == IF Size(value) >= InverseEntry THEN StripInverse(value.limbs, fits)
                                                   ELSE StripClassic(value.limbs)
    IN  [value |-> BigInt(value.negative, stripped.limbs), removed |-> stripped.removed]

-----------------------------------------------------------------------------
(* Text.                                                                   *)

LimbDigits(n, radix) == CHOOSE k \in 1 .. LimbBits : n < radix ^ k /\ (k = 1 \/ n >= radix ^ (k - 1))

\* Two bounds on log10(2) give the count when they agree; chunks are peeled
\* off a copy when they do not.
RECURSIVE PeeledDigits(_, _)
PeeledDigits(limbs, count) ==
    IF Len(limbs) > 1
    THEN PeeledDigits(DivideByUint(limbs, 10 ^ DecimalBlock).quotient, count + DecimalBlock)
    ELSE count + LimbDigits(LimbAt(limbs, 1), 10)
DecimalDigits(value) ==
    LET bits == BitLength(value.limbs)
        lower == ((bits - 1) * 30102) \div 100000 + 1
        upper == (bits * 30103 + 99999) \div 100000
    IN  IF Size(value) <= 1 THEN LimbDigits(LimbAt(value.limbs, 1), 10)
        ELSE IF lower = upper THEN lower
        ELSE PeeledDigits(value.limbs, 0)

\* The digits of the largest power of the radix that one limb holds.
RadixChunk(radix) ==
    Loop(LimbBits, [multiplier |-> 1, digits |-> 0], LAMBDA state, i :
        IF state.multiplier > (Base - 1) \div radix THEN state
        ELSE [multiplier |-> state.multiplier * radix, digits |-> state.digits + 1])

\* One multiplication and one addition for each chunk of digits.
RECURSIVE ParseChunks(_, _, _)
ParseChunks(limbs, digits, radix) ==
    LET count == Smaller(Len(digits), RadixChunk(radix).digits)
        chunk == Loop(count, 0, LAMBDA sum, i : sum * radix + digits[i])
    IN  IF digits = <<>> THEN Ok(limbs)
        ELSE Then(MultiplyByUint(limbs, radix ^ count), LAMBDA scaled :
             Then(AddUint(scaled, chunk), LAMBDA sum :
                  ParseChunks(sum, SubSeq(digits, count + 1, Len(digits)), radix)))
SetStringBase(text, radix) ==
    IF radix \notin 2 .. 36 \/ text.digits = <<>> \/ \E i \in DOMAIN text.digits : text.digits[i] >= radix
    THEN Refused("INVALID_ARGUMENT")
    ELSE Then(ParseChunks(<<>>, text.digits, radix), LAMBDA limbs : Ok(BigInt(text.negative, limbs)))

\* Least significant digit first; every chunk but the top one keeps its zeros.
ChunkText(chunk, radix, least) ==
    [i \in 1 .. Larger(least, LimbDigits(chunk, radix)) |-> (chunk \div radix ^ (i - 1)) % radix]
RECURSIVE PeeledText(_, _)
PeeledText(limbs, radix) ==
    LET step == DivideByUint(limbs, RadixChunk(radix).multiplier)
    IN  IF step.quotient = <<>> THEN ChunkText(step.remainder, radix, 0)
        ELSE ChunkText(step.remainder, radix, RadixChunk(radix).digits)
             \o PeeledText(step.quotient, radix)
ToStringBase(value, radix) == [negative |-> value.negative, digits |-> Reverse(PeeledText(value.limbs, radix))]
=============================================================================
