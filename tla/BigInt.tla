------------------------------- MODULE BigInt -------------------------------
(***************************************************************************)
(* The arithmetic kernel of the big integers: src/src/core/bigint, files   *)
(* bigint.c, comparison.c and, up to the school method, arithmetic.c and   *)
(* multiplication.c; without the RECURSIVE operators of the latter, which  *)
(* BigIntFunctions has, so that theorems can be stated about it.           *)
(* A big integer is a sign and its limbs, least significant first.  The    *)
(* limb is LimbBits wide instead of 64 and every limb operation wraps as   *)
(* uint64_t does, so the carries, borrows and quotient estimates of the    *)
(* code are the ones that are computed here.                               *)
(*                                                                         *)
(* A call returns a status and a value.  A call that fails writes nothing: *)
(* every public function works on a fresh buffer, or has its capacity      *)
(* before its first write, and commits at the end.                         *)
(***************************************************************************)
EXTENDS Calls

CONSTANTS
    LimbBits,        \* 64 in the code; even, as a product goes through halves
    Base, HalfBase,  \* how many values a limb and half of its bits have
    MaxLimbs         \* BIGINT_MAX_LIMBS

TwoTo[n \in 0 .. LimbBits] == IF n = 0 THEN 1 ELSE 2 * TwoTo[n - 1]

ASSUME BigIntAssumption ==
    /\ LimbBits \in {2 * n : n \in 1 .. 32}
    /\ Base = TwoTo[LimbBits]
    /\ HalfBase = TwoTo[LimbBits \div 2]
    /\ MaxLimbs \in Nat \ {0}

-----------------------------------------------------------------------------
(* Magnitudes: sequences of limbs.                                         *)

Zeros(n) == [i \in 1 .. n |-> 0]
Trimmed(s) ==
    LET used == {i \in DOMAIN s : s[i] # 0}
    IN  IF used = {} THEN <<>> ELSE SubSeq(s, 1, CHOOSE i \in used : \A j \in used : j <= i)
LimbAt(s, i) == IF i \in DOMAIN s THEN s[i] ELSE 0

BigInt(negative, limbs) ==
    [negative |-> negative /\ Trimmed(limbs) # <<>>, limbs |-> Trimmed(limbs)]
Zero == BigInt(FALSE, <<>>)
One == BigInt(FALSE, <<1>>)
Size(v) == Len(v.limbs)
Positive(limbs) == BigInt(FALSE, limbs)

\* A buffer for `needed' limbs: the only limit that is not the allocator's.
Within(needed, v) == IF needed > MaxLimbs THEN Refused("VALUE_TOO_LARGE") ELSE Ok(v)

CompareAbs(a, b) ==
    LET differ == {i \in DOMAIN a : LimbAt(b, i) # a[i]}
        top == CHOOSE i \in differ : \A j \in differ : j <= i
    IN  IF Len(a) # Len(b) THEN IF Len(a) < Len(b) THEN -1 ELSE 1
        ELSE IF differ = {} THEN 0
        ELSE IF a[top] < b[top] THEN -1 ELSE 1

Compare(a, b) ==
    IF a.negative # b.negative THEN IF a.negative THEN -1 ELSE 1
    ELSE IF a.negative THEN -CompareAbs(a.limbs, b.limbs)
    ELSE CompareAbs(a.limbs, b.limbs)

\* x + y + carry in one limb, and the carry the code detects by wrapping.
AddLimbs(x, y, carry) ==
    LET sum == (x + y) % Base
        final == (sum + carry) % Base
    IN  [limb |-> final, carry |-> IF final < sum \/ sum < x THEN 1 ELSE 0]

SubtractLimbs(x, y, borrow) ==
    [limb |-> (x - y - borrow) % Base,
     borrow |-> IF x < y \/ (borrow = 1 /\ x = y) THEN 1 ELSE 0]

\* The sum of a and b on n limbs, followed by the carry.
SumOn(n, a, b) ==
    LET sum == Loop(n, [limbs |-> <<>>, carry |-> 0], LAMBDA state, i :
                  LET next == AddLimbs(LimbAt(a, i), LimbAt(b, i), state.carry)
                  IN  [limbs |-> Append(state.limbs, next.limb), carry |-> next.carry])
    IN  Append(sum.limbs, sum.carry)

AddAbs(a, b) ==
    LET n == Larger(Len(a), Len(b)) IN Within(n + 1, Trimmed(SumOn(n, a, b)))

DifferenceOn(n, a, b) ==
    Loop(n, [limbs |-> <<>>, borrow |-> 0], LAMBDA state, i :
        LET next == SubtractLimbs(LimbAt(a, i), LimbAt(b, i), state.borrow)
        IN  [limbs |-> Append(state.limbs, next.limb), borrow |-> next.borrow])

SubtractAbs(a, b) ==
    LET large == IF CompareAbs(a, b) < 0 THEN b ELSE a
        small == IF CompareAbs(a, b) < 0 THEN a ELSE b
    IN  Within(Len(large), Trimmed(DifferenceOn(Len(large), large, small).limbs))

\* The two limbs of a product, from four products of halves.
MultiplyLimbs(a, b) ==
    LET p00 == (a % HalfBase) * (b % HalfBase)
        p01 == (a % HalfBase) * (b \div HalfBase)
        p10 == (a \div HalfBase) * (b % HalfBase)
        p11 == (a \div HalfBase) * (b \div HalfBase)
        middle == (p00 \div HalfBase) + (p01 % HalfBase) + (p10 % HalfBase)
    IN  [low |-> (p00 % HalfBase) + ((middle * HalfBase) % Base),
         high |-> p11 + p01 \div HalfBase + p10 \div HalfBase + middle \div HalfBase]

\* (high, low) / divisor bit by bit, the remainder kept in one limb.
DivideWide(high, low, divisor) ==
    LoopDown(LimbBits, [quotient |-> 0, remainder |-> high], LAMBDA state, bit :
        LET input == (low \div TwoTo[bit - 1]) % 2
            room == divisor - state.remainder
        IN  IF state.remainder >= room \/ (input = 1 /\ state.remainder = room - 1)
            THEN [quotient |-> ((2 * state.quotient) % Base) + 1,
                  remainder |-> state.remainder - room + input]
            ELSE [quotient |-> (2 * state.quotient) % Base,
                  remainder |-> ((2 * state.remainder) % Base) + input])

-----------------------------------------------------------------------------
(* In-place operations by one limb, used on private temporaries.           *)

AddUint(limbs, amount) ==
    LET n == Larger(Len(limbs), 1)
        sum == SumOn(n, limbs, <<amount>>)
    IN  IF amount = 0 THEN Ok(limbs)
        ELSE Within(IF sum[n + 1] = 0 THEN n ELSE n + 1, Trimmed(sum))

MultiplyByUint(limbs, multiplier) ==
    LET product ==
            Loop(Len(limbs), [limbs |-> <<>>, carry |-> 0], LAMBDA state, i :
                LET p == MultiplyLimbs(limbs[i], multiplier)
                    low == (p.low + state.carry) % Base
                IN  [limbs |-> Append(state.limbs, low),
                     carry |-> IF low < p.low THEN p.high + 1 ELSE p.high])
    IN  IF limbs = <<>> \/ multiplier = 0 THEN Ok(<<>>)
        ELSE Within(IF product.carry = 0 THEN Len(limbs) ELSE Len(limbs) + 1,
                    Trimmed(Append(product.limbs, product.carry)))

DivideByUint(limbs, divisor) ==
    LET division ==
            LoopDown(Len(limbs), [limbs |-> <<>>, remainder |-> 0], LAMBDA state, i :
                LET step == DivideWide(state.remainder, limbs[i], divisor)
                IN  [limbs |-> <<step.quotient>> \o state.limbs, remainder |-> step.remainder])
    IN  [quotient |-> Trimmed(division.limbs), remainder |-> division.remainder]

-----------------------------------------------------------------------------
(* Bits.                                                                   *)

BitLength(limbs) ==
    IF limbs = <<>> THEN 0
    ELSE (Len(limbs) - 1) * LimbBits
         + CHOOSE n \in 1 .. LimbBits : TwoTo[n - 1] <= limbs[Len(limbs)] /\ limbs[Len(limbs)] < TwoTo[n]
GetBit(limbs, bit) == (LimbAt(limbs, bit \div LimbBits + 1) \div TwoTo[bit % LimbBits]) % 2
SetBit(limbs, bit) ==
    LET at == bit \div LimbBits + 1
        grown == [i \in 1 .. Larger(Len(limbs), at) |-> LimbAt(limbs, i)]
    IN  Within(at, IF GetBit(limbs, bit) = 1 THEN grown
                   ELSE [grown EXCEPT ![at] = @ + TwoTo[bit % LimbBits]])

-----------------------------------------------------------------------------
(* Multiplication.                                                         *)

\* The school method: one row for each limb of b, added into the product.
School(a, b) ==
    Loop(Len(b), Zeros(Len(a) + Len(b)), LAMBDA product, i :
        LET row == Loop(Len(a), [limbs |-> product, carry |-> 0], LAMBDA state, j :
                LET p == MultiplyLimbs(a[j], b[i])
                    sum == (state.limbs[i + j - 1] + p.low) % Base
                    next == (sum + state.carry) % Base
                IN  [limbs |-> [state.limbs EXCEPT ![i + j - 1] = next],
                     carry |-> p.high + (IF sum < p.low THEN 1 ELSE 0)
                                      + (IF next < sum THEN 1 ELSE 0)])
        IN  [row.limbs EXCEPT ![i + Len(a)] = row.carry])

\* a0 + a1 for a = a0 + a1 B^k.
SumHalves(a, k) ==
    LET low == SubSeq(a, 1, Smaller(Len(a), k))
        high == SubSeq(a, k + 1, Len(a))
        n == Larger(Len(low), Len(high))
        sum == SumOn(n, low, high)
    IN  IF sum[n + 1] = 0 THEN SubSeq(sum, 1, n) ELSE sum

SubtractFrom(a, b) ==
    LET difference == DifferenceOn(Len(a), a, b)
    IN  IF difference.borrow = 1 \/ Len(b) > Len(a) THEN Refused("INVALID_ARGUMENT")
        ELSE Ok(difference.limbs)

AddShifted(a, b, offset) ==
    LET sum == SumOn(Larger(Len(a) - offset, Len(b)), SubSeq(a, offset + 1, Len(a)), b)
    IN  IF \E i \in DOMAIN sum : sum[i] # 0 /\ offset + i > Len(a)
        THEN Refused("INVALID_ARGUMENT")
        ELSE Ok(SubSeq(a, 1, offset) \o SubSeq(sum, 1, Len(a) - offset))

-----------------------------------------------------------------------------
(* Division.                                                               *)

ShiftedLimbs(s, shift) ==
    [i \in 1 .. Len(s) + 1 |-> ((LimbAt(s, i) * TwoTo[shift]) % Base)
                               + LimbAt(s, i - 1) \div TwoTo[LimbBits - shift]]

\* The quotient digit for the top limbs of u over v, corrected while the
\* second limb of v shows it to be too large.
Estimate(high, low, next, v) ==
    LET n == Len(v)
        first == IF high = v[n]
                 THEN [digit |-> Base - 1, rest |-> (low + v[n]) % Base,
                       done |-> (low + v[n]) % Base < low]
                 ELSE LET d == DivideWide(high, low, v[n])
                      IN  [digit |-> d.quotient, rest |-> d.remainder, done |-> FALSE]
    IN  Loop(3, first, LAMBDA state, i :    \* at most two corrections, then an exit
            LET p == MultiplyLimbs(state.digit, v[n - 1])
                rest == (state.rest + v[n]) % Base
            IN  IF state.done \/ p.high < state.rest \/ (p.high = state.rest /\ p.low <= next)
                THEN [digit |-> state.digit, rest |-> state.rest, done |-> TRUE]
                ELSE [digit |-> state.digit - 1, rest |-> rest, done |-> rest < state.rest]).digit

\* window - digit * v, what it carries and borrows from the limb above.
TakeMultiple(window, v, digit) ==
    Loop(Len(v), [limbs |-> <<>>, carry |-> 0, borrow |-> 0], LAMBDA state, i :
        LET p == MultiplyLimbs(digit, v[i])
            low == (p.low + state.carry) % Base
            difference == (window[i] - low) % Base
        IN  [limbs |-> Append(state.limbs, (difference - state.borrow) % Base),
             carry |-> p.high + (IF low < p.low THEN 1 ELSE 0),
             borrow |-> IF window[i] < low \/ difference < state.borrow THEN 1 ELSE 0])

PutWindow(u, j, limbs, high) ==
    SubSeq(u, 1, j) \o limbs \o <<high>> \o SubSeq(u, j + Len(limbs) + 2, Len(u))

\* Mutant: the estimate is never one too large.
Corrected_Never(u, v, j, digit, taken) ==
    [u |-> PutWindow(u, j, taken.limbs, (u[j + Len(v) + 1] - taken.carry - taken.borrow) % Base),
     digit |-> digit]

\* v is added back when the difference is negative.
Corrected(u, v, j, digit, taken) ==
    LET n == Len(v)
        top == (u[j + n + 1] - taken.carry) % Base
        high == (top - taken.borrow) % Base
        addBack(restored) == PutWindow(u, j, SubSeq(restored, 1, n), (high + restored[n + 1]) % Base)
    IN  IF u[j + n + 1] < taken.carry \/ top < taken.borrow
        THEN [u |-> addBack(SumOn(n, taken.limbs, v)), digit |-> digit - 1]
        ELSE [u |-> PutWindow(u, j, taken.limbs, high), digit |-> digit]

\* One digit of Algorithm D, at offset j of u.
QuotientDigit(u, v, j) ==
    LET n == Len(v)
        digit == Estimate(u[j + n + 1], u[j + n], u[j + n - 1], v)
    IN  Corrected(u, v, j, digit, TakeMultiple(SubSeq(u, j + 1, j + n), v, digit))

\* v is shifted until its top bit is set, u as far.
LongDivision(a, b) ==
    LET n == Len(b)
        shift == LimbBits - (CHOOSE w \in 1 .. LimbBits : TwoTo[w - 1] <= b[n] /\ b[n] < TwoTo[w])
        v == SubSeq(ShiftedLimbs(b, shift), 1, n)
        withDigit(digits, step) == [u |-> step.u, digits |-> <<step.digit>> \o digits]
        unshifted(u) == [i \in 1 .. n |-> u[i] \div TwoTo[shift]
            + IF shift = 0 THEN 0 ELSE (u[i + 1] * TwoTo[LimbBits - shift]) % Base]
        result(division) == [quotient |-> Trimmed(division.digits),
                             remainder |-> Trimmed(unshifted(division.u))]
    IN  result(LoopDown(Len(a) - n + 1, [u |-> ShiftedLimbs(a, shift), digits |-> <<>>],
            LAMBDA state, position : withDigit(state.digits, QuotientDigit(state.u, v, position - 1))))

\* Magnitudes, b not zero.
DivModAbs(a, b) ==
    LET comparison == CompareAbs(a, b)
        short == DivideByUint(a, b[1])
    IN  IF a = <<>> \/ comparison < 0 THEN Ok([quotient |-> <<>>, remainder |-> a])
        ELSE IF comparison = 0 THEN Ok([quotient |-> <<1>>, remainder |-> <<>>])
        ELSE IF Len(b) = 1
        THEN Within(Len(a), [short EXCEPT !.remainder = Trimmed(<<short.remainder>>)])
        ELSE Within(Len(a) + 1, LongDivision(a, b))

\* Truncates toward zero: the remainder has the sign of a.
DivMod(a, b) ==
    IF b = Zero THEN Refused("DIVISION_BY_ZERO")
    ELSE Then(DivModAbs(a.limbs, b.limbs), LAMBDA d :
              Ok([quotient |-> BigInt(a.negative # b.negative, d.quotient),
                  remainder |-> BigInt(a.negative, d.remainder)]))
Div(a, b) == Then(DivMod(a, b), LAMBDA d : Ok(d.quotient))
Mod(a, b) == Then(DivMod(a, b), LAMBDA d : Ok(d.remainder))

-----------------------------------------------------------------------------
(* Signed arithmetic.                                                      *)

Abs(v) == Positive(v.limbs)
Negate(v) == BigInt(~v.negative, v.limbs)

Add(a, b) ==
    LET comparison == CompareAbs(a.limbs, b.limbs)
        negative == IF a.negative = b.negative THEN a.negative
                    ELSE IF a.negative THEN comparison > 0 ELSE comparison < 0
    IN  Then(IF a.negative = b.negative THEN AddAbs(a.limbs, b.limbs)
                                        ELSE SubtractAbs(a.limbs, b.limbs),
             LAMBDA limbs : Ok(BigInt(negative, limbs)))
Sub(a, b) == Add(a, Negate(b))

-----------------------------------------------------------------------------
(* The integer a representation stands for, the reference of the checks.   *)

MagnitudeOf(limbs) == Loop(Len(limbs), 0, LAMBDA sum, i : sum * Base + limbs[Len(limbs) + 1 - i])
ValueOf(v) == IF v.negative THEN -MagnitudeOf(v.limbs) ELSE MagnitudeOf(v.limbs)

Canonical(v) ==
    /\ \A i \in DOMAIN v.limbs : v.limbs[i] \in 0 .. Base - 1
    /\ v.limbs = Trimmed(v.limbs)
    /\ v.limbs = <<>> => ~v.negative

\* The representation of an integer.
LimbsOf(n) == Trimmed([i \in 1 .. 32 \div LimbBits |-> (n \div Base ^ (i - 1)) % Base])
FromInt(n) == IF n < 0 THEN BigInt(TRUE, LimbsOf(-n)) ELSE Positive(LimbsOf(n))
=============================================================================
