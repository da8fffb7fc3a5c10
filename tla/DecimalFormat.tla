---------------------------- MODULE DecimalFormat ---------------------------
(***************************************************************************)
(* How a decimal becomes text: src/src/core/bigdecimal/format.c and        *)
(* format_mode.c.  A value whose first digit is far from the point is      *)
(* written in scientific notation, rounded digit by digit; any other is    *)
(* rescaled, and looked at again since rounding can carry into the digit   *)
(* that makes it scientific.  A large coefficient is first tried through   *)
(* its leading limbs, with an upper and a lower bound.                     *)
(*                                                                         *)
(* A text is its sign, its digits and the power of ten of the first one,   *)
(* or a plain text of module BigDecimal.                                   *)
(***************************************************************************)
EXTENDS BigDecimal

CONSTANTS
    ScientificThreshold,  \* 10: BIGDECIMAL_SCIENTIFIC_EXPONENT_THRESHOLD
    LimbWidth,            \* 64: bits of a limb of the coefficient
    PrefixEntry,          \* 64: limbs from which the leading ones are tried
    PrefixGuard,          \* 13: digits the bounds keep beyond the places
    AutoChars             \* 80: BIGDECIMAL_AUTO_MAX_CHARS

AllDigits == -1    \* the number of places that asks for every digit

Scientific(negative, digits, exponent) ==
    [notation |-> "scientific", negative |-> negative, digits |-> digits, exponent |-> exponent]
Plain(x) == [notation |-> "plain", text |-> PlainText(x)]
NotFormatted == [notation |-> "none"]

\* Does cutting the digits after `kept' move the last one kept?
ShouldRound(digits, kept, negative, rounding) ==
    LET cut == SubSeq(digits, kept + 1, Len(digits))
        nonZero(s) == \E i \in DOMAIN s : s[i] # 0
    IN  /\ nonZero(cut)
        /\ CASE rounding = "TOWARD_ZERO" -> FALSE
             [] rounding = "AWAY_FROM_ZERO" -> TRUE
             [] rounding = "FLOOR" -> negative
             [] rounding = "CEILING" -> ~negative
             [] rounding \in {"HALF_UP", "HALF_EVEN"} ->
                  \/ cut[1] > 5
                  \/ /\ cut[1] = 5
                     /\ \/ nonZero(Tail(cut))
                        \/ rounding = "HALF_UP"
                        \/ digits[kept] % 2 # 0

\* Trailing nines turn to zeros up to the digit that is incremented; a carry
\* out of the first digit moves the exponent.
Incremented(digits) ==
    LET last == Least(Len(digits), LAMBDA n : \A i \in n + 1 .. Len(digits) : digits[i] = 9)
    IN  [carried |-> last = 0,
         digits |-> [i \in DOMAIN digits |->
                        IF last = 0 THEN IF i = 1 THEN 1 ELSE 0
                        ELSE IF i < last THEN digits[i]
                        ELSE IF i = last THEN digits[i] + 1 ELSE 0]]

WithoutTrailingZeros(digits) ==
    SubSeq(digits, 1, Larger(1, Least(Len(digits), LAMBDA n :
                                 \A i \in n + 1 .. Len(digits) : digits[i] = 0)))

ComposeScientific(digits, negative, exponent, places, rounding) ==
    LET wanted == places + 1
        kept == SubSeq(digits, 1, wanted)
        next == Incremented(kept)
    IN  IF places = AllDigits \/ Len(digits) <= wanted
        THEN Scientific(negative, WithoutTrailingZeros(digits), exponent)
        ELSE IF ~ShouldRound(digits, wanted, negative, rounding)
        THEN Scientific(negative, WithoutTrailingZeros(kept), exponent)
        ELSE Scientific(negative, WithoutTrailingZeros(next.digits),
                        IF next.carried THEN exponent + 1 ELSE exponent)

\* Bounds on the number of digits from the number of bits, around log10(2).
DefinitelyFixed(x) ==
    LET bits == Least(31, LAMBDA k : Magnitude(x.coefficient) < 2 ^ k)
        minimum == ((bits - 1) * 30102) \div 100000 - x.scale
        maximum == (bits * 30103 + 99999) \div 100000 - 1 - x.scale
    IN  \/ bits = 0
        \/ /\ {minimum, maximum} \subseteq MinScale .. MaxScale
           /\ minimum > -ScientificThreshold /\ maximum < ScientificThreshold

\* The coefficient between two multiples of 2^power that its leading limbs
\* give, each product rounded outwards to `digits' digits.
PrefixBounds(prefix, power, digits) ==
    LET product(a, b, rounding) ==
            Then(Mul(a, b), LAMBDA p : RoundSignificant(p, digits, rounding))
        bits == Least(31, LAMBDA k : power < 2 ^ k)
        start == [low |-> Normalize(prefix, 0).value, high |-> Normalize(prefix + 1, 0).value,
                  under |-> Integer(2), over |-> Integer(2)]
    IN  LoopWhileOk(bits, start, LAMBDA b, i :
            LET odd == (power \div 2 ^ (i - 1)) % 2 = 1
            IN  Then(IF odd THEN product(b.low, b.under, "FLOOR") ELSE Ok(b.low), LAMBDA low :
                Then(IF odd THEN product(b.high, b.over, "CEILING") ELSE Ok(b.high), LAMBDA high :
                Then(IF i < bits THEN product(b.under, b.under, "FLOOR") ELSE Ok(b.under), LAMBDA under :
                Then(IF i < bits THEN product(b.over, b.over, "CEILING") ELSE Ok(b.over), LAMBDA over :
                     Ok([low |-> low, high |-> high, under |-> under, over |-> over]))))))

\* Mutant: the lower bound is the answer.
BoundsAgree_Low(x, low, high, bounds, places, rounding) ==
    LET exponent == DigitCount(low.coefficient) - 1 - low.scale - x.scale
    IN  IF Magnitude(exponent) < ScientificThreshold THEN Ok(NotFormatted)
        ELSE Ok(ComposeScientific(DigitsOf(low.coefficient), low.coefficient < 0,
                                  exponent, places, rounding))

\* Nothing is said unless both bounds round to one decimal.
BoundsAgree(x, low, high, bounds, places, rounding) ==
    LET exponent(d) == DigitCount(d.coefficient) - 1 - d.scale - x.scale
    IN  IF \/ bounds.low.scale > 0 \/ bounds.high.scale > 0
           \/ Magnitude(exponent(bounds.low)) < ScientificThreshold
           \/ exponent(bounds.low) # exponent(bounds.high)
           \/ Compare(low, high) # 0
        THEN Ok(NotFormatted)
        ELSE Ok(ComposeScientific(DigitsOf(low.coefficient), low.coefficient < 0,
                                  exponent(low), places, rounding))

TryPrefix(x, places, rounding) ==
    LET size == Least(31, LAMBDA k : Magnitude(x.coefficient) < 2 ^ (LimbWidth * k))
        work == places + PrefixGuard
        keptLimbs == (work * 4 + LimbWidth - 1) \div LimbWidth
        power == (size - keptLimbs) * LimbWidth
        rounded(d) == RoundSignificant(IF x.coefficient < 0 THEN Negate(d) ELSE d, places + 1, rounding)
        tried == Then(PrefixBounds(Magnitude(x.coefficient) \div 2 ^ power, power, work), LAMBDA bounds :
                 Then(rounded(bounds.low), LAMBDA low :
                 Then(rounded(bounds.high), LAMBDA high :
                      BoundsAgree(x, low, high, bounds, places, rounding))))
    IN  IF \/ places = AllDigits \/ places > 128
           \/ size < PrefixEntry + (places * places) \div 32
           \/ keptLimbs >= size
        THEN Ok(NotFormatted)
        ELSE IF tried.status = "SCALE_OVERFLOW" THEN Ok(NotFormatted) ELSE tried

TryScientific(x, places, rounding) ==
    LET exponent == DigitCount(x.coefficient) - 1 - x.scale
    IN  IF x.coefficient = 0 THEN Ok(NotFormatted)
        ELSE Then(TryPrefix(x, places, rounding), LAMBDA prefix :
             IF prefix # NotFormatted THEN Ok(prefix)
             ELSE IF Magnitude(exponent) < ScientificThreshold THEN Ok(NotFormatted)
             ELSE Ok(ComposeScientific(DigitsOf(x.coefficient), x.coefficient < 0, exponent,
                                       places, rounding)))

Format(x, places, rounding) ==
    LET fixed == Then(IF places = AllDigits THEN Ok(x) ELSE Rescale(x, places, rounding), LAMBDA y :
                 Then(TryScientific(y, places, rounding), LAMBDA text :
                      Ok(IF text = NotFormatted THEN Plain(y) ELSE text)))
    IN  IF places < -1 THEN Refused("INVALID_ARGUMENT")
        ELSE IF DefinitelyFixed(x) THEN fixed
        ELSE Then(TryScientific(x, places, rounding), LAMBDA text :
                  IF text = NotFormatted THEN fixed ELSE Ok(text))

-----------------------------------------------------------------------------
(* The modes of a result: what bigdecimal_format gives is read back as     *)
(* digits and an exponent, and written again.                              *)

Notation(text) ==
    LET digits == text.text.whole \o text.text.fraction
        leading == Least(Len(digits), LAMBDA n : n = Len(digits) \/ digits[n + 1] # 0)
    IN  IF text.notation = "scientific" THEN text
        ELSE Scientific(text.text.negative,
                        IF leading = Len(digits) THEN <<>>
                        ELSE WithoutTrailingZeros(SubSeq(digits, leading + 1, Len(digits))),
                        IF leading = Len(digits) THEN 0 ELSE Len(text.text.whole) - leading - 1)

SignLength(n) == IF n.negative THEN 1 ELSE 0

TooLong == -1    \* SIZE_MAX

\* The limit is compared with the text without its sign, and the sign is added
\* to what fits: a negative text may take one byte more than the limit.
PlainLength(n, limit) ==
    LET body == IF n.exponent < 0 THEN 1 - n.exponent + Len(n.digits)
                ELSE IF n.exponent + 1 >= Len(n.digits) THEN n.exponent + 1 ELSE Len(n.digits) + 1
    IN  IF body > limit THEN TooLong ELSE body + SignLength(n)

\* `E+5' or ` x 10^5': the exponent's sign is left out of the second form.
ScientificLength(n, mathematical) ==
    SignLength(n) + Len(n.digits) + (IF Len(n.digits) > 1 THEN 1 ELSE 0)
    + (IF mathematical THEN 7 ELSE 1)    \* ` x 10^' with a two-byte sign
    + Larger(1, DigitCount(n.exponent)) + (IF mathematical /\ n.exponent >= 0 THEN 0 ELSE 1)

Written(n) ==    \* the plain form
    LET zeros(k) == [i \in 1 .. k |-> 0]
        position == n.exponent + 1
        text(whole, fraction) == [notation |-> "plain",
            text |-> [negative |-> n.negative, whole |-> whole, fraction |-> fraction, exponent |-> 0]]
    IN  IF n.exponent < 0 THEN text(<<0>>, zeros(-n.exponent - 1) \o n.digits)
        ELSE IF position >= Len(n.digits) THEN text(n.digits \o zeros(position - Len(n.digits)), <<>>)
        ELSE text(SubSeq(n.digits, 1, position), SubSeq(n.digits, position + 1, Len(n.digits)))

\* AUTO counts the sign, since an addition that passes 80 is noticed there.
Chosen(n, mode) ==
    IF mode # "AUTO" THEN mode
    ELSE IF \/ Magnitude(n.exponent) >= ScientificThreshold
            \/ PlainLength(n, AutoChars) \notin 0 .. AutoChars
    THEN "SCIENTIFIC" ELSE "PLAIN"

\* A text with the length its memory was allocated for, without the NUL.
FormatMode(x, places, rounding, mode, limit) ==
    LET sized(text, length) == Ok([text |-> text, length |-> length])
        plain(n) ==
            LET length == PlainLength(n, limit)
            IN  IF length = TooLong THEN Refused("VALUE_TOO_LARGE") ELSE sized(Written(n), length)
        scientific(n, mathematical) ==
            LET length == ScientificLength(n, mathematical)
            IN  IF length > limit THEN Refused("VALUE_TOO_LARGE") ELSE sized(n, length)
        written(n) ==
            IF n.digits = <<>>
            THEN IF limit < 1 THEN Refused("VALUE_TOO_LARGE") ELSE sized(Plain(Zero), 1)
            ELSE IF Chosen(n, mode) = "PLAIN" THEN plain(n)
            ELSE scientific(n, mode = "MATHEMATICAL")
    IN  Then(Format(x, places, rounding), LAMBDA text : written(Notation(text)))

\* The decimal a text stands for, the reference of the checks.
ValueOfText(text) ==
    IF text.notation = "plain" THEN SetString(text.text)
    ELSE SetString([negative |-> text.negative, whole |-> SubSeq(text.digits, 1, 1),
                    fraction |-> Tail(text.digits), exponent |-> text.exponent])
=============================================================================
