---------------------------- MODULE ExpressionsMC ---------------------------
(***************************************************************************)
(* One expression after the other: texts that are parsed, and texts that   *)
(* are evaluated as they stand, with a part of them named by a variable,   *)
(* and with that part as the previous answer.                              *)
(***************************************************************************)
EXTENDS ExpressionGrammar, ExpressionMeaning, HttpRequests


-----------------------------------------------------------------------------
(* Constants of the instance.                                              *)

AllLetters == DOMAIN Functions \cup {"i", "ans", "e", "x", "y", "E", "m", "km", "deg", "rad", "celsius", "kelvin"}

Unit(quantity, pi, n, d, offset) ==
    [quantity |-> quantity, pi |-> pi, scale |-> Rational(n, d), offset |-> offset]
SomeUnits ==
    (<<"m">> :> Unit("length", 0, 1, 1, Rational(0, 1)))
    @@ (<<"km">> :> Unit("length", 0, 1000, 1, Rational(0, 1)))
    @@ (<<"kelvin">> :> Unit("temperature", 0, 1, 1, Rational(0, 1)))
    @@ (<<"celsius">> :> Unit("temperature", 0, 1, 1, Rational(5463, 20)))
    @@ (<<"deg">> :> Unit("angle", 1, 1, 180, Rational(0, 1)))
    @@ (<<"rad">> :> Unit("angle", 0, 1, 1, Rational(0, 1)))
LowestScale == -12

-----------------------------------------------------------------------------
(* Parsing: all short texts of three alphabets, and every text that differs  *)
(* in one place from a long one.                                           *)

Alphabets ==
    {{"1", "-", "*", "^", "(", ")", "!", "e"},
     {"1", ".", "E", "+", " ", "e", "x"},
     {"pow", "(", ")", ";", "1"}}
Templates ==
    {<<"qty", "(", "1", ";", "quote", "m", "quote", ")">>,
     <<"convert", "(", "1", ";", "quote", "m", "quote", ";", "quote", "km", "quote", ")">>,
     [i \in 1 .. 2 * MaxDepth + 1 |-> IF i <= MaxDepth THEN "(" ELSE IF i = MaxDepth + 1 THEN "1" ELSE ")"],
     [i \in 1 .. MaxDepth |-> IF i < MaxDepth THEN "-" ELSE "1"],
     [i \in 1 .. 2 * MaxDepth - 1 |-> IF i % 2 = 1 THEN "1" ELSE "^"],
     <<"sum", "(", "1", ";", "1", ";", "1", ";", "1", ")">>,
     <<"root sign", "(", "4", ")", "squared">>,
     <<"rand", "(", ")", "!">>,
     <<"2", "^", "-", "1", "!">>,
     <<"2", "x", "pi", "(", "3", ")">>}
Replacements == {"1", "-", "^", "(", ")", ";", "!", "quote", "m", "kelvin", "x", "/"}

Edits(s) == {s} \cup {[s EXCEPT ![i] = c] : i \in DOMAIN s, c \in Replacements}
            \cup {SubSeq(s, 1, i - 1) \o SubSeq(s, i + 1, Len(s)) : i \in DOMAIN s}
            \cup {SubSeq(s, 1, i) \o <<c>> \o SubSeq(s, i + 1, Len(s)) :
                     i \in 0 .. Len(s), c \in Replacements}
LongestText == 5
Texts == UNION {UNION {[1 .. n -> a] : n \in 0 .. LongestText} : a \in Alphabets}
         \cup UNION {Edits(s) : s \in Templates}

ParseText ==
    /\ call = Idle
    /\ \E text \in Texts, named \in BOOLEAN :
        /\ named \/ "x" \in {text[i] : i \in DOMAIN text}
        /\ Ask("parse", [text |-> text, named |-> named], Parse(text, named))

-----------------------------------------------------------------------------
(* Evaluation.                                                             *)

Atoms ==
    {<<"2">>, <<"1", "/", "3">>, <<"0", ".", "5">>, <<"-", "4">>, <<"9", "/", "4">>, <<"0">>, <<"1", "/", "8">>,
     <<"1", ".", "2", "5">>, <<"i">>, <<"2", "+", "i">>, <<"complex", "(", "-", "4", ";", "0", ")">>,
     <<"3", "-", "4", "i">>, <<"e">>, <<"y">>, <<"ans">>, <<"1", "/", "0">>,
     <<"root sign", "(", "2", ")">>, <<"root sign", "(", "-", "4", ")">>, <<"2", "E", "-", "1">>}

Hole(before, after) == [before |-> before, after |-> after]
One(function) == Hole(<<function, "(">>, <<")">>)
Two(function, second) == Hole(<<function, "(">>, <<";", second, ")">>)
InText ==
    {Hole(<<>>, <<"+", "1", "/", "3">>), Hole(<<"2", "*">>, <<>>), Hole(<<"1", "/">>, <<>>),
     Hole(<<>>, <<"squared">>), Hole(<<>>, <<"cubed">>), Hole(<<>>, <<"!">>),
     Hole(<<>>, <<"^", "-", "2">>), Hole(<<"2", "^">>, <<>>), Hole(<<"i", "*">>, <<>>),
     Hole(<<>>, <<"*", "e">>), Hole(<<"(">>, <<"+", "1", ")", "/", "3", "*", "e">>),
     Hole(<<"e", "^">>, <<>>), Hole(<<"-">>, <<"*", "e">>), Hole(<<"y", "+">>, <<>>),
     Hole(<<"root sign", "(">>, <<")", "/", "3", "*", "e">>),
     Hole(<<"sum", "(">>, <<";", "1", "/", "3", ";", "2", ")">>),
     Hole(<<"mean", "(">>, <<";", "1", ";", "2", ")">>),
     Hole(<<"median", "(">>, <<";", "3", ";", "1", ")">>),
     Hole(<<"variance", "(">>, <<";", "1", ";", "2", ")">>),
     Hole(<<"round", "(">>, <<";", "-", "1", ")">>), Hole(<<"root", "(", "8", ";">>, <<")">>),
     Hole(<<"convert", "(">>, <<";", "quote", "m", "quote", ";", "quote", "km", "quote", ")">>),
     Hole(<<"convert", "(">>, <<";", "quote", "deg", "quote", ";", "quote", "rad", "quote", ")">>),
     Hole(<<"convert", "(">>, <<";", "quote", "celsius", "quote", ";", "quote", "kelvin", "quote", ")">>),
     Hole(<<"rand", "(">>, <<";", "3", ")">>), Hole(<<"npr", "(", "4", ";">>, <<")">>)}
    \cup {One(f) : f \in {"sqrt", "cbrt", "abs", "sign", "floor", "ceil", "trunc", "isqrt", "factorial",
                          "re", "im", "conj", "arg", "ln", "asin", "exp", "stdevp"}}
    \cup {Two(f, "1") : f \in {"round", "min", "max", "complex", "stdevp"}}
    \cup {Two(f, "2") : f \in {"pow", "harmean", "product", "median", "root"}}
    \cup {Two(f, "3") : f \in {"mod", "stdev", "root", "ncr"}}
    \cup {Two(f, "6") : f \in {"gcd", "lcm"}} \cup {Two("geomean", "9")}

With(hole, part) == hole.before \o <<"(">> \o part \o <<")">> \o hole.after

Places == {0, 1}
Decimals == (<<"y">> :> DecimalOf(Decimal(15, 1)))
Draw == Decimal(25, 2)
Answers == {NoAnswer, IntegerValue(3), Complex(Rational(1, 2), Rational(-1, 1)), DecimalOf(Decimal(75, 2))}

Computed(text, places, answer, variables) ==
    ComputeValue(text, places, "HALF_EVEN", answer, Names(variables), Draw)
Way(text, answer, variables) == [text |-> text, answer |-> answer, variables |-> variables]

\* A part by itself, whose value may then be a variable and the answer.
PartsAlone ==
    {[op |-> "part", part |-> part, ways |-> "alone" :> Way(part, answer, Decimals)] :
        <<part, answer>> \in {p \in Atoms \X Answers : p[2] = NoAnswer \/ p[1] = <<"ans">>}}

\* A text with that part: written out, by its name, and as the answer.
Part == call.answer["alone"][0]
WaysOf(hole, alone) ==
    ("written" :> Way(With(hole, call.in.part), alone.answer, Decimals))
    @@ IF Part.status # "OK" THEN <<>>
       ELSE ("named" :> Way(With(hole, <<"x">>), alone.answer, Decimals @@ (<<"x">> :> Part.value.value)))
            @@ ("answered" :> Way(With(hole, <<"ans">>), Part.value.value, Decimals))
WithThePart ==
    {[op |-> "text", part |-> Part, ways |-> WaysOf(hole, call.in.ways["alone"])] : hole \in InText}

\* In each of the ways, for each number of places.
Evaluate ==
    \E asked \in IF call = Idle THEN PartsAlone ELSE IF call.op = "part" THEN WithThePart ELSE {} :
        Ask(asked.op, asked,
            [w \in DOMAIN asked.ways |->
                [p \in Places |-> LET way == asked.ways[w]
                                  IN  ComputeValue(way.text, p, "HALF_EVEN", way.answer, Names(way.variables), Draw)]])

ExpressionsNext == ParseText \/ Evaluate
ExpressionsSpec == InitHttp /\ [][ExpressionsNext]_call

-----------------------------------------------------------------------------
(* The properties.                                                         *)

\* The parser accepts exactly the texts the documented grammar derives, in one
\* way each, with the tree of that derivation, and refuses what is nested or
\* called beyond a limit (parser.c, tokenizer.c, functions.c).
ParsesGrammar ==
    call.op = "parse" => AnswersGrammar(call.in.text, call.in.named, call.answer)

UsesDecimals(tree, answer) ==
    Contains(tree, LAMBDA t : \/ t.kind = "VARIABLE" /\ t.value.kind = "DECIMAL"
                              \/ t.kind = "ANSWER" /\ answer.kind = "DECIMAL")
TakesImaginary(tree) == Contains(tree, LAMBDA t : t.kind = "CALL" /\ t.name = "im")   \* 0 of any real

\* A rational meaning is the answer, as a fraction, and an exact answer has that
\* meaning: no route to a value loses what is exact, or takes a rounding for it.
MeaningKept(way, computed) ==
    LET bound == ParseAndBind(way.text, Names(way.variables))
        meaning == TreeMeaning(bound.value, way.answer)
        v == computed.value.value
        fits(z) == \E w \in ValueMeaning(v) : Same(z, w) /\ z.typed = IsComplex(v)
    IN  bound.status = "OK" =>
            /\ computed.status = "OK" /\ IsExact(v) => meaning # {} \/ TakesImaginary(bound.value)
            /\ \A z \in meaning :
                  \/ computed.status = "VALUE_TOO_LARGE"
                  \/ computed.status = "OK" /\ IsExact(v) /\ fits(z)
                  \/ UsesDecimals(bound.value, way.answer)
                     /\ IF computed.status = "OK" THEN ~IsExact(v) ELSE computed.status = "NUMERICAL"

\* Two values of the same number, whether it is called an integer or a fraction.
SameValue(a, b) ==
    \/ "NUMERICAL" \in {a.status, b.status}
    \/ a.status # "OK" /\ a.status = b.status
    \/ /\ a.status = "OK" /\ b.status = "OK"
       /\ \/ a.value.value = b.value.value
          \/ /\ IsExactReal(a.value.value) /\ IsExactReal(b.value.value)
             /\ a.value.value.exact = b.value.value.exact

AnswersMean ==
    call.op = "text" =>
        \A p \in Places :
            /\ MeaningKept(call.in.ways["written"], call.answer["written"][p])
            /\ call.in.part.status = "OK" /\ IsExact(call.in.part.value.value) =>
                  \A w \in DOMAIN call.in.ways :
                      SameValue(call.answer["written"][p], call.answer[w][p])

\* A value that is marked as independent of the working precision is the same
\* for every precision (calculator.c:182-187).
IndependentOfPrecision ==
    call.op = "text" =>
        \A w \in DOMAIN call.in.ways, p \in Places, q \in Places :
            call.answer[w][p].status = "OK" /\ call.answer[w][p].value.independent =>
                call.answer[w][q] = call.answer[w][p]
=============================================================================
