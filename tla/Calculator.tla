----------------------------- MODULE Calculator -----------------------------
(***************************************************************************)
(* From the text of an expression to its value                             *)
(* (src/src/engine/api/calculator.c).                                      *)
(*                                                                         *)
(* A result is the value with what the sessions and the cache want to know *)
(* of it: whether its digits depend on the working precision, and whether  *)
(* the previous answer, a variable or a random number went into it.        *)
(* Quantities (src/src/engine/values/quantity.c) are not modelled: an      *)
(* expression that has one, and no complex part, is Numerical.             *)
(***************************************************************************)
EXTENDS ComplexEvaluator

CONSTANT DivisionGuard      \* CALCULATOR_DIVISION_GUARD_DIGITS

UnlimitedPlaces == -1

\* calculator_context_set_output_scale
WorkingDigits(places) ==
    IF places = UnlimitedPlaces THEN DefaultDigits ELSE Larger(places + DivisionGuard, DefaultDigits)
Context(places, rounding) ==
    IF places < UnlimitedPlaces THEN InvalidArgument
    ELSE IF places > MaxPlaces THEN Refused("VALUE_TOO_LARGE")
    ELSE Ok([digits |-> WorkingDigits(places), rounding |-> rounding])

\* A caller without variables gets the parser that knows no names.
NoNames == [allowed |-> FALSE, values |-> <<>>]
Names(values) == [allowed |-> TRUE, values |-> values]

\* The first name from the left that is not known refuses the whole tree.
RECURSIVE BindVariables(_, _)
BindVariables(tree, values) ==
    IF tree.kind = "VARIABLE"
    THEN IF tree.text \in DOMAIN values THEN Ok(tree @@ [value |-> values[tree.text]])
         ELSE Refused("UNDEFINED_VARIABLE")
    ELSE Then(LoopWhileOk(Len(tree.parts), <<>>, LAMBDA parts, i :
                  Then(BindVariables(tree.parts[i], values), LAMBDA part : Ok(Append(parts, part)))),
              LAMBDA parts : Ok([tree EXCEPT !.parts = parts]))

-----------------------------------------------------------------------------
(* What is known of a tree without its value.                              *)

RECURSIVE NodesOf(_)
NodesOf(tree) == Loop(Len(tree.parts), <<tree>>, LAMBDA nodes, i : nodes \o NodesOf(tree.parts[i]))
Contains(tree, Holds(_)) == LET nodes == NodesOf(tree) IN \E i \in DOMAIN nodes : Holds(nodes[i])

UsesAnswer(tree) == Contains(tree, LAMBDA t : t.kind = "ANSWER")
UsesVariables(tree) == Contains(tree, LAMBDA t : t.kind = "VARIABLE")
UsesRandom(tree) == Contains(tree, LAMBDA t : t.kind = "CALL" /\ t.name = "rand")
HasQuantity(tree) == Contains(tree, LAMBDA t : t.kind = "CALL" /\ t.name = "qty")

IndependentCalls ==
    {"factorial", "sign", "min", "max", "sum", "product", "median", "floor", "ceil", "trunc", "round",
     "gcd", "lcm", "mod", "npr", "ncr", "isqrt"}
IndependentNode(tree) ==
    CASE tree.kind \in {"VARIABLE", "NUMBER", "UNARY", "POSTFIX"} -> TRUE
      [] tree.kind = "BINARY" -> tree.name \in {"+", "-", "*"}
      [] tree.kind = "CALL" -> tree.name \in IndependentCalls
      [] OTHER -> FALSE
Independent(tree) == ~Contains(tree, LAMBDA t : ~IndependentNode(t))

-----------------------------------------------------------------------------
(* Evaluation.                                                             *)

\* The real route is what EvaluateComplex does with a tree that stays real.
\* An integer is named as one, except where the text is a complex one.
RouteOf(tree, env) ==
    IF ~HasQuantity(tree)
    THEN Then(EvaluateComplex(tree, env), LAMBDA v :
              Ok(IF v.kind = "RATIONAL" /\ ~HasComplex(tree, env.answer) THEN Exactly(v.exact) ELSE v))
    ELSE IF HasComplex(tree, env.answer) THEN Refused("DIMENSION_ERROR")
    ELSE Numerical

EvaluateParsed(tree, env) ==
    Then(RouteOf(tree, env), LAMBDA v :
         Ok([value |-> v,
             independent |-> v.kind \notin {"DECIMAL", "COMPLEX_DECIMAL"} \/ Independent(tree),
             usesAnswer |-> UsesAnswer(tree), usesRandom |-> UsesRandom(tree),
             usesVariables |-> UsesVariables(tree)]))

Environment(context, answer, draw) ==
    [digits |-> context.digits, rounding |-> context.rounding, answer |-> answer,
     decimal |-> Refused("UNDEFINED_ANSWER"), draw |-> draw]

ParseAndBind(text, names) ==
    Then(Parse(text, names.allowed), LAMBDA tree :
         IF names.allowed THEN BindVariables(tree, names.values) ELSE Ok(tree))
EvaluateIn(context, tree, answer, draw) ==
    IF context.status # "OK" THEN context
    ELSE IF tree.status # "OK" THEN tree
    ELSE EvaluateParsed(tree.value, Environment(context.value, answer, draw))

\* A context is checked before the text is looked at.
ComputeValue(text, places, rounding, answer, names, draw) ==
    EvaluateIn(Context(places, rounding), ParseAndBind(text, names), answer, draw)
=============================================================================
