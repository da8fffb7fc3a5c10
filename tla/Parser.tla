------------------------------- MODULE Parser -------------------------------
(***************************************************************************)
(* The recursive descent over the tokens of an expression                  *)
(* (src/src/engine/parser/parser.c).                                       *)
(*                                                                         *)
(* Each operator is the C function of that name: it starts at token i, at  *)
(* a depth of recursion `nest', and answers the tree it read and the       *)
(* position of the token after it, or the status it refuses with.  An      *)
(* allocation that fails is left to module Budget, columns are left out.   *)
(***************************************************************************)
EXTENDS Tokens, TLC

CONSTANTS
    MaxDepth,       \* CALCULATOR_MAX_EXPRESSION_DEPTH, of trees and of recursion
    MaxArguments,   \* CALCULATOR_MAX_CALL_ARGUMENTS
    Units           \* the definition of each known unit, by its name

(* Named functions: how many arguments, and what implements them.          *)

Unlimited == 0
OfArity(names, least, most) ==
    [f \in names |-> [least |-> least, most |-> most, implementation |-> f]]
Alias(names, implementation) ==
    [f \in names |-> [least |-> 1, most |-> 1, implementation |-> implementation]]

Functions ==
    OfArity({"re", "im", "conj", "arg", "abs", "sign", "floor", "ceil", "trunc", "factorial", "isqrt",
             "sqrt", "cbrt", "exp", "ln", "sin", "cos", "tan", "sinh", "cosh", "tanh", "radians",
             "degrees"}, 1, 1)
    @@ OfArity({"complex", "qty", "gcd", "lcm", "mod", "npr", "ncr", "pow", "root"}, 2, 2)
    @@ OfArity({"round", "log"}, 1, 2) @@ OfArity({"convert"}, 3, 3) @@ OfArity({"rand"}, 0, 2)
    @@ OfArity({"min", "max", "stdev"}, 2, Unlimited)
    @@ OfArity({"sum", "product", "mean", "median", "geomean", "harmean", "variance", "stdevp"},
               1, Unlimited)
    @@ Alias({"asin", "arcsin", "arcussin"}, "asin") @@ Alias({"acos", "arccos", "arcuscos"}, "acos")
    @@ Alias({"atan", "arctan", "arcustan"}, "atan")
    @@ Alias({"asinh", "arcsinh", "arcussinh"}, "asinh")
    @@ Alias({"acosh", "arccosh", "arcuscosh"}, "acosh")
    @@ Alias({"atanh", "arctanh", "arcustanh"}, "atanh")

NameOf(text) == IF Len(text) = 1 THEN text[1] ELSE ""    \* no two words make a known one
IsFunction(text) == NameOf(text) \in DOMAIN Functions
IsConstant(text) == NameOf(text) \in Greek \cup {"e"}

-----------------------------------------------------------------------------
(* Trees.                                                                  *)

Deepest(parts) == Loop(Len(parts), 0, LAMBDA depth, i : Larger(depth, parts[i].depth))
Node(kind, name, text, parts) ==
    [kind |-> kind, name |-> name, text |-> text, parts |-> parts, depth |-> Deepest(parts) + 1]

CanWrap_AtLimit(tree) == tree.depth <= MaxDepth    \* a limit that is exceeded by one
CanWrap(tree) == tree.depth < MaxDepth
TooDeep == Refused("VALUE_TOO_LARGE")
SyntaxError == Refused("SYNTAX_ERROR")

Combine(kind, operation, parts) ==
    IF \A i \in DOMAIN parts : CanWrap(parts[i]) THEN Ok(Node(kind, operation, <<>>, parts))
    ELSE TooDeep

Parsed(tree, i) == Ok([tree |-> tree, next |-> i])

Advance(ts, i) == IF ts[i + 1].type = "INVALID" THEN Refused("INVALID_TOKEN") ELSE Ok(i + 1)

PostfixTypes == {"squared", "cubed", "!"}
ProductTypes == {"*", "/"}
PrimaryTypes == {"NUMBER", "IDENTIFIER", SquareRoot, "("}

-----------------------------------------------------------------------------
(* The layers of the grammar.                                              *)

RECURSIVE ParseExpression(_, _, _, _)
RECURSIVE ParseUnary(_, _, _, _)
RECURSIVE ParseArguments(_, _, _, _, _)

\* A call of convert or qty ends with the names of known, compatible units.
UnitArgument(ts, i, call) ==
    IF ts[i].type # ";" THEN SyntaxError
    ELSE Then(Advance(ts, i), LAMBDA u :
         IF ts[u].type # "UNIT" THEN SyntaxError
         ELSE IF ts[u].text \notin DOMAIN Units THEN Refused("UNKNOWN_UNIT")
         ELSE IF Len(call.units) = 1 /\ Units[call.units[1]].quantity # Units[ts[u].text].quantity
              THEN Refused("INCOMPATIBLE_UNITS")
         ELSE Then(Advance(ts, u), LAMBDA next :
              Ok([call |-> [call EXCEPT !.units = Append(@, ts[u].text)], next |-> next])))

ParseUnits(ts, i, call, count) ==
    LoopWhileOk(count, [call |-> call, next |-> i], LAMBDA state, k :
        UnitArgument(ts, state.next, state.call))

UnitsOf(function) == CASE function.implementation = "qty" -> 1
                       [] function.implementation = "convert" -> 2
                       [] OTHER -> 0

\* What follows an argument: units and an end, another argument, or an end.
AfterArgument(ts, i, nest, vars, call) ==
    IF UnitsOf(call.function) > 0 THEN ParseUnits(ts, i, call, UnitsOf(call.function))
    ELSE IF ts[i].type # ";" THEN Ok([call |-> call, next |-> i])
    ELSE Then(Advance(ts, i), LAMBDA next :
         IF ts[next].type = ")" THEN SyntaxError ELSE ParseArguments(ts, next, nest, vars, call))

\* Up to the token that should close the call.
ParseArguments(ts, i, nest, vars, call) ==
    IF ts[i].type = ")" THEN Ok([call |-> call, next |-> i])
    ELSE IF Len(call.arguments) = MaxArguments THEN TooDeep
    ELSE Then(ParseExpression(ts, i, nest + 1, vars), LAMBDA argument :
         IF ~CanWrap(argument.tree) THEN TooDeep
         ELSE AfterArgument(ts, argument.next, nest, vars,
                            [call EXCEPT !.arguments = Append(@, argument.tree)]))

CloseCall(ts, call, i) ==
    LET supplied == Len(call.arguments) + UnitsOf(call.function)
        most == call.function.most
    IN  IF ts[i].type # ")" THEN SyntaxError
        ELSE IF supplied < call.function.least \/ (most # Unlimited /\ supplied > most)
             THEN Refused("ARGUMENT_COUNT")
        ELSE Then(Advance(ts, i), LAMBDA next :
             Parsed(Node("CALL", call.function.implementation, call.units, call.arguments), next))

ParseCall(ts, i, nest, vars, function) ==
    IF nest >= MaxDepth THEN TooDeep
    ELSE Then(Advance(ts, i), LAMBDA open :
         IF ts[open].type # "(" THEN SyntaxError
         ELSE Then(Advance(ts, open), LAMBDA first :
              Then(ParseArguments(ts, first, nest, vars,
                                  [function |-> function, arguments |-> <<>>, units |-> <<>>]),
                   LAMBDA read : CloseCall(ts, read.call, read.next))))

\* Two numbers side by side are no product.
ParseNumber(ts, i) ==
    Then(Advance(ts, i), LAMBDA next :
         IF ts[next].type = "NUMBER" THEN SyntaxError
         ELSE Parsed(Node("NUMBER", "", ts[i].text, <<>>), next))

IdentifierKind(text) == CASE text = <<"ans">> -> "ANSWER"
                          [] text = <<"i">> -> "IMAGINARY"
                          [] IsConstant(text) -> "CONSTANT"
                          [] OTHER -> "VARIABLE"

ParseIdentifier(ts, i, nest, vars) ==
    LET text == ts[i].text
    IN  IF IsFunction(text) THEN ParseCall(ts, i, nest, vars, Functions[NameOf(text)])
        ELSE IF IdentifierKind(text) = "VARIABLE" /\ ~vars THEN Refused("INVALID_TOKEN")
        ELSE Then(Advance(ts, i), LAMBDA next : Parsed(Node(IdentifierKind(text), "", text, <<>>), next))

ParseParenthesis(ts, i, nest, vars) ==
    IF nest >= MaxDepth THEN TooDeep
    ELSE Then(Advance(ts, i), LAMBDA first :
         Then(ParseExpression(ts, first, nest + 1, vars), LAMBDA inner :
              IF ts[inner.next].type # ")" THEN SyntaxError
              ELSE Then(Advance(ts, inner.next), LAMBDA next : Parsed(inner.tree, next))))

ParsePrimary(ts, i, nest, vars) ==
    CASE ts[i].type = "NUMBER" -> ParseNumber(ts, i)
      [] ts[i].type = SquareRoot -> ParseCall(ts, i, nest, vars, Functions["sqrt"])
      [] ts[i].type = "IDENTIFIER" -> ParseIdentifier(ts, i, nest, vars)
      [] ts[i].type = "(" -> ParseParenthesis(ts, i, nest, vars)
      [] OTHER -> SyntaxError

RECURSIVE PostfixAfter(_, _, _)
PostfixAfter(ts, left, i) ==
    IF ts[i].type \notin PostfixTypes THEN Parsed(left, i)
    ELSE Then(Advance(ts, i), LAMBDA next :
         Then(Combine("POSTFIX", ts[i].type, <<left>>), LAMBDA tree : PostfixAfter(ts, tree, next)))

ParsePostfix(ts, i, nest, vars) ==
    Then(ParsePrimary(ts, i, nest, vars), LAMBDA left : PostfixAfter(ts, left.tree, left.next))

ParsePower(ts, i, nest, vars) ==
    Then(ParsePostfix(ts, i, nest, vars), LAMBDA base :
         IF ts[base.next].type # "^" THEN Ok(base)
         ELSE Then(Advance(ts, base.next), LAMBDA next :
              IF nest >= MaxDepth THEN TooDeep
              ELSE Then(ParseUnary(ts, next, nest + 1, vars), LAMBDA exponent :
                   Then(Combine("BINARY", "^", <<base.tree, exponent.tree>>), LAMBDA tree :
                        Parsed(tree, exponent.next)))))

ParseUnary(ts, i, nest, vars) ==
    IF ts[i].type \notin Signs THEN ParsePower(ts, i, nest, vars)
    ELSE Then(Advance(ts, i), LAMBDA next :
         IF nest >= MaxDepth THEN TooDeep
         ELSE Then(ParseUnary(ts, next, nest + 1, vars), LAMBDA operand :
              Then(Combine("UNARY", ts[i].type, <<operand.tree>>), LAMBDA tree :
                   Parsed(tree, operand.next))))

\* `*' and `/' and factors side by side share one level, from left to right.
RECURSIVE ProductAfter(_, _, _, _, _)
ProductAfter(ts, left, i, nest, vars) ==
    IF ts[i].type \notin ProductTypes \cup PrimaryTypes THEN Parsed(left, i)
    ELSE Then(IF ts[i].type \in ProductTypes THEN Advance(ts, i) ELSE Ok(i), LAMBDA from :
         Then(ParseUnary(ts, from, nest, vars), LAMBDA right :
         Then(Combine("BINARY", IF ts[i].type = "/" THEN "/" ELSE "*", <<left, right.tree>>),
              LAMBDA tree : ProductAfter(ts, tree, right.next, nest, vars))))

ParseMultiplicative(ts, i, nest, vars) ==
    Then(ParseUnary(ts, i, nest, vars), LAMBDA left :
         ProductAfter(ts, left.tree, left.next, nest, vars))

RECURSIVE SumAfter(_, _, _, _, _)
SumAfter(ts, left, i, nest, vars) ==
    IF ts[i].type \notin Signs THEN Parsed(left, i)
    ELSE Then(Advance(ts, i), LAMBDA from :
         Then(ParseMultiplicative(ts, from, nest, vars), LAMBDA right :
         Then(Combine("BINARY", ts[i].type, <<left, right.tree>>), LAMBDA tree :
              SumAfter(ts, tree, right.next, nest, vars))))

ParseExpression(ts, i, nest, vars) ==
    Then(ParseMultiplicative(ts, i, nest, vars), LAMBDA left :
         SumAfter(ts, left.tree, left.next, nest, vars))

ParseTokens(ts, vars) ==
    Then(Advance(ts, 0), LAMBDA first :
    Then(ParseExpression(ts, first, 0, vars), LAMBDA read :
         IF ts[read.next].type # "END" THEN SyntaxError ELSE Ok(read.tree)))
Parse(text, vars) == ParseTokens(Tokens(text), vars)
=============================================================================
