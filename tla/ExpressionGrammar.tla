-------------------------- MODULE ExpressionGrammar -------------------------
(***************************************************************************)
(* What the parser is compared with: the grammar that                      *)
(* docs/reference/CALCULATOR_EXPRESSIONS.md prints, read as a relation     *)
(* between pieces of text and trees.  Nothing here looks ahead or recurs:  *)
(* the derivations of a span are put together from those of its pieces.    *)
(***************************************************************************)
EXTENDS Parser, FiniteSets

(* Lexemes: the longest one at each place is the next token.               *)

IsNumeral(s) == \A i \in DOMAIN s : s[i] \in Digits
IsMantissa(s) ==
    \/ IsNumeral(s) /\ s # <<>>
    \/ \E k \in DOMAIN s : /\ s[k] \in Separators
                           /\ IsNumeral(SubSeq(s, 1, k - 1))
                           /\ IsNumeral(SubSeq(s, k + 1, Len(s)))
                           /\ Len(s) > 1
IsExponent(s) ==
    /\ Len(s) > 1
    /\ s[1] = "E"
    /\ LET digits == SubSeq(s, IF s[2] \in Signs THEN 3 ELSE 2, Len(s))
       IN  digits # <<>> /\ IsNumeral(digits)
IsNumber(s) == \E k \in DOMAIN s : /\ IsMantissa(SubSeq(s, 1, k))
                                   /\ k = Len(s) \/ IsExponent(SubSeq(s, k + 1, Len(s)))
IsWord(s) == \A i \in DOMAIN s : s[i] \in Letters
IsUnit(s) == /\ Len(s) > 1
             /\ s[1] = Quote /\ s[Len(s)] = Quote
             /\ \A i \in 2 .. Len(s) - 1 : s[i] \in UnitCharacters

LexemeType(s) ==
    CASE IsNumber(s) -> "NUMBER"
      [] IsWord(s) -> "IDENTIFIER"
      [] IsUnit(s) -> "UNIT"
      [] Len(s) = 1 /\ s[1] \in Greek -> "IDENTIFIER"
      [] Len(s) = 1 /\ s[1] \in Punctuation \cup Spaces -> s[1]
      [] OTHER -> "INVALID"

Lexeme(type, s) == [type |-> type, text |-> IF type = "UNIT" THEN SubSeq(s, 2, Len(s) - 1) ELSE s]

\* The lexemes that start at a place, the longest of them, and a repeated separator.
LexemeEnds(text, i) == {j \in i .. Len(text) : LexemeType(SubSeq(text, i, j)) # "INVALID"}
LongestEnd(ends) == CHOOSE j \in ends : \A k \in ends : k <= j
RECURSIVE LexemesFrom(_, _, _)
LexemeAt(text, i, ends, before) ==
    IF ends = {} THEN Refused("NONE")
    ELSE LET s == SubSeq(text, i, LongestEnd(ends))
             type == LexemeType(s)
         IN  IF type = "NUMBER" /\ CharAt(text, LongestEnd(ends) + 1) \in Separators THEN Refused("NONE")
             ELSE LexemesFrom(text, LongestEnd(ends) + 1,
                              IF type \in Spaces THEN before ELSE Append(before, Lexeme(type, s)))
LexemesFrom(text, i, before) ==
    IF i > Len(text) THEN Ok(before) ELSE LexemeAt(text, i, LexemeEnds(text, i), before)
Lexemes(text) == LexemesFrom(text, 1, <<>>)

-----------------------------------------------------------------------------
(* Derivations.  A tree, the level of the production it comes from, and    *)
(* how deep the parentheses, calls, signs and exponents in it nest.        *)

Primary == 0
Postfix == 1
Power == 2
Unary == 3
Term == 4
Expression == 5
Arguments == 6

Deriving(level, nest, tree) == [level |-> level, nest |-> nest, tree |-> tree]
Of(derivations, level) == {d \in derivations : d.level <= level}

Operation(level, nest, operator, left, right) ==
    Deriving(level, nest, Node("BINARY", operator, <<>>, <<left.tree, right.tree>>))

Atom(lexeme, vars) ==
    LET kind == IF lexeme.type = "NUMBER" THEN "NUMBER" ELSE IdentifierKind(lexeme.text)
    IN  IF \/ lexeme.type \notin {"NUMBER", "IDENTIFIER"}
           \/ lexeme.type = "IDENTIFIER" /\ IsFunction(lexeme.text)
           \/ kind = "VARIABLE" /\ ~vars
        THEN {} ELSE {Deriving(Primary, 0, Node(kind, "", lexeme.text, <<>>))}

\* The function a lexeme calls, in a set that is empty for any other lexeme.
Called(lexeme) ==
    IF lexeme.type = SquareRoot THEN {Functions["sqrt"]}
    ELSE IF lexeme.type = "IDENTIFIER" /\ IsFunction(lexeme.text) THEN {Functions[NameOf(lexeme.text)]}
    ELSE {}

KnownUnits(function, units) ==
    /\ \A i \in DOMAIN units : units[i] \in DOMAIN Units
    /\ \A i, j \in DOMAIN units : Units[units[i]].quantity = Units[units[j]].quantity
    /\ Len(units) = UnitsOf(function)

TakesArguments(function, count) ==
    count >= function.least /\ (function.most = Unlimited \/ count <= function.most)

\* A call whose arguments are the derivation `list' and then `units'.
CallsOf(function, list, units) ==
    IF /\ KnownUnits(function, units)
       /\ units = <<>> \/ Len(list.tree.parts) = 1
       /\ TakesArguments(function, Len(list.tree.parts) + Len(units))
    THEN {Deriving(Primary, list.nest + 1,
                   Node("CALL", function.implementation, units, list.tree.parts))}
    ELSE {}

NoArguments == Deriving(Arguments, 0, Node("LIST", "", <<>>, <<>>))

\* Units end the list: where they begin, and which they are.
UnitsBefore(ls, j, n) == [k \in 1 .. n |-> ls[j - 2 * n + 2 * k - 1].text]
EndInUnits(ls, i, j, n) ==
    /\ j - 2 * n > i
    /\ \A k \in 1 .. n : ls[j - 2 * n + 2 * k - 2].type = ";" /\ ls[j - 2 * n + 2 * k - 1].type = "UNIT"

\* Everything the lexemes i .. j - 1 can be, from what shorter spans can be.
Derivations(ls, i, j, vars, D(_, _)) ==
    LET first == ls[i]
        final == ls[j - 1]
        cuts == {k \in i + 1 .. j - 2 : TRUE}
        atoms == IF j = i + 1 THEN Atom(first, vars) ELSE {}
        enclosed == IF j < i + 3 \/ first.type # "(" \/ final.type # ")" THEN {}
                    ELSE {Deriving(Primary, d.nest + 1, d.tree) : d \in Of(D(i + 1, j - 1), Expression)}
        lists(n, end) == IF i + 2 = end THEN {NoArguments} ELSE {d \in D(i + 2, end) : d.level = Arguments}
        calls == IF j < i + 3 \/ ls[i + 1].type # "(" \/ final.type # ")" THEN {}
                 ELSE UNION {UNION {CallsOf(f, d, UnitsBefore(ls, j - 1, UnitsOf(f))) :
                                      d \in lists(0, j - 1 - 2 * UnitsOf(f))} :
                             f \in {g \in Called(first) :
                                      UnitsOf(g) = 0 \/ EndInUnits(ls, i + 2, j - 1, UnitsOf(g))}}
        postfixes == IF j = i + 1 \/ final.type \notin PostfixTypes THEN {}
                     ELSE {Deriving(Postfix, d.nest, Node("POSTFIX", final.type, <<>>, <<d.tree>>)) :
                             d \in Of(D(i, j - 1), Postfix)}
        primaries == atoms \cup enclosed \cup calls
        powers == UNION {{Operation(Power, Larger(b.nest, e.nest + 1), "^", b, e) :
                            b \in Of(D(i, k), Postfix), e \in Of(D(k + 1, j), Unary)} :
                         k \in {c \in cuts : ls[c].type = "^"}}
        signs == IF j = i + 1 \/ first.type \notin Signs THEN {}
                 ELSE {Deriving(Unary, d.nest + 1, Node("UNARY", first.type, <<>>, <<d.tree>>)) :
                         d \in Of(D(i + 1, j), Unary)}
        products == UNION {{Operation(Term, Larger(l.nest, r.nest), ls[k].type, l, r) :
                              l \in Of(D(i, k), Term), r \in Of(D(k + 1, j), Unary)} :
                           k \in {c \in cuts : ls[c].type \in ProductTypes}}
        \* Side by side: no sign starts the right factor, no two numbers meet.
        adjacent == UNION {{Operation(Term, Larger(l.nest, r.nest), "*", l, r) :
                              l \in Of(D(i, k), Term), r \in Of(D(k, j), Unary)} :
                           k \in {c \in i + 1 .. j - 1 :
                                    /\ ls[c].type \notin Signs
                                    /\ ls[c - 1].type # "NUMBER" \/ ls[c].type # "NUMBER"}}
        sums == UNION {{Operation(Expression, Larger(l.nest, r.nest), ls[k].type, l, r) :
                          l \in Of(D(i, k), Expression), r \in Of(D(k + 1, j), Term)} :
                       k \in {c \in cuts : ls[c].type \in Signs}}
        whole == primaries \cup postfixes \cup powers \cup signs \cup products \cup adjacent \cup sums
        list(before, d) == Deriving(Arguments, Larger(before.nest, d.nest),
                                    Node("LIST", "", <<>>, Append(before.tree.parts, d.tree)))
        longer == UNION {{list(l, d) : l \in {a \in D(i, k) : a.level = Arguments},
                                       d \in Of(D(k + 1, j), Expression)} :
                         k \in {c \in cuts : ls[c].type = ";"}}
    IN  whole \cup longer \cup {list(NoArguments, d) : d \in whole}

\* spans[n][i] is what the n lexemes from i on can be.
DerivationsOf(ls, vars) ==
    LET spans == Loop(Len(ls), <<>>, LAMBDA shorter, n :
            Append(shorter, Loop(Len(ls) - n + 1, <<>>, LAMBDA row, i :
                Append(row, Derivations(ls, i, i + n, vars, LAMBDA a, b : shorter[b - a][a])))))
    IN  IF ls = <<>> THEN {} ELSE Of(spans[Len(ls)][1], Expression)

RECURSIVE MostArguments(_)
MostArguments(tree) ==
    LET here == IF tree.kind = "CALL" THEN Len(tree.parts) ELSE 0
    IN  Loop(Len(tree.parts), here, LAMBDA most, i : Larger(most, MostArguments(tree.parts[i])))

TooLarge(d) == d.tree.depth > MaxDepth \/ d.nest > MaxDepth \/ MostArguments(d.tree) > MaxArguments

\* What Parse should answer, from all the derivations of a text.
Means(derivations, answer) ==
    IF derivations = {} THEN answer.status # "OK"
    ELSE \E d \in derivations :
            /\ derivations = {d}
            /\ answer = IF TooLarge(d) THEN TooDeep ELSE Ok(d.tree)
AnswersGrammar(text, vars, answer) ==
    LET lexemes == Lexemes(text)
    IN  Means(IF lexemes.status = "OK" THEN DerivationsOf(lexemes.value, vars) ELSE {}, answer)
=============================================================================
