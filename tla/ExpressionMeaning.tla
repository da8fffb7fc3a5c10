-------------------------- MODULE ExpressionMeaning -------------------------
(***************************************************************************)
(* What the evaluators are compared with: the number a tree means, when it *)
(* is rational.  A meaning is a set of at most one number; a number is     *)
(* (a + bi) / d, and `typed' when the value that should have it is of the  *)
(* complex type.  Roots, roundings, divisors and medians are looked for    *)
(* among the candidates instead of computed.                               *)
(***************************************************************************)
EXTENDS Calculator, FiniteSets

CONSTANT Widest     \* no root or integer that is looked for is larger

Num(a, b, d, typed) == [a |-> a, b |-> b, d |-> d, typed |-> typed]
Quot(a, d) == Num(a, 0, d, FALSE)
Whole(n) == Quot(n, 1)
IsWhole(z) == ~z.typed /\ z.a % z.d = 0
WholeOf(z) == z.a \div z.d

Same(z, w) == z.a * w.d = w.a * z.d /\ z.b * w.d = w.b * z.d
Less(z, w) == z.a * w.d < w.a * z.d

Lowest(a, b, d, typed) ==
    LET g == GcdOf(GcdOf(a, b), d) IN Num(Quotient(a, g), Quotient(b, g), d \div g, typed)
Plus(z, w) == Lowest(z.a * w.d + w.a * z.d, z.b * w.d + w.b * z.d, z.d * w.d, z.typed \/ w.typed)
Times(z, w) == Lowest(z.a * w.a - z.b * w.b, z.a * w.b + z.b * w.a, z.d * w.d, z.typed \/ w.typed)
Opposite(z) == [z EXCEPT !.a = -@, !.b = -@]
Inverses(z) == IF z.a = 0 /\ z.b = 0 THEN {}
               ELSE {Num(z.d * z.a, -z.d * z.b, z.a * z.a + z.b * z.b, z.typed)}
Ratios(z, w) == {Times(z, v) : v \in Inverses(w)}

Total(zs, Join(_, _)) == Loop(Len(zs) - 1, zs[1], LAMBDA z, i : Join(z, zs[i + 1]))
Repeated(z, n) == Loop(n, [Whole(1) EXCEPT !.typed = z.typed], LAMBDA power, i : Times(power, z))

Powers(z, w) ==
    IF ~IsWhole(w) THEN {}
    ELSE IF WholeOf(w) >= 0 THEN {Repeated(z, WholeOf(w))}
    ELSE Inverses(Repeated(z, -WholeOf(w)))

\* g / d is a square root of z when the integer g * g is z.a * d.
SquareRoots(z) ==
    {Num(u, v, z.d, z.typed \/ v # 0) :
        <<u, v>> \in {g \in (0 .. Widest) \X (-Widest .. Widest) :
                         /\ g[1] * g[1] - g[2] * g[2] = z.a * z.d
                         /\ 2 * g[1] * g[2] = z.b * z.d
                         /\ g[1] > 0 \/ g[2] >= 0}}
Roots(z, degree) ==
    CASE degree < 1 -> {}
      [] degree = 1 -> {z}
      [] degree = 2 -> SquareRoots(z)
      [] OTHER -> IF z.typed \/ (z.a < 0 /\ degree % 2 = 0) THEN {}
                  ELSE {Quot(g, z.d) : g \in {n \in -Widest .. Widest :
                           Sign(n) = Sign(z.a) /\ n ^ degree = z.a * z.d ^ (degree - 1)}}
RealSquareRoots(z) == {r \in SquareRoots(z) : ~r.typed}

-----------------------------------------------------------------------------
(* Functions.                                                              *)

Divides(n, m) == m % n = 0
Divisors(m, n) == {k \in 1 .. Widest : Divides(k, m) /\ Divides(k, n)}
LargestOf(s) == CHOOSE k \in s : \A j \in s : j <= k
Orders(n) == Loop(n, 1, LAMBDA product, k : product * k)

OfIntegers(function, m, n) ==
    CASE function = "factorial" -> IF m < 0 THEN {} ELSE {Orders(m)}
      [] function = "isqrt" -> {r \in 0 .. Widest : r * r <= m /\ (r + 1) * (r + 1) > m}
      [] function = "gcd" -> IF m = 0 /\ n = 0 THEN {0} ELSE {LargestOf(Divisors(m, n))}
      [] function = "lcm" -> IF m = 0 \/ n = 0 THEN {0}
                             ELSE {k \in 1 .. Magnitude(m * n) :
                                      k * LargestOf(Divisors(m, n)) = Magnitude(m * n)}
      [] function = "mod" -> IF n = 0 THEN {}
                             ELSE {r \in -Widest .. Widest : /\ Magnitude(r) < Magnitude(n)
                                                             /\ Divides(Magnitude(n), m - r)
                                                             /\ r # 0 => Sign(r) = Sign(m)}
      [] OTHER -> IF n < 0 \/ n > m THEN {}
                  ELSE {Orders(m) \div (Orders(m - n) * (IF function = "ncr" THEN Orders(n) ELSE 1))}

\* The nearest integer on the side that is wanted.
Nearest(function, z) ==
    LET below == z.a \div z.d
        above == -((-z.a) \div z.d)
    IN  CASE function = "floor" -> below
          [] function = "ceil" -> above
          [] function = "trunc" -> IF z.a < 0 THEN above ELSE below
          [] function = "round" -> IF below = above THEN below
                                   ELSE CHOOSE n \in {below, above} :
                                          LET m == below + above - n IN
                                          \/ Magnitude(z.a - n * z.d) < Magnitude(z.a - m * z.d)
                                          \/ Magnitude(z.a - n * z.d) = Magnitude(z.a - m * z.d) /\ n % 2 = 0
Scaled(z, places) == IF places < 0 THEN Times(z, Quot(1, 10 ^ (-places))) ELSE Times(z, Whole(10 ^ places))
Roundings(function, z, places) == {Scaled(Whole(Nearest(function, Scaled(z, places))), -places)}

Pairs(zs) == {p \in (DOMAIN zs) \X (DOMAIN zs) : p[1] < p[2]}
Apart(zs, p) == Plus(zs[p[1]], Opposite(zs[p[2]]))
RECURSIVE SumOver(_, _)
SumOver(zs, pairs) ==
    IF pairs = {} THEN Whole(0)
    ELSE LET p == CHOOSE q \in pairs : TRUE
         IN  Plus(Times(Apart(zs, p), Apart(zs, p)), SumOver(zs, pairs \ {p}))
Spread(zs, n, m) == IF m = 0 THEN {} ELSE {Times(SumOver(zs, Pairs(zs)), Quot(1, n * m))}

\* Ranks, not an order: half of the others are on each side.
Middle(zs, Beyond(_, _)) ==
    {zs[i] : i \in {j \in DOMAIN zs : 2 * Cardinality({k \in DOMAIN zs : Beyond(zs[k], zs[j])}) <= Len(zs)}}
Extreme(s, Before(_, _)) == CHOOSE z \in s : \A w \in s : ~Before(w, z)
Medians(zs) ==
    LET middle == Middle(zs, Less) \cap Middle(zs, LAMBDA z, w : Less(w, z))
    IN  {Times(Plus(Extreme(middle, Less), Extreme(middle, LAMBDA z, w : Less(w, z))), Quot(1, 2))}

OfFractions(function, zs) ==
    LET n == Len(zs)
        all == {zs[i] : i \in DOMAIN zs}
    IN  CASE function = "sign" -> {Whole(Sign(zs[1].a))}
          [] function = "min" -> {Extreme(all, Less)}
          [] function = "max" -> {Extreme(all, LAMBDA z, w : Less(w, z))}
          [] function = "median" -> Medians(zs)
          [] function \in RoundingFunctions ->
                IF n = 1 THEN Roundings(function, zs[1], 0)
                ELSE IF IsWhole(zs[2]) THEN Roundings(function, zs[1], WholeOf(zs[2])) ELSE {}
          [] function = "geomean" -> IF \E z \in all : z.a < 0 THEN {} ELSE Roots(Total(zs, Times), n)
          [] function = "harmean" ->
                IF \E z \in all : z.a <= 0 THEN {}
                ELSE Ratios(Whole(n), Total([i \in 1 .. n |-> Quot(zs[i].d, zs[i].a)], Plus))
          [] function = "variance" -> Spread(zs, n, n)
          [] function = "stdevp" -> UNION {RealSquareRoots(v) : v \in Spread(zs, n, n)}
          [] function = "stdev" -> UNION {RealSquareRoots(v) : v \in Spread(zs, n, n - 1)}
          [] function = "complex" -> {Num(zs[1].a * zs[2].d, zs[2].a * zs[1].d, zs[1].d * zs[2].d, TRUE)}
          [] OTHER -> {}

RealFunctions ==
    {"sign", "min", "max", "median", "complex", "geomean", "harmean", "variance", "stdevp", "stdev"}
        \cup RoundingFunctions

OfFraction(r) == Quot(r.numerator, r.denominator)
Converted(z, from, to) ==
    LET canonical == Plus(Times(z, OfFraction(from.scale)), OfFraction(from.offset))
    IN  IF from.pi # to.pi THEN {}
        ELSE Ratios(Plus(canonical, Opposite(OfFraction(to.offset))), OfFraction(to.scale))

CallMeaning(tree, zs) ==
    LET function == tree.name
        z == zs[1]
    IN  CASE function = "sqrt" -> SquareRoots(z)
          [] function = "cbrt" -> Roots(z, 3)
          [] function = "root" -> IF IsWhole(zs[2]) THEN Roots(z, WholeOf(zs[2])) ELSE {}
          [] function = "pow" -> Powers(z, zs[2])
          [] function \in {"sum", "mean"} ->
                Ratios(Total(zs, Plus), Whole(IF function = "mean" THEN Len(zs) ELSE 1))
          [] function = "product" -> {Total(zs, Times)}
          [] function = "re" -> {Quot(z.a, z.d)}
          [] function = "im" -> {Quot(z.b, z.d)}
          [] function = "conj" -> {[z EXCEPT !.b = -@]}
          [] function = "abs" -> {Quot(g, z.d) : g \in {n \in 0 .. Magnitude(z.a) + Magnitude(z.b) : n * n = z.a * z.a + z.b * z.b}}
          [] OTHER ->
                IF \E i \in DOMAIN zs : zs[i].typed THEN {}
                ELSE IF function = "convert" THEN Converted(z, From(tree), To(tree))
                ELSE IF function \in RealFunctions THEN OfFractions(function, zs)
                ELSE IF function \in IntegerFunctions /\ \A i \in DOMAIN zs : IsWhole(zs[i])
                THEN {Whole(n) : n \in OfIntegers(function, WholeOf(z), WholeOf(zs[Len(zs)]))}
                ELSE {}

-----------------------------------------------------------------------------
(* Trees.                                                                  *)

\* Every digit counts for the place it has before or after the point.
NumeralMeaning(text) ==
    LET marks == {i \in DOMAIN text : text[i] = "E"}
        points == {i \in DOMAIN text : text[i] \in Separators}
        end == IF marks = {} THEN Len(text) ELSE (CHOOSE i \in marks : TRUE) - 1
        point == IF points = {} THEN end + 1 ELSE CHOOSE i \in points : TRUE
        after == IF point > end THEN 0 ELSE end - point
        mantissa == Loop(end, 0, LAMBDA n, i : IF i = point THEN n ELSE 10 * n + DigitValue[text[i]])
        tail == Len(text) - end
        exponent == Loop(tail, 0, LAMBDA n, i :
                        IF text[end + i] \in Digits THEN 10 * n + DigitValue[text[end + i]] ELSE n)
        shift == (IF "-" \in {text[i] : i \in DOMAIN text} THEN -exponent ELSE exponent) - after
    IN  IF shift < 0 THEN Quot(mantissa, 10 ^ (-shift)) ELSE Whole(mantissa * 10 ^ shift)

ValueMeaning(v) ==
    CASE IsExactReal(v) -> {OfFraction(v.exact)}
      [] v.kind = "COMPLEX_RATIONAL" ->
            {Num(v.re.numerator * v.im.denominator, v.im.numerator * v.re.denominator,
                 v.re.denominator * v.im.denominator, TRUE)}
      [] v.kind = "DECIMAL" -> {Quot(v.number.coefficient * 10 ^ Larger(-v.number.scale, 0),
                                     10 ^ Larger(v.number.scale, 0))}
      [] OTHER -> {}

BinaryMeaning(operation, z, w) ==
    CASE operation = "+" -> {Plus(z, w)}
      [] operation = "-" -> {Plus(z, Opposite(w))}
      [] operation = "*" -> {Times(z, w)}
      [] operation = "/" -> Ratios(z, w)
      [] operation = "^" -> Powers(z, w)

NodeMeaning(tree, zs) ==
    CASE tree.kind = "UNARY" -> {IF tree.name = "-" THEN Opposite(zs[1]) ELSE zs[1]}
      [] tree.kind = "POSTFIX" /\ tree.name # "!" -> {Repeated(zs[1], IF tree.name = "squared" THEN 2 ELSE 3)}
      [] tree.kind = "POSTFIX" /\ tree.name = "!" ->
            IF IsWhole(zs[1]) THEN {Whole(n) : n \in OfIntegers("factorial", WholeOf(zs[1]), 0)} ELSE {}
      [] tree.kind = "BINARY" -> BinaryMeaning(tree.name, zs[1], zs[2])
      [] tree.kind = "CALL" -> IF zs = <<>> THEN {} ELSE CallMeaning(tree, zs)

RECURSIVE TreeMeaning(_, _)
TreeMeaning(tree, answer) ==
    LET choices == Loop(Len(tree.parts), {<<>>}, LAMBDA chosen, i :
                       {Append(zs, z) : zs \in chosen, z \in TreeMeaning(tree.parts[i], answer)})
    IN  CASE tree.kind = "NUMBER" -> {NumeralMeaning(tree.text)}
          [] tree.kind = "VARIABLE" -> ValueMeaning(tree.value)
          [] tree.kind = "ANSWER" -> ValueMeaning(answer)
          [] tree.kind = "IMAGINARY" -> {Num(0, 1, 1, TRUE)}
          [] tree.kind = "CONSTANT" -> {}
          [] OTHER -> UNION {NodeMeaning(tree, zs) : zs \in choices}
=============================================================================
