------------------------------ MODULE RootSearch ------------------------------
(***************************************************************************)
(* The search for one root between two points (root.c), and the scan of an *)
(* interval for several of them (scan.c), which samples a grid, looks      *)
(* between samples of one sign and hands every bracket to the search.      *)
(*                                                                         *)
(* The function is unknown: a position that is sampled for the first time  *)
(* takes any value, and keeps it (numerical.h asks for a deterministic     *)
(* callback); a sample at twice the precision takes any value.  Positions  *)
(* are integers, and the bounds so far apart that there is always another  *)
(* between two of them, as there is among the fractions of the code.       *)
(* Reports and failures that leave no result are left out.                 *)
(***************************************************************************)
EXTENDS Calls

(* What a search is given (NumForgeRootOptions, NumForgeRootScanOptions). *)
CONSTANTS
  Values,          \* what a real sample may be, 0 is one that was rounded
  Tolerance,       \* residual_tolerance
  WidthTolerance,  \* x_tolerance
  MaxIterations, MaxEvaluations,  \* of one search
  Segments, MaxRoots, MaxTotal,   \* of a scan; MaxTotal bounds its samples
  Step,            \* distance of two samples of the grid
  Width,           \* distance of the bounds of a search without a scan
  Room             \* how far apart bounds are that can be moved n times more

ASSUME RootAssumption ==
  /\ Values \subseteq Int
  /\ Tolerance \in Nat \ {0} /\ WidthTolerance \in Nat \ {0}
  /\ MaxIterations \in Nat \ {0}
  /\ MaxEvaluations \in Nat /\ MaxEvaluations >= 4
  /\ Segments \in Nat \ {0} /\ MaxRoots \in Nat \ {0} /\ MaxTotal \in Nat \ {0}
  /\ Step \in Nat \ {0} /\ Width \in Nat \ {0}
  /\ Room \in [0 .. MaxIterations -> Nat] /\ Room[0] >= 2
  /\ \A n \in 1 .. MaxIterations : Room[n] >= 4 * Room[n - 1]
  /\ Width >= Room[MaxIterations] /\ Step >= 4 * Room[MaxIterations]

VARIABLES
  f,       \* the samples taken so far at the working precision
  search,  \* the search in progress or finished, or NoSearch
  scan     \* the scan in progress or finished, or NoScan

roots == <<f, search, scan>>

Gap == [real |-> FALSE, exact |-> FALSE, value |-> 0]
ExactZero == [real |-> TRUE, exact |-> TRUE, value |-> 0]
Samples == {Gap, ExactZero} \cup [real : {TRUE}, exact : {FALSE}, value : Values]
Sampled(x) == IF x \in DOMAIN f THEN {f[x]} ELSE Samples
Remembered(g, x, s) == [p \in DOMAIN g \cup {x} |-> IF p = x THEN s ELSE g[p]]
SignOf(s) == Sign(s.value)

NoSearch == [kind |-> "NONE"]
NoScan == [stage |-> "none"]
RootsInit == f = <<>> /\ search = NoSearch /\ scan = NoScan

-----------------------------------------------------------------------------
(* numforge_root_solve_strategy.                                           *)

NewSearch(lower, upper, strategy) ==
  [kind |-> "ITERATION_LIMIT", stage |-> "bounds", lower |-> lower, upper |-> upper,
   left |-> 0, right |-> 0, initial |-> 0, iterations |-> 0, evaluations |-> 0,
   strategy |-> strategy, x |-> lower, exact |-> FALSE]

Ended(s, kind) == [s EXCEPT !.kind = kind, !.stage = "done"]
At(s, x, exact) == [Ended(s, "FOUND") EXCEPT !.x = x, !.exact = exact]

(* found: a root that is not exact needs a continuous function and a second
   sample, which must be small, improve on both bounds and keep its sign. *)
Verified(s, sample, again) ==
  /\ Magnitude(again.value) <= Tolerance
  /\ SignOf(sample) # 0 => SignOf(again) = SignOf(sample)
  /\ Magnitude(again.value) < s.initial
Found(s, x, sample) ==
  IF sample.exact THEN {At(s, x, TRUE)}
  ELSE {Ended(s, "DOMAIN_UNVERIFIED")} \cup
       IF s.evaluations >= MaxEvaluations THEN {Ended(s, "ITERATION_LIMIT")}
       ELSE {LET checked == [s EXCEPT !.evaluations = @ + 1]
             IN  IF ~again.real THEN Ended(checked, "DOMAIN_GAP")
                 ELSE IF Verified(s, sample, again) THEN At(checked, x, FALSE)
                 ELSE Ended(checked, "PRECISION_LIMIT") : again \in Samples}

Searching(stage) == search # NoSearch /\ search.stage = stage

(* Both bounds, unless the lower one decides. *)
SampleBounds ==
  /\ Searching("bounds")
  /\ \E a \in Sampled(search.lower) :
       LET once == [search EXCEPT !.evaluations = 1, !.left = SignOf(a)]
       IN  IF ~a.real \/ a.exact
           THEN /\ f' = Remembered(f, search.lower, a)
                /\ search' \in IF a.real THEN Found(once, search.lower, a)
                               ELSE {Ended(once, "DOMAIN_GAP")}
           ELSE \E b \in Sampled(search.upper) :
                  LET both == [once EXCEPT !.evaluations = 2, !.right = SignOf(b),
                                           !.initial = IF Magnitude(b.value) < Magnitude(a.value)
                                                       THEN Magnitude(b.value) ELSE Magnitude(a.value)]
                      bracketed == both.left # 0 /\ both.right # 0 /\ both.left # both.right
                  IN  /\ f' = Remembered(Remembered(f, search.lower, a), search.upper, b)
                      /\ search' \in IF ~b.real THEN {Ended(both, "DOMAIN_GAP")}
                                     ELSE IF b.exact THEN Found(both, search.upper, b)
                                     ELSE IF bracketed THEN {[both EXCEPT !.stage = "halving"]}
                                     ELSE {Ended(both, "NOT_BRACKETED")}
  /\ UNCHANGED scan

(* Mutant: nothing is reserved for the quarters and the verification. *)
MayIterate_Unreserved ==
  /\ search.iterations < MaxIterations
  /\ search.evaluations < MaxEvaluations

MayIterate ==
  /\ search.iterations < MaxIterations
  /\ search.evaluations < MaxEvaluations - 3
Exhausted ==
  /\ Searching("halving")
  /\ ~MayIterate
  /\ search' = Ended(search, "ITERATION_LIMIT")
  /\ UNCHANGED <<f, scan>>

Middle(a, b) == (a + b) \div 2
(* A strategy proposes points strictly inside the bracket, or none.  The search
   does not look: the midpoint is inside, and the one strategy there is compares
   its rounded proposal with both bounds (numeric_root_brent.c:258-263). *)
Proposed ==
  {Middle(search.lower, search.upper)} \cup
  IF search.strategy
  THEN {Middle(search.lower, Middle(search.lower, search.upper)),
        Middle(Middle(search.lower, search.upper), search.upper)}
  ELSE {}

Acceptable(sample) ==
  /\ search.upper - search.lower <= WidthTolerance
  /\ Magnitude(sample.value) <= Tolerance
  /\ Magnitude(sample.value) < search.initial

(* An ordinary sample: the root, or a bound of the next bracket. *)
Halve ==
  /\ Searching("halving") /\ MayIterate
  /\ \E x \in Proposed : \E sample \in Sampled(x) :
       LET probed == [search EXCEPT !.iterations = @ + 1, !.evaluations = @ + 1]
           left == SignOf(sample) = search.left
       IN  /\ sample.real => sample.exact \/ sample.value # 0
           /\ f' = Remembered(f, x, sample)
           /\ search' \in IF ~sample.real THEN {Ended(probed, "DOMAIN_GAP")}
                          ELSE IF sample.exact \/ Acceptable(sample) THEN Found(probed, x, sample)
                          ELSE IF left THEN {[probed EXCEPT !.lower = x, !.left = SignOf(sample)]}
                          ELSE {[probed EXCEPT !.upper = x, !.right = SignOf(sample)]}
  /\ UNCHANGED scan

(* A sample that was rounded to zero tells no side: two more, half-way to the
   bounds, must have opposite signs and become the bracket. *)
Quarter ==
  /\ Searching("halving") /\ MayIterate
  /\ \E x \in Proposed : \E sample \in Sampled(x) :
       LET low == Middle(search.lower, x)
           high == Middle(x, search.upper)
           probed == [search EXCEPT !.iterations = @ + 1, !.evaluations = @ + 3]
       IN  /\ sample.real /\ ~sample.exact /\ sample.value = 0
           /\ \E a \in Sampled(low), b \in Sampled(high) :
                LET apart == SignOf(a) # 0 /\ SignOf(b) # 0 /\ SignOf(a) # SignOf(b)
                IN  /\ f' = Remembered(Remembered(Remembered(f, x, sample), low, a), high, b)
                    /\ search' \in IF ~a.real \/ ~b.real THEN {Ended(probed, "DOMAIN_GAP")}
                                   ELSE IF ~apart THEN {Ended(probed, "PRECISION_LIMIT")}
                                   ELSE IF Acceptable(sample) THEN Found(probed, x, sample)
                                   ELSE {[probed EXCEPT !.lower = low, !.left = SignOf(a),
                                                        !.upper = high, !.right = SignOf(b)]}
  /\ UNCHANGED scan

Solve ==
  /\ search = NoSearch /\ scan = NoScan
  /\ \E strategy \in BOOLEAN : search' = NewSearch(0, Width, strategy)
  /\ UNCHANGED <<f, scan>>

-----------------------------------------------------------------------------
(* numforge_roots_scan.                                                    *)

Grid(i) == i * Step

StartScan ==
  /\ search = NoSearch /\ scan = NoScan
  /\ scan' = [stage |-> "grid", i |-> 0, brackets |-> <<>>, tried |-> {}, roots |-> <<>>,
              evaluations |-> 0, stop |-> "FINISHED"]
  /\ UNCHANGED <<f, search>>

Scanning(stage) == scan # NoScan /\ scan.stage = stage /\ search = NoSearch
Stopped(s, reason) == [s EXCEPT !.stage = "done", !.stop = reason]

(* scan_append: sorted, without a second root at the same position. *)
Listed(s, root) ==
  IF Len(s.roots) >= MaxRoots THEN [s EXCEPT !.stop = "ROOT_LIMIT"]
  ELSE LET before == {k \in DOMAIN s.roots : s.roots[k].x <= root.x}
           p == IF before = {} THEN 0 ELSE CHOOSE k \in before : \A j \in before : j <= k
           grown == SubSeq(s.roots, 1, p) \o <<root>> \o SubSeq(s.roots, p + 1, Len(s.roots))
       IN  IF p # 0 /\ s.roots[p].x = root.x THEN s
           ELSE [s EXCEPT !.roots = grown,
                          !.stop = IF Len(grown) = MaxRoots THEN "ROOT_LIMIT" ELSE @]
Exactly(x) == [x |-> x, exact |-> TRUE, lower |-> x, upper |-> x]

(* One sample more, if the scan may take it, and what follows from it. *)
Take(x, After(_, _)) ==
  IF scan.evaluations >= MaxTotal
  THEN scan' = Stopped(scan, "EVALUATION_LIMIT") /\ UNCHANGED f
  ELSE \E sample \in Sampled(x) :
         /\ f' = Remembered(f, x, sample)
         /\ scan' = After([scan EXCEPT !.evaluations = @ + 1], sample)

(* The bracket that ends at the grid's sample i, if there is one.  A sample
   that was rounded to zero is looked over, to the one before it. *)
Opposite(a, b) == a.real /\ b.real /\ SignOf(a) # 0 /\ SignOf(b) # 0 /\ SignOf(a) # SignOf(b)
BracketBefore(i, sample) ==
  LET previous == f[Grid(i - 1)]
  IN  IF i = 0 THEN <<>>
      ELSE IF Opposite(previous, sample) THEN <<[lower |-> Grid(i - 1), upper |-> Grid(i)]>>
      ELSE IF i >= 2 /\ previous.real /\ ~previous.exact /\ SignOf(previous) = 0
              /\ Opposite(f[Grid(i - 2)], sample)
      THEN <<[lower |-> Grid(i - 2), upper |-> Grid(i)]>>
      ELSE <<>>
SameSign(a, b) == a.real /\ b.real /\ SignOf(a) # 0 /\ SignOf(a) = SignOf(b)

AfterGrid(s, sample) ==
  LET brackets == BracketBefore(s.i, sample)
  IN  IF sample.exact THEN [Listed(s, Exactly(Grid(s.i))) EXCEPT !.stage = "advance"]
      ELSE IF brackets # <<>> THEN [s EXCEPT !.stage = "brackets", !.brackets = brackets]
      ELSE IF s.i > 0 /\ SameSign(f[Grid(s.i - 1)], sample) THEN [s EXCEPT !.stage = "middle"]
      ELSE [s EXCEPT !.stage = "advance"]
SampleGrid ==
  /\ Scanning("grid")
  /\ Take(Grid(scan.i), AfterGrid)
  /\ UNCHANGED search

(* scan_cell: between two samples of the same sign, the middle and then the
   vertex of a parabola through the three of them, wherever that may lie. *)
Around(x) == <<[lower |-> Grid(scan.i - 1), upper |-> x], [lower |-> x, upper |-> Grid(scan.i)]>>
AfterExtra(x, next, s, sample) ==
  IF ~sample.real THEN [s EXCEPT !.stage = "advance"]
  ELSE IF sample.exact THEN [Listed(s, Exactly(x)) EXCEPT !.stage = "advance"]
  ELSE IF Opposite(f[Grid(scan.i)], sample) THEN [s EXCEPT !.stage = "brackets", !.brackets = Around(x)]
  ELSE [s EXCEPT !.stage = next]
CellMiddle == Middle(Grid(scan.i - 1), Grid(scan.i))

SampleMiddle ==
  /\ Scanning("middle")
  /\ \E next \in {"vertex", "advance"} :
       Take(CellMiddle, LAMBDA s, sample : AfterExtra(CellMiddle, next, s, sample))
  /\ UNCHANGED search
SampleVertex ==
  /\ Scanning("vertex")
  /\ \E x \in {Middle(Grid(scan.i - 1), CellMiddle), Middle(CellMiddle, Grid(scan.i))} :
       Take(x, LAMBDA s, sample : AfterExtra(x, "advance", s, sample))
  /\ UNCHANGED search

(* scan_bracket: a search must find its whole allowance of samples left. *)
StartSearch ==
  /\ Scanning("brackets")
  /\ IF scan.brackets = <<>>
     THEN scan' = [scan EXCEPT !.stage = "advance"] /\ UNCHANGED search
     ELSE LET bracket == Head(scan.brackets)
              rest == [scan EXCEPT !.brackets = Tail(@)]
          IN  IF scan.stop # "FINISHED" THEN scan' = rest /\ UNCHANGED search
              ELSE IF MaxEvaluations > MaxTotal - scan.evaluations
              THEN scan' = [rest EXCEPT !.stop = "EVALUATION_LIMIT"] /\ UNCHANGED search
              ELSE /\ scan' = [rest EXCEPT !.tried = @ \cup {bracket}]
                   /\ search' = NewSearch(bracket.lower, bracket.upper, FALSE)
  /\ UNCHANGED f

EndSearch ==
  /\ scan # NoScan
  /\ Searching("done")
  /\ LET counted == [scan EXCEPT !.evaluations = @ + search.evaluations]
         root == [x |-> search.x, exact |-> search.exact,
                  lower |-> search.lower, upper |-> search.upper]
     IN  scan' = IF search.kind = "FOUND" THEN Listed(counted, root) ELSE counted
  /\ search' = NoSearch
  /\ UNCHANGED f

(* The next sample of the grid, or the end. *)
Advance ==
  /\ Scanning("advance")
  /\ scan' = IF scan.stop = "FINISHED" /\ scan.i < Segments
             THEN [scan EXCEPT !.stage = "grid", !.i = @ + 1]
             ELSE [scan EXCEPT !.stage = "done"]
  /\ UNCHANGED <<f, search>>

Answer ==
  /\ \/ scan = NoScan /\ Searching("done")
     \/ Scanning("done")
  /\ f' = <<>> /\ search' = NoSearch /\ scan' = NoScan

RootsNext ==
  \/ Solve \/ SampleBounds \/ Exhausted \/ Halve \/ Quarter
  \/ StartScan \/ SampleGrid \/ SampleMiddle \/ SampleVertex
  \/ StartSearch \/ EndSearch \/ Advance \/ Answer

RootsSpec == RootsInit /\ [][RootsNext]_roots

-----------------------------------------------------------------------------
Known(x, exact) == x \in DOMAIN f /\ f[x].real /\ f[x].exact = exact
SignChange(a, b) == a < b /\ Known(a, FALSE) /\ Known(b, FALSE) /\ Opposite(f[a], f[b])
IsRoot(root) ==
  IF root.exact THEN Known(root.x, TRUE)
  ELSE SignChange(root.lower, root.upper) /\ root.lower < root.x /\ root.x < root.upper

(* A search never loses the change of sign it was given: its bounds keep
   opposite signs while samples replace one or both of them, and what it finds
   is an exact zero or lies between them.  The samples that are set aside for
   the quarters and the verification keep it within its allowance (root.c:142). *)
SearchKeepsBracket ==
  search # NoSearch =>
    /\ search.evaluations <= MaxEvaluations
    /\ search.stage = "halving" => SignChange(search.lower, search.upper)
    /\ search.kind = "FOUND" => IsRoot(search)

(* A scan lists different roots in their order, stays within its allowances
   although a search spends samples of its own, and hands every change of sign
   of its grid to a search unless it says that it was stopped (scan.c:102). *)
ScanIsThorough ==
  scan # NoScan =>
    /\ Len(scan.roots) <= MaxRoots
    /\ scan.evaluations <= MaxTotal
    /\ \A k \in DOMAIN scan.roots :
         /\ IsRoot(scan.roots[k])
         /\ k > 1 => scan.roots[k - 1].x < scan.roots[k].x
    /\ scan.stage = "done" /\ scan.stop = "FINISHED" =>
         \A i, j \in 0 .. Segments :
           /\ SignChange(Grid(i), Grid(j))
           /\ \/ j = i + 1
              \/ j = i + 2 /\ Known(Grid(i + 1), FALSE) /\ SignOf(f[Grid(i + 1)]) = 0
           => [lower |-> Grid(i), upper |-> Grid(j)] \in scan.tried

(* The roots that the library reports, by a search or by a scan (numerical.h:307
   "Roots are sorted by coordinate and only exactly equal coordinates are
   deduplicated", numerical.h:174 "Counts are bounded by the supplied limits"). *)
RootsBracketed == SearchKeepsBracket /\ ScanIsThorough
================================================================================
