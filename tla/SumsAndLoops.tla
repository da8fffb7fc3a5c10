----------------------------- MODULE SumsAndLoops -----------------------------
(***************************************************************************)
(* What the proofs about several modules rest on.                          *)
(*                                                                         *)
(* Loops: a recursive function of its counter that stays within a set of   *)
(* states runs to its end.  A loop of the code is such a function.         *)
(*                                                                         *)
(* Sums: facts about SumFunctionOnSet, the sum of f[x] for x in a finite   *)
(* set: what it is for the empty set, that any element may be taken out of *)
(* it, that it only depends on the values added and not on how they are    *)
(* numbered, and how it compares with its parts.  What a session owns and  *)
(* what a store retains are such sums.                                     *)
(*                                                                         *)
(* Both are defined by recursion.  A minimal counterexample among a set    *)
(* takes the place of induction.                                           *)
(***************************************************************************)
EXTENDS Integers, Functions, FiniteSetTheorems, WellFoundedInduction, TLAPS

-----------------------------------------------------------------------------
(* Loops *)

(* What holds at first, and of the next number if of a number, holds throughout. *)
LEMMA Induction ==
  ASSUME NEW n \in Nat, NEW C, 0 \in C, \A k \in 0 .. n - 1 : k \in C => k + 1 \in C
  PROVE  \A k \in 0 .. n : k \in C
<1> DEFINE T == {k \in Nat : k <= n /\ k \notin C}
<1> SUFFICES ASSUME T # {} PROVE FALSE
  OBVIOUS
<1>1. T \subseteq Nat
  OBVIOUS
<1>2. PICK m \in T : \A k \in T : ~ (<<k, m>> \in OpToRel(<, Nat))
  <2> HIDE DEF T
  <2> QED
    BY <1>1, WFMin, NatLessThanWellFounded
<1>3. m \in Nat /\ m <= n /\ m \notin C /\ m # 0
  BY <1>2
<1>4. m - 1 \in Nat /\ m - 1 \in 0 .. n - 1
  BY <1>3
<1>5. <<m - 1, m>> \in OpToRel(<, Nat)
  BY <1>3, <1>4 DEF OpToRel
<1>6. m - 1 \in C
  <2>1. m - 1 \notin T
    BY <1>2, <1>5, Zenon
  <2> QED
    BY <1>3, <1>4, <2>1
<1> QED
  BY <1>3, <1>4, <1>6

(* What the body of a loop does in each of its n turns, and the course it takes. *)
Turns(n, R) == [1 .. n -> [R -> R]]
Course(f, n, R, start, T) ==
  /\ f \in [0 .. n -> R] /\ f[0] = start
  /\ \A i \in 1 .. n : f[i] = T[i][f[i - 1]]

(* A loop whose turns stay within R runs to its end. *)
LEMMA Iterates ==
  ASSUME NEW n \in Nat, NEW R, NEW start \in R, NEW T \in Turns(n, R)
  PROVE  \E f : Course(f, n, R, start, T)
<1> DEFINE C == {k \in 0 .. n : \E f : Course(f, k, R, start, T)}
<1>1. 0 \in C
  <2>1. Course([i \in 0 .. 0 |-> start], 0, R, start, T)
    BY DEF Course
  <2> QED
    BY <2>1
<1>2. ASSUME NEW k \in 0 .. n - 1, k \in C PROVE k + 1 \in C
  <2>1. PICK f : Course(f, k, R, start, T)
    BY <1>2
  <2> DEFINE g == [i \in 0 .. k + 1 |-> IF i = k + 1 THEN T[k + 1][f[k]] ELSE f[i]]
  <2>2. f[k] \in R /\ k + 1 \in 1 .. n /\ k \in Nat /\ k + 1 \in 0 .. n
    BY <2>1 DEF Course
  <2>3. T[k + 1][f[k]] \in R
    BY <2>2 DEF Turns
  <2>4. g \in [0 .. k + 1 -> R] /\ g[0] = start
    BY <2>1, <2>2, <2>3 DEF Course
  <2>5. ASSUME NEW i \in 1 .. k + 1 PROVE g[i] = T[i][g[i - 1]]
    <3>1. i - 1 \in 0 .. k /\ i \in 0 .. k + 1 /\ i - 1 \in 0 .. k + 1 /\ i - 1 # k + 1
      BY <2>2
    <3>2. g[i - 1] = f[i - 1]
      BY <3>1
    <3>3. CASE i = k + 1
      <4>1. g[i] = T[k + 1][f[k]] /\ i - 1 = k
        BY <3>1, <3>3, <2>2
      <4> QED
        BY <3>2, <3>3, <4>1
    <3>4. CASE i # k + 1
      <4>1. i \in 1 .. k /\ g[i] = f[i]
        BY <2>2, <3>1, <3>4
      <4> QED
        BY <2>1, <3>2, <4>1 DEF Course
    <3> QED
      BY <3>3, <3>4
  <2>6. Course(g, k + 1, R, start, T)
    <3> HIDE DEF g
    <3> QED
      BY <2>4, <2>5 DEF Course
  <2> QED
    BY <2>2, <2>6
<1>3. n \in C
  <2> HIDE DEF C
  <2> QED
    BY <1>1, <1>2, Induction
<1> QED
  BY <1>3

-----------------------------------------------------------------------------
(* Sums *)

(* h adds up f over every subset of S. *)
Any(s) == CHOOSE x \in s : TRUE
Adds(h, f, S) ==
  h = [s \in SUBSET S |-> IF s = {} THEN 0 ELSE f[Any(s)] + h[s \ {Any(s)}]]

(* A family that holds each subset of S all of whose proper subsets it holds
   holds every subset of S. *)
LEMMA SubsetInduction ==
  ASSUME NEW S, IsFiniteSet(S), NEW C,
         \A s \in SUBSET S : (\A t \in SUBSET s : t # s => t \in C) => s \in C
  PROVE  \A s \in SUBSET S : s \in C
<1> DEFINE T == {s \in SUBSET S : s \notin C}
<1> SUFFICES ASSUME T # {} PROVE FALSE
  OBVIOUS
<1>1. IsWellFoundedOn(StrictSubsetOrdering(S), SUBSET S)
  <2>1. FiniteSubsetsOf(S) = SUBSET S
    BY FS_FiniteSubsetsOfFinite
  <2>2. IsWellFoundedOn(StrictSubsetOrdering(S), FiniteSubsetsOf(S))
    BY FS_StrictSubsetOrderingWellFounded
  <2> QED
    BY <2>1, <2>2, Zenon
<1>2. T \subseteq SUBSET S
  OBVIOUS
<1>3. PICK s \in T : \A t \in T : ~ (<<t, s>> \in StrictSubsetOrdering(S))
  <2> HIDE DEF T
  <2> QED
    BY <1>1, <1>2, WFMin
<1>4. s \in SUBSET S /\ s \notin C
  BY <1>3
<1>5. ASSUME NEW t \in SUBSET s, t # s PROVE t \in C
  <2>1. <<t, s>> \in StrictSubsetOrdering(S)
    BY <1>4, <1>5 DEF StrictSubsetOrdering
  <2>2. t \notin T
    BY <1>3, <2>1
  <2> QED
    BY <1>4, <2>2
<1> QED
  BY <1>4, <1>5

(* Any member of a set that has one. *)
LEMMA AnyMember ==
  ASSUME NEW s, s # {}
  PROVE  Any(s) \in s
  BY DEF Any

(* What the library's operator stands for. *)
LEMMA SumUnfolded ==
  ASSUME NEW f, NEW S
  PROVE  SumFunctionOnSet(f, S) = (CHOOSE h : Adds(h, f, S))[S]
  BY Zenon DEF SumFunctionOnSet, FoldFunctionOnSet, MapThenFoldSet, Adds, Any

(* What adds up f gives 0 for the empty set. *)
LEMMA AddsNone ==
  ASSUME NEW f, NEW S, NEW h, Adds(h, f, S)
  PROVE  h[{}] = 0
  BY DEF Adds

(* It takes one member out of a set that has any. *)
LEMMA AddsOne ==
  ASSUME NEW f, NEW S, NEW h, Adds(h, f, S), NEW s, s \subseteq S, s # {}
  PROVE  h[s] = f[Any(s)] + h[s \ {Any(s)}]
<1>1. \A t \in SUBSET S : h[t] = IF t = {} THEN 0 ELSE f[Any(t)] + h[t \ {Any(t)}]
  BY Zenon DEF Adds
<1> QED
  BY <1>1

(* The same for all subsets of a part of S at once. *)
LEMMA AddsParts ==
  ASSUME NEW f, NEW S, NEW h, Adds(h, f, S), NEW T, T \subseteq S
  PROVE  \A s \in SUBSET T : s # {} => h[s] = f[Any(s)] + h[s \ {Any(s)}]
<1>1. \A t \in SUBSET S : h[t] = IF t = {} THEN 0 ELSE f[Any(t)] + h[t \ {Any(t)}]
  BY Zenon DEF Adds
<1> QED
  BY <1>1

(* All that add up f agree where they are defined. *)
LEMMA AddsUnique ==
  ASSUME NEW f, NEW S, IsFiniteSet(S), NEW T, T \subseteq S,
         NEW g, Adds(g, f, S), NEW h, Adds(h, f, T)
  PROVE  \A s \in SUBSET T : g[s] = h[s]
<1> DEFINE C == {s \in SUBSET T : g[s] = h[s]}
<1>1. IsFiniteSet(T)
  BY FS_Subset
<1>2. g[{}] = 0 /\ h[{}] = 0
  BY AddsNone
<1>3. \A s \in SUBSET T : s # {} => g[s] = f[Any(s)] + g[s \ {Any(s)}]
  BY AddsParts
<1>4. \A s \in SUBSET T : s # {} => h[s] = f[Any(s)] + h[s \ {Any(s)}]
  BY AddsParts, SMTT(60)
<1>5. ASSUME NEW s \in SUBSET T, \A t \in SUBSET s : t # s => t \in C PROVE s \in C
  <2>1. CASE s = {}
    BY <1>2, <2>1
  <2>2. CASE s # {}
    <3>1. Any(s) \in s
      BY <2>2, AnyMember
    <3>2. s \ {Any(s)} \in SUBSET s /\ s \ {Any(s)} # s
      BY <3>1
    <3>3. g[s \ {Any(s)}] = h[s \ {Any(s)}]
      BY <1>5, <3>2
    <3> QED
      BY <1>3, <1>4, <2>2, <3>3
  <2> QED
    BY <2>1, <2>2
<1>6. \A s \in SUBSET T : s \in C
  <2> HIDE DEF C
  <2> QED
    BY <1>1, <1>5, SubsetInduction
<1> QED
  BY <1>6

(* Every finite set can be added up. *)
LEMMA AddsExists ==
  ASSUME NEW f, NEW S, IsFiniteSet(S)
  PROVE  \E h : Adds(h, f, S)
<1> DEFINE C == {s \in SUBSET S : \E h : Adds(h, f, s)}
           G(t) == CHOOSE h : Adds(h, f, t)
           R(t) == t \ {Any(t)}
<1>1. ASSUME NEW s \in SUBSET S, \A t \in SUBSET s : t # s => t \in C PROVE s \in C
  <2> DEFINE h == [t \in SUBSET s |-> IF t = {} THEN 0 ELSE f[Any(t)] + G(R(t))[R(t)]]
  <2>1. ASSUME NEW t \in SUBSET s, t # s PROVE Adds(G(t), f, t)
    <3>1. \E g : Adds(g, f, t)
      BY <1>1, <2>1
    <3> QED
      BY <3>1, Zenon
  <2>2. ASSUME NEW t \in SUBSET s, t # {} PROVE R(t) \in SUBSET s /\ R(t) # s /\ R(t) \in SUBSET t
    <3>1. Any(t) \in t
      BY <2>2, AnyMember
    <3> QED
      BY <3>1
  <2>3. ASSUME NEW t \in SUBSET s, t # s PROVE h[t] = G(t)[t]
    <3>1. CASE t = {}
      <4>1. G(t)[{}] = 0
        <5> HIDE DEF G
        <5> QED
          BY <2>1, <2>3, AddsNone
      <4> QED
        BY <3>1, <4>1
    <3>2. CASE t # {}
      <4>1. R(t) \in SUBSET s /\ R(t) # s /\ R(t) \in SUBSET t /\ t \in SUBSET t
        BY <2>2, <3>2
      <4>2. Adds(G(t), f, t) /\ Adds(G(R(t)), f, R(t))
        BY <2>1, <2>3, <4>1
      <4>3. G(t)[t] = f[Any(t)] + G(t)[R(t)]
        <5> HIDE DEF G
        <5> QED
          BY <3>2, <4>1, <4>2, AddsOne
      <4>4. G(t)[R(t)] = G(R(t))[R(t)]
        <5>1. IsFiniteSet(t)
          BY FS_Subset
        <5> HIDE DEF G, R
        <5> QED
          BY <4>1, <4>2, <5>1, AddsUnique
      <4>5. h[t] = f[Any(t)] + G(R(t))[R(t)]
        BY <3>2
      <4> QED
        BY <4>3, <4>4, <4>5
    <3> QED
      BY <3>1, <3>2
  <2>4. ASSUME NEW t \in SUBSET s, t # {} PROVE h[R(t)] = G(R(t))[R(t)]
    <3>1. R(t) \in SUBSET s /\ R(t) # s
      BY <2>2, <2>4
    <3> HIDE DEF h, G, R
    <3> QED
      BY <2>3, <3>1
  <2>5. h = [t \in SUBSET s |-> IF t = {} THEN 0 ELSE f[Any(t)] + h[R(t)]]
    <3>1. \A t \in SUBSET s : h[t] = IF t = {} THEN 0 ELSE f[Any(t)] + G(R(t))[R(t)]
      <4> HIDE DEF G, R
      <4> QED
        OBVIOUS
    <3>2. \A t \in SUBSET s : h[t] = IF t = {} THEN 0 ELSE f[Any(t)] + h[R(t)]
      <4> HIDE DEF h, G, R
      <4> QED
        BY <2>4, <3>1
    <3>3. h = [t \in SUBSET s |-> h[t]]
      OBVIOUS
    <3> HIDE DEF h, G, R
    <3> QED
      BY <3>2, <3>3
  <2>6. Adds(h, f, s)
    BY <2>5, Zenon DEF Adds
  <2> QED
    BY <2>6, Zenon
<1>2. S \in C
  <2> HIDE DEF C
  <2>1. \A s \in SUBSET S : s \in C
    BY <1>1, SubsetInduction
  <2> QED
    BY <2>1
<1> QED
  BY <1>2

(* The library's operator adds up every subset of S the same way. *)
LEMMA SumOfParts ==
  ASSUME NEW f, NEW S, IsFiniteSet(S), NEW T, T \subseteq S, NEW h, Adds(h, f, S)
  PROVE  h[T] = SumFunctionOnSet(f, T)
<1>1. IsFiniteSet(T)
  BY FS_Subset
<1>2. PICK g : g = CHOOSE k : Adds(k, f, T)
  OBVIOUS
<1>3. Adds(g, f, T)
  <2>1. \E k : Adds(k, f, T)
    BY <1>1, AddsExists
  <2> QED
    BY <1>2, <2>1, Zenon
<1>4. SumFunctionOnSet(f, T) = g[T]
  BY <1>2, SumUnfolded, Zenon
<1>5. \A s \in SUBSET T : h[s] = g[s]
  BY <1>3, AddsUnique, Z3
<1> QED
  BY <1>4, <1>5

-----------------------------------------------------------------------------
(* The sum of nothing is 0. *)
LEMMA SumEmpty ==
  ASSUME NEW f
  PROVE  SumFunctionOnSet(f, {}) = 0
<1>1. IsFiniteSet({})
  BY FS_EmptySet
<1>2. PICK h : Adds(h, f, {})
  BY <1>1, AddsExists
<1>3. h[{}] = 0
  BY <1>2, AddsNone
<1>4. h[{}] = SumFunctionOnSet(f, {})
  BY <1>1, <1>2, SumOfParts
<1> QED
  BY <1>3, <1>4

(* The step of the recursion. *)
LEMMA SumAny ==
  ASSUME NEW f, NEW S, IsFiniteSet(S), S # {}
  PROVE  SumFunctionOnSet(f, S) = f[Any(S)] + SumFunctionOnSet(f, S \ {Any(S)})
<1>1. PICK h : Adds(h, f, S)
  BY AddsExists
<1>2. h[S] = f[Any(S)] + h[S \ {Any(S)}]
  BY <1>1, AddsOne
<1>3. h[S] = SumFunctionOnSet(f, S) /\ h[S \ {Any(S)}] = SumFunctionOnSet(f, S \ {Any(S)})
  BY <1>1, SumOfParts
<1> QED
  BY <1>2, <1>3

(* A sum of integers is an integer. *)
LEMMA SumInt ==
  ASSUME NEW f, NEW S, IsFiniteSet(S), \A x \in S : f[x] \in Int
  PROVE  SumFunctionOnSet(f, S) \in Int
<1> DEFINE C == {s \in SUBSET S : SumFunctionOnSet(f, s) \in Int}
<1>1. ASSUME NEW s \in SUBSET S, \A t \in SUBSET s : t # s => t \in C PROVE s \in C
  <2>1. CASE s = {}
    BY <2>1, SumEmpty
  <2>2. CASE s # {}
    <3>1. Any(s) \in s
      BY <2>2, AnyMember
    <3>2. s \ {Any(s)} \in C
      <4>1. s \ {Any(s)} \in SUBSET s /\ s \ {Any(s)} # s
        BY <3>1
      <4> HIDE DEF C
      <4> QED
        BY <1>1, <4>1
    <3>3. SumFunctionOnSet(f, s) = f[Any(s)] + SumFunctionOnSet(f, s \ {Any(s)})
      <4>1. IsFiniteSet(s)
        BY FS_Subset
      <4> QED
        BY <2>2, <4>1, SumAny
    <3> QED
      BY <3>1, <3>2, <3>3
  <2> QED
    BY <2>1, <2>2
<1>2. \A s \in SUBSET S : s \in C
  <2> HIDE DEF C
  <2> QED
    BY <1>1, SubsetInduction
<1> QED
  BY <1>2

(* A sum of natural numbers is a natural number. *)
LEMMA SumNat ==
  ASSUME NEW f, NEW S, IsFiniteSet(S), \A x \in S : f[x] \in Nat
  PROVE  SumFunctionOnSet(f, S) \in Nat
<1> DEFINE C == {s \in SUBSET S : SumFunctionOnSet(f, s) \in Nat}
<1>1. ASSUME NEW s \in SUBSET S, \A t \in SUBSET s : t # s => t \in C PROVE s \in C
  <2>1. CASE s = {}
    BY <2>1, SumEmpty
  <2>2. CASE s # {}
    <3>1. Any(s) \in s
      BY <2>2, AnyMember
    <3>2. s \ {Any(s)} \in C
      <4>1. s \ {Any(s)} \in SUBSET s /\ s \ {Any(s)} # s
        BY <3>1
      <4> HIDE DEF C
      <4> QED
        BY <1>1, <4>1
    <3>3. SumFunctionOnSet(f, s) = f[Any(s)] + SumFunctionOnSet(f, s \ {Any(s)})
      <4>1. IsFiniteSet(s)
        BY FS_Subset
      <4> QED
        BY <2>2, <4>1, SumAny
    <3> QED
      BY <3>1, <3>2, <3>3
  <2> QED
    BY <2>1, <2>2
<1>2. \A s \in SUBSET S : s \in C
  <2> HIDE DEF C
  <2> QED
    BY <1>1, SubsetInduction
<1> QED
  BY <1>2

(* Any member may be taken out first. *)
LEMMA SumWithout ==
  ASSUME NEW f, NEW S, IsFiniteSet(S), \A x \in S : f[x] \in Int, NEW a \in S
  PROVE  SumFunctionOnSet(f, S) = f[a] + SumFunctionOnSet(f, S \ {a})
<1> DEFINE C == {s \in SUBSET S :
                   \A x \in s : SumFunctionOnSet(f, s) = f[x] + SumFunctionOnSet(f, s \ {x})}
<1>1. ASSUME NEW s \in SUBSET S, \A t \in SUBSET s : t # s => t \in C PROVE s \in C
  <2>1. IsFiniteSet(s)
    BY FS_Subset
  <2>2. ASSUME NEW x \in s
        PROVE  SumFunctionOnSet(f, s) = f[x] + SumFunctionOnSet(f, s \ {x})
    <3>1. PICK y : y = Any(s)
      OBVIOUS
    <3>2. y \in s /\ SumFunctionOnSet(f, s) = f[y] + SumFunctionOnSet(f, s \ {y})
      BY <2>1, <2>2, <3>1, AnyMember, SumAny
    <3>3. CASE x = y
      BY <3>2, <3>3
    <3>4. CASE x # y
      <4>1. s \ {y} \in C /\ s \ {x} \in C
        <5>1. /\ s \ {y} \in SUBSET s /\ s \ {y} # s
              /\ s \ {x} \in SUBSET s /\ s \ {x} # s
          BY <3>2
        <5> HIDE DEF C
        <5> QED
          BY <1>1, <5>1
      <4>2. SumFunctionOnSet(f, s \ {y}) = f[x] + SumFunctionOnSet(f, (s \ {y}) \ {x})
        BY <3>4, <4>1
      <4>3. SumFunctionOnSet(f, s \ {x}) = f[y] + SumFunctionOnSet(f, (s \ {x}) \ {y})
        BY <3>2, <3>4, <4>1
      <4>4. (s \ {x}) \ {y} = (s \ {y}) \ {x}
        OBVIOUS
      <4>5. SumFunctionOnSet(f, (s \ {x}) \ {y}) \in Int
        <5>1. IsFiniteSet((s \ {x}) \ {y}) /\ \A z \in (s \ {x}) \ {y} : f[z] \in Int
          BY <2>1, FS_Subset
        <5> QED
          BY <5>1, SumInt
      <4>6. f[x] \in Int /\ f[y] \in Int
        BY <3>2
      <4>7. PICK r : r = SumFunctionOnSet(f, (s \ {y}) \ {x})
        OBVIOUS
      <4>8. /\ SumFunctionOnSet(f, s) = f[y] + (f[x] + r)
            /\ SumFunctionOnSet(f, s \ {x}) = f[y] + r
            /\ r \in Int
        BY <3>2, <4>2, <4>3, <4>4, <4>5, <4>7, Zenon
      <4> QED
        BY <4>6, <4>8
    <3> QED
      BY <3>3, <3>4
  <2> QED
    BY <2>2
<1>2. \A s \in SUBSET S : s \in C
  <2> HIDE DEF C
  <2> QED
    BY <1>1, SubsetInduction
<1> QED
  BY <1>2

(* A sum depends on the values added only. *)
LEMMA SumSame ==
  ASSUME NEW f, NEW g, NEW S, IsFiniteSet(S), \A x \in S : f[x] = g[x]
  PROVE  SumFunctionOnSet(f, S) = SumFunctionOnSet(g, S)
<1> DEFINE C == {s \in SUBSET S : SumFunctionOnSet(f, s) = SumFunctionOnSet(g, s)}
<1>1. ASSUME NEW s \in SUBSET S, \A t \in SUBSET s : t # s => t \in C PROVE s \in C
  <2>1. CASE s = {}
    BY <2>1, SumEmpty
  <2>2. CASE s # {}
    <3>1. Any(s) \in s /\ f[Any(s)] = g[Any(s)]
      BY <2>2, AnyMember
    <3>2. s \ {Any(s)} \in C
      <4>1. s \ {Any(s)} \in SUBSET s /\ s \ {Any(s)} # s
        BY <3>1
      <4> HIDE DEF C
      <4> QED
        BY <1>1, <4>1
    <3>3. IsFiniteSet(s)
      BY FS_Subset
    <3>4. /\ SumFunctionOnSet(f, s) = f[Any(s)] + SumFunctionOnSet(f, s \ {Any(s)})
          /\ SumFunctionOnSet(g, s) = g[Any(s)] + SumFunctionOnSet(g, s \ {Any(s)})
      BY <2>2, <3>3, SumAny
    <3> QED
      BY <3>1, <3>2, <3>4
  <2> QED
    BY <2>1, <2>2
<1>2. \A s \in SUBSET S : s \in C
  <2> HIDE DEF C
  <2> QED
    BY <1>1, SubsetInduction
<1> QED
  BY <1>2

(* Changing one value changes the sum by the difference. *)
LEMMA SumChanged ==
  ASSUME NEW f, NEW g, NEW S, IsFiniteSet(S), NEW a \in S,
         \A x \in S : f[x] \in Int, g[a] \in Int, \A x \in S \ {a} : g[x] = f[x]
  PROVE  SumFunctionOnSet(g, S) = SumFunctionOnSet(f, S) - f[a] + g[a]
<1>1. IsFiniteSet(S \ {a})
  BY FS_Subset
<1>2. SumFunctionOnSet(f, S) = f[a] + SumFunctionOnSet(f, S \ {a})
  BY SumWithout
<1>3. SumFunctionOnSet(g, S) = g[a] + SumFunctionOnSet(g, S \ {a})
  <2>1. \A x \in S : g[x] \in Int
    OBVIOUS
  <2> QED
    BY <2>1, SumWithout
<1>4. SumFunctionOnSet(g, S \ {a}) = SumFunctionOnSet(f, S \ {a})
  BY <1>1, SumSame
<1>5. SumFunctionOnSet(f, S \ {a}) \in Int
  BY <1>1, SumInt
<1> QED
  BY <1>2, <1>3, <1>4, <1>5

(* A sum of nothing but zeros is 0. *)
LEMMA SumZero ==
  ASSUME NEW f, NEW S, IsFiniteSet(S), \A x \in S : f[x] = 0
  PROVE  SumFunctionOnSet(f, S) = 0
<1> DEFINE C == {s \in SUBSET S : SumFunctionOnSet(f, s) = 0}
<1>1. ASSUME NEW s \in SUBSET S, \A t \in SUBSET s : t # s => t \in C PROVE s \in C
  <2>1. CASE s = {}
    BY <2>1, SumEmpty
  <2>2. CASE s # {}
    <3>1. Any(s) \in s /\ f[Any(s)] = 0
      BY <2>2, AnyMember
    <3>2. s \ {Any(s)} \in C
      <4>1. s \ {Any(s)} \in SUBSET s /\ s \ {Any(s)} # s
        BY <3>1
      <4> HIDE DEF C
      <4> QED
        BY <1>1, <4>1
    <3>3. IsFiniteSet(s)
      BY FS_Subset
    <3>4. SumFunctionOnSet(f, s) = f[Any(s)] + SumFunctionOnSet(f, s \ {Any(s)})
      BY <2>2, <3>3, SumAny
    <3> QED
      BY <3>1, <3>2, <3>4
  <2> QED
    BY <2>1, <2>2
<1>2. \A s \in SUBSET S : s \in C
  <2> HIDE DEF C
  <2> QED
    BY <1>1, SubsetInduction
<1> QED
  BY <1>2

(* The sum over a part is at most the sum over the whole, and with smaller
   values it is smaller. *)
LEMMA SumAtMost ==
  ASSUME NEW f, NEW g, NEW S, IsFiniteSet(S), NEW T, T \subseteq S,
         \A x \in S : f[x] \in Nat, \A x \in T : g[x] \in Nat /\ g[x] <= f[x]
  PROVE  SumFunctionOnSet(g, T) <= SumFunctionOnSet(f, S)
<1> DEFINE C == {s \in SUBSET S : SumFunctionOnSet(g, s \cap T) <= SumFunctionOnSet(f, s)}
<1>1. ASSUME NEW s \in SUBSET S, \A t \in SUBSET s : t # s => t \in C PROVE s \in C
  <2>1. CASE s = {}
    <3>1. s \cap T = {}
      BY <2>1
    <3> QED
      BY <2>1, <3>1, SumEmpty
  <2>2. CASE s # {}
    <3>1. PICK a : a = Any(s)
      OBVIOUS
    <3>2. a \in s /\ f[a] \in Nat
      BY <2>2, <3>1, AnyMember
    <3>3. SumFunctionOnSet(g, (s \ {a}) \cap T) <= SumFunctionOnSet(f, s \ {a})
      <4>1. s \ {a} \in C
        <5>1. s \ {a} \in SUBSET s /\ s \ {a} # s
          BY <3>2
        <5> HIDE DEF C
        <5> QED
          BY <1>1, <5>1
      <4> QED
        BY <4>1
    <3>4. IsFiniteSet(s) /\ IsFiniteSet(s \cap T) /\ IsFiniteSet(s \ {a}) /\ IsFiniteSet((s \ {a}) \cap T)
      BY FS_Subset
    <3>5. SumFunctionOnSet(f, s) = f[a] + SumFunctionOnSet(f, s \ {a})
      BY <2>2, <3>1, <3>4, SumAny
    <3>6. SumFunctionOnSet(f, s \ {a}) \in Nat
      BY <3>4, SumNat
    <3>7. SumFunctionOnSet(g, (s \ {a}) \cap T) \in Nat
      BY <3>4, SumNat
    <3>8. CASE a \in T
      <4>1. a \in s \cap T /\ \A x \in s \cap T : g[x] \in Int
        BY <3>2, <3>8
      <4>2. SumFunctionOnSet(g, s \cap T) = g[a] + SumFunctionOnSet(g, (s \cap T) \ {a})
        BY <3>4, <4>1, SumWithout
      <4>3. (s \cap T) \ {a} = (s \ {a}) \cap T
        OBVIOUS
      <4>4. SumFunctionOnSet(g, s \cap T) = g[a] + SumFunctionOnSet(g, (s \ {a}) \cap T)
        BY <4>2, <4>3
      <4>5. g[a] \in Nat /\ g[a] <= f[a]
        BY <3>8
      <4> QED
        BY <3>2, <3>3, <3>5, <3>6, <3>7, <4>4, <4>5
    <3>9. CASE a \notin T
      <4>1. s \cap T = (s \ {a}) \cap T
        BY <3>9
      <4>2. SumFunctionOnSet(g, s \cap T) = SumFunctionOnSet(g, (s \ {a}) \cap T)
        BY <4>1, Zenon
      <4> QED
        BY <3>2, <3>3, <3>5, <3>6, <3>7, <4>2
    <3> QED
      BY <3>8, <3>9
  <2> QED
    BY <2>1, <2>2
<1>2. \A s \in SUBSET S : s \in C
  <2> HIDE DEF C
  <2> QED
    BY <1>1, SubsetInduction
<1>3. SumFunctionOnSet(g, S \cap T) <= SumFunctionOnSet(f, S)
  BY <1>2
<1>4. S \cap T = T
  OBVIOUS
<1> QED
  BY <1>3, <1>4

(* Numbering the values one later does not change their sum. *)
LEMMA SumShifted ==
  ASSUME NEW f, NEW g, NEW S, IsFiniteSet(S), S \subseteq Nat,
         \A x \in S : f[x + 1] \in Int /\ g[x] = f[x + 1]
  PROVE  SumFunctionOnSet(g, S) = SumFunctionOnSet(f, {x + 1 : x \in S})
<1> DEFINE Next(s) == {x + 1 : x \in s}
           C == {s \in SUBSET S : /\ SumFunctionOnSet(g, s) = SumFunctionOnSet(f, Next(s))
                                  /\ IsFiniteSet(Next(s))}
<1>1. ASSUME NEW s \in SUBSET S, \A t \in SUBSET s : t # s => t \in C PROVE s \in C
  <2>1. CASE s = {}
    <3>1. Next(s) = {}
      BY <2>1
    <3> QED
      BY <2>1, <3>1, SumEmpty, FS_EmptySet
  <2>2. CASE s # {}
    <3>1. PICK a : a = Any(s)
      OBVIOUS
    <3>2. a \in s /\ a \in S /\ a \in Nat
      BY <2>2, <3>1, AnyMember
    <3>3. /\ SumFunctionOnSet(g, s \ {a}) = SumFunctionOnSet(f, Next(s \ {a}))
          /\ IsFiniteSet(Next(s \ {a}))
      <4>1. s \ {a} \in C
        <5>1. s \ {a} \in SUBSET s /\ s \ {a} # s
          BY <3>2
        <5> HIDE DEF C
        <5> QED
          BY <1>1, <5>1
      <4> QED
        BY <4>1
    <3>4. Next(s) = Next(s \ {a}) \cup {a + 1} /\ Next(s) \ {a + 1} = Next(s \ {a})
      <4>1. \A x \in s : x \in Nat
        OBVIOUS
      <4>2. Next(s) = Next(s \ {a}) \cup {a + 1}
        BY <3>2, <4>1
      <4>3. \A y \in Next(s \ {a}) : y # a + 1
        BY <3>2, <4>1
      <4> HIDE DEF Next
      <4> QED
        BY <4>2, <4>3
    <3>5. IsFiniteSet(Next(s)) /\ a + 1 \in Next(s)
      <4> HIDE DEF Next
      <4>1. IsFiniteSet(Next(s \ {a}) \cup {a + 1})
        BY <3>3, FS_AddElement
      <4>2. a + 1 \in Next(s \ {a}) \cup {a + 1}
        OBVIOUS
      <4> QED
        BY <3>4, <4>1, <4>2, Zenon
    <3>6. \A y \in Next(s) : f[y] \in Int
      OBVIOUS
    <3>7. SumFunctionOnSet(f, Next(s)) = f[a + 1] + SumFunctionOnSet(f, Next(s \ {a}))
      <4> HIDE DEF Next
      <4>1. SumFunctionOnSet(f, Next(s)) = f[a + 1] + SumFunctionOnSet(f, Next(s) \ {a + 1})
        BY <3>5, <3>6, SumWithout
      <4> QED
        BY <3>4, <4>1, Zenon
    <3>8. SumFunctionOnSet(g, s) = g[a] + SumFunctionOnSet(g, s \ {a})
      <4>1. IsFiniteSet(s)
        BY FS_Subset
      <4> QED
        BY <2>2, <3>1, <4>1, SumAny
    <3>9. SumFunctionOnSet(g, s) = SumFunctionOnSet(f, Next(s))
      <4> HIDE DEF Next
      <4> QED
        BY <3>2, <3>3, <3>7, <3>8
    <3> QED
      <4> HIDE DEF Next
      <4> QED
        BY <3>5, <3>9
  <2> QED
    BY <2>1, <2>2
<1>2. \A s \in SUBSET S : s \in C
  <2> HIDE DEF C
  <2> QED
    BY <1>1, SubsetInduction
<1> QED
  BY <1>2

(* A sum is that of a part and that of the rest. *)
LEMMA SumSplit ==
  ASSUME NEW f, NEW S, IsFiniteSet(S), \A x \in S : f[x] \in Int, NEW T, T \subseteq S
  PROVE  SumFunctionOnSet(f, S) = SumFunctionOnSet(f, T) + SumFunctionOnSet(f, S \ T)
<1> DEFINE C == {t \in SUBSET T : SumFunctionOnSet(f, S) =
                                    SumFunctionOnSet(f, t) + SumFunctionOnSet(f, S \ t)}
<1>1. IsFiniteSet(T)
  BY FS_Subset
<1>2. ASSUME NEW t \in SUBSET T, \A u \in SUBSET t : u # t => u \in C PROVE t \in C
  <2>1. SumFunctionOnSet(f, S) \in Int
    BY SumInt
  <2>2. CASE t = {}
    <3>1. S \ t = S
      BY <2>2
    <3> QED
      BY <2>1, <2>2, <3>1, SumEmpty
  <2>3. CASE t # {}
    <3>1. PICK a : a = Any(t)
      OBVIOUS
    <3>2. a \in t /\ a \in S /\ f[a] \in Int
      BY <2>3, <3>1, AnyMember
    <3>3. t \ {a} \in C
      <4>1. t \ {a} \in SUBSET t /\ t \ {a} # t
        BY <3>2
      <4> HIDE DEF C
      <4> QED
        BY <1>2, <4>1
    <3>4. PICK r : r = S \ (t \ {a})
      OBVIOUS
    <3>5. a \in r /\ r \subseteq S /\ r \ {a} = S \ t
      BY <3>2, <3>4
    <3>6. IsFiniteSet(r) /\ IsFiniteSet(t) /\ IsFiniteSet(S \ t) /\ IsFiniteSet(t \ {a})
      BY <3>5, FS_Subset
    <3>7. SumFunctionOnSet(f, r) = f[a] + SumFunctionOnSet(f, r \ {a})
      BY <3>5, <3>6, SumWithout
    <3>8. SumFunctionOnSet(f, t) = f[a] + SumFunctionOnSet(f, t \ {a})
      BY <3>2, <3>6, SumWithout
    <3>9. SumFunctionOnSet(f, t \ {a}) \in Int /\ SumFunctionOnSet(f, S \ t) \in Int
      BY <3>6, SumInt
    <3>10. SumFunctionOnSet(f, S) = SumFunctionOnSet(f, t \ {a}) + SumFunctionOnSet(f, r)
      BY <3>3, <3>4
    <3>11. SumFunctionOnSet(f, r) = f[a] + SumFunctionOnSet(f, S \ t)
      BY <3>5, <3>7
    <3>12. SumFunctionOnSet(f, S) = SumFunctionOnSet(f, t) + SumFunctionOnSet(f, S \ t)
      BY <3>2, <3>8, <3>9, <3>10, <3>11
    <3> QED
      BY <3>12
  <2> QED
    BY <2>2, <2>3
<1>3. \A t \in SUBSET T : t \in C
  <2> HIDE DEF C
  <2> QED
    BY <1>1, <1>2, SubsetInduction
<1> QED
  BY <1>3

(* Counting what lies outside a part as 0 gives the sum of the part. *)
LEMMA SumMasked ==
  ASSUME NEW f, NEW g, NEW S, IsFiniteSet(S), \A x \in S : f[x] \in Int,
         NEW T, T \subseteq S, \A x \in S : g[x] = IF x \in T THEN f[x] ELSE 0
  PROVE  SumFunctionOnSet(g, S) = SumFunctionOnSet(f, T)
<1>1. IsFiniteSet(T) /\ IsFiniteSet(S \ T)
  BY FS_Subset
<1>2. \A x \in S : g[x] \in Int
  OBVIOUS
<1>3. SumFunctionOnSet(g, S) = SumFunctionOnSet(g, T) + SumFunctionOnSet(g, S \ T)
  BY <1>2, SumSplit
<1>4. SumFunctionOnSet(g, S \ T) = 0
  <2>1. \A x \in S \ T : g[x] = 0
    OBVIOUS
  <2> QED
    BY <1>1, <2>1, SumZero
<1>5. SumFunctionOnSet(g, T) = SumFunctionOnSet(f, T)
  <2>1. \A x \in T : g[x] = f[x]
    OBVIOUS
  <2> QED
    BY <1>1, <2>1, SumSame
<1>6. SumFunctionOnSet(f, T) \in Int
  BY <1>1, SumInt
<1> QED
  BY <1>3, <1>4, <1>5, <1>6
===============================================================================
