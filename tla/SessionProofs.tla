----------------------------- MODULE SessionProofs -----------------------------
(***************************************************************************)
(* Theorems about Session and SessionResponses for every set of inputs,    *)
(* every capacity and every limit.  The inductive invariant says, besides  *)
(* types, that a kept preview is what the next confirmation of its text    *)
(* would compute, that the history draws from the random stream in order,  *)
(* what the marks of the session tell about its latest mutation, and that  *)
(* the bytes reserved are the sum of what the session owns.                *)
(***************************************************************************)
EXTENDS SessionResponses, SumsAndLoops, SequenceTheorems

(* What evaluating in under ctx may give: fields that in does not depend on
   are 0. *)
Results(in, ctx) ==
  [of : {in},
   answer : IF in.ans THEN Nat ELSE {0},
   variable : IF in.reads # NoName THEN Nat ELSE {0},
   draw : IF in.random THEN Nat ELSE {0},
   scale : {IF in.exact THEN 0 ELSE ctx.scale}]

AnyResult == [of : Inputs, answer : Nat, variable : Nat, draw : Nat, scale : Nat]

Entries ==
  {e \in [expression : Inputs, value : AnyResult, context : Contexts,
          revision : Revisions] : e.value \in Results(e.expression, e.context)}

Previews ==
  [expression : Inputs, value : AnyResult, context : Contexts, start : Nat, next : Nat]

Typed ==
  /\ revision \in 0 .. MaxRevision
  /\ conversionRevision \in 0 .. MaxRevision
  /\ conversionClear \in 0 .. conversionRevision
  /\ released \in BOOLEAN /\ seeded \in BOOLEAN
  /\ lifecycle \in [revision : 0 .. revision,
                    action : {"none", "clear", "reset", "release"}]
  /\ deletion \in [revision : 0 .. revision, name : Names \cup {NoName}]
  /\ random \in Nat

Held ==
  /\ history \in Seq(Entries) /\ Len(history) <= HistoryCapacity
  /\ conversions \in Seq(Entries) /\ Len(conversions) <= ConversionCapacity
  /\ detached \in Entries \cup {None}
  /\ variables \in [Names -> Entries \cup {None}]
  /\ preview \in Previews \cup {None}
  /\ history # <<>> => Last(history).revision <= revision

(* A history or a preview is kept by a seeded generator only. *)
Seeded == history # <<>> \/ preview # None => seeded

(* A kept preview has the value its text has now. *)
PreviewCurrent ==
  preview # None =>
    /\ preview.value = Value(preview.expression, preview.context, random)
    /\ preview.start = random
    /\ preview.next = Advanced(preview.expression, random)

(* The latest mutation can be read off the marks the session keeps. *)
Confirmed ==
  /\ history # <<>>
  /\ Last(history).revision > deletion.revision
  /\ Last(history).revision > lifecycle.revision
Confirmation == [op |-> "confirm", revision |-> Last(history).revision,
                 input |-> Last(history).expression, context |-> Last(history).context]
Deletion == [op |-> "delete", revision |-> deletion.revision, name |-> deletion.name]
Lifecycle == [op |-> "lifecycle", revision |-> lifecycle.revision,
              action |-> lifecycle.action]

LatestKnown ==
  /\ \/ latest = None
     \/ Confirmed /\ latest = Confirmation
     \/ deletion.revision > 0 /\ latest = Deletion
     \/ lifecycle.revision > 0 /\ latest = Lifecycle
  /\ Confirmed => latest = Confirmation
  /\ deletion.revision = revision /\ revision > 0 => latest = Deletion
  /\ lifecycle.revision = revision /\ revision > 0 => latest = Lifecycle

WithinLimit == reserved \in 0 .. ByteLimit

IInv ==
  /\ Typed
  /\ Held
  /\ Seeded
  /\ PreviewCurrent
  /\ DrawsOnce
  /\ LatestKnown
  /\ ReservedIsOwned
  /\ WithinLimit

-----------------------------------------------------------------------------
(* Entries and settings *)

(* An entry is not None and carries a value of its own text. *)
LEMMA EntryKnown ==
  ASSUME NEW e \in Entries
  PROVE  /\ e # None
         /\ e.expression \in Inputs /\ e.context \in Contexts
         /\ e.revision \in Revisions /\ e.revision \in Nat /\ e.revision > 0
         /\ e.value \in Results(e.expression, e.context) /\ e.value \in AnyResult
         /\ e.value.of = e.expression
         /\ e.expression.size \in Nat
<1>1. e \in [expression : Inputs, value : AnyResult, context : Contexts, revision : Revisions]
  BY DEF Entries
<1>2. e # None
  <2>1. DOMAIN e = {"expression", "value", "context", "revision"}
    BY <1>1
  <2>2. DOMAIN None = {"none"}
    BY DEF None
  <2>3. "expression" \notin {"none"}
    OBVIOUS
  <2> QED
    BY <2>1, <2>2, <2>3
<1>3. e.value \in Results(e.expression, e.context)
  BY DEF Entries
<1>4. e.value.of = e.expression
  BY <1>3 DEF Results
<1>5. e.expression \in InputRecord
  BY <1>1, SessionAssumption DEF SessionAssumption
<1> QED
  BY <1>1, <1>2, <1>3, <1>4, <1>5, SessionAssumption
  DEF SessionAssumption, Revisions, InputRecord

(* A preview is not None. *)
LEMMA PreviewKnown ==
  ASSUME NEW p \in Previews
  PROVE  /\ p # None
         /\ p.expression \in Inputs /\ p.context \in Contexts
         /\ p.start \in Nat /\ p.next \in Nat /\ p.value \in AnyResult
<1>1. DOMAIN p = {"expression", "value", "context", "start", "next"}
  BY DEF Previews
<1>2. DOMAIN None = {"none"}
  BY DEF None
<1>3. "expression" \notin {"none"}
  OBVIOUS
<1>4. p # None
  BY <1>1, <1>2, <1>3
<1> QED
  BY <1>4 DEF Previews

(* What is retained for an entry is its size and its display. *)
LEMMA EntrySize ==
  ASSUME NEW e \in Entries
  PROVE  /\ ValueBytes(e) = e.expression.size /\ EntryBytes(e) = e.expression.size + 1
         /\ ValueBytes(e) \in Nat /\ EntryBytes(e) \in Nat
  BY EntryKnown DEF ValueBytes, EntryBytes

(* A new value has the fields of its text. *)
LEMMA ValueTyped ==
  ASSUME Typed, Held, NEW in \in Inputs, NEW ctx \in Contexts, NEW d \in Nat
  PROVE  /\ Value(in, ctx, d) \in Results(in, ctx)
         /\ Value(in, ctx, d) \in AnyResult
<1>1. in \in InputRecord /\ ctx.scale \in Nat
  BY SessionAssumption DEF SessionAssumption, Contexts
<1>2. Answer \in Entries \cup {None}
  BY DEF Answer, Held, Last
<1>3. Origin(Answer) \in Nat
  BY <1>2, EntryKnown DEF Origin
<1>4. in.reads # NoName => Origin(variables[in.reads]) \in Nat
  <2> SUFFICES ASSUME in.reads # NoName PROVE Origin(variables[in.reads]) \in Nat
    OBVIOUS
  <2>1. in.reads \in Names
    BY <1>1 DEF InputRecord
  <2>2. variables[in.reads] \in Entries \cup {None}
    BY <2>1 DEF Held
  <2> QED
    BY <2>2, EntryKnown DEF Origin
<1> DEFINE a == IF in.ans THEN Origin(Answer) ELSE 0
           v == IF in.reads # NoName THEN Origin(variables[in.reads]) ELSE 0
           w == IF in.random THEN d ELSE 0
           c == IF in.exact THEN 0 ELSE ctx.scale
<1>5. /\ a \in (IF in.ans THEN Nat ELSE {0}) /\ a \in Nat
      /\ v \in (IF in.reads # NoName THEN Nat ELSE {0}) /\ v \in Nat
      /\ w \in (IF in.random THEN Nat ELSE {0}) /\ w \in Nat
      /\ c \in Nat
  BY <1>1, <1>3, <1>4
<1>6. Value(in, ctx, d) = [of |-> in, answer |-> a, variable |-> v, draw |-> w, scale |-> c]
  BY Zenon DEF Value
<1>7. Results(in, ctx) =
        [of : {in}, answer : IF in.ans THEN Nat ELSE {0},
         variable : IF in.reads # NoName THEN Nat ELSE {0},
         draw : IF in.random THEN Nat ELSE {0}, scale : {c}]
  BY Zenon DEF Results
<1> HIDE DEF a, v, w, c
<1> QED
  BY <1>5, <1>6, <1>7 DEF AnyResult

(* What was computed for one setting serves another that matches. *)
LEMMA ResultsMatch ==
  ASSUME NEW in, NEW c, NEW d, in.exact \/ c.scale = d.scale
  PROVE  Results(in, c) = Results(in, d)
  BY DEF Results

-----------------------------------------------------------------------------
(* Sizes *)

(* What a history owns is the sum of its entries. *)
LEMMA BytesAsSum ==
  ASSUME NEW s
  PROVE  BytesOf(s) =
           SumFunctionOnSet([k \in 1 .. Len(s) |-> EntryBytes(s[k])], 1 .. Len(s))
<1> DEFINE S == 1 .. Len(s)
           f == [k \in S |-> EntryBytes(s[k])]
           B(h) == [t \in SUBSET S |->
                      IF t = {} THEN 0 ELSE EntryBytes(s[Any(t)]) + h[t \ {Any(t)}]]
<1>1. BytesOf(s) = (CHOOSE h : h = B(h))[S]
  BY Zenon DEF BytesOf, MapThenSumSet, MapThenFoldSet, Any
<1>2. ASSUME NEW h PROVE h = B(h) <=> Adds(h, f, S)
  <2>1. \A t \in SUBSET S : t # {} => f[Any(t)] = EntryBytes(s[Any(t)])
    <3>1. \A t \in SUBSET S : t # {} => Any(t) \in S
      BY AnyMember
    <3> QED
      BY <3>1
  <2>2. B(h) = [t \in SUBSET S |-> IF t = {} THEN 0 ELSE f[Any(t)] + h[t \ {Any(t)}]]
    <3> HIDE DEF f
    <3> QED
      BY <2>1
  <2> HIDE DEF f, B
  <2> QED
    BY <2>2 DEF Adds
<1>3. (CHOOSE h : h = B(h)) = (CHOOSE h : Adds(h, f, S))
  <2> HIDE DEF f, B, S
  <2> QED
    BY <1>2, Zenon
<1> QED
  BY <1>1, <1>3, SumUnfolded

(* What the variables own, as a sum. *)
VariableBytes(v) == SumFunctionOnSet([n \in Names |-> ValueBytes(v[n])], Names)

(* MapThenSumSet over the names is that sum. *)
LEMMA VariablesAsSum ==
  ASSUME NEW v
  PROVE  MapThenSumSet(LAMBDA n : ValueBytes(v[n]), Names) = VariableBytes(v)
<1> DEFINE f == [n \in Names |-> ValueBytes(v[n])]
           B(h) == [t \in SUBSET Names |->
                      IF t = {} THEN 0 ELSE ValueBytes(v[Any(t)]) + h[t \ {Any(t)}]]
<1>1. MapThenSumSet(LAMBDA n : ValueBytes(v[n]), Names) = (CHOOSE h : h = B(h))[Names]
  BY Zenon DEF MapThenSumSet, MapThenFoldSet, Any
<1>2. ASSUME NEW h PROVE h = B(h) <=> Adds(h, f, Names)
  <2>1. \A t \in SUBSET Names : t # {} => f[Any(t)] = ValueBytes(v[Any(t)])
    <3>1. \A t \in SUBSET Names : t # {} => Any(t) \in Names
      BY AnyMember
    <3> QED
      BY <3>1
  <2>2. B(h) = [t \in SUBSET Names |-> IF t = {} THEN 0 ELSE f[Any(t)] + h[t \ {Any(t)}]]
    <3> HIDE DEF f
    <3> QED
      BY <2>1
  <2> HIDE DEF f, B
  <2> QED
    BY <2>2 DEF Adds
<1>3. (CHOOSE h : h = B(h)) = (CHOOSE h : Adds(h, f, Names))
  <2> HIDE DEF f, B
  <2> QED
    BY <1>2, Zenon
<1> QED
  BY <1>1, <1>3, SumUnfolded DEF VariableBytes

(* Nothing is owned by an empty history. *)
LEMMA BytesNone == BytesOf(<<>>) = 0
<1>1. 1 .. Len(<<>>) = {}
  OBVIOUS
<1>2. BytesOf(<<>>) = SumFunctionOnSet([k \in 1 .. Len(<<>>) |-> EntryBytes(<<>>[k])], {})
  BY <1>1, BytesAsSum, Zenon
<1> QED
  BY <1>2, SumEmpty, Zenon

(* What a history owns is not negative. *)
LEMMA BytesNatural ==
  ASSUME NEW s \in Seq(Entries)
  PROVE  BytesOf(s) \in Nat
<1> DEFINE S == 1 .. Len(s)
           f == [k \in S |-> EntryBytes(s[k])]
<1>1. IsFiniteSet(S)
  BY FS_Interval
<1>2. \A k \in S : f[k] \in Nat
  BY EntrySize
<1>3. SumFunctionOnSet(f, S) \in Nat
  <2> HIDE DEF f, S
  <2> QED
    BY <1>1, <1>2, SumNat
<1> QED
  BY <1>3, BytesAsSum

(* Appending an entry adds what it owns. *)
LEMMA BytesAppended ==
  ASSUME NEW s \in Seq(Entries), NEW e \in Entries
  PROVE  BytesOf(Append(s, e)) = BytesOf(s) + EntryBytes(e)
<1> DEFINE t == Append(s, e)
           S == 1 .. Len(s)
           T == 1 .. Len(t)
           f == [k \in S |-> EntryBytes(s[k])]
           g == [k \in T |-> EntryBytes(t[k])]
           m == Len(t)
<1>1. /\ t \in Seq(Entries) /\ Len(t) = Len(s) + 1 /\ t[Len(t)] = e
      /\ \A k \in S : t[k] = s[k]
  OBVIOUS
<1>2. m \in T /\ T \ {m} = S
  BY <1>1
<1>3. IsFiniteSet(T) /\ IsFiniteSet(S)
  <2>1. Len(s) \in Int /\ Len(t) \in Int
    BY <1>1
  <2> QED
    BY <2>1, FS_Interval
<1>4. \A k \in T : g[k] \in Nat
  <2>1. \A k \in T : t[k] \in Entries
    BY <1>1
  <2> HIDE DEF t
  <2> QED
    BY <2>1, EntrySize
<1>5. \A k \in S : g[k] = f[k]
  BY <1>1, <1>2
<1>6. g[m] = EntryBytes(e)
  BY <1>1, <1>2
<1> HIDE DEF f, g, S, T, m, t
<1>7. SumFunctionOnSet(g, T) = g[m] + SumFunctionOnSet(g, T \ {m})
  BY <1>2, <1>3, <1>4, SumWithout
<1>8. SumFunctionOnSet(g, S) = SumFunctionOnSet(f, S)
  BY <1>3, <1>5, SumSame
<1>9. BytesOf(t) = SumFunctionOnSet(g, T) /\ BytesOf(s) = SumFunctionOnSet(f, S)
  BY BytesAsSum DEF f, g, S, T
<1>10. BytesOf(s) \in Nat /\ EntryBytes(e) \in Nat
  BY BytesNatural, EntrySize
<1>11. BytesOf(t) = EntryBytes(e) + BytesOf(s)
  BY <1>2, <1>6, <1>7, <1>8, <1>9
<1> QED
  BY <1>10, <1>11 DEF t

(* Dropping the oldest entry frees what it owned. *)
LEMMA BytesDropped ==
  ASSUME NEW s \in Seq(Entries), s # <<>>
  PROVE  BytesOf(Tail(s)) = BytesOf(s) - EntryBytes(Head(s))
<1> DEFINE t == Tail(s)
           S == 1 .. Len(s)
           T == 1 .. Len(t)
           f == [k \in S |-> EntryBytes(s[k])]
           g == [k \in T |-> EntryBytes(t[k])]
<1>1. /\ t \in Seq(Entries) /\ Len(t) = Len(s) - 1 /\ Len(s) \in Nat \ {0}
      /\ \A k \in T : t[k] = s[k + 1]
      /\ Head(s) = s[1]
  OBVIOUS
<1>2. 1 \in S /\ S \ {1} = {x + 1 : x \in T} /\ T \subseteq Nat
  <2>1. \A x \in T : x + 1 \in S \ {1}
    BY <1>1
  <2>2. \A y \in S \ {1} : y - 1 \in T /\ y = (y - 1) + 1
    BY <1>1
  <2> QED
    BY <1>1, <2>1, <2>2, SMTT(60)
<1>3. IsFiniteSet(T) /\ IsFiniteSet(S)
  <2>1. Len(s) \in Int /\ Len(t) \in Int
    BY <1>1
  <2> QED
    BY <2>1, FS_Interval
<1>4. \A k \in S : f[k] \in Nat
  BY EntrySize
<1>5. \A k \in T : f[k + 1] \in Int /\ g[k] = f[k + 1]
  BY <1>1, <1>4
<1>6. f[1] = EntryBytes(Head(s))
  BY <1>1, <1>2
<1> HIDE DEF f, g, S, T, t
<1>7. SumFunctionOnSet(f, S) = f[1] + SumFunctionOnSet(f, S \ {1})
  BY <1>2, <1>3, <1>4, SumWithout
<1>8. SumFunctionOnSet(g, T) = SumFunctionOnSet(f, {x + 1 : x \in T})
  BY <1>2, <1>3, <1>5, SumShifted
<1>9. BytesOf(t) = SumFunctionOnSet(g, T) /\ BytesOf(s) = SumFunctionOnSet(f, S)
  BY BytesAsSum DEF f, g, S, T
<1>10. BytesOf(t) \in Nat /\ f[1] \in Nat
  BY <1>1, <1>2, <1>4, BytesNatural
<1>11. BytesOf(s) = f[1] + BytesOf(t)
  BY <1>2, <1>7, <1>8, <1>9
<1> QED
  BY <1>6, <1>10, <1>11 DEF t

(* The latest entry owns no more than its history. *)
LEMMA LastAtMost ==
  ASSUME NEW s \in Seq(Entries), s # <<>>
  PROVE  ValueBytes(s[Len(s)]) <= BytesOf(s)
<1> DEFINE S == 1 .. Len(s)
           f == [k \in S |-> EntryBytes(s[k])]
           n == Len(s)
<1>1. n \in S /\ s[n] \in Entries
  OBVIOUS
<1>2. IsFiniteSet(S) /\ IsFiniteSet(S \ {n})
  <2>1. IsFiniteSet(S)
    BY FS_Interval
  <2> QED
    BY <2>1, FS_Subset
<1>3. \A k \in S : f[k] \in Nat
  BY EntrySize
<1>4. f[n] = ValueBytes(s[n]) + 1 /\ ValueBytes(s[n]) \in Nat
  BY <1>1, EntrySize DEF EntryBytes
<1>5. BytesOf(s) = SumFunctionOnSet(f, S)
  BY BytesAsSum
<1> HIDE DEF S, f, n
<1>6. SumFunctionOnSet(f, S) = f[n] + SumFunctionOnSet(f, S \ {n})
  BY <1>1, <1>2, <1>3, SumWithout
<1>7. SumFunctionOnSet(f, S \ {n}) \in Nat
  BY <1>2, <1>3, SumNat
<1> QED
  BY <1>4, <1>5, <1>6, <1>7 DEF n

(* A bounded history after one more entry. *)
LEMMA AppendedHolds ==
  ASSUME NEW s \in Seq(Entries), NEW n \in Nat \ {0}, Len(s) <= n, NEW e \in Entries
  PROVE  LET a == Appended(s, n, e)
             d == IF Len(s) = n THEN 1 ELSE 0
         IN /\ a \in Seq(Entries) /\ Len(a) <= n /\ a # <<>> /\ Last(a) = e
            /\ Len(a) = Len(s) + 1 - d
            /\ \A k \in 1 .. Len(a) - 1 : a[k] = s[k + d]
<1> DEFINE d == IF Len(s) = n THEN 1 ELSE 0
           t == IF Len(s) = n THEN Tail(s) ELSE s
           a == Append(t, e)
<1>1. t \in Seq(Entries) /\ Len(t) = Len(s) - d /\ \A k \in 1 .. Len(t) : t[k] = s[k + d]
  <2>1. CASE Len(s) = n
    BY <2>1
  <2>2. CASE Len(s) # n
    BY <2>2
  <2> QED
    BY <2>1, <2>2
<1>2. a = Appended(s, n, e)
  BY Zenon DEF Appended
<1> HIDE DEF t
<1>3. /\ a \in Seq(Entries) /\ Len(a) = Len(t) + 1 /\ a[Len(a)] = e
      /\ \A k \in 1 .. Len(t) : a[k] = t[k]
  BY <1>1
<1>4. a # <<>>
  BY <1>1, <1>3
<1>5. d \in {0, 1} /\ (d = 0 => Len(s) < n)
  OBVIOUS
<1> HIDE DEF a, d
<1> QED
  BY <1>1, <1>2, <1>3, <1>4, <1>5 DEF Last, d

(* What it owns then. *)
LEMMA BytesBounded ==
  ASSUME NEW s \in Seq(Entries), NEW n \in Nat \ {0}, Len(s) <= n, NEW e \in Entries
  PROVE  /\ BytesOf(Appended(s, n, e)) =
              BytesOf(s) - (IF Len(s) = n THEN EntryBytes(Head(s)) ELSE 0) + EntryBytes(e)
         /\ Len(s) = n => EntryBytes(Head(s)) \in Nat
<1>1. CASE Len(s) = n
  <2>1. s # <<>> /\ Tail(s) \in Seq(Entries) /\ Head(s) \in Entries
    BY <1>1
  <2>2. BytesOf(Appended(s, n, e)) = BytesOf(Tail(s)) + EntryBytes(e)
    BY <1>1, <2>1, BytesAppended DEF Appended
  <2> QED
    BY <1>1, <2>1, <2>2, BytesDropped, EntrySize
<1>2. CASE Len(s) # n
  <2>1. BytesOf(Appended(s, n, e)) = BytesOf(s) + EntryBytes(e)
    BY <1>2, BytesAppended DEF Appended
  <2>2. BytesOf(s) \in Nat
    BY BytesNatural
  <2> QED
    BY <1>2, <2>1, <2>2
<1> QED
  BY <1>1, <1>2

(* What a cached value owns is not negative. *)
LEMMA ValueSize ==
  ASSUME NEW e \in Entries \cup {None}
  PROVE  ValueBytes(e) \in Nat
<1>1. CASE e \in Entries
  BY <1>1, EntrySize
<1>2. CASE e = None
  BY <1>2 DEF ValueBytes
<1> QED
  BY <1>1, <1>2

(* What the variables own is not negative. *)
LEMMA VariablesNatural ==
  ASSUME NEW v \in [Names -> Entries \cup {None}]
  PROVE  VariableBytes(v) \in Nat
<1> DEFINE f == [n \in Names |-> ValueBytes(v[n])]
<1>1. \A n \in Names : f[n] \in Nat
  BY ValueSize
<1>2. IsFiniteSet(Names)
  BY SessionAssumption DEF SessionAssumption
<1>3. SumFunctionOnSet(f, Names) \in Nat
  <2> HIDE DEF f
  <2> QED
    BY <1>1, <1>2, SumNat
<1> QED
  BY <1>3 DEF VariableBytes

(* Assigning one variable exchanges what it owned for what it owns now. *)
LEMMA VariableAssigned ==
  ASSUME NEW v \in [Names -> Entries \cup {None}], NEW n \in Names,
         NEW e \in Entries \cup {None}
  PROVE  VariableBytes([v EXCEPT ![n] = e]) =
           VariableBytes(v) - ValueBytes(v[n]) + ValueBytes(e)
<1> DEFINE w == [v EXCEPT ![n] = e]
           f == [m \in Names |-> ValueBytes(v[m])]
           g == [m \in Names |-> ValueBytes(w[m])]
<1>1. \A m \in Names : f[m] \in Nat
  BY ValueSize
<1>2. w[n] = e /\ \A m \in Names \ {n} : w[m] = v[m]
  OBVIOUS
<1>3. g[n] = ValueBytes(e) /\ f[n] = ValueBytes(v[n]) /\ g[n] \in Nat
  BY <1>2, ValueSize
<1>4. \A m \in Names \ {n} : g[m] = f[m]
  <2> HIDE DEF w
  <2> QED
    BY <1>2
<1>5. IsFiniteSet(Names)
  BY SessionAssumption DEF SessionAssumption
<1> HIDE DEF f, g, w
<1>6. SumFunctionOnSet(g, Names) = SumFunctionOnSet(f, Names) - f[n] + g[n]
  BY <1>1, <1>3, <1>4, <1>5, SumChanged
<1>7. VariableBytes(w) = SumFunctionOnSet(g, Names) /\ VariableBytes(v) = SumFunctionOnSet(f, Names)
  BY DEF VariableBytes, f, g
<1>8. VariableBytes(w) = VariableBytes(v) - ValueBytes(v[n]) + ValueBytes(e)
  BY <1>3, <1>6, <1>7
<1> QED
  BY <1>8 DEF w

(* A variable owns no more than all of them. *)
LEMMA VariableAtMost ==
  ASSUME NEW v \in [Names -> Entries \cup {None}], NEW n \in Names
  PROVE  ValueBytes(v[n]) <= VariableBytes(v)
<1>1. VariableBytes([v EXCEPT ![n] = None]) = VariableBytes(v) - ValueBytes(v[n])
  <2>1. ValueBytes(None) = 0
    BY DEF ValueBytes
  <2>2. VariableBytes(v) \in Nat /\ ValueBytes(v[n]) \in Nat
    BY VariablesNatural, ValueSize
  <2>3. VariableBytes([v EXCEPT ![n] = None]) = VariableBytes(v) - ValueBytes(v[n]) + ValueBytes(None)
    BY VariableAssigned
  <2> QED
    BY <2>1, <2>2, <2>3
<1>2. VariableBytes([v EXCEPT ![n] = None]) \in Nat
  BY VariablesNatural
<1>3. VariableBytes(v) \in Nat /\ ValueBytes(v[n]) \in Nat
  BY VariablesNatural, ValueSize
<1> QED
  BY <1>1, <1>2, <1>3

(* Variables without values own nothing. *)
LEMMA VariablesNone == VariableBytes([n \in Names |-> None]) = 0
<1> DEFINE f == [n \in Names |-> ValueBytes([m \in Names |-> None][n])]
<1>1. \A n \in Names : f[n] = 0
  BY DEF ValueBytes
<1>2. IsFiniteSet(Names)
  BY SessionAssumption DEF SessionAssumption
<1>3. SumFunctionOnSet(f, Names) = 0
  <2> HIDE DEF f
  <2> QED
    BY <1>1, <1>2, SumZero
<1> QED
  BY <1>3 DEF VariableBytes

(* What the session owns, before and after a step. *)
LEMMA StorageSplit ==
  /\ StorageBytes = ValueBytes(preview) + ValueBytes(detached) + BytesOf(history)
                      + VariableBytes(variables) + BytesOf(conversions)
  /\ StorageBytes' = ValueBytes(preview') + ValueBytes(detached') + BytesOf(history')
                       + VariableBytes(variables') + BytesOf(conversions')
<1>1. MapThenSumSet(LAMBDA n : ValueBytes(variables[n]), Names) = VariableBytes(variables)
  BY VariablesAsSum
<1>2. MapThenSumSet(LAMBDA n : ValueBytes(variables'[n]), Names) = VariableBytes(variables')
  BY VariablesAsSum
<1>3. StorageBytes = ValueBytes(preview) + ValueBytes(detached) + BytesOf(history)
                      + VariableBytes(variables) + BytesOf(conversions)
  BY <1>1, Zenon DEF StorageBytes
<1>4. StorageBytes' = ValueBytes(preview') + ValueBytes(detached') + BytesOf(history')
                       + MapThenSumSet(LAMBDA n : ValueBytes(variables'[n]), Names)
                       + BytesOf(conversions')
  BY Zenon DEF StorageBytes, MapThenSumSet, MapThenFoldSet, ValueBytes, BytesOf, EntryBytes
<1>5. StorageBytes' = ValueBytes(preview') + ValueBytes(detached') + BytesOf(history')
                       + VariableBytes(variables') + BytesOf(conversions')
  BY <1>2, <1>4, Zenon
<1> QED
  BY <1>3, <1>5, Zenon

-----------------------------------------------------------------------------
(* What a request computes *)

(* The generator of a seeded session is not seeded again. *)
LEMMA BaseTyped ==
  ASSUME Typed, NEW seed \in Seeds
  PROVE  Base(seed) \in Nat /\ (seeded => Base(seed) = random)
  BY SessionAssumption DEF SessionAssumption, Typed, Base

(* The settings that a value does not depend on do not change it. *)
LEMMA ValueByMatch ==
  ASSUME NEW in, NEW c, NEW e, NEW d, in.exact \/ c.scale = e.scale
  PROVE  Value(in, c, d) = Value(in, e, d)
  BY DEF Value

(* Whether it comes from the preview, the history or the evaluator, the value
   of a request is the one its text has now, and the random stream continues
   where that value ends. *)
LEMMA ComputedIsValue ==
  ASSUME Typed, Held, Seeded, PreviewCurrent,
         NEW in \in Inputs, NEW ctx \in Contexts, NEW seed \in Seeds
  PROVE  /\ Computed(in, ctx, seed) = Value(in, ctx, Base(seed))
         /\ Start(in, seed) = Base(seed)
         /\ NextRandom(in, ctx, seed) = Advanced(in, Base(seed))
         /\ Hit(in, ctx) => seeded
<1>1. Start(in, seed) = Base(seed)
  BY BaseTyped DEF Start, SamePreview, Seeded, PreviewCurrent
<1>2. CASE PreviewHit(in, ctx)
  <2>1. preview # None /\ preview.expression = in /\ seeded /\ preview \in Previews
    BY <1>2 DEF PreviewHit, SamePreview, Seeded, Held
  <2>2. /\ preview.value = Value(in, preview.context, random)
        /\ preview.next = Advanced(in, random)
    BY <2>1 DEF PreviewCurrent
  <2>3. preview.value.of = in
    BY <2>2 DEF Value
  <2>4. in.exact \/ preview.context.scale = ctx.scale
    BY <1>2, <2>3 DEF PreviewHit, Matches
  <2>5. Base(seed) = random
    BY <2>1, BaseTyped
  <2>6. Value(in, preview.context, random) = Value(in, ctx, random)
    BY <2>4, ValueByMatch
  <2> QED
    BY <1>1, <1>2, <2>1, <2>2, <2>5, <2>6 DEF Computed, NextRandom
<1>3. CASE ~PreviewHit(in, ctx) /\ HistoryHit(in, ctx)
  <2> DEFINE e == Last(history)
  <2>1. history # <<>> /\ seeded /\ e \in Entries
    BY <1>3 DEF HistoryHit, Seeded, Held, Last
  <2>2. ~in.ans /\ ~in.random /\ in.reads = NoName /\ e.expression = in
    BY <1>3 DEF HistoryHit
  <2>3. e.value \in Results(in, e.context) /\ e.value.of = in
    BY <2>1, <2>2, EntryKnown
  <2>4. in.exact \/ e.context.scale = ctx.scale
    BY <1>3, <2>3 DEF HistoryHit, Matches
  <2>5. e.value \in Results(in, ctx)
    BY <2>3, <2>4, ResultsMatch
  <2>6. Value(in, ctx, Base(seed)) \in Results(in, ctx)
    BY ValueTyped, BaseTyped
  <2>7. e.value = Value(in, ctx, Base(seed))
    <3> DEFINE c == IF in.exact THEN 0 ELSE ctx.scale
    <3>1. Results(in, ctx) = [of : {in}, answer : {0}, variable : {0}, draw : {0}, scale : {c}]
      BY <2>2 DEF Results
    <3> HIDE DEF e, c
    <3> QED
      BY <2>5, <2>6, <3>1
  <2>8. Advanced(in, Base(seed)) = Base(seed)
    BY <2>2 DEF Advanced
  <2> QED
    BY <1>1, <1>3, <2>1, <2>7, <2>8 DEF Computed, NextRandom
<1>4. CASE ~PreviewHit(in, ctx) /\ ~HistoryHit(in, ctx)
  BY <1>1, <1>4 DEF Computed, NextRandom, Hit
<1>5. Hit(in, ctx) => seeded
  BY DEF Hit, PreviewHit, SamePreview, HistoryHit, Seeded
<1> QED
  BY <1>2, <1>3, <1>4, <1>1, <1>5

-----------------------------------------------------------------------------
(* The invariant, one action after another *)

(* A new session owns nothing and has seen no request. *)
LEMMA InitHolds == Init => IInv
<1> SUFFICES ASSUME Init PROVE IInv
  OBVIOUS
<1>1. Typed
  <2>1. /\ revision = 0 /\ conversionRevision = 0 /\ conversionClear = 0 /\ random = 0
        /\ released = FALSE /\ seeded = FALSE
    BY DEF Init
  <2>2. 0 \in 0 .. MaxRevision /\ 0 \in 0 .. 0
    BY SessionAssumption DEF SessionAssumption
  <2>3. lifecycle \in [revision : 0 .. revision,
                       action : {"none", "clear", "reset", "release"}]
    BY <2>1, <2>2 DEF Init
  <2>4. deletion \in [revision : 0 .. revision, name : Names \cup {NoName}]
    BY <2>1, <2>2 DEF Init
  <2> QED
    BY <2>1, <2>2, <2>3, <2>4 DEF Typed
<1>2. Held
  <2>1. <<>> \in Seq(Entries) /\ Len(<<>>) = 0
    BY EmptySeq
  <2>2. history \in Seq(Entries) /\ Len(history) = 0
    BY <2>1, Zenon DEF Init
  <2>3. conversions \in Seq(Entries) /\ Len(conversions) = 0
    BY <2>1, Zenon DEF Init
  <2>4. 0 <= HistoryCapacity /\ 0 <= ConversionCapacity
    BY SessionAssumption DEF SessionAssumption
  <2>5. variables \in [Names -> Entries \cup {None}]
    BY DEF Init
  <2> QED
    BY <2>2, <2>3, <2>4, <2>5 DEF Init, Held
<1>3. Seeded /\ PreviewCurrent
  BY DEF Init, Seeded, PreviewCurrent
<1>4. DrawsOnce
  BY DEF Init, DrawsOnce
<1>5. LatestKnown
  BY DEF Init, LatestKnown, Confirmed
<1>6. StorageBytes = 0
  <2>1. ValueBytes(None) = 0
    BY DEF ValueBytes
  <2>2. StorageBytes = ValueBytes(None) + ValueBytes(None) + BytesOf(<<>>)
                         + VariableBytes([n \in Names |-> None]) + BytesOf(<<>>)
    BY StorageSplit, Zenon DEF Init
  <2> QED
    BY <2>1, <2>2, BytesNone, VariablesNone
<1> QED
  BY <1>1, <1>2, <1>3, <1>4, <1>5, <1>6, SessionAssumption
  DEF IInv, Init, ReservedIsOwned, WithinLimit, SessionAssumption

(* A step that at most consumes a revision and seeds the generator. *)
LEMMA QuietHolds ==
  ASSUME IInv,
         revision' \in 0 .. MaxRevision, revision' >= revision,
         random' \in Nat, seeded' \in BOOLEAN, seeded => seeded' /\ random' = random,
         UNCHANGED <<released, lifecycle, deletion, history, detached, preview,
                     variables, conversions, conversionRevision, conversionClear,
                     reserved, latest>>
  PROVE  IInv'
<1>1. Typed'
  <2>1. revision \in Nat /\ 0 .. revision \subseteq 0 .. revision'
    BY SessionAssumption DEF IInv, Typed, SessionAssumption
  <2> QED
    BY <2>1 DEF IInv, Typed
<1>2. Held'
  <2>1. history # <<>> => Last(history).revision \in Nat
    BY EntryKnown DEF IInv, Held, Last
  <2> QED
    BY <2>1, SessionAssumption DEF IInv, Typed, Held, Last, SessionAssumption
<1>3. Seeded' /\ PreviewCurrent'
  BY DEF IInv, Seeded, PreviewCurrent, Value, Answer, Last, Advanced
<1>4. DrawsOnce'
  <2>1. CASE history = <<>>
    BY <2>1 DEF DrawsOnce
  <2>2. CASE history # <<>>
    BY <2>2 DEF IInv, Seeded, DrawsOnce
  <2> QED
    BY <2>1, <2>2
<1>5. LatestKnown'
  BY SessionAssumption
  DEF IInv, Typed, LatestKnown, Confirmed, Confirmation, Deletion, Lifecycle, Last,
      SessionAssumption
<1>6. ReservedIsOwned' /\ WithinLimit'
  <2>1. StorageBytes' = StorageBytes
    BY StorageSplit, Zenon
  <2> QED
    BY <2>1 DEF IInv, ReservedIsOwned, WithinLimit
<1> QED
  BY <1>1, <1>2, <1>3, <1>4, <1>5, <1>6 DEF IInv

(* What the parts of the session own are natural numbers. *)
LEMMA PartsNatural ==
  ASSUME Held
  PROVE  /\ ValueBytes(preview) \in Nat /\ ValueBytes(detached) \in Nat
         /\ BytesOf(history) \in Nat /\ BytesOf(conversions) \in Nat
         /\ VariableBytes(variables) \in Nat
<1>1. ValueBytes(preview) \in Nat
  <2>1. CASE preview = None
    BY <2>1 DEF ValueBytes
  <2>2. CASE preview \in Previews
    <3>1. preview # None /\ preview.value \in AnyResult
      BY <2>2, PreviewKnown
    <3>2. preview.value.of \in InputRecord
      BY <3>1, SessionAssumption DEF AnyResult, SessionAssumption
    <3> QED
      BY <3>1, <3>2 DEF ValueBytes, InputRecord
  <2> QED
    BY <2>1, <2>2 DEF Held
<1>2. ValueBytes(detached) \in Nat
  BY ValueSize DEF Held
<1>3. BytesOf(history) \in Nat /\ BytesOf(conversions) \in Nat
  BY BytesNatural DEF Held
<1>4. VariableBytes(variables) \in Nat
  BY VariablesNatural DEF Held
<1> QED
  BY <1>1, <1>2, <1>3, <1>4

(* A preview is stored with the value its text has, and its size is granted. *)
LEMMA PreviewHolds ==
  ASSUME IInv, NEW r \in Revisions, NEW in \in Inputs, NEW ctx \in Contexts,
         NEW seed \in Seeds, Preview(r, in, ctx, seed)
  PROVE  IInv'
<1> DEFINE base == Base(seed)
           value == Value(in, ctx, base)
           bytes == StorageBytes - ValueBytes(preview) + in.size
           p == [expression |-> in, value |-> value, context |-> ctx,
                 start |-> base, next |-> Advanced(in, base)]
<1>1. /\ r > revision /\ Granted(bytes) /\ revision' = r /\ random' = base
      /\ seeded' = TRUE /\ reserved' = bytes
      /\ UNCHANGED <<released, lifecycle, deletion, history, detached, variables,
                     conversions, conversionRevision, conversionClear, latest>>
  BY DEF Preview, Fresh, conversion
<1>2. preview' = p
  <2>1. /\ Computed(in, ctx, seed) = value /\ Start(in, seed) = base
        /\ NextRandom(in, ctx, seed) = Advanced(in, base)
    BY ComputedIsValue DEF IInv
  <2>2. preview' = [expression |-> in, value |-> Computed(in, ctx, seed),
                    context |-> ctx, start |-> Start(in, seed),
                    next |-> NextRandom(in, ctx, seed)]
    BY Zenon DEF Preview
  <2> QED
    BY <2>1, <2>2, Zenon
<1>3. base \in Nat /\ (seeded => base = random) /\ Advanced(in, base) \in Nat
  BY BaseTyped DEF IInv, Advanced
<1>4. value \in AnyResult /\ value.of = in
  <2>1. value \in Results(in, ctx) /\ value \in AnyResult
    BY <1>3, ValueTyped DEF IInv
  <2> QED
    BY <2>1 DEF Value
<1>5. p \in Previews
  <2> HIDE DEF value, base
  <2> QED
    BY <1>3, <1>4 DEF Previews
<1>6. in.size \in Nat
  BY SessionAssumption DEF SessionAssumption, InputRecord
<1> HIDE DEF base, value, bytes
<1>7. Typed'
  <2>1. revision \in Nat /\ r \in 0 .. MaxRevision /\ 0 .. revision \subseteq 0 .. r
    BY <1>1, SessionAssumption DEF IInv, Typed, Revisions, SessionAssumption
  <2> QED
    BY <1>1, <1>3, <2>1 DEF IInv, Typed
<1>8. Held'
  <2>1. history # <<>> => Last(history).revision \in Nat /\ Last(history).revision <= revision
    BY EntryKnown DEF IInv, Held, Last
  <2>2. revision \in Nat /\ r \in Nat
    BY SessionAssumption DEF IInv, Typed, Revisions, SessionAssumption
  <2> QED
    BY <1>1, <1>2, <1>5, <2>1, <2>2 DEF IInv, Held, Last
<1>9. Seeded'
  BY <1>1 DEF Seeded
<1>10. PreviewCurrent'
  <2>1. /\ preview'.value = value /\ preview'.start = base
        /\ preview'.next = Advanced(in, base)
        /\ preview'.expression = in /\ preview'.context = ctx
    BY <1>2
  <2>2. Value(preview.expression, preview.context, random)' = Value(in, ctx, base)
    BY <1>1, <2>1 DEF Value, Answer, Last
  <2> QED
    BY <1>1, <2>1, <2>2 DEF PreviewCurrent, value, Advanced
<1>11. DrawsOnce'
  <2>1. CASE history = <<>>
    BY <1>1, <2>1 DEF DrawsOnce
  <2>2. CASE history # <<>>
    <3>1. random' = random
      BY <1>1, <1>3, <2>2 DEF IInv, Seeded
    <3> QED
      BY <1>1, <3>1 DEF IInv, DrawsOnce
  <2> QED
    BY <2>1, <2>2
<1>12. LatestKnown'
  <2>1. /\ revision \in Nat /\ r \in Nat /\ deletion.revision \in 0 .. revision
        /\ lifecycle.revision \in 0 .. revision
    BY SessionAssumption DEF IInv, Typed, Revisions, SessionAssumption
  <2> QED
    BY <1>1, <2>1 DEF IInv, LatestKnown, Confirmed, Confirmation, Deletion, Lifecycle, Last
<1>13. ReservedIsOwned' /\ WithinLimit'
  <2>1. ValueBytes(preview') = in.size
    <3>1. p # None /\ p.value = value
      BY <1>5, PreviewKnown
    <3> QED
      BY <1>2, <1>4, <3>1 DEF ValueBytes
  <2>2. PICK o, h, v, c : /\ o = ValueBytes(detached) /\ h = BytesOf(history)
                          /\ v = VariableBytes(variables) /\ c = BytesOf(conversions)
    OBVIOUS
  <2>3. o \in Nat /\ h \in Nat /\ v \in Nat /\ c \in Nat /\ ValueBytes(preview) \in Nat
    BY <2>2, PartsNatural DEF IInv
  <2>4. StorageBytes = ValueBytes(preview) + o + h + v + c
    BY <2>2, StorageSplit
  <2>5. StorageBytes' = in.size + o + h + v + c
    BY <1>1, <2>1, <2>2, StorageSplit
  <2>6. bytes = StorageBytes'
    BY <1>6, <2>3, <2>4, <2>5 DEF bytes
  <2>7. bytes \in 0 .. ByteLimit
    BY <1>1, <1>6, <2>3, <2>5, <2>6, SessionAssumption DEF Granted, SessionAssumption
  <2> QED
    BY <1>1, <2>6, <2>7 DEF ReservedIsOwned, WithinLimit
<1> QED
  BY <1>7, <1>8, <1>9, <1>10, <1>11, <1>12, <1>13 DEF IInv

(* Draws stay in order when an entry is appended that draws at or after the
   state of the generator, which moves past it. *)
LEMMA DrawsAppended ==
  ASSUME Held, DrawsOnce, NEW e \in Entries, NEW base \in Nat, random \in Nat,
         history # <<>> => base = random,
         e.value.of.random => e.value.draw = base,
         history' = Appended(history, HistoryCapacity, e),
         random' = Advanced(e.value.of, base)
  PROVE  DrawsOnce'
<1>1. /\ history \in Seq(Entries) /\ HistoryCapacity \in Nat \ {0}
      /\ Len(history) <= HistoryCapacity
  BY SessionAssumption DEF Held, SessionAssumption
<1> DEFINE d == IF Len(history) = HistoryCapacity THEN 1 ELSE 0
<1>2. /\ history' \in Seq(Entries) /\ history' # <<>> /\ Last(history') = e
      /\ Len(history') = Len(history) + 1 - d
      /\ \A k \in 1 .. Len(history') - 1 : history'[k] = history[k + d]
  BY <1>1, AppendedHolds
<1>3. d \in {0, 1} /\ Len(history) \in Nat
  BY <1>1
<1> HIDE DEF d
<1> DEFINE m == Len(history')
<1>4. m \in Nat \ {0} /\ history'[m] = e
  BY <1>2 DEF Last
<1>5. \A k \in 1 .. m - 1 : k + d \in 1 .. Len(history) /\ history'[k] = history[k + d]
  BY <1>2, <1>3, <1>4
<1>6. random' \in Nat /\ base <= random' /\ (e.value.of.random => e.value.draw < random')
  BY DEF Advanced
<1>7. \A k \in 1 .. m - 1 :
        history'[k].value.of.random => history'[k].value.draw < random' /\ history'[k].value.draw < base
  <2> SUFFICES ASSUME NEW k \in 1 .. m - 1, history'[k].value.of.random
               PROVE  history'[k].value.draw < random' /\ history'[k].value.draw < base
    OBVIOUS
  <2>1. k + d \in 1 .. Len(history) /\ history'[k] = history[k + d]
    BY <1>5
  <2>2. history[k + d].value.draw < random
    BY <2>1 DEF DrawsOnce
  <2>3. base = random
    BY <1>1, <2>1
  <2>4. history[k + d].value.draw \in Nat
    BY <1>1, <2>1, EntryKnown DEF AnyResult
  <2> QED
    BY <1>6, <2>1, <2>2, <2>3, <2>4
<1>8. ASSUME NEW j \in 1 .. m, NEW k \in 1 .. m, j < k,
             history'[j].value.of.random, history'[k].value.of.random
      PROVE  history'[j].value.draw < history'[k].value.draw
  <2>1. j \in 1 .. m - 1
    BY <1>4, <1>8
  <2>2. CASE k = m
    BY <1>4, <1>7, <1>8, <2>1, <2>2
  <2>3. CASE k # m
    <3>1. k \in 1 .. m - 1
      BY <1>4, <2>3
    <3>2. /\ j + d \in 1 .. Len(history) /\ k + d \in 1 .. Len(history) /\ j + d < k + d
          /\ history'[j] = history[j + d] /\ history'[k] = history[k + d]
      BY <1>3, <1>5, <1>8, <2>1, <3>1, SMTT(60)
    <3> QED
      BY <1>8, <3>2 DEF DrawsOnce
  <2> QED
    BY <2>2, <2>3
<1>9. ASSUME NEW k \in 1 .. m, history'[k].value.of.random
      PROVE  history'[k].value.draw < random'
  <2>1. CASE k = m
    BY <1>4, <1>6, <1>9, <2>1
  <2>2. CASE k # m
    <3>1. k \in 1 .. m - 1
      BY <1>4, <2>2
    <3> QED
      BY <1>7, <1>9, <3>1
  <2> QED
    BY <2>1, <2>2
<1> QED
  BY <1>8, <1>9 DEF DrawsOnce

(* A confirmation appends its entry, assigns its variable and takes the
   preview and the detached answer away. *)
LEMMA ConfirmHolds ==
  ASSUME IInv, NEW r \in Revisions, NEW in \in Inputs, NEW ctx \in Contexts,
         NEW seed \in Seeds, Confirm(r, in, ctx, seed)
  PROVE  IInv'
<1> DEFINE base == Base(seed)
           value == Value(in, ctx, base)
           e == [expression |-> in, value |-> value, context |-> ctx, revision |-> r]
           bytes == ConfirmedBytes(in)
<1>1. /\ Computed(in, ctx, seed) = value
      /\ NextRandom(in, ctx, seed) = Advanced(in, base)
  BY ComputedIsValue DEF IInv
<1>2. /\ r > revision /\ Granted(bytes) /\ revision' = r /\ seeded' = TRUE
      /\ reserved' = bytes /\ detached' = None /\ preview' = None
      /\ UNCHANGED <<released, lifecycle, deletion,
                     conversions, conversionRevision, conversionClear>>
      /\ latest' = [op |-> "confirm", revision |-> r, input |-> in, context |-> ctx]
  BY DEF Confirm, Fresh, conversion, DropPreview
<1>3. /\ random' = Advanced(in, base)
      /\ variables' = IF in.assigns = NoName THEN variables
                      ELSE [variables EXCEPT ![in.assigns] = e]
      /\ history' = Appended(history, HistoryCapacity, e)
  BY <1>1, Zenon DEF Confirm
<1>4. base \in Nat /\ (seeded => base = random) /\ Advanced(in, base) \in Nat
  BY BaseTyped DEF IInv, Advanced
<1>5. value \in AnyResult /\ value \in Results(in, ctx) /\ value.of = in
      /\ (in.random => value.draw = base)
  <2>1. value \in Results(in, ctx) /\ value \in AnyResult
    BY <1>4, ValueTyped DEF IInv
  <2> QED
    BY <2>1 DEF Value
<1>6. in \in InputRecord /\ in.size \in Nat /\ in.assigns \in Names \cup {NoName}
  BY SessionAssumption DEF SessionAssumption, InputRecord
<1> HIDE DEF base, value, bytes
<1>7. e \in Entries /\ e.value = value /\ e.revision = r
  BY <1>5 DEF Entries
<1>8. /\ history \in Seq(Entries) /\ HistoryCapacity \in Nat \ {0}
      /\ Len(history) <= HistoryCapacity
  BY SessionAssumption DEF IInv, Held, SessionAssumption
<1> DEFINE f == e
<1> HIDE DEF f
<1>9. f \in Entries /\ f.value = value /\ f.revision = r /\ f.expression = in /\ f.context = ctx
  BY <1>7 DEF f
<1>10. /\ history' = Appended(history, HistoryCapacity, f)
       /\ variables' = IF in.assigns = NoName THEN variables
                       ELSE [variables EXCEPT ![in.assigns] = f]
  BY <1>3 DEF f
<1>11. /\ history' \in Seq(Entries) /\ Len(history') <= HistoryCapacity
       /\ history' # <<>> /\ Last(history') = f
  BY <1>8, <1>9, <1>10, AppendedHolds
<1>12. /\ revision \in Nat /\ r \in Nat /\ r \in 0 .. MaxRevision
       /\ 0 .. revision \subseteq 0 .. r
       /\ deletion.revision \in 0 .. revision /\ lifecycle.revision \in 0 .. revision
  BY <1>2, SessionAssumption DEF IInv, Typed, Revisions, SessionAssumption
<1>13. Typed'
  BY <1>2, <1>3, <1>4, <1>12 DEF IInv, Typed
<1>14. Held'
  <2>1. variables' \in [Names -> Entries \cup {None}]
    BY <1>9, <1>10 DEF IInv, Held
  <2> QED
    BY <1>2, <1>9, <1>11, <1>12, <2>1 DEF IInv, Held
<1>15. Seeded' /\ PreviewCurrent'
  BY <1>2 DEF Seeded, PreviewCurrent
<1>16. DrawsOnce'
  <2>1. history # <<>> => base = random
    BY <1>4 DEF IInv, Seeded
  <2>2. f.value.of.random => f.value.draw = base
    BY <1>5, <1>9
  <2>3. random' = Advanced(f.value.of, base)
    BY <1>3, <1>5, <1>9
  <2> QED
    BY <1>4, <1>9, <1>10, <2>1, <2>2, <2>3, DrawsAppended DEF IInv, Typed
<1>17. LatestKnown'
  <2>1. Confirmed'
    BY <1>2, <1>9, <1>11, <1>12 DEF Confirmed
  <2>2. latest' = Confirmation'
    BY <1>2, <1>9, <1>11 DEF Confirmation
  <2>3. deletion'.revision # revision' /\ lifecycle'.revision # revision'
    BY <1>2, <1>12
  <2> QED
    BY <2>1, <2>2, <2>3 DEF LatestKnown
<1>18. ReservedIsOwned' /\ WithinLimit'
  <2> DEFINE head == IF Len(history) = HistoryCapacity THEN EntryBytes(Head(history)) ELSE 0
             over == IF in.assigns = NoName THEN 0
                     ELSE in.size - ValueBytes(variables[in.assigns])
  <2>1. /\ ValueBytes(f) = in.size /\ EntryBytes(f) = in.size + 1
    BY <1>9, EntrySize
  <2>2. PICK p, o, h, v, c : /\ p = ValueBytes(preview) /\ o = ValueBytes(detached)
                             /\ h = BytesOf(history)
                             /\ v = VariableBytes(variables) /\ c = BytesOf(conversions)
    OBVIOUS
  <2>3. p \in Nat /\ o \in Nat /\ h \in Nat /\ v \in Nat /\ c \in Nat
    BY <2>2, PartsNatural DEF IInv
  <2>4. head \in Nat /\ BytesOf(history') = h - head + EntryBytes(f)
    BY <1>8, <1>9, <1>10, <2>2, BytesBounded
  <2>5. over \in Int /\ VariableBytes(variables') = v + over
    <3>1. CASE in.assigns = NoName
      BY <1>10, <2>2, <2>3, <3>1
    <3>2. CASE in.assigns # NoName
      <4>1. in.assigns \in Names /\ variables \in [Names -> Entries \cup {None}]
        BY <1>6, <3>2 DEF IInv, Held
      <4>2. variables' = [variables EXCEPT ![in.assigns] = f]
        BY <1>10, <3>2
      <4>3. VariableBytes(variables') = v - ValueBytes(variables[in.assigns]) + ValueBytes(f)
        BY <1>9, <2>2, <4>1, <4>2, VariableAssigned
      <4>4. ValueBytes(variables[in.assigns]) \in Nat
        BY <4>1, ValueSize
      <4> QED
        BY <1>6, <2>1, <2>3, <3>2, <4>3, <4>4
    <3> QED
      BY <3>1, <3>2
  <2>6. StorageBytes = p + o + h + v + c
    BY <2>2, StorageSplit
  <2>7. bytes = StorageBytes - p - o - head + over + in.size + 1
    BY <2>2, Zenon DEF bytes, ConfirmedBytes
  <2>8. /\ ValueBytes(preview') = 0 /\ ValueBytes(detached') = 0
        /\ BytesOf(conversions') = c
    BY <1>2, <2>2 DEF ValueBytes
  <2>9. PICK y, w : y = BytesOf(history') /\ w = VariableBytes(variables')
    OBVIOUS
  <2>10. StorageBytes' = 0 + 0 + y + w + c
    BY <2>8, <2>9, StorageSplit
  <2>11. y = h - head + (in.size + 1) /\ w = v + over
    BY <2>1, <2>4, <2>5, <2>9
  <2>12. y \in Nat /\ w \in Nat
    <3>1. variables' \in [Names -> Entries \cup {None}]
      BY <1>14 DEF Held
    <3> QED
      BY <1>11, <2>9, <3>1, BytesNatural, VariablesNatural
  <2> HIDE DEF head, over
  <2>13. bytes = StorageBytes'
    BY <1>6, <2>3, <2>4, <2>5, <2>6, <2>7, <2>10, <2>11
  <2>14. bytes \in 0 .. ByteLimit
    BY <1>2, <2>3, <2>10, <2>12, <2>13, SessionAssumption DEF Granted, SessionAssumption
  <2> QED
    BY <1>2, <2>13, <2>14 DEF ReservedIsOwned, WithinLimit
<1> QED
  BY <1>13, <1>14, <1>15, <1>16, <1>17, <1>18 DEF IInv

(* A deletion takes one variable and the preview away and marks itself. *)
LEMMA DeleteHolds ==
  ASSUME IInv, NEW r \in Revisions, NEW n \in Names, DeleteVariable(r, n)
  PROVE  IInv'
<1>1. /\ r > revision /\ revision' = r /\ preview' = None
      /\ variables' = [variables EXCEPT ![n] = None]
      /\ deletion' = [revision |-> r, name |-> n]
      /\ latest' = [op |-> "delete", revision |-> r, name |-> n]
      /\ reserved' = StorageBytes'
      /\ UNCHANGED <<released, lifecycle, history, detached, random, seeded,
                     conversions, conversionRevision, conversionClear>>
  BY DEF DeleteVariable, Fresh, conversion, DropPreview
<1>2. /\ revision \in Nat /\ r \in Nat /\ r \in 0 .. MaxRevision /\ r \in 0 .. r
      /\ 0 .. revision \subseteq 0 .. r
      /\ deletion.revision \in 0 .. revision /\ lifecycle.revision \in 0 .. revision
  BY <1>1, SessionAssumption DEF IInv, Typed, Revisions, SessionAssumption
<1>3. Typed'
  BY <1>1, <1>2 DEF IInv, Typed
<1>4. history # <<>> => Last(history).revision \in Nat /\ Last(history).revision <= revision
  BY EntryKnown DEF IInv, Held, Last
<1>5. Held'
  <2>1. variables' \in [Names -> Entries \cup {None}]
    BY <1>1 DEF IInv, Held
  <2> QED
    BY <1>1, <1>2, <1>4, <2>1 DEF IInv, Held, Last
<1>6. Seeded' /\ PreviewCurrent' /\ DrawsOnce'
  BY <1>1 DEF IInv, Seeded, PreviewCurrent, DrawsOnce
<1>7. LatestKnown'
  <2>1. ~Confirmed'
    BY <1>1, <1>2, <1>4 DEF Confirmed, Last
  <2>2. latest' = Deletion' /\ deletion'.revision > 0
    BY <1>1, <1>2 DEF Deletion
  <2>3. lifecycle'.revision # revision'
    BY <1>1, <1>2
  <2> QED
    BY <2>1, <2>2, <2>3 DEF LatestKnown
<1>8. ReservedIsOwned' /\ WithinLimit'
  <2>1. PICK p, o, h, v, c : /\ p = ValueBytes(preview) /\ o = ValueBytes(detached)
                             /\ h = BytesOf(history)
                             /\ v = VariableBytes(variables) /\ c = BytesOf(conversions)
    OBVIOUS
  <2>2. p \in Nat /\ o \in Nat /\ h \in Nat /\ v \in Nat /\ c \in Nat
    BY <2>1, PartsNatural DEF IInv
  <2>3. PICK w : w = VariableBytes(variables')
    OBVIOUS
  <2>4. ValueBytes(variables[n]) \in Nat /\ w = v - ValueBytes(variables[n]) /\ w \in Nat
    <3>1. variables \in [Names -> Entries \cup {None}] /\ variables' \in [Names -> Entries \cup {None}]
      BY <1>5 DEF IInv, Held
    <3>2. ValueBytes(None) = 0 /\ None \in Entries \cup {None}
      BY DEF ValueBytes
    <3>3. w = v - ValueBytes(variables[n]) + ValueBytes(None)
      BY <1>1, <2>1, <2>3, <3>1, <3>2, VariableAssigned, ZenonT(60)
    <3>4. ValueBytes(variables[n]) \in Nat
      BY <3>1, ValueSize
    <3>5. w \in Nat
      BY <2>3, <3>1, VariablesNatural
    <3> QED
      BY <2>2, <3>2, <3>3, <3>4, <3>5
  <2>5. StorageBytes = p + o + h + v + c
    BY <2>1, StorageSplit
  <2>6. ValueBytes(preview') = 0
    BY <1>1 DEF ValueBytes
  <2>7. StorageBytes' = 0 + o + h + w + c
    BY <1>1, <2>1, <2>3, <2>6, StorageSplit
  <2>8. StorageBytes \in 0 .. ByteLimit
    BY DEF IInv, ReservedIsOwned, WithinLimit
  <2>9. StorageBytes' \in 0 .. ByteLimit
    BY <2>2, <2>4, <2>5, <2>7, <2>8, SessionAssumption DEF SessionAssumption
  <2> QED
    BY <1>1, <2>9 DEF ReservedIsOwned, WithinLimit
<1> QED
  BY <1>3, <1>5, <1>6, <1>7, <1>8 DEF IInv

(* A clear keeps the answer and frees the rest of the history. *)
LEMMA ClearHolds ==
  ASSUME IInv, NEW r \in Revisions, ClearHistory(r)
  PROVE  IInv'
<1>1. /\ r > revision /\ revision' = r /\ preview' = None
      /\ history' = <<>> /\ detached' = Answer
      /\ lifecycle' = [revision |-> r, action |-> "clear"]
      /\ latest' = [op |-> "lifecycle", revision |-> r, action |-> "clear"]
      /\ reserved' = StorageBytes'
      /\ UNCHANGED <<released, deletion, random, seeded, variables,
                     conversions, conversionRevision, conversionClear>>
  BY DEF ClearHistory, Fresh, conversion, DropPreview
<1>2. /\ revision \in Nat /\ r \in Nat /\ r \in 0 .. MaxRevision /\ r \in 0 .. r
      /\ 0 .. revision \subseteq 0 .. r
      /\ deletion.revision \in 0 .. revision /\ lifecycle.revision \in 0 .. revision
  BY <1>1, SessionAssumption DEF IInv, Typed, Revisions, SessionAssumption
<1>3. Typed'
  BY <1>1, <1>2 DEF IInv, Typed
<1>4. Held'
  <2>1. <<>> \in Seq(Entries) /\ Len(<<>>) = 0
    BY EmptySeq
  <2>2. history' \in Seq(Entries) /\ Len(history') = 0 /\ history' = <<>>
    BY <1>1, <2>1, Zenon
  <2>3. detached' \in Entries \cup {None}
    BY <1>1 DEF IInv, Held, Answer, Last
  <2>4. 0 <= HistoryCapacity
    BY SessionAssumption DEF SessionAssumption
  <2> QED
    BY <1>1, <2>2, <2>3, <2>4 DEF IInv, Held
<1>5. Seeded' /\ PreviewCurrent' /\ DrawsOnce'
  <2>1. Len(history') = 0
    BY <1>1
  <2> QED
    BY <1>1, <2>1 DEF Seeded, PreviewCurrent, DrawsOnce
<1>6. LatestKnown'
  <2>1. ~Confirmed'
    BY <1>1 DEF Confirmed
  <2>2. latest' = Lifecycle' /\ lifecycle'.revision > 0
    BY <1>1, <1>2 DEF Lifecycle
  <2>3. deletion'.revision # revision'
    BY <1>1, <1>2
  <2> QED
    BY <2>1, <2>2, <2>3 DEF LatestKnown
<1>7. ReservedIsOwned' /\ WithinLimit'
  <2>1. PICK p, o, h, v, c : /\ p = ValueBytes(preview) /\ o = ValueBytes(detached)
                             /\ h = BytesOf(history)
                             /\ v = VariableBytes(variables) /\ c = BytesOf(conversions)
    OBVIOUS
  <2>2. p \in Nat /\ o \in Nat /\ h \in Nat /\ v \in Nat /\ c \in Nat
    BY <2>1, PartsNatural DEF IInv
  <2>3. PICK w : w = ValueBytes(detached')
    OBVIOUS
  <2>4. w \in Nat /\ w <= o + h
    <3>1. CASE history = <<>>
      BY <1>1, <2>1, <2>2, <2>3, <3>1 DEF Answer
    <3>2. CASE history # <<>>
      <4>1. history \in Seq(Entries) /\ history[Len(history)] \in Entries
        BY <3>2 DEF IInv, Held
      <4>2. ValueBytes(history[Len(history)]) <= BytesOf(history)
        BY <3>2, <4>1, LastAtMost
      <4>3. w = ValueBytes(history[Len(history)]) /\ w \in Nat
        BY <1>1, <2>3, <3>2, <4>1, EntrySize DEF Answer, Last
      <4> QED
        BY <2>1, <2>2, <4>2, <4>3
    <3> QED
      BY <3>1, <3>2
  <2>5. StorageBytes = p + o + h + v + c
    BY <2>1, StorageSplit
  <2>6. ValueBytes(preview') = 0 /\ BytesOf(history') = 0
    BY <1>1, BytesNone DEF ValueBytes
  <2>7. StorageBytes' = 0 + w + 0 + v + c
    BY <1>1, <2>1, <2>3, <2>6, StorageSplit
  <2>8. StorageBytes \in 0 .. ByteLimit
    BY DEF IInv, ReservedIsOwned, WithinLimit
  <2>9. StorageBytes' \in 0 .. ByteLimit
    BY <2>2, <2>4, <2>5, <2>7, <2>8, SessionAssumption DEF SessionAssumption
  <2> QED
    BY <1>1, <2>9 DEF ReservedIsOwned, WithinLimit
<1> QED
  BY <1>3, <1>4, <1>5, <1>6, <1>7 DEF IInv

(* A reset or a release empties the session. *)
LEMMA RestartHolds ==
  ASSUME IInv, NEW r \in Revisions, NEW action \in {"reset", "release"},
         Restart(r, action)
  PROVE  IInv'
<1>1. /\ r > revision /\ revision' = r /\ preview' = None
      /\ history' = <<>> /\ conversions' = <<>> /\ detached' = None
      /\ random' = 0 /\ seeded' = FALSE
      /\ variables' = [n \in Names |-> None]
      /\ deletion' = [revision |-> 0, name |-> NoName]
      /\ conversionRevision' = RestartMark /\ conversionClear' = RestartMark
      /\ reserved' = 0 /\ released' = (action = "release")
      /\ lifecycle' = [revision |-> r, action |-> action]
      /\ latest' = [op |-> "lifecycle", revision |-> r, action |-> action]
  BY DEF Restart, Fresh, DropPreview
<1>2. /\ revision \in Nat /\ r \in Nat /\ r \in 0 .. MaxRevision /\ r \in 0 .. r
      /\ 0 \in 0 .. r
  BY <1>1, SessionAssumption DEF IInv, Typed, Revisions, SessionAssumption
<1>3. Typed'
  <2>1. RestartMark \in 0 .. MaxRevision /\ RestartMark \in 0 .. RestartMark
    BY SessionAssumption DEF IInv, Typed, RestartMark, SessionAssumption
  <2>2. lifecycle' \in [revision : 0 .. revision', action : {"none", "clear", "reset", "release"}]
    BY <1>1, <1>2
  <2>3. deletion' \in [revision : 0 .. revision', name : Names \cup {NoName}]
    BY <1>1, <1>2
  <2>4. released' \in BOOLEAN /\ seeded' \in BOOLEAN
    BY <1>1
  <2> HIDE DEF RestartMark
  <2> QED
    BY <1>1, <1>2, <2>1, <2>2, <2>3, <2>4 DEF Typed
<1>4. Held'
  <2>1. <<>> \in Seq(Entries) /\ Len(<<>>) = 0
    BY EmptySeq
  <2>2. history' \in Seq(Entries) /\ Len(history') = 0
    BY <1>1, <2>1, Zenon
  <2>3. conversions' \in Seq(Entries) /\ Len(conversions') = 0
    BY <1>1, <2>1, Zenon
  <2>4. 0 <= HistoryCapacity /\ 0 <= ConversionCapacity
    BY SessionAssumption DEF SessionAssumption
  <2> QED
    BY <1>1, <2>2, <2>3, <2>4 DEF Held
<1>5. Seeded' /\ PreviewCurrent' /\ DrawsOnce'
  <2>1. Len(history') = 0
    BY <1>1
  <2> QED
    BY <1>1, <2>1 DEF Seeded, PreviewCurrent, DrawsOnce
<1>6. LatestKnown'
  <2>1. ~Confirmed'
    BY <1>1 DEF Confirmed
  <2>2. latest' = Lifecycle' /\ lifecycle'.revision > 0
    BY <1>1, <1>2 DEF Lifecycle
  <2>3. deletion'.revision # revision'
    BY <1>1, <1>2
  <2> QED
    BY <2>1, <2>2, <2>3 DEF LatestKnown
<1>7. ReservedIsOwned' /\ WithinLimit'
  <2>1. /\ ValueBytes(preview') = 0 /\ ValueBytes(detached') = 0
    BY <1>1 DEF ValueBytes
  <2>2. BytesOf(history') = 0 /\ BytesOf(conversions') = 0 /\ VariableBytes(variables') = 0
    BY <1>1, BytesNone, VariablesNone, Zenon
  <2>3. StorageBytes' = 0 + 0 + 0 + 0 + 0
    BY <2>1, <2>2, StorageSplit
  <2> QED
    BY <1>1, <2>3, SessionAssumption DEF ReservedIsOwned, WithinLimit, SessionAssumption
<1> QED
  BY <1>3, <1>4, <1>5, <1>6, <1>7 DEF IInv

(* A confirmed conversion is appended to the conversions and leaves the
   calculation alone. *)
LEMMA ConversionHolds ==
  ASSUME IInv, NEW r \in ConversionRevisions, NEW in \in Inputs, NEW ctx \in Contexts,
         ConfirmConversion(r, in, ctx)
  PROVE  IInv' /\ conversions' # <<>>
<1> DEFINE value == Value(in, ctx, 0)
           e == [expression |-> in, value |-> value, context |-> ctx, revision |-> r]
           bytes == ConvertedBytes(in)
<1>1. /\ r > conversionRevision /\ Granted(bytes) /\ reserved' = bytes
      /\ conversions' = Appended(conversions, ConversionCapacity, e)
      /\ conversionRevision' = r
      /\ UNCHANGED <<revision, released, lifecycle, deletion, history, detached,
                     preview, random, seeded, variables, conversionClear, latest>>
  BY DEF ConfirmConversion, ConversionFresh, calculation
<1>2. r \in Revisions /\ r \in 0 .. MaxRevision /\ r \in Nat
  BY SessionAssumption DEF SessionAssumption, Revisions
<1>3. e \in Entries /\ ValueBytes(e) = in.size /\ EntryBytes(e) = in.size + 1
  <2>1. value \in Results(in, ctx) /\ value \in AnyResult
    BY ValueTyped DEF IInv
  <2> HIDE DEF value
  <2>2. e \in Entries
    BY <1>2, <2>1 DEF Entries
  <2>3. e.expression = in
    OBVIOUS
  <2> HIDE DEF e
  <2> QED
    BY <2>2, <2>3, EntrySize
<1> HIDE DEF e, value, bytes
<1>4. /\ conversions \in Seq(Entries) /\ ConversionCapacity \in Nat \ {0}
      /\ Len(conversions) <= ConversionCapacity
  BY SessionAssumption DEF IInv, Held, SessionAssumption
<1>5. /\ conversions' \in Seq(Entries) /\ Len(conversions') <= ConversionCapacity
      /\ conversions' # <<>>
  BY <1>1, <1>3, <1>4, AppendedHolds
<1>6. Typed'
  <2>1. conversionClear \in 0 .. r
    BY <1>1, <1>2, SessionAssumption DEF IInv, Typed, SessionAssumption
  <2> QED
    BY <1>1, <1>2, <2>1 DEF IInv, Typed
<1>7. Held'
  BY <1>1, <1>5 DEF IInv, Held, Last
<1>8. Seeded' /\ PreviewCurrent' /\ DrawsOnce' /\ LatestKnown'
  BY <1>1
  DEF IInv, Seeded, PreviewCurrent, DrawsOnce, LatestKnown, Confirmed, Confirmation,
      Deletion, Lifecycle, Last, Value, Answer, Advanced
<1>9. ReservedIsOwned' /\ WithinLimit'
  <2> DEFINE head == IF Len(conversions) = ConversionCapacity
                     THEN EntryBytes(Head(conversions)) ELSE 0
  <2>1. PICK p, o, h, v, c : /\ p = ValueBytes(preview) /\ o = ValueBytes(detached)
                             /\ h = BytesOf(history)
                             /\ v = VariableBytes(variables) /\ c = BytesOf(conversions)
    OBVIOUS
  <2>2. p \in Nat /\ o \in Nat /\ h \in Nat /\ v \in Nat /\ c \in Nat
    BY <2>1, PartsNatural DEF IInv
  <2>3. head \in Nat /\ BytesOf(conversions') = c - head + EntryBytes(e)
    BY <1>1, <1>3, <1>4, <2>1, BytesBounded
  <2>4. StorageBytes = p + o + h + v + c
    BY <2>1, StorageSplit
  <2>5. bytes = StorageBytes + in.size + 1 - head
    BY Zenon DEF bytes, ConvertedBytes
  <2>6. PICK y : y = BytesOf(conversions')
    OBVIOUS
  <2>7. y \in Nat
    BY <1>5, <2>6, BytesNatural
  <2>8. StorageBytes' = p + o + h + v + y
    BY <1>1, <2>1, <2>6, StorageSplit
  <2>9. in.size \in Nat
    BY SessionAssumption DEF SessionAssumption, InputRecord
  <2>10. y = c - head + (in.size + 1)
    BY <1>3, <2>3, <2>6
  <2> HIDE DEF head
  <2>11. bytes = StorageBytes'
    BY <2>2, <2>3, <2>4, <2>5, <2>8, <2>9, <2>10
  <2>12. bytes \in 0 .. ByteLimit
    BY <1>1, <2>2, <2>7, <2>8, <2>11, SessionAssumption DEF Granted, SessionAssumption
  <2> QED
    BY <1>1, <2>11, <2>12 DEF ReservedIsOwned, WithinLimit
<1> QED
  BY <1>5, <1>6, <1>7, <1>8, <1>9 DEF IInv

(* Clearing the conversions frees them and moves their mark. *)
LEMMA ConversionsClearedHolds ==
  ASSUME IInv, NEW r \in ConversionRevisions, ClearConversions(r)
  PROVE  IInv'
<1>1. /\ r > conversionRevision /\ reserved' = StorageBytes'
      /\ conversions' = <<>>
      /\ conversionRevision' = r /\ conversionClear' = r
      /\ UNCHANGED <<revision, released, lifecycle, deletion, history, detached,
                     preview, random, seeded, variables, latest>>
  BY DEF ClearConversions, ConversionFresh, calculation
<1>2. r \in 0 .. MaxRevision /\ r \in 0 .. r
  BY SessionAssumption DEF SessionAssumption, Revisions
<1>3. Typed'
  BY <1>1, <1>2 DEF IInv, Typed
<1>4. Held'
  <2>1. <<>> \in Seq(Entries) /\ Len(<<>>) = 0
    BY EmptySeq
  <2>2. conversions' \in Seq(Entries) /\ Len(conversions') = 0
    BY <1>1, <2>1, Zenon
  <2>3. 0 <= ConversionCapacity
    BY SessionAssumption DEF SessionAssumption
  <2> QED
    BY <1>1, <2>2, <2>3 DEF IInv, Held, Last
<1>5. Seeded' /\ PreviewCurrent' /\ DrawsOnce' /\ LatestKnown'
  BY <1>1
  DEF IInv, Seeded, PreviewCurrent, DrawsOnce, LatestKnown, Confirmed, Confirmation,
      Deletion, Lifecycle, Last, Value, Answer, Advanced
<1>6. ReservedIsOwned' /\ WithinLimit'
  <2>1. PICK p, o, h, v, c : /\ p = ValueBytes(preview) /\ o = ValueBytes(detached)
                             /\ h = BytesOf(history)
                             /\ v = VariableBytes(variables) /\ c = BytesOf(conversions)
    OBVIOUS
  <2>2. p \in Nat /\ o \in Nat /\ h \in Nat /\ v \in Nat /\ c \in Nat
    BY <2>1, PartsNatural DEF IInv
  <2>3. StorageBytes = p + o + h + v + c
    BY <2>1, StorageSplit
  <2>4. BytesOf(conversions') = 0
    BY <1>1, BytesNone, Zenon
  <2>5. StorageBytes' = p + o + h + v + 0
    BY <1>1, <2>1, <2>4, StorageSplit
  <2>6. StorageBytes \in 0 .. ByteLimit
    BY DEF IInv, ReservedIsOwned, WithinLimit
  <2>7. StorageBytes' \in 0 .. ByteLimit
    BY <2>2, <2>3, <2>5, <2>6, SessionAssumption DEF SessionAssumption
  <2> QED
    BY <1>1, <2>7 DEF ReservedIsOwned, WithinLimit
<1> QED
  BY <1>3, <1>4, <1>5, <1>6 DEF IInv

(* Every step of the session keeps the invariant. *)
LEMMA StepHolds == IInv /\ [Next]_vars => IInv'
<1> SUFFICES ASSUME IInv, [Next]_vars PROVE IInv'
  OBVIOUS
<1>1. revision \in Nat /\ revision <= MaxRevision /\ random \in Nat /\ seeded \in BOOLEAN
  BY SessionAssumption DEF IInv, Typed, SessionAssumption
<1>2. ASSUME NEW r \in Revisions, NEW in \in Inputs, NEW ctx \in Contexts, NEW seed \in Seeds,
             ShowCached(r, in, ctx, seed)
      PROVE  IInv'
  <2>1. Base(seed) \in Nat /\ (seeded => Base(seed) = random)
    BY BaseTyped DEF IInv
  <2>2. r \in 0 .. MaxRevision /\ r >= revision
    BY <1>1, <1>2 DEF ShowCached, Fresh, Revisions
  <2> QED
    BY <1>2, <2>1, <2>2, QuietHolds DEF ShowCached, conversion
<1>3. ASSUME NEW r \in Revisions, NEW seed \in Seeds, ComputeFails(r, seed)
      PROVE  IInv'
  <2>1. Base(seed) \in Nat /\ (seeded => Base(seed) = random)
    BY BaseTyped DEF IInv
  <2>2. r \in 0 .. MaxRevision /\ r >= revision
    BY <1>1, <1>3 DEF ComputeFails, Fresh, Revisions
  <2> QED
    BY <1>3, <2>1, <2>2, QuietHolds DEF ComputeFails, conversion
<1>4. ASSUME NEW r \in Revisions, ComputeRejected(r)
      PROVE  IInv'
  <2>1. r \in 0 .. MaxRevision /\ r >= revision
    BY <1>1, <1>4 DEF ComputeRejected, Fresh, Revisions
  <2> QED
    BY <1>1, <1>4, <2>1, QuietHolds DEF ComputeRejected, calculation, conversion
<1>5. CASE UNCHANGED vars
  <2>1. revision \in 0 .. MaxRevision
    BY DEF IInv, Typed
  <2> QED
    BY <1>1, <1>5, <2>1, QuietHolds DEF vars, calculation, conversion
<1>6. CASE Evaluations
  BY <1>2, <1>6, PreviewHolds, ConfirmHolds DEF Evaluations
<1>7. CASE Failures
  BY <1>3, <1>4, <1>7 DEF Failures
<1>8. CASE Mutations
  BY <1>8, DeleteHolds, ClearHolds, RestartHolds DEF Mutations
<1>9. CASE Conversions
  BY <1>9, ConversionHolds, ConversionsClearedHolds DEF Conversions
<1> QED
  BY <1>5, <1>6, <1>7, <1>8, <1>9 DEF Next

(* The invariant holds throughout. *)
LEMMA Invariance == Spec => []IInv
  BY InitHolds, StepHolds, PTL DEF Spec

-----------------------------------------------------------------------------
(* Theorems about the session *)

(* The invariant has the types of the state. *)
LEMMA TypedByInvariant == IInv => TypeOK
<1> SUFFICES ASSUME IInv PROVE TypeOK
  OBVIOUS
<1>1. \A e \in Entries : IsEntry(e)
  BY EntryKnown DEF IsEntry, Stamped
<1>2. \A k \in 1 .. Len(history) : IsEntry(history[k])
  BY <1>1 DEF IInv, Held
<1>3. \A k \in 1 .. Len(conversions) : IsEntry(conversions[k])
  BY <1>1 DEF IInv, Held
<1>4. detached # None => IsEntry(detached)
  BY <1>1 DEF IInv, Held
<1>5. \A n \in Names : variables[n] # None => IsEntry(variables[n])
  BY <1>1 DEF IInv, Held
<1> QED
  BY <1>2, <1>3, <1>4, <1>5 DEF IInv, Typed, Held, WithinLimit, TypeOK

(* The state always has its types, stays within every capacity and reserves
   no more than the limit of the policy. *)
THEOREM TypeCorrect == Spec => []TypeOK
BY TypedByInvariant, Invariance, PTL

(* No two confirmations draw the same position of the random stream
   (session.c:314 and 400). *)
THEOREM DrawsAreOnce == Spec => []DrawsOnce
<1>1. IInv => DrawsOnce
  BY DEF IInv
<1> QED
  BY <1>1, Invariance, PTL

(* What the policy granted is the sum of what the session owns, whatever was
   evicted, assigned over, cleared or restarted (session.c:380-393). *)
THEOREM ReservationExact == Spec => []ReservedIsOwned
<1>1. IInv => ReservedIsOwned
  BY DEF IInv
<1> QED
  BY <1>1, Invariance, PTL

(* The marks that the invariant keeps tell which request was the latest. *)
LEMMA RecognisedByInvariant == IInv => RetriesRecognised
<1> SUFFICES ASSUME IInv, NEW r \in Revisions PROVE
       /\ \A in \in Inputs, ctx \in Contexts :
            IsReplay(r, in, ctx) <=>
              latest = [op |-> "confirm", revision |-> r, input |-> in, context |-> ctx]
       /\ \A n \in Names :
            IsDeletionRetry(r, n) <=>
              /\ revision = r
              /\ latest = [op |-> "delete", revision |-> r, name |-> n]
       /\ \A a \in {"clear", "reset", "release"} :
            IsLifecycleRetry(r, a) <=>
              /\ revision = r
              /\ latest = [op |-> "lifecycle", revision |-> r, action |-> a]
  BY DEF RetriesRecognised
<1>1. r \in Nat /\ r > 0
  BY SessionAssumption DEF SessionAssumption, Revisions
<1>2. /\ deletion \in [revision : 0 .. revision, name : Names \cup {NoName}]
      /\ lifecycle \in [revision : 0 .. revision, action : {"none", "clear", "reset", "release"}]
  BY DEF IInv, Typed
<1>3. /\ deletion = [revision |-> deletion.revision, name |-> deletion.name]
      /\ lifecycle = [revision |-> lifecycle.revision, action |-> lifecycle.action]
  BY <1>2
<1>4. ASSUME NEW x, "op" \in DOMAIN x, latest = x PROVE latest # None
  <2>1. DOMAIN None = {"none"}
    BY DEF None
  <2> QED
    BY <1>4, <2>1
<1>5. ASSUME NEW in \in Inputs, NEW ctx \in Contexts
      PROVE  IsReplay(r, in, ctx) <=>
               latest = [op |-> "confirm", revision |-> r, input |-> in, context |-> ctx]
  <2>1. ASSUME IsReplay(r, in, ctx)
        PROVE  latest = [op |-> "confirm", revision |-> r, input |-> in, context |-> ctx]
    BY <2>1 DEF IInv, LatestKnown, Confirmed, Confirmation, IsReplay
  <2>2. ASSUME latest = [op |-> "confirm", revision |-> r, input |-> in, context |-> ctx]
        PROVE  IsReplay(r, in, ctx)
    <3>1. latest # None
      BY <1>4, <2>2
    <3>2. latest.op = "confirm"
      BY <2>2
    <3>3. Deletion.op = "delete" /\ Lifecycle.op = "lifecycle"
      BY DEF Deletion, Lifecycle
    <3>4. Confirmed /\ latest = Confirmation
      BY <3>1, <3>2, <3>3 DEF IInv, LatestKnown
    <3> QED
      BY <2>2, <3>4 DEF Confirmed, Confirmation, IsReplay
  <2> QED
    BY <2>1, <2>2
<1>6. ASSUME NEW n \in Names
      PROVE  IsDeletionRetry(r, n) <=>
               revision = r /\ latest = [op |-> "delete", revision |-> r, name |-> n]
  <2>1. ASSUME IsDeletionRetry(r, n)
        PROVE  revision = r /\ latest = [op |-> "delete", revision |-> r, name |-> n]
    BY <1>1, <2>1 DEF IInv, LatestKnown, Deletion, IsDeletionRetry
  <2>2. ASSUME revision = r, latest = [op |-> "delete", revision |-> r, name |-> n]
        PROVE  IsDeletionRetry(r, n)
    <3>1. latest # None
      BY <1>4, <2>2
    <3>2. latest.op = "delete"
      BY <2>2
    <3>3. Confirmation.op = "confirm" /\ Lifecycle.op = "lifecycle"
      BY DEF Confirmation, Lifecycle
    <3>4. latest = Deletion
      BY <3>1, <3>2, <3>3 DEF IInv, LatestKnown
    <3>5. deletion.revision = r /\ deletion.name = n
      BY <2>2, <3>4 DEF Deletion
    <3> QED
      BY <1>3, <2>2, <3>5 DEF IsDeletionRetry
  <2> QED
    BY <2>1, <2>2
<1>7. ASSUME NEW a \in {"clear", "reset", "release"}
      PROVE  IsLifecycleRetry(r, a) <=>
               revision = r /\ latest = [op |-> "lifecycle", revision |-> r, action |-> a]
  <2>1. ASSUME IsLifecycleRetry(r, a)
        PROVE  revision = r /\ latest = [op |-> "lifecycle", revision |-> r, action |-> a]
    BY <1>1, <2>1 DEF IInv, LatestKnown, Lifecycle, IsLifecycleRetry
  <2>2. ASSUME revision = r, latest = [op |-> "lifecycle", revision |-> r, action |-> a]
        PROVE  IsLifecycleRetry(r, a)
    <3>1. latest # None
      BY <1>4, <2>2
    <3>2. latest.op = "lifecycle"
      BY <2>2
    <3>3. Confirmation.op = "confirm" /\ Deletion.op = "delete"
      BY DEF Confirmation, Deletion
    <3>4. latest = Lifecycle
      BY <3>1, <3>2, <3>3 DEF IInv, LatestKnown
    <3>5. lifecycle.revision = r /\ lifecycle.action = a
      BY <2>2, <3>4 DEF Lifecycle
    <3> QED
      BY <1>3, <2>2, <3>5 DEF IsLifecycleRetry
  <2> QED
    BY <2>1, <2>2
<1> QED
  BY <1>5, <1>6, <1>7

(* A repeated request is recognised exactly if it is the latest mutation
   (session.c:92, 155 and 276-290). *)
THEOREM RetriesAreRecognised == Spec => []RetriesRecognised
BY RecognisedByInvariant, Invariance, PTL

(* The answer changes with a confirmation or a restart and never with a
   preview, a deletion, a failure or a clear (session.c:98-113). *)
THEOREM AnswerIsKept == Spec => AnswerSurvives
<1>1. IInv /\ [Next]_vars =>
        (Answer' # Answer =>
           /\ latest' # latest
           /\ latest'.op = "confirm" \/ latest'.op = "lifecycle"
           /\ latest'.op = "lifecycle" => latest'.action # "clear")
  <2> SUFFICES ASSUME IInv, [Next]_vars, Answer' # Answer
               PROVE  /\ latest' # latest
                      /\ latest'.op = "confirm" \/ latest'.op = "lifecycle"
                      /\ latest'.op = "lifecycle" => latest'.action # "clear"
    OBVIOUS
  <2>1. ~ (UNCHANGED <<history, detached>>)
    BY DEF Answer, Last
  <2>2. ASSUME NEW r \in Revisions, ClearHistory(r) PROVE FALSE
    BY <2>2 DEF ClearHistory, Answer
  <2>3. \/ \E r \in Revisions, in \in Inputs, ctx \in Contexts, seed \in Seeds :
              Confirm(r, in, ctx, seed)
        \/ \E r \in Revisions, action \in {"reset", "release"} : Restart(r, action)
    <3>1. ~UNCHANGED vars
      BY <2>1 DEF vars, calculation
    <3>2. ~Failures
      BY <2>1 DEF Failures, ComputeRejected, ComputeFails, calculation
    <3>3. ~Conversions
      BY <2>1 DEF Conversions, ConfirmConversion, ClearConversions, calculation
    <3>4. CASE Evaluations
      BY <2>1, <3>4 DEF Evaluations, ShowCached, Preview
    <3>5. CASE Mutations
      BY <2>1, <2>2, <3>5 DEF Mutations, DeleteVariable
    <3> QED
      BY <3>1, <3>2, <3>3, <3>4, <3>5 DEF Next
  <2>4. PICK r \in Revisions :
          /\ r > revision
          /\ \/ /\ \E in, ctx : latest' = [op |-> "confirm", revision |-> r,
                                           input |-> in, context |-> ctx]
             \/ \E action \in {"reset", "release"} :
                  latest' = [op |-> "lifecycle", revision |-> r, action |-> action]
    BY <2>3, ZenonT(60) DEF Confirm, Restart, Fresh
  <2>5. latest'.revision = r /\ "op" \in DOMAIN latest'
    BY <2>4
  <2>6. latest # None => latest.revision \in 0 .. revision
    <3>1. Confirmed => Confirmation.revision \in 0 .. revision
      BY EntryKnown DEF IInv, Held, Typed, Confirmed, Confirmation, Last
    <3>2. Deletion.revision \in 0 .. revision /\ Lifecycle.revision \in 0 .. revision
      BY DEF IInv, Typed, Deletion, Lifecycle
    <3> QED
      BY <3>1, <3>2 DEF IInv, LatestKnown
  <2>7. latest' # latest
    <3>1. CASE latest = None
      <4>1. DOMAIN latest = {"none"}
        BY <3>1 DEF None
      <4> QED
        BY <2>5, <4>1
    <3>2. CASE latest # None
      <4>1. revision \in Nat /\ r \in Nat
        BY SessionAssumption DEF IInv, Typed, Revisions, SessionAssumption
      <4> QED
        BY <2>4, <2>5, <2>6, <3>2, <4>1
    <3> QED
      BY <3>1, <3>2
  <2> QED
    BY <2>4, <2>7
<1> QED
  BY <1>1, Invariance, PTL DEF Spec, AnswerSurvives

(* The conversion revision never falls back, and whatever empties the
   conversions moves it past every earlier request (session.c:111-114). *)
THEOREM ConversionMarkIsKept == Spec => ConversionMarkKept
<1>1. IInv /\ [Next]_vars =>
        /\ conversionRevision' >= conversionRevision
        /\ conversions # <<>> /\ conversions' = <<>>
             => conversionRevision' > conversionRevision \/ conversionRevision = MaxRevision
  <2> SUFFICES ASSUME IInv, [Next]_vars
               PROVE  /\ conversionRevision' >= conversionRevision
                      /\ conversions # <<>> /\ conversions' = <<>>
                           => \/ conversionRevision' > conversionRevision
                              \/ conversionRevision = MaxRevision
    OBVIOUS
  <2>1. conversionRevision \in Nat /\ MaxRevision \in Nat /\ conversionRevision <= MaxRevision
    BY SessionAssumption DEF IInv, Typed, SessionAssumption
  <2>2. CASE UNCHANGED <<conversions, conversionRevision>>
    BY <2>1, <2>2
  <2>3. ASSUME NEW r \in Revisions, NEW action \in {"reset", "release"}, Restart(r, action)
        PROVE  conversionRevision' > conversionRevision \/ conversionRevision = MaxRevision
    BY <2>1, <2>3 DEF Restart, RestartMark
  <2>4. ASSUME NEW r \in Revisions, NEW action \in {"reset", "release"}, Restart(r, action)
        PROVE  conversionRevision' >= conversionRevision
    BY <2>1, <2>4 DEF Restart, RestartMark
  <2>5. ASSUME Conversions
        PROVE  conversionRevision' > conversionRevision /\ conversionRevision' >= conversionRevision
    <3>1. PICK r \in ConversionRevisions : conversionRevision' = r /\ r > conversionRevision
      BY <2>5 DEF Conversions, ConfirmConversion, ClearConversions, ConversionFresh
    <3>2. r \in Nat
      BY SessionAssumption DEF SessionAssumption, Revisions
    <3> QED
      BY <2>1, <3>1, <3>2
  <2>6. \/ UNCHANGED <<conversions, conversionRevision>>
        \/ \E r \in Revisions, action \in {"reset", "release"} : Restart(r, action)
        \/ Conversions
    <3>1. CASE Evaluations
      BY <3>1 DEF Evaluations, ShowCached, Preview, Confirm, conversion
    <3>2. CASE Failures
      BY <3>2 DEF Failures, ComputeRejected, ComputeFails, conversion
    <3>3. CASE Mutations
      BY <3>3 DEF Mutations, DeleteVariable, ClearHistory, conversion
    <3>4. CASE UNCHANGED vars
      BY <3>4 DEF vars, conversion
    <3> QED
      BY <3>1, <3>2, <3>3, <3>4 DEF Next
  <2> QED
    BY <2>2, <2>3, <2>4, <2>5, <2>6
<1> QED
  BY <1>1, Invariance, PTL DEF Spec, ConversionMarkKept

-----------------------------------------------------------------------------
(* Theorems about the answers of the evaluation endpoint *)

(* The endpoint drives the session by its own operations only, so whatever
   holds of a session holds of the one behind the endpoint. *)
THEOREM ResponsesAreSession == SpecResponses => Spec
<1>1. InitResponses => Init
  BY DEF InitResponses
<1>2. [NextResponses]_responseVars => [Next]_vars
  <2> SUFFICES ASSUME [NextResponses]_responseVars PROVE [Next]_vars
    OBVIOUS
  <2>1. CASE UNCHANGED responseVars
    BY <2>1 DEF responseVars
  <2>2. ASSUME NEW r \in Revisions, NEW in \in Inputs, NEW ctx \in Contexts,
               NEW seed \in Seeds,
               AnswerPreview(r, in, ctx, seed) \/ AnswerConfirmation(r, in, ctx, seed)
        PROVE  Next
    BY <2>2 DEF AnswerPreview, AnswerConfirmation, Evaluations, Next
  <2>3. ASSUME NEW r \in Revisions, NEW in \in Inputs, NEW ctx \in Contexts,
               AnswerReplay(r, in, ctx)
        PROVE  UNCHANGED vars
    BY <2>3 DEF AnswerReplay
  <2>4. CASE Failures \/ Mutations \/ Conversions
    BY <2>4 DEF Next
  <2> QED
    BY <2>1, <2>2, <2>3, <2>4 DEF NextResponses
<1> QED
  BY <1>1, <1>2, PTL DEF SpecResponses, Spec

(* A preview or confirmation is answered with the value its input has in the
   state it was asked in, from whichever cache it comes; a confirmation
   continues the random stream there and stores that value in its variable
   (session.c:315-322 and 396-404). *)
THEOREM CurrentValueShown == SpecResponses => ShowsCurrentValue
<1> DEFINE Shown ==
      response' # None /\ response'.op # "replay" /\ seeded
      => LET in == response'.input
         IN /\ response'.result = Value(in, response'.context, random)
            /\ response'.op = "confirm" =>
                 /\ random' = Advanced(in, random)
                 /\ in.assigns # NoName =>
                      variables'[in.assigns].value = response'.result
<1>1. IInv /\ NextResponses => Shown
  <2> SUFFICES ASSUME IInv, NextResponses, response' # None,
                      response'.op # "replay", seeded
               PROVE  Shown
    OBVIOUS
  <2>1. ASSUME NEW r \in Revisions, NEW in \in Inputs, NEW ctx \in Contexts,
               AnswerReplay(r, in, ctx)
        PROVE  FALSE
    BY <2>1 DEF AnswerReplay, Respond
  <2>2. PICK r \in Revisions, in \in Inputs, ctx \in Contexts, seed \in Seeds :
          AnswerPreview(r, in, ctx, seed) \/ AnswerConfirmation(r, in, ctx, seed)
    BY <2>1 DEF NextResponses
  <2>3. /\ Computed(in, ctx, seed) = Value(in, ctx, random)
        /\ NextRandom(in, ctx, seed) = Advanced(in, random)
    <3>1. Base(seed) = random
      BY BaseTyped DEF IInv
    <3> QED
      BY <3>1, ComputedIsValue DEF IInv
  <2>4. /\ response'.input = in /\ response'.context = ctx
        /\ response'.result = Value(in, ctx, random)
    BY <2>2, <2>3 DEF AnswerPreview, AnswerConfirmation, Respond
  <2>5. ASSUME response'.op = "confirm"
        PROVE  /\ random' = Advanced(in, random)
               /\ in.assigns # NoName => variables'[in.assigns].value = response'.result
    <3>1. AnswerConfirmation(r, in, ctx, seed)
      BY <2>2, <2>5 DEF AnswerPreview, Respond
    <3>2. random' = Advanced(in, random)
      BY <2>3, <3>1 DEF AnswerConfirmation, Confirm
    <3>3. ASSUME in.assigns # NoName
          PROVE  variables'[in.assigns].value = response'.result
      <4> DEFINE e == [expression |-> in, value |-> Computed(in, ctx, seed),
                       context |-> ctx, revision |-> r]
      <4>1. variables' = [variables EXCEPT ![in.assigns] = e]
        BY <3>1, <3>3 DEF AnswerConfirmation, Confirm
      <4>2. in.assigns \in Names /\ variables \in [Names -> Entries \cup {None}]
        BY <3>3, SessionAssumption DEF SessionAssumption, InputRecord, IInv, Held
      <4>3. e.value = Value(in, ctx, random)
        BY <2>3
      <4> HIDE DEF e
      <4> QED
        BY <2>4, <4>1, <4>2, <4>3
    <3> QED
      BY <3>2, <3>3
  <2> QED
    BY <2>4, <2>5
<1>2. SpecResponses => []IInv
  BY ResponsesAreSession, Invariance, PTL
<1> QED
  BY <1>1, <1>2, PTL DEF SpecResponses, ShowsCurrentValue
===============================================================================
