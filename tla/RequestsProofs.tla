---------------------------- MODULE RequestsProofs ----------------------------
(***************************************************************************)
(* Theorems about the stateless half of the server, for every input: how a *)
(* request is read from its stream, routed and understood, and when the    *)
(* value of an earlier evaluation may answer it.                           *)
(*                                                                         *)
(* EvaluationCache.  The inductive invariant says of the entry what the    *)
(* properties say of a response: that it is the value of its own text      *)
(* under its own settings.  Matches then carries it over to the settings   *)
(* of a request.                                                           *)
(*                                                                         *)
(* HttpRequests.  A call is one step, so the work is in its loops.  Course *)
(* turns a loop into the list of what it comes to, turn by turn, and       *)
(* Induction carries a statement along that list: the digits so far are    *)
(* the number so far, the header lines so far say what was found, and of   *)
(* the bytes so far either all are in the buffer or some of them were      *)
(* already a request or an error.  A target is cut up from its end, one    *)
(* loop per option, so its lemmas follow the suffixes that are left and    *)
(* are read in both directions: what the parser found is what the text     *)
(* says, and what the text says is found.                                  *)
(***************************************************************************)
EXTENDS EvaluationCache, HttpRequests, SumsAndLoops, SequenceTheorems

-----------------------------------------------------------------------------
(* The reuse of an evaluation *)

Shape(x) == x.expression \in Inputs /\ x.context \in Contexts

EntryIsFresh ==
  entry # None =>
    /\ ~entry.expression.random
    /\ entry.value = Value(entry.expression, entry.context, 0)

SeenIsRevision == seen = revision

IInv == TypeOK /\ EntryIsFresh /\ SeenIsRevision /\ ReservedIsOwned /\ ResultIsFresh

-----------------------------------------------------------------------------
(* An expression has the size it says, and Bytes reads it. *)
LEMMA InputShape ==
  ASSUME NEW in \in Inputs
  PROVE  /\ in.random \in BOOLEAN
         /\ in.exact \in BOOLEAN
         /\ in.size \in Nat
  BY CacheAssumption DEF CacheAssumption, InputRecord

(* A value that does not depend on a draw is the same under all settings that
   match it. *)
LEMMA MatchingValue ==
  ASSUME NEW in \in Inputs, NEW one, NEW other, NEW draw, ~in.random,
         one.angle = other.angle,
         in.exact \/ one.scale = other.scale
  PROVE  Value(in, one, draw) = Value(in, other, 0)
  BY DEF Value

(* A record with the fields of an entry is not None. *)
LEMMA RecordIsSome ==
  ASSUME NEW in, NEW ctx, NEW value
  PROVE  [expression |-> in, context |-> ctx, value |-> value] # None
<1>1. DOMAIN [expression |-> in, context |-> ctx, value |-> value]
        = {"expression", "context", "value"}
  OBVIOUS
<1>2. DOMAIN None = {"none"}
  BY DEF None
<1> QED  BY <1>1, <1>2

(* The inductive invariant holds of every behaviour. *)
LEMMA Invariance == Spec => []IInv
<1>1. Init => IInv
  BY CacheAssumption DEF CacheAssumption, Init, IInv, TypeOK, EntryIsFresh, SeenIsRevision,
     ReservedIsOwned, ResultIsFresh, Bytes, None
<1>2. IInv /\ [Next]_vars => IInv'
  <2> SUFFICES ASSUME IInv, [Next]_vars PROVE IInv'
    OBVIOUS
  <2> USE CacheAssumption DEF CacheAssumption
  <2>1. ASSUME NEW r \in Revisions, NEW in \in Inputs, NEW ctx \in Contexts, Fail(r, in, ctx)
        PROVE  IInv'
    BY <2>1 DEF IInv, TypeOK, EntryIsFresh, SeenIsRevision, ReservedIsOwned, ResultIsFresh,
       Fail, Refuse, Saw, Advanced, Bytes, Revisions
  <2>2. ASSUME NEW r \in Revisions, NEW in \in Inputs, NEW ctx \in Contexts, Reuse(r, in, ctx)
        PROVE  IInv'
    <3>1. entry.value = Value(in, ctx, 0)
      BY <2>2, MatchingValue DEF IInv, EntryIsFresh, TypeOK, Reuse, Hit, Matches
    <3>2. asked'.input = in /\ asked'.context = ctx /\ asked'.draw = 0
      BY <2>2 DEF Reuse, Respond
    <3>3. ResultIsFresh'
      BY <2>2, <3>1, <3>2 DEF ResultIsFresh, Reuse, Respond
    <3> QED
      BY <2>2, <3>3 DEF IInv, TypeOK, EntryIsFresh, SeenIsRevision, ReservedIsOwned,
         Reuse, Respond, Saw, Advanced, Bytes, Revisions
  <2>3. ASSUME NEW r \in Revisions, NEW in \in Inputs, NEW ctx \in Contexts,
               NEW draw \in Draws, Compute(r, in, ctx, draw)
        PROVE  IInv'
    <3>1. ResultIsFresh'
      BY <2>3 DEF ResultIsFresh, Compute, Respond
    <3> QED
      BY <2>3, <3>1 DEF IInv, TypeOK, EntryIsFresh, SeenIsRevision, ReservedIsOwned,
         Compute, Respond, Saw, Advanced, Bytes, Revisions
  <2>4. ASSUME NEW r \in Revisions, NEW in \in Inputs, NEW ctx \in Contexts,
               NEW draw \in Draws, Replace(r, in, ctx, draw)
        PROVE  IInv'
    <3>1. Value(in, ctx, draw) = Value(in, ctx, 0)
      BY <2>4, MatchingValue DEF Replace
    <3>2. ResultIsFresh'
      BY <2>4 DEF ResultIsFresh, Replace, Respond
    <3>3. ~in.random
      BY <2>4 DEF Replace
    <3>4. entry' # None
      BY <2>4, RecordIsSome DEF Replace
    <3>5. entry'.expression = in /\ entry'.context = ctx /\ entry'.value = Value(in, ctx, 0)
      BY <2>4, <3>1 DEF Replace
    <3>6. EntryIsFresh'
      BY <3>3, <3>5 DEF EntryIsFresh
    <3>7. ReservedIsOwned'
      BY <2>4, <3>4, <3>5 DEF ReservedIsOwned, Bytes, Replace
    <3>8. SeenIsRevision'
      BY <2>4 DEF IInv, SeenIsRevision, Replace, Replaces, Saw
    <3>9. TypeOK'
      BY <2>4, <3>5, InputShape DEF IInv, TypeOK, SeenIsRevision, Replace, Replaces, Granted,
         Respond, Saw, Revisions
    <3> QED  BY <3>2, <3>6, <3>7, <3>8, <3>9 DEF IInv
  <2>5. ASSUME NEW r \in Revisions, NEW in \in Inputs, NEW ctx \in Contexts,
               ReplaceRefused(r, in, ctx)
        PROVE  IInv'
    BY <2>5 DEF IInv, TypeOK, EntryIsFresh, SeenIsRevision, ReservedIsOwned, ResultIsFresh,
       ReplaceRefused, Refuse, Bytes
  <2>6. CASE Clear
    BY <2>6 DEF IInv, TypeOK, EntryIsFresh, SeenIsRevision, ReservedIsOwned, ResultIsFresh,
       Clear, Bytes
  <2>7. CASE UNCHANGED vars
    BY <2>7 DEF IInv, TypeOK, EntryIsFresh, SeenIsRevision, ReservedIsOwned, ResultIsFresh,
       Bytes, vars
  <2> QED  BY <2>1, <2>2, <2>3, <2>4, <2>5, <2>6, <2>7 DEF Next
<1> QED  BY <1>1, <1>2, PTL DEF Spec

-----------------------------------------------------------------------------
(* The cache keeps its types and its limit. *)
THEOREM TypeCorrect == Spec => []TypeOK
<1>1. IInv => TypeOK  BY DEF IInv
<1> QED  BY <1>1, Invariance, PTL

(* Every result is what a fresh evaluation would give, in any order of
   requests, for any expressions and settings. *)
THEOREM ResultsAreFresh == Spec => []ResultIsFresh
<1>1. IInv => ResultIsFresh  BY DEF IInv
<1> QED  BY <1>1, Invariance, PTL

(* The reservation is what the cache owns. *)
THEOREM ReservationIsExact == Spec => []ReservedIsOwned
<1>1. IInv => ReservedIsOwned  BY DEF IInv
<1> QED  BY <1>1, Invariance, PTL

(* No older request replaces the entry, however many requests came between. *)
THEOREM NewerWorkIsKept == Spec => NewerWorkStays
<1>1. IInv /\ [Next]_vars => [entry' # entry /\ entry' # None => seen' > seen]_vars
  <2> SUFFICES ASSUME IInv, Next, entry' # entry, entry' # None
               PROVE  seen' > seen
    OBVIOUS
  <2>1. PICK r \in Revisions, in \in Inputs, ctx \in Contexts, draw \in Draws :
          Replace(r, in, ctx, draw)
    BY DEF Next, Fail, Reuse, Compute, ReplaceRefused, Clear
  <2> QED
    BY <2>1, CacheAssumption DEF CacheAssumption, IInv, TypeOK, SeenIsRevision, Replace,
       Replaces, Saw, Revisions
<1> QED  BY <1>1, Invariance, PTL DEF Spec, NewerWorkStays

-----------------------------------------------------------------------------
(* Numbers *)

(* f is the value of the first i digits, for every i. *)
Values(f, digits) ==
  f = [i \in 0 .. Len(digits) |-> IF i = 0 THEN 0 ELSE 10 * f[i - 1] + digits[i]]

(* f is what the loop over the digits has come to after i of them. *)
Counts(f, digits, max) ==
  f = [i \in 0 .. Len(digits) |->
         IF i = 0 THEN Ok(0)
         ELSE IF f[i - 1].status = "OK"
              THEN IF f[i - 1].value > (max - digits[i]) \div 10 THEN Refused("OVERFLOW")
                   ELSE Ok(10 * f[i - 1].value + digits[i])
              ELSE f[i - 1]]

(* Spelled is the last value of its loop over the digits. *)
LEMMA NumberUnfolded ==
  ASSUME NEW digits
  PROVE  Spelled(digits) = (CHOOSE f : Values(f, digits))[Len(digits)]
  BY Zenon DEF Spelled, Loop, Values

(* DecimalNumber is the last answer of its loop over the digits. *)
LEMMA DecimalNumberUnfolded ==
  ASSUME NEW digits, NEW max
  PROVE  DecimalNumber(digits, max) = (CHOOSE f : Counts(f, digits, max))[Len(digits)]
  BY Zenon DEF DecimalNumber, LoopWhileOk, Turn, Counts

(* The value of digits is the last of the values of their prefixes. *)
LEMMA NumberLoop ==
  ASSUME NEW digits \in DigitLists
  PROVE  \E f \in [0 .. Len(digits) -> Nat] :
           /\ f[0] = 0 /\ \A i \in 1 .. Len(digits) : f[i] = 10 * f[i - 1] + digits[i]
           /\ Spelled(digits) = f[Len(digits)]
<1> DEFINE n == Len(digits)
           T == [i \in 1 .. n |-> [r \in Nat |-> 10 * r + digits[i]]]
<1>1. n \in Nat /\ \A i \in 1 .. n : digits[i] \in 0 .. 9
  BY DEF DigitLists
<1>2. \A r \in Nat, i \in 1 .. n : T[i][r] = 10 * r + digits[i]
  OBVIOUS
<1>3. T \in Turns(n, Nat)
  BY <1>1 DEF Turns
<1>4. n \in Nat /\ 0 \in Nat
  BY <1>1
<1> HIDE DEF n, T
<1>5. PICK f \in [0 .. n -> Nat] : f[0] = 0 /\ \A i \in 1 .. n : f[i] = T[i][f[i - 1]]
  <2>1. \E f : Course(f, n, Nat, 0, T)
    BY <1>3, <1>4, Iterates
  <2> QED
    BY <2>1 DEF Course
<1>6. ASSUME NEW i \in 1 .. n PROVE f[i] = 10 * f[i - 1] + digits[i]
  <2>1. i - 1 \in 0 .. n
    BY <1>4
  <2>2. f[i - 1] \in Nat
    BY <1>5, <2>1
  <2>3. f[i] = T[i][f[i - 1]]
    BY <1>5
  <2> QED
    BY <1>2, <2>2, <2>3
<1>7. f = [i \in 0 .. n |-> IF i = 0 THEN 0 ELSE 10 * f[i - 1] + digits[i]]
  <2>1. \A i \in 0 .. n : f[i] = IF i = 0 THEN 0 ELSE 10 * f[i - 1] + digits[i]
    <3> SUFFICES ASSUME NEW i \in 0 .. n, i # 0 PROVE f[i] = 10 * f[i - 1] + digits[i]
      BY <1>5
    <3>1. i \in 1 .. n
      BY <1>4
    <3> QED
      BY <1>6, <3>1
  <2> QED
    BY <1>5, <2>1
<1>8. Values(f, digits)
  BY <1>7, Zenon DEF Values, n
<1>9. PICK g : g = CHOOSE h : Values(h, digits)
  OBVIOUS
<1>10. Values(g, digits) /\ Spelled(digits) = g[n]
  BY <1>8, <1>9, NumberUnfolded, Zenon DEF n
<1>11. g = [i \in 0 .. n |-> IF i = 0 THEN 0 ELSE 10 * g[i - 1] + digits[i]]
  BY <1>10, Zenon DEF Values, n
<1>12. \A i \in 0 .. n : g[i] = IF i = 0 THEN 0 ELSE 10 * g[i - 1] + digits[i]
  BY <1>11, Zenon
<1> DEFINE C == {i \in 0 .. n : g[i] = f[i]}
<1>13. 0 \in C
  BY <1>4, <1>5, <1>12
<1>14. ASSUME NEW k \in 0 .. n - 1, k \in C PROVE k + 1 \in C
  <2>1. k + 1 \in 1 .. n /\ (k + 1) - 1 = k
    BY <1>4
  <2>2. f[k + 1] = 10 * f[k] + digits[k + 1]
    BY <1>6, <2>1
  <2>3. k + 1 \in 0 .. n /\ k + 1 # 0
    BY <1>4, <2>1
  <2>4. g[k + 1] = 10 * g[k] + digits[k + 1]
    BY <1>12, <2>1, <2>3
  <2> QED
    BY <1>14, <2>2, <2>3, <2>4
<1>15. n \in C
  <2>1. \A k \in 0 .. n : k \in C
    <3> HIDE DEF C
    <3> QED
      BY <1>4, <1>13, <1>14, Induction
  <2> QED
    BY <1>4, <2>1
<1>16. Spelled(digits) = f[n]
  BY <1>10, <1>15
<1> QED
  BY <1>5, <1>6, <1>16, Zenon DEF n

(* What may be answered to digits. *)
Counted == {Ok(v) : v \in Nat} \cup {Refused("OVERFLOW")}

Counting(r, d, max) ==
  IF r.status = "OK"
  THEN IF r.value > (max - d) \div 10 THEN Refused("OVERFLOW") ELSE Ok(10 * r.value + d)
  ELSE r

(* What is answered to digits is what the loop over them comes to. *)
LEMMA DecimalLoop ==
  ASSUME NEW digits \in DigitLists, NEW max \in Nat
  PROVE  \E f \in [0 .. Len(digits) -> Counted] :
           /\ f[0] = Ok(0)
           /\ \A i \in 1 .. Len(digits) : f[i] = Counting(f[i - 1], digits[i], max)
           /\ DecimalNumber(digits, max) = f[Len(digits)]
<1> DEFINE n == Len(digits)
           T == [i \in 1 .. n |-> [r \in Counted |-> Counting(r, digits[i], max)]]
<1>1. n \in Nat /\ \A i \in 1 .. n : digits[i] \in 0 .. 9
  BY DEF DigitLists
<1>2. Ok(0) \in Counted
  BY DEF Counted
<1>3. ASSUME NEW r \in Counted, NEW d \in 0 .. 9
      PROVE  Counting(r, d, max) \in Counted
  <2>1. CASE r = Refused("OVERFLOW")
    BY <2>1 DEF Counting, Refused, Counted
  <2>2. CASE \E v \in Nat : r = Ok(v)
    <3>1. PICK v \in Nat : r = Ok(v)
      BY <2>2
    <3>2. Counting(r, d, max) = IF v > (max - d) \div 10 THEN Refused("OVERFLOW") ELSE Ok(10 * v + d)
      BY <3>1 DEF Counting, Ok
    <3>3. 10 * v + d \in Nat
      OBVIOUS
    <3> QED
      BY <3>2, <3>3, Zenon DEF Counted
  <2> QED
    BY <2>1, <2>2 DEF Counted
<1>4. T \in Turns(n, Counted)
  BY <1>1, <1>3 DEF Turns
<1>5. \A r \in Counted, i \in 1 .. n : T[i][r] = Counting(r, digits[i], max)
  OBVIOUS
<1> HIDE DEF n, T
<1>6. PICK f \in [0 .. n -> Counted] : f[0] = Ok(0) /\ \A i \in 1 .. n : f[i] = T[i][f[i - 1]]
  <2>1. \E f : Course(f, n, Counted, Ok(0), T)
    BY <1>1, <1>2, <1>4, Iterates
  <2> QED
    BY <2>1 DEF Course
<1>7. ASSUME NEW i \in 1 .. n PROVE f[i] = Counting(f[i - 1], digits[i], max)
  <2>1. i - 1 \in 0 .. n
    BY <1>1
  <2> QED
    BY <1>5, <1>6, <2>1
<1>8. \A i \in 0 .. n : f[i] = IF i = 0 THEN Ok(0) ELSE Counting(f[i - 1], digits[i], max)
  <2> SUFFICES ASSUME NEW i \in 0 .. n, i # 0 PROVE f[i] = Counting(f[i - 1], digits[i], max)
    BY <1>6
  <2>1. i \in 1 .. n
    BY <1>1
  <2> QED
    BY <1>7, <2>1
<1>9. f = [i \in 0 .. n |-> IF i = 0 THEN Ok(0) ELSE Counting(f[i - 1], digits[i], max)]
  BY <1>6, <1>8
<1>10. Counts(f, digits, max)
  BY <1>9, Zenon DEF Counts, Counting, n
<1>11. PICK g : g = CHOOSE h : Counts(h, digits, max)
  OBVIOUS
<1>12. Counts(g, digits, max) /\ DecimalNumber(digits, max) = g[n]
  BY <1>10, <1>11, DecimalNumberUnfolded, Zenon DEF n
<1>13. g = [i \in 0 .. n |-> IF i = 0 THEN Ok(0) ELSE Counting(g[i - 1], digits[i], max)]
  BY <1>12, Zenon DEF Counts, Counting, n
<1>14. \A i \in 0 .. n : g[i] = IF i = 0 THEN Ok(0) ELSE Counting(g[i - 1], digits[i], max)
  BY <1>13, Zenon
<1> DEFINE C == {i \in 0 .. n : g[i] = f[i]}
<1>15. 0 \in C
  BY <1>1, <1>6, <1>14
<1>16. ASSUME NEW k \in 0 .. n - 1, k \in C PROVE k + 1 \in C
  <2>1. k + 1 \in 1 .. n /\ (k + 1) - 1 = k /\ k + 1 \in 0 .. n /\ k + 1 # 0
    BY <1>1
  <2>2. f[k + 1] = Counting(f[k], digits[k + 1], max)
    BY <1>7, <2>1
  <2>3. g[k + 1] = Counting(g[k], digits[k + 1], max)
    BY <1>14, <2>1
  <2> QED
    BY <1>16, <2>1, <2>2, <2>3
<1>17. n \in C
  <2>1. \A k \in 0 .. n : k \in C
    <3> HIDE DEF C
    <3> QED
      BY <1>1, <1>15, <1>16, Induction
  <2> QED
    BY <1>1, <2>1
<1>18. DecimalNumber(digits, max) = f[n]
  BY <1>12, <1>17
<1> QED
  BY <1>6, <1>7, <1>18, Zenon DEF n

(* The check before a digit is appended is exact. *)
LEMMA DigitFits ==
  ASSUME NEW v \in Nat, NEW d \in 0 .. 9, NEW max \in Nat
  PROVE  v > (max - d) \div 10 <=> 10 * v + d > max
  OBVIOUS

(* A number is read exactly or refused, however long it is. *)
LEMMA NumberExact ==
  ASSUME NEW digits \in DigitLists, NEW max \in Nat
  PROVE  /\ Spelled(digits) \in Nat
         /\ DecimalNumber(digits, max) = IF Spelled(digits) > max THEN Refused("OVERFLOW")
                                         ELSE Ok(Spelled(digits))
<1> DEFINE n == Len(digits)
<1>1. n \in Nat /\ \A i \in 1 .. n : digits[i] \in 0 .. 9
  BY DEF DigitLists
<1>2. PICK f \in [0 .. n -> Nat] :
        /\ f[0] = 0 /\ \A i \in 1 .. n : f[i] = 10 * f[i - 1] + digits[i]
        /\ Spelled(digits) = f[n]
  BY NumberLoop
<1>3. PICK g : /\ g[0] = Ok(0) /\ \A i \in 1 .. n : g[i] = Counting(g[i - 1], digits[i], max)
               /\ DecimalNumber(digits, max) = g[n]
  BY DecimalLoop
<1> DEFINE C == {i \in 0 .. n : g[i] = IF f[i] > max THEN Refused("OVERFLOW") ELSE Ok(f[i])}
<1>4. 0 \in C
  BY <1>1, <1>2, <1>3
<1>5. ASSUME NEW k \in 0 .. n - 1, k \in C PROVE k + 1 \in C
  <2>1. k \in 0 .. n /\ k + 1 \in 1 .. n /\ k + 1 \in 0 .. n /\ (k + 1) - 1 = k
    BY <1>1
  <2>2. f[k] \in Nat /\ f[k + 1] = 10 * f[k] + digits[k + 1] /\ digits[k + 1] \in 0 .. 9
    BY <1>1, <1>2, <2>1
  <2>3. g[k + 1] = Counting(g[k], digits[k + 1], max)
    BY <1>3, <2>1
  <2>4. CASE f[k] > max
    BY <1>5, <2>1, <2>2, <2>3, <2>4 DEF Counting, Refused
  <2>5. CASE ~(f[k] > max)
    <3>1. g[k + 1] = IF f[k] > (max - digits[k + 1]) \div 10 THEN Refused("OVERFLOW")
                     ELSE Ok(f[k + 1])
      BY <1>5, <2>2, <2>3, <2>5 DEF Counting, Ok
    <3>2. f[k] > (max - digits[k + 1]) \div 10 <=> f[k + 1] > max
      BY <2>2, DigitFits
    <3> QED
      BY <2>1, <3>1, <3>2
  <2> QED
    BY <2>4, <2>5
<1>6. n \in C
  <2>1. \A k \in 0 .. n : k \in C
    <3> HIDE DEF C, n
    <3> QED
      BY <1>1, <1>4, <1>5, Induction
  <2> QED
    BY <1>1, <2>1
<1> QED
  BY <1>1, <1>2, <1>3, <1>6

-----------------------------------------------------------------------------
(* Leases *)

(* What an answer about a lease may say to a page of another origin. *)
OnlyReads(lease) == lease.status = "OK" => lease.value \in {"none", "READ"}

(* No lease, a reading one and a refusal all change nothing. *)
LEMMA AnswersOnlyRead ==
  /\ OnlyReads(Ok("none"))
  /\ OnlyReads(Ok("READ"))
  /\ OnlyReads(Refused("INVALID_ARGUMENT"))
  BY DEF OnlyReads, Ok, Refused

(* The routes of graphs and equations read at most, by whatever method. *)
LEMMA ApiOnlyReads ==
  ASSUME NEW path, NEW fields, NEW body
  PROVE  OnlyReads(ApiAccess("GET", path, fields, body))
<1>1. \A adaptive : OnlyReads(GraphAccess("GET", fields, adaptive))
  BY AnswersOnlyRead, Zenon DEF GraphAccess
<1>2. \A keys, needed, low, high : OnlyReads(Stateless("GET", fields, keys, needed, low, high))
  BY AnswersOnlyRead, Zenon DEF Stateless
<1>3. OnlyReads(EquationAccess("GET", fields))
  <2>1. EquationAccess("GET", fields) = Refused("INVALID_ARGUMENT")
        \/ \E keys, needed, low, high :
             EquationAccess("GET", fields) = Stateless("GET", fields, keys, needed, low, high)
    BY Zenon DEF EquationAccess
  <2> QED
    BY <1>2, <2>1, AnswersOnlyRead, Zenon
<1>4. OnlyReads(SessionAccess("GET", path, fields, body))
  BY AnswersOnlyRead, Zenon DEF SessionAccess
<1> QED
  BY <1>1, <1>2, <1>3, <1>4, Zenon DEF ApiAccess

(* No request that is refused or gets is given more than a lease to read. *)
LEMMA RoutesOnlyRead ==
  ASSUME NEW method, NEW path, NEW fields, NEW body, NEW frame,
         ~frame.allowed \/ method = "GET"
  PROVE  OnlyReads(LeaseOf(Route(method, path, fields, body, frame).handler,
                           method, path, fields, body))
<1> DEFINE h == Route(method, path, fields, body, frame).handler
<1>1. CASE method # "GET"
  <2>1. h = "none"
    BY <1>1 DEF Route, Answer
  <2>2. LeaseOf("none", method, path, fields, body) = Ok("none")
    BY DEF LeaseOf
  <2> QED
    BY <2>1, <2>2, AnswersOnlyRead
<1>2. CASE method = "GET"
  <2>1. h \in {"session", "units", "none"}
    BY <1>2 DEF Route, RouteGet, Handler, Answer
  <2>2. CASE h = "session"
    BY <1>2, <2>2, ApiOnlyReads, AnswersOnlyRead DEF LeaseOf
  <2>3. CASE h \in {"units", "none"}
    BY <2>3, AnswersOnlyRead DEF LeaseOf
  <2> QED
    BY <2>1, <2>2, <2>3
<1> QED
  BY <1>1, <1>2

(* No page of another origin and no GET, whatever its target, query and body,
   is ever given a lease under which a session or a cached value changes, nor
   told to change one (web_server.c:948-1130). *)
THEOREM ForeignPagesOnlyRead == SpecHttp => []ForeignOriginsOnlyRead
<1>1. InitHttp => ForeignOriginsOnlyRead
  BY DEF InitHttp, Idle, ForeignOriginsOnlyRead
<1>2. ForeignOriginsOnlyRead /\ [NextHttp]_call => ForeignOriginsOnlyRead'
  <2> SUFFICES ASSUME ForeignOriginsOnlyRead, [NextHttp]_call, call'.op = "route",
                      ~call'.in.frame.allowed \/ call'.in.method = "GET"
               PROVE  /\ OnlyReads(call'.answer.lease)
                      /\ call'.answer.mutation.status # "OK"
    BY DEF ForeignOriginsOnlyRead, OnlyReads
  <2>1. CASE UNCHANGED call
    BY <2>1 DEF ForeignOriginsOnlyRead, OnlyReads
  <2>2. CASE \E method, path, fields, body, frame : RouteRequest(method, path, fields, body, frame)
    <3>1. PICK method, path, fields, body, frame : RouteRequest(method, path, fields, body, frame)
      BY <2>2
    <3> DEFINE lease == LeaseOf(Route(method, path, fields, body, frame).handler,
                                method, path, fields, body)
    <3>2. /\ call'.in.frame = frame /\ call'.in.method = method
          /\ call'.answer.lease = lease
          /\ call'.answer.mutation = IF lease = Ok("RETAINED") THEN SessionMutation(path, fields, body)
                                     ELSE Refused("none")
      BY <3>1 DEF RouteRequest, Ask
    <3>3. OnlyReads(lease)
      BY <3>2, RoutesOnlyRead
    <3>4. lease # Ok("RETAINED")
      BY <3>3 DEF OnlyReads, Ok
    <3> QED
      BY <3>2, <3>3, <3>4 DEF Refused
  <2>3. CASE call'.op # "route"
    BY <2>3
  <2> QED
    BY <2>1, <2>2, <2>3 DEF NextHttp, Read, ReadDecimal, ReadText, ReadOrigin, ParseTarget, Ask
<1> QED
  BY <1>1, <1>2, PTL DEF SpecHttp

-----------------------------------------------------------------------------
(* Targets *)

(* A number that is found is found first somewhere. *)
LEMMA FirstOf ==
  ASSUME NEW S, S \subseteq Nat, S # {}
  PROVE  \E n \in S : \A m \in S : n <= m
<1>1. PICK n \in S : \A m \in S : ~ (<<m, n>> \in OpToRel(<, Nat))
  BY WFMin, NatLessThanWellFounded
<1>2. ASSUME NEW m \in S PROVE n <= m
  <2>1. m \in Nat /\ n \in Nat
    OBVIOUS
  <2>2. m < n => <<m, n>> \in OpToRel(<, Nat)
    BY <2>1 DEF OpToRel
  <2>3. ~ (<<m, n>> \in OpToRel(<, Nat))
    BY <1>1
  <2>4. ~ (m < n)
    BY <2>2, <2>3, Zenon
  <2> QED
    BY <2>1, <2>4
<1> QED
  BY <1>2

KeyNames == {"precision", "angle", "notation", "form", "client", "revision", "action"}

(* The keys have the places in which a text names them. *)
LEMMA Places ==
  /\ Place("precision") = 1 /\ Place("angle") = 2 /\ Place("notation") = 3
  /\ Place("form") = 4 /\ Place("client") = 5 /\ Place("revision") = 6
  /\ Place("action") = 7
<1>1. /\ Order[1] = "precision" /\ Order[2] = "angle" /\ Order[3] = "notation"
      /\ Order[4] = "form" /\ Order[5] = "client" /\ Order[6] = "revision"
      /\ Order[7] = "action"
  BY DEF Order
<1>2. \A p \in 1 .. 7 : p \in {1, 2, 3, 4, 5, 6, 7}
  OBVIOUS
<1>3. \A key, p : p \in 1 .. 7 /\ Order[p] = key /\ (\A q \in 1 .. 7 : Order[q] = key => q = p)
        => Place(key) = p
  BY Zenon DEF Place
<1>4. /\ \A q \in 1 .. 7 : Order[q] = "precision" => q = 1
      /\ \A q \in 1 .. 7 : Order[q] = "angle" => q = 2
      /\ \A q \in 1 .. 7 : Order[q] = "notation" => q = 3
      /\ \A q \in 1 .. 7 : Order[q] = "form" => q = 4
      /\ \A q \in 1 .. 7 : Order[q] = "client" => q = 5
      /\ \A q \in 1 .. 7 : Order[q] = "revision" => q = 6
      /\ \A q \in 1 .. 7 : Order[q] = "action" => q = 7
  BY <1>1, <1>2
<1> QED
  BY <1>1, <1>3, <1>4

(* A field with a key that is none is not admitted, and two keys have two places. *)
LEMMA PlaceOfAdmitted ==
  /\ \A f : Admits(f) => f.key \in KeyNames
  /\ \A key \in KeyNames : Place(key) \in 1 .. 7
  /\ \A key, other \in KeyNames : Place(key) = Place(other) => key = other
<1>1. \A f : Admits(f) => f.key \in KeyNames
  BY Zenon DEF Admits, KeyNames
<1>2. \A key \in KeyNames : Place(key) \in 1 .. 7
  BY Places DEF KeyNames
<1>3. \A key, other \in KeyNames : Place(key) = Place(other) => key = other
  BY Places DEF KeyNames
<1> QED
  BY <1>1, <1>2, <1>3

(* What is still to be read of a target that is cut off after m fields, where
   what was cut off has a place after p: if the target says something, then
   what is left of it has its places up to p. *)
Reached(fields, m, p) ==
  /\ m \in 0 .. Len(fields)
  /\ fields # <<>> => m >= 1
  /\ \A i \in m + 1 .. Len(fields) : Admits(fields[i]) /\ Place(fields[i].key) > p
  /\ \A i, j \in m + 1 .. Len(fields) : i < j => Place(fields[i].key) < Place(fields[j].key)
  /\ \A i \in m + 1 .. Len(fields) :
       fields[i].key \in {"client", "revision"} => {"client", "revision"} \subseteq Keys(fields)
  /\ Says(fields) => \A i \in 1 .. m : Place(fields[i].key) <= p

(* What is left of a text once all but its first m fields are cut off. *)
Text(fields, m) == SubSeq(fields, 1, m)

(* The first m elements of a sequence. *)
LEMMA Beginning ==
  ASSUME NEW R, NEW s \in Seq(R), NEW m \in 0 .. Len(s)
  PROVE  /\ SubSeq(s, 1, m) \in Seq(R)
         /\ Len(SubSeq(s, 1, m)) = m
         /\ \A i \in 1 .. m : SubSeq(s, 1, m)[i] = s[i]
  OBVIOUS

(* What is left has the first fields of the whole. *)
LEMMA TextFields ==
  ASSUME NEW fields \in QueryFields, NEW m \in 0 .. Len(fields)
  PROVE  /\ Text(fields, m) \in QueryFields
         /\ Len(Text(fields, m)) = m
         /\ \A i \in 1 .. m : Text(fields, m)[i] = fields[i]
         /\ \A k \in 0 .. m : SubSeq(Text(fields, m), 1, k) = Text(fields, k)
<1> DEFINE R == [key : STRING, value : STRING, number : Int]
<1> HIDE DEF R
<1>1. fields \in Seq(R)
  BY DEF QueryFields, R
<1>2. /\ Text(fields, m) \in Seq(R)
      /\ Len(Text(fields, m)) = m
      /\ \A i \in 1 .. m : Text(fields, m)[i] = fields[i]
  BY <1>1, Beginning DEF Text
<1>3. ASSUME NEW k \in 0 .. m PROVE SubSeq(Text(fields, m), 1, k) = Text(fields, k)
  <2> DEFINE a == SubSeq(Text(fields, m), 1, k)
             b == Text(fields, k)
  <2>1. k \in 0 .. Len(fields) /\ k \in 0 .. Len(Text(fields, m)) /\ \A i \in 1 .. k : i \in 1 .. m
    BY <1>1, <1>2
  <2>2. a \in Seq(R) /\ Len(a) = k /\ \A i \in 1 .. k : a[i] = Text(fields, m)[i]
    BY <1>2, <2>1, Beginning
  <2>3. b \in Seq(R) /\ Len(b) = k /\ \A i \in 1 .. k : b[i] = fields[i]
    BY <1>1, <2>1, Beginning DEF Text
  <2> HIDE DEF a, b
  <2>4. \A i \in 1 .. Len(a) : a[i] = b[i]
    BY <1>2, <2>1, <2>2, <2>3
  <2>5. a = b
    BY <2>2, <2>3, <2>4, SeqEqual
  <2> QED
    BY <2>5 DEF a, b
<1> QED
  BY <1>2, <1>3 DEF QueryFields, R

(* Nothing is left of a text when no field is. *)
LEMMA TextEmpty ==
  ASSUME NEW fields \in QueryFields, NEW m \in 0 .. Len(fields)
  PROVE  Text(fields, m) = <<>> <=> m = 0
  BY DEF Text, QueryFields

(* Where a key is found in the text of the first m fields. *)
LEMMA FoundFirst ==
  ASSUME NEW fields \in QueryFields, NEW m \in 0 .. Len(fields), NEW key,
         Found(Text(fields, m), key)
  PROVE  \E i \in 2 .. m : /\ At(Text(fields, m), key) = i
                           /\ fields[i].key = key
                           /\ \A j \in 2 .. i - 1 : fields[j].key # key
<1> DEFINE g == Text(fields, m)
           S == {i \in Nat : i \in 2 .. m /\ g[i].key = key}
<1>1. Len(g) = m /\ m \in Nat
  BY TextFields
<1>2. S # {} /\ S \subseteq Nat
  BY <1>1 DEF Found
<1>3. PICK i \in S : \A j \in S : i <= j
  BY <1>2, FirstOf
<1>4. i \in 2 .. m /\ g[i].key = key /\ \A j \in 2 .. i - 1 : g[j].key # key
  BY <1>3
<1> HIDE DEF S, g
<1>5. \E k \in 2 .. Len(g) : g[k].key = key /\ \A j \in 2 .. k - 1 : g[j].key # key
  BY <1>1, <1>4
<1>6. /\ At(g, key) \in 2 .. m
      /\ g[At(g, key)].key = key
      /\ \A j \in 2 .. At(g, key) - 1 : g[j].key # key
  BY <1>1, <1>5, Zenon DEF At
<1>7. \A j \in 2 .. m : g[j] = fields[j]
  BY TextFields DEF g
<1> QED
  BY <1>1, <1>6, <1>7 DEF g

(* What a suffix comes to: it is not there, or it is the last field, or the
   text is refused for it. *)
SuffixAnswers(r, options, fields, m, key, allowed) ==
  \/ /\ r = Ok([options |-> options, fields |-> Text(fields, m)])
     /\ \A i \in 1 .. m : fields[i].key # key
  \/ /\ m >= 2 /\ fields[m].key = key /\ fields[m].value \in allowed
     /\ r = Ok([options |-> [options EXCEPT ![key] = fields[m].value],
                fields |-> Text(fields, m - 1)])
     /\ \A i \in 1 .. m - 1 : fields[i].key # key
  \/ /\ r = Refused("BAD")
     /\ \E i \in 2 .. m : fields[i].key = key /\ (i < m \/ fields[i].value \notin allowed)

(* A suffix of a text is cut off, or left, or refused, and always one of them. *)
LEMMA SuffixCases ==
  ASSUME NEW fields \in QueryFields, NEW m \in 0 .. Len(fields), NEW options,
         NEW key, NEW allowed, m >= 1 => fields[1].key # key
  PROVE  SuffixAnswers(Suffix(options, Text(fields, m), key, allowed),
                       options, fields, m, key, allowed)
<1> DEFINE g == Text(fields, m)
           r == Suffix(options, g, key, allowed)
<1>1. /\ Len(g) = m /\ \A i \in 1 .. m : g[i] = fields[i]
      /\ m \in Nat
  BY TextFields
<1>2. CASE ~Found(g, key)
  <2>1. r = Ok([options |-> options, fields |-> g])
    BY <1>2, Zenon DEF Suffix
  <2>2. \A i \in 1 .. m : fields[i].key # key
    BY <1>1, <1>2 DEF Found
  <2> HIDE DEF g, r
  <2> QED
    BY <2>1, <2>2, Zenon DEF SuffixAnswers, g, r
<1>3. CASE Found(g, key)
  <2>1. PICK i \in 2 .. m : /\ At(g, key) = i /\ fields[i].key = key
                            /\ \A j \in 2 .. i - 1 : fields[j].key # key
    BY <1>3, FoundFirst
  <2>2. g[i] = fields[i] /\ i - 1 \in 0 .. m
    BY <1>1
  <2>3. SubSeq(g, 1, i - 1) = Text(fields, i - 1)
    BY <2>2, TextFields
  <2> HIDE DEF g
  <2>4. r = IF i < m \/ fields[i].value \notin allowed THEN Refused("BAD")
            ELSE Ok([options |-> [options EXCEPT ![key] = fields[i].value],
                     fields |-> Text(fields, i - 1)])
    BY <1>1, <1>3, <2>1, <2>2, <2>3, Zenon DEF Suffix
  <2> HIDE DEF r
  <2>5. CASE i < m \/ fields[i].value \notin allowed
    <3>1. r = Refused("BAD")
      BY <2>4, <2>5
    <3> QED
      BY <2>1, <2>5, <3>1, Zenon DEF SuffixAnswers, r, g
  <2>6. CASE ~(i < m \/ fields[i].value \notin allowed)
    <3>1. i = m /\ m >= 2
      BY <2>6, <1>1
    <3>2. \A k \in 1 .. m - 1 : fields[k].key # key
      BY <1>1, <2>1, <3>1
    <3>3. r = Ok([options |-> [options EXCEPT ![key] = fields[m].value],
                  fields |-> Text(fields, m - 1)])
      BY <2>4, <2>6, <3>1
    <3> QED
      BY <2>1, <2>6, <3>1, <3>2, <3>3, Zenon DEF SuffixAnswers, r, g
  <2> QED
    BY <2>5, <2>6
<1> QED
  BY <1>2, <1>3

(* The field m says what the text says of the key. *)
SpeaksFor(m, fields, key) ==
  /\ key \in Keys(fields)
  /\ \A fallback : ValueOf(fields, key, fallback) = fields[m].value
  /\ \A fallback : NumberIn(fields, key, fallback) = fields[m].number

(* What a key says that stands once. *)
LEMMA StandsOnce ==
  ASSUME NEW fields \in QueryFields, NEW m \in 1 .. Len(fields), NEW key,
         \A i \in 1 .. Len(fields) : fields[i].key = key <=> i = m
  PROVE  SpeaksFor(m, fields, key)
<1>1. key \in Keys(fields)
  BY DEF Keys
<1>2. m = CHOOSE i \in 1 .. Len(fields) : fields[i].key = key
  <2>1. \A i : (i \in 1 .. Len(fields) /\ fields[i].key = key) <=> i = m
    OBVIOUS
  <2> QED
    BY <2>1, Zenon
<1> QED
  BY <1>1, <1>2, Zenon DEF SpeaksFor, ValueOf, NumberIn

(* In a target that says something the places ascend. *)
LEMMA Ascending ==
  ASSUME NEW fields \in QueryFields, Says(fields)
  PROVE  /\ \A i \in 1 .. Len(fields) : /\ Admits(fields[i]) /\ fields[i].key \in KeyNames
                                        /\ Place(fields[i].key) \in 1 .. 7
         /\ \A i, j \in 1 .. Len(fields) : i < j => Place(fields[i].key) < Place(fields[j].key)
  BY PlaceOfAdmitted, Zenon DEF Says

(* What a target says of a key is put into the options and taken off. *)
Put(options, key, v) == [options EXCEPT ![key] = v]
Taken(fields, key, options, r) ==
  \/ r = Refused("BAD") /\ ~Says(fields)
  \/ \E k \in 0 .. Len(fields) :
       /\ Reached(fields, k, Place(key) - 1)
       /\ r = Ok([options |-> IF key \in Keys(fields)
                              THEN Put(options, key, ValueOf(fields, key, "none")) ELSE options,
                  fields |-> Text(fields, k)])

(* A suffix is taken off if the target says something, and is what it says. *)
LEMMA SuffixReaches ==
  ASSUME NEW fields \in QueryFields, IsEvaluationTarget(fields),
         NEW key \in KeyNames \ {"precision", "client", "revision"}, NEW allowed,
         \A f : f.key = key => (Admits(f) <=> f.value \in allowed),
         NEW options, NEW m, Reached(fields, m, Place(key))
  PROVE  Taken(fields, key, options, Suffix(options, Text(fields, m), key, allowed))
<1> DEFINE r == Suffix(options, Text(fields, m), key, allowed)
           P == Place(key)
           n == Len(fields)
           At2(i) == Place(fields[i].key)
<1>1. /\ m \in 0 .. n /\ n \in Nat /\ P \in 1 .. 7
      /\ fields # <<>> => m >= 1
      /\ \A i \in m + 1 .. n : Admits(fields[i]) /\ At2(i) > P
      /\ \A i, j \in m + 1 .. n : i < j => At2(i) < At2(j)
      /\ \A i \in m + 1 .. n :
           fields[i].key \in {"client", "revision"} => {"client", "revision"} \subseteq Keys(fields)
      /\ Says(fields) => \A i \in 1 .. m : At2(i) <= P
  <2>1. P \in 1 .. 7
    BY PlaceOfAdmitted, Zenon
  <2>2. n \in Nat
    BY DEF QueryFields
  <2> QED
    BY <2>1, <2>2, Zenon DEF Reached
<1>2. /\ m >= 1 => fields[1].key # key
      /\ fields = <<>> => n = 0
  BY <1>1 DEF IsEvaluationTarget
<1>3. /\ \A i \in m + 1 .. n : At2(i) \in 1 .. 7
      /\ Says(fields) => \A i \in 1 .. n : fields[i].key \in KeyNames /\ At2(i) \in 1 .. 7
      /\ Says(fields) => \A i, j \in 1 .. n : i < j => At2(i) < At2(j)
  BY <1>1, Ascending, PlaceOfAdmitted
<1>4. \A i \in m + 1 .. n : fields[i].key # key
  BY <1>1
<1>5. CASE /\ r = Ok([options |-> options, fields |-> Text(fields, m)])
           /\ \A i \in 1 .. m : fields[i].key # key
  <2>1. key \notin Keys(fields)
    BY <1>1, <1>4, <1>5 DEF Keys
  <2>2. Says(fields) => \A i \in 1 .. m : At2(i) <= P - 1
    <3> SUFFICES ASSUME Says(fields), NEW i \in 1 .. m PROVE At2(i) <= P - 1
      OBVIOUS
    <3>1. At2(i) # P
      BY <1>1, <1>3, <1>5, PlaceOfAdmitted
    <3> QED
      BY <1>1, <1>3, <3>1
  <2>3. \A i \in m + 1 .. n : At2(i) > P - 1
    BY <1>1, <1>3
  <2>4. Reached(fields, m, P - 1)
    BY <1>1, <2>2, <2>3, Zenon DEF Reached
  <2> QED
    BY <1>1, <1>5, <2>1, <2>4, Zenon DEF Taken
<1>6. CASE /\ m >= 2 /\ fields[m].key = key /\ fields[m].value \in allowed
           /\ r = Ok([options |-> [options EXCEPT ![key] = fields[m].value],
                      fields |-> Text(fields, m - 1)])
           /\ \A i \in 1 .. m - 1 : fields[i].key # key
  <2>1. m \in 1 .. n /\ m - 1 \in 0 .. n /\ m - 1 >= 1 /\ (m - 1) + 1 = m
        /\ \A i \in 1 .. n : i \in 1 .. m - 1 \/ i = m \/ i \in m + 1 .. n
    BY <1>1, <1>6
  <2>2. \A i \in 1 .. n : fields[i].key = key <=> i = m
    BY <1>1, <1>4, <1>6, <2>1
  <2>3. key \in Keys(fields) /\ ValueOf(fields, key, "none") = fields[m].value
    <3>1. m \in 1 .. Len(fields) /\ fields \in QueryFields
      BY <1>1, <2>1
    <3>2. \A i \in 1 .. Len(fields) : fields[i].key = key <=> i = m
      BY <2>2
    <3> HIDE DEF r, P, n, At2
    <3>3. SpeaksFor(m, fields, key)
      BY <3>1, <3>2, StandsOnce
    <3> QED
      BY <3>3, Zenon DEF SpeaksFor
  <2>4. Admits(fields[m]) /\ At2(m) = P
    BY <1>6
  <2>5. \A i \in m .. n : Admits(fields[i]) /\ At2(i) > P - 1
    BY <1>1, <1>3, <2>4
  <2>6. \A i, j \in m .. n : i < j => At2(i) < At2(j)
    BY <1>1, <1>3, <2>4
  <2>7. \A i \in m .. n :
          fields[i].key \in {"client", "revision"} => {"client", "revision"} \subseteq Keys(fields)
    BY <1>1, <1>6
  <2>8. Says(fields) => \A i \in 1 .. m - 1 : At2(i) <= P - 1
    <3> SUFFICES ASSUME Says(fields), NEW i \in 1 .. m - 1 PROVE At2(i) <= P - 1
      OBVIOUS
    <3>1. At2(i) < P /\ At2(i) \in 1 .. 7
      BY <1>3, <2>1, <2>4
    <3> QED
      BY <1>1, <3>1
  <2>9. Reached(fields, m - 1, P - 1)
    BY <2>1, <2>5, <2>6, <2>7, <2>8, Zenon DEF Reached
  <2> QED
    BY <1>6, <2>1, <2>3, <2>9, Zenon DEF Taken, Put
<1>7. CASE /\ r = Refused("BAD")
           /\ \E i \in 2 .. m : fields[i].key = key /\ (i < m \/ fields[i].value \notin allowed)
  <2>1. ASSUME Says(fields) PROVE FALSE
    <3>1. PICK i \in 2 .. m : fields[i].key = key /\ (i < m \/ fields[i].value \notin allowed)
      BY <1>7
    <3>2. i \in 1 .. n
      BY <1>1
    <3>3. fields[i].value \in allowed
      BY <2>1, <3>1, <3>2, Ascending
    <3>4. i < m
      BY <3>1, <3>3
    <3>5. i + 1 \in 1 .. m /\ i + 1 \in 1 .. n /\ i < i + 1
      BY <1>1, <3>4
    <3>6. P < At2(i + 1) /\ At2(i + 1) <= P /\ At2(i + 1) \in 1 .. 7
      BY <1>1, <1>3, <2>1, <3>1, <3>2, <3>5
    <3> QED
      BY <1>1, <3>6
  <2> QED
    BY <1>7, <2>1, Zenon DEF Taken
<1> QED
  <2> HIDE DEF r
  <2>1. \/ /\ r = Ok([options |-> options, fields |-> Text(fields, m)])
           /\ \A i \in 1 .. m : fields[i].key # key
        \/ /\ m >= 2 /\ fields[m].key = key /\ fields[m].value \in allowed
           /\ r = Ok([options |-> [options EXCEPT ![key] = fields[m].value],
                      fields |-> Text(fields, m - 1)])
           /\ \A i \in 1 .. m - 1 : fields[i].key # key
        \/ /\ r = Refused("BAD")
           /\ \E i \in 2 .. m : fields[i].key = key /\ (i < m \/ fields[i].value \notin allowed)
    <3>1. m \in 0 .. Len(fields) /\ (m >= 1 => fields[1].key # key)
      BY <1>1, <1>2
    <3>2. SuffixAnswers(r, options, fields, m, key, allowed)
      BY <3>1, SuffixCases DEF r
    <3> QED
      BY <3>2, Zenon DEF SuffixAnswers
  <2> QED
    BY <1>5, <1>6, <1>7, <2>1, Zenon DEF r

(* What the options of the cache come to. *)
LEMMA CacheCases ==
  ASSUME NEW fields \in QueryFields, NEW m \in 0 .. Len(fields), NEW options,
         m >= 1 => fields[1].key # "client"
  PROVE  LET parsed == [options |-> options, fields |-> Text(fields, m)]
             r == ParseCacheOptions(parsed)
         IN  \/ r = Ok(parsed) /\ \A i \in 1 .. m : fields[i].key # "client"
             \/ /\ m >= 3 /\ fields[m - 1].key = "client" /\ fields[m - 1].value = Client
                /\ fields[m].key = "revision" /\ ~(fields[m].number < 1)
                /\ r = Ok([options |-> [options EXCEPT !.client = Client,
                                                       !.revision = fields[m].number],
                           fields |-> Text(fields, m - 2)])
                /\ \A i \in 1 .. m - 2 : fields[i].key # "client"
             \/ /\ r = Refused("BAD")
                /\ \E i \in 2 .. m :
                     /\ fields[i].key = "client"
                     /\ \/ i + 1 # m \/ fields[i].value # Client
                        \/ fields[m].key # "revision" \/ fields[m].number < 1
<1> DEFINE g == Text(fields, m)
           parsed == [options |-> options, fields |-> g]
           r == ParseCacheOptions(parsed)
<1>1. /\ Len(g) = m /\ \A i \in 1 .. m : g[i] = fields[i]
      /\ m \in Nat
  <2>1. m \in Nat
    OBVIOUS
  <2> QED
    BY <2>1, TextFields, Zenon
<1>2. parsed.fields = g /\ parsed.options = options
  OBVIOUS
<1>3. CASE ~Found(g, "client")
  <2>1. r = Ok(parsed)
    BY <1>2, <1>3 DEF ParseCacheOptions
  <2>2. \A i \in 1 .. m : fields[i].key # "client"
    BY <1>1, <1>3 DEF Found
  <2> QED
    BY <2>1, <2>2
<1>4. CASE Found(g, "client")
  <2>1. PICK i \in 2 .. m : /\ At(g, "client") = i /\ fields[i].key = "client"
                            /\ \A j \in 2 .. i - 1 : fields[j].key # "client"
    BY <1>4, FoundFirst
  <2>2. g[i] = fields[i] /\ i - 1 \in 0 .. m
    BY <1>1
  <2>3. SubSeq(g, 1, i - 1) = Text(fields, i - 1)
    BY <2>2, TextFields
  <2> DEFINE bad == \/ i + 1 # m \/ fields[i].value # Client
                    \/ g[i + 1].key # "revision" \/ g[i + 1].number < 1
  <2> HIDE DEF g
  <2>4. r = IF bad THEN Refused("BAD")
            ELSE Ok([options |-> [options EXCEPT !.client = Client, !.revision = g[i + 1].number],
                     fields |-> Text(fields, i - 1)])
    <3> HIDE DEF parsed
    <3> QED
      BY <1>1, <1>2, <1>4, <2>1, <2>2, <2>3, Zenon DEF ParseCacheOptions
  <2> HIDE DEF r
  <2>5. CASE bad
    <3>1. /\ fields[i].key = "client"
          /\ \/ i + 1 # m \/ fields[i].value # Client
             \/ fields[m].key # "revision" \/ fields[m].number < 1
      BY <1>1, <2>1, <2>5
    <3> QED
      BY <2>4, <2>5, <3>1 DEF r, g
  <2>6. CASE ~bad
    <3>1. i + 1 = m /\ m >= 3 /\ i = m - 1 /\ i - 1 = m - 2 /\ g[m] = fields[m]
      BY <2>6, <1>1
    <3>2. \A k \in 1 .. m - 2 : fields[k].key # "client"
      BY <1>1, <2>1, <3>1
    <3> QED
      BY <2>1, <2>4, <2>6, <3>1, <3>2 DEF r, g
  <2> QED
    BY <2>5, <2>6
<1> QED
  BY <1>3, <1>4

PutClient(options, v) == [options EXCEPT !.client = Client, !.revision = v]
ClientTaken(fields, options, r) ==
  \/ r = Refused("BAD") /\ ~Says(fields)
  \/ \E k \in 0 .. Len(fields) :
       /\ "client" \notin Keys(fields)
       /\ Reached(fields, k, 4)
       /\ r = Ok([options |-> options, fields |-> Text(fields, k)])
  \/ \E k \in 0 .. Len(fields), v \in Int :
       /\ "client" \in Keys(fields)
       /\ ValueOf(fields, "client", "none") = Client
       /\ Says(fields) => v = NumberIn(fields, "revision", 0)
       /\ Reached(fields, k, 4)
       /\ r = Ok([options |-> PutClient(options, v), fields |-> Text(fields, k)])

(* A client and its revision are taken off together if the target says something. *)
LEMMA CacheReaches ==
  ASSUME NEW fields \in QueryFields, IsEvaluationTarget(fields),
         NEW options, NEW m, Reached(fields, m, 6)
  PROVE  ClientTaken(fields, options,
                     ParseCacheOptions([options |-> options, fields |-> Text(fields, m)]))
<1> DEFINE r == ParseCacheOptions([options |-> options, fields |-> Text(fields, m)])
           n == Len(fields)
           At2(i) == Place(fields[i].key)
<1>1. /\ m \in 0 .. n /\ n \in Nat
      /\ fields # <<>> => m >= 1
      /\ \A i \in m + 1 .. n : Admits(fields[i]) /\ At2(i) > 6
      /\ \A i, j \in m + 1 .. n : i < j => At2(i) < At2(j)
      /\ \A i \in m + 1 .. n :
           fields[i].key \in {"client", "revision"} => {"client", "revision"} \subseteq Keys(fields)
      /\ Says(fields) => \A i \in 1 .. m : At2(i) <= 6
      /\ \A i \in 1 .. n : fields[i].number \in Int
  <2>1. \A i \in 1 .. n : fields[i].number \in Int
    <3> DEFINE R == [key : STRING, value : STRING, number : Int]
    <3>1. fields \in Seq(R)
      BY DEF QueryFields
    <3>2. \A i \in 1 .. n : fields[i] \in R
      <4> HIDE DEF R
      <4> QED
        BY <3>1
    <3> QED
      BY <3>2
  <2>2. n \in Nat
    BY DEF QueryFields
  <2> QED
    BY <2>1, <2>2, Zenon DEF Reached
<1>2. /\ m >= 1 => fields[1].key # "client"
      /\ fields = <<>> => n = 0
  BY <1>1 DEF IsEvaluationTarget
<1>3. /\ \A i \in m + 1 .. n : At2(i) \in 1 .. 7
      /\ Says(fields) => \A i \in 1 .. n : fields[i].key \in KeyNames /\ At2(i) \in 1 .. 7
      /\ Says(fields) => \A i, j \in 1 .. n : i < j => At2(i) < At2(j)
  BY <1>1, Ascending, PlaceOfAdmitted
<1>4. \A i \in m + 1 .. n : fields[i].key \notin {"client", "revision"}
  BY <1>1, Places
<1>5. /\ "client" \in KeyNames /\ "revision" \in KeyNames
      /\ \A key \in KeyNames : Place(key) = 5 => key = "client"
      /\ \A key \in KeyNames : Place(key) = 6 => key = "revision"
  BY Places DEF KeyNames
<1>6. CASE /\ r = Ok([options |-> options, fields |-> Text(fields, m)])
           /\ \A i \in 1 .. m : fields[i].key # "client"
  <2>1. "client" \notin Keys(fields)
    BY <1>1, <1>4, <1>6 DEF Keys
  <2>2. Says(fields) => \A i \in 1 .. m : At2(i) <= 4
    <3> SUFFICES ASSUME Says(fields), NEW i \in 1 .. m PROVE At2(i) <= 4
      OBVIOUS
    <3>1. i \in 1 .. n
      BY <1>1
    <3>2. fields[i].key \in KeyNames /\ At2(i) \in 1 .. 7 /\ At2(i) <= 6
      BY <1>1, <1>3, <3>1, Zenon
    <3>3. At2(i) # 5
      BY <1>5, <1>6, <3>2, Zenon
    <3>4. fields[i].key # "revision"
      BY <2>1, <3>1 DEF Says, Keys
    <3>5. At2(i) # 6
      BY <1>5, <3>2, <3>4, Zenon
    <3> HIDE DEF At2
    <3> QED
      BY <3>2, <3>3, <3>5
  <2>3. \A i \in m + 1 .. n : At2(i) > 4
    BY <1>1, <1>3
  <2>4. Reached(fields, m, 4)
    BY <1>1, <2>2, <2>3, Zenon DEF Reached
  <2> QED
    BY <1>1, <1>6, <2>1, <2>4, Zenon DEF ClientTaken
<1>7. CASE /\ m >= 3 /\ fields[m - 1].key = "client" /\ fields[m - 1].value = Client
           /\ fields[m].key = "revision" /\ ~(fields[m].number < 1)
           /\ r = Ok([options |-> [options EXCEPT !.client = Client,
                                                  !.revision = fields[m].number],
                      fields |-> Text(fields, m - 2)])
           /\ \A i \in 1 .. m - 2 : fields[i].key # "client"
  <2>1. /\ m \in 1 .. n /\ m - 1 \in 1 .. n /\ m - 2 \in 0 .. n /\ m - 2 >= 1
        /\ (m - 2) + 1 = m - 1 /\ m - 1 # m /\ m - 1 < m
        /\ \A i \in 1 .. n : i \in 1 .. m - 2 \/ i = m - 1 \/ i = m \/ i \in m + 1 .. n
        /\ \A i \in m - 1 .. n : i = m - 1 \/ i = m \/ i \in m + 1 .. n
        /\ fields[m].number \in Int
    <3>1. m \in 0 .. n /\ n \in Nat /\ m >= 3
      BY <1>1, <1>7, Zenon
    <3>2. m \in 1 .. n
      BY <3>1
    <3>3. fields[m].number \in Int
      BY <1>1, <3>2, Zenon
    <3> HIDE DEF n
    <3> QED
      BY <3>1, <3>2, <3>3
  <2>2. \A i \in 1 .. n : fields[i].key = "client" <=> i = m - 1
    BY <1>4, <1>7, <2>1
  <2>3. "client" \in Keys(fields) /\ ValueOf(fields, "client", "none") = Client
    <3>1. PICK k \in 1 .. n : k = m - 1
      BY <2>1
    <3>2. \A i \in 1 .. n : fields[i].key = "client" <=> i = k
      BY <2>2, <3>1
    <3>3. SpeaksFor(k, fields, "client")
      BY <3>2, StandsOnce
    <3>4. "client" \in Keys(fields) /\ ValueOf(fields, "client", "none") = fields[k].value
      BY <3>3, Zenon DEF SpeaksFor
    <3> QED
      BY <1>7, <3>1, <3>4
  <2>4. {"client", "revision"} \subseteq Keys(fields)
    <3>1. "revision" \in Keys(fields)
      BY <1>7, <2>1 DEF Keys
    <3> QED
      BY <2>3, <3>1
  <2>5. Admits(fields[m - 1]) /\ At2(m - 1) = 5 /\ Admits(fields[m]) /\ At2(m) = 6
    <3>1. At2(m - 1) = 5 /\ At2(m) = 6
      BY <1>7, Places, Zenon
    <3>2. Admits(fields[m - 1])
      BY <1>7, Zenon DEF Admits
    <3>3. fields[m].number >= 1
      BY <1>7, <2>1
    <3>4. Admits(fields[m])
      BY <1>7, <3>3, Zenon DEF Admits
    <3> QED
      BY <3>1, <3>2, <3>4
  <2>6. \A i \in m - 1 .. n : Admits(fields[i]) /\ At2(i) > 4
    <3> SUFFICES ASSUME NEW i \in m - 1 .. n PROVE Admits(fields[i]) /\ At2(i) > 4
      OBVIOUS
    <3>1. CASE i \in m + 1 .. n
      <4>1. Admits(fields[i]) /\ At2(i) > 6 /\ At2(i) \in 1 .. 7
        BY <1>1, <1>3, <3>1, Zenon
      <4> HIDE DEF At2
      <4> QED
        BY <4>1
    <3>2. CASE i = m - 1 \/ i = m
      <4>1. Admits(fields[i]) /\ (At2(i) = 5 \/ At2(i) = 6)
        BY <2>5, <3>2, Zenon
      <4> HIDE DEF At2
      <4> QED
        BY <4>1
    <3> QED
      BY <2>1, <3>1, <3>2, Zenon
  <2>7. \A i, j \in m - 1 .. n : i < j => At2(i) < At2(j)
    <3> SUFFICES ASSUME NEW i \in m - 1 .. n, NEW j \in m - 1 .. n, i < j
                 PROVE  At2(i) < At2(j)
      OBVIOUS
    <3>1. CASE i \in m + 1 .. n
      <4>1. j \in m + 1 .. n
        BY <1>1, <3>1
      <4> QED
        BY <1>1, <3>1, <4>1
    <3>2. CASE j \in m + 1 .. n /\ i \notin m + 1 .. n
      <4>1. At2(j) > 6 /\ At2(j) \in 1 .. 7
        BY <1>1, <1>3, <3>2
      <4>2. At2(i) \in {5, 6}
        BY <2>1, <2>5, <3>2
      <4> HIDE DEF At2
      <4> QED
        BY <4>1, <4>2
    <3>3. CASE i = m - 1 /\ j = m
      BY <2>5, <3>3
    <3> QED
      BY <2>1, <3>1, <3>2, <3>3
  <2>8. Says(fields) => \A i \in 1 .. m - 2 : At2(i) <= 4
    <3> SUFFICES ASSUME Says(fields), NEW i \in 1 .. m - 2 PROVE At2(i) <= 4
      OBVIOUS
    <3>1. i \in 1 .. n /\ i < m - 1
      BY <2>1
    <3>2. At2(i) < 5 /\ At2(i) \in 1 .. 7
      BY <1>3, <2>1, <2>5, <3>1
    <3> QED
      BY <3>2
  <2>9. Reached(fields, m - 2, 4)
    BY <2>1, <2>4, <2>6, <2>7, <2>8, Zenon DEF Reached
  <2>10. Says(fields) => fields[m].number = NumberIn(fields, "revision", 0)
    <3> SUFFICES ASSUME Says(fields) PROVE fields[m].number = NumberIn(fields, "revision", 0)
      OBVIOUS
    <3>1. \A i \in 1 .. m - 2 : fields[i].key # "revision"
      BY <2>1, <2>8, Places
    <3>2. \A i \in 1 .. n : fields[i].key = "revision" <=> i = m
      BY <1>4, <1>7, <2>1, <3>1
    <3> QED
      <4>1. SpeaksFor(m, fields, "revision")
        BY <2>1, <3>2, StandsOnce
      <4> QED
        BY <4>1, Zenon DEF SpeaksFor
  <2> QED
    BY <1>7, <2>1, <2>3, <2>9, <2>10, Zenon DEF ClientTaken, PutClient
<1>8. CASE /\ r = Refused("BAD")
           /\ \E i \in 2 .. m :
                /\ fields[i].key = "client"
                /\ \/ i + 1 # m \/ fields[i].value # Client
                   \/ fields[m].key # "revision" \/ fields[m].number < 1
  <2>1. ASSUME Says(fields) PROVE FALSE
    <3>1. PICK i \in 2 .. m :
                /\ fields[i].key = "client"
                /\ \/ i + 1 # m \/ fields[i].value # Client
                   \/ fields[m].key # "revision" \/ fields[m].number < 1
      BY <1>8
    <3>2. i \in 1 .. n /\ At2(i) = 5
      BY <1>1, <3>1, Places
    <3>3. PICK j \in 1 .. n : fields[j].key = "revision"
      BY <2>1, <3>1, <3>2 DEF Says, Keys
    <3>4. At2(j) = 6
      BY <3>3, Places
    <3>5. j \in 1 .. m /\ i < j
      BY <1>1, <1>3, <1>4, <2>1, <3>1, <3>2, <3>3, <3>4
    <3>6. j = i + 1
      <4> SUFFICES ASSUME i + 1 < j PROVE FALSE
        BY <3>2, <3>5
      <4>1. i + 1 \in 1 .. n /\ i < i + 1
        BY <1>1, <3>5
      <4>2. 5 < At2(i + 1) /\ At2(i + 1) < 6 /\ At2(i + 1) \in 1 .. 7
        BY <1>3, <2>1, <3>2, <3>4, <4>1
      <4> QED
        BY <4>2
    <3>7. j = m
      <4> SUFFICES ASSUME j < m PROVE FALSE
        BY <1>1, <3>5
      <4>1. m \in 1 .. n /\ m \in 1 .. m
        BY <1>1, <3>5
      <4>2. 6 < At2(m) /\ At2(m) <= 6 /\ At2(m) \in 1 .. 7
        BY <1>1, <1>3, <2>1, <3>4, <4>1
      <4> QED
        BY <4>2
    <3>8. Admits(fields[i]) /\ Admits(fields[m])
      BY <2>1, <3>2, <3>3, <3>7, Ascending
    <3>9. fields[i].value = Client /\ fields[m].number >= 1
      BY <3>1, <3>3, <3>7, <3>8 DEF Admits
    <3> QED
      BY <1>1, <3>1, <3>3, <3>6, <3>7, <3>9
  <2> QED
    BY <1>8, <2>1, Zenon DEF ClientTaken
<1> QED
  <2> HIDE DEF r
  <2>1. \/ /\ r = Ok([options |-> options, fields |-> Text(fields, m)])
           /\ \A i \in 1 .. m : fields[i].key # "client"
        \/ /\ m >= 3 /\ fields[m - 1].key = "client" /\ fields[m - 1].value = Client
           /\ fields[m].key = "revision" /\ ~(fields[m].number < 1)
           /\ r = Ok([options |-> [options EXCEPT !.client = Client,
                                                  !.revision = fields[m].number],
                      fields |-> Text(fields, m - 2)])
           /\ \A i \in 1 .. m - 2 : fields[i].key # "client"
        \/ /\ r = Refused("BAD")
           /\ \E i \in 2 .. m :
                /\ fields[i].key = "client"
                /\ \/ i + 1 # m \/ fields[i].value # Client
                   \/ fields[m].key # "revision" \/ fields[m].number < 1
    <3>1. m \in 0 .. Len(fields) /\ (m >= 1 => fields[1].key # "client")
      BY <1>1, <1>2
    <3> QED
      BY <3>1, CacheCases DEF r
  <2> QED
    BY <1>6, <1>7, <1>8, <2>1, Zenon DEF r

(* A precision is all that is left at last if the target says something. *)
LEMMA PrecisionReaches ==
  ASSUME NEW fields \in QueryFields, IsEvaluationTarget(fields),
         NEW options, NEW m, Reached(fields, m, 1)
  PROVE  LET r == ParsePrecision([options |-> options, fields |-> Text(fields, m)])
         IN  \/ r = Refused("BAD") /\ ~Says(fields)
             \/ /\ r = Ok(IF "precision" \in Keys(fields)
                          THEN [options EXCEPT !.scale = NumberIn(fields, "precision", 10)]
                          ELSE options)
                /\ \A i \in 1 .. Len(fields) : Admits(fields[i])
                /\ Says(fields) <=> ("action" \in Keys(fields) => "client" \in Keys(fields))
<1> DEFINE g == Text(fields, m)
           parsed == [options |-> options, fields |-> g]
           r == ParsePrecision(parsed)
           n == Len(fields)
           At2(i) == Place(fields[i].key)
<1>1. /\ m \in 0 .. n /\ n \in Nat
      /\ fields # <<>> => m >= 1
      /\ \A i \in m + 1 .. n : Admits(fields[i]) /\ At2(i) > 1
      /\ \A i, j \in m + 1 .. n : i < j => At2(i) < At2(j)
      /\ \A i \in m + 1 .. n :
           fields[i].key \in {"client", "revision"} => {"client", "revision"} \subseteq Keys(fields)
      /\ Says(fields) => \A i \in 1 .. m : At2(i) <= 1
  <2>1. n \in Nat
    BY DEF QueryFields
  <2> QED
    BY <2>1, Zenon DEF Reached
<1>2. parsed.options = options /\ parsed.fields = g
  OBVIOUS
<1>3. /\ Len(g) = m /\ \A i \in 1 .. m : g[i] = fields[i]
      /\ g = <<>> <=> m = 0
  BY <1>1, TextFields, TextEmpty
<1>4. /\ r = IF g = <<>> THEN Ok(options)
             ELSE IF Len(g) # 1 \/ g[1].number = BadNumber THEN Refused("BAD")
             ELSE Ok([options EXCEPT !.scale = g[1].number])
  <2> HIDE DEF parsed
  <2> QED
    BY <1>2, Zenon DEF ParsePrecision
<1> HIDE DEF r, parsed, g
<1>5. CASE m = 0
  <2>1. n = 0
    BY <1>1, <1>5
  <2>2. Keys(fields) = {}
    BY <2>1 DEF Keys
  <2>3. Says(fields)
    BY <2>1, <2>2 DEF Says
  <2>4. r = Ok(options)
    BY <1>3, <1>4, <1>5
  <2> QED
    BY <2>1, <2>2, <2>3, <2>4 DEF r, parsed, g
<1>6. CASE m = 1 /\ fields[1].number # BadNumber
  <2>1. /\ n >= 1 /\ fields[1].key = "precision" /\ 1 \in 1 .. n
        /\ \A i \in 1 .. n : i = 1 \/ i \in m + 1 .. n
    BY <1>1, <1>6 DEF IsEvaluationTarget
  <2>2. \A i \in 1 .. n : fields[i].key = "precision" <=> i = 1
    BY <1>1, <2>1, Places
  <2>3. /\ "precision" \in Keys(fields)
        /\ NumberIn(fields, "precision", 10) = fields[1].number
    <3>1. SpeaksFor(1, fields, "precision")
      BY <2>1, <2>2, StandsOnce
    <3> QED
      BY <3>1, Zenon DEF SpeaksFor
  <2>4. r = Ok([options EXCEPT !.scale = fields[1].number])
    BY <1>3, <1>4, <1>6
  <2>5. Admits(fields[1]) /\ At2(1) = 1
    BY <1>6, <2>1, Places DEF Admits
  <2>6. \A i \in 1 .. n : Admits(fields[i])
    BY <1>1, <2>1, <2>5
  <2>7. \A i, j \in 1 .. n : i < j => At2(i) < At2(j)
    <3> SUFFICES ASSUME NEW i \in 1 .. n, NEW j \in 1 .. n, i < j PROVE At2(i) < At2(j)
      OBVIOUS
    <3>1. j \in m + 1 .. n
      BY <1>6, <2>1
    <3>2. CASE i = 1
      <4>1. At2(j) \in 1 .. 7 /\ At2(j) > 1
        BY <1>1, <3>1, PlaceOfAdmitted
      <4> QED
        BY <2>5, <3>2, <4>1
    <3>3. CASE i \in m + 1 .. n
      BY <1>1, <3>1, <3>3
    <3> QED
      BY <2>1, <3>2, <3>3
  <2>8. "client" \in Keys(fields) <=> "revision" \in Keys(fields)
    <3>1. \A i \in 1 .. n : fields[i].key \in {"client", "revision"} =>
            {"client", "revision"} \subseteq Keys(fields)
      BY <1>1, <2>1
    <3> QED
      BY <3>1 DEF Keys
  <2>9. Says(fields) <=> ("action" \in Keys(fields) => "client" \in Keys(fields))
    BY <2>6, <2>7, <2>8, Zenon DEF Says
  <2> QED
    BY <2>3, <2>4, <2>6, <2>9 DEF r, parsed, g
<1>7. CASE m # 0 /\ ~(m = 1 /\ fields[1].number # BadNumber)
  <2>1. r = Refused("BAD")
    BY <1>1, <1>3, <1>4, <1>7
  <2>2. ASSUME Says(fields) PROVE FALSE
    <3>1. 1 \in 1 .. n /\ fields[1].key = "precision"
      BY <1>1, <1>7 DEF IsEvaluationTarget
    <3>2. fields[1].number # BadNumber /\ At2(1) = 1
      BY <2>2, <3>1, Ascending, Places DEF Admits
    <3>3. 2 \in 1 .. m /\ 2 \in 1 .. n
      BY <1>1, <1>7, <3>2
    <3>4. At2(1) < At2(2) /\ At2(2) <= 1 /\ At2(2) \in 1 .. 7
      BY <1>1, <2>2, <3>1, <3>3, Ascending
    <3> QED
      BY <3>2, <3>4
  <2> QED
    BY <2>1, <2>2 DEF r, parsed, g
<1> QED
  BY <1>5, <1>6, <1>7

Options(a, c, r, f, s, an, no) ==
  [action |-> a, client |-> c, revision |-> r, form |-> f, scale |-> s, angle |-> an,
   notation |-> no]

(* An option that is put into options replaces that one only. *)
LEMMA OptionsPut ==
  ASSUME NEW a, NEW c, NEW r, NEW f, NEW s, NEW an, NEW no, NEW v
  PROVE  /\ Put(Options(a, c, r, f, s, an, no), "action", v) = Options(v, c, r, f, s, an, no)
         /\ Put(Options(a, c, r, f, s, an, no), "form", v) = Options(a, c, r, v, s, an, no)
         /\ Put(Options(a, c, r, f, s, an, no), "scale", v) = Options(a, c, r, f, v, an, no)
         /\ Put(Options(a, c, r, f, s, an, no), "angle", v) = Options(a, c, r, f, s, v, no)
         /\ Put(Options(a, c, r, f, s, an, no), "notation", v) = Options(a, c, r, f, s, an, v)
<1>1. Put(Options(a, c, r, f, s, an, no), "action", v) = Options(v, c, r, f, s, an, no)
  BY DEF Options, Put
<1>2. Put(Options(a, c, r, f, s, an, no), "form", v) = Options(a, c, r, v, s, an, no)
  BY DEF Options, Put
<1>3. Put(Options(a, c, r, f, s, an, no), "scale", v) = Options(a, c, r, f, v, an, no)
  BY DEF Options, Put
<1>4. Put(Options(a, c, r, f, s, an, no), "angle", v) = Options(a, c, r, f, s, v, no)
  BY DEF Options, Put
<1>5. Put(Options(a, c, r, f, s, an, no), "notation", v) = Options(a, c, r, f, s, an, v)
  BY DEF Options, Put
<1> QED
  BY <1>1, <1>2, <1>3, <1>4, <1>5

(* A client option gives its revision and leaves the other options alone. *)
LEMMA ClientPut ==
  ASSUME NEW a, NEW c, NEW r, NEW f, NEW s, NEW an, NEW no, NEW v
  PROVE  PutClient(Options(a, c, r, f, s, an, no), v) = Options(a, Client, v, f, s, an, no)
<1> DEFINE x == Options(a, c, r, f, s, an, no)
<1>1. PICK w : w = Client
  OBVIOUS
<1>2. [x EXCEPT !.client = w, !.revision = v] = [[x EXCEPT !.client = w] EXCEPT !.revision = v]
  <2> HIDE DEF x
  <2> QED
    OBVIOUS
<1>3. [x EXCEPT !.client = w] = Options(a, w, r, f, s, an, no)
  BY DEF Options
<1>4. [Options(a, w, r, f, s, an, no) EXCEPT !.revision = v] = Options(a, w, v, f, s, an, no)
  BY DEF Options
<1> HIDE DEF x
<1> QED
  BY <1>1, <1>2, <1>3, <1>4 DEF x, PutClient

(* An answer that is not refused carries its value. *)
LEMMA Answers ==
  /\ \A v : Ok(v).status = "OK" /\ Ok(v).value = v
  /\ Refused("BAD").status # "OK"
  BY DEF Ok, Refused

(* What is told of a target once it is cut up, and from where it is cut. *)
Checked(options) ==
  IF options.action # "none" /\ options.client = "none" THEN Refused("BAD") ELSE Ok(options)
FromCache(parsed) == Then(ParseEvaluationOptions(parsed), Checked)
FromAction(parsed) == Then(ParseCacheOptions(parsed), FromCache)
FromAngle(parsed) == Then(ParseAngle(parsed), ParsePrecision)
FromNotation(parsed) == Then(ParseNotation(parsed), FromAngle)

(* The parsers of a target follow one another until one refuses. *)
LEMMA Chains ==
  /\ Then(Refused("BAD"), Checked) = Refused("BAD")
  /\ Then(Refused("BAD"), FromCache) = Refused("BAD")
  /\ Then(Refused("BAD"), FromAction) = Refused("BAD")
  /\ Then(Refused("BAD"), FromNotation) = Refused("BAD")
  /\ Then(Refused("BAD"), FromAngle) = Refused("BAD")
  /\ Then(Refused("BAD"), ParsePrecision) = Refused("BAD")
  /\ \A p : /\ Then(Ok(p), Checked) = Checked(p)
            /\ Then(Ok(p), FromCache) = FromCache(p)
            /\ Then(Ok(p), FromAction) = FromAction(p)
            /\ Then(Ok(p), FromNotation) = FromNotation(p)
            /\ Then(Ok(p), FromAngle) = FromAngle(p)
            /\ Then(Ok(p), ParsePrecision) = ParsePrecision(p)
  BY Answers, Zenon DEF Then

(* What is parsed first, and what the rest is then. *)
LEMMA TargetChain ==
  /\ \A fields : EvaluationTarget(fields) = Then(ParseSessionAction(fields), FromAction)
  /\ \A parsed : ParseEvaluationOptions(parsed) = Then(ParseForm(parsed), FromNotation)
<1>1. \A fields : EvaluationTarget(fields) = Then(ParseSessionAction(fields), FromAction)
  BY Zenon DEF EvaluationTarget, FromAction, FromCache, Checked
<1>2. \A parsed : ParseEvaluationOptions(parsed) = Then(ParseForm(parsed), FromNotation)
  BY Zenon DEF ParseEvaluationOptions, FromNotation, FromAngle
<1> QED
  BY <1>1, <1>2

(* What stands in no field has its default. *)
LEMMA NotGiven ==
  ASSUME NEW fields, NEW key, NEW fallback, key \notin Keys(fields)
  PROVE  ValueOf(fields, key, fallback) = fallback /\ NumberIn(fields, key, fallback) = fallback
  BY Zenon DEF ValueOf, NumberIn

(* What a key says in fields that are all admitted is admitted. *)
LEMMA GivenAdmitted ==
  ASSUME NEW fields, NEW key, NEW fallback, key \in Keys(fields),
         \A i \in 1 .. Len(fields) : Admits(fields[i])
  PROVE  \E f : f.key = key /\ Admits(f) /\ f.value = ValueOf(fields, key, fallback)
<1> DEFINE j == CHOOSE i \in 1 .. Len(fields) : fields[i].key = key
<1>1. j \in 1 .. Len(fields) /\ fields[j].key = key
  BY Zenon DEF Keys
<1>2. ValueOf(fields, key, fallback) = fields[j].value
  BY Zenon DEF ValueOf
<1> QED
  BY <1>1, <1>2, Zenon

(* What stands in one has no default. *)
LEMMA Given ==
  ASSUME NEW fields, NEW key, key \in Keys(fields)
  PROVE  \A one, other : ValueOf(fields, key, one) = ValueOf(fields, key, other)
<1> SUFFICES ASSUME NEW one, NEW other PROVE ValueOf(fields, key, one) = ValueOf(fields, key, other)
  OBVIOUS
<1> QED
  BY DEF ValueOf

(* What is put into options of which the default is there already. *)
LEMMA TakenWithDefault ==
  ASSUME NEW fields, NEW key, NEW options, NEW r, NEW fallback, NEW p,
         Taken(fields, key, options, r),
         Put(options, key, fallback) = options,
         Place(key) - 1 = p
  PROVE  \/ r = Refused("BAD") /\ ~Says(fields)
         \/ \E k \in 0 .. Len(fields) :
              /\ Reached(fields, k, p)
              /\ r = Ok([options |-> Put(options, key, ValueOf(fields, key, fallback)),
                         fields |-> Text(fields, k)])
<1>1. (IF key \in Keys(fields) THEN Put(options, key, ValueOf(fields, key, "none")) ELSE options)
        = Put(options, key, ValueOf(fields, key, fallback))
  <2>1. CASE key \in Keys(fields)
    BY <2>1, Given
  <2>2. CASE key \notin Keys(fields)
    BY <2>2, NotGiven
  <2> QED
    BY <2>1, <2>2
<1> QED
  BY <1>1, Zenon DEF Taken

(* A target is the options it names in the order of a text, or is refused. *)
LEMMA TargetMeaning ==
  ASSUME NEW fields \in QueryFields, IsEvaluationTarget(fields)
  PROVE  EvaluationTarget(fields) =
           IF ~Says(fields) THEN Refused("BAD")
           ELSE Ok(Options(ValueOf(fields, "action", "none"), ValueOf(fields, "client", "none"),
                           NumberIn(fields, "revision", 0), ValueOf(fields, "form", "cartesian"),
                           NumberIn(fields, "precision", 10), ValueOf(fields, "angle", "rad"),
                           ValueOf(fields, "notation", "auto")))
<1> DEFINE n == Len(fields)
           a == ValueOf(fields, "action", "none")
           c == ValueOf(fields, "client", "none")
           f == ValueOf(fields, "form", "cartesian")
           no == ValueOf(fields, "notation", "auto")
           an == ValueOf(fields, "angle", "rad")
           s == NumberIn(fields, "precision", 10)
<1>1. Reached(fields, n, 7) /\ Text(fields, n) = fields /\ n \in Nat
  <2> DEFINE R == [key : STRING, value : STRING, number : Int]
  <2>1. fields \in Seq(R) /\ n \in Nat /\ (fields # <<>> => n >= 1)
    BY DEF QueryFields
  <2>2. Text(fields, n) = fields
    <3> HIDE DEF R
    <3> QED
      BY <2>1, SubSeqFull DEF Text
  <2>3. Says(fields) => \A i \in 1 .. n : Place(fields[i].key) <= 7
    BY Ascending
  <2>4. \A i : i \notin n + 1 .. n
    BY <2>1
  <2>5. n \in 0 .. n
    BY <2>1
  <2> HIDE DEF n, R
  <2> QED
    BY <2>1, <2>2, <2>3, <2>4, <2>5 DEF Reached, n
<1>2. /\ \A g : g.key = "action" => (Admits(g) <=> g.value \in Actions)
      /\ \A g : g.key = "form" => (Admits(g) <=> g.value \in {"cartesian", "trig", "exp"})
      /\ \A g : g.key = "angle" => (Admits(g) <=> g.value \in {"rad", "deg"})
      /\ \A g : g.key = "notation" =>
           (Admits(g) <=> g.value \in {"auto", "plain", "scientific", "math", "fraction"})
  BY DEF Admits, Actions
<1>3. /\ {"action", "form", "angle", "notation"} \subseteq KeyNames \ {"precision", "client", "revision"}
      /\ Place("action") - 1 = 6 /\ Place("form") - 1 = 3 /\ Place("notation") - 1 = 2
      /\ Place("angle") - 1 = 1
  BY Places DEF KeyNames
<1>4. NoOptions = Options("none", "none", 0, "cartesian", 10, "rad", "auto")
  BY DEF NoOptions, Options
<1> HIDE DEF n
<1> HIDE DEF a, c, f, no, an, s
<1> DEFINE o1 == Options(a, "none", 0, "cartesian", 10, "rad", "auto")
           X(o, k) == [options |-> o, fields |-> Text(fields, k)]
<1>5. \/ ParseSessionAction(fields) = Refused("BAD") /\ ~Says(fields)
      \/ \E k \in 0 .. Len(fields) :
           Reached(fields, k, 6) /\ ParseSessionAction(fields) = Ok(X(o1, k))
  <2>1. Taken(fields, "action", NoOptions, ParseSessionAction(fields))
    <3>1. /\ Reached(fields, n, Place("action"))
          /\ "action" \in KeyNames \ {"precision", "client", "revision"}
      BY <1>1, <1>3, Places
    <3>2. ParseSessionAction(fields) = Suffix(NoOptions, Text(fields, n), "action", Actions)
      BY <1>1 DEF ParseSessionAction
    <3> QED
      BY <1>2, <3>1, <3>2, SuffixReaches
  <2>2. Put(NoOptions, "action", a) = o1 /\ Put(NoOptions, "action", "none") = NoOptions
    BY <1>4, OptionsPut
  <2> QED
    BY <1>3, <2>1, <2>2, TakenWithDefault DEF a
<1> DEFINE o2(v) == Options(a, c, v, "cartesian", 10, "rad", "auto")
           o3(v) == Options(a, c, v, f, 10, "rad", "auto")
           o4(v) == Options(a, c, v, f, 10, "rad", no)
           o5(v) == Options(a, c, v, f, 10, an, no)
           o6(v) == Options(a, c, v, f, s, an, no)
<1>6. ASSUME NEW k, Reached(fields, k, 6)
      PROVE  \/ ParseCacheOptions(X(o1, k)) = Refused("BAD") /\ ~Says(fields)
             \/ \E q, v : /\ Reached(fields, q, 4)
                          /\ Says(fields) => v = NumberIn(fields, "revision", 0)
                          /\ ParseCacheOptions(X(o1, k)) = Ok(X(o2(v), q))
  <2> DEFINE r == ParseCacheOptions(X(o1, k))
  <2> HIDE DEF o1
  <2>1. ClientTaken(fields, o1, r)
    BY <1>6, CacheReaches
  <2>2. c = IF "client" \in Keys(fields) THEN ValueOf(fields, "client", "none") ELSE "none"
    BY NotGiven DEF c
  <2>3. "client" \notin Keys(fields) => o1 = o2(0)
    BY <2>2 DEF o1
  <2>4. \A v : c = Client => PutClient(o1, v) = o2(v)
    BY ClientPut DEF o1
  <2>5. "client" \notin Keys(fields) /\ Says(fields) => 0 = NumberIn(fields, "revision", 0)
    BY NotGiven DEF Says
  <2> HIDE DEF r, o2
  <2> QED
    BY <2>1, <2>2, <2>3, <2>4, <2>5, Zenon DEF r, ClientTaken
<1>7. ASSUME NEW k, NEW v, Reached(fields, k, 4)
      PROVE  \/ ParseForm(X(o2(v), k)) = Refused("BAD") /\ ~Says(fields)
             \/ \E q : Reached(fields, q, 3) /\ ParseForm(X(o2(v), k)) = Ok(X(o3(v), q))
  <2>1. Taken(fields, "form", o2(v), ParseForm(X(o2(v), k)))
    <3> HIDE DEF o2
    <3>1. /\ Reached(fields, k, Place("form"))
          /\ "form" \in KeyNames \ {"precision", "client", "revision"}
      BY <1>3, <1>7, Places
    <3>2. ParseForm(X(o2(v), k)) = Suffix(o2(v), Text(fields, k), "form", {"cartesian", "trig", "exp"})
      BY DEF ParseForm
    <3> QED
      BY <1>2, <3>1, <3>2, SuffixReaches
  <2>2. Put(o2(v), "form", f) = o3(v) /\ Put(o2(v), "form", "cartesian") = o2(v)
    BY OptionsPut
  <2> HIDE DEF o2, o3
  <2> QED
    BY <1>3, <2>1, <2>2, TakenWithDefault DEF f
<1>8. ASSUME NEW k, NEW v, Reached(fields, k, 3)
      PROVE  \/ ParseNotation(X(o3(v), k)) = Refused("BAD") /\ ~Says(fields)
             \/ \E q : Reached(fields, q, 2) /\ ParseNotation(X(o3(v), k)) = Ok(X(o4(v), q))
  <2>1. Taken(fields, "notation", o3(v), ParseNotation(X(o3(v), k)))
    <3> HIDE DEF o3
    <3>1. /\ Reached(fields, k, Place("notation"))
          /\ "notation" \in KeyNames \ {"precision", "client", "revision"}
      BY <1>3, <1>8, Places
    <3>2. ParseNotation(X(o3(v), k)) =
            Suffix(o3(v), Text(fields, k), "notation",
                   {"auto", "plain", "scientific", "math", "fraction"})
      BY DEF ParseNotation
    <3> QED
      BY <1>2, <3>1, <3>2, SuffixReaches
  <2>2. Put(o3(v), "notation", no) = o4(v) /\ Put(o3(v), "notation", "auto") = o3(v)
    BY OptionsPut
  <2> HIDE DEF o3, o4
  <2> QED
    BY <1>3, <2>1, <2>2, TakenWithDefault DEF no
<1>9. ASSUME NEW k, NEW v, Reached(fields, k, 2)
      PROVE  \/ ParseAngle(X(o4(v), k)) = Refused("BAD") /\ ~Says(fields)
             \/ \E q : Reached(fields, q, 1) /\ ParseAngle(X(o4(v), k)) = Ok(X(o5(v), q))
  <2>1. Taken(fields, "angle", o4(v), ParseAngle(X(o4(v), k)))
    <3> HIDE DEF o4
    <3>1. /\ Reached(fields, k, Place("angle"))
          /\ "angle" \in KeyNames \ {"precision", "client", "revision"}
      BY <1>3, <1>9, Places
    <3>2. ParseAngle(X(o4(v), k)) = Suffix(o4(v), Text(fields, k), "angle", {"rad", "deg"})
      BY DEF ParseAngle
    <3> QED
      BY <1>2, <3>1, <3>2, SuffixReaches
  <2>2. Put(o4(v), "angle", an) = o5(v) /\ Put(o4(v), "angle", "rad") = o4(v)
    BY OptionsPut
  <2> HIDE DEF o4, o5
  <2> QED
    BY <1>3, <2>1, <2>2, TakenWithDefault DEF an
<1>10. ASSUME NEW k, NEW v, Reached(fields, k, 1)
       PROVE  \/ ParsePrecision(X(o5(v), k)) = Refused("BAD") /\ ~Says(fields)
              \/ /\ ParsePrecision(X(o5(v), k)) = Ok(o6(v))
                 /\ \A i \in 1 .. Len(fields) : Admits(fields[i])
                 /\ Says(fields) <=> ("action" \in Keys(fields) => "client" \in Keys(fields))
  <2>1. Put(o5(v), "scale", s) = o6(v) /\ Put(o5(v), "scale", 10) = o5(v)
    BY OptionsPut
  <2> HIDE DEF o5, o6
  <2>2. [o5(v) EXCEPT !.scale = s] = o6(v)
    BY <2>1 DEF Put
  <2>3. "precision" \notin Keys(fields) => s = 10
    BY NotGiven DEF s
  <2>4. (IF "precision" \in Keys(fields)
         THEN [o5(v) EXCEPT !.scale = NumberIn(fields, "precision", 10)]
         ELSE o5(v)) = o6(v)
    BY <2>1, <2>2, <2>3 DEF s
  <2> QED
    BY <1>10, <2>4, PrecisionReaches
<1>11. ASSUME NEW k, NEW v, Reached(fields, k, 4)
       PROVE  \/ ParseEvaluationOptions(X(o2(v), k)) = Refused("BAD") /\ ~Says(fields)
              \/ /\ ParseEvaluationOptions(X(o2(v), k)) = Ok(o6(v))
                 /\ \A i \in 1 .. Len(fields) : Admits(fields[i])
                 /\ Says(fields) <=> ("action" \in Keys(fields) => "client" \in Keys(fields))
  <2> DEFINE e == ParseEvaluationOptions(X(o2(v), k))
             Settled(r) == \/ r = Refused("BAD") /\ ~Says(fields)
                           \/ /\ r = Ok(o6(v))
                              /\ \A i \in 1 .. Len(fields) : Admits(fields[i])
                              /\ Says(fields) <=> ("action" \in Keys(fields) => "client" \in Keys(fields))
  <2> HIDE DEF X, o2, o3, o4, o5, o6
  <2>1. ASSUME NEW q, Reached(fields, q, 2) PROVE Settled(FromAngle(X(o4(v), q)))
    <3>1. \A t : Reached(fields, t, 1) => Settled(ParsePrecision(X(o5(v), t)))
      BY <1>10
    <3> HIDE DEF Settled
    <3>2. FromAngle(X(o4(v), q)) = Then(ParseAngle(X(o4(v), q)), ParsePrecision)
      BY DEF FromAngle
    <3>3. CASE ParseAngle(X(o4(v), q)) = Refused("BAD") /\ ~Says(fields)
      <4>1. Settled(Refused("BAD"))
        BY <3>3 DEF Settled
      <4> QED
        BY <3>2, <3>3, <4>1, Chains, Zenon
    <3>4. CASE \E t : Reached(fields, t, 1) /\ ParseAngle(X(o4(v), q)) = Ok(X(o5(v), t))
      BY <3>1, <3>2, <3>4, Chains, Zenon
    <3> QED
      BY <1>9, <2>1, <3>3, <3>4, Zenon
  <2>2. ASSUME NEW q, Reached(fields, q, 3) PROVE Settled(FromNotation(X(o3(v), q)))
    <3> HIDE DEF Settled
    <3>1. ~Says(fields) => Settled(Refused("BAD"))
      BY DEF Settled
    <3>2. FromNotation(X(o3(v), q)) = Then(ParseNotation(X(o3(v), q)), FromAngle)
      BY DEF FromNotation
    <3>3. CASE ParseNotation(X(o3(v), q)) = Refused("BAD") /\ ~Says(fields)
      BY <3>1, <3>2, <3>3, Chains, Zenon
    <3>4. CASE \E t : Reached(fields, t, 2) /\ ParseNotation(X(o3(v), q)) = Ok(X(o4(v), t))
      BY <2>1, <3>2, <3>4, Chains, Zenon
    <3> QED
      BY <1>8, <2>2, <3>3, <3>4, Zenon
  <2>3. Settled(Then(ParseForm(X(o2(v), k)), FromNotation))
    <3> HIDE DEF Settled
    <3>1. ~Says(fields) => Settled(Refused("BAD"))
      BY DEF Settled
    <3>2. CASE ParseForm(X(o2(v), k)) = Refused("BAD") /\ ~Says(fields)
      BY <3>1, <3>2, Chains, Zenon
    <3>3. CASE \E t : Reached(fields, t, 3) /\ ParseForm(X(o2(v), k)) = Ok(X(o3(v), t))
      BY <2>2, <3>3, Chains, Zenon
    <3> QED
      BY <1>7, <1>11, <3>2, <3>3, Zenon
  <2> QED
    BY <2>3, TargetChain, Zenon
<1> DEFINE w == NumberIn(fields, "revision", 0)
           Meant == IF ~Says(fields) THEN Refused("BAD") ELSE Ok(o6(w))
<1>12. ASSUME NEW v, Says(fields) => v = w,
              \A i \in 1 .. Len(fields) : Admits(fields[i]),
              Says(fields) <=> ("action" \in Keys(fields) => "client" \in Keys(fields))
       PROVE  Checked(o6(v)) = Meant
  <2>1. o6(v).action = a /\ o6(v).client = c
    BY DEF Options
  <2>2. a # "none" <=> "action" \in Keys(fields)
    <3>1. CASE "action" \in Keys(fields)
      <4>1. PICK g : g.key = "action" /\ Admits(g) /\ g.value = a
        BY <1>12, <3>1, GivenAdmitted DEF a
      <4> QED
        BY <3>1, <4>1 DEF Admits
    <3>2. CASE "action" \notin Keys(fields)
      BY <3>2, NotGiven DEF a
    <3> QED
      BY <3>1, <3>2
  <2>3. c # "none" <=> "client" \in Keys(fields)
    <3>1. CASE "client" \in Keys(fields)
      <4>1. PICK g : g.key = "client" /\ Admits(g) /\ g.value = c
        BY <1>12, <3>1, GivenAdmitted DEF c
      <4> QED
        BY <3>1, <4>1 DEF Admits, Client
    <3>2. CASE "client" \notin Keys(fields)
      BY <3>2, NotGiven DEF c
    <3> QED
      BY <3>1, <3>2
  <2> HIDE DEF o6, w
  <2> QED
    BY <1>12, <2>1, <2>2, <2>3 DEF Checked
<1>13. ASSUME NEW k, Reached(fields, k, 6) PROVE FromAction(X(o1, k)) = Meant
  <2> HIDE DEF X, o1, o2, o6, w
  <2>1. FromAction(X(o1, k)) = Then(ParseCacheOptions(X(o1, k)), FromCache)
    BY DEF FromAction
  <2>2. CASE ParseCacheOptions(X(o1, k)) = Refused("BAD") /\ ~Says(fields)
    BY <2>1, <2>2, Chains, Zenon
  <2>3. ASSUME NEW q, NEW v, Reached(fields, q, 4), Says(fields) => v = w,
               ParseCacheOptions(X(o1, k)) = Ok(X(o2(v), q))
        PROVE  FromAction(X(o1, k)) = Meant
    <3>1. FromAction(X(o1, k)) = FromCache(X(o2(v), q))
      BY <2>1, <2>3, Chains, Zenon
    <3>2. FromCache(X(o2(v), q)) = Then(ParseEvaluationOptions(X(o2(v), q)), Checked)
      BY DEF FromCache
    <3> HIDE DEF Meant
    <3>3. ~Says(fields) => Meant = Refused("BAD")
      BY DEF Meant
    <3>4. CASE ParseEvaluationOptions(X(o2(v), q)) = Refused("BAD") /\ ~Says(fields)
      BY <3>1, <3>2, <3>3, <3>4, Chains, Zenon
    <3>5. CASE /\ ParseEvaluationOptions(X(o2(v), q)) = Ok(o6(v))
               /\ \A i \in 1 .. Len(fields) : Admits(fields[i])
               /\ Says(fields) <=> ("action" \in Keys(fields) => "client" \in Keys(fields))
      <4>1. Checked(o6(v)) = Meant
        BY <1>12, <2>3, <3>5
      <4> QED
        BY <3>1, <3>2, <3>5, <4>1, Chains, Zenon
    <3> QED
      BY <1>11, <2>3, <3>4, <3>5, Zenon
  <2> HIDE DEF Meant
  <2> QED
    BY <1>6, <1>13, <2>2, <2>3, Zenon DEF w
<1>14. EvaluationTarget(fields) = Meant
  <2> HIDE DEF X, o1, Meant
  <2>1. EvaluationTarget(fields) = Then(ParseSessionAction(fields), FromAction)
    BY TargetChain, Zenon
  <2>2. ~Says(fields) => Meant = Refused("BAD")
    BY DEF Meant
  <2> QED
    BY <1>5, <1>13, <2>1, <2>2, Chains, Zenon
<1> QED
  BY <1>14 DEF a, c, f, no, an, s

(* Whatever target is parsed, cut up from its end: what comes out is what it
   says when it is read from its beginning, and no other target is accepted
   (web_server.c:285-412, 487-555). *)
THEOREM TargetsAreUnderstood == SpecHttp => []TargetsUnderstood
<1> DEFINE Told(fields, answer) ==
             answer = IF ~Says(fields) THEN Refused("BAD")
                      ELSE Ok(Options(ValueOf(fields, "action", "none"),
                                      ValueOf(fields, "client", "none"),
                                      NumberIn(fields, "revision", 0),
                                      ValueOf(fields, "form", "cartesian"),
                                      NumberIn(fields, "precision", 10),
                                      ValueOf(fields, "angle", "rad"),
                                      ValueOf(fields, "notation", "auto")))
<1>1. TargetsUnderstood <=>
        (call.op = "target" /\ IsEvaluationTarget(call.in) => Told(call.in, call.answer))
  BY Zenon DEF TargetsUnderstood, Options
<1>2. InitHttp => TargetsUnderstood
  BY DEF InitHttp, Idle, TargetsUnderstood
<1>3. TargetsUnderstood /\ [NextHttp]_call => TargetsUnderstood'
  <2> SUFFICES ASSUME TargetsUnderstood, [NextHttp]_call
               PROVE  call'.op = "target" /\ IsEvaluationTarget(call'.in)
                        => Told(call'.in, call'.answer)
    BY Zenon DEF TargetsUnderstood, Options
  <2>1. CASE UNCHANGED call
    BY <1>1, <2>1
  <2>2. CASE \E fields \in QueryFields : ParseTarget(fields)
    <3>1. PICK fields \in QueryFields : ParseTarget(fields)
      BY <2>2
    <3>2. call'.in = fields /\ call'.answer = EvaluationTarget(fields)
      BY <3>1 DEF ParseTarget, Ask
    <3> QED
      BY <3>2, TargetMeaning
  <2>3. CASE call'.op # "target"
    BY <2>3
  <2> QED
    BY <2>1, <2>2, <2>3 DEF NextHttp, Read, ReadDecimal, ReadText, ReadOrigin, RouteRequest, Ask
<1> QED
  BY <1>2, <1>3, PTL DEF SpecHttp

-----------------------------------------------------------------------------
(* Headers *)

FoundHeaders == [length : Nat, hasLength : BOOLEAN, origin : BOOLEAN, allowed : BOOLEAN]
HeaderAnswers == {Ok(found) : found \in FoundHeaders} \cup {Refused("BAD"), Refused("OVERFLOW")}

HeaderTurn(r, line, server) ==
  IF r.status = "OK" THEN HeaderLine(r.value, line, server) ELSE r

(* f is what the loop over the header lines has come to after i of them. *)
Parses(f, lines, server) ==
  f = [i \in 0 .. Len(lines) |->
         IF i = 0 THEN Ok(NoHeaders)
         ELSE IF f[i - 1].status = "OK"
              THEN HeaderLine(f[i - 1].value, lines[i], server) ELSE f[i - 1]]

(* ParseHeaders is the last answer of its loop over the header lines. *)
LEMMA HeadersUnfolded ==
  ASSUME NEW lines, NEW server
  PROVE  ParseHeaders(lines, server) = (CHOOSE f : Parses(f, lines, server))[Len(lines)]
  BY Zenon DEF ParseHeaders, LoopWhileOk, Turn, Parses

(* What a header line may do to what was found before it. *)
LEMMA HeaderLineSays ==
  ASSUME NEW found \in FoundHeaders, NEW line \in HeaderLines, NEW server \in Servers
  PROVE  HeaderLine(found, line, server) =
           CASE line.name = "content-length" ->
                  IF found.hasLength \/ line.digits = <<>> THEN Refused("BAD")
                  ELSE IF Spelled(line.digits) > server.maxNumber THEN Refused("OVERFLOW")
                  ELSE Ok([found EXCEPT !.length = Spelled(line.digits), !.hasLength = TRUE])
             [] line.name = "origin" ->
                  IF found.origin THEN Refused("BAD")
                  ELSE Ok([found EXCEPT !.origin = TRUE, !.allowed = Allowed(line.origin, server)])
             [] line.name \in {"", "transfer-encoding"} -> Refused("BAD")
             [] OTHER -> Ok(found)
<1>1. line.digits \in DigitLists /\ server.maxNumber \in Nat
  BY DEF HeaderLines, Servers
<1>2. DecimalNumber(line.digits, server.maxNumber) =
        IF Spelled(line.digits) > server.maxNumber THEN Refused("OVERFLOW")
        ELSE Ok(Spelled(line.digits))
  BY <1>1, NumberExact
<1>3. \A v : Ok(v).status = "OK" /\ Ok(v).value = v
  BY DEF Ok
<1>4. Refused("OVERFLOW").status # "OK"
  BY DEF Refused
<1> DEFINE d == DecimalNumber(line.digits, server.maxNumber)
           v == Spelled(line.digits)
           Body(n) == Ok([found EXCEPT !.length = n, !.hasLength = TRUE])
<1>5. Then(d, LAMBDA n : Body(n)) = IF v > server.maxNumber THEN Refused("OVERFLOW") ELSE Body(v)
  <2> HIDE DEF v
  <2>1. CASE v > server.maxNumber
    <3>1. d = Refused("OVERFLOW")
      BY <1>2, <2>1 DEF v
    <3> HIDE DEF d
    <3> QED
      BY <1>4, <2>1, <3>1, Zenon DEF Then
  <2>2. CASE ~(v > server.maxNumber)
    <3>1. d = Ok(v)
      BY <1>2, <2>2 DEF v
    <3> HIDE DEF d, Body
    <3> QED
      BY <1>3, <2>2, <3>1, Zenon DEF Then
  <2> QED
    BY <2>1, <2>2
<1> HIDE DEF d
<1> QED
  BY <1>5, Zenon DEF HeaderLine, d

(* A header line turns an answer of the loop into an answer of the loop. *)
LEMMA HeaderTurns ==
  ASSUME NEW r \in HeaderAnswers, NEW line \in HeaderLines, NEW server \in Servers
  PROVE  HeaderTurn(r, line, server) \in HeaderAnswers
<1>1. CASE \E found \in FoundHeaders : r = Ok(found)
  <2>1. PICK found \in FoundHeaders : r = Ok(found)
    BY <1>1
  <2>2. HeaderTurn(r, line, server) = HeaderLine(found, line, server)
    BY <2>1 DEF HeaderTurn, Ok
  <2>3. [found EXCEPT !.length = Spelled(line.digits), !.hasLength = TRUE] \in FoundHeaders
    <3>1. Spelled(line.digits) \in Nat
      BY NumberExact DEF HeaderLines
    <3> QED
      BY <3>1 DEF FoundHeaders
  <2>4. [found EXCEPT !.origin = TRUE, !.allowed = Allowed(line.origin, server)] \in FoundHeaders
    <3>1. Allowed(line.origin, server) \in BOOLEAN
      BY DEF Allowed, OriginMatches, AsciiEquals
    <3> QED
      BY <3>1 DEF FoundHeaders
  <2> QED
    BY <2>2, <2>3, <2>4, HeaderLineSays, Zenon DEF HeaderAnswers
<1>2. CASE r \in {Refused("BAD"), Refused("OVERFLOW")}
  <2>1. HeaderTurn(r, line, server) = r
    BY <1>2 DEF HeaderTurn, Refused
  <2> QED
    BY <2>1
<1> QED
  BY <1>1, <1>2 DEF HeaderAnswers

(* The header lines are parsed one by one. *)
LEMMA HeadersLoop ==
  ASSUME NEW lines \in Seq(HeaderLines), NEW server \in Servers
  PROVE  \E f \in [0 .. Len(lines) -> HeaderAnswers] :
           /\ f[0] = Ok(NoHeaders)
           /\ \A i \in 1 .. Len(lines) : f[i] = HeaderTurn(f[i - 1], lines[i], server)
           /\ ParseHeaders(lines, server) = f[Len(lines)]
<1> DEFINE n == Len(lines)
           T == [i \in 1 .. n |-> [r \in HeaderAnswers |-> HeaderTurn(r, lines[i], server)]]
<1>1. n \in Nat /\ \A i \in 1 .. n : lines[i] \in HeaderLines
  <2> HIDE DEF n
  <2> QED
    BY DEF n
<1>2. Ok(NoHeaders) \in HeaderAnswers
  <2>1. NoHeaders \in FoundHeaders
    BY DEF NoHeaders, FoundHeaders
  <2> QED
    BY <2>1 DEF HeaderAnswers
<1>3. T \in Turns(n, HeaderAnswers)
  BY <1>1, HeaderTurns DEF Turns
<1>4. \A r \in HeaderAnswers, i \in 1 .. n : T[i][r] = HeaderTurn(r, lines[i], server)
  OBVIOUS
<1> HIDE DEF n, T
<1>5. PICK f \in [0 .. n -> HeaderAnswers] :
        f[0] = Ok(NoHeaders) /\ \A i \in 1 .. n : f[i] = T[i][f[i - 1]]
  <2>1. \E f : Course(f, n, HeaderAnswers, Ok(NoHeaders), T)
    BY <1>1, <1>2, <1>3, Iterates
  <2> QED
    BY <2>1 DEF Course
<1>6. ASSUME NEW i \in 1 .. n PROVE f[i] = HeaderTurn(f[i - 1], lines[i], server)
  <2>1. i - 1 \in 0 .. n
    BY <1>1
  <2> QED
    BY <1>4, <1>5, <2>1
<1>7. \A i \in 0 .. n : f[i] = IF i = 0 THEN Ok(NoHeaders)
                               ELSE HeaderTurn(f[i - 1], lines[i], server)
  <2> SUFFICES ASSUME NEW i \in 0 .. n, i # 0
               PROVE  f[i] = HeaderTurn(f[i - 1], lines[i], server)
    BY <1>5
  <2>1. i \in 1 .. n
    BY <1>1
  <2> QED
    BY <1>6, <2>1
<1>8. f = [i \in 0 .. n |-> IF i = 0 THEN Ok(NoHeaders)
                            ELSE HeaderTurn(f[i - 1], lines[i], server)]
  BY <1>5, <1>7
<1>9. Parses(f, lines, server)
  BY <1>8, Zenon DEF Parses, HeaderTurn, n
<1>10. PICK g : g = CHOOSE h : Parses(h, lines, server)
  OBVIOUS
<1>11. Parses(g, lines, server) /\ ParseHeaders(lines, server) = g[n]
  BY <1>9, <1>10, HeadersUnfolded, Zenon DEF n
<1>12. g = [i \in 0 .. n |-> IF i = 0 THEN Ok(NoHeaders)
                             ELSE HeaderTurn(g[i - 1], lines[i], server)]
  BY <1>11, Zenon DEF Parses, HeaderTurn, n
<1>13. \A i \in 0 .. n : g[i] = IF i = 0 THEN Ok(NoHeaders)
                                ELSE HeaderTurn(g[i - 1], lines[i], server)
  BY <1>12, Zenon
<1> DEFINE C == {i \in 0 .. n : g[i] = f[i]}
<1>14. 0 \in C
  BY <1>1, <1>5, <1>13
<1>15. ASSUME NEW k \in 0 .. n - 1, k \in C PROVE k + 1 \in C
  <2>1. k + 1 \in 1 .. n /\ (k + 1) - 1 = k /\ k + 1 \in 0 .. n /\ k + 1 # 0
    BY <1>1
  <2>2. f[k + 1] = HeaderTurn(f[k], lines[k + 1], server)
    BY <1>6, <2>1
  <2>3. g[k + 1] = HeaderTurn(g[k], lines[k + 1], server)
    BY <1>13, <2>1
  <2> QED
    BY <1>15, <2>1, <2>2, <2>3
<1>16. n \in C
  <2>1. \A k \in 0 .. n : k \in C
    <3> HIDE DEF C
    <3> QED
      BY <1>1, <1>14, <1>15, Induction
  <2> QED
    BY <1>1, <2>1
<1>17. ParseHeaders(lines, server) = f[n]
  BY <1>11, <1>16
<1> QED
  BY <1>5, <1>6, <1>17, Zenon DEF n

(* The first k lines may stand in a header, and found is what they say. *)
LinesStand(lines, k, server) ==
  /\ \A i \in 1 .. k : lines[i].name \notin {"", "transfer-encoding"}
  /\ \A i, j \in 1 .. k :
       lines[i].name = "content-length" /\ lines[j].name = "content-length" => i = j
  /\ \A i, j \in 1 .. k : lines[i].name = "origin" /\ lines[j].name = "origin" => i = j
  /\ \A i \in 1 .. k : lines[i].name = "content-length" =>
       lines[i].digits # <<>> /\ ~(Spelled(lines[i].digits) > server.maxNumber)

LinesSay(found, lines, k, server) ==
  /\ found \in FoundHeaders
  /\ found.hasLength <=> \E i \in 1 .. k : lines[i].name = "content-length"
  /\ found.origin <=> \E i \in 1 .. k : lines[i].name = "origin"
  /\ \A i \in 1 .. k : lines[i].name = "content-length" => found.length = Spelled(lines[i].digits)
  /\ ~found.hasLength => found.length = 0
  /\ found.allowed <=> \A i \in 1 .. k : lines[i].name = "origin" => Allowed(lines[i].origin, server)

(* One more header line is added to what the lines before it say, or is refused
   because the lines up to it cannot stand. *)
LEMMA NextLine ==
  ASSUME NEW lines \in Seq(HeaderLines), NEW server \in Servers,
         NEW k \in 0 .. Len(lines) - 1, NEW found,
         LinesStand(lines, k, server), LinesSay(found, lines, k, server)
  PROVE  LET r == HeaderLine(found, lines[k + 1], server)
         IN  \/ LinesStand(lines, k + 1, server) /\
                  \E more : r = Ok(more) /\ LinesSay(more, lines, k + 1, server)
             \/ ~LinesStand(lines, k + 1, server) /\ r \in {Refused("BAD"), Refused("OVERFLOW")}
<1> DEFINE n == Len(lines)
           l == lines[k + 1]
           v == Spelled(l.digits)
           r == HeaderLine(found, l, server)
           Goal == \/ LinesStand(lines, k + 1, server) /\
                       \E more : r = Ok(more) /\ LinesSay(more, lines, k + 1, server)
                   \/ ~LinesStand(lines, k + 1, server) /\ r \in {Refused("BAD"), Refused("OVERFLOW")}
<1>1. k \in Nat /\ k + 1 \in 1 .. k + 1 /\ l \in HeaderLines
  <2>1. Len(lines) \in Nat
    OBVIOUS
  <2>2. k \in Nat /\ k + 1 \in 1 .. Len(lines)
    BY <2>1
  <2> QED
    BY <2>2
<1>2. \A i : i \in 1 .. k + 1 <=> i \in 1 .. k \/ i = k + 1
  BY <1>1
<1>3. k + 1 \notin 1 .. k
  BY <1>1
<1>4. found \in FoundHeaders
  BY DEF LinesSay
<1>5. r = CASE l.name = "content-length" ->
                  IF found.hasLength \/ l.digits = <<>> THEN Refused("BAD")
                  ELSE IF v > server.maxNumber THEN Refused("OVERFLOW")
                  ELSE Ok([found EXCEPT !.length = v, !.hasLength = TRUE])
             [] l.name = "origin" ->
                  IF found.origin THEN Refused("BAD")
                  ELSE Ok([found EXCEPT !.origin = TRUE, !.allowed = Allowed(l.origin, server)])
             [] l.name \in {"", "transfer-encoding"} -> Refused("BAD")
             [] OTHER -> Ok(found)
  BY <1>1, <1>4, HeaderLineSays, Zenon
<1> HIDE DEF r
<1>6. CASE l.name = "content-length"
  <2>1. CASE found.hasLength
    <3>1. r = Refused("BAD")
      BY <1>5, <1>6, <2>1
    <3>2. PICK i \in 1 .. k : lines[i].name = "content-length"
      BY <2>1 DEF LinesSay
    <3>3. ~LinesStand(lines, k + 1, server)
      BY <1>2, <1>3, <1>6, <3>2 DEF LinesStand
    <3> QED
      BY <3>1, <3>3 DEF r
  <2>2. CASE ~found.hasLength /\ (l.digits = <<>> \/ v > server.maxNumber)
    <3>1. r \in {Refused("BAD"), Refused("OVERFLOW")}
      BY <1>5, <1>6, <2>2
    <3>2. ~LinesStand(lines, k + 1, server)
      BY <1>2, <1>6, <2>2 DEF LinesStand
    <3> QED
      BY <3>1, <3>2 DEF r
  <2>3. CASE ~found.hasLength /\ l.digits # <<>> /\ ~(v > server.maxNumber)
    <3> DEFINE more == [found EXCEPT !.length = v, !.hasLength = TRUE]
    <3>1. r = Ok(more)
      BY <1>5, <1>6, <2>3
    <3>2. \A i \in 1 .. k : lines[i].name # "content-length"
      BY <2>3 DEF LinesSay
    <3>3. LinesStand(lines, k + 1, server)
      <4> HIDE DEF v
      <4> QED
        BY <1>2, <1>6, <2>3, <3>2 DEF LinesStand, v
    <3>4. v \in Nat
      BY <1>1, NumberExact DEF HeaderLines
    <3>5. /\ more \in FoundHeaders /\ more.hasLength /\ more.length = v
          /\ more.origin = found.origin /\ more.allowed = found.allowed
      <4> HIDE DEF v
      <4> QED
        BY <1>4, <3>4 DEF FoundHeaders
    <3> HIDE DEF more
    <3>6. LinesSay(more, lines, k + 1, server)
      BY <1>2, <1>6, <3>2, <3>5, Zenon DEF LinesSay
    <3> QED
      BY <3>1, <3>3, <3>6 DEF r
  <2> QED
    BY <2>1, <2>2, <2>3
<1>7. CASE l.name = "origin"
  <2>1. CASE found.origin
    <3>1. r = Refused("BAD")
      BY <1>5, <1>7, <2>1
    <3>2. PICK i \in 1 .. k : lines[i].name = "origin"
      BY <2>1 DEF LinesSay
    <3>3. ~LinesStand(lines, k + 1, server)
      BY <1>2, <1>3, <1>7, <3>2 DEF LinesStand
    <3> QED
      BY <3>1, <3>3 DEF r
  <2>2. CASE ~found.origin
    <3> DEFINE b == Allowed(l.origin, server)
               more == [found EXCEPT !.origin = TRUE, !.allowed = b]
    <3>1. r = Ok(more)
      BY <1>5, <1>7, <2>2
    <3>2. \A i \in 1 .. k : lines[i].name # "origin"
      BY <2>2 DEF LinesSay
    <3>3. LinesStand(lines, k + 1, server)
      BY <1>2, <1>7, <3>2 DEF LinesStand
    <3>4. b \in BOOLEAN
      BY DEF Allowed, OriginMatches, AsciiEquals
    <3>5. /\ more \in FoundHeaders /\ more.origin /\ more.allowed = b
          /\ more.hasLength = found.hasLength /\ more.length = found.length
      <4> HIDE DEF b
      <4> QED
        BY <1>4, <3>4 DEF FoundHeaders
    <3> HIDE DEF more
    <3>6. LinesSay(more, lines, k + 1, server)
      BY <1>2, <1>7, <3>2, <3>5, Zenon DEF LinesSay
    <3> QED
      BY <3>1, <3>3, <3>6 DEF r
  <2> QED
    BY <2>1, <2>2
<1>8. CASE l.name \in {"", "transfer-encoding"}
  <2>1. r = Refused("BAD")
    BY <1>5, <1>8
  <2>2. ~LinesStand(lines, k + 1, server)
    BY <1>2, <1>8 DEF LinesStand
  <2> QED
    BY <2>1, <2>2 DEF r
<1>9. CASE l.name \notin {"content-length", "origin", "", "transfer-encoding"}
  <2>1. r = Ok(found)
    BY <1>5, <1>9
  <2>2. LinesStand(lines, k + 1, server)
    BY <1>2, <1>9 DEF LinesStand
  <2>3. LinesSay(found, lines, k + 1, server)
    BY <1>2, <1>9, Zenon DEF LinesSay
  <2> QED
    BY <2>1, <2>2, <2>3 DEF r
<1> QED
  BY <1>6, <1>7, <1>8, <1>9

(* The headers of a request are refused or say what their lines say. *)
LEMMA HeadersMean ==
  ASSUME NEW lines \in Seq(HeaderLines), NEW server \in Servers
  PROVE  \/ LinesStand(lines, Len(lines), server) /\
              \E found : /\ ParseHeaders(lines, server) = Ok(found)
                         /\ LinesSay(found, lines, Len(lines), server)
         \/ /\ ~LinesStand(lines, Len(lines), server)
            /\ ParseHeaders(lines, server) \in {Refused("BAD"), Refused("OVERFLOW")}
<1> DEFINE n == Len(lines)
           Holds(r, k) == \/ LinesStand(lines, k, server) /\
                              \E found : r = Ok(found) /\ LinesSay(found, lines, k, server)
                          \/ ~LinesStand(lines, k, server) /\ r \in {Refused("BAD"), Refused("OVERFLOW")}
<1>1. PICK f : /\ f[0] = Ok(NoHeaders)
               /\ \A i \in 1 .. n : f[i] = HeaderTurn(f[i - 1], lines[i], server)
               /\ ParseHeaders(lines, server) = f[n]
  BY HeadersLoop
<1>2. n \in Nat
  OBVIOUS
<1> DEFINE C == {k \in 0 .. n : Holds(f[k], k)}
<1>3. 0 \in C
  <2>1. \A i : i \notin 1 .. 0
    OBVIOUS
  <2>2. NoHeaders \in FoundHeaders /\ NoHeaders.length = 0 /\ NoHeaders.hasLength = FALSE
        /\ NoHeaders.origin = FALSE /\ NoHeaders.allowed = TRUE
    BY DEF NoHeaders, FoundHeaders
  <2>3. LinesStand(lines, 0, server) /\ LinesSay(NoHeaders, lines, 0, server)
    BY <2>1, <2>2, Zenon DEF LinesStand, LinesSay
  <2> QED
    BY <1>1, <1>2, <2>3
<1>4. ASSUME NEW k \in 0 .. n - 1, k \in C PROVE k + 1 \in C
  <2>1. k + 1 \in 1 .. n /\ (k + 1) - 1 = k /\ k + 1 \in 0 .. n
    BY <1>2
  <2>2. f[k + 1] = HeaderTurn(f[k], lines[k + 1], server)
    BY <1>1, <2>1
  <2>3. CASE LinesStand(lines, k, server) /\
               \E found : f[k] = Ok(found) /\ LinesSay(found, lines, k, server)
    <3>1. PICK found : f[k] = Ok(found) /\ LinesSay(found, lines, k, server)
      BY <2>3
    <3>2. f[k + 1] = HeaderLine(found, lines[k + 1], server)
      BY <2>2, <3>1 DEF HeaderTurn, Ok
    <3>3. Holds(HeaderLine(found, lines[k + 1], server), k + 1)
      BY <2>3, <3>1, NextLine
    <3> QED
      BY <2>1, <3>2, <3>3
  <2>4. CASE ~LinesStand(lines, k, server) /\ f[k] \in {Refused("BAD"), Refused("OVERFLOW")}
    <3>1. f[k + 1] = f[k]
      BY <2>2, <2>4 DEF HeaderTurn, Refused
    <3>2. \A i \in 1 .. k : i \in 1 .. k + 1
      BY <1>2
    <3>3. ~LinesStand(lines, k + 1, server)
      BY <2>4, <3>2, Zenon DEF LinesStand
    <3> QED
      BY <2>1, <2>4, <3>1, <3>3
  <2> QED
    BY <1>4, <2>3, <2>4
<1>5. n \in C
  <2>1. \A k \in 0 .. n : k \in C
    <3> HIDE DEF C, n
    <3> QED
      BY <1>2, <1>3, <1>4, Induction
  <2> QED
    BY <1>2, <2>1
<1> QED
  BY <1>1, <1>5

(* An origin in lower case is equal to another in all but its case. *)
LEMMA Lowered ==
  ASSUME NEW origin \in Origins, NEW t, NEW scheme, NEW host, NEW p
  PROVE  [origin EXCEPT !.lower = t] = [[scheme |-> scheme, host |-> host, port |-> p, lower |-> t]
                                          EXCEPT !.lower = t]
           <=> origin.scheme = scheme /\ origin.host = host /\ origin.port = p
<1>1. [origin EXCEPT !.lower = t] =
        [scheme |-> origin.scheme, host |-> origin.host, port |-> origin.port, lower |-> t]
  BY DEF Origins
<1>2. [[scheme |-> scheme, host |-> host, port |-> p, lower |-> t] EXCEPT !.lower = t]
        = [scheme |-> scheme, host |-> host, port |-> p, lower |-> t]
  OBVIOUS
<1> QED
  BY <1>1, <1>2

(* An origin is allowed as the server spells it or as a page of its own. *)
LEMMA AllowedMeans ==
  ASSUME NEW origin \in Origins, NEW server \in Servers
  PROVE  Allowed(origin, server) <=> origin = server.publicOrigin \/ Local(origin, server)
<1>1. \A host, p : AsciiEquals(origin, [scheme |-> "http", host |-> host, port |-> p, lower |-> TRUE])
        <=> origin.scheme = "http" /\ origin.host = host /\ origin.port = p
  <2> DEFINE t == TRUE
  <2> HIDE DEF t
  <2>1. \A host, p :
          [origin EXCEPT !.lower = t] =
            [[scheme |-> "http", host |-> host, port |-> p, lower |-> t] EXCEPT !.lower = t]
          <=> origin.scheme = "http" /\ origin.host = host /\ origin.port = p
    BY Lowered
  <2> QED
    BY <2>1, Zenon DEF AsciiEquals, t
<1> DEFINE Expected(host, p) == [scheme |-> "http", host |-> host, port |-> p, lower |-> TRUE]
<1>2. \A host, port : OriginMatches(origin, host, port) <=>
        \/ port = 80 /\ AsciiEquals(origin, Expected(host, 0))
        \/ AsciiEquals(origin, Expected(host, port))
  BY Zenon DEF OriginMatches
<1>4. \A host, port : OriginMatches(origin, host, port) <=>
        /\ origin.scheme = "http" /\ origin.host = host
        /\ origin.port = port \/ (origin.port = 0 /\ port = 80)
  <2>1. \A host, p : AsciiEquals(origin, Expected(host, p)) <=>
          origin.scheme = "http" /\ origin.host = host /\ origin.port = p
    BY <1>1, Zenon
  <2> HIDE DEF Expected
  <2> QED
    BY <1>2, <2>1
<1>3. Allowed(origin, server) <=>
        \/ /\ origin.scheme = "http" /\ origin.host = "127.0.0.1"
           /\ origin.port = server.port \/ (origin.port = 0 /\ server.port = 80)
        \/ /\ origin.scheme = "http" /\ origin.host = "localhost"
           /\ origin.port = server.port \/ (origin.port = 0 /\ server.port = 80)
        \/ origin = server.publicOrigin
  BY <1>4 DEF Allowed
<1> QED
  BY <1>3 DEF Local

(* A request whose header has arrived is understood as its bytes say. *)
LEMMA HeaderMeans ==
  ASSUME NEW wire \in Wires, NEW server \in Servers
  PROVE  IF Acceptable(wire, server)
         THEN \E found : /\ ParseHeaders(wire.headers, server) = Ok(found)
                         /\ RequestTarget(wire.line).status = "OK"
                         /\ found.length = BodyLength(wire) /\ found.length \in Nat
                         /\ found.hasLength = FrameOf(wire, server).hasLength
                         /\ found.allowed = FrameOf(wire, server).allowed
         ELSE \/ RequestTarget(wire.line) = Refused("BAD")
              \/ /\ RequestTarget(wire.line).status = "OK"
                 /\ ParseHeaders(wire.headers, server) \in {Refused("BAD"), Refused("OVERFLOW")}
<1> DEFINE lines == wire.headers
           n == Len(lines)
<1>1. lines \in Seq(HeaderLines) /\ server.maxNumber \in Nat
  BY DEF Wires, Servers
<1>2. \A i \in 1 .. n : /\ lines[i] \in HeaderLines
                        /\ lines[i].digits \in DigitLists /\ lines[i].origin \in Origins
  <2>1. \A i \in 1 .. n : lines[i] \in HeaderLines
    <3> HIDE DEF lines
    <3> QED
      BY <1>1
  <2>2. \A l \in HeaderLines : l.digits \in DigitLists /\ l.origin \in Origins
    BY DEF HeaderLines
  <2> HIDE DEF lines
  <2> QED
    BY <2>1, <2>2
<1>3. LinesStand(lines, n, server) <=>
        /\ LinesNamed(wire, "") \cup LinesNamed(wire, "transfer-encoding") = {}
        /\ Once(wire, "content-length") /\ Once(wire, "origin")
        /\ \A d \in Lengths(wire) : d # <<>> /\ Spelled(d) <= server.maxNumber
  <2>1. (\A i \in 1 .. n : lines[i].name \notin {"", "transfer-encoding"}) <=>
          LinesNamed(wire, "") \cup LinesNamed(wire, "transfer-encoding") = {}
    BY DEF LinesNamed
  <2>2. \A name : (\A i, j \in 1 .. n : lines[i].name = name /\ lines[j].name = name => i = j)
          <=> Once(wire, name)
    BY DEF LinesNamed, Once
  <2>3. \A i \in 1 .. n : Spelled(lines[i].digits) \in Nat
    BY <1>2, NumberExact
  <2>4. (\A i \in 1 .. n : lines[i].name = "content-length" =>
           lines[i].digits # <<>> /\ ~(Spelled(lines[i].digits) > server.maxNumber))
          <=> \A d \in Lengths(wire) : d # <<>> /\ Spelled(d) <= server.maxNumber
    BY <1>1, <2>3 DEF Lengths, LinesNamed
  <2> HIDE DEF lines, n
  <2> QED
    BY <2>1, <2>2, <2>4, Zenon DEF LinesStand
<1>4. Acceptable(wire, server) <=>
        RequestTarget(wire.line).status = "OK" /\ LinesStand(lines, n, server)
  <2>1. RequestTarget(wire.line).status = "OK" <=>
          /\ wire.line.fits
          /\ wire.line.method # "" /\ wire.line.target # ""
          /\ wire.line.version \in {"1.0", "1.1"}
    BY DEF RequestTarget, Ok, Refused
  <2> QED
    BY <1>3, <2>1 DEF Acceptable
<1>5. RequestTarget(wire.line).status = "OK" \/ RequestTarget(wire.line) = Refused("BAD")
  BY DEF RequestTarget, Ok, Refused
<1>6. ASSUME NEW found, LinesSay(found, lines, n, server)
      PROVE  /\ found.length = BodyLength(wire) /\ found.length \in Nat
             /\ found.hasLength = FrameOf(wire, server).hasLength
             /\ found.allowed = FrameOf(wire, server).allowed
  <2>1. found.length \in Nat /\ found.hasLength \in BOOLEAN /\ found.allowed \in BOOLEAN
    BY <1>6 DEF LinesSay, FoundHeaders
  <2>2. found.hasLength <=> Lengths(wire) # {}
    BY <1>6 DEF LinesSay, Lengths, LinesNamed
  <2>3. found.length = BodyLength(wire)
    <3>1. CASE Lengths(wire) = {}
      BY <1>6, <2>2, <3>1 DEF LinesSay, BodyLength
    <3>2. CASE Lengths(wire) # {}
      <4>1. PICK d \in Lengths(wire) : d = CHOOSE e \in Lengths(wire) : TRUE
        BY <3>2
      <4>2. PICK i \in 1 .. n : lines[i].name = "content-length" /\ d = lines[i].digits
        BY <4>1 DEF Lengths, LinesNamed
      <4>3. BodyLength(wire) = Spelled(d)
        BY <3>2, <4>1, Zenon DEF BodyLength
      <4> QED
        BY <1>6, <4>2, <4>3 DEF LinesSay
    <3> QED
      BY <3>1, <3>2
  <2>4. found.allowed <=> \A o \in OriginsOf(wire) : o = server.publicOrigin \/ Local(o, server)
    <3>1. \A i \in 1 .. n : Allowed(lines[i].origin, server) <=>
            lines[i].origin = server.publicOrigin \/ Local(lines[i].origin, server)
      BY <1>2, AllowedMeans
    <3>2. found.allowed <=>
            \A i \in 1 .. n : lines[i].name = "origin" => Allowed(lines[i].origin, server)
      BY <1>6 DEF LinesSay
    <3> QED
      BY <3>1, <3>2 DEF OriginsOf, LinesNamed
  <2> QED
    BY <2>1, <2>2, <2>3, <2>4 DEF FrameOf
<1>7. \/ LinesStand(lines, n, server) /\
           \E found : /\ ParseHeaders(lines, server) = Ok(found)
                      /\ LinesSay(found, lines, n, server)
      \/ /\ ~LinesStand(lines, n, server)
         /\ ParseHeaders(lines, server) \in {Refused("BAD"), Refused("OVERFLOW")}
  BY <1>1, HeadersMean
<1> QED
  BY <1>4, <1>5, <1>6, <1>7

-----------------------------------------------------------------------------
(* Streams *)

(* What is told of the bytes that have arrived. *)
LEMMA ProbeMeans ==
  ASSUME NEW wire \in Wires, NEW server \in Servers, NEW capacity \in Nat \ {0},
         NEW used \in 0 .. capacity - 1
  PROVE  LET r == Probe(wire, used, capacity, server)
         IN  /\ wire.header \in Nat /\ wire.nul \in Nat
             /\ ~HeaderEnds(wire, used) =>
                  r = IF NulArrived(wire, used) \/ used + 1 = capacity THEN Refused("BAD")
                      ELSE Refused("MORE")
             /\ HeaderEnds(wire, used) /\ ~Acceptable(wire, server) =>
                  r \in {Refused("BAD"), Refused("OVERFLOW")}
             /\ HeaderEnds(wire, used) /\ Acceptable(wire, server) =>
                  /\ BodyLength(wire) \in Nat
                  /\ r = IF \/ BodyLength(wire) > server.maxBody
                            \/ wire.header + BodyLength(wire) >= capacity
                         THEN Refused("LARGE")
                         ELSE IF used < wire.header + BodyLength(wire) THEN Refused("MORE")
                         ELSE Ok(FrameOf(wire, server))
<1> DEFINE r == Probe(wire, used, capacity, server)
           Rest == Then(RequestTarget(wire.line), LAMBDA words :
                     Then(ParseHeaders(wire.headers, server), LAMBDA found :
                       Framed(wire, used, capacity, server, found)))
<1>1. wire.header \in Nat /\ wire.nul \in Nat /\ ~(used >= capacity) /\ server.maxBody \in Nat
  BY DEF Wires, Servers
<1>2. r = IF ~HeaderEnds(wire, used) THEN
            IF NulArrived(wire, used) \/ used + 1 = capacity THEN Refused("BAD")
            ELSE Refused("MORE")
          ELSE Rest
  BY <1>1, Zenon DEF Probe
<1>3. CASE ~Acceptable(wire, server)
  <2>1. CASE RequestTarget(wire.line) = Refused("BAD")
    <3>1. RequestTarget(wire.line).status # "OK"
      BY <2>1 DEF Refused
    <3>2. Rest = Refused("BAD")
      BY <2>1, <3>1, Zenon DEF Then
    <3> HIDE DEF Rest, r
    <3> QED
      BY <1>1, <1>2, <1>3, <3>2 DEF r
  <2>2. CASE /\ RequestTarget(wire.line).status = "OK"
             /\ ParseHeaders(wire.headers, server) \in {Refused("BAD"), Refused("OVERFLOW")}
    <3>1. ParseHeaders(wire.headers, server).status # "OK"
      BY <2>2 DEF Refused
    <3>2. Rest = ParseHeaders(wire.headers, server)
      BY <2>2, <3>1, Zenon DEF Then
    <3> HIDE DEF Rest, r
    <3> QED
      BY <1>1, <1>2, <1>3, <2>2, <3>2 DEF r
  <2> QED
    BY <1>3, <2>1, <2>2, HeaderMeans
<1>4. CASE Acceptable(wire, server)
  <2>1. PICK found : /\ ParseHeaders(wire.headers, server) = Ok(found)
                     /\ RequestTarget(wire.line).status = "OK"
                     /\ found.length = BodyLength(wire) /\ found.length \in Nat
                     /\ found.hasLength = FrameOf(wire, server).hasLength
                     /\ found.allowed = FrameOf(wire, server).allowed
    BY <1>4, HeaderMeans
  <2>2. Ok(found).status = "OK" /\ Ok(found).value = found
    BY DEF Ok
  <2>3. Rest = Framed(wire, used, capacity, server, found)
    BY <2>1, <2>2, Zenon DEF Then
  <2>4. found.length > (capacity - wire.header) - 1 <=> wire.header + BodyLength(wire) >= capacity
    BY <1>1, <2>1
  <2>5. [length |-> wire.header + found.length, hasLength |-> found.hasLength,
         allowed |-> found.allowed] = FrameOf(wire, server)
    <3> DEFINE h == Lengths(wire) # {}
               b == \A o \in OriginsOf(wire) : o = server.publicOrigin \/ Local(o, server)
    <3>1. FrameOf(wire, server) =
            [length |-> wire.header + BodyLength(wire), hasLength |-> h, allowed |-> b]
      BY Zenon DEF FrameOf
    <3> HIDE DEF h, b
    <3> QED
      BY <2>1, <3>1
  <2>6. Framed(wire, used, capacity, server, found) =
          IF \/ BodyLength(wire) > server.maxBody
             \/ wire.header + BodyLength(wire) >= capacity
          THEN Refused("LARGE")
          ELSE IF used < wire.header + BodyLength(wire) THEN Refused("MORE")
          ELSE Ok(FrameOf(wire, server))
    BY <2>1, <2>4, <2>5, Zenon DEF Framed
  <2> HIDE DEF Rest, r
  <2> QED
    BY <1>1, <1>2, <1>4, <2>1, <2>3, <2>6 DEF r
<1> QED
  BY <1>3, <1>4

(* What a probe tells of the first bytes holds of the whole stream, and if it
   asks for more of all that was sent then the stream has stopped. *)
LEMMA ProbeDecides ==
  ASSUME NEW wire \in Wires, NEW server \in Servers, NEW capacity \in Nat \ {0},
         NEW sent \in Nat, NEW ending, NEW used \in 0 .. capacity - 1, used <= sent
  PROVE  LET r == Probe(wire, used, capacity, server)
             m == Meaning(wire, sent, ending, capacity, server)
         IN  /\ r.status \in {"OK", "MORE", "BAD", "OVERFLOW", "LARGE"}
             /\ r.status = "OK" => m = r
             /\ r.status \in {"BAD", "OVERFLOW"} => m = Refused("400")
             /\ r.status = "LARGE" => m = Refused("413")
             /\ r.status = "MORE" /\ used = (IF sent < capacity THEN sent ELSE capacity - 1) =>
                  m = Refused(IF ending = Late THEN "408" ELSE "400")
<1> DEFINE r == Probe(wire, used, capacity, server)
           m == Meaning(wire, sent, ending, capacity, server)
           arrived == IF sent < capacity THEN sent ELSE capacity - 1
           complete == wire.nul = 0 /\ wire.header <= arrived
           hopeless == arrived = capacity - 1 \/ (wire.nul # 0 /\ wire.nul <= arrived)
           stopped == Refused(IF ending = Late THEN "408" ELSE "400")
           b == BodyLength(wire)
           large == b > server.maxBody \/ wire.header + b >= capacity
           frame == FrameOf(wire, server)
<1>1. m = IF ~complete THEN (IF hopeless THEN Refused("400") ELSE stopped)
          ELSE IF ~Acceptable(wire, server) THEN Refused("400")
          ELSE IF large THEN Refused("413")
          ELSE IF sent < wire.header + b THEN stopped
          ELSE Ok(frame)
  BY Zenon DEF Meaning
<1>2. /\ wire.header \in Nat /\ wire.nul \in Nat
      /\ ~HeaderEnds(wire, used) =>
           r = IF NulArrived(wire, used) \/ used + 1 = capacity THEN Refused("BAD")
               ELSE Refused("MORE")
      /\ HeaderEnds(wire, used) /\ ~Acceptable(wire, server) =>
           r \in {Refused("BAD"), Refused("OVERFLOW")}
      /\ HeaderEnds(wire, used) /\ Acceptable(wire, server) =>
           /\ b \in Nat
           /\ r = IF large THEN Refused("LARGE")
                  ELSE IF used < wire.header + b THEN Refused("MORE")
                  ELSE Ok(frame)
  BY ProbeMeans
<1>3. /\ \A e : Refused(e).status = e
      /\ \A v : Ok(v).status = "OK"
  BY DEF Refused, Ok
<1>4. used \in Nat /\ used <= arrived /\ arrived \in Nat /\ arrived <= sent
  OBVIOUS
<1> HIDE DEF r, m, b, frame, stopped
<1>5. CASE ~HeaderEnds(wire, used)
  <2>1. CASE NulArrived(wire, used) \/ used + 1 = capacity
    <3>1. r = Refused("BAD") /\ r.status = "BAD"
      BY <1>2, <1>3, <1>5, <2>1
    <3>2. ~complete /\ hopeless
      BY <1>2, <1>4, <1>5, <2>1 DEF HeaderEnds, NulArrived
    <3>3. m = Refused("400")
      BY <1>1, <3>2
    <3> QED
      BY <3>1, <3>3 DEF r, m
  <2>2. CASE ~(NulArrived(wire, used) \/ used + 1 = capacity)
    <3>1. r = Refused("MORE") /\ r.status = "MORE"
      BY <1>2, <1>3, <1>5, <2>2
    <3>2. used = arrived => ~complete /\ ~hopeless
      BY <1>2, <1>4, <1>5, <2>2 DEF HeaderEnds, NulArrived
    <3>3. used = arrived => m = stopped
      BY <1>1, <3>2
    <3> QED
      BY <3>1, <3>3 DEF r, m, stopped
  <2> QED
    BY <2>1, <2>2
<1>6. CASE HeaderEnds(wire, used) /\ ~Acceptable(wire, server)
  <2>1. complete
    BY <1>2, <1>4, <1>6 DEF HeaderEnds
  <2>2. m = Refused("400")
    BY <1>1, <1>6, <2>1
  <2>3. r.status \in {"BAD", "OVERFLOW"}
    BY <1>2, <1>3, <1>6
  <2> QED
    BY <2>2, <2>3 DEF r, m
<1>7. CASE HeaderEnds(wire, used) /\ Acceptable(wire, server)
  <2>1. complete
    BY <1>2, <1>4, <1>7 DEF HeaderEnds
  <2>2. CASE large
    <3>1. m = Refused("413") /\ r.status = "LARGE"
      BY <1>1, <1>2, <1>3, <1>7, <2>1, <2>2
    <3> QED
      BY <3>1 DEF r, m
  <2>3. CASE ~large /\ used < wire.header + b
    <3>1. r.status = "MORE"
      BY <1>2, <1>3, <1>7, <2>3
    <3>2. used = arrived => sent < wire.header + b
      BY <1>2, <1>4, <1>7, <2>3
    <3>3. used = arrived => m = stopped
      BY <1>1, <1>7, <2>1, <2>3, <3>2
    <3> QED
      BY <3>1, <3>3 DEF r, m, stopped
  <2>4. CASE ~large /\ ~(used < wire.header + b)
    <3>1. r = Ok(frame) /\ r.status = "OK"
      BY <1>2, <1>3, <1>7, <2>4
    <3>2. ~(sent < wire.header + b)
      BY <1>2, <1>4, <1>7, <2>4
    <3>3. m = Ok(frame)
      BY <1>1, <1>7, <2>1, <2>4, <3>2
    <3> QED
      BY <3>1, <3>3 DEF r, m
  <2> QED
    BY <2>2, <2>3, <2>4
<1> QED
  BY <1>5, <1>6, <1>7

(* f is how much was sent in the first i pieces. *)
Sums(f, pieces) ==
  f = [i \in 0 .. Len(pieces) |-> IF i = 0 THEN 0 ELSE f[i - 1] + Larger(pieces[i], 0)]

(* Sent is the last value of its loop over the pieces. *)
LEMMA SentUnfolded ==
  ASSUME NEW pieces
  PROVE  Sent(pieces) = (CHOOSE f : Sums(f, pieces))[Len(pieces)]
  BY Zenon DEF Sent, Loop, Sums

(* What was sent is counted piece by piece; a retry sends nothing. *)
LEMMA SentLoop ==
  ASSUME NEW pieces \in Pieces
  PROVE  \E f \in [0 .. Len(pieces) -> Nat] :
           /\ f[0] = 0
           /\ \A i \in 1 .. Len(pieces) : f[i] = f[i - 1] + Larger(pieces[i], 0)
           /\ Sent(pieces) = f[Len(pieces)]
<1> DEFINE n == Len(pieces)
           T == [i \in 1 .. n |-> [r \in Nat |-> r + Larger(pieces[i], 0)]]
<1>1. n \in Nat /\ \A i \in 1 .. n : Larger(pieces[i], 0) \in Nat
  <2>1. n \in Nat /\ \A i \in 1 .. n : pieces[i] \in (Nat \ {0}) \cup {Retryable}
    BY DEF Pieces
  <2> QED
    BY <2>1 DEF Larger, Retryable
<1>2. \A r \in Nat, i \in 1 .. n : T[i][r] = r + Larger(pieces[i], 0)
  OBVIOUS
<1>3. T \in Turns(n, Nat)
  BY <1>1 DEF Turns
<1>4. n \in Nat /\ 0 \in Nat
  BY <1>1
<1> HIDE DEF n, T
<1>5. PICK f \in [0 .. n -> Nat] : f[0] = 0 /\ \A i \in 1 .. n : f[i] = T[i][f[i - 1]]
  <2>1. \E f : Course(f, n, Nat, 0, T)
    BY <1>3, <1>4, Iterates
  <2> QED
    BY <2>1 DEF Course
<1>6. ASSUME NEW i \in 1 .. n PROVE f[i] = f[i - 1] + Larger(pieces[i], 0)
  <2>1. i - 1 \in 0 .. n
    BY <1>4
  <2> QED
    BY <1>2, <1>5, <2>1
<1>7. \A i \in 0 .. n : f[i] = IF i = 0 THEN 0 ELSE f[i - 1] + Larger(pieces[i], 0)
  <2> SUFFICES ASSUME NEW i \in 0 .. n, i # 0 PROVE f[i] = f[i - 1] + Larger(pieces[i], 0)
    BY <1>5
  <2>1. i \in 1 .. n
    BY <1>4
  <2> QED
    BY <1>6, <2>1
<1>8. f = [i \in 0 .. n |-> IF i = 0 THEN 0 ELSE f[i - 1] + Larger(pieces[i], 0)]
  BY <1>5, <1>7
<1>9. Sums(f, pieces)
  BY <1>8, Zenon DEF Sums, n
<1>10. PICK g : g = CHOOSE h : Sums(h, pieces)
  OBVIOUS
<1>11. Sums(g, pieces) /\ Sent(pieces) = g[n]
  BY <1>9, <1>10, SentUnfolded, Zenon DEF n
<1>12. g = [i \in 0 .. n |-> IF i = 0 THEN 0 ELSE g[i - 1] + Larger(pieces[i], 0)]
  BY <1>11, Zenon DEF Sums, n
<1>13. \A i \in 0 .. n : g[i] = IF i = 0 THEN 0 ELSE g[i - 1] + Larger(pieces[i], 0)
  BY <1>12, Zenon
<1> DEFINE C == {i \in 0 .. n : g[i] = f[i]}
<1>14. 0 \in C
  BY <1>4, <1>5, <1>13
<1>15. ASSUME NEW k \in 0 .. n - 1, k \in C PROVE k + 1 \in C
  <2>1. k + 1 \in 1 .. n /\ (k + 1) - 1 = k /\ k + 1 \in 0 .. n /\ k + 1 # 0
    BY <1>4
  <2>2. f[k + 1] = f[k] + Larger(pieces[k + 1], 0)
    BY <1>6, <2>1
  <2>3. g[k + 1] = g[k] + Larger(pieces[k + 1], 0)
    BY <1>13, <2>1
  <2> QED
    BY <1>15, <2>1, <2>2, <2>3
<1>16. n \in C
  <2>1. \A k \in 0 .. n : k \in C
    <3> HIDE DEF C
    <3> QED
      BY <1>4, <1>14, <1>15, Induction
  <2> QED
    BY <1>4, <2>1
<1>17. Sent(pieces) = f[n]
  BY <1>11, <1>16
<1> QED
  BY <1>5, <1>6, <1>17, Zenon DEF n

(* What reading has come to, and what each recv makes of it. *)
ReadAnswers(capacity) == {Ok(u) : u \in 0 .. capacity - 1}
                           \cup {Refused("413"), Refused("400"), Refused("408")}

ReadTurn(r, wire, capacity, server, piece) ==
  IF r.status = "OK" THEN ReadStep(wire, capacity, server, r.value, piece) ELSE r

Receives(f, wire, capacity, server, pieces) ==
  f = [i \in 0 .. Len(pieces) |->
         IF i = 0 THEN Ok(0)
         ELSE IF f[i - 1].status = "OK"
              THEN ReadStep(wire, capacity, server, f[i - 1].value, pieces[i]) ELSE f[i - 1]]

Received(wire, capacity, server, pieces) ==
  LoopWhileOk(Len(pieces), 0, LAMBDA used, i : ReadStep(wire, capacity, server, used, pieces[i]))

(* Receiving is the last answer of its loop over the recv calls. *)
LEMMA ReceivedUnfolded ==
  ASSUME NEW wire, NEW capacity, NEW server, NEW pieces
  PROVE  Received(wire, capacity, server, pieces) =
           (CHOOSE f : Receives(f, wire, capacity, server, pieces))[Len(pieces)]
  BY Zenon DEF Received, LoopWhileOk, Turn, Receives

(* A recv call leaves a number of bytes below the capacity, or an HTTP error. *)
LEMMA ReadTurns ==
  ASSUME NEW wire, NEW capacity \in Nat \ {0}, NEW server,
         NEW piece \in Nat \cup {Retryable, Late}, NEW r \in ReadAnswers(capacity)
  PROVE  ReadTurn(r, wire, capacity, server, piece) \in ReadAnswers(capacity)
<1>1. CASE \E u \in 0 .. capacity - 1 : r = Ok(u)
  <2>1. PICK u \in 0 .. capacity - 1 : r = Ok(u)
    BY <1>1
  <2>2. ReadTurn(r, wire, capacity, server, piece) = ReadStep(wire, capacity, server, u, piece)
    BY <2>1 DEF ReadTurn, Ok
  <2>3. ~(piece = Late) /\ ~(piece = Closed) /\ ~(piece = Retryable) =>
          u + Smaller(piece, (capacity - u) - 1) \in 0 .. capacity - 1
    BY DEF Smaller, Late, Closed, Retryable
  <2>4. ReadStep(wire, capacity, server, u, piece) \in
          {Refused("413"), Refused("400"), Refused("408"), Ok(u)}
          \cup (IF ~(piece = Late) /\ ~(piece = Closed) /\ ~(piece = Retryable)
                THEN {Ok(u + Smaller(piece, (capacity - u) - 1))} ELSE {})
    BY Zenon DEF ReadStep
  <2> QED
    BY <2>2, <2>3, <2>4 DEF ReadAnswers
<1>2. CASE r \in {Refused("413"), Refused("400"), Refused("408")}
  <2>1. ReadTurn(r, wire, capacity, server, piece) = r
    BY <1>2 DEF ReadTurn, Refused
  <2> QED
    BY <2>1
<1> QED
  BY <1>1, <1>2 DEF ReadAnswers

(* f is what receiving has come to after each recv call. *)
Receiving(f, wire, capacity, server, pieces) ==
  /\ f \in [0 .. Len(pieces) -> ReadAnswers(capacity)]
  /\ f[0] = Ok(0)
  /\ \A i \in 1 .. Len(pieces) :
       f[i] = ReadTurn(f[i - 1], wire, capacity, server, pieces[i])
  /\ Received(wire, capacity, server, pieces) = f[Len(pieces)]

(* A request is received recv by recv. *)
LEMMA ReadLoop ==
  ASSUME NEW wire \in Wires, NEW capacity \in Nat \ {0}, NEW server \in Servers,
         NEW pieces \in Seq(Nat \cup {Retryable, Late})
  PROVE  \E f : Receiving(f, wire, capacity, server, pieces)
<1> DEFINE n == Len(pieces)
           R == ReadAnswers(capacity)
           Next1(r, i) == ReadTurn(r, wire, capacity, server, pieces[i])
           T == [i \in 1 .. n |-> [r \in R |-> Next1(r, i)]]
<1>1. n \in Nat /\ \A i \in 1 .. n : pieces[i] \in Nat \cup {Retryable, Late}
  OBVIOUS
<1>2. Ok(0) \in R
  BY DEF ReadAnswers
<1>3. \A r \in R, i \in 1 .. n : Next1(r, i) \in R
  BY <1>1, ReadTurns
<1> HIDE DEF n, R
<1>4. T \in Turns(n, R)
  <2> HIDE DEF Next1
  <2> QED
    BY <1>3 DEF Turns
<1>5. \A r \in R, i \in 1 .. n : T[i][r] = Next1(r, i)
  OBVIOUS
<1> HIDE DEF T, Next1
<1>6. PICK f \in [0 .. n -> R] : f[0] = Ok(0) /\ \A i \in 1 .. n : f[i] = T[i][f[i - 1]]
  <2>1. \E f : Course(f, n, R, Ok(0), T)
    BY <1>1, <1>2, <1>4, Iterates
  <2> QED
    BY <2>1 DEF Course
<1>7. ASSUME NEW i \in 1 .. n PROVE f[i] = Next1(f[i - 1], i)
  <2>1. i - 1 \in 0 .. n
    BY <1>1
  <2> QED
    BY <1>5, <1>6, <2>1
<1>8. \A i \in 0 .. n : f[i] = IF i = 0 THEN Ok(0) ELSE Next1(f[i - 1], i)
  <2> SUFFICES ASSUME NEW i \in 0 .. n, i # 0 PROVE f[i] = Next1(f[i - 1], i)
    BY <1>6
  <2>1. i \in 1 .. n
    BY <1>1
  <2> QED
    BY <1>7, <2>1
<1>9. f = [i \in 0 .. n |-> IF i = 0 THEN Ok(0) ELSE Next1(f[i - 1], i)]
  BY <1>6, <1>8
<1>10. Receives(f, wire, capacity, server, pieces)
  BY <1>9, Zenon DEF Receives, Next1, ReadTurn, n
<1>11. PICK g : g = CHOOSE h : Receives(h, wire, capacity, server, pieces)
  OBVIOUS
<1>12. Receives(g, wire, capacity, server, pieces) /\ Received(wire, capacity, server, pieces) = g[n]
  BY <1>10, <1>11, ReceivedUnfolded, Zenon DEF n
<1>13. g = [i \in 0 .. n |-> IF i = 0 THEN Ok(0) ELSE Next1(g[i - 1], i)]
  BY <1>12, Zenon DEF Receives, Next1, ReadTurn, n
<1>14. \A i \in 0 .. n : g[i] = IF i = 0 THEN Ok(0) ELSE Next1(g[i - 1], i)
  BY <1>13, Zenon
<1> DEFINE C == {i \in 0 .. n : g[i] = f[i]}
<1>15. 0 \in C
  BY <1>1, <1>6, <1>14
<1>16. ASSUME NEW k \in 0 .. n - 1, k \in C PROVE k + 1 \in C
  <2>1. k + 1 \in 1 .. n /\ (k + 1) - 1 = k /\ k + 1 \in 0 .. n /\ k + 1 # 0
    BY <1>1
  <2>2. f[k + 1] = Next1(f[k], k + 1)
    BY <1>7, <2>1
  <2>3. g[k + 1] = Next1(g[k], k + 1)
    BY <1>14, <2>1
  <2> QED
    BY <1>16, <2>1, <2>2, <2>3
<1>17. n \in C
  <2>1. \A k \in 0 .. n : k \in C
    <3> HIDE DEF C
    <3> QED
      BY <1>1, <1>15, <1>16, Induction
  <2> QED
    BY <1>1, <2>1
<1>18. Received(wire, capacity, server, pieces) = f[n]
  BY <1>12, <1>17
<1> QED
  BY <1>6, <1>7, <1>18, Zenon DEF n, R, Next1, Receiving

(* What is known once t bytes were sent: they are in the buffer, as far as it
   has space, or some of them were a whole request, or were refused. *)
Known(r, wire, capacity, server, t) ==
  \/ r = Ok(IF t < capacity THEN t ELSE capacity - 1)
  \/ \E u \in 0 .. capacity - 1 :
       u <= t /\ r = Ok(u) /\ Probe(wire, u, capacity, server).status = "OK"
  \/ \E u \in 0 .. capacity - 1 :
       /\ u <= t
       /\ \/ r = Refused("413") /\ Probe(wire, u, capacity, server).status = "LARGE"
          \/ r = Refused("400") /\ Probe(wire, u, capacity, server).status \in {"BAD", "OVERFLOW"}

(* One more recv call, cut to the space that is left, keeps what is known. *)
LEMMA NextPiece ==
  ASSUME NEW wire \in Wires, NEW server \in Servers, NEW capacity \in Nat \ {0},
         NEW t \in Nat, NEW r, Known(r, wire, capacity, server, t),
         NEW piece \in (Nat \ {0}) \cup {Retryable}
  PROVE  Known(ReadTurn(r, wire, capacity, server, piece), wire, capacity, server,
               t + Larger(piece, 0))
<1> DEFINE P(u) == Probe(wire, u, capacity, server).status
           new == ReadTurn(r, wire, capacity, server, piece)
           more == t + Larger(piece, 0)
           at == IF t < capacity THEN t ELSE capacity - 1
<1>1. more \in Nat /\ t <= more
  BY DEF Larger, Retryable
<1>2. at \in 0 .. capacity - 1 /\ at <= t
  OBVIOUS
<1>3. (\A v : Ok(v).status = "OK" /\ Ok(v).value = v) /\ \A e : Refused(e).status = e
  BY DEF Ok, Refused
<1> HIDE DEF P, more, at, new
<1>4. ASSUME NEW u \in 0 .. capacity - 1, u <= t, r = Ok(u), P(u) = "OK"
      PROVE  Known(new, wire, capacity, server, more)
  <2>1. new = ReadStep(wire, capacity, server, u, piece)
    BY <1>3, <1>4 DEF ReadTurn, new
  <2>2. ReadStep(wire, capacity, server, u, piece) = Ok(u)
    BY <1>4 DEF ReadStep, P
  <2>3. u <= more
    BY <1>1, <1>4
  <2> QED
    BY <1>4, <2>1, <2>2, <2>3, Zenon DEF Known, P
<1>5. ASSUME NEW u \in 0 .. capacity - 1, u <= t,
             \/ r = Refused("413") /\ P(u) = "LARGE"
             \/ r = Refused("400") /\ P(u) \in {"BAD", "OVERFLOW"}
      PROVE  Known(new, wire, capacity, server, more)
  <2>1. new = r
    BY <1>3, <1>5 DEF ReadTurn, new
  <2>2. u <= more
    BY <1>1, <1>5
  <2> QED
    BY <1>5, <2>1, <2>2, Zenon DEF Known, P
<1>6. ASSUME r = Ok(at)
      PROVE  Known(new, wire, capacity, server, more)
  <2>1. new = ReadStep(wire, capacity, server, at, piece)
    BY <1>3, <1>6 DEF ReadTurn, new
  <2>2. P(at) \in {"OK", "MORE", "BAD", "OVERFLOW", "LARGE"}
    BY <1>2, ProbeDecides DEF P
  <2>3. at <= more
    BY <1>1, <1>2
  <2>4. CASE P(at) = "OK"
    BY <1>2, <1>4, <1>6, <2>4
  <2>5. CASE P(at) = "LARGE"
    <3>1. ReadStep(wire, capacity, server, at, piece) = Refused("413")
      BY <2>5 DEF ReadStep, P
    <3> QED
      BY <1>2, <2>1, <2>3, <2>5, <3>1, Zenon DEF Known, P
  <2>6. CASE P(at) \in {"BAD", "OVERFLOW"}
    <3>1. ReadStep(wire, capacity, server, at, piece) = Refused("400")
      BY <2>6 DEF ReadStep, P
    <3> QED
      BY <1>2, <2>1, <2>3, <2>6, <3>1, Zenon DEF Known, P
  <2>7. CASE P(at) = "MORE"
    <3>1. new = IF piece = Retryable THEN Ok(at) ELSE Ok(at + Smaller(piece, (capacity - at) - 1))
      <4>1. piece # Late /\ piece # Closed
        BY DEF Late, Closed, Retryable
      <4>2. ~(P(at) = "LARGE") /\ ~(P(at) \in {"BAD", "OVERFLOW"}) /\ ~(P(at) = "OK")
        BY <2>7
      <4> QED
        BY <2>1, <4>1, <4>2, Zenon DEF ReadStep, P
    <3>2. new = Ok(IF more < capacity THEN more ELSE capacity - 1)
      <4>1. CASE piece = Retryable
        BY <3>1, <4>1 DEF more, at, Larger, Retryable
      <4>2. CASE piece \in Nat \ {0}
        <5>1. new = Ok(at + Smaller(piece, (capacity - at) - 1))
          BY <3>1, <4>2 DEF Retryable
        <5>2. more = t + piece
          BY <4>2 DEF more, Larger
        <5>3. at + Smaller(piece, (capacity - at) - 1) =
                IF more < capacity THEN more ELSE capacity - 1
          BY <4>2, <5>2 DEF at, Smaller
        <5> QED
          BY <5>1, <5>3
      <4> QED
        BY <4>1, <4>2
    <3> QED
      BY <3>2, Zenon DEF Known
  <2> QED
    BY <2>2, <2>4, <2>5, <2>6, <2>7
<1>7. \/ r = Ok(at)
      \/ \E u \in 0 .. capacity - 1 : u <= t /\ r = Ok(u) /\ P(u) = "OK"
      \/ \E u \in 0 .. capacity - 1 :
           /\ u <= t
           /\ \/ r = Refused("413") /\ P(u) = "LARGE"
              \/ r = Refused("400") /\ P(u) \in {"BAD", "OVERFLOW"}
  BY Zenon DEF Known, P, at
<1>8. Known(new, wire, capacity, server, more)
  BY <1>4, <1>5, <1>6, <1>7, Zenon
<1> QED
  BY <1>8, Zenon DEF new, more

(* What is answered after a last recv. *)
Answered(r, wire, capacity, server, piece) ==
  Then(ReadTurn(r, wire, capacity, server, piece),
       LAMBDA used : Probe(wire, used, capacity, server))

(* The end of the stream, or the deadline, leaves what the bytes mean. *)
LEMMA LastPiece ==
  ASSUME NEW wire \in Wires, NEW server \in Servers, NEW capacity \in Nat \ {0},
         NEW t \in Nat, NEW r, Known(r, wire, capacity, server, t),
         NEW ending \in {Closed, Late}
  PROVE  Answered(r, wire, capacity, server, ending) =
           Meaning(wire, t, ending, capacity, server)
<1> DEFINE Q(u) == Probe(wire, u, capacity, server)
           new == ReadTurn(r, wire, capacity, server, ending)
           m == Meaning(wire, t, ending, capacity, server)
           at == IF t < capacity THEN t ELSE capacity - 1
           stopped == Refused(IF ending = Late THEN "408" ELSE "400")
           answer == Answered(r, wire, capacity, server, ending)
<1>1. at \in 0 .. capacity - 1 /\ at <= t
  OBVIOUS
<1>2. (\A v : Ok(v).status = "OK" /\ Ok(v).value = v) /\ \A e : Refused(e).status = e
  BY DEF Ok, Refused
<1>3. ASSUME NEW u \in 0 .. capacity - 1, u <= t
      PROVE  /\ Q(u).status \in {"OK", "MORE", "BAD", "OVERFLOW", "LARGE"}
             /\ Q(u).status = "OK" => m = Q(u)
             /\ Q(u).status \in {"BAD", "OVERFLOW"} => m = Refused("400")
             /\ Q(u).status = "LARGE" => m = Refused("413")
             /\ Q(u).status = "MORE" /\ u = at => m = stopped
  BY <1>3, ProbeDecides
<1>4. /\ new.status = "OK" => answer = Q(new.value)
      /\ new.status # "OK" => answer = new
  BY Zenon DEF Answered, Then
<1> HIDE DEF Q, new, m, at, stopped, answer
<1>5. ASSUME NEW u \in 0 .. capacity - 1, u <= t, r = Ok(u), Q(u).status = "OK"
      PROVE  answer = m
  <2>1. new = ReadStep(wire, capacity, server, u, ending)
    BY <1>2, <1>5 DEF ReadTurn, new
  <2>2. ReadStep(wire, capacity, server, u, ending) = Ok(u)
    BY <1>5 DEF ReadStep, Q
  <2> QED
    BY <1>2, <1>3, <1>4, <1>5, <2>1, <2>2
<1>6. ASSUME NEW u \in 0 .. capacity - 1, u <= t,
             \/ r = Refused("413") /\ Q(u).status = "LARGE"
             \/ r = Refused("400") /\ Q(u).status \in {"BAD", "OVERFLOW"}
      PROVE  answer = m
  <2>1. r = m /\ r.status # "OK"
    BY <1>2, <1>3, <1>6
  <2>2. new = r
    BY <2>1 DEF ReadTurn, new
  <2> QED
    BY <1>4, <2>1, <2>2
<1>7. ASSUME r = Ok(at)
      PROVE  answer = m
  <2>1. new = ReadStep(wire, capacity, server, at, ending)
    BY <1>2, <1>7 DEF ReadTurn, new
  <2>2. CASE Q(at).status = "OK"
    BY <1>1, <1>5, <1>7, <2>2
  <2>3. CASE Q(at).status = "LARGE"
    <3>1. ReadStep(wire, capacity, server, at, ending) = Refused("413")
      BY <2>3 DEF ReadStep, Q
    <3> QED
      BY <1>1, <1>2, <1>3, <1>4, <2>1, <2>3, <3>1
  <2>4. CASE Q(at).status \in {"BAD", "OVERFLOW"}
    <3>1. ReadStep(wire, capacity, server, at, ending) = Refused("400")
      BY <2>4 DEF ReadStep, Q
    <3> QED
      BY <1>1, <1>2, <1>3, <1>4, <2>1, <2>4, <3>1
  <2>5. CASE Q(at).status = "MORE"
    <3>1. ReadStep(wire, capacity, server, at, ending) =
            IF ending = Late THEN Refused("408")
            ELSE IF ending = Closed THEN Refused("400")
            ELSE IF ending = Retryable THEN Ok(at)
            ELSE Ok(at + Smaller(ending, (capacity - at) - 1))
      <4>1. ~(Q(at).status = "LARGE") /\ ~(Q(at).status \in {"BAD", "OVERFLOW"})
              /\ ~(Q(at).status = "OK")
        BY <2>5
      <4> QED
        BY <4>1, Zenon DEF ReadStep, Q
    <3>2. new = stopped /\ new.status # "OK"
      BY <1>2, <2>1, <3>1 DEF stopped
    <3> QED
      BY <1>1, <1>3, <1>4, <2>5, <3>2
  <2> QED
    BY <1>1, <1>3, <2>2, <2>3, <2>4, <2>5
<1>8. \/ r = Ok(at)
      \/ \E u \in 0 .. capacity - 1 : u <= t /\ r = Ok(u) /\ Q(u).status = "OK"
      \/ \E u \in 0 .. capacity - 1 :
           /\ u <= t
           /\ \/ r = Refused("413") /\ Q(u).status = "LARGE"
              \/ r = Refused("400") /\ Q(u).status \in {"BAD", "OVERFLOW"}
  BY Zenon DEF Known, Q, at
<1>9. answer = m
  BY <1>5, <1>6, <1>7, <1>8, Zenon
<1> QED
  BY <1>9, Zenon DEF answer, new, m

(* However its bytes come, a request is answered by what they mean. *)
LEMMA RequestMeans ==
  ASSUME NEW wire \in Wires, NEW pieces \in Pieces, NEW ending \in {Closed, Late},
         NEW capacity \in Nat \ {0}, NEW server \in Servers
  PROVE  ReadRequest(wire, capacity, server, Append(pieces, ending)) =
           Meaning(wire, Sent(pieces), ending, capacity, server)
<1> DEFINE n == Len(pieces)
           ps == Append(pieces, ending)
           K(r, t) == Known(r, wire, capacity, server, t)
<1>1. n \in Nat /\ \A i \in 1 .. n : pieces[i] \in (Nat \ {0}) \cup {Retryable}
  BY DEF Pieces
<1>2. /\ ps \in Seq(Nat \cup {Retryable, Late})
      /\ Len(ps) = n + 1 /\ ps[n + 1] = ending /\ \A i \in 1 .. n : ps[i] = pieces[i]
  <2>1. ending \in Nat \cup {Retryable, Late}
    BY DEF Closed
  <2>2. pieces \in Seq(Nat \cup {Retryable, Late})
    <3>1. pieces \in Seq((Nat \ {0}) \cup {Retryable})
      BY DEF Pieces
    <3> QED
      BY <3>1
  <2> QED
    BY <2>1, <2>2
<1> HIDE DEF ps, n, K
<1>3. PICK f :
        /\ f[0] = Ok(0)
        /\ \A i \in 1 .. Len(ps) : f[i] = ReadTurn(f[i - 1], wire, capacity, server, ps[i])
        /\ Received(wire, capacity, server, ps) = f[Len(ps)]
  <2>1. \E f : Receiving(f, wire, capacity, server, ps)
    BY <1>2, ReadLoop
  <2> QED
    BY <2>1, Zenon DEF Receiving
<1>4. PICK g \in [0 .. n -> Nat] :
        /\ g[0] = 0
        /\ \A i \in 1 .. n : g[i] = g[i - 1] + Larger(pieces[i], 0)
        /\ Sent(pieces) = g[n]
  BY SentLoop DEF n
<1> DEFINE C == {i \in 0 .. n : K(f[i], g[i])}
<1>5. 0 \in C
  <2>1. Ok(0) = Ok(IF 0 < capacity THEN 0 ELSE capacity - 1)
    OBVIOUS
  <2>2. K(f[0], g[0])
    BY <1>3, <1>4, <2>1 DEF Known, K
  <2> QED
    BY <1>1, <2>2
<1>6. ASSUME NEW k \in 0 .. n - 1, k \in C PROVE k + 1 \in C
  <2>1. k + 1 \in 1 .. n /\ k + 1 \in 1 .. Len(ps) /\ (k + 1) - 1 = k /\ k \in 0 .. n
    BY <1>1, <1>2
  <2>2. f[k + 1] = ReadTurn(f[k], wire, capacity, server, pieces[k + 1])
    BY <1>2, <1>3, <2>1
  <2>3. g[k + 1] = g[k] + Larger(pieces[k + 1], 0)
    BY <1>4, <2>1
  <2>4. g[k] \in Nat /\ pieces[k + 1] \in (Nat \ {0}) \cup {Retryable}
    BY <1>1, <1>4, <2>1
  <2>5. Known(f[k], wire, capacity, server, g[k])
    BY <1>6 DEF K
  <2>6. K(f[k + 1], g[k + 1])
    <3>1. Known(ReadTurn(f[k], wire, capacity, server, pieces[k + 1]), wire, capacity, server,
                g[k] + Larger(pieces[k + 1], 0))
      BY <2>4, <2>5, NextPiece
    <3> QED
      BY <2>2, <2>3, <3>1, Zenon DEF K
  <2> QED
    BY <2>1, <2>6
<1>7. \A k \in 0 .. n : k \in C
  <2> HIDE DEF C
  <2> QED
    BY <1>1, <1>5, <1>6, Induction
<1>8. Known(f[n], wire, capacity, server, g[n]) /\ g[n] \in Nat
  <2>1. n \in 0 .. n
    BY <1>1
  <2>2. g[n] \in Nat
    BY <1>4, <2>1, Zenon
  <2>3. n \in C
    BY <1>7, <2>1, Zenon
  <2> QED
    BY <2>2, <2>3, Zenon DEF K
<1>9. f[n + 1] = ReadTurn(f[n], wire, capacity, server, ending)
  <2>1. n + 1 \in 1 .. Len(ps) /\ (n + 1) - 1 = n
    BY <1>1, <1>2
  <2> QED
    BY <1>2, <1>3, <2>1
<1>10. ReadRequest(wire, capacity, server, ps) =
         Then(Received(wire, capacity, server, ps),
              LAMBDA used : Probe(wire, used, capacity, server))
  BY Zenon DEF ReadRequest, Received
<1>11. Received(wire, capacity, server, ps) = ReadTurn(f[n], wire, capacity, server, ending)
  BY <1>2, <1>3, <1>9
<1>12. Answered(f[n], wire, capacity, server, ending) =
         Meaning(wire, g[n], ending, capacity, server)
  BY <1>8, LastPiece
<1>13. ReadRequest(wire, capacity, server, ps) = Meaning(wire, Sent(pieces), ending, capacity, server)
  <2>1. Then(Received(wire, capacity, server, ps),
             LAMBDA used : Probe(wire, used, capacity, server)) =
          Answered(f[n], wire, capacity, server, ending)
    BY <1>11, Zenon DEF Then, Answered
  <2> QED
    BY <1>4, <1>10, <1>12, <2>1
<1> QED
  BY <1>13 DEF ps

(* However a stream is cut into recv calls, a request is what its bytes say, or
   is refused as they deserve, and no digit wraps a number. *)
THEOREM RequestsAreReadAsSent == SpecHttp => []ReadsWhatWasSent
<1>1. InitHttp => ReadsWhatWasSent
  BY DEF InitHttp, Idle, ReadsWhatWasSent
<1>2. ReadsWhatWasSent /\ [NextHttp]_call => ReadsWhatWasSent'
  <2> SUFFICES ASSUME ReadsWhatWasSent, [NextHttp]_call
               PROVE  ReadsWhatWasSent'
    OBVIOUS
  <2>1. CASE \E wire \in Wires, pieces \in Pieces, ending \in {Closed, Late},
               capacity \in Nat \ {0}, server \in Servers :
                 Read(wire, pieces, ending, capacity, server)
    <3>1. PICK wire \in Wires, pieces \in Pieces, ending \in {Closed, Late},
               capacity \in Nat \ {0}, server \in Servers :
                 Read(wire, pieces, ending, capacity, server)
      BY <2>1
    <3> DEFINE answer == ReadRequest(wire, capacity, server, Append(pieces, ending))
               total == Sent(pieces)
    <3>2. answer = Meaning(wire, total, ending, capacity, server)
      BY RequestMeans
    <3>3. call' = [op |-> "read", answer |-> answer,
                   in |-> [wire |-> wire, sent |-> total, ending |-> ending,
                           capacity |-> capacity, server |-> server]]
      BY <3>1, Zenon DEF Read, Ask
    <3> HIDE DEF answer, total
    <3>4. /\ call'.op = "read" /\ call'.answer = answer
          /\ call'.in.wire = wire /\ call'.in.sent = total /\ call'.in.ending = ending
          /\ call'.in.capacity = capacity /\ call'.in.server = server
      BY <3>3
    <3>5. call'.op # "number"
      BY <3>4
    <3> QED
      BY <3>2, <3>4, <3>5, Zenon DEF ReadsWhatWasSent
  <2>2. CASE \E digits \in DigitLists, max \in Nat : ReadDecimal(digits, max)
    <3>1. PICK digits \in DigitLists, max \in Nat : ReadDecimal(digits, max)
      BY <2>2
    <3> DEFINE answer == DecimalNumber(digits, max)
    <3>2. answer = IF Spelled(digits) > max THEN Refused("OVERFLOW") ELSE Ok(Spelled(digits))
      BY NumberExact
    <3>3. call' = [op |-> "number", in |-> [digits |-> digits, max |-> max], answer |-> answer]
      BY <3>1, Zenon DEF ReadDecimal, Ask
    <3> HIDE DEF answer
    <3>4. /\ call'.op = "number" /\ call'.answer = answer
          /\ call'.in.digits = digits /\ call'.in.max = max
      BY <3>3
    <3>5. call'.op # "read"
      BY <3>4
    <3> QED
      BY <3>2, <3>4, <3>5, Zenon DEF ReadsWhatWasSent
  <2>3. CASE \/ \E text \in Seq(Seq(Int)), capacity \in Nat : ReadText(text, capacity)
             \/ \E scheme \in STRING, host \in Seq(STRING), colon \in BOOLEAN,
                   digits \in DigitLists : ReadOrigin(scheme, host, colon, digits)
             \/ \E fields \in QueryFields : ParseTarget(fields)
             \/ \E method \in STRING, path \in STRING, fields \in QueryFields,
                   body \in {"empty", "text", "nul"}, frame \in Frames :
                     RouteRequest(method, path, fields, body, frame)
    <3>1. call'.op \in {"component", "origin", "target", "route"}
      BY <2>3 DEF ReadText, ReadOrigin, ParseTarget, RouteRequest, Ask
    <3> QED
      BY <3>1 DEF ReadsWhatWasSent
  <2>4. CASE UNCHANGED call
    BY <2>4 DEF ReadsWhatWasSent
  <2> QED
    BY <2>1, <2>2, <2>3, <2>4, Zenon DEF NextHttp
<1> QED
  BY <1>1, <1>2, PTL DEF SpecHttp
===============================================================================
