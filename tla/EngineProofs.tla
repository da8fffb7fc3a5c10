----------------------------- MODULE EngineProofs -----------------------------
(***************************************************************************)
(* Proofs about the two layers every value of the engine stands on.        *)
(*                                                                         *)
(* Budget, for every limit, size, depth of nesting and clock.  TypeOK,     *)
(* OutermostOwns and WithinLimits are not inductive: that remaining never  *)
(* drops below zero under a plan, and that a planned allocation fits,      *)
(* needs PlanFits, which says what an admission query promised.            *)
(*                                                                         *)
(* BigInt, for every even width of a limb up to 64 and every number of     *)
(* limbs.  Low(s, n) is what the lowest n limbs of s stand for: each loop  *)
(* over limbs is proved to do, at every place, what arithmetic does to Low *)
(* (a carry, a borrow or a remainder is what is still owed there), and the *)
(* operations follow for the values.  A loop over limbs is a recursive     *)
(* function, so its course is given by Iterates and followed by Induction. *)
(***************************************************************************)
EXTENDS Budget, BigInt, SumsAndLoops, SequenceTheorems

-----------------------------------------------------------------------------
(* The resource scope *)

PlanFits ==
  plan # NoPlan => active /\ plan.left <= remaining /\ plan.largest <= single

IInv == TypeOK /\ OutermostOwns /\ WithinLimits /\ PlanFits

(* What the first check of a step makes of the failure. *)
LEMMA CheckedType ==
  ASSUME TypeOK, NEW reading
  PROVE  /\ Checked(reading) \in {"none", "time", "memory"}
         /\ failure # "none" => Checked(reading) = failure
  BY DEF TypeOK, Checked

(* The empty sequence is the one of length zero. *)
LEMMA EmptyHasNoLength ==
  ASSUME NEW S, NEW s \in Seq(S) PROVE s = <<>> <=> Len(s) = 0
OBVIOUS

(* Entering and leaving operations keeps the owner at the bottom. *)
LEMMA OuterEntered ==
  ASSUME NEW s \in Seq(Role), NEW b \in Role,
         b = "owner" <=> s = <<>>,
         \A k \in 1 .. Len(s) : s[k] = "owner" <=> k = 1
  PROVE  /\ Append(s, b) # <<>>
         /\ Append(s, b) \in Seq(Role)
         /\ \A k \in 1 .. Len(Append(s, b)) : Append(s, b)[k] = "owner" <=> k = 1
<1>1. Len(Append(s, b)) = Len(s) + 1 /\ Append(s, b) \in Seq(Role)
  OBVIOUS
<1>2. s = <<>> <=> Len(s) = 0
  OBVIOUS
<1>3. ASSUME NEW k \in 1 .. Len(Append(s, b))
      PROVE  Append(s, b)[k] = "owner" <=> k = 1
  <2>1. CASE k = Len(s) + 1
    <3>1. Append(s, b)[k] = b
      BY <2>1
    <3> QED BY <3>1, <2>1, <1>2
  <2>2. CASE k # Len(s) + 1
    <3>1. k \in 1 .. Len(s) /\ Append(s, b)[k] = s[k]
      BY <2>2, <1>1
    <3> QED BY <3>1
  <2> QED BY <2>1, <2>2
<1>4. Append(s, b) # <<>>
  BY AppendProperties
<1> QED BY <1>1, <1>3, <1>4

(* Leaving an operation leaves those outside it as they were. *)
LEMMA OuterLeft ==
  ASSUME NEW s \in Seq(Role), s # <<>>,
         \A k \in 1 .. Len(s) : s[k] = "owner" <=> k = 1
  PROVE  LET r == SubSeq(s, 1, Len(s) - 1)
         IN /\ r \in Seq(Role)
            /\ \A k \in 1 .. Len(r) : r[k] = "owner" <=> k = 1
            /\ r = <<>> <=> s[Len(s)] = "owner"
            /\ Len(r) = Len(s) - 1
<1> DEFINE r == SubSeq(s, 1, Len(s) - 1)
<1>1. Len(s) \in Nat /\ Len(s) > 0
  OBVIOUS
<1>2. Len(r) = Len(s) - 1 /\ r \in Seq(Role) /\ \A k \in 1 .. Len(s) - 1 : r[k] = s[k]
  <2>1. r = [k \in 1 .. Len(s) - 1 |-> s[k]]
    BY <1>1
  <2>3. r \in Seq(Role)
    BY <1>1
  <2>4. Len(r) = Len(s) - 1
    <3>1. DOMAIN r = 1 .. Len(s) - 1 /\ Len(s) - 1 \in Nat
      BY <1>1, <2>1
    <3> HIDE DEF r
    <3>2. DOMAIN r = 1 .. Len(r) /\ Len(r) \in Nat
      BY <2>3, LenProperties
    <3> QED BY <3>1, <3>2
  <2> QED BY <2>1, <2>3, <2>4
<1> HIDE DEF r
<1>3. \A k \in 1 .. Len(r) : r[k] = s[k]
  BY <1>2
<1>4. r = <<>> <=> Len(r) = 0
  BY <1>2, EmptyHasNoLength
<1>5. s[Len(s)] = "owner" <=> Len(s) = 1
  <2>1. Len(s) \in 1 .. Len(s)
    BY <1>1
  <2> QED BY <2>1
<1>6. r = <<>> <=> s[Len(s)] = "owner"
  BY <1>1, <1>2, <1>4, <1>5
<1>7. \A k \in 1 .. Len(r) : r[k] = "owner" <=> k = 1
  BY <1>1, <1>2, <1>3
<1> QED BY <1>2, <1>6, <1>7 DEF r

(* No operation runs at the start. *)
LEMMA InitHolds == Init => IInv
<1> SUFFICES ASSUME Init PROVE IInv
  OBVIOUS
<1>1. calls = <<>> /\ calls \in Seq(Role) /\ Len(calls) = 0
  BY DEF Init
<1>2. TypeOK
  BY <1>1 DEF Init, TypeOK, NoPlan
<1>3. OutermostOwns
  BY <1>1 DEF Init, OutermostOwns
<1>4. WithinLimits /\ PlanFits
  BY DEF Init, WithinLimits, PlanFits
<1> QED BY <1>2, <1>3, <1>4 DEF IInv

(* numforge_budget_begin keeps the invariant, owned or nested. *)
LEMMA EnterKeeps ==
  ASSUME IInv, BudgetAssumption,
         NEW ms \in Milliseconds, NEW bytes \in Bytes, NEW limit \in Singles,
         NEW reading \in Readings, Enter(ms, bytes, limit, reading)
  PROVE  IInv'
<1> USE DEF IInv, BeginsScope
<1>1. calls' # <<>> /\ calls' \in Seq(Role)
      /\ \A k \in 1 .. Len(calls') : calls'[k] = "owner" <=> k = 1
  <2> DEFINE role == IF ~active THEN "owner" ELSE "nested"
  <2>1. calls' = Append(calls, role) /\ calls \in Seq(Role) /\ role \in Role
    BY DEF Enter, TypeOK, Role
  <2>2. role = "owner" <=> calls = <<>>
    BY DEF OutermostOwns
  <2>3. \A k \in 1 .. Len(calls) : calls[k] = "owner" <=> k = 1
    BY DEF OutermostOwns
  <2> HIDE DEF IInv, role
  <2> QED BY <2>1, <2>2, <2>3, OuterEntered
<1>2. CASE active
  <2>1. UNCHANGED <<scope, remaining, failure, plan, spent, widest, succeeded, now>>
    BY <1>2 DEF Enter
  <2>2. TypeOK'
    BY <1>1, <2>1 DEF TypeOK, scope
  <2>3. OutermostOwns'
    BY <1>1, <1>2, <2>1 DEF OutermostOwns, scope
  <2>4. WithinLimits' /\ PlanFits'
    BY <2>1 DEF WithinLimits, PlanFits, scope
  <2> QED BY <2>2, <2>3, <2>4
<1>3. CASE ~active
  <2>1. active' = TRUE /\ started' = reading /\ duration' = ms /\ remaining' = bytes
        /\ single' = limit /\ failure' = "none" /\ plan' = NoPlan /\ asked' = bytes
        /\ spent' = 0 /\ widest' = 0 /\ UNCHANGED <<succeeded, now>>
    BY <1>3 DEF Enter
  <2>2. TypeOK'
    BY <1>1, <2>1 DEF TypeOK, NoPlan, Readings, BudgetAssumption
  <2>3. OutermostOwns'
    BY <1>1, <2>1 DEF OutermostOwns
  <2>4. WithinLimits' /\ PlanFits'
    BY <2>1 DEF WithinLimits, PlanFits, BudgetAssumption
  <2> QED BY <2>2, <2>3, <2>4
<1> QED BY <1>2, <1>3 DEF TypeOK

(* An admission query promises only what fits. *)
LEMMA AdmitKeeps ==
  ASSUME IInv, BudgetAssumption, NEW first \in Sizes, NEW second \in Sizes,
         AdmitPair(first, second) \/ AdmitPlan(first, second)
  PROVE  IInv'
<1>1. UNCHANGED <<scope, remaining, failure, calls, succeeded, now, spent, widest>>
  BY DEF AdmitPair, AdmitPlan
<1>2. first \in Nat /\ second \in Nat
  BY DEF BudgetAssumption
<1>3. plan' \in [left : Nat, largest : Nat] /\ plan'.left <= remaining
      /\ plan'.largest <= single /\ active
  <2>1. remaining \in Nat /\ single \in Nat
    BY DEF IInv, TypeOK
  <2>2. CASE AdmitPair(first, second)
    BY <1>2, <2>1, <2>2 DEF AdmitPair, PairFits
  <2>3. CASE AdmitPlan(first, second)
    BY <1>2, <2>1, <2>3 DEF AdmitPlan
  <2> QED BY <2>2, <2>3
<1>4. TypeOK'
  BY <1>1, <1>3 DEF IInv, TypeOK, scope
<1>5. OutermostOwns' /\ WithinLimits'
  BY <1>1 DEF IInv, OutermostOwns, WithinLimits, scope
<1>6. PlanFits'
  BY <1>1, <1>3 DEF PlanFits, scope
<1> QED BY <1>4, <1>5, <1>6 DEF IInv

(* An allocation moves its size from remaining to spent. *)
LEMMA AllocateKeeps ==
  ASSUME IInv, BudgetAssumption, NEW size \in Sizes, NEW reading \in Readings,
         Allocate(size, reading)
  PROVE  IInv'
<1>1. size \in Nat /\ remaining \in Nat /\ single \in Nat /\ spent \in Nat
      /\ widest \in Nat /\ asked \in Nat
  BY DEF BudgetAssumption, IInv, TypeOK
<1>2. UNCHANGED <<scope, failure, calls, succeeded, now>>
  BY DEF Allocate
<1>3. remaining' = remaining - size /\ spent' = spent + size
      /\ widest' = (IF widest < size THEN size ELSE widest)
      /\ size <= remaining /\ size <= single
  BY DEF Allocate, Charged, Fits
<1>4. plan' \in [left : Nat, largest : Nat]
      /\ (plan' # NoPlan => plan'.left <= remaining' /\ plan'.largest <= single)
  <2>1. plan \in [left : Nat, largest : Nat]
    BY DEF IInv, TypeOK
  <2>2. CASE plan = NoPlan
    BY <2>1, <2>2 DEF Allocate
  <2>3. CASE plan # NoPlan
    <3>1. size <= plan.left /\ plan.left <= remaining /\ plan.largest <= single
      BY <2>3 DEF Allocate, Planned, IInv, PlanFits
    <3>2. plan' = [plan EXCEPT !.left = @ - size]
      BY <2>3 DEF Allocate
    <3>3. plan'.left = plan.left - size /\ plan'.largest = plan.largest
          /\ plan' \in [left : Nat, largest : Nat]
      BY <1>1, <2>1, <3>1, <3>2
    <3> QED BY <1>1, <1>3, <2>1, <3>1, <3>3
  <2> QED BY <2>2, <2>3
<1>5. TypeOK'
  BY <1>1, <1>2, <1>3, <1>4 DEF IInv, TypeOK, scope
<1>6. OutermostOwns'
  BY <1>2 DEF IInv, OutermostOwns, scope
<1>7. WithinLimits'
  BY <1>1, <1>2, <1>3 DEF IInv, WithinLimits, scope
<1>8. PlanFits'
  BY <1>2, <1>4 DEF Allocate, PlanFits, scope
<1> QED BY <1>5, <1>6, <1>7, <1>8 DEF IInv

(* numforge_budget_end closes the scope of its owner only. *)
LEMMA LeaveKeeps ==
  ASSUME IInv, NEW ok \in BOOLEAN, NEW reading \in Readings, Leave(ok, reading)
  PROVE  IInv'
<1> DEFINE owner == calls[Len(calls)] = "owner"
<1>1. calls # <<>> /\ calls' = SubSeq(calls, 1, Len(calls) - 1)
      /\ succeeded' = StatusOf(ok, reading)
      /\ failure' = (IF owner THEN "none" ELSE Checked(reading))
      /\ active' = (active /\ ~owner)
      /\ plan' = NoPlan
      /\ UNCHANGED <<started, duration, single, asked, remaining, now, spent, widest>>
  <2>1. active
    BY DEF Leave, IInv, OutermostOwns
  <2> QED BY <2>1 DEF Leave, EndsScope
<1>2. calls \in Seq(Role) /\ \A k \in 1 .. Len(calls) : calls[k] = "owner" <=> k = 1
  BY DEF IInv, TypeOK, OutermostOwns
<1>3. calls' \in Seq(Role) /\ (\A k \in 1 .. Len(calls') : calls'[k] = "owner" <=> k = 1)
      /\ owner \in BOOLEAN /\ (calls' = <<>> <=> owner)
  BY <1>1, <1>2, OuterLeft
<1>4. Checked(reading) \in {"none", "time", "memory"}
  BY CheckedType DEF IInv
<1> HIDE DEF owner
<1>5. active = TRUE
  BY <1>1 DEF IInv, OutermostOwns, TypeOK
<1>6. TypeOK'
  BY <1>1, <1>3, <1>4 DEF IInv, TypeOK, StatusOf, NoPlan
<1>7. OutermostOwns'
  BY <1>1, <1>3, <1>5 DEF OutermostOwns
<1>8. WithinLimits' /\ PlanFits'
  BY <1>1 DEF IInv, WithinLimits, PlanFits
<1> QED BY <1>6, <1>7, <1>8 DEF IInv

(* Every step keeps the invariant. *)
LEMMA StepHolds == BudgetAssumption /\ IInv /\ [Next]_vars => IInv'
<1> SUFFICES ASSUME BudgetAssumption, IInv, [Next]_vars
             PROVE  IInv'
  OBVIOUS
<1>1. ASSUME NEW ms \in Milliseconds, NEW bytes \in Bytes, NEW limit \in Singles,
             NEW reading \in Readings, Enter(ms, bytes, limit, reading)
      PROVE  IInv'
  BY <1>1, EnterKeeps
<1>2. ASSUME NEW reading \in Readings, Check(reading)
      PROVE  IInv'
  <2>1. failure' \in {"none", "time", "memory"}
    BY <1>2, CheckedType DEF Check, IInv
  <2>2. UNCHANGED <<scope, remaining, plan, calls, succeeded, now, spent, widest>>
    BY <1>2 DEF Check
  <2> QED BY <2>1, <2>2 DEF IInv, TypeOK, OutermostOwns, WithinLimits, PlanFits, scope
<1>3. ASSUME NEW first \in Sizes, NEW second \in Sizes,
             AdmitPair(first, second) \/ AdmitPlan(first, second)
      PROVE  IInv'
  BY <1>3, AdmitKeeps
<1>4. CASE DropPlan
  BY <1>4 DEF DropPlan, IInv, TypeOK, OutermostOwns, WithinLimits, PlanFits, scope, NoPlan
<1>5. ASSUME NEW size \in Sizes, NEW reading \in Readings, Allocate(size, reading)
      PROVE  IInv'
  BY <1>5, AllocateKeeps
<1>6. ASSUME NEW size \in Sizes, NEW reading \in Readings,
             AllocationRefused(size, reading)
      PROVE  IInv'
  <2>1. failure' \in {"none", "time", "memory"}
    BY <1>6, CheckedType DEF AllocationRefused, IInv
  <2>2. UNCHANGED <<scope, remaining, plan, calls, succeeded, now, spent, widest>>
    BY <1>6 DEF AllocationRefused
  <2> QED BY <2>1, <2>2 DEF IInv, TypeOK, OutermostOwns, WithinLimits, PlanFits, scope
<1>7. ASSUME NEW ok \in BOOLEAN, NEW reading \in Readings, Leave(ok, reading)
      PROVE  IInv'
  BY <1>7, LeaveKeeps
<1>8. CASE Tick
  BY <1>8 DEF Tick, IInv, TypeOK, OutermostOwns, WithinLimits, PlanFits, scope
<1>9. CASE UNCHANGED vars
  BY <1>9 DEF vars, IInv, TypeOK, OutermostOwns, WithinLimits, PlanFits, scope
<1> QED
  BY <1>1, <1>2, <1>3, <1>4, <1>5, <1>6, <1>7, <1>8, <1>9 DEF Next

(* IInv is an invariant of every instance. *)
THEOREM Invariance == Spec => []IInv
<1>1. IInv /\ [Next]_vars => IInv'
  BY StepHolds, BudgetAssumption
<1> QED BY InitHolds, <1>1, PTL DEF Spec

(* The scope keeps its types: no counter of bytes ever wraps below zero. *)
THEOREM TypeCorrect == Spec => []TypeOK
<1>1. IInv => TypeOK
  BY DEF IInv
<1> QED BY <1>1, Invariance, PTL

(* At any depth of nesting the outermost operation owns the scope. *)
THEOREM OutermostOwnsScope == Spec => []OutermostOwns
<1>1. IInv => OutermostOwns
  BY DEF IInv
<1> QED BY <1>1, Invariance, PTL

(* The byte account of the scope is exact. *)
THEOREM LimitsHold == Spec => []WithinLimits
<1>1. IInv => WithinLimits
  BY DEF IInv
<1> QED BY <1>1, Invariance, PTL

(* An operation only succeeds within the limits of the scope it runs in. *)
THEOREM SuccessNeedsBudget == Spec => SuccessIsInBudget
<1> DEFINE Sound ==
      Len(calls') < Len(calls) /\ succeeded' =>
        /\ started # Unreadable
        /\ now - started < duration
        /\ spent <= asked
<1>1. IInv /\ [Next]_vars => Sound
  <2> SUFFICES ASSUME IInv, [Next]_vars, Len(calls') < Len(calls), succeeded'
               PROVE  /\ started # Unreadable
                      /\ now - started < duration
                      /\ spent <= asked
    OBVIOUS
  <2>1. calls \in Seq(Role) /\ Len(calls) \in Nat
    BY DEF IInv, TypeOK
  <2>2. PICK ok \in BOOLEAN, reading \in Readings : Leave(ok, reading)
    <3>1. \A b \in Role : Len(Append(calls, b)) = Len(calls) + 1
      BY <2>1
    <3>2. calls' # calls
      BY <2>1
    <3>3. ASSUME NEW ms \in Milliseconds, NEW bytes \in Bytes, NEW limit \in Singles,
                 NEW r \in Readings, Enter(ms, bytes, limit, r)
          PROVE  FALSE
      <4>1. PICK b \in Role : calls' = Append(calls, b)
        BY <3>3 DEF Enter, Role
      <4>2. Len(calls') = Len(calls) + 1
        BY <3>1, <4>1
      <4> QED BY <2>1, <4>2
    <3>4. [Next]_vars => \E ok \in BOOLEAN, reading \in Readings : Leave(ok, reading)
      BY <3>2, <3>3 DEF Next, vars, Check, AdmitPair, AdmitPlan, DropPlan, Allocate,
           AllocationRefused, Tick
    <3> QED BY <3>4
  <2>3. Checked(reading) = "none" /\ calls # <<>>
    BY <2>2 DEF Leave, StatusOf
  <2>4. active /\ failure = "none" /\ ~Late(reading)
    BY <2>3 DEF IInv, TypeOK, OutermostOwns, Checked
  <2>5. reading = now /\ started # Unreadable /\ ~(now - started >= duration)
    BY <2>4 DEF Late, Readings
  <2>6. started \in Nat /\ now \in Nat /\ duration \in Nat
    BY <2>5 DEF IInv, TypeOK
  <2>7. spent <= asked
    BY <2>4 DEF IInv, TypeOK, WithinLimits
  <2> QED BY <2>5, <2>6, <2>7
<1>2. Spec => [][Sound]_vars
  BY <1>1, Invariance, PTL DEF Spec
<1> QED BY <1>2 DEF SuccessIsInBudget

(* An admitted allocation is never refused for its size. *)
THEOREM PlansAreHonoured == Spec => PlanIsHonoured
<1> DEFINE Honoured == plan # NoPlan /\ failure = "none" => failure' # "memory"
<1>1. IInv /\ [Next]_vars => Honoured
  <2> SUFFICES ASSUME IInv, [Next]_vars, plan # NoPlan, failure = "none"
               PROVE  failure' # "memory"
    OBVIOUS
  <2>1. \A reading : Checked(reading) \in {"none", "time"}
    BY DEF Checked
  <2>2. ASSUME NEW size \in Sizes, NEW reading \in Readings,
               AllocationRefused(size, reading)
        PROVE  failure' # "memory"
    <3>1. size <= plan.left /\ size <= plan.largest /\ plan.left <= remaining
          /\ plan.largest <= single
      BY <2>2 DEF AllocationRefused, Planned, IInv, PlanFits
    <3>2. Fits(size)
      <4>1. size \in Nat
        BY BudgetAssumption DEF BudgetAssumption
      <4>2. plan.left \in Nat /\ plan.largest \in Nat /\ remaining \in Nat /\ single \in Nat
        BY DEF IInv, TypeOK
      <4> QED BY <3>1, <4>1, <4>2 DEF Fits
    <3> QED BY <2>1, <2>2, <3>2 DEF AllocationRefused
  <2>3. ASSUME NEW reading \in Readings, Check(reading)
        PROVE  failure' # "memory"
    BY <2>1, <2>3 DEF Check
  <2>4. ASSUME NEW ok \in BOOLEAN, NEW reading \in Readings, Leave(ok, reading)
        PROVE  failure' # "memory"
    BY <2>1, <2>4 DEF Leave
  <2>5. ASSUME NEW ms \in Milliseconds, NEW bytes \in Bytes, NEW limit \in Singles,
               NEW reading \in Readings, Enter(ms, bytes, limit, reading)
        PROVE  failure' # "memory"
    BY <2>5 DEF Enter
  <2> QED
    BY <2>2, <2>3, <2>4, <2>5 DEF Next, vars, AdmitPair, AdmitPlan, DropPlan, Allocate, Tick
<1>2. Spec => [][Honoured]_vars
  BY <1>1, Invariance, PTL DEF Spec
<1> QED BY <1>2 DEF PlanIsHonoured

(* No nested operation ends the scope, resets it, refunds it or clears its
   failure. *)
THEOREM ScopeStaysShared == Spec => ScopeIsShared
<1> DEFINE
      Shared ==
        calls # <<>> /\ calls' # <<>> =>
          /\ active'
          /\ UNCHANGED <<started, duration, single, asked>>
          /\ remaining' <= remaining
          /\ failure # "none" => failure' = failure
      Kept ==
        /\ UNCHANGED <<started, duration, single, asked>>
        /\ remaining' <= remaining
        /\ failure # "none" => failure' = failure
<1>1. IInv /\ [Next]_vars => Shared
  <2> SUFFICES ASSUME IInv, [Next]_vars, calls # <<>>, calls' # <<>>
               PROVE  active' /\ Kept
    OBVIOUS
  <2>0. active /\ active'
    BY StepHolds, BudgetAssumption DEF IInv, OutermostOwns
  <2> SUFFICES Kept
    BY <2>0
  <2>1. remaining \in Nat /\ remaining <= remaining
    BY DEF IInv, TypeOK
  <2>2. \A reading : failure # "none" => Checked(reading) = failure
    BY DEF Checked
  <2>3. ASSUME NEW ms \in Milliseconds, NEW bytes \in Bytes, NEW limit \in Singles,
               NEW reading \in Readings, Enter(ms, bytes, limit, reading)
        PROVE  Kept
    BY <2>0, <2>1, <2>3 DEF Enter, BeginsScope, scope
  <2>4. ASSUME NEW reading \in Readings, Check(reading)
        PROVE  Kept
    BY <2>1, <2>2, <2>4 DEF Check, scope
  <2>5. ASSUME NEW size \in Sizes, NEW reading \in Readings, Allocate(size, reading)
        PROVE  Kept
    <3>1. size \in Nat
      BY BudgetAssumption DEF BudgetAssumption
    <3>2. remaining' = remaining - size
      BY <2>5 DEF Allocate, Charged
    <3>3. remaining' <= remaining
      BY <2>1, <3>1, <3>2
    <3> QED BY <2>5, <3>3 DEF Allocate, scope
  <2>6. ASSUME NEW size \in Sizes, NEW reading \in Readings,
               AllocationRefused(size, reading)
        PROVE  Kept
    BY <2>1, <2>2, <2>6 DEF AllocationRefused, scope
  <2>7. ASSUME NEW ok \in BOOLEAN, NEW reading \in Readings, Leave(ok, reading)
        PROVE  Kept
    BY <2>0, <2>1, <2>2, <2>7 DEF Leave, EndsScope
  <2>8. CASE UNCHANGED <<scope, remaining, failure>>
    BY <2>1, <2>8 DEF scope
  <2> QED
    BY <2>3, <2>4, <2>5, <2>6, <2>7, <2>8 DEF Next, vars, AdmitPair, AdmitPlan, DropPlan, Tick
<1>2. Spec => [][Shared]_vars
  BY <1>1, Invariance, PTL DEF Spec
<1> QED BY <1>2 DEF ScopeIsShared

-----------------------------------------------------------------------------
(* Loops *)

(* Two courses of the same turns agree as far as both go. *)
LEMMA CoursesAgree ==
  ASSUME NEW n \in Nat, NEW m \in Nat, m <= n, NEW R, NEW start \in R, NEW T,
         NEW f, Course(f, n, R, start, T), NEW g, Course(g, m, R, start, T)
  PROVE  \A k \in 0 .. m : f[k] = g[k]
<1> DEFINE C == {k \in 0 .. m : f[k] = g[k]}
<1>1. 0 \in C
  BY DEF Course
<1>2. ASSUME NEW k \in 0 .. m - 1, k \in C PROVE k + 1 \in C
  <2>1. k + 1 \in 1 .. m /\ k + 1 \in 1 .. n /\ k + 1 \in 0 .. m /\ (k + 1) - 1 = k
    OBVIOUS
  <2>2. f[k + 1] = T[k + 1][f[(k + 1) - 1]] /\ g[k + 1] = T[k + 1][g[(k + 1) - 1]]
    BY <2>1, Zenon DEF Course
  <2>3. f[k + 1] = T[k + 1][f[k]] /\ g[k + 1] = T[k + 1][g[k]]
    BY <2>1, <2>2
  <2> QED
    BY <1>2, <2>1, <2>3
<1>3. \A k \in 0 .. m : k \in C
  <2> HIDE DEF C
  <2> QED
    BY <1>1, <1>2, Induction
<1> QED
  BY <1>3

(* Where n turns lead. *)
Reached(n, R, start, T) == (CHOOSE f : Course(f, n, R, start, T))[n]

Endless(T, R) == T \in [Nat \ {0} -> [R -> R]]
Leads(R, start, T) ==
  /\ Reached(0, R, start, T) = start
  /\ \A n \in Nat : Reached(n, R, start, T) \in R
  /\ \A n \in Nat : Reached(n + 1, R, start, T) = T[n + 1][Reached(n, R, start, T)]

(* One turn more leads one turn further. *)
LEMMA Reaches ==
  ASSUME NEW R, NEW start \in R, NEW T, Endless(T, R)
  PROVE  Leads(R, start, T)
<1>1. ASSUME NEW n \in Nat
      PROVE  Course(CHOOSE f : Course(f, n, R, start, T), n, R, start, T)
  <2> DEFINE t == [i \in 1 .. n |-> T[i]]
  <2>1. t \in Turns(n, R)
    BY DEF Turns, Endless
  <2>2. \A i \in 1 .. n : t[i] = T[i]
    OBVIOUS
  <2> HIDE DEF t
  <2>3. PICK f : Course(f, n, R, start, t)
    BY <2>1, Iterates
  <2>4. Course(f, n, R, start, T)
    BY <2>2, <2>3 DEF Course
  <2> QED
    BY <2>4, Zenon
<1> DEFINE r(n) == CHOOSE f : Course(f, n, R, start, T)
<1>2. \A n \in Nat : Course(r(n), n, R, start, T) /\ Reached(n, R, start, T) = r(n)[n]
  BY <1>1, Zenon DEF Reached
<1> HIDE DEF r
<1>3. Reached(0, R, start, T) = start
  BY <1>2 DEF Course
<1>4. ASSUME NEW n \in Nat PROVE Reached(n, R, start, T) \in R
  <2>1. n \in 0 .. n /\ r(n) \in [0 .. n -> R]
    BY <1>2 DEF Course
  <2> QED
    BY <1>2, <2>1
<1>5. ASSUME NEW n \in Nat
      PROVE  Reached(n + 1, R, start, T) = T[n + 1][Reached(n, R, start, T)]
  <2>1. n + 1 \in Nat /\ n <= n + 1 /\ n + 1 \in 1 .. n + 1 /\ n \in 0 .. n /\ (n + 1) - 1 = n
    OBVIOUS
  <2>2. r(n + 1)[n] = r(n)[n]
    BY <1>2, <2>1, CoursesAgree
  <2>3. r(n + 1)[n + 1] = T[n + 1][r(n + 1)[(n + 1) - 1]]
    BY <1>2, <2>1, Zenon DEF Course
  <2> QED
    BY <1>2, <2>1, <2>2, <2>3
<1> QED
  BY <1>3, <1>4, <1>5, Zenon DEF Leads

-----------------------------------------------------------------------------
(* Powers of two *)

(* f is the powers of two up to that of a limb. *)
PowersOfTwo(f) == f = [n \in 0 .. LimbBits |-> IF n = 0 THEN 1 ELSE 2 * f[n - 1]]

(* TwoTo doubles from 1. *)
LEMMA Doubles ==
  /\ TwoTo \in [0 .. LimbBits -> Nat]
  /\ TwoTo[0] = 1
  /\ \A n \in 1 .. LimbBits : TwoTo[n] = 2 * TwoTo[n - 1]
<1>1. LimbBits \in Nat
  BY BigIntAssumption
<1> DEFINE T == [i \in 1 .. LimbBits |-> [r \in Nat |-> 2 * r]]
<1>2. T \in Turns(LimbBits, Nat)
  BY DEF Turns
<1>3. \A i \in 1 .. LimbBits, r \in Nat : T[i][r] = 2 * r
  OBVIOUS
<1> HIDE DEF T
<1>4. PICK f : Course(f, LimbBits, Nat, 1, T)
  BY <1>1, <1>2, Iterates
<1>5. f \in [0 .. LimbBits -> Nat] /\ f[0] = 1 /\ \A i \in 1 .. LimbBits : f[i] = T[i][f[i - 1]]
  BY <1>4 DEF Course
<1>6. \A i \in 1 .. LimbBits : i - 1 \in 0 .. LimbBits
  BY <1>1
<1>7. \A i \in 1 .. LimbBits : f[i] = 2 * f[i - 1]
  BY <1>3, <1>5, <1>6
<1>8. \A i \in 0 .. LimbBits : f[i] = IF i = 0 THEN 1 ELSE 2 * f[i - 1]
  BY <1>1, <1>5, <1>7
<1>9. f = [n \in 0 .. LimbBits |-> IF n = 0 THEN 1 ELSE 2 * f[n - 1]]
  BY <1>5, <1>8
<1>10. PowersOfTwo(f)
  BY <1>9, Zenon DEF PowersOfTwo
<1>11. TwoTo = CHOOSE g : PowersOfTwo(g)
  BY Zenon DEF TwoTo, PowersOfTwo
<1>12. PowersOfTwo(TwoTo)
  BY <1>10, <1>11, Zenon
<1>13. TwoTo = [n \in 0 .. LimbBits |-> IF n = 0 THEN 1 ELSE 2 * TwoTo[n - 1]]
  BY <1>12, Zenon DEF PowersOfTwo
<1>14. \A n \in 0 .. LimbBits : TwoTo[n] = IF n = 0 THEN 1 ELSE 2 * TwoTo[n - 1]
  BY <1>13, Zenon
<1>15. DOMAIN TwoTo = 0 .. LimbBits /\ TwoTo = [n \in 0 .. LimbBits |-> TwoTo[n]]
  BY <1>13
<1> DEFINE C == {n \in 0 .. LimbBits : TwoTo[n] \in Nat}
<1>16. 0 \in C
  BY <1>1, <1>14
<1>17. ASSUME NEW k \in 0 .. LimbBits - 1, k \in C PROVE k + 1 \in C
  <2>1. k + 1 \in 0 .. LimbBits /\ k + 1 # 0 /\ (k + 1) - 1 = k
    BY <1>1
  <2>2. TwoTo[k + 1] = 2 * TwoTo[k]
    BY <1>14, <2>1
  <2> QED
    BY <1>17, <2>1, <2>2
<1>18. \A k \in 0 .. LimbBits : k \in C
  <2> HIDE DEF C
  <2> QED
    BY <1>1, <1>16, <1>17, Induction
<1>19. \A k \in 0 .. LimbBits : TwoTo[k] \in Nat
  BY <1>18
<1>20. TwoTo \in [0 .. LimbBits -> Nat]
  BY <1>15, <1>19
<1>21. 0 \in 0 .. LimbBits /\ \A n \in 1 .. LimbBits : n \in 0 .. LimbBits /\ n # 0
  BY <1>1
<1> QED
  BY <1>14, <1>20, <1>21

(* What a loop comes to by its own turns is their course. *)
LEMMA RunsItsCourse ==
  ASSUME NEW n \in Nat, NEW R, NEW start \in R, NEW T \in Turns(n, R),
         NEW g, g = [i \in 0 .. n |-> g[i]], g[0] = start,
         \A i \in 1 .. n : g[i - 1] \in R => g[i] = T[i][g[i - 1]]
  PROVE  Course(g, n, R, start, T)
<1> DEFINE C == {k \in 0 .. n : g[k] \in R}
<1>1. 0 \in C
  OBVIOUS
<1>2. ASSUME NEW k \in 0 .. n - 1, k \in C PROVE k + 1 \in C
  <2>1. k + 1 \in 1 .. n /\ k + 1 \in 0 .. n /\ (k + 1) - 1 = k /\ g[k] \in R
    BY <1>2
  <2>2. g[k + 1] = T[k + 1][g[k]]
    BY <2>1
  <2>3. T[k + 1][g[k]] \in R
    BY <2>1 DEF Turns
  <2> QED
    BY <2>1, <2>2, <2>3
<1>3. \A k \in 0 .. n : k \in C
  <2> HIDE DEF C
  <2> QED
    BY <1>1, <1>2, Induction
<1>4. \A k \in 0 .. n : g[k] \in R
  BY <1>3
<1>5. g \in [0 .. n -> R]
  BY <1>4
<1>6. ASSUME NEW i \in 1 .. n PROVE g[i] = T[i][g[i - 1]]
  <2>1. i - 1 \in 0 .. n
    OBVIOUS
  <2> QED
    BY <1>4, <2>1
<1> QED
  BY <1>5, <1>6 DEF Course

-----------------------------------------------------------------------------
(* Quotients and remainders *)

(* The quotient and the remainder are the only ones. *)
LEMMA DivisionIs ==
  ASSUME NEW n \in Int, NEW d \in Nat, d > 0, NEW q \in Int, NEW r \in Int,
         n = d * q + r, 0 <= r, r < d
  PROVE  n \div d = q /\ n % d = r
OBVIOUS

(* And there are such. *)
LEMMA DivisionOf ==
  ASSUME NEW n \in Int, NEW d \in Nat, d > 0
  PROVE  /\ n = d * (n \div d) + (n % d)
         /\ 0 <= n % d /\ n % d < d
         /\ n \div d \in Int /\ n % d \in Int
OBVIOUS

(* A product with a larger factor is larger. *)
LEMMA TimesMonotone ==
  ASSUME NEW m \in Int, NEW n \in Int, NEW p \in Nat, m <= n
  PROVE  m * p <= n * p
OBVIOUS

(* The powers of two multiply. *)
LEMMA PowersMultiply ==
  ASSUME NEW m \in 0 .. LimbBits, NEW n \in 0 .. LimbBits, m + n \in 0 .. LimbBits
  PROVE  TwoTo[m] * TwoTo[n] = TwoTo[m + n]
<1>1. LimbBits \in Nat
  BY BigIntAssumption
<1> DEFINE C == {k \in 0 .. m : TwoTo[k] * TwoTo[n] = TwoTo[k + n]}
<1>2. 0 \in C
  BY <1>1, Doubles
<1>3. ASSUME NEW k \in 0 .. m - 1, k \in C PROVE k + 1 \in C
  <2>1. k + 1 \in 1 .. LimbBits /\ (k + 1) - 1 = k /\ (k + 1) + n \in 1 .. LimbBits
        /\ ((k + 1) + n) - 1 = k + n /\ k + 1 \in 0 .. m /\ k + n \in 0 .. LimbBits
        /\ k \in 0 .. LimbBits
    BY <1>1
  <2>2. TwoTo[k + 1] = 2 * TwoTo[k] /\ TwoTo[(k + 1) + n] = 2 * TwoTo[k + n]
    BY <2>1, Doubles
  <2>3. TwoTo[k] \in Nat /\ TwoTo[n] \in Nat
    BY <2>1, Doubles
  <2>4. (2 * TwoTo[k]) * TwoTo[n] = 2 * (TwoTo[k] * TwoTo[n])
    BY <2>3
  <2> QED
    BY <1>3, <2>1, <2>2, <2>4
<1>4. \A k \in 0 .. m : k \in C
  <2> HIDE DEF C
  <2> QED
    BY <1>1, <1>2, <1>3, Induction
<1>5. m \in C
  BY <1>1, <1>4
<1> QED
  BY <1>5

(* A power of two is at least 1. *)
LEMMA PowersPositive ==
  \A n \in 0 .. LimbBits : TwoTo[n] \in Nat /\ TwoTo[n] >= 1
<1>1. LimbBits \in Nat
  BY BigIntAssumption
<1> DEFINE C == {k \in 0 .. LimbBits : TwoTo[k] >= 1}
<1>2. 0 \in C
  BY <1>1, Doubles
<1>3. ASSUME NEW k \in 0 .. LimbBits - 1, k \in C PROVE k + 1 \in C
  <2>1. k + 1 \in 1 .. LimbBits /\ (k + 1) - 1 = k /\ k \in 0 .. LimbBits /\ k + 1 \in 0 .. LimbBits
    BY <1>1
  <2>2. TwoTo[k + 1] = 2 * TwoTo[k] /\ TwoTo[k] \in Nat
    BY <2>1, Doubles
  <2> QED
    BY <1>3, <2>1, <2>2
<1>4. \A k \in 0 .. LimbBits : k \in C
  <2> HIDE DEF C
  <2> QED
    BY <1>1, <1>2, <1>3, Induction
<1> QED
  BY <1>4, Doubles

(* A limb is two halves wide. *)
LEMMA BaseFacts ==
  /\ Base \in Nat /\ HalfBase \in Nat
  /\ HalfBase >= 2 /\ Base = HalfBase * HalfBase
  /\ Base >= 4
<1>1. PICK h \in 1 .. 32 : LimbBits = 2 * h
  BY BigIntAssumption
<1>2. LimbBits \div 2 = h
  BY <1>1
<1>3. h \in 0 .. LimbBits /\ h + h \in 0 .. LimbBits /\ h + h = LimbBits /\ h \in 1 .. LimbBits
      /\ h - 1 \in 0 .. LimbBits /\ LimbBits \in 0 .. LimbBits
  BY <1>1
<1>4. HalfBase = TwoTo[h] /\ Base = TwoTo[h] * TwoTo[h]
  <2>1. TwoTo[h] * TwoTo[h] = TwoTo[h + h]
    BY <1>3, PowersMultiply
  <2> QED
    BY <1>2, <1>3, <2>1, BigIntAssumption
<1>5. TwoTo[h] = 2 * TwoTo[h - 1] /\ TwoTo[h - 1] \in Nat /\ TwoTo[h - 1] >= 1
  BY <1>3, Doubles, PowersPositive
<1>6. HalfBase \in Nat /\ HalfBase >= 2
  BY <1>4, <1>5
<1>7. HalfBase * HalfBase \in Nat /\ HalfBase * HalfBase >= 4
  <2>1. 2 * HalfBase <= HalfBase * HalfBase
    BY <1>6, TimesMonotone
  <2> QED
    BY <1>6, <2>1
<1> QED
  BY <1>4, <1>6, <1>7

(* A limb is what a shift keeps and what it pushes out. *)
LEMMA ShiftFacts ==
  ASSUME NEW n \in 0 .. LimbBits
  PROVE  /\ LimbBits - n \in 0 .. LimbBits
         /\ TwoTo[n] \in Nat /\ TwoTo[n] >= 1
         /\ TwoTo[LimbBits - n] \in Nat /\ TwoTo[LimbBits - n] >= 1
         /\ TwoTo[n] * TwoTo[LimbBits - n] = Base
<1>1. LimbBits \in Nat
  BY BigIntAssumption
<1>2. LimbBits - n \in 0 .. LimbBits /\ n + (LimbBits - n) \in 0 .. LimbBits
      /\ n + (LimbBits - n) = LimbBits
  BY <1>1
<1>3. TwoTo[n] * TwoTo[LimbBits - n] = TwoTo[n + (LimbBits - n)]
  BY <1>2, PowersMultiply
<1> QED
  BY <1>2, <1>3, PowersPositive, BigIntAssumption

-----------------------------------------------------------------------------
(* The integer some limbs stand for *)

Limb == 0 .. Base - 1
Limbs == Seq(Limb)

(* What the limb above n others counts, and what the lowest n limbs come to. *)
Weight(n) == Reached(n, Nat, 1, [i \in Nat \ {0} |-> [r \in Nat |-> Base * r]])
Low(s, n) ==
  Reached(n, Nat, 0, [i \in Nat \ {0} |-> [r \in Nat |-> r + LimbAt(s, i) * Weight(i - 1)]])

(* Each place counts Base times the one below it. *)
LEMMA WeightFacts ==
  /\ Weight(0) = 1
  /\ \A n \in Nat : Weight(n) \in Nat /\ Weight(n) >= 1
  /\ \A n \in Nat : Weight(n + 1) = Base * Weight(n)
<1> DEFINE T == [i \in Nat \ {0} |-> [r \in Nat |-> Base * r]]
<1>1. Base \in Nat /\ Base >= 4
  BY BaseFacts
<1>2. Endless(T, Nat)
  BY <1>1 DEF Endless
<1>8. \A i \in Nat \ {0}, r \in Nat : T[i][r] = Base * r
  OBVIOUS
<1>3. \A n : Weight(n) = Reached(n, Nat, 1, T)
  BY Zenon DEF Weight
<1> HIDE DEF T
<1>4. /\ Reached(0, Nat, 1, T) = 1
      /\ \A n \in Nat : Reached(n, Nat, 1, T) \in Nat
      /\ \A n \in Nat : Reached(n + 1, Nat, 1, T) = T[n + 1][Reached(n, Nat, 1, T)]
  <2>1. 1 \in Nat
    OBVIOUS
  <2>2. Leads(Nat, 1, T)
    BY <1>2, <2>1, Reaches
  <2> QED
    BY <2>2, Zenon DEF Leads
<1>5. Weight(0) = 1 /\ \A n \in Nat : Weight(n) \in Nat
  BY <1>3, <1>4
<1>6. ASSUME NEW n \in Nat PROVE Weight(n + 1) = Base * Weight(n)
  <2>1. n + 1 \in Nat \ {0}
    OBVIOUS
  <2>2. Weight(n + 1) = T[n + 1][Weight(n)]
    BY <1>3, <1>4
  <2> QED
    BY <1>5, <1>8, <2>1, <2>2
<1>7. ASSUME NEW n \in Nat PROVE Weight(n) >= 1
  <2> DEFINE C == {k \in 0 .. n : Weight(k) >= 1}
  <2>1. 0 \in C
    BY <1>5
  <2>2. ASSUME NEW k \in 0 .. n - 1, k \in C PROVE k + 1 \in C
    <3>1. Weight(k + 1) = Base * Weight(k) /\ Weight(k) \in Nat /\ Weight(k) >= 1
      BY <1>5, <1>6, <2>2
    <3>2. Base * Weight(k) >= Base
      <4>1. 1 * Base <= Weight(k) * Base
        BY <1>1, <3>1, TimesMonotone
      <4> QED
        BY <1>1, <3>1, <4>1
    <3>3. k + 1 \in 0 .. n
      OBVIOUS
    <3> QED
      BY <1>1, <3>1, <3>2, <3>3
  <2>3. \A k \in 0 .. n : k \in C
    <3> HIDE DEF C
    <3> QED
      BY <2>1, <2>2, Induction
  <2> QED
    BY <2>3
<1> QED
  BY <1>5, <1>6, <1>7

(* Places multiply. *)
LEMMA WeightsMultiply ==
  ASSUME NEW m \in Nat, NEW n \in Nat
  PROVE  Weight(m + n) = Weight(m) * Weight(n)
<1> DEFINE C == {k \in 0 .. n : Weight(m + k) = Weight(m) * Weight(k)}
<1>1. 0 \in C
  <2>1. m + 0 = m /\ 0 \in 0 .. n /\ Weight(m) \in Nat
    BY WeightFacts
  <2>2. Weight(m) * 1 = Weight(m)
    BY <2>1
  <2> QED
    BY <2>1, <2>2, WeightFacts
<1>2. ASSUME NEW k \in 0 .. n - 1, k \in C PROVE k + 1 \in C
  <2>1. m + (k + 1) = (m + k) + 1 /\ m + k \in Nat /\ k \in Nat /\ k + 1 \in 0 .. n
    OBVIOUS
  <2>2. Weight(m + (k + 1)) = Base * Weight(m + k) /\ Weight(k + 1) = Base * Weight(k)
    BY <2>1, WeightFacts
  <2>3. Weight(m) \in Nat /\ Weight(k) \in Nat /\ Base \in Nat
    BY <2>1, WeightFacts, BaseFacts
  <2>4. Base * (Weight(m) * Weight(k)) = Weight(m) * (Base * Weight(k))
    BY <2>3
  <2> QED
    BY <1>2, <2>1, <2>2, <2>4
<1>3. \A k \in 0 .. n : k \in C
  <2> HIDE DEF C
  <2> QED
    BY <1>1, <1>2, Induction
<1> QED
  BY <1>3

(* Beyond its end a number has no limbs but zeros. *)
LEMMA LimbAtType ==
  ASSUME NEW s \in Limbs, NEW i \in Int
  PROVE  LimbAt(s, i) \in Limb /\ LimbAt(s, i) \in Nat
<1>1. Base \in Nat /\ Base >= 4
  BY BaseFacts
<1>2. CASE i \in DOMAIN s
  <2>1. i \in 1 .. Len(s)
    BY <1>2 DEF Limbs
  <2>2. s[i] \in Limb
    BY <2>1, ElementOfSeq DEF Limbs
  <2> QED
    BY <1>1, <1>2, <2>2 DEF LimbAt, Limb
<1>3. CASE i \notin DOMAIN s
  BY <1>1, <1>3 DEF LimbAt, Limb
<1> QED
  BY <1>2, <1>3

(* Within it they are its own. *)
LEMMA LimbAtPlace ==
  ASSUME NEW s \in Limbs
  PROVE  /\ \A i \in 1 .. Len(s) : LimbAt(s, i) = s[i]
         /\ \A i \in Int : i > Len(s) => LimbAt(s, i) = 0
         /\ LimbAt(s, 0) = 0
         /\ Len(s) \in Nat
         /\ s \in Seq(Nat)
<1>1. DOMAIN s = 1 .. Len(s) /\ Len(s) \in Nat
  BY LenProperties DEF Limbs
<1>2. \A i \in 1 .. Len(s) : s[i] \in Nat
  BY LimbAtType, <1>1 DEF LimbAt
<1>3. s \in Seq(Nat)
  <2>1. s = [i \in 1 .. Len(s) |-> s[i]]
    BY <1>1, LenProperties DEF Limbs
  <2> QED
    BY <1>1, <1>2, <2>1, IsASeq
<1> QED
  BY <1>1, <1>3 DEF LimbAt

(* The lowest n limbs are one more than the lowest n - 1. *)
LEMMA LowFacts ==
  ASSUME NEW s \in Limbs
  PROVE  /\ Low(s, 0) = 0
         /\ \A n \in Nat : Low(s, n) \in Nat
         /\ \A n \in Nat : Low(s, n + 1) = Low(s, n) + LimbAt(s, n + 1) * Weight(n)
<1> DEFINE T == [i \in Nat \ {0} |-> [r \in Nat |-> r + LimbAt(s, i) * Weight(i - 1)]]
<1>1. ASSUME NEW i \in Nat \ {0}, NEW r \in Nat
      PROVE  r + LimbAt(s, i) * Weight(i - 1) \in Nat
  <2>1. LimbAt(s, i) \in Nat /\ i - 1 \in Nat
    BY LimbAtType
  <2>2. Weight(i - 1) \in Nat
    BY <2>1, WeightFacts
  <2>3. LimbAt(s, i) * Weight(i - 1) \in Nat
    BY <2>1, <2>2
  <2> QED
    BY <2>3
<1>2. Endless(T, Nat)
  BY <1>1 DEF Endless
<1>3. \A i \in Nat \ {0}, r \in Nat : T[i][r] = r + LimbAt(s, i) * Weight(i - 1)
  OBVIOUS
<1>4. \A n : Low(s, n) = Reached(n, Nat, 0, T)
  BY Zenon DEF Low
<1> HIDE DEF T
<1>5. /\ Reached(0, Nat, 0, T) = 0
      /\ \A n \in Nat : Reached(n, Nat, 0, T) \in Nat
      /\ \A n \in Nat : Reached(n + 1, Nat, 0, T) = T[n + 1][Reached(n, Nat, 0, T)]
  <2>1. 0 \in Nat
    OBVIOUS
  <2>2. Leads(Nat, 0, T)
    BY <1>2, <2>1, Reaches
  <2> QED
    BY <2>2, Zenon DEF Leads
<1>6. Low(s, 0) = 0 /\ \A n \in Nat : Low(s, n) \in Nat
  BY <1>4, <1>5
<1>7. ASSUME NEW n \in Nat PROVE Low(s, n + 1) = Low(s, n) + LimbAt(s, n + 1) * Weight(n)
  <2>1. n + 1 \in Nat \ {0} /\ (n + 1) - 1 = n
    OBVIOUS
  <2>2. Low(s, n + 1) = T[n + 1][Low(s, n)]
    BY <1>4, <1>5
  <2>3. T[n + 1][Low(s, n)] = Low(s, n) + LimbAt(s, n + 1) * Weight((n + 1) - 1)
    BY <1>3, <1>6, <2>1
  <2> QED
    BY <2>1, <2>2, <2>3
<1> QED
  BY <1>6, <1>7

(* Limbs that agree come to the same. *)
Agree(s, t, n) == \A i \in 1 .. n : LimbAt(s, i) = LimbAt(t, i)

(* They stand for the same lower part. *)
LEMMA LowSame ==
  ASSUME NEW s \in Limbs, NEW t \in Limbs, NEW n \in Nat, Agree(s, t, n)
  PROVE  Low(s, n) = Low(t, n)
<1> DEFINE C == {k \in 0 .. n : Low(s, k) = Low(t, k)}
<1>1. 0 \in C
  BY LowFacts
<1>2. ASSUME NEW k \in 0 .. n - 1, k \in C PROVE k + 1 \in C
  <2>1. k \in Nat /\ k + 1 \in 1 .. n /\ k + 1 \in 0 .. n
    OBVIOUS
  <2>2. LimbAt(s, k + 1) = LimbAt(t, k + 1)
    BY <2>1 DEF Agree
  <2>3. /\ Low(s, k + 1) = Low(s, k) + LimbAt(s, k + 1) * Weight(k)
        /\ Low(t, k + 1) = Low(t, k) + LimbAt(t, k + 1) * Weight(k)
    BY <2>1, LowFacts
  <2> QED
    BY <1>2, <2>1, <2>2, <2>3
<1>3. \A k \in 0 .. n : k \in C
  <2> HIDE DEF C
  <2> QED
    BY <1>1, <1>2, Induction
<1> QED
  BY <1>3

(* One more limb, added to what n limbs come to at most, does not overtake
   what n + 1 limbs come to at most. *)
LEMMA LowRoom ==
  ASSUME NEW low \in Int, NEW digit \in Int, NEW weight \in Nat, NEW base \in Nat,
         low < weight, digit <= base - 1
  PROVE  low + digit * weight < base * weight
<1>1. digit * weight <= (base - 1) * weight
  <2>1. base - 1 \in Int
    OBVIOUS
  <2> QED
    BY <2>1, TimesMonotone
<1>2. (base - 1) * weight = base * weight - weight
  OBVIOUS
<1>3. digit * weight \in Int /\ base * weight \in Int
  OBVIOUS
<1> QED
  BY <1>1, <1>2, <1>3

(* n limbs come to less than the place above them counts. *)
LEMMA LowBounded ==
  ASSUME NEW s \in Limbs, NEW n \in Nat
  PROVE  Low(s, n) < Weight(n)
<1> DEFINE C == {k \in 0 .. n : Low(s, k) < Weight(k)}
<1>1. 0 \in C
  BY LowFacts, WeightFacts
<1>2. ASSUME NEW k \in 0 .. n - 1, k \in C PROVE k + 1 \in C
  <2>1. k \in Nat /\ k + 1 \in 0 .. n /\ k + 1 \in Nat
    OBVIOUS
  <2>2. Low(s, k + 1) = Low(s, k) + LimbAt(s, k + 1) * Weight(k)
    BY <2>1, LowFacts
  <2>3. Weight(k + 1) = Base * Weight(k) /\ Weight(k) \in Nat /\ Low(s, k) \in Nat
    BY <2>1, LowFacts, WeightFacts
  <2>4. LimbAt(s, k + 1) \in Int /\ LimbAt(s, k + 1) <= Base - 1 /\ Base \in Nat
    BY <2>1, LimbAtType, BaseFacts DEF Limb
  <2>5. Low(s, k) < Weight(k)
    BY <1>2
  <2>6. Low(s, k) + LimbAt(s, k + 1) * Weight(k) < Base * Weight(k)
    BY <2>3, <2>4, <2>5, LowRoom
  <2> QED
    BY <2>1, <2>2, <2>3, <2>6
<1>3. \A k \in 0 .. n : k \in C
  <2> HIDE DEF C
  <2> QED
    BY <1>1, <1>2, Induction
<1> QED
  BY <1>3

(* Zeros above the lowest m limbs add nothing. *)
LEMMA LowZeros ==
  ASSUME NEW s \in Limbs, NEW m \in Nat, NEW n \in Nat, m <= n,
         \A i \in m + 1 .. n : LimbAt(s, i) = 0
  PROVE  Low(s, n) = Low(s, m)
<1> DEFINE C == {k \in 0 .. n - m : Low(s, m + k) = Low(s, m)}
<1>1. 0 \in C
  OBVIOUS
<1>2. ASSUME NEW k \in 0 .. (n - m) - 1, k \in C PROVE k + 1 \in C
  <2>1. m + k \in Nat /\ (m + k) + 1 \in m + 1 .. n /\ k + 1 \in 0 .. n - m
        /\ m + (k + 1) = (m + k) + 1
    OBVIOUS
  <2>2. Low(s, (m + k) + 1) = Low(s, m + k) + LimbAt(s, (m + k) + 1) * Weight(m + k)
    BY <2>1, LowFacts
  <2>3. LimbAt(s, (m + k) + 1) = 0
    BY <2>1
  <2>4. Low(s, m + k) \in Nat /\ Weight(m + k) \in Nat
    BY <2>1, LowFacts, WeightFacts
  <2>5. Low(s, (m + k) + 1) = Low(s, m + k)
    BY <2>2, <2>3, <2>4
  <2> QED
    BY <1>2, <2>1, <2>5
<1>3. n - m \in Nat /\ m + (n - m) = n
  OBVIOUS
<1>4. \A k \in 0 .. n - m : k \in C
  <2> HIDE DEF C
  <2> QED
    BY <1>1, <1>2, <1>3, Induction
<1>5. n - m \in C
  BY <1>3, <1>4
<1> QED
  BY <1>3, <1>5

(* A limb that is not zero is worth its place at least. *)
LEMMA LowLeading ==
  ASSUME NEW s \in Limbs, NEW n \in Nat, LimbAt(s, n + 1) # 0
  PROVE  Low(s, n + 1) >= Weight(n)
<1>1. Low(s, n + 1) = Low(s, n) + LimbAt(s, n + 1) * Weight(n)
  BY LowFacts
<1>2. Low(s, n) \in Nat /\ Weight(n) \in Nat /\ LimbAt(s, n + 1) \in Nat /\ LimbAt(s, n + 1) >= 1
  BY LowFacts, WeightFacts, LimbAtType
<1>3. 1 * Weight(n) <= LimbAt(s, n + 1) * Weight(n)
  BY <1>2, TimesMonotone
<1> QED
  BY <1>1, <1>2, <1>3

(* The lowest m + n limbs are m limbs and n others above them. *)
Above(t, s, m, n) == \A i \in 1 .. n : LimbAt(t, i) = LimbAt(s, m + i)

(* What they stand for is the sum of the two, the others in their place. *)
LEMMA LowAbove ==
  ASSUME NEW s \in Limbs, NEW t \in Limbs, NEW m \in Nat, NEW n \in Nat, Above(t, s, m, n)
  PROVE  Low(s, m + n) = Low(s, m) + Low(t, n) * Weight(m)
<1> DEFINE C == {k \in 0 .. n : Low(s, m + k) = Low(s, m) + Low(t, k) * Weight(m)}
<1>1. 0 \in C
  <2>1. Low(t, 0) = 0 /\ Weight(m) \in Nat /\ Low(s, m) \in Nat /\ m + 0 = m
    BY LowFacts, WeightFacts
  <2> QED
    BY <2>1
<1>2. ASSUME NEW k \in 0 .. n - 1, k \in C PROVE k + 1 \in C
  <2>1. m + k \in Nat /\ k \in Nat /\ k + 1 \in 1 .. n /\ k + 1 \in 0 .. n
        /\ m + (k + 1) = (m + k) + 1
    OBVIOUS
  <2>2. /\ Low(s, (m + k) + 1) = Low(s, m + k) + LimbAt(s, (m + k) + 1) * Weight(m + k)
        /\ Low(t, k + 1) = Low(t, k) + LimbAt(t, k + 1) * Weight(k)
    BY <2>1, LowFacts
  <2>3. LimbAt(s, (m + k) + 1) = LimbAt(t, k + 1)
    BY <2>1 DEF Above
  <2>4. Weight(m + k) = Weight(m) * Weight(k)
    BY <2>1, WeightsMultiply
  <2>5. /\ Low(s, m) \in Nat /\ Low(t, k) \in Nat /\ Weight(m) \in Nat /\ Weight(k) \in Nat
        /\ LimbAt(t, k + 1) \in Nat
    <3>1. LimbAt(t, k + 1) \in Nat
      BY <2>1, LimbAtType
    <3> QED
      BY <2>1, <3>1, LowFacts, WeightFacts
  <2>6. (Low(t, k) + LimbAt(t, k + 1) * Weight(k)) * Weight(m)
          = Low(t, k) * Weight(m) + LimbAt(t, k + 1) * (Weight(m) * Weight(k))
    BY <2>5
  <2>7. Low(s, m + k) = Low(s, m) + Low(t, k) * Weight(m)
    BY <1>2
  <2>8. Low(t, k) * Weight(m) \in Int /\ LimbAt(t, k + 1) * (Weight(m) * Weight(k)) \in Int
    BY <2>5
  <2>9. Low(s, (m + k) + 1)
          = (Low(s, m) + Low(t, k) * Weight(m)) + LimbAt(t, k + 1) * (Weight(m) * Weight(k))
    BY <2>2, <2>3, <2>4, <2>7, Zenon
  <2>10. Low(s, m + (k + 1)) = Low(s, m) + Low(t, k + 1) * Weight(m)
    BY <2>1, <2>2, <2>5, <2>6, <2>8, <2>9
  <2> QED
    BY <2>1, <2>10
<1>3. \A k \in 0 .. n : k \in C
  <2> HIDE DEF C
  <2> QED
    BY <1>1, <1>2, Induction
<1> QED
  BY <1>3

(* A number with other limbs at one place differs by what that place counts. *)
Replaced(t, s, k) == \A i \in Nat : i # k + 1 => LimbAt(t, i) = LimbAt(s, i)

(* The difference, at any number of limbs above that place. *)
LEMMA LowReplaced ==
  ASSUME NEW s \in Limbs, NEW t \in Limbs, NEW k \in Nat, NEW n \in Nat, k < n,
         Replaced(t, s, k)
  PROVE  Low(t, n) + LimbAt(s, k + 1) * Weight(k) = Low(s, n) + LimbAt(t, k + 1) * Weight(k)
<1>1. Low(t, k) = Low(s, k)
  <2>1. Agree(t, s, k)
    BY DEF Agree, Replaced
  <2> QED
    BY <2>1, LowSame
<1>2. /\ Low(t, k + 1) = Low(t, k) + LimbAt(t, k + 1) * Weight(k)
      /\ Low(s, k + 1) = Low(s, k) + LimbAt(s, k + 1) * Weight(k)
  BY LowFacts
<1>3. /\ LimbAt(t, k + 1) * Weight(k) \in Int /\ LimbAt(s, k + 1) * Weight(k) \in Int
  BY LimbAtType, WeightFacts
<1> DEFINE C == {j \in 0 .. n - (k + 1) :
                   Low(t, (k + 1) + j) + LimbAt(s, k + 1) * Weight(k)
                     = Low(s, (k + 1) + j) + LimbAt(t, k + 1) * Weight(k)}
<1>4. 0 \in C
  <2>1. (k + 1) + 0 = k + 1 /\ 0 \in 0 .. n - (k + 1)
    OBVIOUS
  <2>2. Low(t, k + 1) + LimbAt(s, k + 1) * Weight(k) = Low(s, k + 1) + LimbAt(t, k + 1) * Weight(k)
    BY <1>1, <1>2, <1>3, LowFacts
  <2> QED
    BY <2>1, <2>2
<1>5. ASSUME NEW j \in 0 .. (n - (k + 1)) - 1, j \in C PROVE j + 1 \in C
  <2>1. /\ (k + 1) + j \in Nat /\ ((k + 1) + j) + 1 \in Nat /\ ((k + 1) + j) + 1 # k + 1
        /\ (k + 1) + (j + 1) = ((k + 1) + j) + 1 /\ j + 1 \in 0 .. n - (k + 1)
    OBVIOUS
  <2>2. LimbAt(t, ((k + 1) + j) + 1) = LimbAt(s, ((k + 1) + j) + 1)
    BY <2>1 DEF Replaced
  <2>3. /\ Low(t, ((k + 1) + j) + 1)
             = Low(t, (k + 1) + j) + LimbAt(t, ((k + 1) + j) + 1) * Weight((k + 1) + j)
        /\ Low(s, ((k + 1) + j) + 1)
             = Low(s, (k + 1) + j) + LimbAt(s, ((k + 1) + j) + 1) * Weight((k + 1) + j)
    BY <2>1, LowFacts
  <2>4. LimbAt(s, ((k + 1) + j) + 1) * Weight((k + 1) + j) \in Int
        /\ Low(t, (k + 1) + j) \in Int /\ Low(s, (k + 1) + j) \in Int
    <3>1. ((k + 1) + j) + 1 \in Int
      OBVIOUS
    <3>2. LimbAt(s, ((k + 1) + j) + 1) \in Nat
      BY <3>1, LimbAtType, Zenon
    <3>3. Weight((k + 1) + j) \in Nat
      BY <2>1, WeightFacts, Zenon
    <3>4. Low(t, (k + 1) + j) \in Nat /\ Low(s, (k + 1) + j) \in Nat
      BY <2>1, LowFacts, Zenon
    <3> QED
      BY <3>2, <3>3, <3>4
  <2>5. Low(t, (k + 1) + j) + LimbAt(s, k + 1) * Weight(k)
          = Low(s, (k + 1) + j) + LimbAt(t, k + 1) * Weight(k)
    BY <1>5
  <2>6. Low(t, ((k + 1) + j) + 1) + LimbAt(s, k + 1) * Weight(k)
          = Low(s, ((k + 1) + j) + 1) + LimbAt(t, k + 1) * Weight(k)
    BY <1>3, <2>2, <2>3, <2>4, <2>5
  <2> QED
    BY <2>1, <2>6
<1>6. \A j \in 0 .. n - (k + 1) : j \in C
  <2>1. n - (k + 1) \in Nat
    OBVIOUS
  <2> HIDE DEF C
  <2> QED
    BY <1>4, <1>5, <2>1, Induction
<1>7. n - (k + 1) \in C /\ (k + 1) + (n - (k + 1)) = n
  BY <1>6
<1> QED
  BY <1>7

-----------------------------------------------------------------------------
(* The value of a magnitude *)

(* f is what the loop over the limbs has come to after i turns. *)
MagnitudeCourse(f, s) ==
  f = [i \in 0 .. Len(s) |-> IF i = 0 THEN 0 ELSE f[i - 1] * Base + s[Len(s) + 1 - i]]

(* A magnitude is the last value of its loop over the limbs, from the top. *)
LEMMA MagnitudeUnfolded ==
  ASSUME NEW s
  PROVE  MagnitudeOf(s) = (CHOOSE f : MagnitudeCourse(f, s))[Len(s)]
  BY Zenon DEF MagnitudeOf, Loop, MagnitudeCourse

(* It stays within its type, turn by turn. *)
LEMMA MagnitudeLoop ==
  ASSUME NEW s \in Limbs
  PROVE  \E f \in [0 .. Len(s) -> Nat] :
           /\ f[0] = 0
           /\ \A i \in 1 .. Len(s) : f[i] = f[i - 1] * Base + s[Len(s) + 1 - i]
           /\ MagnitudeOf(s) = f[Len(s)]
<1>1. Len(s) \in Nat /\ 0 \in Nat
  BY LimbAtPlace
<1> DEFINE T == [i \in 1 .. Len(s) |-> [r \in Nat |-> r * Base + s[Len(s) + 1 - i]]]
<1>2. ASSUME NEW i \in 1 .. Len(s), NEW r \in Nat PROVE r * Base + s[Len(s) + 1 - i] \in Nat
  <2>1. Len(s) + 1 - i \in 1 .. Len(s)
    BY <1>1
  <2>2. s[Len(s) + 1 - i] \in Nat
    <3>1. \A k \in 1 .. Len(s) : s[k] \in Nat
      BY ElementOfSeq, LimbAtPlace
    <3> QED
      BY <2>1, <3>1
  <2>4. Base \in Nat
    BY BaseFacts
  <2>3. r * Base \in Nat
    BY <2>4
  <2> QED
    BY <2>2, <2>3
<1>3. T \in Turns(Len(s), Nat)
  BY <1>2 DEF Turns
<1>4. \A i \in 1 .. Len(s), r \in Nat : T[i][r] = r * Base + s[Len(s) + 1 - i]
  OBVIOUS
<1> HIDE DEF T
<1>5. PICK f : Course(f, Len(s), Nat, 0, T)
  BY <1>1, <1>3, Iterates
<1>6. f \in [0 .. Len(s) -> Nat] /\ f[0] = 0 /\ \A i \in 1 .. Len(s) : f[i] = T[i][f[i - 1]]
  BY <1>5 DEF Course
<1>7. \A i \in 0 .. Len(s) : i # 0 => i \in 1 .. Len(s) /\ i - 1 \in 0 .. Len(s)
  BY <1>1
<1>8. \A i \in 0 .. Len(s) : f[i] = IF i = 0 THEN 0 ELSE f[i - 1] * Base + s[Len(s) + 1 - i]
  <2> SUFFICES ASSUME NEW i \in 0 .. Len(s), i # 0 PROVE f[i] = f[i - 1] * Base + s[Len(s) + 1 - i]
    BY <1>6, Zenon
  <2>1. i \in 1 .. Len(s) /\ f[i - 1] \in Nat
    BY <1>6, <1>7
  <2> QED
    BY <1>4, <1>6, <2>1, Zenon
<1>9. f = [i \in 0 .. Len(s) |-> IF i = 0 THEN 0 ELSE f[i - 1] * Base + s[Len(s) + 1 - i]]
  <2>1. f = [i \in 0 .. Len(s) |-> f[i]]
    BY <1>6
  <2> QED
    BY <1>8, <2>1, Zenon
<1>10. MagnitudeCourse(f, s)
  BY <1>9, Zenon DEF MagnitudeCourse
<1>11. PICK g : g = CHOOSE h : MagnitudeCourse(h, s)
  OBVIOUS
<1>12. MagnitudeCourse(g, s) /\ MagnitudeOf(s) = g[Len(s)]
  BY <1>10, <1>11, MagnitudeUnfolded, Zenon
<1>13. g = [i \in 0 .. Len(s) |-> IF i = 0 THEN 0 ELSE g[i - 1] * Base + s[Len(s) + 1 - i]]
  BY <1>12, Zenon DEF MagnitudeCourse
<1>14. \A i \in 0 .. Len(s) : g[i] = IF i = 0 THEN 0 ELSE g[i - 1] * Base + s[Len(s) + 1 - i]
  BY <1>13, Zenon
<1>15. g = [i \in 0 .. Len(s) |-> g[i]]
  BY <1>13, <1>14, Zenon
<1>16. g[0] = 0 /\ \A i \in 1 .. Len(s) : g[i] = g[i - 1] * Base + s[Len(s) + 1 - i]
  <2>1. 0 \in 0 .. Len(s) /\ \A i \in 1 .. Len(s) : i \in 0 .. Len(s) /\ i # 0
    BY <1>1
  <2> QED
    BY <1>14, <2>1, Zenon
<1>17. \A i \in 1 .. Len(s) : g[i - 1] \in Nat => g[i] = T[i][g[i - 1]]
  BY <1>4, <1>16, Zenon
<1>18. Course(g, Len(s), Nat, 0, T)
  BY <1>1, <1>3, <1>15, <1>16, <1>17, RunsItsCourse
<1>19. g \in [0 .. Len(s) -> Nat]
  BY <1>18 DEF Course
<1> QED
  BY <1>12, <1>16, <1>19

(* A magnitude is what all its limbs come to. *)
LEMMA MagnitudeIsLow ==
  ASSUME NEW s \in Limbs
  PROVE  MagnitudeOf(s) = Low(s, Len(s))
<1> DEFINE n == Len(s)
<1>1. n \in Nat /\ \A i \in 1 .. n : LimbAt(s, i) = s[i]
  BY LimbAtPlace
<1>2. PICK f \in [0 .. n -> Nat] :
        /\ f[0] = 0 /\ \A i \in 1 .. n : f[i] = f[i - 1] * Base + s[n + 1 - i]
        /\ MagnitudeOf(s) = f[n]
  BY MagnitudeLoop
<1> HIDE DEF n
<1> DEFINE C == {k \in 0 .. n : f[k] * Weight(n - k) + Low(s, n - k) = Low(s, n)}
<1>3. 0 \in C
  <2>1. n - 0 = n /\ Weight(n) \in Nat /\ Low(s, n) \in Nat
    BY <1>1, WeightFacts, LowFacts
  <2> QED
    BY <1>1, <1>2, <2>1
<1>4. ASSUME NEW k \in 0 .. n - 1, k \in C PROVE k + 1 \in C
  <2> DEFINE m == n - (k + 1)
  <2>1. m \in Nat /\ m + 1 = n - k /\ k + 1 \in 1 .. n /\ (k + 1) - 1 = k /\ k + 1 \in 0 .. n
        /\ n + 1 - (k + 1) = m + 1 /\ k \in 0 .. n /\ m + 1 \in 1 .. n
    BY <1>1
  <2>2. f[k + 1] = f[k] * Base + LimbAt(s, m + 1) /\ f[k] \in Nat /\ f[k + 1] \in Nat
    BY <1>1, <1>2, <2>1
  <2>3. Weight(m + 1) = Base * Weight(m) /\ Weight(m) \in Nat /\ Base \in Nat
    BY <2>1, WeightFacts, BaseFacts
  <2>4. Low(s, m + 1) = Low(s, m) + LimbAt(s, m + 1) * Weight(m) /\ Low(s, m) \in Nat
    BY <2>1, LowFacts
  <2>5. LimbAt(s, m + 1) \in Nat
    BY <2>1, LimbAtType
  <2>6. f[k] * Weight(m + 1) + Low(s, m + 1) = Low(s, n)
    BY <1>4, <2>1
  <2> HIDE DEF m
  <2>7. (f[k] * Base + LimbAt(s, m + 1)) * Weight(m)
          = f[k] * (Base * Weight(m)) + LimbAt(s, m + 1) * Weight(m)
    BY <2>2, <2>3, <2>5
  <2>8. f[k] * (Base * Weight(m)) \in Int /\ LimbAt(s, m + 1) * Weight(m) \in Int
    BY <2>2, <2>3, <2>5
  <2>9. f[k + 1] * Weight(m) + Low(s, m) = Low(s, n)
    BY <2>2, <2>3, <2>4, <2>6, <2>7, <2>8
  <2>10. k + 1 \in 0 .. n
    BY <1>1
  <2> QED
    BY <2>9, <2>10 DEF m
<1>5. \A k \in 0 .. n : k \in C
  <2> HIDE DEF C
  <2> QED
    BY <1>1, <1>3, <1>4, Induction
<1>6. f[n] * Weight(n - n) + Low(s, n - n) = Low(s, n) /\ f[n] \in Nat
  BY <1>1, <1>2, <1>5
<1>7. n - n = 0
  BY <1>1
<1>8. f[n] * Weight(0) + Low(s, 0) = Low(s, n)
  BY <1>6, <1>7
<1>9. f[n] * Weight(0) + Low(s, 0) = f[n]
  <2>1. Weight(0) = 1 /\ Low(s, 0) = 0
    BY WeightFacts, LowFacts
  <2> QED
    BY <1>6, <2>1
<1> QED
  BY <1>2, <1>8, <1>9 DEF n

(* The largest of some numbers. *)
LEMMA Largest ==
  ASSUME NEW n \in Nat, NEW S, S \subseteq 1 .. n, S # {}
  PROVE  LET m == CHOOSE i \in S : \A j \in S : j <= i
         IN  m \in S /\ \A j \in S : j <= m
<1> DEFINE C == {k \in 0 .. n : \A i \in S : i <= n - k}
<1>1. PICK first \in S : TRUE
  OBVIOUS
<1>2. 0 \in C
  OBVIOUS
<1>3. n \notin C
  <2>1. first \in 1 .. n
    OBVIOUS
  <2>2. ~(first <= n - n)
    BY <2>1
  <2> QED
    BY <1>1, <2>2
<1>4. \E k \in 0 .. n - 1 : k \in C /\ k + 1 \notin C
  <2> SUFFICES ASSUME \A k \in 0 .. n - 1 : k \in C => k + 1 \in C PROVE FALSE
    BY Zenon
  <2> HIDE DEF C
  <2>1. \A k \in 0 .. n : k \in C
    BY <1>2, Induction
  <2> QED
    BY <1>3, <2>1
<1>5. PICK k \in 0 .. n - 1 : k \in C /\ k + 1 \notin C
  BY <1>4
<1>6. \A i \in S : i <= n - k
  BY <1>5
<1>7. PICK i \in S : ~(i <= n - (k + 1))
  BY <1>5
<1>8. i \in 1 .. n /\ i = n - k
  <2>1. i \in 1 .. n /\ i <= n - k
    BY <1>6
  <2> HIDE DEF C
  <2> QED
    BY <1>7, <2>1
<1>9. \A j \in S : j <= i
  BY <1>6, <1>8
<1> QED
  BY <1>9, Zenon

(* What is trimmed away is zero. *)
LEMMA TrimmedFacts ==
  ASSUME NEW s \in Limbs
  PROVE  /\ Trimmed(s) \in Limbs
         /\ Len(Trimmed(s)) \in 0 .. Len(s)
         /\ \A i \in 1 .. Len(Trimmed(s)) : Trimmed(s)[i] = s[i]
         /\ \A i \in Len(Trimmed(s)) + 1 .. Len(s) : s[i] = 0
         /\ Trimmed(s) # <<>> => Trimmed(s)[Len(Trimmed(s))] # 0
<1>1. Len(s) \in Nat /\ DOMAIN s = 1 .. Len(s) /\ s \in Seq(Limb)
  BY LenProperties DEF Limbs
<1> DEFINE used == {i \in DOMAIN s : s[i] # 0}
<1>2. CASE used = {}
  <2>1. Trimmed(s) = <<>>
    BY <1>2 DEF Trimmed
  <2>2. \A i \in 1 .. Len(s) : s[i] = 0
    BY <1>1, <1>2
  <2>3. <<>> \in Limbs /\ Len(<<>>) = 0
    BY DEF Limbs
  <2> QED
    BY <1>1, <2>1, <2>2, <2>3
<1>3. CASE used # {}
  <2>1. used \subseteq 1 .. Len(s)
    BY <1>1
  <2> DEFINE m == CHOOSE i \in used : \A j \in used : j <= i
  <2>2. m \in used /\ \A j \in used : j <= m
    <3> HIDE DEF used
    <3> QED
      BY <1>1, <1>3, <2>1, Largest
  <2> HIDE DEF m
  <2>6. m \in 1 .. Len(s) /\ s[m] # 0
    BY <1>1, <2>2
  <2>7. \A i \in 1 .. Len(s) : i > m => s[i] = 0
    BY <1>1, <2>2, <2>6
  <2>12. Trimmed(s) = SubSeq(s, 1, m)
    BY <1>3, Zenon DEF Trimmed, m
  <2>13. SubSeq(s, 1, m) = [j \in 1 .. m |-> s[j]] /\ SubSeq(s, 1, m) \in Seq(Limb)
         /\ Len(SubSeq(s, 1, m)) = m
    <3>1. m \in Nat /\ 1 \in 1 .. Len(s) + 1 /\ m \in 1 - 1 .. Len(s)
      BY <1>1, <2>6
    <3>2. /\ SubSeq(s, 1, m) \in Seq(Limb)
          /\ Len(SubSeq(s, 1, m)) = IF 1 <= m THEN m - 1 + 1 ELSE 0
          /\ \A j \in 1 .. m - 1 + 1 : SubSeq(s, 1, m)[j] = s[1 + j - 1]
      BY <1>1, <3>1, SubSeqProperties
    <3>3. Len(SubSeq(s, 1, m)) = m
      BY <2>6, <3>1, <3>2
    <3>4. \A j \in 1 .. m : SubSeq(s, 1, m)[j] = s[j]
      BY <1>1, <2>6, <3>2
    <3>5. SubSeq(s, 1, m) = [j \in 1 .. m |-> SubSeq(s, 1, m)[j]]
      BY <3>2, <3>3, LenProperties
    <3> QED
      BY <3>2, <3>3, <3>4, <3>5
  <2>14. Len(Trimmed(s)) = m /\ Trimmed(s) \in Limbs /\ \A j \in 1 .. m : Trimmed(s)[j] = s[j]
    BY <2>12, <2>13 DEF Limbs
  <2>15. \A j \in m + 1 .. Len(s) : s[j] = 0
    BY <1>1, <2>6, <2>7
  <2>16. Trimmed(s)[m] # 0
    BY <2>6, <2>14
  <2>17. m \in 0 .. Len(s)
    BY <1>1, <2>6
  <2> QED
    BY <2>14, <2>15, <2>16, <2>17
<1> QED
  BY <1>2, <1>3

(* Trimming keeps the value. *)
LEMMA TrimmedValue ==
  ASSUME NEW s \in Limbs
  PROVE  /\ Low(Trimmed(s), Len(Trimmed(s))) = Low(s, Len(s))
         /\ MagnitudeOf(Trimmed(s)) = Low(s, Len(s))
<1> DEFINE t == Trimmed(s)
<1>1. /\ t \in Limbs /\ Len(t) \in 0 .. Len(s)
      /\ \A i \in 1 .. Len(t) : t[i] = s[i]
      /\ \A i \in Len(t) + 1 .. Len(s) : s[i] = 0
  BY TrimmedFacts
<1> HIDE DEF t
<1>2. Len(s) \in Nat /\ Len(t) \in Nat /\ Len(t) <= Len(s)
  BY <1>1, LimbAtPlace
<1>3. \A i \in Len(t) + 1 .. Len(s) : LimbAt(s, i) = 0
  BY <1>1, <1>2, LimbAtPlace
<1>4. Agree(t, s, Len(t))
  BY <1>1, <1>2, LimbAtPlace DEF Agree
<1>5. Low(t, Len(t)) = Low(s, Len(t))
  BY <1>1, <1>2, <1>4, LowSame
<1>6. Low(s, Len(s)) = Low(s, Len(t))
  BY <1>2, <1>3, LowZeros
<1>7. MagnitudeOf(t) = Low(t, Len(t))
  BY <1>1, MagnitudeIsLow
<1> QED
  BY <1>5, <1>6, <1>7 DEF t

-----------------------------------------------------------------------------
(* Sums and differences *)

(* The sum of two limbs and a carry is a limb and a carry. *)
LEMMA AddLimbsExact ==
  ASSUME NEW x \in Limb, NEW y \in Limb, NEW c \in 0 .. 1
  PROVE  LET r == AddLimbs(x, y, c)
         IN  r.limb \in Limb /\ r.carry \in 0 .. 1 /\ r.limb + r.carry * Base = x + y + c
<1> DEFINE sum == (x + y) % Base
           final == (sum + c) % Base
           carry == IF final < sum \/ sum < x THEN 1 ELSE 0
<1>1. Base \in Nat /\ Base >= 4 /\ x \in Nat /\ y \in Nat /\ x < Base /\ y < Base
  BY BaseFacts DEF Limb
<1>2. \A z \in Nat : /\ z < Base => z % Base = z
                     /\ Base <= z /\ z < 2 * Base => z % Base = z - Base
  <2> TAKE z \in Nat
  <2>1. CASE z < Base
    <3>1. z = Base * 0 + z
      BY <1>1
    <3> QED
      BY <1>1, <2>1, <3>1, DivisionIs
  <2>2. CASE Base <= z /\ z < 2 * Base
    <3>1. z = Base * 1 + (z - Base) /\ z - Base \in Int /\ 0 <= z - Base /\ z - Base < Base
      BY <1>1, <2>2
    <3> QED
      BY <1>1, <2>2, <3>1, DivisionIs
  <2> QED
    BY <1>1, <2>1, <2>2
<1>3. sum = IF x + y < Base THEN x + y ELSE x + y - Base
  BY <1>1, <1>2
<1>4. sum \in Nat /\ sum < Base /\ (sum < x <=> x + y >= Base)
  BY <1>1, <1>3
<1>5. final = IF sum + c < Base THEN sum + c ELSE (sum + c) - Base
  <2> HIDE DEF sum
  <2>1. PICK z \in Nat : z = sum + c
    BY <1>1, <1>4
  <2>2. z < 2 * Base
    BY <1>1, <1>4, <2>1
  <2>3. z % Base = IF z < Base THEN z ELSE z - Base
    BY <1>1, <1>2, <2>2
  <2> QED
    BY <2>1, <2>3, Zenon
<1> HIDE DEF sum, final
<1>6. final \in Nat /\ final < Base
  BY <1>1, <1>4, <1>5
<1>7. carry \in 0 .. 1
  <2>1. 0 \in 0 .. 1 /\ 1 \in 0 .. 1
    OBVIOUS
  <2> QED
    BY <2>1, Zenon
<1>8. CASE x + y < Base
  <2>1. sum = x + y
    BY <1>3, <1>8
  <2>2. ~(sum < x)
    BY <1>1, <1>4, <1>8
  <2>3. CASE sum + c < Base
    <3>1. final = sum + c /\ ~(final < sum)
      BY <1>4, <1>5, <2>3
    <3>2. carry = 0
      BY <2>2, <3>1
    <3>3. carry * Base = 0
      BY <1>1, <3>2
    <3> QED
      BY <1>1, <1>6, <1>7, <2>1, <3>1, <3>3 DEF AddLimbs, Limb, sum, final
  <2>4. CASE sum + c >= Base
    <3>1. final = (sum + c) - Base /\ final < sum
      BY <1>1, <1>4, <1>5, <2>4
    <3>2. carry = 1
      BY <3>1
    <3>3. carry * Base = Base
      BY <1>1, <3>2
    <3> QED
      BY <1>1, <1>6, <1>7, <2>1, <3>1, <3>3 DEF AddLimbs, Limb, sum, final
  <2> QED
    BY <1>1, <1>4, <2>3, <2>4
<1>9. CASE x + y >= Base
  <2>1. sum = x + y - Base /\ sum < x
    BY <1>1, <1>3, <1>4, <1>9
  <2>2. sum + c < Base /\ final = sum + c
    BY <1>1, <1>5, <2>1
  <2>3. carry = 1
    BY <2>1
  <2>4. carry * Base = Base
    BY <1>1, <2>3
  <2> QED
    BY <1>1, <1>6, <1>7, <2>1, <2>2, <2>4 DEF AddLimbs, Limb, sum, final
<1> QED
  BY <1>1, <1>8, <1>9

(* The difference of two limbs and a borrow is a limb and a borrow. *)
LEMMA SubtractLimbsExact ==
  ASSUME NEW x \in Limb, NEW y \in Limb, NEW c \in 0 .. 1
  PROVE  LET r == SubtractLimbs(x, y, c)
         IN  r.limb \in Limb /\ r.borrow \in 0 .. 1 /\ r.limb - r.borrow * Base = x - y - c
<1> DEFINE borrow == IF x < y \/ (c = 1 /\ x = y) THEN 1 ELSE 0
           limb == (x - y - c) % Base
<1>1. Base \in Nat /\ Base >= 4 /\ x \in Nat /\ y \in Nat /\ x < Base /\ y < Base
  BY BaseFacts DEF Limb
<1>2. borrow \in 0 .. 1 /\ borrow \in Int /\ (borrow = 1 <=> x - y - c < 0)
  BY <1>1
<1>3. CASE x - y - c >= 0
  <2>1. x - y - c = Base * 0 + (x - y - c) /\ x - y - c < Base /\ x - y - c \in Int
    BY <1>1
  <2>2. limb = x - y - c
    BY <1>1, <1>3, <2>1, DivisionIs
  <2>3. borrow * Base = 0
    BY <1>1, <1>2, <1>3
  <2> HIDE DEF limb, borrow
  <2>4. limb \in Limb /\ limb - borrow * Base = x - y - c
    BY <1>1, <1>3, <2>1, <2>2, <2>3 DEF Limb
  <2> QED
    BY <1>2, <2>4 DEF SubtractLimbs, limb, borrow
<1>4. CASE x - y - c < 0
  <2>1. x - y - c = Base * (-1) + (x - y - c + Base) /\ x - y - c + Base < Base
        /\ x - y - c + Base \in Int /\ 0 <= x - y - c + Base /\ x - y - c \in Int
    BY <1>1, <1>4
  <2>2. limb = x - y - c + Base
    BY <1>1, <2>1, DivisionIs
  <2>3. borrow * Base = Base
    BY <1>1, <1>2, <1>4
  <2> HIDE DEF limb, borrow
  <2>4. limb \in Limb /\ limb - borrow * Base = x - y - c
    BY <1>1, <1>4, <2>1, <2>2, <2>3 DEF Limb
  <2> QED
    BY <1>2, <2>4 DEF SubtractLimbs, limb, borrow
<1> QED
  BY <1>1, <1>3, <1>4

(* A limb put on top of n others counts at its place. *)
LEMMA LowAppend ==
  ASSUME NEW s \in Limbs, NEW x \in Limb
  PROVE  /\ Append(s, x) \in Limbs /\ Len(Append(s, x)) = Len(s) + 1
         /\ Low(Append(s, x), Len(s)) = Low(s, Len(s))
         /\ Low(Append(s, x), Len(s) + 1) = Low(s, Len(s)) + x * Weight(Len(s))
<1> DEFINE t == Append(s, x)
<1>1. t \in Limbs /\ Len(t) = Len(s) + 1 /\ (\A i \in 1 .. Len(s) : t[i] = s[i])
      /\ t[Len(s) + 1] = x
  BY AppendProperties DEF Limbs
<1> HIDE DEF t
<1>2. Len(s) \in Nat
  BY LimbAtPlace
<1>3. Agree(t, s, Len(s)) /\ LimbAt(t, Len(s) + 1) = x
  BY <1>1, <1>2, LimbAtPlace DEF Agree
<1>4. Low(t, Len(s)) = Low(s, Len(s))
  BY <1>1, <1>2, <1>3, LowSame
<1>5. Low(t, Len(s) + 1) = Low(t, Len(s)) + LimbAt(t, Len(s) + 1) * Weight(Len(s))
  BY <1>1, <1>2, LowFacts
<1> QED
  BY <1>1, <1>3, <1>4, <1>5 DEF t

(* The value of some limbs is a number. *)
LEMMA LowType ==
  ASSUME NEW s \in Limbs, NEW n \in Nat
  PROVE  Low(s, n) \in Nat
BY LowFacts

(* One place more: what it adds and carries is what the places add up to. *)
PlaceSum(limb, next, x, y, carry) == limb + next * Base = (x + y) + carry
Sums(low, carry, w, la, lb) == low + carry * w = la + lb

(* A place that adds up carries the sum one place further. *)
LEMMA PlacesAdd ==
  ASSUME NEW low \in Int, NEW carry \in Int, NEW w \in Int, NEW la \in Int, NEW lb \in Int,
         Sums(low, carry, w, la, lb),
         NEW limb \in Int, NEW next \in Int, NEW x \in Int, NEW y \in Int,
         PlaceSum(limb, next, x, y, carry)
  PROVE  Sums(low + limb * w, next, Base * w, la + x * w, lb + y * w)
<1>1. Base \in Int
  BY BaseFacts
<1>2. (limb + next * Base) * w = ((x + y) + carry) * w
  BY Zenon DEF PlaceSum
<1>3. /\ (limb + next * Base) * w = limb * w + next * (Base * w)
      /\ ((x + y) + carry) * w = x * w + y * w + carry * w
  BY <1>1
<1>4. /\ limb * w \in Int /\ next * (Base * w) \in Int
      /\ x * w \in Int /\ y * w \in Int /\ carry * w \in Int
  BY <1>1
<1> QED
  BY <1>2, <1>3, <1>4 DEF Sums

(* And what it leaves and borrows is what they differ by. *)
PlaceDifference(limb, next, x, y, borrow) == limb - next * Base = (x - y) - borrow
Differs(low, borrow, w, la, lb) == low + lb = la + borrow * w

(* A place that borrows carries the difference one place further. *)
LEMMA PlacesSubtract ==
  ASSUME NEW low \in Int, NEW borrow \in Int, NEW w \in Int, NEW la \in Int, NEW lb \in Int,
         Differs(low, borrow, w, la, lb),
         NEW limb \in Int, NEW next \in Int, NEW x \in Int, NEW y \in Int,
         PlaceDifference(limb, next, x, y, borrow)
  PROVE  Differs(low + limb * w, next, Base * w, la + x * w, lb + y * w)
<1>1. Base \in Int
  BY BaseFacts
<1>2. (limb - next * Base) * w = ((x - y) - borrow) * w
  BY Zenon DEF PlaceDifference
<1>3. /\ (limb - next * Base) * w = limb * w - next * (Base * w)
      /\ ((x - y) - borrow) * w = (x * w - y * w) - borrow * w
  BY <1>1
<1>4. /\ limb * w \in Int /\ next * (Base * w) \in Int
      /\ x * w \in Int /\ y * w \in Int /\ borrow * w \in Int
  BY <1>1
<1> QED
  BY <1>2, <1>3, <1>4 DEF Differs

(* A turn of the sum of a and b. *)
Carrying == [limbs : Limbs, carry : 0 .. 1]
SumTurn(a, b, state, i) ==
  LET next == AddLimbs(LimbAt(a, i), LimbAt(b, i), state.carry)
  IN  [limbs |-> Append(state.limbs, next.limb), carry |-> next.carry]

(* f is what the loop of the sum has come to after i turns. *)
SumCourse(f, n, a, b) ==
  f = [i \in 0 .. n |-> IF i = 0 THEN [limbs |-> <<>>, carry |-> 0] ELSE SumTurn(a, b, f[i - 1], i)]

(* The sum is the limbs and the carry its loop ends with. *)
LEMMA SumOnUnfolded ==
  ASSUME NEW n, NEW a, NEW b
  PROVE  SumOn(n, a, b) = Append((CHOOSE f : SumCourse(f, n, a, b))[n].limbs, (CHOOSE f : SumCourse(f, n, a, b))[n].carry)
  BY Zenon DEF SumOn, SumTurn, Loop, SumCourse

(* It stays within its type, turn by turn. *)
LEMMA SumLoop ==
  ASSUME NEW n \in Nat,
         NEW a \in Limbs,
         NEW b \in Limbs
  PROVE  \E f \in [0 .. n -> Carrying] :
           /\ f[0] = [limbs |-> <<>>, carry |-> 0]
           /\ \A i \in 1 .. n : f[i] = SumTurn(a, b, f[i - 1], i)
           /\ SumOn(n, a, b) = Append(f[n].limbs, f[n].carry)
<1>1. n \in Nat /\ [limbs |-> <<>>, carry |-> 0] \in Carrying
  BY DEF Carrying, Limbs
<1> DEFINE T == [i \in 1 .. n |-> [r \in Carrying |-> SumTurn(a, b, r, i)]]
<1>2. ASSUME NEW i \in 1 .. n, NEW r \in Carrying PROVE SumTurn(a, b, r, i) \in Carrying
  <2>1. LimbAt(a, i) \in Limb /\ LimbAt(b, i) \in Limb
    BY LimbAtType
  <2>2. r.carry \in 0 .. 1 /\ r.limbs \in Limbs
    BY DEF Carrying
  <2> DEFINE next == AddLimbs(LimbAt(a, i), LimbAt(b, i), r.carry)
  <2>3. next.limb \in Limb /\ next.carry \in 0 .. 1
    BY <2>1, <2>2, AddLimbsExact
  <2>4. Append(r.limbs, next.limb) \in Limbs
    BY <2>2, <2>3, LowAppend
  <2> HIDE DEF next
  <2>5. SumTurn(a, b, r, i) = [limbs |-> Append(r.limbs, next.limb), carry |-> next.carry]
    BY Zenon DEF SumTurn, next
  <2> QED
    BY <2>3, <2>4, <2>5 DEF Carrying
<1>3. T \in Turns(n, Carrying)
  BY <1>2 DEF Turns
<1>4. \A i \in 1 .. n, r \in Carrying : T[i][r] = SumTurn(a, b, r, i)
  OBVIOUS
<1> HIDE DEF T
<1>5. PICK f : Course(f, n, Carrying, [limbs |-> <<>>, carry |-> 0], T)
  BY <1>1, <1>3, Iterates
<1>6. f \in [0 .. n -> Carrying] /\ f[0] = [limbs |-> <<>>, carry |-> 0] /\ \A i \in 1 .. n : f[i] = T[i][f[i - 1]]
  BY <1>5 DEF Course
<1>7. \A i \in 0 .. n : i # 0 => i \in 1 .. n /\ i - 1 \in 0 .. n
  BY <1>1
<1>8. \A i \in 0 .. n : f[i] = IF i = 0 THEN [limbs |-> <<>>, carry |-> 0] ELSE SumTurn(a, b, f[i - 1], i)
  <2> SUFFICES ASSUME NEW i \in 0 .. n, i # 0 PROVE f[i] = SumTurn(a, b, f[i - 1], i)
    BY <1>6, Zenon
  <2>1. i \in 1 .. n /\ f[i - 1] \in Carrying
    BY <1>6, <1>7
  <2> QED
    BY <1>4, <1>6, <2>1, Zenon
<1>9. f = [i \in 0 .. n |-> IF i = 0 THEN [limbs |-> <<>>, carry |-> 0] ELSE SumTurn(a, b, f[i - 1], i)]
  <2>1. f = [i \in 0 .. n |-> f[i]]
    BY <1>6
  <2> QED
    BY <1>8, <2>1, Zenon
<1>10. SumCourse(f, n, a, b)
  BY <1>9, Zenon DEF SumCourse
<1>11. PICK g : g = CHOOSE h : SumCourse(h, n, a, b)
  OBVIOUS
<1>12. SumCourse(g, n, a, b) /\ SumOn(n, a, b) = Append(g[n].limbs, g[n].carry)
  BY <1>10, <1>11, SumOnUnfolded, Zenon
<1>13. g = [i \in 0 .. n |-> IF i = 0 THEN [limbs |-> <<>>, carry |-> 0] ELSE SumTurn(a, b, g[i - 1], i)]
  BY <1>12, Zenon DEF SumCourse
<1>14. \A i \in 0 .. n : g[i] = IF i = 0 THEN [limbs |-> <<>>, carry |-> 0] ELSE SumTurn(a, b, g[i - 1], i)
  BY <1>13, Zenon
<1>15. g = [i \in 0 .. n |-> g[i]]
  BY <1>13, <1>14, Zenon
<1>16. g[0] = [limbs |-> <<>>, carry |-> 0] /\ \A i \in 1 .. n : g[i] = SumTurn(a, b, g[i - 1], i)
  <2>1. 0 \in 0 .. n /\ \A i \in 1 .. n : i \in 0 .. n /\ i # 0
    BY <1>1
  <2> QED
    BY <1>14, <2>1, Zenon
<1>17. \A i \in 1 .. n : g[i - 1] \in Carrying => g[i] = T[i][g[i - 1]]
  BY <1>4, <1>16, Zenon
<1>18. Course(g, n, Carrying, [limbs |-> <<>>, carry |-> 0], T)
  BY <1>1, <1>3, <1>15, <1>16, <1>17, RunsItsCourse
<1>19. g \in [0 .. n -> Carrying]
  BY <1>18 DEF Course
<1> QED
  BY <1>12, <1>16, <1>19

(* The limbs of a sum and its carry are exact. *)
LEMMA SumExact ==
  ASSUME NEW n \in Nat, NEW a \in Limbs, NEW b \in Limbs
  PROVE  /\ SumOn(n, a, b) \in Limbs
         /\ Len(SumOn(n, a, b)) = n + 1
         /\ SumOn(n, a, b)[n + 1] \in 0 .. 1
         /\ Low(SumOn(n, a, b), n + 1) = Low(a, n) + Low(b, n)
         /\ Low(SumOn(n, a, b), n) + SumOn(n, a, b)[n + 1] * Weight(n) = Low(a, n) + Low(b, n)
<1>1. PICK f \in [0 .. n -> Carrying] :
        /\ f[0] = [limbs |-> <<>>, carry |-> 0]
        /\ \A i \in 1 .. n : f[i] = SumTurn(a, b, f[i - 1], i)
        /\ SumOn(n, a, b) = Append(f[n].limbs, f[n].carry)
  BY SumLoop
<1>2. \A k \in 0 .. n : f[k].limbs \in Limbs /\ f[k].carry \in 0 .. 1
  BY <1>1 DEF Carrying
<1> DEFINE C == {k \in 0 .. n : /\ Len(f[k].limbs) = k
                               /\ Low(f[k].limbs, k) + f[k].carry * Weight(k) = Low(a, k) + Low(b, k)}
<1>3. 0 \in C
  <2>1. f[0].limbs = <<>> /\ f[0].carry = 0 /\ <<>> \in Limbs
    BY <1>1 DEF Limbs
  <2>2. Low(<<>>, 0) = 0 /\ Low(a, 0) = 0 /\ Low(b, 0) = 0
    BY <2>1, LowFacts
  <2>3. 0 * Weight(0) = 0
    BY WeightFacts
  <2>4. Len(<<>>) = 0
    OBVIOUS
  <2> QED
    BY <2>1, <2>2, <2>3, <2>4
<1>4. ASSUME NEW k \in 0 .. n - 1, k \in C PROVE k + 1 \in C
  <2>1. k \in 0 .. n /\ k + 1 \in 1 .. n /\ k + 1 \in 0 .. n /\ (k + 1) - 1 = k /\ k \in Nat
    OBVIOUS
  <2>2. PICK l \in Limbs : l = f[k].limbs
    BY <1>2, <2>1
  <2>3. PICK c \in 0 .. 1 : c = f[k].carry
    BY <1>2, <2>1
  <2>4. Len(l) = k /\ Low(l, k) + c * Weight(k) = Low(a, k) + Low(b, k)
    BY <1>4, <2>2, <2>3
  <2>5. f[k + 1] = SumTurn(a, b, f[k], k + 1)
    BY <1>1, <2>1
  <2> HIDE DEF C
  <2>6. PICK x \in Limb : x = LimbAt(a, k + 1)
    BY <2>1, LimbAtType
  <2>7. PICK y \in Limb : y = LimbAt(b, k + 1)
    BY <2>1, LimbAtType
  <2> DEFINE next == AddLimbs(x, y, c)
  <2>8. next.limb \in Limb /\ next.carry \in 0 .. 1 /\ next.limb + next.carry * Base = x + y + c
    BY AddLimbsExact
  <2>9. f[k + 1] = [limbs |-> Append(l, next.limb), carry |-> next.carry]
    BY <2>2, <2>3, <2>5, <2>6, <2>7, Zenon DEF SumTurn
  <2> HIDE DEF next
  <2>10. PICK limb \in Limb : limb = next.limb
    BY <2>8
  <2>11. PICK d \in 0 .. 1 : d = next.carry
    BY <2>8
  <2>12. f[k + 1].limbs = Append(l, limb) /\ f[k + 1].carry = d /\ limb + d * Base = x + y + c
    BY <2>8, <2>9, <2>10, <2>11
  <2>13. Len(Append(l, limb)) = k + 1
         /\ Low(Append(l, limb), k + 1) = Low(l, k) + limb * Weight(k)
    BY <2>4, LowAppend
  <2>14. /\ Low(a, k + 1) = Low(a, k) + x * Weight(k)
         /\ Low(b, k + 1) = Low(b, k) + y * Weight(k)
    BY <2>1, <2>6, <2>7, LowFacts
  <2>15. Weight(k + 1) = Base * Weight(k) /\ Weight(k) \in Nat /\ Base \in Nat
    BY <2>1, WeightFacts, BaseFacts
  <2>16. Low(l, k) \in Nat /\ Low(a, k) \in Nat /\ Low(b, k) \in Nat
    BY <2>1, LowType
  <2>17. x \in Int /\ y \in Int /\ limb \in Int /\ c \in Int /\ d \in Int
    BY <2>15 DEF Limb
  <2>18. Sums(Low(l, k) + limb * Weight(k), d, Base * Weight(k),
              Low(a, k) + x * Weight(k), Low(b, k) + y * Weight(k))
    <3>1. /\ Weight(k) \in Int /\ Low(l, k) \in Int /\ Low(a, k) \in Int /\ Low(b, k) \in Int
      BY <2>15, <2>16
    <3>2. Sums(Low(l, k), c, Weight(k), Low(a, k), Low(b, k)) /\ PlaceSum(limb, d, x, y, c)
      BY <2>4, <2>12, Zenon DEF Sums, PlaceSum
    <3> QED
      BY <2>17, <3>1, <3>2, PlacesAdd
  <2>19. Low(Append(l, limb), k + 1) + d * Weight(k + 1) = Low(a, k + 1) + Low(b, k + 1)
    BY <2>13, <2>14, <2>15, <2>18, Zenon DEF Sums
  <2> QED
    BY <2>1, <2>12, <2>13, <2>19 DEF C
<1>5. \A k \in 0 .. n : k \in C
  <2> HIDE DEF C
  <2> QED
    BY <1>3, <1>4, Induction
<1>6. Len(f[n].limbs) = n
      /\ Low(f[n].limbs, n) + f[n].carry * Weight(n) = Low(a, n) + Low(b, n)
  BY <1>5
<1>7. f[n].limbs \in Limbs /\ f[n].carry \in 0 .. 1 /\ f[n].carry \in Limb
  BY <1>2, BaseFacts DEF Limb
<1> DEFINE s == SumOn(n, a, b)
<1>8. s = Append(f[n].limbs, f[n].carry)
  BY <1>1
<1> HIDE DEF s, C
<1>9. s \in Limbs /\ Len(s) = n + 1 /\ Low(s, n) = Low(f[n].limbs, n)
      /\ Low(s, n + 1) = Low(f[n].limbs, n) + f[n].carry * Weight(n)
  BY <1>6, <1>7, <1>8, LowAppend
<1>10. s[n + 1] = f[n].carry
  BY <1>6, <1>7, <1>8, AppendProperties DEF Limbs
<1> QED
  BY <1>6, <1>7, <1>9, <1>10 DEF s

(* A turn of the difference of a and b. *)
Borrowing == [limbs : Limbs, borrow : 0 .. 1]
DifferenceTurn(a, b, state, i) ==
  LET next == SubtractLimbs(LimbAt(a, i), LimbAt(b, i), state.borrow)
  IN  [limbs |-> Append(state.limbs, next.limb), borrow |-> next.borrow]

(* f is what the loop of the difference has come to after i turns. *)
DifferenceCourse(f, n, a, b) ==
  f = [i \in 0 .. n |-> IF i = 0 THEN [limbs |-> <<>>, borrow |-> 0] ELSE DifferenceTurn(a, b, f[i - 1], i)]

(* The difference is what its loop ends with. *)
LEMMA DifferenceUnfolded ==
  ASSUME NEW n, NEW a, NEW b
  PROVE  DifferenceOn(n, a, b) = (CHOOSE f : DifferenceCourse(f, n, a, b))[n]
  BY Zenon DEF DifferenceOn, DifferenceTurn, Loop, DifferenceCourse

(* It stays within its type, turn by turn. *)
LEMMA DifferenceLoop ==
  ASSUME NEW n \in Nat,
         NEW a \in Limbs,
         NEW b \in Limbs
  PROVE  \E f \in [0 .. n -> Borrowing] :
           /\ f[0] = [limbs |-> <<>>, borrow |-> 0]
           /\ \A i \in 1 .. n : f[i] = DifferenceTurn(a, b, f[i - 1], i)
           /\ DifferenceOn(n, a, b) = f[n]
<1>1. n \in Nat /\ [limbs |-> <<>>, borrow |-> 0] \in Borrowing
  BY DEF Borrowing, Limbs
<1> DEFINE T == [i \in 1 .. n |-> [r \in Borrowing |-> DifferenceTurn(a, b, r, i)]]
<1>2. ASSUME NEW i \in 1 .. n, NEW r \in Borrowing PROVE DifferenceTurn(a, b, r, i) \in Borrowing
  <2>1. LimbAt(a, i) \in Limb /\ LimbAt(b, i) \in Limb
    BY LimbAtType
  <2>2. r.borrow \in 0 .. 1 /\ r.limbs \in Limbs
    BY DEF Borrowing
  <2> DEFINE next == SubtractLimbs(LimbAt(a, i), LimbAt(b, i), r.borrow)
  <2>3. next.limb \in Limb /\ next.borrow \in 0 .. 1
    BY <2>1, <2>2, SubtractLimbsExact
  <2>4. Append(r.limbs, next.limb) \in Limbs
    BY <2>2, <2>3, LowAppend
  <2> HIDE DEF next
  <2>5. DifferenceTurn(a, b, r, i) = [limbs |-> Append(r.limbs, next.limb), borrow |-> next.borrow]
    BY Zenon DEF DifferenceTurn, next
  <2> QED
    BY <2>3, <2>4, <2>5 DEF Borrowing
<1>3. T \in Turns(n, Borrowing)
  BY <1>2 DEF Turns
<1>4. \A i \in 1 .. n, r \in Borrowing : T[i][r] = DifferenceTurn(a, b, r, i)
  OBVIOUS
<1> HIDE DEF T
<1>5. PICK f : Course(f, n, Borrowing, [limbs |-> <<>>, borrow |-> 0], T)
  BY <1>1, <1>3, Iterates
<1>6. f \in [0 .. n -> Borrowing] /\ f[0] = [limbs |-> <<>>, borrow |-> 0] /\ \A i \in 1 .. n : f[i] = T[i][f[i - 1]]
  BY <1>5 DEF Course
<1>7. \A i \in 0 .. n : i # 0 => i \in 1 .. n /\ i - 1 \in 0 .. n
  BY <1>1
<1>8. \A i \in 0 .. n : f[i] = IF i = 0 THEN [limbs |-> <<>>, borrow |-> 0] ELSE DifferenceTurn(a, b, f[i - 1], i)
  <2> SUFFICES ASSUME NEW i \in 0 .. n, i # 0 PROVE f[i] = DifferenceTurn(a, b, f[i - 1], i)
    BY <1>6, Zenon
  <2>1. i \in 1 .. n /\ f[i - 1] \in Borrowing
    BY <1>6, <1>7
  <2> QED
    BY <1>4, <1>6, <2>1, Zenon
<1>9. f = [i \in 0 .. n |-> IF i = 0 THEN [limbs |-> <<>>, borrow |-> 0] ELSE DifferenceTurn(a, b, f[i - 1], i)]
  <2>1. f = [i \in 0 .. n |-> f[i]]
    BY <1>6
  <2> QED
    BY <1>8, <2>1, Zenon
<1>10. DifferenceCourse(f, n, a, b)
  BY <1>9, Zenon DEF DifferenceCourse
<1>11. PICK g : g = CHOOSE h : DifferenceCourse(h, n, a, b)
  OBVIOUS
<1>12. DifferenceCourse(g, n, a, b) /\ DifferenceOn(n, a, b) = g[n]
  BY <1>10, <1>11, DifferenceUnfolded, Zenon
<1>13. g = [i \in 0 .. n |-> IF i = 0 THEN [limbs |-> <<>>, borrow |-> 0] ELSE DifferenceTurn(a, b, g[i - 1], i)]
  BY <1>12, Zenon DEF DifferenceCourse
<1>14. \A i \in 0 .. n : g[i] = IF i = 0 THEN [limbs |-> <<>>, borrow |-> 0] ELSE DifferenceTurn(a, b, g[i - 1], i)
  BY <1>13, Zenon
<1>15. g = [i \in 0 .. n |-> g[i]]
  BY <1>13, <1>14, Zenon
<1>16. g[0] = [limbs |-> <<>>, borrow |-> 0] /\ \A i \in 1 .. n : g[i] = DifferenceTurn(a, b, g[i - 1], i)
  <2>1. 0 \in 0 .. n /\ \A i \in 1 .. n : i \in 0 .. n /\ i # 0
    BY <1>1
  <2> QED
    BY <1>14, <2>1, Zenon
<1>17. \A i \in 1 .. n : g[i - 1] \in Borrowing => g[i] = T[i][g[i - 1]]
  BY <1>4, <1>16, Zenon
<1>18. Course(g, n, Borrowing, [limbs |-> <<>>, borrow |-> 0], T)
  BY <1>1, <1>3, <1>15, <1>16, <1>17, RunsItsCourse
<1>19. g \in [0 .. n -> Borrowing]
  BY <1>18 DEF Course
<1> QED
  BY <1>12, <1>16, <1>19

(* The limbs of a difference and its borrow are exact. *)
LEMMA DifferenceExact ==
  ASSUME NEW n \in Nat, NEW a \in Limbs, NEW b \in Limbs
  PROVE  LET d == DifferenceOn(n, a, b)
         IN  /\ d.limbs \in Limbs /\ Len(d.limbs) = n
             /\ d.borrow \in 0 .. 1
             /\ Low(d.limbs, n) + Low(b, n) = Low(a, n) + d.borrow * Weight(n)
<1>1. PICK f \in [0 .. n -> Borrowing] :
        /\ f[0] = [limbs |-> <<>>, borrow |-> 0]
        /\ \A i \in 1 .. n : f[i] = DifferenceTurn(a, b, f[i - 1], i)
        /\ DifferenceOn(n, a, b) = f[n]
  BY DifferenceLoop
<1>2. \A k \in 0 .. n : f[k].limbs \in Limbs /\ f[k].borrow \in 0 .. 1
  BY <1>1 DEF Borrowing
<1> DEFINE C == {k \in 0 .. n : /\ Len(f[k].limbs) = k
                               /\ Low(f[k].limbs, k) + Low(b, k) = Low(a, k) + f[k].borrow * Weight(k)}
<1>3. 0 \in C
  <2>1. f[0].limbs = <<>> /\ f[0].borrow = 0 /\ <<>> \in Limbs
    BY <1>1 DEF Limbs
  <2>2. Low(<<>>, 0) = 0 /\ Low(a, 0) = 0 /\ Low(b, 0) = 0
    BY <2>1, LowFacts
  <2>3. 0 * Weight(0) = 0
    BY WeightFacts
  <2>4. Len(<<>>) = 0
    OBVIOUS
  <2> QED
    BY <2>1, <2>2, <2>3, <2>4
<1>4. ASSUME NEW k \in 0 .. n - 1, k \in C PROVE k + 1 \in C
  <2>1. k \in 0 .. n /\ k + 1 \in 1 .. n /\ k + 1 \in 0 .. n /\ (k + 1) - 1 = k /\ k \in Nat
    OBVIOUS
  <2>2. PICK l \in Limbs : l = f[k].limbs
    BY <1>2, <2>1
  <2>3. PICK c \in 0 .. 1 : c = f[k].borrow
    BY <1>2, <2>1
  <2>4. Len(l) = k /\ Low(l, k) + Low(b, k) = Low(a, k) + c * Weight(k)
    BY <1>4, <2>2, <2>3
  <2>5. f[k + 1] = DifferenceTurn(a, b, f[k], k + 1)
    BY <1>1, <2>1
  <2> HIDE DEF C
  <2>6. PICK x \in Limb : x = LimbAt(a, k + 1)
    BY <2>1, LimbAtType
  <2>7. PICK y \in Limb : y = LimbAt(b, k + 1)
    BY <2>1, LimbAtType
  <2> DEFINE next == SubtractLimbs(x, y, c)
  <2>8. next.limb \in Limb /\ next.borrow \in 0 .. 1 /\ next.limb - next.borrow * Base = x - y - c
    BY SubtractLimbsExact
  <2>9. f[k + 1] = [limbs |-> Append(l, next.limb), borrow |-> next.borrow]
    BY <2>2, <2>3, <2>5, <2>6, <2>7, Zenon DEF DifferenceTurn
  <2> HIDE DEF next
  <2>10. PICK limb \in Limb : limb = next.limb
    BY <2>8
  <2>11. PICK d \in 0 .. 1 : d = next.borrow
    BY <2>8
  <2>12. f[k + 1].limbs = Append(l, limb) /\ f[k + 1].borrow = d /\ limb - d * Base = x - y - c
    BY <2>8, <2>9, <2>10, <2>11
  <2>13. Len(Append(l, limb)) = k + 1
         /\ Low(Append(l, limb), k + 1) = Low(l, k) + limb * Weight(k)
    BY <2>4, LowAppend
  <2>14. /\ Low(a, k + 1) = Low(a, k) + x * Weight(k)
         /\ Low(b, k + 1) = Low(b, k) + y * Weight(k)
    BY <2>1, <2>6, <2>7, LowFacts
  <2>15. Weight(k + 1) = Base * Weight(k) /\ Weight(k) \in Nat /\ Base \in Nat
    BY <2>1, WeightFacts, BaseFacts
  <2>16. Low(l, k) \in Nat /\ Low(a, k) \in Nat /\ Low(b, k) \in Nat
    BY <2>1, LowType
  <2>17. x \in Int /\ y \in Int /\ limb \in Int /\ c \in Int /\ d \in Int
    BY <2>15 DEF Limb
  <2>18. Differs(Low(l, k) + limb * Weight(k), d, Base * Weight(k),
              Low(a, k) + x * Weight(k), Low(b, k) + y * Weight(k))
    <3>1. /\ Weight(k) \in Int /\ Low(l, k) \in Int /\ Low(a, k) \in Int /\ Low(b, k) \in Int
      BY <2>15, <2>16
    <3>2. Differs(Low(l, k), c, Weight(k), Low(a, k), Low(b, k)) /\ PlaceDifference(limb, d, x, y, c)
      BY <2>4, <2>12, Zenon DEF Differs, PlaceDifference
    <3> QED
      BY <2>17, <3>1, <3>2, PlacesSubtract
  <2>19. Low(Append(l, limb), k + 1) + Low(b, k + 1) = Low(a, k + 1) + d * Weight(k + 1)
    BY <2>13, <2>14, <2>15, <2>18, Zenon DEF Differs
  <2> QED
    BY <2>1, <2>12, <2>13, <2>19 DEF C
<1>5. \A k \in 0 .. n : k \in C
  <2> HIDE DEF C
  <2> QED
    BY <1>3, <1>4, Induction
<1>6. Len(f[n].limbs) = n
      /\ Low(f[n].limbs, n) + Low(b, n) = Low(a, n) + f[n].borrow * Weight(n)
  BY <1>5
<1>7. f[n] \in Borrowing /\ DifferenceOn(n, a, b) = f[n]
  BY <1>1
<1> HIDE DEF C
<1>8. f[n].limbs \in Limbs /\ f[n].borrow \in 0 .. 1
  BY <1>2
<1> QED
  BY <1>6, <1>7, <1>8
-----------------------------------------------------------------------------
(* Numbers and their signs *)

Trim(s) == s \in Limbs /\ s = Trimmed(s)
Numbers == {v \in [negative : BOOLEAN, limbs : Limbs] : Canonical(v) /\ Size(v) <= MaxLimbs}

(* What is trimmed is trimmed. *)
LEMMA TrimmedTwice ==
  ASSUME NEW s \in Limbs
  PROVE  Trim(Trimmed(s))
<1> DEFINE t == Trimmed(s)
           u == Trimmed(t)
<1>1. t \in Limbs /\ (t # <<>> => t[Len(t)] # 0)
  BY TrimmedFacts
<1> HIDE DEF t
<1>2. /\ u \in Limbs /\ Len(u) \in 0 .. Len(t)
      /\ \A i \in 1 .. Len(u) : u[i] = t[i]
      /\ \A i \in Len(u) + 1 .. Len(t) : t[i] = 0
  BY <1>1, TrimmedFacts
<1> HIDE DEF u
<1>3. Len(t) \in Nat /\ (t = <<>> <=> Len(t) = 0)
  BY <1>1, EmptySeq, LenProperties DEF Limbs
<1>4. Len(u) = Len(t)
  <2>1. CASE t = <<>>
    BY <1>2, <1>3, <2>1
  <2>2. CASE t # <<>>
    <3> SUFFICES ASSUME Len(u) # Len(t) PROVE FALSE
      OBVIOUS
    <3>1. Len(t) \in Len(u) + 1 .. Len(t)
      BY <1>2, <1>3
    <3> QED
      BY <1>1, <1>2, <2>2, <3>1
  <2> QED
    BY <2>1, <2>2
<1>5. u = t
  <2>1. u \in Seq(Limb) /\ t \in Seq(Limb)
    BY <1>1, <1>2 DEF Limbs
  <2> QED
    BY <1>2, <1>4, <2>1, SeqEqual
<1> QED
  BY <1>1, <1>5 DEF Trim, t, u

(* The limbs of a number. *)
LEMMA NumberShape ==
  ASSUME NEW v \in Numbers
  PROVE  /\ v.negative \in BOOLEAN /\ Trim(v.limbs) /\ v.limbs \in Limbs
         /\ v = [negative |-> v.negative, limbs |-> v.limbs]
         /\ v.limbs = <<>> => ~v.negative
         /\ Len(v.limbs) \in Nat /\ Len(v.limbs) <= MaxLimbs
<1>1. /\ v.negative \in BOOLEAN /\ v.limbs \in Limbs /\ v.limbs = Trimmed(v.limbs)
      /\ v = [negative |-> v.negative, limbs |-> v.limbs]
      /\ v.limbs = <<>> => ~v.negative
      /\ Len(v.limbs) <= MaxLimbs
  BY DEF Numbers, Canonical, Size
<1>2. Len(v.limbs) \in Nat
  BY <1>1, LimbAtPlace
<1> QED
  BY <1>1, <1>2 DEF Trim

(* The top limb of a trimmed magnitude is not zero. *)
LEMMA TrimTop ==
  ASSUME NEW s, Trim(s), s # <<>>
  PROVE  Len(s) \in Nat /\ Len(s) >= 1 /\ s[Len(s)] # 0 /\ LimbAt(s, Len(s)) # 0
<1>1. s \in Limbs /\ s = Trimmed(s)
  BY DEF Trim
<1>2. s[Len(s)] # 0
  BY <1>1, TrimmedFacts, Zenon
<1>3. Len(s) \in Nat /\ Len(s) # 0
  BY <1>1, EmptySeq, LenProperties DEF Limbs
<1> QED
  BY <1>1, <1>2, <1>3, LimbAtPlace

(* No place counts less than one below it. *)
LEMMA WeightMonotone ==
  ASSUME NEW m \in Nat, NEW n \in Nat, m <= n
  PROVE  Weight(m) <= Weight(n)
<1>1. n - m \in Nat /\ m + (n - m) = n
  OBVIOUS
<1>2. Weight(n) = Weight(m) * Weight(n - m)
  BY <1>1, WeightsMultiply
<1>3. Weight(m) \in Nat /\ Weight(n - m) \in Nat /\ Weight(n - m) >= 1
  BY <1>1, WeightFacts
<1>4. 1 * Weight(m) <= Weight(n - m) * Weight(m)
  BY <1>3, TimesMonotone
<1> QED
  BY <1>2, <1>3, <1>4

(* A magnitude lies between the places of its top limb and the one above. *)
LEMMA TrimBounds ==
  ASSUME NEW s, Trim(s)
  PROVE  /\ MagnitudeOf(s) = Low(s, Len(s)) /\ MagnitudeOf(s) \in Nat
         /\ Len(s) \in Nat
         /\ MagnitudeOf(s) < Weight(Len(s))
         /\ s = <<>> => MagnitudeOf(s) = 0
         /\ s # <<>> => Len(s) - 1 \in Nat /\ MagnitudeOf(s) >= Weight(Len(s) - 1)
                        /\ MagnitudeOf(s) >= 1
<1>1. s \in Limbs /\ Len(s) \in Nat
  BY LimbAtPlace DEF Trim
<1>2. MagnitudeOf(s) = Low(s, Len(s)) /\ Low(s, Len(s)) \in Nat
  BY <1>1, MagnitudeIsLow, LowType
<1>3. Low(s, Len(s)) < Weight(Len(s))
  BY <1>1, LowBounded
<1>4. CASE s = <<>>
  <2>1. Len(s) = 0
    BY <1>4
  <2>2. Low(s, 0) = 0
    BY <1>1, LowFacts
  <2> QED
    BY <1>1, <1>2, <1>3, <1>4, <2>1, <2>2
<1>5. CASE s # <<>>
  <2>1. Len(s) - 1 \in Nat /\ (Len(s) - 1) + 1 = Len(s) /\ LimbAt(s, Len(s)) # 0
    BY <1>5, TrimTop
  <2>2. Low(s, (Len(s) - 1) + 1) >= Weight(Len(s) - 1)
    BY <1>1, <2>1, LowLeading
  <2>3. Weight(Len(s) - 1) \in Nat /\ Weight(Len(s) - 1) >= 1
    BY <2>1, WeightFacts
  <2> QED
    BY <1>1, <1>2, <1>3, <1>5, <2>1, <2>2, <2>3
<1> QED
  BY <1>4, <1>5

(* Zeros above a magnitude add nothing. *)
LEMMA LowBeyond ==
  ASSUME NEW s \in Limbs, NEW n \in Nat, Len(s) <= n
  PROVE  Low(s, n) = Low(s, Len(s))
<1>1. Len(s) \in Nat /\ \A i \in Len(s) + 1 .. n : LimbAt(s, i) = 0
  BY LimbAtPlace
<1> QED
  BY <1>1, LowZeros

(* Limbs that agree above the lowest m differ by what those do. *)
LEMMA LowAgreeAbove ==
  ASSUME NEW s \in Limbs, NEW t \in Limbs, NEW m \in Nat, NEW n \in Nat, m <= n,
         \A i \in m + 1 .. n : LimbAt(s, i) = LimbAt(t, i)
  PROVE  Low(s, n) - Low(t, n) = Low(s, m) - Low(t, m)
<1> DEFINE C == {j \in 0 .. n - m : Low(s, m + j) - Low(t, m + j) = Low(s, m) - Low(t, m)}
<1>1. 0 \in C
  OBVIOUS
<1>2. ASSUME NEW j \in 0 .. (n - m) - 1, j \in C PROVE j + 1 \in C
  <2>1. /\ m + j \in Nat /\ (m + j) + 1 \in m + 1 .. n /\ (m + j) + 1 \in Int
        /\ m + (j + 1) = (m + j) + 1 /\ j + 1 \in 0 .. n - m
    OBVIOUS
  <2>2. Low(s, m + j) - Low(t, m + j) = Low(s, m) - Low(t, m)
    BY <1>2
  <2> HIDE DEF C
  <2>3. PICK x \in Nat : x = LimbAt(s, (m + j) + 1) /\ x = LimbAt(t, (m + j) + 1)
    BY <2>1, LimbAtType
  <2>4. /\ Low(s, (m + j) + 1) = Low(s, m + j) + x * Weight(m + j)
        /\ Low(t, (m + j) + 1) = Low(t, m + j) + x * Weight(m + j)
    BY <2>1, <2>3, LowFacts
  <2>5. Low(s, m + j) \in Nat /\ Low(t, m + j) \in Nat /\ Weight(m + j) \in Nat
    BY <2>1, LowType, WeightFacts
  <2>6. x * Weight(m + j) \in Int
    BY <2>5
  <2>7. Low(s, (m + j) + 1) - Low(t, (m + j) + 1) = Low(s, m) - Low(t, m)
    BY <2>2, <2>4, <2>5, <2>6
  <2> QED
    BY <2>1, <2>7 DEF C
<1>3. n - m \in Nat /\ m + (n - m) = n
  OBVIOUS
<1>4. \A j \in 0 .. n - m : j \in C
  <2> HIDE DEF C
  <2> QED
    BY <1>1, <1>2, <1>3, Induction
<1>5. n - m \in C
  BY <1>3, <1>4
<1> QED
  BY <1>3, <1>5

-----------------------------------------------------------------------------
(* Comparison *)

(* A larger limb outweighs whatever is below it. *)
LEMMA LaterPlace ==
  ASSUME NEW la \in Nat, NEW lb \in Nat, NEW w \in Nat, la < w, lb < w,
         NEW x \in Nat, NEW y \in Nat, x < y
  PROVE  la + x * w < lb + y * w
<1>1. (x + 1) * w <= y * w
  <2>1. x + 1 \in Int /\ y \in Int /\ x + 1 <= y
    OBVIOUS
  <2> QED
    BY <2>1, TimesMonotone
<1>2. (x + 1) * w = x * w + w /\ x * w \in Int /\ y * w \in Int
  OBVIOUS
<1> QED
  BY <1>1, <1>2

(* CompareAbs compares the values. *)
LEMMA CompareAbsExact ==
  ASSUME NEW a, NEW b, Trim(a), Trim(b)
  PROVE  \/ CompareAbs(a, b) = -1 /\ MagnitudeOf(a) < MagnitudeOf(b)
         \/ CompareAbs(a, b) = 0 /\ MagnitudeOf(a) = MagnitudeOf(b) /\ a = b
         \/ CompareAbs(a, b) = 1 /\ MagnitudeOf(a) > MagnitudeOf(b)
<1>1. a \in Limbs /\ b \in Limbs
  BY DEF Trim
<1>2. PICK m \in Nat : m = Len(a)
  BY <1>1, LimbAtPlace
<1>3. PICK n \in Nat : n = Len(b)
  BY <1>1, LimbAtPlace
<1>4. /\ MagnitudeOf(a) \in Nat /\ MagnitudeOf(b) \in Nat
      /\ MagnitudeOf(a) = Low(a, m) /\ MagnitudeOf(b) = Low(b, n)
      /\ MagnitudeOf(a) < Weight(m) /\ MagnitudeOf(b) < Weight(n)
  BY <1>2, <1>3, TrimBounds
<1>5. ASSUME m < n PROVE CompareAbs(a, b) = -1 /\ MagnitudeOf(a) < MagnitudeOf(b)
  <2>1. b # <<>> /\ n - 1 \in Nat /\ m <= n - 1
    BY <1>1, <1>3, <1>5, EmptySeq
  <2>2. Weight(m) <= Weight(n - 1) /\ MagnitudeOf(b) >= Weight(n - 1)
    BY <1>3, <2>1, WeightMonotone, TrimBounds
  <2>3. Weight(m) \in Nat /\ Weight(n - 1) \in Nat
    BY <2>1, WeightFacts
  <2>4. CompareAbs(a, b) = -1
    BY <1>2, <1>3, <1>5 DEF CompareAbs
  <2> QED
    BY <1>4, <2>2, <2>3, <2>4
<1>6. ASSUME n < m PROVE CompareAbs(a, b) = 1 /\ MagnitudeOf(a) > MagnitudeOf(b)
  <2>1. a # <<>> /\ m - 1 \in Nat /\ n <= m - 1
    BY <1>1, <1>2, <1>6, EmptySeq
  <2>2. Weight(n) <= Weight(m - 1) /\ MagnitudeOf(a) >= Weight(m - 1)
    BY <1>2, <2>1, WeightMonotone, TrimBounds
  <2>3. Weight(n) \in Nat /\ Weight(m - 1) \in Nat
    BY <2>1, WeightFacts
  <2>4. CompareAbs(a, b) = 1
    BY <1>2, <1>3, <1>6 DEF CompareAbs
  <2> QED
    BY <1>4, <2>2, <2>3, <2>4
<1>7. CASE m = n
  <2> DEFINE differ == {i \in DOMAIN a : LimbAt(b, i) # a[i]}
             top == CHOOSE i \in differ : \A j \in differ : j <= i
  <2>1. DOMAIN a = 1 .. n /\ (\A i \in 1 .. n : LimbAt(b, i) = b[i] /\ LimbAt(a, i) = a[i])
    BY <1>1, <1>2, <1>3, <1>7, LimbAtPlace, LenProperties DEF Limbs
  <2>2. CASE differ = {}
    <3>1. \A i \in 1 .. n : a[i] = b[i]
      BY <2>1, <2>2
    <3>2. a \in Seq(Limb) /\ b \in Seq(Limb) /\ Len(a) = Len(b)
      BY <1>1, <1>2, <1>3, <1>7 DEF Limbs
    <3>3. a = b
      BY <1>2, <1>7, <3>1, <3>2, SeqEqual
    <3>4. CompareAbs(a, b) = 0
      BY <2>2, <3>2 DEF CompareAbs
    <3> QED
      BY <3>3, <3>4
  <2>3. CASE differ # {}
    <3>1. differ \subseteq 1 .. n
      BY <2>1
    <3>2. top \in differ /\ \A j \in differ : j <= top
      <4> HIDE DEF differ
      <4> QED
        BY <2>3, <3>1, Largest
    <3>3. CompareAbs(a, b) = IF a[top] < b[top] THEN -1 ELSE 1
      BY <1>2, <1>3, <1>7, <2>3, Zenon DEF CompareAbs
    <3> HIDE DEF top
    <3>4. PICK k \in Nat : k + 1 = top /\ k + 1 <= n
      <4>1. top \in 1 .. n /\ top - 1 \in Nat /\ (top - 1) + 1 = top
        BY <3>1, <3>2
      <4> QED
        BY <4>1
    <3>5. \A i \in (k + 1) + 1 .. n : LimbAt(a, i) = LimbAt(b, i)
      <4> SUFFICES ASSUME NEW i \in (k + 1) + 1 .. n PROVE LimbAt(a, i) = LimbAt(b, i)
        OBVIOUS
      <4>1. i \in 1 .. n /\ ~(i <= top)
        BY <3>4
      <4>2. i \notin differ
        BY <3>2, <4>1
      <4> HIDE DEF differ
      <4>3. LimbAt(b, i) = a[i]
        BY <2>1, <4>1, <4>2, Zenon DEF differ
      <4> QED
        BY <2>1, <4>1, <4>3
    <3>6. Low(a, n) - Low(b, n) = Low(a, k + 1) - Low(b, k + 1)
      BY <1>1, <3>4, <3>5, LowAgreeAbove
    <3>7. PICK x \in Limb : x = LimbAt(a, k + 1)
      BY <1>1, LimbAtType
    <3>8. PICK y \in Limb : y = LimbAt(b, k + 1)
      BY <1>1, LimbAtType
    <3>9. x = a[top] /\ y = b[top] /\ x # y
      <4>1. top \in 1 .. n
        BY <3>1, <3>2
      <4>2. LimbAt(b, top) # a[top]
        BY <3>2
      <4> QED
        BY <2>1, <3>4, <3>7, <3>8, <4>1, <4>2
    <3>10. /\ Low(a, k + 1) = Low(a, k) + x * Weight(k)
           /\ Low(b, k + 1) = Low(b, k) + y * Weight(k)
      BY <1>1, <3>7, <3>8, LowFacts
    <3>11. /\ Low(a, k) \in Nat /\ Low(b, k) \in Nat /\ Weight(k) \in Nat
           /\ Low(a, k) < Weight(k) /\ Low(b, k) < Weight(k)
      BY <1>1, LowType, WeightFacts, LowBounded
    <3>12. x \in Nat /\ y \in Nat
      BY <1>1, <3>7, <3>8, LimbAtType
    <3>13. /\ Low(a, k + 1) \in Int /\ Low(b, k + 1) \in Int
           /\ Low(a, n) \in Int /\ Low(b, n) \in Int
      <4>1. k + 1 \in Nat
        OBVIOUS
      <4>2. /\ Low(a, k + 1) \in Nat /\ Low(b, k + 1) \in Nat
            /\ Low(a, n) \in Nat /\ Low(b, n) \in Nat
        BY <1>1, <4>1, LowType
      <4> QED
        BY <4>2
    <3>14. CASE x < y
      <4>1. Low(a, k + 1) < Low(b, k + 1)
        BY <3>10, <3>11, <3>12, <3>14, LaterPlace
      <4>2. Low(a, n) < Low(b, n)
        BY <3>6, <3>13, <4>1
      <4>3. CompareAbs(a, b) = -1
        BY <3>3, <3>9, <3>14
      <4> QED
        BY <1>4, <1>7, <4>2, <4>3
    <3>15. CASE y < x
      <4>1. Low(b, k + 1) < Low(a, k + 1)
        BY <3>10, <3>11, <3>12, <3>15, LaterPlace
      <4>2. Low(b, n) < Low(a, n)
        BY <3>6, <3>13, <4>1
      <4>3. CompareAbs(a, b) = 1
        <5>1. ~(a[top] < b[top])
          BY <3>9, <3>12, <3>15
        <5> QED
          BY <3>3, <5>1
      <4> QED
        BY <1>4, <1>7, <4>2, <4>3
    <3> QED
      BY <3>9, <3>12, <3>14, <3>15
  <2> QED
    BY <2>2, <2>3
<1> QED
  BY <1>5, <1>6, <1>7

-----------------------------------------------------------------------------
(* Addition, subtraction and comparison *)

(* The value a sign and a magnitude stand for. *)
Signed(negative, magnitude) == IF negative THEN -magnitude ELSE magnitude

(* A sign and limbs make a number of their value. *)
LEMMA NumberMade ==
  ASSUME NEW negative \in BOOLEAN, NEW s \in Limbs, Len(Trimmed(s)) <= MaxLimbs
  PROVE  /\ BigInt(negative, s) \in Numbers
         /\ ValueOf(BigInt(negative, s)) = Signed(negative, MagnitudeOf(s))
<1> DEFINE t == Trimmed(s)
           v == BigInt(negative, s)
<1>1. Trim(t)
  BY TrimmedTwice
<1>2. MagnitudeOf(t) = MagnitudeOf(s)
  BY TrimmedValue, MagnitudeIsLow
<1>3. v = [negative |-> negative /\ t # <<>>, limbs |-> t]
  BY DEF BigInt
<1> HIDE DEF t
<1>4. t \in Limbs /\ t = Trimmed(t) /\ (t = <<>> => MagnitudeOf(t) = 0)
  BY <1>1, TrimBounds DEF Trim
<1>5. \A i \in DOMAIN t : t[i] \in 0 .. Base - 1
  BY <1>4, ElementOfSeq, LenProperties DEF Limbs, Limb
<1>6. v.negative = (negative /\ t # <<>>) /\ v.limbs = t
  BY <1>3
<1>7. v \in [negative : BOOLEAN, limbs : Limbs]
  BY <1>3, <1>4
<1>8. Len(t) <= MaxLimbs
  BY DEF t
<1>9. v \in Numbers
  BY <1>4, <1>5, <1>6, <1>7, <1>8, Zenon DEF Numbers, Canonical, Size
<1>10. ValueOf(v) = Signed(negative, MagnitudeOf(s))
  <2>1. CASE t = <<>>
    BY <1>2, <1>4, <1>6, <2>1 DEF ValueOf, Signed
  <2>2. CASE t # <<>>
    BY <1>2, <1>6, <2>2 DEF ValueOf, Signed
  <2> QED
    BY <2>1, <2>2
<1> QED
  BY <1>9, <1>10 DEF v

(* What a number's limbs and sign say of its value. *)
LEMMA NumberValue ==
  ASSUME NEW v \in Numbers
  PROVE  /\ MagnitudeOf(v.limbs) \in Nat
         /\ ValueOf(v) = Signed(v.negative, MagnitudeOf(v.limbs))
         /\ v.negative => MagnitudeOf(v.limbs) >= 1
<1>1. /\ v.negative \in BOOLEAN /\ Trim(v.limbs)
      /\ v.limbs = <<>> => ~v.negative
  BY NumberShape
<1>2. MagnitudeOf(v.limbs) \in Nat /\ (v.limbs # <<>> => MagnitudeOf(v.limbs) >= 1)
  BY <1>1, TrimBounds
<1>3. ValueOf(v) = Signed(v.negative, MagnitudeOf(v.limbs))
  BY DEF ValueOf, Signed
<1> QED
  BY <1>1, <1>2, <1>3

(* Compare orders numbers as their values, and only a number equals it: a value
   has one representation. *)
THEOREM ComparisonExact ==
  ASSUME NEW a \in Numbers, NEW b \in Numbers
  PROVE  \/ Compare(a, b) = -1 /\ ValueOf(a) < ValueOf(b) /\ a # b
         \/ Compare(a, b) = 0 /\ ValueOf(a) = ValueOf(b) /\ a = b
         \/ Compare(a, b) = 1 /\ ValueOf(a) > ValueOf(b) /\ a # b
<1>1. PICK x \in Nat : x = MagnitudeOf(a.limbs)
  BY NumberValue
<1>2. PICK y \in Nat : y = MagnitudeOf(b.limbs)
  BY NumberValue
<1>3. /\ ValueOf(a) = Signed(a.negative, x) /\ ValueOf(b) = Signed(b.negative, y)
      /\ a.negative => x >= 1
      /\ b.negative => y >= 1
  BY <1>1, <1>2, NumberValue
<1>4. /\ a.negative \in BOOLEAN /\ b.negative \in BOOLEAN /\ Trim(a.limbs) /\ Trim(b.limbs)
      /\ a = [negative |-> a.negative, limbs |-> a.limbs]
      /\ b = [negative |-> b.negative, limbs |-> b.limbs]
  BY NumberShape
<1>5. \/ CompareAbs(a.limbs, b.limbs) = -1 /\ x < y
      \/ CompareAbs(a.limbs, b.limbs) = 0 /\ x = y /\ a.limbs = b.limbs
      \/ CompareAbs(a.limbs, b.limbs) = 1 /\ x > y
  BY <1>1, <1>2, <1>4, CompareAbsExact
<1>6. CASE a.negative # b.negative
  <2>1. CASE a.negative
    <3>1. Compare(a, b) = -1 /\ ~b.negative
      BY <1>4, <1>6, <2>1 DEF Compare
    <3> QED
      BY <1>3, <1>6, <2>1, <3>1 DEF Signed
  <2>2. CASE ~a.negative
    <3>1. Compare(a, b) = 1 /\ b.negative
      BY <1>4, <1>6, <2>2 DEF Compare
    <3> QED
      BY <1>3, <1>6, <2>2, <3>1 DEF Signed
  <2> QED
    BY <1>4, <2>1, <2>2
<1>7. CASE a.negative = b.negative
  <2>1. a.limbs = b.limbs => a = b
    BY <1>4, <1>7, Zenon
  <2>2. x # y => a # b
    BY <1>1, <1>2, Zenon
  <2>3. CASE a.negative
    <3>1. Compare(a, b) = -CompareAbs(a.limbs, b.limbs) /\ b.negative
      BY <1>7, <2>3 DEF Compare
    <3>2. ValueOf(a) = -x /\ ValueOf(b) = -y
      BY <1>3, <2>3, <3>1 DEF Signed
    <3> QED
      BY <1>5, <2>1, <2>2, <3>1, <3>2
  <2>4. CASE ~a.negative
    <3>1. Compare(a, b) = CompareAbs(a.limbs, b.limbs) /\ ~b.negative
      BY <1>7, <2>4 DEF Compare
    <3>2. ValueOf(a) = x /\ ValueOf(b) = y
      BY <1>3, <2>4, <3>1 DEF Signed
    <3> QED
      BY <1>5, <2>1, <2>2, <3>1, <3>2
  <2> QED
    BY <2>3, <2>4
<1> QED
  BY <1>6, <1>7

(* A call that returns limbs of a value, or refuses as they may not fit. *)
Returns(call, n, magnitude) ==
  IF n > MaxLimbs THEN call = Refused("VALUE_TOO_LARGE")
  ELSE /\ call = Ok(call.value) /\ Trim(call.value)
       /\ Len(call.value) <= n /\ MagnitudeOf(call.value) = magnitude

(* Limbs that are trimmed are returned when there is room for them. *)
LEMMA ReturnsTrimmed ==
  ASSUME NEW n \in Nat, NEW s \in Limbs, Len(Trimmed(s)) <= n
  PROVE  Returns(Within(n, Trimmed(s)), n, MagnitudeOf(s))
<1> DEFINE t == Trimmed(s)
<1>1. Trim(t) /\ MagnitudeOf(t) = MagnitudeOf(s) /\ Len(t) <= n
  BY TrimmedTwice, TrimmedValue, MagnitudeIsLow
<1> HIDE DEF t
<1>2. Ok(t).value = t
  BY DEF Ok
<1>3. CASE n > MaxLimbs
  BY <1>3 DEF Returns, Within
<1>4. CASE ~(n > MaxLimbs)
  <2>1. PICK call : call = Within(n, t)
    OBVIOUS
  <2>2. call = Ok(t)
    BY <1>4, <2>1 DEF Within
  <2>3. call.value = t
    BY <1>2, <2>2
  <2>4. Returns(call, n, MagnitudeOf(s))
    BY <1>1, <1>4, <2>2, <2>3, Zenon DEF Returns
  <2> QED
    BY <2>1, <2>4, Zenon DEF t
<1> QED
  BY <1>3, <1>4 DEF t

(* The longer of two magnitudes. *)
LEMMA LongerOf ==
  ASSUME NEW a \in Limbs, NEW b \in Limbs
  PROVE  /\ Larger(Len(a), Len(b)) \in Nat
         /\ Len(a) <= Larger(Len(a), Len(b)) /\ Len(b) <= Larger(Len(a), Len(b))
         /\ Larger(Len(a), Len(b)) \in {Len(a), Len(b)}
         /\ Low(a, Larger(Len(a), Len(b))) = MagnitudeOf(a)
         /\ Low(b, Larger(Len(a), Len(b))) = MagnitudeOf(b)
<1> DEFINE n == Larger(Len(a), Len(b))
<1>1. Len(a) \in Nat /\ Len(b) \in Nat
  BY LimbAtPlace
<1>2. n \in Nat /\ Len(a) <= n /\ Len(b) <= n /\ n \in {Len(a), Len(b)}
  BY <1>1 DEF Larger
<1> HIDE DEF n
<1>3. Low(a, n) = Low(a, Len(a)) /\ Low(b, n) = Low(b, Len(b))
  BY <1>2, LowBeyond
<1> QED
  BY <1>2, <1>3, MagnitudeIsLow DEF n

(* AddAbs adds magnitudes. *)
LEMMA AddAbsExact ==
  ASSUME NEW a \in Limbs, NEW b \in Limbs
  PROVE  Returns(AddAbs(a, b), Larger(Len(a), Len(b)) + 1, MagnitudeOf(a) + MagnitudeOf(b))
<1>1. PICK n \in Nat : n = Larger(Len(a), Len(b))
  BY LongerOf
<1> DEFINE s == SumOn(n, a, b)
<1>2. s \in Limbs /\ Len(s) = n + 1 /\ Low(s, n + 1) = Low(a, n) + Low(b, n)
  BY SumExact
<1>3. AddAbs(a, b) = Within(n + 1, Trimmed(s))
  BY <1>1 DEF AddAbs
<1> HIDE DEF s
<1>4. MagnitudeOf(s) = MagnitudeOf(a) + MagnitudeOf(b)
  <2>1. MagnitudeOf(s) = Low(s, n + 1)
    BY <1>2, MagnitudeIsLow
  <2>2. Low(a, n) = MagnitudeOf(a) /\ Low(b, n) = MagnitudeOf(b)
    BY <1>1, LongerOf
  <2> QED
    BY <1>2, <2>1, <2>2
<1>5. Len(Trimmed(s)) <= n + 1 /\ n + 1 \in Nat
  BY <1>2, TrimmedFacts
<1>6. Returns(Within(n + 1, Trimmed(s)), n + 1, MagnitudeOf(s))
  BY <1>2, <1>5, ReturnsTrimmed
<1> QED
  BY <1>1, <1>3, <1>4, <1>6, Zenon

(* SubtractAbs takes the smaller magnitude from the larger. *)
LEMMA SubtractAbsExact ==
  ASSUME NEW a, NEW b, Trim(a), Trim(b)
  PROVE  /\ MagnitudeOf(a) >= MagnitudeOf(b)
              => Returns(SubtractAbs(a, b), Len(a), MagnitudeOf(a) - MagnitudeOf(b))
         /\ MagnitudeOf(a) < MagnitudeOf(b)
              => Returns(SubtractAbs(a, b), Len(b), MagnitudeOf(b) - MagnitudeOf(a))
<1>1. ASSUME NEW large, NEW small, Trim(large), Trim(small), MagnitudeOf(large) >= MagnitudeOf(small)
      PROVE  Returns(Within(Len(large), Trimmed(DifferenceOn(Len(large), large, small).limbs)),
                     Len(large), MagnitudeOf(large) - MagnitudeOf(small))
  <2>1. large \in Limbs /\ small \in Limbs
    BY <1>1 DEF Trim
  <2>2. PICK n \in Nat : n = Len(large)
    BY <2>1, LimbAtPlace
  <2>3. PICK x \in Nat : x = MagnitudeOf(large)
    BY <1>1, TrimBounds
  <2>4. PICK y \in Nat : y = MagnitudeOf(small)
    BY <1>1, TrimBounds
  <2>5. Len(small) \in Nat /\ Len(small) <= n
    <3>1. PICK m \in Nat : m = Len(small)
      BY <2>1, LimbAtPlace
    <3> SUFFICES ASSUME ~(m <= n) PROVE FALSE
      BY <3>1
    <3>2. CompareAbs(large, small) = -1
      BY <2>2, <3>1 DEF CompareAbs
    <3>3. x < y
      BY <1>1, <2>3, <2>4, <3>2, CompareAbsExact
    <3> QED
      BY <1>1, <2>3, <2>4, <3>3
  <2>6. Low(large, n) = x /\ Low(small, n) = y
    <3>1. Low(small, n) = Low(small, Len(small))
      BY <2>1, <2>5, LowBeyond
    <3> QED
      BY <2>1, <2>2, <2>3, <2>4, <3>1, MagnitudeIsLow
  <2> DEFINE d == DifferenceOn(n, large, small)
  <2>7. /\ d.limbs \in Limbs /\ Len(d.limbs) = n /\ d.borrow \in 0 .. 1
        /\ Low(d.limbs, n) + Low(small, n) = Low(large, n) + d.borrow * Weight(n)
    BY <2>1, DifferenceExact
  <2> HIDE DEF d
  <2>8. PICK s \in Limbs : s = d.limbs
    BY <2>7
  <2>9. PICK borrow \in 0 .. 1 : borrow = d.borrow
    BY <2>7
  <2>10. Low(s, n) \in Nat /\ Low(s, n) < Weight(n) /\ Weight(n) \in Nat
    BY LowType, LowBounded, WeightFacts
  <2>11. Low(s, n) + y = x + borrow * Weight(n)
    BY <2>6, <2>7, <2>8, <2>9
  <2>12. Low(s, n) = x - y
    <3>1. CASE borrow = 0
      BY <2>10, <2>11, <3>1
    <3>2. CASE borrow = 1
      <4>1. borrow * Weight(n) = Weight(n)
        BY <2>10, <3>2
      <4> QED
        BY <1>1, <2>3, <2>4, <2>10, <2>11, <4>1
    <3> QED
      BY <3>1, <3>2
  <2>13. Len(s) = n /\ MagnitudeOf(s) = x - y
    BY <2>7, <2>8, <2>12, MagnitudeIsLow
  <2>14. Len(Trimmed(s)) <= n
    BY <2>13, TrimmedFacts
  <2>15. Returns(Within(n, Trimmed(s)), n, MagnitudeOf(s))
    BY <2>14, ReturnsTrimmed
  <2>16. DifferenceOn(Len(large), large, small).limbs = s
    BY <2>2, <2>8 DEF d
  <2> QED
    BY <2>2, <2>3, <2>4, <2>13, <2>15, <2>16
<1>2. MagnitudeOf(a) \in Nat /\ MagnitudeOf(b) \in Nat
  BY TrimBounds
<1>3. ASSUME MagnitudeOf(a) >= MagnitudeOf(b)
      PROVE  SubtractAbs(a, b) = Within(Len(a), Trimmed(DifferenceOn(Len(a), a, b).limbs))
  <2>1. ~(CompareAbs(a, b) < 0)
    BY <1>2, <1>3, CompareAbsExact
  <2> QED
    BY <2>1 DEF SubtractAbs
<1>4. ASSUME MagnitudeOf(a) < MagnitudeOf(b)
      PROVE  SubtractAbs(a, b) = Within(Len(b), Trimmed(DifferenceOn(Len(b), b, a).limbs))
  <2>1. CompareAbs(a, b) < 0
    BY <1>2, <1>4, CompareAbsExact
  <2> QED
    BY <2>1 DEF SubtractAbs
<1>5. ASSUME MagnitudeOf(a) >= MagnitudeOf(b)
      PROVE  Returns(SubtractAbs(a, b), Len(a), MagnitudeOf(a) - MagnitudeOf(b))
  BY <1>1, <1>3, <1>5
<1>6. ASSUME MagnitudeOf(a) < MagnitudeOf(b)
      PROVE  Returns(SubtractAbs(a, b), Len(b), MagnitudeOf(b) - MagnitudeOf(a))
  <2>1. MagnitudeOf(b) >= MagnitudeOf(a)
    BY <1>2, <1>6
  <2> QED
    BY <1>1, <1>4, <1>6, <2>1
<1> QED
  BY <1>5, <1>6

(* A call answers with a number of that value, or refuses one that may need
   more limbs than the code allows. *)
Answers(call, value, needed) ==
  \/ call = Ok(call.value) /\ call.value \in Numbers /\ ValueOf(call.value) = value
  \/ call = Refused("VALUE_TOO_LARGE") /\ needed > MaxLimbs

(* A magnitude that is returned becomes a number with either sign. *)
LEMMA AnswersSigned ==
  ASSUME NEW call, NEW n \in Nat, NEW magnitude, Returns(call, n, magnitude),
         NEW negative \in BOOLEAN, NEW needed \in Nat, n <= needed
  PROVE  Answers(Then(call, LAMBDA limbs : Ok(BigInt(negative, limbs))),
                 Signed(negative, magnitude), needed)
<1>1. MaxLimbs \in Nat
  BY BigIntAssumption
<1>2. CASE n > MaxLimbs
  <2>1. call = Refused("VALUE_TOO_LARGE") /\ needed > MaxLimbs
    BY <1>1, <1>2 DEF Returns
  <2>2. call.status # "OK"
    BY <2>1 DEF Refused
  <2>3. Then(call, LAMBDA limbs : Ok(BigInt(negative, limbs))) = call
    BY <2>2, Zenon DEF Then
  <2> QED
    BY <2>1, <2>3, Zenon DEF Answers
<1>3. CASE ~(n > MaxLimbs)
  <2>1. PICK s : s = call.value
    OBVIOUS
  <2>2. call = Ok(s) /\ Trim(s) /\ Len(s) <= n /\ MagnitudeOf(s) = magnitude
    BY <1>3, <2>1, Zenon DEF Returns
  <2>3. call.status = "OK"
    BY <2>2 DEF Ok
  <2>4. s \in Limbs /\ Trimmed(s) = s /\ Len(s) \in Nat
    BY <2>2, LimbAtPlace DEF Trim
  <2>5. Len(Trimmed(s)) <= MaxLimbs
    BY <1>1, <1>3, <2>2, <2>4
  <2>6. PICK v : v = BigInt(negative, s)
    OBVIOUS
  <2>7. v \in Numbers /\ ValueOf(v) = Signed(negative, magnitude)
    BY <2>2, <2>4, <2>5, <2>6, NumberMade
  <2>8. Then(call, LAMBDA limbs : Ok(BigInt(negative, limbs))) = Ok(v)
    BY <2>1, <2>3, <2>6, Zenon DEF Then
  <2>9. Ok(v).value = v
    BY DEF Ok
  <2> QED
    BY <2>7, <2>8, <2>9, Zenon DEF Answers
<1> QED
  BY <1>2, <1>3

(* Add is the sum of the values, with the carries and borrows the limbs make,
   whichever signs meet; it refuses only what could outgrow the limit. *)
THEOREM AdditionExact ==
  ASSUME NEW a \in Numbers, NEW b \in Numbers
  PROVE  Answers(Add(a, b), ValueOf(a) + ValueOf(b), Larger(Size(a), Size(b)) + 1)
<1>1. PICK x \in Nat : x = MagnitudeOf(a.limbs)
  BY NumberValue
<1>2. PICK y \in Nat : y = MagnitudeOf(b.limbs)
  BY NumberValue
<1>3. ValueOf(a) = Signed(a.negative, x) /\ ValueOf(b) = Signed(b.negative, y)
  BY <1>1, <1>2, NumberValue
<1>4. /\ a.negative \in BOOLEAN /\ b.negative \in BOOLEAN /\ Trim(a.limbs) /\ Trim(b.limbs)
      /\ a.limbs \in Limbs /\ b.limbs \in Limbs
  BY NumberShape
<1>5. PICK n \in Nat : n = Larger(Len(a.limbs), Len(b.limbs))
  BY <1>4, LongerOf
<1>6. Len(a.limbs) \in Nat /\ Len(b.limbs) \in Nat /\ Len(a.limbs) <= n /\ Len(b.limbs) <= n
  BY <1>4, <1>5, LongerOf, LimbAtPlace
<1>7. PICK comparison \in -1 .. 1 : /\ comparison = CompareAbs(a.limbs, b.limbs)
                                    /\ comparison > 0 <=> x > y
                                    /\ comparison < 0 <=> x < y
  BY <1>1, <1>2, <1>4, CompareAbsExact
<1>8. PICK negative \in BOOLEAN :
        negative = IF a.negative = b.negative THEN a.negative
                   ELSE IF a.negative THEN comparison > 0 ELSE comparison < 0
  BY <1>4
<1>9. ASSUME NEW call, NEW m \in Nat, NEW magnitude, Returns(call, m, magnitude), m <= n + 1,
             call = IF a.negative = b.negative THEN AddAbs(a.limbs, b.limbs)
                                               ELSE SubtractAbs(a.limbs, b.limbs),
             Signed(negative, magnitude) = ValueOf(a) + ValueOf(b)
      PROVE  Answers(Add(a, b), ValueOf(a) + ValueOf(b), n + 1)
  <2>1. n + 1 \in Nat
    OBVIOUS
  <2>2. Answers(Then(call, LAMBDA limbs : Ok(BigInt(negative, limbs))),
                Signed(negative, magnitude), n + 1)
    BY <1>9, <2>1, AnswersSigned
  <2>3. /\ comparison = CompareAbs(a.limbs, b.limbs)
        /\ call = IF a.negative = b.negative THEN AddAbs(a.limbs, b.limbs)
                                             ELSE SubtractAbs(a.limbs, b.limbs)
    BY <1>7, <1>9
  <2>4. Add(a, b) = Then(call, LAMBDA limbs : Ok(BigInt(negative, limbs)))
    BY <1>8, <2>3, Zenon DEF Add, Then
  <2> QED
    BY <1>9, <2>2, <2>4, Zenon
<1>10. CASE a.negative = b.negative
  <2>1. Returns(AddAbs(a.limbs, b.limbs), n + 1, x + y)
    BY <1>1, <1>2, <1>4, <1>5, AddAbsExact
  <2>2. negative = a.negative
    BY <1>8, <1>10
  <2>3. Signed(negative, x + y) = ValueOf(a) + ValueOf(b)
    BY <1>3, <1>10, <2>2 DEF Signed
  <2>4. n + 1 \in Nat /\ n + 1 <= n + 1
    OBVIOUS
  <2>5. Answers(Add(a, b), ValueOf(a) + ValueOf(b), n + 1)
    BY <1>9, <1>10, <2>1, <2>3, <2>4
  <2> QED
    BY <1>5, <2>5 DEF Size
<1>11. CASE a.negative # b.negative
  <2>1. /\ x >= y => Returns(SubtractAbs(a.limbs, b.limbs), Len(a.limbs), x - y)
        /\ x < y => Returns(SubtractAbs(a.limbs, b.limbs), Len(b.limbs), y - x)
    BY <1>1, <1>2, <1>4, SubtractAbsExact
  <2>2. Len(a.limbs) <= n + 1 /\ Len(b.limbs) <= n + 1
    BY <1>6
  <2>3. CASE x >= y
    <3>1. Signed(negative, x - y) = ValueOf(a) + ValueOf(b)
      <4>1. CASE a.negative
        <5>1. ~b.negative /\ (negative <=> comparison > 0)
          BY <1>4, <1>8, <1>11, <4>1, Zenon
        <5>2. ValueOf(a) = -x /\ ValueOf(b) = y
          BY <1>3, <4>1, <5>1, Zenon DEF Signed
        <5> QED
          BY <1>7, <2>3, <5>1, <5>2 DEF Signed
      <4>2. CASE ~a.negative
        <5>1. b.negative /\ (negative <=> comparison < 0)
          BY <1>4, <1>8, <1>11, <4>2, Zenon
        <5>2. ValueOf(a) = x /\ ValueOf(b) = -y
          BY <1>3, <4>2, <5>1, Zenon DEF Signed
        <5> QED
          BY <1>7, <2>3, <5>1, <5>2 DEF Signed
      <4> QED
        BY <4>1, <4>2
    <3>2. Answers(Add(a, b), ValueOf(a) + ValueOf(b), n + 1)
      BY <1>6, <1>9, <1>11, <2>1, <2>2, <2>3, <3>1
    <3> QED
      BY <1>5, <3>2 DEF Size
  <2>4. CASE x < y
    <3>1. Signed(negative, y - x) = ValueOf(a) + ValueOf(b)
      <4>1. CASE a.negative
        <5>1. ~b.negative /\ (negative <=> comparison > 0)
          BY <1>4, <1>8, <1>11, <4>1, Zenon
        <5>2. ValueOf(a) = -x /\ ValueOf(b) = y
          BY <1>3, <4>1, <5>1, Zenon DEF Signed
        <5> QED
          BY <1>7, <2>4, <5>1, <5>2 DEF Signed
      <4>2. CASE ~a.negative
        <5>1. b.negative /\ (negative <=> comparison < 0)
          BY <1>4, <1>8, <1>11, <4>2, Zenon
        <5>2. ValueOf(a) = x /\ ValueOf(b) = -y
          BY <1>3, <4>2, <5>1, Zenon DEF Signed
        <5> QED
          BY <1>7, <2>4, <5>1, <5>2 DEF Signed
      <4> QED
        BY <4>1, <4>2
    <3>2. Answers(Add(a, b), ValueOf(a) + ValueOf(b), n + 1)
      BY <1>6, <1>9, <1>11, <2>1, <2>2, <2>4, <3>1
    <3> QED
      BY <1>5, <3>2 DEF Size
  <2> QED
    BY <2>3, <2>4
<1> QED
  BY <1>10, <1>11

(* The negation of a number. *)
LEMMA NegationExact ==
  ASSUME NEW v \in Numbers
  PROVE  Negate(v) \in Numbers /\ ValueOf(Negate(v)) = -ValueOf(v) /\ Size(Negate(v)) = Size(v)
<1>1. /\ v.negative \in BOOLEAN /\ v.limbs \in Limbs /\ Trimmed(v.limbs) = v.limbs
      /\ Len(v.limbs) <= MaxLimbs
  BY NumberShape DEF Trim
<1>2. PICK positive \in BOOLEAN : positive = ~v.negative
  BY <1>1
<1>8. Negate(v) = BigInt(positive, v.limbs)
  BY <1>2, Zenon DEF Negate
<1>3. /\ Negate(v) \in Numbers
      /\ ValueOf(Negate(v)) = Signed(positive, MagnitudeOf(v.limbs))
  BY <1>1, <1>8, NumberMade
<1>4. Size(Negate(v)) = Size(v)
  BY <1>1, <1>8 DEF Size, BigInt
<1>5. PICK x \in Nat : x = MagnitudeOf(v.limbs)
  BY NumberValue
<1>6. ValueOf(v) = Signed(v.negative, x)
  BY <1>5, NumberValue
<1>7. Signed(positive, x) = -Signed(v.negative, x)
  <2>1. CASE v.negative
    <3>1. ~positive
      BY <1>2, <2>1
    <3> QED
      BY <2>1, <3>1 DEF Signed
  <2>2. CASE ~v.negative
    <3>1. positive
      BY <1>2, <2>2
    <3> QED
      BY <2>2, <3>1 DEF Signed
  <2> QED
    BY <2>1, <2>2
<1> QED
  BY <1>3, <1>4, <1>5, <1>6, <1>7

(* Sub is the difference of the values, on the same terms. *)
THEOREM SubtractionExact ==
  ASSUME NEW a \in Numbers, NEW b \in Numbers
  PROVE  Answers(Sub(a, b), ValueOf(a) - ValueOf(b), Larger(Size(a), Size(b)) + 1)
<1>1. PICK c \in Numbers : c = Negate(b)
  BY NegationExact
<1>2. ValueOf(c) = -ValueOf(b) /\ Size(c) = Size(b)
  BY <1>1, NegationExact
<1>3. Answers(Add(a, c), ValueOf(a) + ValueOf(c), Larger(Size(a), Size(c)) + 1)
  BY AdditionExact
<1>4. ValueOf(a) \in Int /\ ValueOf(b) \in Int
  <2>1. \A v \in Numbers : ValueOf(v) \in Int
    <3> TAKE v \in Numbers
    <3>1. PICK x \in Nat : x = MagnitudeOf(v.limbs)
      BY NumberValue
    <3> QED
      BY <3>1, NumberValue DEF Signed
  <2> QED
    BY <2>1
<1>5. ValueOf(a) + ValueOf(c) = ValueOf(a) - ValueOf(b)
  BY <1>2, <1>4
<1>6. Sub(a, b) = Add(a, c)
  BY <1>1 DEF Sub
<1> QED
  BY <1>2, <1>3, <1>5, <1>6, Zenon
-----------------------------------------------------------------------------
(* Products of limbs *)

(* A limb that wraps shows it by being smaller than either term. *)
LEMMA Wraps ==
  ASSUME NEW x \in Limb, NEW y \in Limb
  PROVE  LET s == (x + y) % Base
         IN  /\ s \in Limb
             /\ s + (IF s < x THEN 1 ELSE 0) * Base = x + y
             /\ s + (IF s < y THEN 1 ELSE 0) * Base = x + y
<1> DEFINE s == (x + y) % Base
<1>1. Base \in Nat /\ Base >= 4 /\ x \in Nat /\ y \in Nat /\ x < Base /\ y < Base
  BY BaseFacts DEF Limb
<1>2. CASE x + y < Base
  <2>1. x + y = Base * 0 + (x + y) /\ x + y \in Int /\ 0 <= x + y
    BY <1>1
  <2>2. s = x + y
    BY <1>1, <1>2, <2>1, DivisionIs
  <2> HIDE DEF s
  <2>3. s \in Limb /\ ~(s < x) /\ ~(s < y) /\ s + 0 * Base = x + y
    BY <1>1, <1>2, <2>2 DEF Limb
  <2> QED
    BY <2>3, Zenon DEF s
<1>3. CASE ~(x + y < Base)
  <2>1. /\ x + y = Base * 1 + (x + y - Base) /\ x + y \in Int /\ x + y - Base \in Int
        /\ 0 <= x + y - Base /\ x + y - Base < Base
    BY <1>1, <1>3
  <2>2. s = x + y - Base
    BY <1>1, <1>3, <2>1, DivisionIs
  <2> HIDE DEF s
  <2>3. s \in Limb /\ s < x /\ s < y /\ s + 1 * Base = x + y
    BY <1>1, <1>3, <2>1, <2>2 DEF Limb
  <2> QED
    BY <2>3, Zenon DEF s
<1> QED
  BY <1>2, <1>3

(* The high limb of a product leaves room for a carry. *)
LEMMA ProductRoom ==
  ASSUME NEW base \in Nat, base >= 1, NEW a \in 0 .. base - 1, NEW b \in 0 .. base - 1,
         NEW low \in Nat, NEW high \in Nat, low + high * base = a * b
  PROVE  high <= base - 2 \/ base = 1
<1> SUFFICES ASSUME ~(high <= base - 2), base # 1 PROVE FALSE
  OBVIOUS
<1>1. base - 1 \in Nat /\ a \in Nat /\ b \in Nat /\ a <= base - 1 /\ b <= base - 1
      /\ base - 1 <= high /\ base - 1 >= 1
  OBVIOUS
<1>2. a * b <= (base - 1) * b
  BY <1>1, TimesMonotone
<1>3. b * (base - 1) <= (base - 1) * (base - 1)
  BY <1>1, TimesMonotone
<1>4. (base - 1) * base <= high * base
  BY <1>1, TimesMonotone
<1>5. b * (base - 1) = (base - 1) * b /\ (base - 1) * base = (base - 1) * (base - 1) + (base - 1)
  BY <1>1
<1>6. PICK p \in Int : p = (base - 1) * (base - 1)
  BY <1>1
<1>7. PICK q \in Int : q = high * base
  OBVIOUS
<1>8. PICK r \in Int : r = a * b
  BY <1>1
<1>9. PICK t \in Int : t = (base - 1) * b
  BY <1>1
<1>10. r <= t /\ t <= p /\ p + (base - 1) <= q /\ low + q = r
  BY <1>2, <1>3, <1>4, <1>5, <1>6, <1>7, <1>8, <1>9
<1> QED
  BY <1>1, <1>10

(* The product of two numbers from those of their halves. *)
LEMMA HalvesProduct ==
  ASSUME NEW h \in Int, NEW a0 \in Int, NEW a1 \in Int, NEW b0 \in Int, NEW b1 \in Int
  PROVE  (h * a1 + a0) * (h * b1 + b0)
           = ((a1 * b1) * (h * h) + (a0 * b1) * h) + ((a1 * b0) * h + a0 * b0)
OBVIOUS

(* MultiplyLimbs is the product, its high limb at most Base - 2. *)
LEMMA MultiplyLimbsExact ==
  ASSUME NEW a \in Limb, NEW b \in Limb
  PROVE  LET p == MultiplyLimbs(a, b)
         IN  /\ p.low \in Limb /\ p.high \in 0 .. Base - 2
             /\ p.low + p.high * Base = a * b
<1>1. PICK h \in Nat : h = HalfBase /\ h >= 2 /\ Base = h * h /\ Base >= 4 /\ Base \in Nat
  BY BaseFacts
<1>2. a \in Nat /\ b \in Nat /\ a \in 0 .. Base - 1 /\ b \in 0 .. Base - 1
  BY <1>1 DEF Limb
<1>3. \A n \in Nat : \E q \in Nat, r \in 0 .. h - 1 :
         q = n \div HalfBase /\ r = n % HalfBase /\ n = h * q + r
  <2> TAKE n \in Nat
  <2>1. n = h * (n \div h) + (n % h) /\ 0 <= n % h /\ n % h < h /\ n \div h \in Int /\ n % h \in Int
    BY <1>1, DivisionOf
  <2>2. n \div h \in Nat
    BY <1>1
  <2> QED
    BY <1>1, <2>1, <2>2
<1>4. PICK a1 \in Nat, a0 \in 0 .. h - 1 : a1 = a \div HalfBase /\ a0 = a % HalfBase /\ a = h * a1 + a0
  BY <1>2, <1>3
<1>5. PICK b1 \in Nat, b0 \in 0 .. h - 1 : b1 = b \div HalfBase /\ b0 = b % HalfBase /\ b = h * b1 + b0
  BY <1>2, <1>3
<1>6. PICK p00 \in Nat : p00 = a0 * b0
  BY <1>1
<1>7. PICK p01 \in Nat : p01 = a0 * b1
  BY <1>1
<1>8. PICK p10 \in Nat : p10 = a1 * b0
  BY <1>1
<1>9. PICK p11 \in Nat : p11 = a1 * b1
  OBVIOUS
<1>10. PICK q00 \in Nat, r00 \in 0 .. h - 1 : q00 = p00 \div HalfBase /\ r00 = p00 % HalfBase /\ p00 = h * q00 + r00
  BY <1>3
<1>11. PICK q01 \in Nat, r01 \in 0 .. h - 1 : q01 = p01 \div HalfBase /\ r01 = p01 % HalfBase /\ p01 = h * q01 + r01
  BY <1>3
<1>12. PICK q10 \in Nat, r10 \in 0 .. h - 1 : q10 = p10 \div HalfBase /\ r10 = p10 % HalfBase /\ p10 = h * q10 + r10
  BY <1>3
<1>13. PICK middle \in Nat : middle = q00 + r01 + r10
  BY <1>1
<1>14. PICK qm \in Nat, rm \in 0 .. h - 1 : qm = middle \div HalfBase /\ rm = middle % HalfBase /\ middle = h * qm + rm
  BY <1>3
<1>15. PICK top \in Nat : top = rm * h
  BY <1>1
<1>16. top + h <= Base
  <2>1. rm + 1 <= h /\ rm + 1 \in Int /\ h \in Int /\ rm \in Int
    BY <1>1
  <2>2. (rm + 1) * h <= h * h
    BY <2>1, TimesMonotone
  <2>3. (rm + 1) * h = rm * h + h
    BY <1>1, <2>1
  <2> QED
    BY <1>1, <1>15, <2>2, <2>3
<1>17. (middle * HalfBase) % Base = top
  <2>1. middle * h = (h * h) * qm + rm * h
    <3>1. (h * qm + rm) * h = (h * h) * qm + rm * h
      BY <1>1
    <3> QED
      BY <1>14, <3>1, Zenon
  <2>2. middle * h \in Int /\ Base > 0 /\ 0 <= top /\ top < Base
    BY <1>1, <1>15, <1>16
  <2>3. middle * h = Base * qm + top
    BY <1>1, <1>15, <2>1, Zenon
  <2>4. (middle * h) % Base = top
    <3>1. PICK m \in Int : m = middle * h
      BY <2>2
    <3>2. m = Base * qm + top /\ qm \in Int /\ top \in Int
      BY <2>3, <3>1
    <3>3. m % Base = top
      BY <1>1, <2>2, <3>2, DivisionIs
    <3> QED
      BY <3>1, <3>3
  <2> QED
    BY <1>1, <2>4
<1>18. PICK low \in Nat : low = r00 + top
  BY <1>1
<1>19. PICK high \in Nat : high = p11 + q01 + q10 + qm
  OBVIOUS
<1> DEFINE p == MultiplyLimbs(a, b)
<1>20. p = [low |-> low, high |-> high]
  <2>1. p = [low |-> r00 + ((middle * HalfBase) % Base), high |-> p11 + q01 + q10 + qm]
    BY <1>4, <1>5, <1>6, <1>7, <1>8, <1>9, <1>10, <1>11, <1>12, <1>13, <1>14, Zenon
    DEF MultiplyLimbs
  <2> QED
    BY <1>17, <1>18, <1>19, <2>1, Zenon
<1> HIDE DEF p
<1>21. low + high * Base = a * b
  <2>1. a * b = (p11 * (h * h) + p01 * h) + (p10 * h + p00)
    BY <1>1, <1>4, <1>5, <1>6, <1>7, <1>8, <1>9, HalvesProduct
  <2>2. /\ p01 * h = (h * h) * q01 + r01 * h
        /\ p10 * h = (h * h) * q10 + r10 * h
        /\ middle * h = (h * h) * qm + top
    <3>1. /\ (h * q01 + r01) * h = (h * h) * q01 + r01 * h
          /\ (h * q10 + r10) * h = (h * h) * q10 + r10 * h
          /\ (h * qm + rm) * h = (h * h) * qm + rm * h
      BY <1>1
    <3>3. p01 * h = (h * h) * q01 + r01 * h
      BY <1>11, <3>1, Zenon
    <3>4. p10 * h = (h * h) * q10 + r10 * h
      BY <1>12, <3>1, Zenon
    <3>5. middle * h = (h * h) * qm + top
      BY <1>14, <1>15, <3>1, Zenon
    <3> QED
      BY <3>3, <3>4, <3>5
  <2>3. middle * h = (h * q00 + r01 * h) + r10 * h
    <3>1. (q00 + r01 + r10) * h = (h * q00 + r01 * h) + r10 * h
      BY <1>1
    <3> QED
      BY <1>13, <3>1, Zenon
  <2>4. PICK s \in Nat : s = h * h
    BY <1>1
  <2>5. high * s = ((p11 * s + s * q01) + s * q10) + s * qm
    <3>1. (p11 + q01 + q10 + qm) * s = ((p11 * s + s * q01) + s * q10) + s * qm
      OBVIOUS
    <3> QED
      BY <1>19, <3>1, Zenon
  <2>6. /\ p11 * s \in Int /\ s * q01 \in Int /\ s * q10 \in Int /\ s * qm \in Int
        /\ r01 * h \in Int /\ r10 * h \in Int /\ h * q00 \in Int /\ p01 * h \in Int
        /\ p10 * h \in Int /\ middle * h \in Int
    BY <1>1
  <2>7. PICK t1 \in Int : t1 = p11 * s
    BY <2>6
  <2>8. PICK t2 \in Int : t2 = s * q01
    BY <2>6
  <2>9. PICK t3 \in Int : t3 = s * q10
    BY <2>6
  <2>10. PICK t4 \in Int : t4 = s * qm
    BY <2>6
  <2>11. PICK t5 \in Int : t5 = r01 * h
    BY <2>6
  <2>12. PICK t6 \in Int : t6 = r10 * h
    BY <2>6
  <2>13. PICK t7 \in Int : t7 = h * q00
    BY <2>6
  <2>14. /\ a * b = (t1 + (t2 + t5)) + ((t3 + t6) + p00)
         /\ t4 + top = (t7 + t5) + t6
         /\ high * s = ((t1 + t2) + t3) + t4
         /\ p00 = t7 + r00 /\ low = r00 + top
    BY <1>10, <1>18, <2>1, <2>2, <2>3, <2>4, <2>5, <2>7, <2>8, <2>9, <2>10, <2>11, <2>12, <2>13, Zenon
  <2>15. low + high * s = a * b
    BY <1>1, <2>14
  <2> QED
    BY <1>1, <2>4, <2>15, Zenon
<1>22. low \in Limb
  BY <1>1, <1>16, <1>18 DEF Limb
<1>23. high \in 0 .. Base - 2
  <2>1. high <= Base - 2 \/ Base = 1
    BY <1>1, <1>2, <1>21, ProductRoom
  <2> QED
    BY <1>1, <2>1
<1> QED
  BY <1>20, <1>21, <1>22, <1>23 DEF p

(* A product and two limbs more still fit two limbs. *)
LEMMA ProductAndTwo ==
  ASSUME NEW base \in Nat, base >= 1, NEW a \in 0 .. base - 1, NEW b \in 0 .. base - 1,
         NEW c \in 0 .. base - 1, NEW d \in 0 .. base - 1,
         NEW low \in Nat, NEW high \in Nat, low + high * base = (a * b + c) + d
  PROVE  high <= base - 1
<1> SUFFICES ASSUME ~(high <= base - 1) PROVE FALSE
  OBVIOUS
<1>1. base - 1 \in Nat /\ a \in Nat /\ b \in Nat /\ a <= base - 1 /\ b <= base - 1
      /\ c \in Nat /\ d \in Nat /\ c <= base - 1 /\ d <= base - 1 /\ base <= high
  OBVIOUS
<1>2. a * b <= (base - 1) * b
  BY <1>1, TimesMonotone
<1>3. b * (base - 1) <= (base - 1) * (base - 1)
  BY <1>1, TimesMonotone
<1>4. base * base <= high * base
  BY <1>1, TimesMonotone
<1>5. b * (base - 1) = (base - 1) * b
      /\ base * base = (((base - 1) * (base - 1) + (base - 1)) + (base - 1)) + 1
  BY <1>1
<1>6. PICK p \in Int : p = (base - 1) * (base - 1)
  BY <1>1
<1>7. PICK q \in Int : q = high * base
  OBVIOUS
<1>8. PICK r \in Int : r = a * b
  BY <1>1
<1>9. PICK t \in Int : t = (base - 1) * b
  BY <1>1
<1>10. PICK u \in Int : u = base * base
  OBVIOUS
<1>11. r <= t /\ t <= p /\ u <= q /\ low + q = (r + c) + d /\ u = ((p + (base - 1)) + (base - 1)) + 1
  BY <1>2, <1>3, <1>4, <1>5, <1>6, <1>7, <1>8, <1>9, <1>10
<1> QED
  BY <1>1, <1>11
-----------------------------------------------------------------------------
(* The school product *)

(* Limbs in a buffer of n. *)
Buffer(n) == {s \in Limbs : Len(s) = n}

(* One limb of a buffer replaced. *)
PutAt(t, s, k, x) == t = [s EXCEPT ![k + 1] = x]

(* The buffer keeps its length, and differs by what the place counts. *)
LEMMA ReplaceLimb ==
  ASSUME NEW n \in Nat, NEW s \in Buffer(n), NEW k \in Nat, k + 1 <= n, NEW x \in Limb,
         NEW t, PutAt(t, s, k, x)
  PROVE  /\ t \in Buffer(n)
         /\ LimbAt(t, k + 1) = x
         /\ \A i \in Nat : i # k + 1 => LimbAt(t, i) = LimbAt(s, i)
         /\ Low(t, n) + LimbAt(s, k + 1) * Weight(k) = Low(s, n) + x * Weight(k)
<1>1. s \in Seq(Limb) /\ Len(s) = n /\ k + 1 \in 1 .. n /\ s \in Limbs
  BY DEF Buffer, Limbs
<1>2. /\ t \in Seq(Limb) /\ Len(t) = n
      /\ \A i \in 1 .. n : t[i] = IF i = k + 1 THEN x ELSE s[i]
  BY <1>1, ExceptSeq DEF PutAt
<1>3. t \in Limbs
  BY <1>2 DEF Limbs
<1>4. LimbAt(t, k + 1) = x
  BY <1>1, <1>2, <1>3, LimbAtPlace
<1>5. ASSUME NEW i \in Nat, i # k + 1 PROVE LimbAt(t, i) = LimbAt(s, i)
  <2>1. CASE i \in 1 .. n
    BY <1>1, <1>2, <1>3, <1>5, <2>1, LimbAtPlace
  <2>2. CASE i \notin 1 .. n
    <3>1. i \notin DOMAIN s /\ i \notin DOMAIN t
      BY <1>1, <1>2, <2>2, LenProperties
    <3> QED
      BY <3>1 DEF LimbAt
  <2> QED
    BY <2>1, <2>2
<1>6. Replaced(t, s, k)
  BY <1>5 DEF Replaced
<1>7. Low(t, n) + LimbAt(s, k + 1) * Weight(k) = Low(s, n) + LimbAt(t, k + 1) * Weight(k)
  BY <1>1, <1>3, <1>6, LowReplaced
<1> QED
  BY <1>1, <1>2, <1>3, <1>4, <1>5, <1>7 DEF Buffer

(* A buffer that has been cleared. *)
LEMMA ZerosFacts ==
  ASSUME NEW n \in Nat
  PROVE  /\ Zeros(n) \in Buffer(n)
         /\ \A i \in Nat : LimbAt(Zeros(n), i) = 0
         /\ Low(Zeros(n), n) = 0
<1> DEFINE z == Zeros(n)
<1>1. z = [i \in 1 .. n |-> 0] /\ 0 \in Limb
  BY BaseFacts DEF Zeros, Limb
<1>2. z \in Seq(Limb) /\ Len(z) = n
  BY <1>1, IsASeq, LenProperties
<1>3. \A i \in Nat : LimbAt(z, i) = 0
  BY <1>1 DEF LimbAt
<1> HIDE DEF z
<1>4. z \in Limbs
  BY <1>2 DEF Limbs
<1>5. \A i \in 0 + 1 .. n : LimbAt(z, i) = 0
  BY <1>3
<1>6. Low(z, n) = Low(z, 0) /\ Low(z, 0) = 0
  BY <1>4, <1>5, LowZeros, LowFacts
<1> QED
  BY <1>2, <1>3, <1>4, <1>6 DEF z, Buffer

(* A limb of a product, added into a buffer with a carry. *)
ProductLimb(limb, next, x, y, z, carry) == limb + next * Base = (x * y + z) + carry

(* The limb that is stored and the carry are the product, the limb that was
   there and the carry that came: two wraps at most, and each is seen. *)
LEMMA RowLimbExact ==
  ASSUME NEW x \in Limb, NEW y \in Limb, NEW z \in Limb, NEW c \in Limb
  PROVE  LET p == MultiplyLimbs(x, y)
             sum == (z + p.low) % Base
             next == (sum + c) % Base
             carry == p.high + (IF sum < p.low THEN 1 ELSE 0) + (IF next < sum THEN 1 ELSE 0)
         IN  next \in Limb /\ carry \in Limb /\ ProductLimb(next, carry, x, y, z, c)
<1> DEFINE p == MultiplyLimbs(x, y)
<1>1. p.low \in Limb /\ p.high \in 0 .. Base - 2 /\ p.low + p.high * Base = x * y
  BY MultiplyLimbsExact
<1> HIDE DEF p
<1>2. PICK low \in Limb : low = p.low
  BY <1>1
<1>3. PICK high \in 0 .. Base - 2 : high = p.high
  BY <1>1
<1>4. PICK sum \in Limb : sum = (z + low) % Base /\ sum + (IF sum < low THEN 1 ELSE 0) * Base = z + low
  BY Wraps
<1>5. PICK next \in Limb : next = (sum + c) % Base /\ next + (IF next < sum THEN 1 ELSE 0) * Base = sum + c
  BY Wraps
<1>6. PICK d \in 0 .. 1 : d = (IF sum < low THEN 1 ELSE 0)
  OBVIOUS
<1>7. PICK e \in 0 .. 1 : e = (IF next < sum THEN 1 ELSE 0)
  OBVIOUS
<1>8. Base \in Nat /\ Base >= 4
  BY BaseFacts
<1>9. /\ x \in 0 .. Base - 1 /\ y \in 0 .. Base - 1 /\ z \in 0 .. Base - 1 /\ c \in 0 .. Base - 1
      /\ low \in Nat /\ sum \in Nat /\ next \in Nat /\ high \in Nat
  BY <1>8 DEF Limb
<1>10. PICK carry \in Nat : carry = high + d + e
  BY <1>9
<1>11. next + carry * Base = (x * y + z) + c
  <2>1. carry * Base = (high * Base + d * Base) + e * Base
    <3>1. (high + d + e) * Base = (high * Base + d * Base) + e * Base
      BY <1>8, <1>9
    <3> QED
      BY <1>10, <3>1
  <2>2. sum + d * Base = z + low /\ next + e * Base = sum + c
    BY <1>4, <1>5, <1>6, <1>7, Zenon
  <2>3. PICK m \in Int : m = x * y
    BY <1>9
  <2>4. PICK t \in Int : t = high * Base
    BY <1>8, <1>9
  <2>5. PICK u \in Int : u = d * Base
    BY <1>8
  <2>6. PICK v \in Int : v = e * Base
    BY <1>8
  <2>7. low + t = m
    BY <1>1, <1>2, <1>3, <2>3, <2>4
  <2>8. carry * Base = (t + u) + v /\ sum + u = z + low /\ next + v = sum + c
    BY <2>1, <2>2, <2>4, <2>5, <2>6
  <2>9. next + ((t + u) + v) = (m + z) + c
    BY <1>9, <2>7, <2>8
  <2> QED
    BY <2>3, <2>8, <2>9
<1>12. carry <= Base - 1
  BY <1>8, <1>9, <1>10, <1>11, ProductAndTwo
<1>13. carry \in Limb
  BY <1>8, <1>10, <1>12 DEF Limb
<1>14. /\ next = (((z + p.low) % Base) + c) % Base
       /\ carry = p.high + (IF (z + p.low) % Base < p.low THEN 1 ELSE 0) + (IF next < (z + p.low) % Base THEN 1 ELSE 0)
  BY <1>2, <1>3, <1>4, <1>5, <1>6, <1>7, <1>10, Zenon
<1> QED
  BY <1>11, <1>13, <1>14, Zenon DEF p, ProductLimb

(* A turn of the row of y, the limb of the second factor in place `row'. *)
Rows(n) == [limbs : Buffer(n), carry : Limb]
RowTurn(a, y, row, state, j) ==
  LET p == MultiplyLimbs(a[j], y)
      sum == (state.limbs[row + j - 1] + p.low) % Base
      next == (sum + state.carry) % Base
  IN  [limbs |-> [state.limbs EXCEPT ![row + j - 1] = next],
       carry |-> p.high + (IF sum < p.low THEN 1 ELSE 0) + (IF next < sum THEN 1 ELSE 0)]

(* What it does to the buffer and the carry. *)
Turned(next, carry, a, y, o, j, l, c) ==
  /\ RowTurn(a, y, o + 1, [limbs |-> l, carry |-> c], j + 1)
       = [limbs |-> [l EXCEPT ![(o + j) + 1] = next], carry |-> carry]
  /\ ProductLimb(next, carry, LimbAt(a, j + 1), y, LimbAt(l, (o + j) + 1), c)

(* A turn of a row stores one such limb. *)
LEMMA RowTurnExact ==
  ASSUME NEW n \in Nat, NEW a \in Limbs, NEW y \in Limb, NEW o \in Nat, NEW j \in Nat,
         j + 1 <= Len(a), (o + j) + 1 <= n, NEW l \in Buffer(n), NEW c \in Limb
  PROVE  \E next \in Limb, carry \in Limb : Turned(next, carry, a, y, o, j, l, c)
<1>1. l \in Limbs /\ Len(l) = n
  BY DEF Buffer
<1>2. PICK x \in Limb : x = a[j + 1] /\ x = LimbAt(a, j + 1)
  <2>1. j + 1 \in 1 .. Len(a) /\ j + 1 \in Int
    BY LimbAtPlace
  <2>2. LimbAt(a, j + 1) \in Limb
    BY <2>1, LimbAtType
  <2> QED
    BY <2>1, <2>2, LimbAtPlace
<1>3. PICK z \in Limb : z = l[(o + j) + 1] /\ z = LimbAt(l, (o + j) + 1)
  <2>1. (o + j) + 1 \in 1 .. Len(l) /\ (o + j) + 1 \in Int
    BY <1>1
  <2>2. LimbAt(l, (o + j) + 1) \in Limb
    BY <1>1, <2>1, LimbAtType
  <2> QED
    BY <1>1, <2>1, <2>2, LimbAtPlace
<1> DEFINE p == MultiplyLimbs(x, y)
           sum == (z + p.low) % Base
           next == (sum + c) % Base
           carry == p.high + (IF sum < p.low THEN 1 ELSE 0) + (IF next < sum THEN 1 ELSE 0)
<1>4. next \in Limb /\ carry \in Limb /\ ProductLimb(next, carry, x, y, z, c)
  BY RowLimbExact
<1>5. (o + 1) + (j + 1) - 1 = (o + j) + 1
  OBVIOUS
<1>6. RowTurn(a, y, o + 1, [limbs |-> l, carry |-> c], j + 1)
        = [limbs |-> [l EXCEPT ![(o + j) + 1] = next], carry |-> carry]
  BY <1>2, <1>3, <1>5, Zenon DEF RowTurn
<1> HIDE DEF next, carry
<1>7. Turned(next, carry, a, y, o, j, l, c)
  BY <1>2, <1>3, <1>4, <1>6, Zenon DEF Turned
<1> QED
  BY <1>4, <1>7

(* The row added into a product. *)
Row(a, y, row, product) ==
  Loop(Len(a), [limbs |-> product, carry |-> 0], LAMBDA state, j : RowTurn(a, y, row, state, j))

(* f is what the loop of the row has come to after i turns. *)
RowCourse(f, a, y, row, product, n) ==
  f = [i \in 0 .. Len(a) |-> IF i = 0 THEN [limbs |-> product, carry |-> 0] ELSE RowTurn(a, y, row, f[i - 1], i)]

(* The row is what its loop ends with. *)
LEMMA RowUnfolded ==
  ASSUME NEW a, NEW y, NEW row, NEW product, NEW n
  PROVE  Row(a, y, row, product) = (CHOOSE f : RowCourse(f, a, y, row, product, n))[Len(a)]
  BY Zenon DEF Row, Loop, RowCourse

(* f is the course of a row, within its type. *)
RowRuns(f, n, a, y, row, product) ==
  /\ f \in [0 .. Len(a) -> Rows(n)]
  /\ f[0] = [limbs |-> product, carry |-> 0]
  /\ \A i \in 1 .. Len(a) : f[i] = RowTurn(a, y, row, f[i - 1], i)
  /\ Row(a, y, row, product) = f[Len(a)]

(* It stays within its type, turn by turn. *)
LEMMA RowLoop ==
  ASSUME NEW n \in Nat,
         NEW a \in Limbs,
         NEW y \in Limb,
         NEW row \in Nat \ {0},
         row + Len(a) <= n,
         NEW product \in Buffer(n)
  PROVE  \E f : RowRuns(f, n, a, y, row, product)
<1>1. Len(a) \in Nat /\ [limbs |-> product, carry |-> 0] \in Rows(n)
  <2>1. 0 \in Limb
    BY BaseFacts DEF Limb
  <2> QED
    BY <2>1, LimbAtPlace DEF Rows
<1> DEFINE T == [i \in 1 .. Len(a) |-> [r \in Rows(n) |-> RowTurn(a, y, row, r, i)]]
<1>2. ASSUME NEW i \in 1 .. Len(a), NEW r \in Rows(n) PROVE RowTurn(a, y, row, r, i) \in Rows(n)
  <2>1. PICK o \in Nat : row = o + 1
    <3>1. row - 1 \in Nat /\ row = (row - 1) + 1
      OBVIOUS
    <3> QED
      BY <3>1
  <2>2. PICK j \in Nat : i = j + 1
    <3>1. i - 1 \in Nat /\ i = (i - 1) + 1
      BY <1>1
    <3> QED
      BY <3>1
  <2>3. j + 1 <= Len(a) /\ (o + j) + 1 <= n
    BY <1>1, <2>1, <2>2
  <2>4. PICK l \in Buffer(n), c \in Limb : r = [limbs |-> l, carry |-> c]
    BY DEF Rows
  <2>5. PICK next \in Limb, carry \in Limb :
          RowTurn(a, y, o + 1, [limbs |-> l, carry |-> c], j + 1)
            = [limbs |-> [l EXCEPT ![(o + j) + 1] = next], carry |-> carry]
    <3>1. \E next \in Limb, carry \in Limb : Turned(next, carry, a, y, o, j, l, c)
      BY <2>3, RowTurnExact
    <3> QED
      BY <3>1, Zenon DEF Turned
  <2>6. [l EXCEPT ![(o + j) + 1] = next] \in Buffer(n)
    <3>1. o + j \in Nat
      OBVIOUS
    <3>2. PICK t : PutAt(t, l, o + j, next)
      BY Zenon DEF PutAt
    <3>3. t \in Buffer(n)
      BY <2>3, <3>1, <3>2, ReplaceLimb
    <3> QED
      BY <3>2, <3>3, Zenon DEF PutAt
  <2>7. RowTurn(a, y, row, r, i) = [limbs |-> [l EXCEPT ![(o + j) + 1] = next], carry |-> carry]
    BY <2>1, <2>2, <2>4, <2>5, Zenon
  <2> QED
    BY <2>6, <2>7 DEF Rows
<1>3. T \in Turns(Len(a), Rows(n))
  BY <1>2 DEF Turns
<1>4. \A i \in 1 .. Len(a), r \in Rows(n) : T[i][r] = RowTurn(a, y, row, r, i)
  OBVIOUS
<1> HIDE DEF T
<1>5. PICK f : Course(f, Len(a), Rows(n), [limbs |-> product, carry |-> 0], T)
  BY <1>1, <1>3, Iterates
<1>6. f \in [0 .. Len(a) -> Rows(n)] /\ f[0] = [limbs |-> product, carry |-> 0] /\ \A i \in 1 .. Len(a) : f[i] = T[i][f[i - 1]]
  BY <1>5 DEF Course
<1>7. \A i \in 0 .. Len(a) : i # 0 => i \in 1 .. Len(a) /\ i - 1 \in 0 .. Len(a)
  BY <1>1
<1>8. \A i \in 0 .. Len(a) : f[i] = IF i = 0 THEN [limbs |-> product, carry |-> 0] ELSE RowTurn(a, y, row, f[i - 1], i)
  <2> SUFFICES ASSUME NEW i \in 0 .. Len(a), i # 0 PROVE f[i] = RowTurn(a, y, row, f[i - 1], i)
    BY <1>6, Zenon
  <2>1. i \in 1 .. Len(a) /\ f[i - 1] \in Rows(n)
    BY <1>6, <1>7
  <2> QED
    BY <1>4, <1>6, <2>1, Zenon
<1>9. f = [i \in 0 .. Len(a) |-> IF i = 0 THEN [limbs |-> product, carry |-> 0] ELSE RowTurn(a, y, row, f[i - 1], i)]
  <2>1. f = [i \in 0 .. Len(a) |-> f[i]]
    BY <1>6
  <2> QED
    BY <1>8, <2>1, Zenon
<1>10. RowCourse(f, a, y, row, product, n)
  BY <1>9, Zenon DEF RowCourse
<1>11. PICK g : g = CHOOSE h : RowCourse(h, a, y, row, product, n)
  OBVIOUS
<1>12. RowCourse(g, a, y, row, product, n) /\ Row(a, y, row, product) = g[Len(a)]
  BY <1>10, <1>11, RowUnfolded, Zenon
<1>13. g = [i \in 0 .. Len(a) |-> IF i = 0 THEN [limbs |-> product, carry |-> 0] ELSE RowTurn(a, y, row, g[i - 1], i)]
  BY <1>12, Zenon DEF RowCourse
<1>14. \A i \in 0 .. Len(a) : g[i] = IF i = 0 THEN [limbs |-> product, carry |-> 0] ELSE RowTurn(a, y, row, g[i - 1], i)
  BY <1>13, Zenon
<1>15. g = [i \in 0 .. Len(a) |-> g[i]]
  BY <1>13, <1>14, Zenon
<1>16. g[0] = [limbs |-> product, carry |-> 0] /\ \A i \in 1 .. Len(a) : g[i] = RowTurn(a, y, row, g[i - 1], i)
  <2>1. 0 \in 0 .. Len(a) /\ \A i \in 1 .. Len(a) : i \in 0 .. Len(a) /\ i # 0
    BY <1>1
  <2> QED
    BY <1>14, <2>1, Zenon
<1>17. \A i \in 1 .. Len(a) : g[i - 1] \in Rows(n) => g[i] = T[i][g[i - 1]]
  BY <1>4, <1>16, Zenon
<1>18. Course(g, Len(a), Rows(n), [limbs |-> product, carry |-> 0], T)
  BY <1>1, <1>3, <1>15, <1>16, <1>17, RunsItsCourse
<1>19. g \in [0 .. Len(a) -> Rows(n)]
  BY <1>18 DEF Course
<1>20. RowRuns(g, n, a, y, row, product)
  BY <1>12, <1>16, <1>19, Zenon DEF RowRuns
<1> QED
  BY <1>20, Zenon

(* What a row has come to after some limbs: w is the place of the row, wj that
   of the limb, w * wj the place of their product. *)
RowSum(low, carry, place, start, multiplied) == low + carry * place = start + multiplied

(* One limb more of a row. *)
LEMMA RowPlace ==
  ASSUME NEW low \in Int, NEW carry \in Int, NEW w \in Int, NEW wj \in Int, NEW start \in Int,
         NEW la \in Int, NEW y \in Int, RowSum(low, carry, w * wj, start, (la * y) * w),
         NEW next \in Int, NEW after \in Int, NEW x \in Int, NEW z \in Int,
         ProductLimb(next, after, x, y, z, carry),
         NEW base \in Int, base = Base,
         NEW new \in Int, new + z * (w * wj) = low + next * (w * wj)
  PROVE  RowSum(new, after, base * (w * wj), start, ((la + x * wj) * y) * w)
<1>1. PICK p \in Int : p = w * wj
  OBVIOUS
<1>2. (next + after * base) * p = ((x * y + z) + carry) * p
  BY Zenon DEF ProductLimb
<1>3. /\ (next + after * base) * p = next * p + after * (base * p)
      /\ ((x * y + z) + carry) * p = ((x * y) * p + z * p) + carry * p
  OBVIOUS
<1>4. (x * y) * p = ((x * wj) * y) * w
  <2>1. (x * y) * (w * wj) = ((x * wj) * y) * w
    OBVIOUS
  <2> QED
    BY <1>1, <2>1, Zenon
<1>5. ((la + x * wj) * y) * w = (la * y) * w + ((x * wj) * y) * w
  OBVIOUS
<1>6. PICK t1 \in Int : t1 = next * p
  OBVIOUS
<1>7. PICK t2 \in Int : t2 = after * (base * p)
  OBVIOUS
<1>8. PICK t3 \in Int : t3 = z * p
  OBVIOUS
<1>9. PICK t4 \in Int : t4 = carry * p
  OBVIOUS
<1>10. PICK t5 \in Int : t5 = ((x * wj) * y) * w
  OBVIOUS
<1>11. PICK t6 \in Int : t6 = (la * y) * w
  OBVIOUS
<1>12. /\ low + t4 = start + t6 /\ t1 + t2 = (t5 + t3) + t4 /\ new + t3 = low + t1
       /\ ((la + x * wj) * y) * w = t6 + t5
  BY <1>1, <1>2, <1>3, <1>4, <1>5, <1>6, <1>7, <1>8, <1>9, <1>10, <1>11, Zenon DEF RowSum
<1>13. new + t2 = start + (t6 + t5)
  BY <1>12
<1> QED
  BY <1>1, <1>7, <1>12, <1>13, Zenon DEF RowSum

(* A row adds a limb's multiple at its place, and leaves what is above it. *)
RowDone(l, c, n, a, y, o, product) ==
  /\ Row(a, y, o + 1, product) = [limbs |-> l, carry |-> c]
  /\ RowSum(Low(l, n), c, Weight(o + Len(a)), Low(product, n),
            (Low(a, Len(a)) * y) * Weight(o))
  /\ \A p \in Nat : p > o + Len(a) => LimbAt(l, p) = LimbAt(product, p)

(* A row does so. *)
LEMMA RowExact ==
  ASSUME NEW n \in Nat, NEW a \in Limbs, NEW y \in Limb, NEW o \in Nat,
         (o + 1) + Len(a) <= n, NEW product \in Buffer(n)
  PROVE  \E l \in Buffer(n), c \in Limb : RowDone(l, c, n, a, y, o, product)
<1>1. PICK m \in Nat : m = Len(a)
  BY LimbAtPlace
<1>2. PICK f \in [0 .. m -> Rows(n)] :
        /\ f[0] = [limbs |-> product, carry |-> 0]
        /\ \A i \in 1 .. m : f[i] = RowTurn(a, y, o + 1, f[i - 1], i)
        /\ Row(a, y, o + 1, product) = f[m]
  <2>1. o + 1 \in Nat \ {0}
    OBVIOUS
  <2>2. \E f : RowRuns(f, n, a, y, o + 1, product)
    BY <2>1, RowLoop
  <2> QED
    BY <1>1, <2>2, Zenon DEF RowRuns
<1> DEFINE C == {k \in 0 .. m :
             \E l \in Buffer(n), c \in Limb :
               /\ f[k] = [limbs |-> l, carry |-> c]
               /\ RowSum(Low(l, n), c, Weight(o) * Weight(k), Low(product, n),
                         (Low(a, k) * y) * Weight(o))
               /\ \A p \in Nat : p > o + k => LimbAt(l, p) = LimbAt(product, p)}
<1>3. 0 \in C
  <2>1. 0 \in Limb /\ y \in Int
    BY BaseFacts DEF Limb
  <2>2. Low(a, 0) = 0 /\ Weight(0) \in Nat /\ Weight(o) \in Nat
    BY LowFacts, WeightFacts
  <2>3. product \in Limbs
    BY DEF Buffer
  <2>4. Low(product, n) \in Nat
    BY <2>3, LowType
  <2>5. 0 * (Weight(o) * Weight(0)) = 0 /\ (0 * y) * Weight(o) = 0
    BY <2>1, <2>2
  <2>6. RowSum(Low(product, n), 0, Weight(o) * Weight(0), Low(product, n),
               (Low(a, 0) * y) * Weight(o))
    BY <2>2, <2>4, <2>5 DEF RowSum
  <2> QED
    BY <1>2, <2>1, <2>6
<1>4. ASSUME NEW k \in 0 .. m - 1, k \in C PROVE k + 1 \in C
  <2>1. /\ k \in Nat /\ k + 1 \in 1 .. m /\ (k + 1) - 1 = k /\ k + 1 \in 0 .. m
        /\ k + 1 <= Len(a) /\ (o + k) + 1 <= n /\ o + k \in Nat
    BY <1>1
  <2>2. PICK l \in Buffer(n), c \in Limb :
          /\ f[k] = [limbs |-> l, carry |-> c]
          /\ RowSum(Low(l, n), c, Weight(o) * Weight(k), Low(product, n),
                    (Low(a, k) * y) * Weight(o))
          /\ \A p \in Nat : p > o + k => LimbAt(l, p) = LimbAt(product, p)
    BY <1>4
  <2> HIDE DEF C
  <2>3. PICK next \in Limb, carry \in Limb :
          /\ RowTurn(a, y, o + 1, [limbs |-> l, carry |-> c], k + 1)
               = [limbs |-> [l EXCEPT ![(o + k) + 1] = next], carry |-> carry]
          /\ ProductLimb(next, carry, LimbAt(a, k + 1), y, LimbAt(l, (o + k) + 1), c)
    <3>1. \E next \in Limb, carry \in Limb : Turned(next, carry, a, y, o, k, l, c)
      BY <2>1, RowTurnExact
    <3> QED
      BY <3>1, Zenon DEF Turned
  <2>4. PICK t : t = [l EXCEPT ![(o + k) + 1] = next]
    OBVIOUS
  <2>5. /\ t \in Buffer(n)
        /\ \A i \in Nat : i # (o + k) + 1 => LimbAt(t, i) = LimbAt(l, i)
        /\ Low(t, n) + LimbAt(l, (o + k) + 1) * Weight(o + k) = Low(l, n) + next * Weight(o + k)
    <3>1. PutAt(t, l, o + k, next)
      BY <2>4, Zenon DEF PutAt
    <3> QED
      BY <2>1, <3>1, ReplaceLimb
  <2>6. f[k + 1] = [limbs |-> t, carry |-> carry]
    <3>1. f[k + 1] = RowTurn(a, y, o + 1, f[k], k + 1)
      BY <1>2, <2>1
    <3> QED
      BY <2>2, <2>3, <2>4, <3>1, Zenon
  <2>7. \A p \in Nat : p > o + (k + 1) => LimbAt(t, p) = LimbAt(product, p)
    BY <2>1, <2>2, <2>5
  <2>8. PICK x \in Limb : x = LimbAt(a, k + 1)
    BY <2>1, LimbAtType
  <2>9. PICK z \in Limb : z = LimbAt(l, (o + k) + 1)
    <3>1. l \in Limbs /\ (o + k) + 1 \in Int
      BY <2>1 DEF Buffer
    <3> QED
      BY <3>1, LimbAtType
  <2>10. Weight(o + k) = Weight(o) * Weight(k)
    BY <2>1, WeightsMultiply
  <2>11. RowSum(Low(t, n), carry, Base * (Weight(o) * Weight(k)), Low(product, n),
                ((Low(a, k) + x * Weight(k)) * y) * Weight(o))
    <3>1. l \in Limbs /\ t \in Limbs /\ product \in Limbs
      BY <2>5 DEF Buffer
    <3>2. /\ Low(l, n) \in Nat /\ Low(t, n) \in Nat /\ Low(product, n) \in Nat /\ Low(a, k) \in Nat
          /\ Weight(o) \in Nat /\ Weight(k) \in Nat /\ Base \in Nat
      BY <2>1, <3>1, LowType, WeightFacts, BaseFacts
    <3>3. /\ Low(l, n) \in Int /\ Low(t, n) \in Int /\ Low(product, n) \in Int /\ Low(a, k) \in Int
          /\ Weight(o) \in Int /\ Weight(k) \in Int /\ Base \in Int
      BY <3>2
    <3>4. x \in Int /\ y \in Int /\ z \in Int /\ c \in Int /\ next \in Int /\ carry \in Int
      BY <3>2 DEF Limb
    <3>5. ProductLimb(next, carry, x, y, z, c)
      BY <2>3, <2>8, <2>9, Zenon
    <3>6. Low(t, n) + z * (Weight(o) * Weight(k)) = Low(l, n) + next * (Weight(o) * Weight(k))
      BY <2>5, <2>9, <2>10, Zenon
    <3> QED
      BY <2>2, <3>3, <3>4, <3>5, <3>6, RowPlace
  <2>12. RowSum(Low(t, n), carry, Weight(o) * Weight(k + 1), Low(product, n),
                (Low(a, k + 1) * y) * Weight(o))
    <3>1. Low(a, k + 1) = Low(a, k) + x * Weight(k)
      BY <2>1, <2>8, LowFacts
    <3>2. Base * (Weight(o) * Weight(k)) = Weight(o) * Weight(k + 1)
      <4>1. Weight(k + 1) = Base * Weight(k) /\ Weight(k) \in Nat /\ Weight(o) \in Nat /\ Base \in Nat
        BY <2>1, WeightFacts, BaseFacts
      <4>2. Base * (Weight(o) * Weight(k)) = Weight(o) * (Base * Weight(k))
        BY <4>1
      <4> QED
        BY <4>1, <4>2, Zenon
    <3> QED
      BY <2>11, <3>1, <3>2, Zenon
  <2> QED
    BY <2>1, <2>5, <2>6, <2>7, <2>12, Zenon DEF C
<1>5. m \in C
  <2>1. \A k \in 0 .. m : k \in C
    <3> HIDE DEF C
    <3> QED
      BY <1>3, <1>4, Induction
  <2> QED
    BY <2>1
<1>6. PICK l \in Buffer(n), c \in Limb :
        /\ f[m] = [limbs |-> l, carry |-> c]
        /\ RowSum(Low(l, n), c, Weight(o) * Weight(m), Low(product, n),
                  (Low(a, m) * y) * Weight(o))
        /\ \A p \in Nat : p > o + m => LimbAt(l, p) = LimbAt(product, p)
  BY <1>5
<1>7. Weight(o + m) = Weight(o) * Weight(m)
  BY WeightsMultiply
<1>8. RowDone(l, c, n, a, y, o, product)
  BY <1>1, <1>2, <1>6, <1>7, Zenon DEF RowDone
<1> QED
  BY <1>8

(* A turn of the school product: the row of a limb of b, and its carry. *)
SchoolTurn(a, b, product, i) ==
  LET row == Row(a, b[i], i, product)
  IN  [row.limbs EXCEPT ![i + Len(a)] = row.carry]

(* f is what the loop over the rows has come to after i turns. *)
SchoolCourse(f, a, b) ==
  f = [i \in 0 .. Len(b) |-> IF i = 0 THEN Zeros(Len(a) + Len(b)) ELSE SchoolTurn(a, b, f[i - 1], i)]

(* The school product is what its loop ends with. *)
LEMMA SchoolUnfolded ==
  ASSUME NEW a, NEW b
  PROVE  School(a, b) = (CHOOSE f : SchoolCourse(f, a, b))[Len(b)]
  BY Zenon DEF School, SchoolTurn, Row, RowTurn, Loop, SchoolCourse

(* It stays within its type, turn by turn. *)
LEMMA SchoolLoop ==
  ASSUME NEW a \in Limbs,
         NEW b \in Limbs
  PROVE  \E f \in [0 .. Len(b) -> Buffer(Len(a) + Len(b))] :
           /\ f[0] = Zeros(Len(a) + Len(b))
           /\ \A i \in 1 .. Len(b) : f[i] = SchoolTurn(a, b, f[i - 1], i)
           /\ School(a, b) = f[Len(b)]
<1>1. Len(b) \in Nat /\ Zeros(Len(a) + Len(b)) \in Buffer(Len(a) + Len(b))
  BY LimbAtPlace, ZerosFacts
<1> DEFINE T == [i \in 1 .. Len(b) |-> [r \in Buffer(Len(a) + Len(b)) |-> SchoolTurn(a, b, r, i)]]
<1>2. ASSUME NEW i \in 1 .. Len(b), NEW r \in Buffer(Len(a) + Len(b)) PROVE SchoolTurn(a, b, r, i) \in Buffer(Len(a) + Len(b))
  <2>1. PICK n \in Nat : n = Len(a) + Len(b)
    BY LimbAtPlace
  <2>2. PICK o \in Nat : i = o + 1 /\ (o + 1) + Len(a) <= n /\ o + Len(a) \in Nat
                         /\ (o + Len(a)) + 1 <= n /\ (o + 1) + Len(a) = (o + Len(a)) + 1
    <3>1. Len(a) \in Nat /\ Len(b) \in Nat
      BY LimbAtPlace
    <3>2. i - 1 \in Nat /\ i = (i - 1) + 1 /\ i + Len(a) <= n
      BY <2>1, <3>1
    <3> QED
      BY <2>1, <3>1, <3>2
  <2>3. b[i] \in Limb
    BY ElementOfSeq DEF Limbs
  <2>4. PICK l \in Buffer(n), c \in Limb : Row(a, b[i], i, r) = [limbs |-> l, carry |-> c]
    <3>1. PICK y \in Limb : y = b[i]
      BY <2>3
    <3>2. r \in Buffer(n)
      BY <2>1
    <3>3. \E l \in Buffer(n), c \in Limb : RowDone(l, c, n, a, y, o, r)
      BY <2>2, <3>2, RowExact
    <3> QED
      BY <2>2, <3>1, <3>3, Zenon DEF RowDone
  <2>5. SchoolTurn(a, b, r, i) = [l EXCEPT ![i + Len(a)] = c]
    BY <2>4 DEF SchoolTurn
  <2>6. [l EXCEPT ![(o + Len(a)) + 1] = c] \in Buffer(n)
    <3>1. PICK t : PutAt(t, l, o + Len(a), c)
      BY Zenon DEF PutAt
    <3>2. t \in Buffer(n)
      BY <2>2, <3>1, ReplaceLimb
    <3> QED
      BY <3>1, <3>2, Zenon DEF PutAt
  <2> QED
    BY <2>1, <2>2, <2>5, <2>6, Zenon
<1>3. T \in Turns(Len(b), Buffer(Len(a) + Len(b)))
  BY <1>2 DEF Turns
<1>4. \A i \in 1 .. Len(b), r \in Buffer(Len(a) + Len(b)) : T[i][r] = SchoolTurn(a, b, r, i)
  OBVIOUS
<1> HIDE DEF T
<1>5. PICK f : Course(f, Len(b), Buffer(Len(a) + Len(b)), Zeros(Len(a) + Len(b)), T)
  BY <1>1, <1>3, Iterates
<1>6. f \in [0 .. Len(b) -> Buffer(Len(a) + Len(b))] /\ f[0] = Zeros(Len(a) + Len(b)) /\ \A i \in 1 .. Len(b) : f[i] = T[i][f[i - 1]]
  BY <1>5 DEF Course
<1>7. \A i \in 0 .. Len(b) : i # 0 => i \in 1 .. Len(b) /\ i - 1 \in 0 .. Len(b)
  BY <1>1
<1>8. \A i \in 0 .. Len(b) : f[i] = IF i = 0 THEN Zeros(Len(a) + Len(b)) ELSE SchoolTurn(a, b, f[i - 1], i)
  <2> SUFFICES ASSUME NEW i \in 0 .. Len(b), i # 0 PROVE f[i] = SchoolTurn(a, b, f[i - 1], i)
    BY <1>6, Zenon
  <2>1. i \in 1 .. Len(b) /\ f[i - 1] \in Buffer(Len(a) + Len(b))
    BY <1>6, <1>7
  <2> QED
    BY <1>4, <1>6, <2>1, Zenon
<1>9. f = [i \in 0 .. Len(b) |-> IF i = 0 THEN Zeros(Len(a) + Len(b)) ELSE SchoolTurn(a, b, f[i - 1], i)]
  <2>1. f = [i \in 0 .. Len(b) |-> f[i]]
    BY <1>6
  <2> QED
    BY <1>8, <2>1, Zenon
<1>10. SchoolCourse(f, a, b)
  BY <1>9, Zenon DEF SchoolCourse
<1>11. PICK g : g = CHOOSE h : SchoolCourse(h, a, b)
  OBVIOUS
<1>12. SchoolCourse(g, a, b) /\ School(a, b) = g[Len(b)]
  BY <1>10, <1>11, SchoolUnfolded, Zenon
<1>13. g = [i \in 0 .. Len(b) |-> IF i = 0 THEN Zeros(Len(a) + Len(b)) ELSE SchoolTurn(a, b, g[i - 1], i)]
  BY <1>12, Zenon DEF SchoolCourse
<1>14. \A i \in 0 .. Len(b) : g[i] = IF i = 0 THEN Zeros(Len(a) + Len(b)) ELSE SchoolTurn(a, b, g[i - 1], i)
  BY <1>13, Zenon
<1>15. g = [i \in 0 .. Len(b) |-> g[i]]
  BY <1>13, <1>14, Zenon
<1>16. g[0] = Zeros(Len(a) + Len(b)) /\ \A i \in 1 .. Len(b) : g[i] = SchoolTurn(a, b, g[i - 1], i)
  <2>1. 0 \in 0 .. Len(b) /\ \A i \in 1 .. Len(b) : i \in 0 .. Len(b) /\ i # 0
    BY <1>1
  <2> QED
    BY <1>14, <2>1, Zenon
<1>17. \A i \in 1 .. Len(b) : g[i - 1] \in Buffer(Len(a) + Len(b)) => g[i] = T[i][g[i - 1]]
  BY <1>4, <1>16, Zenon
<1>18. Course(g, Len(b), Buffer(Len(a) + Len(b)), Zeros(Len(a) + Len(b)), T)
  BY <1>1, <1>3, <1>15, <1>16, <1>17, RunsItsCourse
<1>19. g \in [0 .. Len(b) -> Buffer(Len(a) + Len(b))]
  BY <1>18 DEF Course
<1> QED
  BY <1>12, <1>16, <1>19

(* The school method multiplies. *)
THEOREM SchoolProductExact ==
  ASSUME NEW a \in Limbs, NEW b \in Limbs
  PROVE  /\ School(a, b) \in Limbs /\ Len(School(a, b)) = Len(a) + Len(b)
         /\ MagnitudeOf(School(a, b)) = MagnitudeOf(a) * MagnitudeOf(b)
<1>1. PICK m \in Nat : m = Len(a)
  BY LimbAtPlace
<1>2. PICK q \in Nat : q = Len(b)
  BY LimbAtPlace
<1>3. PICK n \in Nat : n = m + q /\ n = Len(a) + Len(b)
  BY <1>1, <1>2
<1>4. PICK f \in [0 .. q -> Buffer(n)] :
        /\ f[0] = Zeros(n)
        /\ \A i \in 1 .. q : f[i] = SchoolTurn(a, b, f[i - 1], i)
        /\ School(a, b) = f[q]
  BY <1>2, <1>3, SchoolLoop
<1> DEFINE Done(s, k) == /\ Low(s, n) = Low(a, m) * Low(b, k)
                         /\ \A p \in Nat : p > m + k => LimbAt(s, p) = 0
           C == {k \in 0 .. q : Done(f[k], k)}
<1>5. PICK whole \in Nat : whole = Low(a, m)
  BY LowType
<1>6. 0 \in C
  <2>1. Low(b, 0) = 0 /\ Low(f[0], n) = 0 /\ \A p \in Nat : LimbAt(f[0], p) = 0
    BY <1>4, LowFacts, ZerosFacts
  <2>2. Low(a, m) * Low(b, 0) = 0
    <3>1. whole * 0 = 0
      OBVIOUS
    <3> QED
      BY <1>5, <2>1, <3>1
  <2> QED
    BY <2>1, <2>2
<1>7. ASSUME NEW k \in 0 .. q - 1, k \in C PROVE k + 1 \in C
  <2>1. /\ k \in Nat /\ k + 1 \in 1 .. q /\ (k + 1) - 1 = k /\ k + 1 \in 0 .. q /\ k \in 0 .. q
        /\ (k + 1) + m <= n /\ k + m \in Nat /\ (k + m) + 1 <= n /\ (k + 1) + m = (k + m) + 1
        /\ k + 1 \in Int
    BY <1>3
  <2>2. PICK s \in Buffer(n) : s = f[k]
    BY <1>4, <2>1
  <2>3. Done(s, k)
    BY <1>7, <2>2
  <2>4. PICK y \in Limb : y = b[k + 1] /\ y = LimbAt(b, k + 1)
    <3>1. LimbAt(b, k + 1) \in Limb
      BY <2>1, LimbAtType
    <3> QED
      BY <1>2, <2>1, <3>1, LimbAtPlace
  <2>5. PICK l \in Buffer(n), c \in Limb :
           /\ Row(a, y, k + 1, s) = [limbs |-> l, carry |-> c]
           /\ RowSum(Low(l, n), c, Weight(k + m), Low(s, n), (Low(a, m) * y) * Weight(k))
           /\ \A p \in Nat : p > k + m => LimbAt(l, p) = LimbAt(s, p)
    <3>1. (k + 1) + Len(a) <= n
      BY <1>1, <2>1
    <3>2. \E l \in Buffer(n), c \in Limb : RowDone(l, c, n, a, y, k, s)
      BY <2>1, <3>1, RowExact
    <3> QED
      BY <1>1, <3>2, Zenon DEF RowDone
  <2>6. PICK t : t = [l EXCEPT ![(k + m) + 1] = c]
    OBVIOUS
  <2>7. /\ t \in Buffer(n)
        /\ \A i \in Nat : i # (k + m) + 1 => LimbAt(t, i) = LimbAt(l, i)
        /\ Low(t, n) + LimbAt(l, (k + m) + 1) * Weight(k + m) = Low(l, n) + c * Weight(k + m)
    <3>1. PutAt(t, l, k + m, c)
      BY <2>6, Zenon DEF PutAt
    <3> QED
      BY <2>1, <3>1, ReplaceLimb
  <2>8. f[k + 1] = t
    <3>1. f[k + 1] = SchoolTurn(a, b, s, k + 1)
      BY <1>4, <2>1, <2>2
    <3>2. Row(a, b[k + 1], k + 1, s).limbs = l /\ Row(a, b[k + 1], k + 1, s).carry = c
      BY <2>4, <2>5
    <3>3. (k + 1) + Len(a) = (k + m) + 1
      BY <1>1, <2>1
    <3> QED
      BY <2>6, <3>1, <3>2, <3>3, Zenon DEF SchoolTurn
  <2>9. LimbAt(l, (k + m) + 1) = 0
    <3>1. (k + m) + 1 \in Nat /\ (k + m) + 1 > k + m /\ (k + m) + 1 > m + k
      BY <2>1
    <3> QED
      BY <2>3, <2>5, <3>1
  <2>10. \A p \in Nat : p > m + (k + 1) => LimbAt(t, p) = 0
    <3> SUFFICES ASSUME NEW p \in Nat, p > m + (k + 1) PROVE LimbAt(t, p) = 0
      OBVIOUS
    <3>1. p > k + m /\ p > m + k /\ p # (k + m) + 1
      OBVIOUS
    <3> QED
      BY <2>3, <2>5, <2>7, <3>1
  <2>11. PICK partial \in Nat : partial = Low(b, k)
    BY <2>1, LowType
  <2>12. l \in Limbs /\ t \in Limbs /\ s \in Limbs
    BY <2>7 DEF Buffer
  <2>13. PICK w \in Nat : w = Weight(k)
    BY <2>1, WeightFacts
  <2>14. PICK v \in Nat : v = Weight(k + m)
    BY <2>1, WeightFacts
  <2>15. y \in Int /\ c \in Int /\ Low(l, n) \in Int /\ Low(t, n) \in Int /\ Low(s, n) \in Int
    <3>1. Low(l, n) \in Nat /\ Low(t, n) \in Nat /\ Low(s, n) \in Nat /\ Base \in Nat
      BY <2>12, LowType, BaseFacts
    <3> QED
      BY <3>1 DEF Limb
  <2>16. Low(t, n) = Low(s, n) + (whole * y) * w
    <3>1. RowSum(Low(l, n), c, v, Low(s, n), (whole * y) * w)
      BY <1>5, <2>5, <2>13, <2>14
    <3>2. Low(t, n) = Low(l, n) + c * v
      <4>1. Low(t, n) + 0 * v = Low(l, n) + c * v
        BY <2>7, <2>9, <2>14, Zenon
      <4>2. Low(t, n) + 0 * v = Low(t, n)
        BY <2>15
      <4> QED
        BY <4>1, <4>2, Zenon
    <3>3. PICK multiplied \in Int : multiplied = (whole * y) * w
      BY <2>15
    <3>4. RowSum(Low(l, n), c, v, Low(s, n), multiplied) /\ v \in Int
      BY <3>1, <3>3
    <3>5. Low(t, n) = Low(s, n) + multiplied
      BY <3>2, <3>4, Zenon DEF RowSum
    <3> QED
      BY <3>3, <3>5
  <2>17. Low(s, n) = whole * partial
    BY <1>5, <2>3, <2>11
  <2>18. Low(b, k + 1) = partial + y * w
    BY <2>1, <2>4, <2>11, <2>13, LowFacts
  <2>19. whole * (partial + y * w) = whole * partial + (whole * y) * w
    BY <2>15
  <2>20. Low(t, n) = Low(a, m) * Low(b, k + 1)
    BY <1>5, <2>16, <2>17, <2>18, <2>19, Zenon
  <2>21. Done(f[k + 1], k + 1)
    BY <2>8, <2>10, <2>20, Zenon
  <2> QED
    BY <2>1, <2>21
<1>8. q \in C
  <2>1. \A k \in 0 .. q : k \in C
    <3> HIDE DEF C
    <3> QED
      BY <1>6, <1>7, Induction
  <2> QED
    BY <2>1
<1>9. Low(f[q], n) = Low(a, m) * Low(b, q)
  BY <1>8
<1>10. f[q] \in Limbs /\ Len(f[q]) = n
  BY <1>4 DEF Buffer
<1>11. /\ MagnitudeOf(f[q]) = Low(f[q], n) /\ MagnitudeOf(a) = Low(a, m)
       /\ MagnitudeOf(b) = Low(b, q)
  BY <1>1, <1>2, <1>10, MagnitudeIsLow
<1> QED
  BY <1>3, <1>4, <1>9, <1>10, <1>11, Zenon
-----------------------------------------------------------------------------
(* Two limbs over one *)

(* The bits of a number down to one place, from those down to the place above. *)
LEMMA OneBitMore ==
  ASSUME NEW n \in Nat, NEW p \in Nat, p >= 1
  PROVE  /\ n \div p = 2 * (n \div (2 * p)) + ((n \div p) % 2)
         /\ (n \div p) % 2 \in 0 .. 1 /\ n \div p \in Nat /\ n \div (2 * p) \in Nat
<1>1. PICK q \in Int : q = n \div p
  BY DivisionOf
<1>2. PICK r \in Int : n = p * q + r /\ 0 <= r /\ r < p
  <2>1. n = p * (n \div p) + (n % p) /\ 0 <= n % p /\ n % p < p /\ n % p \in Int
    BY DivisionOf
  <2> QED
    BY <1>1, <2>1
<1>3. q \in Nat
  BY <1>1
<1>4. PICK h \in Int : h = q \div 2
  BY <1>3
<1>5. PICK bit \in 0 .. 1 : bit = q % 2 /\ q = 2 * h + bit
  BY <1>3, <1>4
<1>6. n = (2 * p) * h + (p * bit + r)
  <2>1. p * (2 * h + bit) = (2 * p) * h + p * bit
    OBVIOUS
  <2>2. p * q = (2 * p) * h + p * bit
    BY <1>5, <2>1
  <2>3. p * q \in Int /\ (2 * p) * h \in Int /\ p * bit \in Int
    OBVIOUS
  <2> QED
    BY <1>2, <2>2, <2>3
<1>7. p * bit + r \in Int /\ 0 <= p * bit + r /\ p * bit + r < 2 * p
  <2>1. CASE bit = 0
    BY <1>2, <2>1
  <2>2. CASE bit = 1
    BY <1>2, <2>2
  <2> QED
    BY <2>1, <2>2
<1>8. PICK rest \in Int : rest = p * bit + r
  BY <1>7
<1>9. PICK d \in Nat : d = 2 * p
  OBVIOUS
<1>10. n = d * h + rest /\ 0 <= rest /\ rest < d /\ d > 0
  BY <1>6, <1>7, <1>8, <1>9
<1>11. n \div d = h
  BY <1>10, DivisionIs
<1>12. h \in Nat
  BY <1>3, <1>4
<1> QED
  BY <1>1, <1>3, <1>4, <1>5, <1>9, <1>11, <1>12

(* What is doubled below half a limb does not wrap. *)
LEMMA NoWrap ==
  ASSUME NEW n \in Nat, n < Base
  PROVE  n % Base = n
<1>1. Base \in Nat /\ Base >= 4 /\ n = Base * 0 + n
  BY BaseFacts
<1> QED
  BY <1>1, DivisionIs

(* A turn of the division: one bit of the low limb comes down. *)
Dividing(divisor) == [quotient : Nat, remainder : 0 .. divisor - 1]
WideTurn(low, divisor, state, bit) ==
  LET input == (low \div TwoTo[bit - 1]) % 2
      room == divisor - state.remainder
  IN  IF state.remainder >= room \/ (input = 1 /\ state.remainder = room - 1)
      THEN [quotient |-> ((2 * state.quotient) % Base) + 1,
            remainder |-> state.remainder - room + input]
      ELSE [quotient |-> (2 * state.quotient) % Base,
            remainder |-> ((2 * state.remainder) % Base) + input]

(* It divides what the remainder and the bit are together. *)
WideTurned(after, digit, low, divisor, q, r, bit) ==
  /\ WideTurn(low, divisor, [quotient |-> q, remainder |-> r], bit)
       = [quotient |-> ((2 * q) % Base) + digit, remainder |-> after]
  /\ 2 * r + ((low \div TwoTo[bit - 1]) % 2) = digit * divisor + after

(* Every turn does, and keeps the remainder below the divisor. *)
LEMMA WideTurnExact ==
  ASSUME NEW low \in Limb, NEW divisor \in Limb, divisor # 0, NEW bit \in 1 .. LimbBits,
         NEW q \in Nat, NEW r \in 0 .. divisor - 1
  PROVE  \E after \in 0 .. divisor - 1, digit \in 0 .. 1 :
           WideTurned(after, digit, low, divisor, q, r, bit)
<1>1. Base \in Nat /\ Base >= 4 /\ divisor \in Nat /\ divisor >= 1 /\ divisor < Base /\ low \in Nat
  BY BaseFacts DEF Limb
<1>2. PICK input \in 0 .. 1 : input = (low \div TwoTo[bit - 1]) % 2
  <2>1. bit - 1 \in 0 .. LimbBits
    BY BigIntAssumption
  <2>2. TwoTo[bit - 1] \in Nat /\ TwoTo[bit - 1] >= 1
    BY <2>1, PowersPositive
  <2>3. (low \div TwoTo[bit - 1]) % 2 \in 0 .. 1
    BY <1>1, <2>2, OneBitMore
  <2> QED
    BY <2>3
<1>3. r \in Nat /\ r < divisor
  BY <1>1
<1> DEFINE state == [quotient |-> q, remainder |-> r]
<1>4. state.quotient = q /\ state.remainder = r
  OBVIOUS
<1> HIDE DEF state
<1>5. CASE r >= divisor - r \/ (input = 1 /\ r = divisor - r - 1)
  <2>1. WideTurn(low, divisor, state, bit)
          = [quotient |-> ((2 * q) % Base) + 1, remainder |-> r - (divisor - r) + input]
    BY <1>2, <1>4, <1>5, Zenon DEF WideTurn
  <2>2. PICK after \in 0 .. divisor - 1 : after = r - (divisor - r) + input
    BY <1>1, <1>3, <1>5
  <2>3. 2 * r + input = 1 * divisor + after
    BY <1>1, <1>3, <2>2
  <2> QED
    <3>1. WideTurned(after, 1, low, divisor, q, r, bit)
      BY <1>2, <2>1, <2>2, <2>3, Zenon DEF state, WideTurned
    <3>2. 1 \in 0 .. 1
      OBVIOUS
    <3> QED
      BY <3>1, <3>2
<1>6. CASE ~(r >= divisor - r \/ (input = 1 /\ r = divisor - r - 1))
  <2>1. WideTurn(low, divisor, state, bit)
          = [quotient |-> (2 * q) % Base, remainder |-> ((2 * r) % Base) + input]
    BY <1>2, <1>4, <1>6, Zenon DEF WideTurn
  <2>2. 2 * r \in Nat /\ 2 * r + input < divisor /\ 2 * r < Base
    BY <1>1, <1>3, <1>6
  <2>3. (2 * r) % Base = 2 * r
    BY <2>2, NoWrap
  <2>4. PICK after \in 0 .. divisor - 1 : after = 2 * r + input
    BY <1>1, <2>2
  <2>5. (2 * q) % Base \in Int
    BY <1>1
  <2>6. (2 * q) % Base = ((2 * q) % Base) + 0 /\ 2 * r + input = 0 * divisor + after
    BY <1>1, <2>4, <2>5
  <2>7. WideTurn(low, divisor, state, bit) = [quotient |-> ((2 * q) % Base) + 0, remainder |-> after]
    BY <2>1, <2>3, <2>4, <2>6, Zenon
  <2> QED
    <3>1. WideTurned(after, 0, low, divisor, q, r, bit)
      BY <1>2, <2>6, <2>7, Zenon DEF state, WideTurned
    <3>2. 0 \in 0 .. 1
      OBVIOUS
    <3> QED
      BY <3>1, <3>2
<1> QED
  BY <1>5, <1>6

(* f is what the loop over the bits has come to after i turns. *)
WideCourse(f, high, low, divisor) ==
  f = [i \in 0 .. LimbBits |-> IF i = 0 THEN [quotient |-> 0, remainder |-> high] ELSE WideTurn(low, divisor, f[i - 1], LimbBits + 1 - i)]

(* The division is what its loop ends with. *)
LEMMA WideUnfolded ==
  ASSUME NEW high, NEW low, NEW divisor
  PROVE  DivideWide(high, low, divisor) = (CHOOSE f : WideCourse(f, high, low, divisor))[LimbBits]
  BY Zenon DEF DivideWide, LoopDown, WideTurn, Loop, WideCourse

(* It stays within its type, turn by turn. *)
LEMMA WideLoop ==
  ASSUME NEW low \in Limb,
         NEW divisor \in Limb,
         divisor # 0,
         NEW high \in 0 .. divisor - 1
  PROVE  \E f \in [0 .. LimbBits -> Dividing(divisor)] :
           /\ f[0] = [quotient |-> 0, remainder |-> high]
           /\ \A i \in 1 .. LimbBits : f[i] = WideTurn(low, divisor, f[i - 1], LimbBits + 1 - i)
           /\ DivideWide(high, low, divisor) = f[LimbBits]
<1>1. LimbBits \in Nat /\ [quotient |-> 0, remainder |-> high] \in Dividing(divisor)
  BY BigIntAssumption DEF Dividing
<1> DEFINE T == [i \in 1 .. LimbBits |-> [r \in Dividing(divisor) |-> WideTurn(low, divisor, r, LimbBits + 1 - i)]]
<1>2. ASSUME NEW i \in 1 .. LimbBits, NEW r \in Dividing(divisor) PROVE WideTurn(low, divisor, r, LimbBits + 1 - i) \in Dividing(divisor)
  <2>1. LimbBits + 1 - i \in 1 .. LimbBits
    BY <1>1
  <2>2. PICK q \in Nat, s \in 0 .. divisor - 1 : r = [quotient |-> q, remainder |-> s]
    BY DEF Dividing
  <2>3. PICK after \in 0 .. divisor - 1, digit \in 0 .. 1 :
           WideTurn(low, divisor, r, LimbBits + 1 - i)
             = [quotient |-> ((2 * q) % Base) + digit, remainder |-> after]
    <3>1. PICK bit \in 1 .. LimbBits : bit = LimbBits + 1 - i
      BY <2>1
    <3>2. \E after \in 0 .. divisor - 1, digit \in 0 .. 1 :
            WideTurned(after, digit, low, divisor, q, s, bit)
      BY WideTurnExact
    <3> QED
      BY <2>2, <3>1, <3>2, Zenon DEF WideTurned
  <2>4. ((2 * q) % Base) + digit \in Nat
    BY BaseFacts
  <2> QED
    BY <2>3, <2>4 DEF Dividing
<1>3. T \in Turns(LimbBits, Dividing(divisor))
  BY <1>2 DEF Turns
<1>4. \A i \in 1 .. LimbBits, r \in Dividing(divisor) : T[i][r] = WideTurn(low, divisor, r, LimbBits + 1 - i)
  OBVIOUS
<1> HIDE DEF T
<1>5. PICK f : Course(f, LimbBits, Dividing(divisor), [quotient |-> 0, remainder |-> high], T)
  BY <1>1, <1>3, Iterates
<1>6. f \in [0 .. LimbBits -> Dividing(divisor)] /\ f[0] = [quotient |-> 0, remainder |-> high] /\ \A i \in 1 .. LimbBits : f[i] = T[i][f[i - 1]]
  BY <1>5 DEF Course
<1>7. \A i \in 0 .. LimbBits : i # 0 => i \in 1 .. LimbBits /\ i - 1 \in 0 .. LimbBits
  BY <1>1
<1>8. \A i \in 0 .. LimbBits : f[i] = IF i = 0 THEN [quotient |-> 0, remainder |-> high] ELSE WideTurn(low, divisor, f[i - 1], LimbBits + 1 - i)
  <2> SUFFICES ASSUME NEW i \in 0 .. LimbBits, i # 0 PROVE f[i] = WideTurn(low, divisor, f[i - 1], LimbBits + 1 - i)
    BY <1>6, Zenon
  <2>1. i \in 1 .. LimbBits /\ f[i - 1] \in Dividing(divisor)
    BY <1>6, <1>7
  <2> QED
    BY <1>4, <1>6, <2>1, Zenon
<1>9. f = [i \in 0 .. LimbBits |-> IF i = 0 THEN [quotient |-> 0, remainder |-> high] ELSE WideTurn(low, divisor, f[i - 1], LimbBits + 1 - i)]
  <2>1. f = [i \in 0 .. LimbBits |-> f[i]]
    BY <1>6
  <2> QED
    BY <1>8, <2>1, Zenon
<1>10. WideCourse(f, high, low, divisor)
  BY <1>9, Zenon DEF WideCourse
<1>11. PICK g : g = CHOOSE h : WideCourse(h, high, low, divisor)
  OBVIOUS
<1>12. WideCourse(g, high, low, divisor) /\ DivideWide(high, low, divisor) = g[LimbBits]
  BY <1>10, <1>11, WideUnfolded, Zenon
<1>13. g = [i \in 0 .. LimbBits |-> IF i = 0 THEN [quotient |-> 0, remainder |-> high] ELSE WideTurn(low, divisor, g[i - 1], LimbBits + 1 - i)]
  BY <1>12, Zenon DEF WideCourse
<1>14. \A i \in 0 .. LimbBits : g[i] = IF i = 0 THEN [quotient |-> 0, remainder |-> high] ELSE WideTurn(low, divisor, g[i - 1], LimbBits + 1 - i)
  BY <1>13, Zenon
<1>15. g = [i \in 0 .. LimbBits |-> g[i]]
  BY <1>13, <1>14, Zenon
<1>16. g[0] = [quotient |-> 0, remainder |-> high] /\ \A i \in 1 .. LimbBits : g[i] = WideTurn(low, divisor, g[i - 1], LimbBits + 1 - i)
  <2>1. 0 \in 0 .. LimbBits /\ \A i \in 1 .. LimbBits : i \in 0 .. LimbBits /\ i # 0
    BY <1>1
  <2> QED
    BY <1>14, <2>1, Zenon
<1>17. \A i \in 1 .. LimbBits : g[i - 1] \in Dividing(divisor) => g[i] = T[i][g[i - 1]]
  BY <1>4, <1>16, Zenon
<1>18. Course(g, LimbBits, Dividing(divisor), [quotient |-> 0, remainder |-> high], T)
  BY <1>1, <1>3, <1>15, <1>16, <1>17, RunsItsCourse
<1>19. g \in [0 .. LimbBits -> Dividing(divisor)]
  BY <1>18 DEF Course
<1> QED
  BY <1>12, <1>16, <1>19

(* What k bits of the low limb have come to. *)
WideSum(high, power, top, quotient, divisor, remainder) ==
  high * power + top = quotient * divisor + remainder

(* One bit more. *)
LEMMA WidePlace ==
  ASSUME NEW high \in Int, NEW power \in Int, NEW top \in Int, NEW q \in Int, NEW d \in Int,
         NEW r \in Int, WideSum(high, power, top, q, d, r),
         NEW bit \in Int, NEW digit \in Int, NEW after \in Int, 2 * r + bit = digit * d + after
  PROVE  WideSum(high, 2 * power, 2 * top + bit, 2 * q + digit, d, after)
<1>1. high * power + top = q * d + r
  BY DEF WideSum
<1>2. high * (2 * power) = 2 * (high * power) /\ (2 * q + digit) * d = 2 * (q * d) + digit * d
  OBVIOUS
<1>3. PICK t1 \in Int : t1 = high * power
  OBVIOUS
<1>4. PICK t2 \in Int : t2 = q * d
  OBVIOUS
<1>5. PICK t3 \in Int : t3 = digit * d
  OBVIOUS
<1>6. t1 + top = t2 + r /\ 2 * r + bit = t3 + after
  BY <1>1, <1>3, <1>4, <1>5
<1>7. 2 * t1 + (2 * top + bit) = (2 * t2 + t3) + after
  BY <1>6
<1>8. high * (2 * power) = 2 * t1 /\ (2 * q + digit) * d = 2 * t2 + t3
  BY <1>2, <1>3, <1>4, <1>5
<1> QED
  BY <1>7, <1>8, Zenon DEF WideSum

(* DivideWide divides two limbs by one that is above the high one. *)
LEMMA DivideWideExact ==
  ASSUME NEW low \in Limb, NEW divisor \in Limb, divisor # 0, NEW high \in 0 .. divisor - 1
  PROVE  LET d == DivideWide(high, low, divisor)
         IN  /\ d = [quotient |-> d.quotient, remainder |-> d.remainder]
             /\ d.quotient \in Limb /\ d.remainder \in 0 .. divisor - 1
             /\ high * Base + low = d.quotient * divisor + d.remainder
<1>1. PICK L \in Nat : L = LimbBits /\ L >= 1
  BY BigIntAssumption
<1>2. PICK f \in [0 .. L -> Dividing(divisor)] :
        /\ f[0] = [quotient |-> 0, remainder |-> high]
        /\ \A i \in 1 .. L : f[i] = WideTurn(low, divisor, f[i - 1], L + 1 - i)
        /\ DivideWide(high, low, divisor) = f[L]
  BY <1>1, WideLoop
<1>3. /\ Base \in Nat /\ Base >= 4 /\ low \in Nat /\ low < Base /\ divisor \in Nat /\ divisor >= 1
      /\ divisor \in Int /\ high \in Int
  BY BaseFacts DEF Limb
<1> DEFINE C == {k \in 0 .. L :
             \E q \in 0 .. TwoTo[k] - 1, r \in 0 .. divisor - 1 :
               /\ f[k] = [quotient |-> q, remainder |-> r]
               /\ WideSum(high, TwoTo[k], low \div TwoTo[L - k], q, divisor, r)}
<1>4. 0 \in C
  <2>1. TwoTo[0] = 1 /\ TwoTo[L - 0] = Base
    BY <1>1, Doubles, BigIntAssumption
  <2>2. low \div Base = 0
    <3>1. low = Base * 0 + low
      BY <1>3
    <3> QED
      BY <1>3, <3>1, DivisionIs
  <2>3. 0 \in 0 .. TwoTo[0] - 1
    BY <2>1
  <2>4. high * 1 + 0 = 0 * divisor + high
    BY <1>3
  <2>5. WideSum(high, TwoTo[0], low \div TwoTo[L - 0], 0, divisor, high)
    BY <2>1, <2>2, <2>4, Zenon DEF WideSum
  <2> QED
    BY <1>2, <2>3, <2>5
<1>5. ASSUME NEW k \in 0 .. L - 1, k \in C PROVE k + 1 \in C
  <2>1. PICK q \in 0 .. TwoTo[k] - 1, r \in 0 .. divisor - 1 :
          /\ f[k] = [quotient |-> q, remainder |-> r]
          /\ WideSum(high, TwoTo[k], low \div TwoTo[L - k], q, divisor, r)
    BY <1>5
  <2> HIDE DEF C
  <2>2. /\ k + 1 \in 1 .. L /\ (k + 1) - 1 = k /\ k + 1 \in 0 .. L /\ L + 1 - (k + 1) = L - k
        /\ L - k \in 1 .. L /\ (L - k) - 1 = L - (k + 1) /\ L - (k + 1) \in 0 .. L /\ k \in 0 .. L
    BY <1>1
  <2>3. /\ TwoTo[k + 1] = 2 * TwoTo[k] /\ TwoTo[L - k] = 2 * TwoTo[L - (k + 1)]
        /\ TwoTo[k] \in Nat
        /\ TwoTo[L - (k + 1)] \in Nat /\ TwoTo[L - (k + 1)] >= 1
    BY <1>1, <2>2, Doubles, PowersPositive
  <2>4. q \in Nat /\ q <= TwoTo[k] - 1
    BY <2>3
  <2>5. PICK after \in 0 .. divisor - 1, digit \in 0 .. 1 :
           /\ WideTurn(low, divisor, [quotient |-> q, remainder |-> r], L - k)
                = [quotient |-> ((2 * q) % Base) + digit, remainder |-> after]
           /\ 2 * r + ((low \div TwoTo[(L - k) - 1]) % 2) = digit * divisor + after
    <3>1. PICK bit \in 1 .. LimbBits : bit = L - k
      BY <1>1, <2>2
    <3>2. \E after \in 0 .. divisor - 1, digit \in 0 .. 1 :
            WideTurned(after, digit, low, divisor, q, r, bit)
      BY <2>4, WideTurnExact
    <3> QED
      BY <3>1, <3>2, Zenon DEF WideTurned
  <2>6. 2 * q < Base /\ 2 * q \in Nat
    <3>1. TwoTo[k + 1] * TwoTo[L - (k + 1)] = Base
      BY <1>1, <2>2, ShiftFacts
    <3>2. 1 * TwoTo[k + 1] <= TwoTo[L - (k + 1)] * TwoTo[k + 1]
      <4>1. PICK p \in Nat : p = TwoTo[k + 1]
        BY <2>3
      <4>2. PICK s \in Nat : s = TwoTo[L - (k + 1)] /\ 1 <= s
        BY <2>3
      <4>3. 1 \in Int /\ s \in Int
        OBVIOUS
      <4>4. 1 * p <= s * p
        BY <4>2, <4>3, TimesMonotone, Zenon
      <4> QED
        BY <4>1, <4>2, <4>4
    <3>3. TwoTo[L - (k + 1)] * TwoTo[k + 1] = TwoTo[k + 1] * TwoTo[L - (k + 1)]
      BY <2>3
    <3>4. TwoTo[k + 1] <= Base
      BY <2>3, <3>1, <3>2, <3>3
    <3> QED
      BY <1>3, <2>3, <2>4, <3>4
  <2>7. (2 * q) % Base = 2 * q
    BY <2>6, NoWrap
  <2>8. 2 * q + digit \in 0 .. TwoTo[k + 1] - 1
    <3>1. PICK p \in Nat : p = TwoTo[k]
      BY <2>3
    <3>2. q <= p - 1 /\ TwoTo[k + 1] = 2 * p
      BY <2>3, <2>4, <3>1, Zenon
    <3>3. 2 * q + digit \in 0 .. 2 * p - 1
      BY <2>4, <3>2
    <3> QED
      BY <3>2, <3>3, Zenon
  <2>9. f[k + 1] = [quotient |-> 2 * q + digit, remainder |-> after]
    <3>1. f[k + 1] = WideTurn(low, divisor, f[(k + 1) - 1], L + 1 - (k + 1))
      BY <1>2, <2>2
    <3> QED
      BY <2>1, <2>2, <2>5, <2>7, <3>1, Zenon
  <2>10. PICK top \in Nat : top = low \div TwoTo[L - k]
    BY <1>3, <2>3, OneBitMore
  <2>11. PICK bit \in 0 .. 1 : /\ bit = (low \div TwoTo[L - (k + 1)]) % 2
                              /\ low \div TwoTo[L - (k + 1)] = 2 * top + bit
    <3>1. /\ low \div TwoTo[L - (k + 1)] = 2 * (low \div (2 * TwoTo[L - (k + 1)])) + ((low \div TwoTo[L - (k + 1)]) % 2)
          /\ (low \div TwoTo[L - (k + 1)]) % 2 \in 0 .. 1
      BY <1>3, <2>3, OneBitMore
    <3> QED
      BY <2>3, <2>10, <3>1
  <2>12. 2 * r + bit = digit * divisor + after
    BY <2>2, <2>5, <2>11, Zenon
  <2>13. WideSum(high, 2 * TwoTo[k], 2 * top + bit, 2 * q + digit, divisor, after)
    <3>1. WideSum(high, TwoTo[k], top, q, divisor, r)
      BY <2>1, <2>10, Zenon
    <3>2. TwoTo[k] \in Int /\ top \in Int /\ q \in Int /\ r \in Int /\ bit \in Int /\ digit \in Int
          /\ after \in Int
      BY <2>3, <2>4, <1>3
    <3> QED
      BY <1>3, <2>12, <3>1, <3>2, WidePlace
  <2>14. WideSum(high, TwoTo[k + 1], low \div TwoTo[L - (k + 1)], 2 * q + digit, divisor, after)
    BY <2>3, <2>11, <2>13, Zenon
  <2> QED
    BY <2>2, <2>8, <2>9, <2>14, Zenon DEF C
<1>6. L \in C
  <2>1. \A k \in 0 .. L : k \in C
    <3> HIDE DEF C
    <3> QED
      BY <1>4, <1>5, Induction
  <2> QED
    BY <2>1
<1>7. PICK q \in 0 .. TwoTo[L] - 1, r \in 0 .. divisor - 1 :
        /\ f[L] = [quotient |-> q, remainder |-> r]
        /\ WideSum(high, TwoTo[L], low \div TwoTo[L - L], q, divisor, r)
  BY <1>6
<1>8. TwoTo[L] = Base /\ L - L = 0 /\ TwoTo[0] = 1 /\ low \div 1 = low
  BY <1>1, <1>3, Doubles, BigIntAssumption
<1>9. q \in Limb /\ high * Base + low = q * divisor + r
  BY <1>7, <1>8 DEF Limb, WideSum
<1> QED
  BY <1>2, <1>7, <1>9
-----------------------------------------------------------------------------
(* Limbs put together and taken apart *)

(* Limbs with others above them. *)
LEMMA LowConcat ==
  ASSUME NEW m \in Nat, NEW n \in Nat, NEW s \in Buffer(m), NEW t \in Buffer(n)
  PROVE  /\ s \o t \in Buffer(m + n)
         /\ \A i \in 1 .. m : LimbAt(s \o t, i) = LimbAt(s, i)
         /\ \A i \in 1 .. n : LimbAt(s \o t, m + i) = LimbAt(t, i)
         /\ Low(s \o t, m) = Low(s, m)
         /\ Low(s \o t, m + n) = Low(s, m) + Low(t, n) * Weight(m)
<1> DEFINE c == s \o t
<1>1. s \in Seq(Limb) /\ t \in Seq(Limb) /\ Len(s) = m /\ Len(t) = n /\ s \in Limbs /\ t \in Limbs
  BY DEF Buffer, Limbs
<1>2. /\ c \in Seq(Limb) /\ Len(c) = m + n
      /\ \A i \in 1 .. m + n : c[i] = IF i <= m THEN s[i] ELSE t[i - m]
  BY <1>1, ConcatProperties
<1> HIDE DEF c
<1>3. c \in Limbs /\ \A i \in 1 .. m + n : LimbAt(c, i) = c[i]
  <2>1. c \in Limbs
    BY <1>2 DEF Limbs
  <2> QED
    BY <1>2, <2>1, LimbAtPlace
<1>4. ASSUME NEW i \in 1 .. m PROVE LimbAt(c, i) = LimbAt(s, i)
  <2>1. i \in 1 .. m + n /\ i <= m
    OBVIOUS
  <2> QED
    BY <1>1, <1>2, <1>3, <2>1, LimbAtPlace
<1>5. ASSUME NEW i \in 1 .. n PROVE LimbAt(c, m + i) = LimbAt(t, i)
  <2>1. m + i \in 1 .. m + n /\ ~(m + i <= m) /\ (m + i) - m = i
    OBVIOUS
  <2>2. LimbAt(c, m + i) = c[m + i] /\ c[m + i] = t[(m + i) - m]
    BY <1>2, <1>3, <2>1
  <2>3. LimbAt(t, i) = t[i]
    BY <1>1, LimbAtPlace
  <2> QED
    BY <2>1, <2>2, <2>3
<1>6. Agree(c, s, m) /\ Above(t, c, m, n)
  BY <1>4, <1>5 DEF Agree, Above
<1>7. Low(c, m) = Low(s, m) /\ Low(c, m + n) = Low(c, m) + Low(t, n) * Weight(m)
  BY <1>1, <1>3, <1>6, LowSame, LowAbove
<1> QED
  BY <1>2, <1>3, <1>4, <1>5, <1>7 DEF c, Buffer

(* n limbs of a number, from one above the lowest m. *)
Slice(t, s, m, n) == t = SubSeq(s, m + 1, m + n)

(* They are what is above those m. *)
LEMMA LowSub ==
  ASSUME NEW s \in Limbs, NEW m \in Nat, NEW n \in Nat, m + n <= Len(s),
         NEW t, Slice(t, s, m, n)
  PROVE  /\ t \in Buffer(n)
         /\ \A i \in 1 .. n : LimbAt(t, i) = LimbAt(s, m + i)
         /\ Low(s, m + n) = Low(s, m) + Low(t, n) * Weight(m)
<1>1. Len(s) \in Nat /\ \A i \in 1 .. Len(s) : LimbAt(s, i) = s[i] /\ s[i] \in Limb
  BY LimbAtPlace, ElementOfSeq DEF Limbs
<1>2. \A i \in m + 1 .. m + n : s[i] \in Limb
  BY <1>1
<1>3. m + 1 \in Int /\ m + n \in Int
  OBVIOUS
<1>4. /\ t \in Seq(Limb)
      /\ Len(t) = IF m + 1 <= m + n THEN (m + n) - (m + 1) + 1 ELSE 0
      /\ \A i \in 1 .. (m + n) - (m + 1) + 1 : t[i] = s[(m + 1) + i - 1]
  BY <1>2, <1>3, SubSeqProperties DEF Slice
<1>5. Len(t) = n /\ (m + n) - (m + 1) + 1 = n
  BY <1>4
<1>6. t \in Limbs
  BY <1>4 DEF Limbs
<1>7. ASSUME NEW i \in 1 .. n PROVE LimbAt(t, i) = LimbAt(s, m + i)
  <2>1. (m + 1) + i - 1 = m + i /\ m + i \in 1 .. Len(s) /\ i \in 1 .. Len(t)
    BY <1>1, <1>5
  <2>2. t[i] = s[m + i]
    BY <1>4, <1>5, <2>1
  <2> QED
    BY <1>1, <1>6, <2>1, <2>2, LimbAtPlace
<1>8. Above(t, s, m, n)
  BY <1>7 DEF Above
<1>9. Low(s, m + n) = Low(s, m) + Low(t, n) * Weight(m)
  BY <1>6, <1>8, LowAbove
<1> QED
  BY <1>5, <1>6, <1>7, <1>9 DEF Buffer

(* A limb below others. *)
LEMMA LowPrepend ==
  ASSUME NEW n \in Nat, NEW s \in Buffer(n), NEW x \in Limb
  PROVE  /\ <<x>> \o s \in Buffer(n + 1)
         /\ Low(<<x>> \o s, n + 1) = x + Base * Low(s, n)
<1>1. PICK t : t = <<x>>
  OBVIOUS
<1>2. t \in Buffer(1) /\ t[1] = x /\ Len(t) = 1
  BY <1>1 DEF Buffer, Limbs
<1>3. t \in Limbs /\ LimbAt(t, 1) = x
  <2>1. t \in Limbs
    BY <1>2 DEF Buffer
  <2>2. 1 \in 1 .. Len(t)
    BY <1>2
  <2> QED
    BY <1>2, <2>1, <2>2, LimbAtPlace
<1>4. x \in Int /\ Base \in Nat
  BY BaseFacts DEF Limb
<1>5. Low(t, 1) = x /\ Weight(1) = Base
  <2>1. Low(t, 0 + 1) = Low(t, 0) + LimbAt(t, 0 + 1) * Weight(0) /\ Low(t, 0) = 0
    BY <1>3, LowFacts
  <2>2. Weight(0) = 1 /\ Weight(0 + 1) = Base * Weight(0)
    BY WeightFacts
  <2>3. 0 + 1 = 1
    OBVIOUS
  <2>4. Low(t, 1) = 0 + x * 1 /\ Weight(1) = Base * 1
    BY <1>3, <2>1, <2>2, <2>3, Zenon
  <2> QED
    BY <1>4, <2>4
<1>6. /\ t \o s \in Buffer(1 + n)
      /\ Low(t \o s, 1 + n) = Low(t, 1) + Low(s, n) * Weight(1)
  BY <1>2, LowConcat
<1>7. 1 + n = n + 1
  OBVIOUS
<1>8. Low(s, n) \in Nat
  <2>1. s \in Limbs
    BY DEF Buffer
  <2> QED
    BY <2>1, LowType
<1>9. Low(s, n) * Base = Base * Low(s, n)
  BY <1>4, <1>8
<1> QED
  BY <1>1, <1>5, <1>6, <1>7, <1>9, Zenon

-----------------------------------------------------------------------------
(* Division by one limb *)

(* A turn of the division: one limb comes down. *)
Quotients(divisor) == [limbs : Limbs, remainder : 0 .. divisor - 1]
UintTurn(limbs, divisor, state, i) ==
  LET step == DivideWide(state.remainder, limbs[i], divisor)
  IN  [limbs |-> <<step.quotient>> \o state.limbs, remainder |-> step.remainder]

(* It divides what the remainder and the limb are together. *)
UintTurned(digit, after, limbs, divisor, l, r, i) ==
  /\ UintTurn(limbs, divisor, [limbs |-> l, remainder |-> r], i)
       = [limbs |-> <<digit>> \o l, remainder |-> after]
  /\ r * Base + LimbAt(limbs, i) = digit * divisor + after

(* Every turn does, and keeps the remainder below the divisor. *)
LEMMA UintTurnExact ==
  ASSUME NEW limbs \in Limbs, NEW divisor \in Limb, divisor # 0, NEW i \in 1 .. Len(limbs),
         NEW l, NEW r \in 0 .. divisor - 1
  PROVE  \E digit \in Limb, after \in 0 .. divisor - 1 :
           UintTurned(digit, after, limbs, divisor, l, r, i)
<1>1. PICK x \in Limb : x = limbs[i] /\ x = LimbAt(limbs, i)
  BY LimbAtPlace, ElementOfSeq DEF Limbs
<1> DEFINE d == DivideWide(r, x, divisor)
<1>2. /\ d.quotient \in Limb /\ d.remainder \in 0 .. divisor - 1
      /\ r * Base + x = d.quotient * divisor + d.remainder
  BY DivideWideExact
<1>3. UintTurn(limbs, divisor, [limbs |-> l, remainder |-> r], i)
        = [limbs |-> <<d.quotient>> \o l, remainder |-> d.remainder]
  BY <1>1, Zenon DEF UintTurn
<1> HIDE DEF d
<1>4. UintTurned(d.quotient, d.remainder, limbs, divisor, l, r, i)
  BY <1>1, <1>2, <1>3, Zenon DEF UintTurned
<1> QED
  BY <1>2, <1>4

(* f is what the loop over the limbs has come to after i turns. *)
UintCourse(f, limbs, divisor) ==
  f = [i \in 0 .. Len(limbs) |-> IF i = 0 THEN [limbs |-> <<>>, remainder |-> 0] ELSE UintTurn(limbs, divisor, f[i - 1], Len(limbs) + 1 - i)]

(* The division is what its loop ends with. *)
LEMMA UintUnfolded ==
  ASSUME NEW limbs, NEW divisor
  PROVE  DivideByUint(limbs, divisor) = [quotient |-> Trimmed((CHOOSE f : UintCourse(f, limbs, divisor))[Len(limbs)].limbs), remainder |-> (CHOOSE f : UintCourse(f, limbs, divisor))[Len(limbs)].remainder]
  BY Zenon DEF DivideByUint, LoopDown, UintTurn, Loop, UintCourse

(* It stays within its type, turn by turn. *)
LEMMA UintLoop ==
  ASSUME NEW limbs \in Limbs,
         NEW divisor \in Limb,
         divisor # 0
  PROVE  \E f \in [0 .. Len(limbs) -> Quotients(divisor)] :
           /\ f[0] = [limbs |-> <<>>, remainder |-> 0]
           /\ \A i \in 1 .. Len(limbs) : f[i] = UintTurn(limbs, divisor, f[i - 1], Len(limbs) + 1 - i)
           /\ DivideByUint(limbs, divisor) = [quotient |-> Trimmed(f[Len(limbs)].limbs), remainder |-> f[Len(limbs)].remainder]
<1>1. Len(limbs) \in Nat /\ [limbs |-> <<>>, remainder |-> 0] \in Quotients(divisor)
  <2>1. divisor \in Nat /\ divisor >= 1
    BY BaseFacts DEF Limb
  <2> QED
    BY <2>1, LimbAtPlace DEF Quotients, Limbs
<1> DEFINE T == [i \in 1 .. Len(limbs) |-> [r \in Quotients(divisor) |-> UintTurn(limbs, divisor, r, Len(limbs) + 1 - i)]]
<1>2. ASSUME NEW i \in 1 .. Len(limbs), NEW r \in Quotients(divisor) PROVE UintTurn(limbs, divisor, r, Len(limbs) + 1 - i) \in Quotients(divisor)
  <2>1. PICK j \in 1 .. Len(limbs) : j = Len(limbs) + 1 - i
    BY <1>1
  <2>2. PICK l \in Limbs, s \in 0 .. divisor - 1 : r = [limbs |-> l, remainder |-> s]
    BY DEF Quotients
  <2>3. PICK digit \in Limb, after \in 0 .. divisor - 1 :
          UintTurned(digit, after, limbs, divisor, l, s, j)
    BY UintTurnExact
  <2>4. PICK t : t = <<digit>> \o l
    OBVIOUS
  <2>5. t \in Limbs
    BY <2>4, ConcatProperties DEF Limbs
  <2>6. UintTurn(limbs, divisor, r, Len(limbs) + 1 - i) = [limbs |-> t, remainder |-> after]
    BY <2>1, <2>2, <2>3, <2>4, Zenon DEF UintTurned
  <2> QED
    BY <2>5, <2>6 DEF Quotients
<1>3. T \in Turns(Len(limbs), Quotients(divisor))
  BY <1>2 DEF Turns
<1>4. \A i \in 1 .. Len(limbs), r \in Quotients(divisor) : T[i][r] = UintTurn(limbs, divisor, r, Len(limbs) + 1 - i)
  OBVIOUS
<1> HIDE DEF T
<1>5. PICK f : Course(f, Len(limbs), Quotients(divisor), [limbs |-> <<>>, remainder |-> 0], T)
  BY <1>1, <1>3, Iterates
<1>6. f \in [0 .. Len(limbs) -> Quotients(divisor)] /\ f[0] = [limbs |-> <<>>, remainder |-> 0] /\ \A i \in 1 .. Len(limbs) : f[i] = T[i][f[i - 1]]
  BY <1>5 DEF Course
<1>7. \A i \in 0 .. Len(limbs) : i # 0 => i \in 1 .. Len(limbs) /\ i - 1 \in 0 .. Len(limbs)
  BY <1>1
<1>8. \A i \in 0 .. Len(limbs) : f[i] = IF i = 0 THEN [limbs |-> <<>>, remainder |-> 0] ELSE UintTurn(limbs, divisor, f[i - 1], Len(limbs) + 1 - i)
  <2> SUFFICES ASSUME NEW i \in 0 .. Len(limbs), i # 0 PROVE f[i] = UintTurn(limbs, divisor, f[i - 1], Len(limbs) + 1 - i)
    BY <1>6, Zenon
  <2>1. i \in 1 .. Len(limbs) /\ f[i - 1] \in Quotients(divisor)
    BY <1>6, <1>7
  <2> QED
    BY <1>4, <1>6, <2>1, Zenon
<1>9. f = [i \in 0 .. Len(limbs) |-> IF i = 0 THEN [limbs |-> <<>>, remainder |-> 0] ELSE UintTurn(limbs, divisor, f[i - 1], Len(limbs) + 1 - i)]
  <2>1. f = [i \in 0 .. Len(limbs) |-> f[i]]
    BY <1>6
  <2> QED
    BY <1>8, <2>1, Zenon
<1>10. UintCourse(f, limbs, divisor)
  BY <1>9, Zenon DEF UintCourse
<1>11. PICK g : g = CHOOSE h : UintCourse(h, limbs, divisor)
  OBVIOUS
<1>12. UintCourse(g, limbs, divisor) /\ DivideByUint(limbs, divisor) = [quotient |-> Trimmed(g[Len(limbs)].limbs), remainder |-> g[Len(limbs)].remainder]
  BY <1>10, <1>11, UintUnfolded, Zenon
<1>13. g = [i \in 0 .. Len(limbs) |-> IF i = 0 THEN [limbs |-> <<>>, remainder |-> 0] ELSE UintTurn(limbs, divisor, g[i - 1], Len(limbs) + 1 - i)]
  BY <1>12, Zenon DEF UintCourse
<1>14. \A i \in 0 .. Len(limbs) : g[i] = IF i = 0 THEN [limbs |-> <<>>, remainder |-> 0] ELSE UintTurn(limbs, divisor, g[i - 1], Len(limbs) + 1 - i)
  BY <1>13, Zenon
<1>15. g = [i \in 0 .. Len(limbs) |-> g[i]]
  BY <1>13, <1>14, Zenon
<1>16. g[0] = [limbs |-> <<>>, remainder |-> 0] /\ \A i \in 1 .. Len(limbs) : g[i] = UintTurn(limbs, divisor, g[i - 1], Len(limbs) + 1 - i)
  <2>1. 0 \in 0 .. Len(limbs) /\ \A i \in 1 .. Len(limbs) : i \in 0 .. Len(limbs) /\ i # 0
    BY <1>1
  <2> QED
    BY <1>14, <2>1, Zenon
<1>17. \A i \in 1 .. Len(limbs) : g[i - 1] \in Quotients(divisor) => g[i] = T[i][g[i - 1]]
  BY <1>4, <1>16, Zenon
<1>18. Course(g, Len(limbs), Quotients(divisor), [limbs |-> <<>>, remainder |-> 0], T)
  BY <1>1, <1>3, <1>15, <1>16, <1>17, RunsItsCourse
<1>19. g \in [0 .. Len(limbs) -> Quotients(divisor)]
  BY <1>18 DEF Course
<1> QED
  BY <1>12, <1>16, <1>19

(* What the limbs brought down have come to: high * place + low is the number. *)
UintSum(whole, q, d, r, place, low) == whole = (q * d + r) * place + low

(* One limb more. *)
LEMMA UintPlace ==
  ASSUME NEW whole \in Int, NEW q \in Int, NEW d \in Int, NEW r \in Int, NEW base \in Int,
         NEW w \in Int, NEW low \in Int, NEW x \in Int,
         UintSum(whole, q, d, r, base * w, low + x * w),
         NEW digit \in Int, NEW after \in Int, r * base + x = digit * d + after
  PROVE  UintSum(whole, digit + base * q, d, after, w, low)
<1>1. whole = (q * d + r) * (base * w) + (low + x * w)
  BY Zenon DEF UintSum
<1>2. (q * d + r) * (base * w) + (low + x * w) = (((base * q) * d) * w + (r * base + x) * w) + low
  OBVIOUS
<1>3. (r * base + x) * w = (digit * d + after) * w
  BY Zenon
<1>4. (((base * q) * d) * w + (digit * d + after) * w) + low = ((digit + base * q) * d + after) * w + low
  OBVIOUS
<1> QED
  BY <1>1, <1>2, <1>3, <1>4, Zenon DEF UintSum

(* DivideByUint divides a magnitude by a limb. *)
LEMMA DivideByUintExact ==
  ASSUME NEW limbs \in Limbs, NEW divisor \in Limb, divisor # 0
  PROVE  LET d == DivideByUint(limbs, divisor)
         IN  /\ d = [quotient |-> d.quotient, remainder |-> d.remainder]
             /\ Trim(d.quotient) /\ d.remainder \in 0 .. divisor - 1
             /\ Len(d.quotient) <= Len(limbs)
             /\ MagnitudeOf(limbs) = MagnitudeOf(d.quotient) * divisor + d.remainder
<1>1. PICK m \in Nat : m = Len(limbs)
  BY LimbAtPlace
<1>2. PICK f \in [0 .. m -> Quotients(divisor)] :
        /\ f[0] = [limbs |-> <<>>, remainder |-> 0]
        /\ \A i \in 1 .. m : f[i] = UintTurn(limbs, divisor, f[i - 1], m + 1 - i)
        /\ DivideByUint(limbs, divisor) = [quotient |-> Trimmed(f[m].limbs), remainder |-> f[m].remainder]
  BY <1>1, UintLoop
<1>3. divisor \in Nat /\ divisor >= 1 /\ Base \in Nat /\ Base \in Int /\ divisor \in Int
  BY BaseFacts DEF Limb
<1>4. PICK whole \in Nat : whole = Low(limbs, m)
  BY LowType
<1> DEFINE C == {k \in 0 .. m :
             \E l \in Buffer(k), r \in 0 .. divisor - 1 :
               /\ f[k] = [limbs |-> l, remainder |-> r]
               /\ UintSum(whole, Low(l, k), divisor, r, Weight(m - k), Low(limbs, m - k))}
<1>5. 0 \in C
  <2>1. <<>> \in Buffer(0) /\ <<>> \in Limbs
    BY DEF Buffer, Limbs
  <2>2. Low(<<>>, 0) = 0
    BY <2>1, LowFacts
  <2>3. m - 0 = m /\ 0 \in 0 .. divisor - 1 /\ 0 \in 0 .. m
    BY <1>3
  <2>4. PICK w \in Nat : w = Weight(m)
    BY WeightFacts
  <2>5. whole = (0 * divisor + 0) * w + whole
    BY <1>3
  <2>6. UintSum(whole, Low(<<>>, 0), divisor, 0, Weight(m - 0), Low(limbs, m - 0))
    BY <1>4, <2>2, <2>3, <2>4, <2>5, Zenon DEF UintSum
  <2> QED
    BY <1>2, <2>1, <2>3, <2>6
<1>6. ASSUME NEW k \in 0 .. m - 1, k \in C PROVE k + 1 \in C
  <2>1. PICK l \in Buffer(k), r \in 0 .. divisor - 1 :
          /\ f[k] = [limbs |-> l, remainder |-> r]
          /\ UintSum(whole, Low(l, k), divisor, r, Weight(m - k), Low(limbs, m - k))
    BY <1>6
  <2> HIDE DEF C
  <2>2. PICK j \in Nat : j = m - (k + 1)
    OBVIOUS
  <2>3. /\ m - k = j + 1 /\ k + 1 \in 1 .. m /\ (k + 1) - 1 = k /\ k + 1 \in 0 .. m /\ k \in Nat
        /\ m + 1 - (k + 1) = j + 1 /\ j + 1 \in 1 .. Len(limbs) /\ j + 1 \in Int
    BY <1>1, <2>2
  <2>4. PICK digit \in Limb, after \in 0 .. divisor - 1 :
          UintTurned(digit, after, limbs, divisor, l, r, j + 1)
    BY <2>3, UintTurnExact
  <2>5. PICK t : t = <<digit>> \o l
    OBVIOUS
  <2>6. t \in Buffer(k + 1) /\ Low(t, k + 1) = digit + Base * Low(l, k)
    BY <2>3, <2>5, LowPrepend
  <2>7. f[k + 1] = [limbs |-> t, remainder |-> after]
    <3>1. f[k + 1] = UintTurn(limbs, divisor, f[(k + 1) - 1], m + 1 - (k + 1))
      BY <1>2, <2>3
    <3> QED
      BY <2>1, <2>3, <2>4, <2>5, <3>1, Zenon DEF UintTurned
  <2>8. PICK x \in Limb : x = LimbAt(limbs, j + 1)
    BY <2>3, LimbAtType
  <2>9. PICK w \in Nat : w = Weight(j) /\ Weight(j + 1) = Base * w
    BY WeightFacts
  <2>10. PICK low \in Nat : low = Low(limbs, j) /\ Low(limbs, j + 1) = low + x * w
    BY <2>8, <2>9, LowFacts
  <2>11. PICK q \in Nat : q = Low(l, k)
    <3>1. l \in Limbs
      BY DEF Buffer
    <3> QED
      BY <2>3, <3>1, LowType
  <2>12. UintSum(whole, q, divisor, r, Base * w, low + x * w)
    BY <2>1, <2>3, <2>9, <2>10, <2>11, Zenon
  <2>13. r * Base + x = digit * divisor + after
    BY <2>4, <2>8, Zenon DEF UintTurned
  <2>14. x \in Int /\ digit \in Int /\ after \in Int /\ r \in Int /\ w \in Int /\ low \in Int
         /\ q \in Int /\ whole \in Int
    BY <1>3 DEF Limb
  <2>15. UintSum(whole, digit + Base * q, divisor, after, w, low)
    BY <1>3, <2>12, <2>13, <2>14, UintPlace
  <2>16. UintSum(whole, Low(t, k + 1), divisor, after, Weight(m - (k + 1)), Low(limbs, m - (k + 1)))
    BY <2>2, <2>6, <2>9, <2>10, <2>11, <2>15, Zenon
  <2> QED
    BY <2>3, <2>6, <2>7, <2>16, Zenon DEF C
<1>7. m \in C
  <2>1. \A k \in 0 .. m : k \in C
    <3> HIDE DEF C
    <3> QED
      BY <1>5, <1>6, Induction
  <2> QED
    BY <2>1
<1>8. PICK l \in Buffer(m), r \in 0 .. divisor - 1 :
        /\ f[m] = [limbs |-> l, remainder |-> r]
        /\ UintSum(whole, Low(l, m), divisor, r, Weight(m - m), Low(limbs, m - m))
  BY <1>7
<1>9. l \in Limbs /\ Len(l) = m
  BY DEF Buffer
<1>10. PICK q \in Nat : q = Low(l, m)
  BY <1>9, LowType
<1>11. whole = q * divisor + r
  <2>1. m - m = 0 /\ Weight(0) = 1 /\ Low(limbs, 0) = 0
    BY WeightFacts, LowFacts
  <2>2. whole = (q * divisor + r) * 1 + 0
    BY <1>8, <1>10, <2>1, Zenon DEF UintSum
  <2>3. q * divisor \in Int /\ r \in Int
    BY <1>3
  <2> QED
    BY <2>2, <2>3
<1>12. PICK t : t = Trimmed(l)
  OBVIOUS
<1>13. Trim(t) /\ MagnitudeOf(t) = q /\ Len(t) <= m
  BY <1>9, <1>10, <1>12, TrimmedTwice, TrimmedValue, TrimmedFacts
<1>14. DivideByUint(limbs, divisor) = [quotient |-> t, remainder |-> r]
  BY <1>2, <1>8, <1>12
<1>15. MagnitudeOf(limbs) = whole
  BY <1>1, <1>4, MagnitudeIsLow
<1> QED
  BY <1>1, <1>11, <1>13, <1>14, <1>15
-----------------------------------------------------------------------------
(* The estimate of a quotient digit *)

(* d times the two top limbs of the divisor goes into the three top limbs. *)
TopFits(d, v1, v2, h, l, x) == d * (v1 * Base + v2) <= (h * Base + l) * Base + x
(* Nothing above d does. *)
Bounds(d, v1, v2, h, l, x) == \A q \in Limb : TopFits(q, v1, v2, h, l, x) => q <= d

(* With the rest of the two top limbs, whether it fits is a question about the
   second limb of the divisor. *)
LEMMA FitsByRest ==
  ASSUME NEW d \in Int, NEW v1 \in Int, NEW v2 \in Int, NEW h \in Int, NEW l \in Int, NEW x \in Int,
         NEW rest \in Int, d * v1 + rest = h * Base + l
  PROVE  TopFits(d, v1, v2, h, l, x) <=> d * v2 <= rest * Base + x
<1>1. PICK base \in Int : base = Base
  BY BaseFacts
<1>2. d * (v1 * base + v2) = (d * v1) * base + d * v2
  OBVIOUS
<1>3. PICK two \in Int : two = h * base + l
  OBVIOUS
<1>4. PICK dv \in Int : dv = d * v1 /\ dv = two - rest
  <2>1. d * v1 \in Int
    OBVIOUS
  <2> QED
    BY <1>1, <1>3, <2>1
<1>5. dv * base = two * base - rest * base
  BY <1>4
<1>6. PICK tb \in Int : tb = two * base
  OBVIOUS
<1>7. PICK rb \in Int : rb = rest * base
  OBVIOUS
<1>8. PICK dw \in Int : dw = d * v2
  OBVIOUS
<1>9. d * (v1 * base + v2) = (tb - rb) + dw
  BY <1>2, <1>4, <1>5, <1>6, <1>7, <1>8
<1>10. (tb - rb) + dw <= tb + x <=> dw <= rb + x
  OBVIOUS
<1>11. TopFits(d, v1, v2, h, l, x) <=> (tb - rb) + dw <= tb + x
  BY <1>1, <1>3, <1>6, <1>9, Zenon DEF TopFits
<1> QED
  BY <1>1, <1>7, <1>8, <1>10, <1>11, Zenon

(* The quotient of the two top limbs by the top limb bounds the digit. *)
LEMMA TopQuotientBounds ==
  ASSUME NEW v1 \in Nat, v1 >= 1, NEW v2 \in Nat, NEW h \in Nat, NEW l \in Nat, NEW x \in Limb,
         NEW d \in Nat, NEW rest \in 0 .. v1 - 1, d * v1 + rest = h * Base + l
  PROVE  Bounds(d, v1, v2, h, l, x)
<1> SUFFICES ASSUME NEW q \in Limb, TopFits(q, v1, v2, h, l, x), ~(q <= d) PROVE FALSE
  BY DEF Bounds
<1>1. PICK base \in Nat : base = Base /\ base >= 4 /\ x < base /\ x \in Nat
  BY BaseFacts DEF Limb
<1>2. q \in Nat /\ d + 1 <= q
  BY <1>1 DEF Limb
<1>3. PICK two \in Nat : two = h * base + l
  OBVIOUS
<1>4. (d + 1) * v1 >= two + 1
  <2>1. (d + 1) * v1 = d * v1 + v1
    OBVIOUS
  <2>2. d * v1 \in Int /\ rest \in Int /\ rest <= v1 - 1
    OBVIOUS
  <2> QED
    BY <1>1, <1>3, <2>1, <2>2
<1>5. (d + 1) * v1 <= q * v1
  <2>1. d + 1 \in Int /\ q \in Int
    BY <1>2
  <2> QED
    BY <1>2, <2>1, TimesMonotone
<1>6. PICK qv \in Nat : qv = q * v1
  BY <1>2
<1>7. two + 1 <= qv
  <2>1. (d + 1) * v1 \in Int
    OBVIOUS
  <2> QED
    BY <1>4, <1>5, <1>6, <2>1
<1>8. (two + 1) * base <= qv * base
  BY <1>7, TimesMonotone
<1>9. (two + 1) * base = two * base + base
  OBVIOUS
<1>10. q * (v1 * base + v2) = qv * base + q * v2
  <2>1. q * (v1 * base + v2) = (q * v1) * base + q * v2
    BY <1>2
  <2> QED
    BY <1>6, <2>1
<1>11. PICK w \in Nat : w = q * v2
  BY <1>2
<1>12. PICK tb \in Nat : tb = two * base
  OBVIOUS
<1>13. PICK qb \in Nat : qb = qv * base
  OBVIOUS
<1>14. qb + w <= tb + x
  BY <1>1, <1>3, <1>10, <1>11, <1>12, <1>13, Zenon DEF TopFits
<1> QED
  BY <1>1, <1>8, <1>9, <1>12, <1>13, <1>14

(* A turn of the correction. *)
FirstEstimate(high, low, v) ==
  IF high = v[Len(v)]
  THEN [digit |-> Base - 1, rest |-> (low + v[Len(v)]) % Base,
        done |-> (low + v[Len(v)]) % Base < low]
  ELSE LET d == DivideWide(high, low, v[Len(v)])
       IN  [digit |-> d.quotient, rest |-> d.remainder, done |-> FALSE]
EstimateTurn(v, next, state) ==
  LET p == MultiplyLimbs(state.digit, v[Len(v) - 1])
      rest == (state.rest + v[Len(v)]) % Base
  IN  IF state.done \/ p.high < state.rest \/ (p.high = state.rest /\ p.low <= next)
      THEN [digit |-> state.digit, rest |-> state.rest, done |-> TRUE]
      ELSE [digit |-> state.digit - 1, rest |-> rest, done |-> rest < state.rest]

(* An estimate that is open has its rest; one that is done fits. *)
Estimated(digit, rest, done, least, v1, v2, h, l, x) ==
  /\ Bounds(digit, v1, v2, h, l, x)
  /\ done => TopFits(digit, v1, v2, h, l, x)
  /\ ~done => digit * v1 + rest = h * Base + l /\ rest >= least

(* The two top limbs of a divisor. *)
Tops(v, v1, v2) == Len(v) \in Nat /\ Len(v) >= 2 /\ v1 = v[Len(v)] /\ v2 = v[Len(v) - 1]

(* A digit whose rest is above a limb fits. *)
LEMMA RestAboveFits ==
  ASSUME NEW digit \in Limb, NEW v1 \in Limb, NEW v2 \in Limb, NEW h \in Limb, NEW l \in Limb, NEW x \in Limb,
         NEW rest \in Nat, rest >= Base, digit * v1 + rest = h * Base + l
  PROVE  TopFits(digit, v1, v2, h, l, x)
<1>1. PICK base \in Nat : base = Base /\ base >= 4
  BY BaseFacts
<1>2. /\ digit \in Nat /\ v1 \in Int /\ v2 \in Nat /\ h \in Int /\ l \in Int /\ x \in Nat
      /\ digit <= base /\ v2 <= base /\ base <= rest /\ digit \in Int
  BY <1>1 DEF Limb
<1>3. digit * v2 <= base * v2
  BY <1>2, TimesMonotone
<1>4. v2 * base <= rest * base
  BY <1>2, TimesMonotone
<1>5. base * v2 = v2 * base /\ digit * v2 \in Int /\ v2 * base \in Int /\ rest * base \in Int
  BY <1>2
<1>6. digit * v2 <= rest * base + x
  BY <1>2, <1>3, <1>4, <1>5
<1>7. digit * v2 <= rest * Base + x
  BY <1>1, <1>6, Zenon
<1>8. TopFits(digit, v1, v2, h, l, x) <=> digit * v2 <= rest * Base + x
  <2>1. rest \in Int
    OBVIOUS
  <2> QED
    BY <1>2, <2>1, FitsByRest
<1> QED
  BY <1>7, <1>8, Zenon

(* A product against the rest and the next limb, limb by limb. *)
LEMMA ProductAgainstRest ==
  ASSUME NEW base \in Nat, base >= 1, NEW low \in 0 .. base - 1, NEW high \in Nat,
         NEW rest \in Nat, NEW x \in 0 .. base - 1
  PROVE  low + high * base <= rest * base + x <=> high < rest \/ (high = rest /\ low <= x)
<1>1. CASE high < rest
  <2>1. (high + 1) * base <= rest * base
    BY <1>1, TimesMonotone
  <2>2. (high + 1) * base = high * base + base /\ high * base \in Int /\ rest * base \in Int
    OBVIOUS
  <2> QED
    BY <1>1, <2>1, <2>2
<1>2. CASE high = rest
  <2>1. high * base = rest * base /\ rest * base \in Int
    BY <1>2
  <2> QED
    BY <1>2, <2>1
<1>3. CASE high > rest
  <2>1. (rest + 1) * base <= high * base
    BY <1>3, TimesMonotone
  <2>2. (rest + 1) * base = rest * base + base /\ high * base \in Int /\ rest * base \in Int
    OBVIOUS
  <2> QED
    BY <1>3, <2>1, <2>2
<1> QED
  BY <1>1, <1>2, <1>3

(* What a turn makes of an open estimate. *)
EstimateTurned(d, r, done, v, v1, v2, h, l, x, digit, rest) ==
  /\ EstimateTurn(v, x, [digit |-> digit, rest |-> rest, done |-> FALSE])
       = [digit |-> d, rest |-> r, done |-> done]
  /\ Estimated(d, r, done, rest + v1, v1, v2, h, l, x)

(* A turn either finds that the digit fits the three top limbs, or lowers it by
   one and leaves it no smaller than any that fits. *)
LEMMA EstimateTurnExact ==
  ASSUME NEW v, NEW v1 \in Limb, NEW v2 \in Limb, Tops(v, v1, v2),
         NEW h \in Limb, NEW l \in Limb, NEW x \in Limb,
         NEW digit \in Limb, NEW rest \in Limb,
         Bounds(digit, v1, v2, h, l, x), digit * v1 + rest = h * Base + l
  PROVE  \E d \in Limb, r \in Limb, done \in BOOLEAN :
           EstimateTurned(d, r, done, v, v1, v2, h, l, x, digit, rest)
<1>1. PICK base \in Nat : base = Base /\ base >= 4
  BY BaseFacts
<1>2. /\ digit \in Nat /\ rest \in Nat /\ v1 \in Nat /\ v2 \in Nat /\ h \in Nat /\ l \in Nat /\ x \in Nat
      /\ digit < base /\ rest < base /\ v1 < base /\ v2 < base /\ x < base
      /\ digit \in Int /\ rest \in Int /\ v1 \in Int /\ v2 \in Int /\ h \in Int /\ l \in Int /\ x \in Int
      /\ x \in 0 .. base - 1
  BY <1>1 DEF Limb
<1> DEFINE p == MultiplyLimbs(digit, v2)
<1>3. p.low \in Limb /\ p.high \in 0 .. Base - 2 /\ p.low + p.high * Base = digit * v2
  BY MultiplyLimbsExact
<1> HIDE DEF p
<1>4. PICK low \in 0 .. base - 1 : low = p.low
  BY <1>1, <1>3 DEF Limb
<1>5. PICK high \in Nat : high = p.high
  BY <1>1, <1>3
<1>6. low + high * base = digit * v2
  BY <1>1, <1>3, <1>4, <1>5
<1>7. TopFits(digit, v1, v2, h, l, x) <=> high < rest \/ (high = rest /\ low <= x)
  <2>1. TopFits(digit, v1, v2, h, l, x) <=> digit * v2 <= rest * Base + x
    BY <1>2, FitsByRest
  <2>2. low + high * base <= rest * base + x <=> high < rest \/ (high = rest /\ low <= x)
    BY <1>1, <1>2, ProductAgainstRest
  <2> QED
    BY <1>1, <1>6, <2>1, <2>2, Zenon
<1> DEFINE state == [digit |-> digit, rest |-> rest, done |-> FALSE]
<1>8. state.digit = digit /\ state.rest = rest /\ state.done = FALSE
  BY Zenon
<1> HIDE DEF state
<1>9. MultiplyLimbs(state.digit, v[Len(v) - 1]) = p /\ v[Len(v)] = v1
  BY <1>8, Zenon DEF p, Tops
<1>10. CASE high < rest \/ (high = rest /\ low <= x)
  <2>1. EstimateTurn(v, x, state) = [digit |-> digit, rest |-> rest, done |-> TRUE]
    BY <1>4, <1>5, <1>8, <1>9, <1>10, Zenon DEF EstimateTurn
  <2>2. Estimated(digit, rest, TRUE, rest + v1, v1, v2, h, l, x)
    BY <1>7, <1>10, Zenon DEF Estimated
  <2>3. EstimateTurned(digit, rest, TRUE, v, v1, v2, h, l, x, digit, rest)
    BY <2>1, <2>2, Zenon DEF state, EstimateTurned
  <2> QED
    BY <2>3
<1>11. CASE ~(high < rest \/ (high = rest /\ low <= x))
  <2>1. PICK sum \in Limb : /\ sum = (rest + v1) % Base
                           /\ sum + (IF sum < rest THEN 1 ELSE 0) * Base = rest + v1
    BY Wraps
  <2>2. PICK done \in BOOLEAN : done = (sum < rest)
    <3>1. CASE sum < rest
      <4>1. (sum < rest) = TRUE
        BY <3>1, Zenon
      <4> QED
        BY <4>1, Zenon
    <3>2. CASE ~(sum < rest)
      <4>1. (sum < rest) = FALSE
        <5>1. (sum < rest) \in BOOLEAN
          <6>1. sum \in Int
            BY <1>1 DEF Limb
          <6> QED
            BY <1>2, <6>1
        <5> QED
          BY <3>2, <5>1, Zenon
      <4> QED
        BY <4>1, Zenon
    <3> QED
      BY <3>1, <3>2
  <2>3. EstimateTurn(v, x, state) = [digit |-> digit - 1, rest |-> sum, done |-> done]
    BY <1>4, <1>5, <1>8, <1>9, <1>11, <2>1, <2>2, Zenon DEF EstimateTurn
  <2>4. digit >= 1
    <3>1. digit # 0
      <4> SUFFICES ASSUME digit = 0 PROVE FALSE
        OBVIOUS
      <4>1. 0 * v2 = 0
        BY <1>2
      <4>2. low + high * base = 0
        BY <1>6, <4>1, Zenon
      <4>3. high * base \in Nat
        OBVIOUS
      <4>4. low = 0 /\ high * base = 0
        BY <4>2, <4>3
      <4>5. high = 0
        <5> SUFFICES ASSUME 1 <= high PROVE FALSE
          OBVIOUS
        <5>1. 1 * base <= high * base
          BY TimesMonotone
        <5> QED
          BY <1>1, <4>4, <5>1
      <4> QED
        BY <1>2, <1>11, <4>4, <4>5
    <3> QED
      BY <1>2, <3>1
  <2>5. PICK d \in Limb : d = digit - 1
    BY <1>1, <1>2, <2>4 DEF Limb
  <2>6. Bounds(d, v1, v2, h, l, x)
    <3> SUFFICES ASSUME NEW q \in Limb, TopFits(q, v1, v2, h, l, x), ~(q <= d) PROVE FALSE
      BY DEF Bounds
    <3>1. q <= digit
      BY DEF Bounds
    <3>2. q \in Int
      BY <1>1 DEF Limb
    <3>3. q = digit
      BY <1>2, <2>5, <3>1, <3>2
    <3> QED
      BY <1>7, <1>11, <3>3
  <2>7. d * v1 + (rest + v1) = h * Base + l
    <3>1. (digit - 1) * v1 = digit * v1 - v1
      BY <1>2
    <3>2. digit * v1 \in Int
      BY <1>2
    <3>3. PICK two \in Int : two = h * Base + l
      BY <1>1, <1>2
    <3> QED
      BY <1>2, <2>5, <3>1, <3>2, <3>3
  <2>8. Estimated(d, sum, done, rest + v1, v1, v2, h, l, x)
    <3>1. CASE sum < rest
      <4>1. rest + v1 >= Base /\ rest + v1 \in Nat
        <5>1. sum + 1 * Base = rest + v1
          BY <2>1, <3>1
        <5>2. sum \in Nat
          BY <1>1 DEF Limb
        <5> QED
          BY <1>1, <1>2, <5>1, <5>2
      <4>2. TopFits(d, v1, v2, h, l, x)
        BY <2>7, <4>1, RestAboveFits
      <4> QED
        BY <2>2, <2>6, <3>1, <4>2, Zenon DEF Estimated
    <3>2. CASE ~(sum < rest)
      <4>1. sum + 0 * Base = rest + v1
        BY <2>1, <3>2, Zenon
      <4>2. sum = rest + v1 /\ sum >= rest + v1
        <5>1. sum \in Nat
          BY <1>1 DEF Limb
        <5> QED
          BY <1>1, <1>2, <4>1, <5>1
      <4> QED
        BY <2>2, <2>6, <2>7, <3>2, <4>2, Zenon DEF Estimated
    <3> QED
      BY <3>1, <3>2
  <2>9. EstimateTurned(d, sum, done, v, v1, v2, h, l, x, digit, rest)
    BY <2>3, <2>5, <2>8, Zenon DEF state, EstimateTurned
  <2> QED
    BY <2>9
<1> QED
  BY <1>10, <1>11

(* A guess on the way, and a state that is one. *)
Guesses == [digit : Int, rest : Limb, done : BOOLEAN]

(* A digit, a rest and a flag make a guess. *)
LEMMA GuessMade ==
  ASSUME NEW d \in Int, NEW r \in Limb, NEW done \in BOOLEAN
  PROVE  [digit |-> d, rest |-> r, done |-> done] \in Guesses
BY DEF Guesses

(* A comparison is a truth value. *)
LEMMA BelowIsBoolean ==
  ASSUME NEW m \in Int, NEW n \in Int
  PROVE  (m < n) \in BOOLEAN
OBVIOUS

(* The first guess: all ones, or the quotient by the top limb. *)
FirstIs(d, r, done, v, v1, v2, h, l, x) ==
  /\ FirstEstimate(h, l, v) = [digit |-> d, rest |-> r, done |-> done]
  /\ Estimated(d, r, done, 0, v1, v2, h, l, x)

Estimating(v, v1, v2, h, l, x) ==
  /\ v1 \in Limb /\ v2 \in Limb /\ Tops(v, v1, v2) /\ v1 # 0
  /\ h \in 0 .. v1 /\ l \in Limb /\ x \in Limb

(* The first guess is no smaller than any digit that fits. *)
LEMMA FirstEstimateExact ==
  ASSUME NEW v, NEW v1, NEW v2, NEW h, NEW l, NEW x, Estimating(v, v1, v2, h, l, x)
  PROVE  \E d \in Limb, r \in Limb, done \in BOOLEAN : FirstIs(d, r, done, v, v1, v2, h, l, x)
<1>0. /\ v1 \in Limb /\ v2 \in Limb /\ Tops(v, v1, v2) /\ v1 # 0
      /\ h \in 0 .. v1 /\ l \in Limb /\ x \in Limb
  BY DEF Estimating
<1>1. PICK base \in Nat : base = Base /\ base >= 4
  BY BaseFacts
<1>2. /\ v1 \in Nat /\ v1 >= 1 /\ v1 < base /\ v2 \in Nat /\ h \in Nat /\ h <= v1 /\ l \in Nat /\ l < base
      /\ x \in Nat /\ l \in Int /\ v1 \in Int /\ h \in Limb /\ h \in Int
  BY <1>0, <1>1 DEF Limb
<1>3. v[Len(v)] = v1
  BY <1>0 DEF Tops
<1>4. CASE h = v1
  <2>1. PICK sum \in Limb : /\ sum = (l + v1) % Base
                           /\ sum + (IF sum < l THEN 1 ELSE 0) * Base = l + v1
    BY <1>0, Wraps
  <2>2. sum \in Nat /\ sum \in Int
    BY <1>1 DEF Limb
  <2>3. PICK done \in BOOLEAN : done = (sum < l)
    <3>1. (sum < l) \in BOOLEAN
      BY <1>2, <2>2, BelowIsBoolean
    <3> QED
      BY <3>1, Zenon
  <2>4. PICK d \in Limb : d = Base - 1 /\ d \in Int
    BY <1>1 DEF Limb
  <2>5. FirstEstimate(h, l, v) = [digit |-> d, rest |-> sum, done |-> done]
    BY <1>3, <1>4, <2>1, <2>3, <2>4, Zenon DEF FirstEstimate
  <2>6. d * v1 + (l + v1) = h * Base + l
    <3>1. (base - 1) * v1 = v1 * base - v1
      BY <1>2
    <3>2. v1 * base \in Int
      BY <1>2
    <3> QED
      BY <1>1, <1>2, <1>4, <2>4, <3>1, <3>2
  <2>7. Bounds(d, v1, v2, h, l, x)
    <3>1. \A q \in Limb : q <= d
      BY <1>1, <2>4 DEF Limb
    <3> QED
      BY <3>1 DEF Bounds
  <2>8. Estimated(d, sum, done, 0, v1, v2, h, l, x)
    <3>1. CASE sum < l
      <4>1. l + v1 >= Base /\ l + v1 \in Nat
        <5>1. sum + 1 * Base = l + v1
          BY <2>1, <3>1
        <5> QED
          BY <1>1, <1>2, <2>2, <5>1
      <4>2. TopFits(d, v1, v2, h, l, x)
        BY <1>0, <1>2, <2>6, <4>1, RestAboveFits
      <4> QED
        BY <2>3, <2>7, <3>1, <4>2, Zenon DEF Estimated
    <3>2. CASE ~(sum < l)
      <4>1. sum + 0 * Base = l + v1
        BY <2>1, <3>2, Zenon
      <4>2. sum = l + v1 /\ sum >= 0
        BY <1>1, <1>2, <2>2, <4>1
      <4> QED
        BY <2>3, <2>6, <2>7, <3>2, <4>2, Zenon DEF Estimated
    <3> QED
      BY <3>1, <3>2
  <2> QED
    BY <2>5, <2>8, Zenon DEF FirstIs
<1>5. CASE h # v1
  <2>1. h \in 0 .. v1 - 1
    BY <1>2, <1>5
  <2> DEFINE w == DivideWide(h, l, v1)
  <2>2. /\ w.quotient \in Limb /\ w.remainder \in 0 .. v1 - 1
        /\ h * Base + l = w.quotient * v1 + w.remainder
    BY <1>0, <2>1, DivideWideExact
  <2>3. FirstEstimate(h, l, v) = [digit |-> w.quotient, rest |-> w.remainder, done |-> FALSE]
    BY <1>3, <1>5, Zenon DEF FirstEstimate
  <2> HIDE DEF w
  <2>4. PICK d \in Limb : d = w.quotient
    BY <2>2
  <2>5. PICK r \in 0 .. v1 - 1 : r = w.remainder
    BY <2>2
  <2>6. d * v1 + r = h * Base + l
    BY <2>2, <2>4, <2>5, Zenon
  <2>7. d \in Nat /\ r \in Nat /\ r >= 0 /\ r \in Limb
    BY <1>1, <1>2 DEF Limb
  <2>8. Bounds(d, v1, v2, h, l, x)
    BY <1>0, <1>2, <2>6, <2>7, TopQuotientBounds
  <2>9. Estimated(d, r, FALSE, 0, v1, v2, h, l, x)
    BY <2>6, <2>7, <2>8, Zenon DEF Estimated
  <2>10. FirstIs(d, r, FALSE, v, v1, v2, h, l, x)
    BY <2>3, <2>4, <2>5, <2>9, Zenon DEF FirstIs
  <2> QED
    BY <2>7, <2>10
<1> QED
  BY <1>4, <1>5

(* A turn from any state: one that is done stays, one that is open goes up by
   the top limb at least. *)
Stepped(d, r, after, least, v, v1, v2, h, l, x, digit, rest, done) ==
  /\ EstimateTurn(v, x, [digit |-> digit, rest |-> rest, done |-> done])
       = [digit |-> d, rest |-> r, done |-> after]
  /\ Estimated(d, r, after, least + v1, v1, v2, h, l, x)

(* A turn keeps that, from an open state and from one that is done. *)
LEMMA EstimateStep ==
  ASSUME NEW v, NEW v1 \in Limb, NEW v2 \in Limb, Tops(v, v1, v2),
         NEW h \in Limb, NEW l \in Limb, NEW x \in Limb, NEW least \in Nat,
         NEW digit \in Limb, NEW rest \in Limb, NEW done \in BOOLEAN,
         Estimated(digit, rest, done, least, v1, v2, h, l, x)
  PROVE  \E d \in Limb, r \in Limb, after \in BOOLEAN :
           Stepped(d, r, after, least, v, v1, v2, h, l, x, digit, rest, done)
<1>1. Base \in Nat /\ rest \in Nat /\ v1 \in Nat
  BY BaseFacts DEF Limb
<1>2. CASE done
  <2>1. done = TRUE
    BY <1>2, Zenon
  <2> DEFINE state == [digit |-> digit, rest |-> rest, done |-> done]
  <2>2. state.digit = digit /\ state.rest = rest /\ state.done = TRUE
    BY <2>1, Zenon
  <2> HIDE DEF state
  <2>3. EstimateTurn(v, x, state) = [digit |-> digit, rest |-> rest, done |-> TRUE]
    BY <2>2, Zenon DEF EstimateTurn
  <2>4. Estimated(digit, rest, TRUE, least + v1, v1, v2, h, l, x)
    BY <2>1, Zenon DEF Estimated
  <2>5. Stepped(digit, rest, TRUE, least, v, v1, v2, h, l, x, digit, rest, done)
    BY <2>3, <2>4, Zenon DEF state, Stepped
  <2> QED
    BY <2>5
<1>3. CASE ~done
  <2>1. done = FALSE
    BY <1>3, Zenon
  <2>2. /\ Bounds(digit, v1, v2, h, l, x) /\ digit * v1 + rest = h * Base + l /\ rest >= least
    BY <1>3, Zenon DEF Estimated
  <2>3. PICK d \in Limb, r \in Limb, after \in BOOLEAN :
          EstimateTurned(d, r, after, v, v1, v2, h, l, x, digit, rest)
    BY <2>2, EstimateTurnExact
  <2>4. /\ EstimateTurn(v, x, [digit |-> digit, rest |-> rest, done |-> FALSE])
             = [digit |-> d, rest |-> r, done |-> after]
        /\ Estimated(d, r, after, rest + v1, v1, v2, h, l, x)
    BY <2>3, Zenon DEF EstimateTurned
  <2>5. r >= rest + v1 => r >= least + v1
    <3>1. r \in Nat
      BY <1>1 DEF Limb
    <3> QED
      BY <1>1, <2>2, <3>1
  <2>6. Estimated(d, r, after, least + v1, v1, v2, h, l, x)
    BY <2>4, <2>5, Zenon DEF Estimated
  <2>7. Stepped(d, r, after, least, v, v1, v2, h, l, x, digit, rest, done)
    BY <2>1, <2>4, <2>6, Zenon DEF Stepped
  <2> QED
    BY <2>7
<1> QED
  BY <1>2, <1>3

(* f is what the loop over the corrections has come to after i turns. *)
EstimateCourse(f, high, low, next, v) ==
  f = [i \in 0 .. 3 |-> IF i = 0 THEN FirstEstimate(high, low, v) ELSE EstimateTurn(v, next, f[i - 1])]

(* The estimate is what its loop ends with. *)
LEMMA EstimateUnfolded ==
  ASSUME NEW high, NEW low, NEW next, NEW v
  PROVE  Estimate(high, low, next, v) = (CHOOSE f : EstimateCourse(f, high, low, next, v))[3].digit
  BY Zenon DEF Estimate, EstimateTurn, FirstEstimate, Loop, EstimateCourse

(* It stays within its type, turn by turn. *)
LEMMA EstimateLoop ==
  ASSUME NEW high,
         NEW low \in Limb,
         NEW next \in Limb,
         NEW v,
         v[Len(v)] \in Limb,
         FirstEstimate(high, low, v) \in Guesses
  PROVE  \E f \in [0 .. 3 -> Guesses] :
           /\ f[0] = FirstEstimate(high, low, v)
           /\ \A i \in 1 .. 3 : f[i] = EstimateTurn(v, next, f[i - 1])
           /\ Estimate(high, low, next, v) = f[3].digit
<1>1. 3 \in Nat /\ FirstEstimate(high, low, v) \in Guesses
  OBVIOUS
<1> DEFINE T == [i \in 1 .. 3 |-> [r \in Guesses |-> EstimateTurn(v, next, r)]]
<1>2. ASSUME NEW i \in 1 .. 3, NEW r \in Guesses PROVE EstimateTurn(v, next, r) \in Guesses
  <2>1. PICK d \in Int, s \in Limb, b \in BOOLEAN : r = [digit |-> d, rest |-> s, done |-> b]
    BY DEF Guesses
  <2>2. PICK sum \in Limb : sum = (s + v[Len(v)]) % Base
    BY Wraps
  <2>3. PICK below \in BOOLEAN : below = (sum < s)
    <3>1. sum \in Int /\ s \in Int
      BY BaseFacts DEF Limb
    <3>2. (sum < s) \in BOOLEAN
      BY <3>1, BelowIsBoolean
    <3> QED
      BY <3>2, Zenon
  <2>4. r.digit = d /\ r.rest = s
    BY <2>1
  <2>5. \/ EstimateTurn(v, next, r) = [digit |-> d, rest |-> s, done |-> TRUE]
        \/ EstimateTurn(v, next, r) = [digit |-> d - 1, rest |-> sum, done |-> below]
    BY <2>2, <2>3, <2>4, Zenon DEF EstimateTurn
  <2>6. [digit |-> d, rest |-> s, done |-> TRUE] \in Guesses
    BY GuessMade
  <2>7. [digit |-> d - 1, rest |-> sum, done |-> below] \in Guesses
    <3>1. d - 1 \in Int
      OBVIOUS
    <3> QED
      BY <3>1, GuessMade
  <2> QED
    BY <2>5, <2>6, <2>7, Zenon
<1>3. T \in Turns(3, Guesses)
  BY <1>2 DEF Turns
<1>4. \A i \in 1 .. 3, r \in Guesses : T[i][r] = EstimateTurn(v, next, r)
  OBVIOUS
<1> HIDE DEF T
<1>5. PICK f : Course(f, 3, Guesses, FirstEstimate(high, low, v), T)
  BY <1>1, <1>3, Iterates
<1>6. f \in [0 .. 3 -> Guesses] /\ f[0] = FirstEstimate(high, low, v) /\ \A i \in 1 .. 3 : f[i] = T[i][f[i - 1]]
  BY <1>5 DEF Course
<1>7. \A i \in 0 .. 3 : i # 0 => i \in 1 .. 3 /\ i - 1 \in 0 .. 3
  BY <1>1
<1>8. \A i \in 0 .. 3 : f[i] = IF i = 0 THEN FirstEstimate(high, low, v) ELSE EstimateTurn(v, next, f[i - 1])
  <2> SUFFICES ASSUME NEW i \in 0 .. 3, i # 0 PROVE f[i] = EstimateTurn(v, next, f[i - 1])
    BY <1>6, Zenon
  <2>1. i \in 1 .. 3 /\ f[i - 1] \in Guesses
    BY <1>6, <1>7
  <2> QED
    BY <1>4, <1>6, <2>1, Zenon
<1>9. f = [i \in 0 .. 3 |-> IF i = 0 THEN FirstEstimate(high, low, v) ELSE EstimateTurn(v, next, f[i - 1])]
  <2>1. f = [i \in 0 .. 3 |-> f[i]]
    BY <1>6
  <2> QED
    BY <1>8, <2>1, Zenon
<1>10. EstimateCourse(f, high, low, next, v)
  BY <1>9, Zenon DEF EstimateCourse
<1>11. PICK g : g = CHOOSE h : EstimateCourse(h, high, low, next, v)
  OBVIOUS
<1>12. EstimateCourse(g, high, low, next, v) /\ Estimate(high, low, next, v) = g[3].digit
  BY <1>10, <1>11, EstimateUnfolded, Zenon
<1>13. g = [i \in 0 .. 3 |-> IF i = 0 THEN FirstEstimate(high, low, v) ELSE EstimateTurn(v, next, g[i - 1])]
  BY <1>12, Zenon DEF EstimateCourse
<1>14. \A i \in 0 .. 3 : g[i] = IF i = 0 THEN FirstEstimate(high, low, v) ELSE EstimateTurn(v, next, g[i - 1])
  BY <1>13, Zenon
<1>15. g = [i \in 0 .. 3 |-> g[i]]
  BY <1>13, <1>14, Zenon
<1>16. g[0] = FirstEstimate(high, low, v) /\ \A i \in 1 .. 3 : g[i] = EstimateTurn(v, next, g[i - 1])
  <2>1. 0 \in 0 .. 3 /\ \A i \in 1 .. 3 : i \in 0 .. 3 /\ i # 0
    BY <1>1
  <2> QED
    BY <1>14, <2>1, Zenon
<1>17. \A i \in 1 .. 3 : g[i - 1] \in Guesses => g[i] = T[i][g[i - 1]]
  BY <1>4, <1>16, Zenon
<1>18. Course(g, 3, Guesses, FirstEstimate(high, low, v), T)
  BY <1>1, <1>3, <1>15, <1>16, <1>17, RunsItsCourse
<1>19. g \in [0 .. 3 -> Guesses]
  BY <1>18 DEF Course
<1> QED
  BY <1>12, <1>16, <1>19

(* Three turns. *)
Corrections(v, h, l, x, s1, s2, s3) ==
  /\ l \in Limb /\ x \in Limb /\ v[Len(v)] \in Limb /\ FirstEstimate(h, l, v) \in Guesses
  /\ s1 = EstimateTurn(v, x, FirstEstimate(h, l, v))
  /\ s2 = EstimateTurn(v, x, s1)
  /\ s3 = EstimateTurn(v, x, s2)

(* What Estimate returns is the digit after three turns. *)
LEMMA EstimateTurns ==
  ASSUME NEW v, NEW h, NEW l, NEW x, NEW s1, NEW s2, NEW s3, Corrections(v, h, l, x, s1, s2, s3)
  PROVE  Estimate(h, l, x, v) = s3.digit
<1>0. /\ l \in Limb /\ x \in Limb /\ v[Len(v)] \in Limb /\ FirstEstimate(h, l, v) \in Guesses
      /\ s1 = EstimateTurn(v, x, FirstEstimate(h, l, v))
      /\ s2 = EstimateTurn(v, x, s1)
      /\ s3 = EstimateTurn(v, x, s2)
  BY Zenon DEF Corrections
<1>1. PICK f \in [0 .. 3 -> Guesses] :
        /\ f[0] = FirstEstimate(h, l, v)
        /\ \A i \in 1 .. 3 : f[i] = EstimateTurn(v, x, f[i - 1])
        /\ Estimate(h, l, x, v) = f[3].digit
  BY <1>0, EstimateLoop
<1>2. /\ f[1] = EstimateTurn(v, x, f[0]) /\ f[2] = EstimateTurn(v, x, f[1])
      /\ f[3] = EstimateTurn(v, x, f[2])
  <2>1. /\ 1 \in 1 .. 3 /\ 2 \in 1 .. 3 /\ 3 \in 1 .. 3
        /\ 1 - 1 = 0 /\ 2 - 1 = 1 /\ 3 - 1 = 2
    OBVIOUS
  <2> QED
    BY <1>1, <2>1, Zenon
<1>3. f[1] = s1
  BY <1>0, <1>1, <1>2, Zenon
<1>4. f[2] = s2
  BY <1>0, <1>2, <1>3, Zenon
<1>5. f[3] = s3
  BY <1>0, <1>2, <1>4, Zenon
<1> QED
  BY <1>1, <1>5, Zenon

(* The digit estimated is the largest whose product with the two top limbs of
   the divisor goes into the three top limbs: two corrections are enough when
   the top bit of the divisor is set. *)
LEMMA EstimateExact ==
  ASSUME NEW v, NEW v1 \in Limb, NEW v2 \in Limb, Tops(v, v1, v2), 2 * v1 >= Base,
         NEW h \in 0 .. v1, NEW l \in Limb, NEW x \in Limb
  PROVE  /\ Estimate(h, l, x, v) \in Limb
         /\ TopFits(Estimate(h, l, x, v), v1, v2, h, l, x)
         /\ Bounds(Estimate(h, l, x, v), v1, v2, h, l, x)
<1>1. /\ Base \in Nat /\ Base >= 4 /\ v1 \in Nat /\ v1 < Base /\ v1 # 0 /\ h \in Limb
      /\ v[Len(v)] \in Limb
  BY BaseFacts DEF Limb, Tops
<1>2. PICK d0 \in Limb, r0 \in Limb, done0 \in BOOLEAN : FirstIs(d0, r0, done0, v, v1, v2, h, l, x)
  <2>1. Estimating(v, v1, v2, h, l, x)
    BY <1>1 DEF Estimating
  <2> QED
    BY <2>1, FirstEstimateExact, Zenon
<1>3. /\ FirstEstimate(h, l, v) = [digit |-> d0, rest |-> r0, done |-> done0]
      /\ Estimated(d0, r0, done0, 0, v1, v2, h, l, x)
  BY <1>2, Zenon DEF FirstIs
<1>4. FirstEstimate(h, l, v) \in Guesses
  <2>1. d0 \in Int
    BY <1>1 DEF Limb
  <2>2. [digit |-> d0, rest |-> r0, done |-> done0] \in Guesses
    BY <2>1, GuessMade
  <2> QED
    BY <1>3, <2>2, Zenon
<1>7. 0 \in Nat
  OBVIOUS
<1>8. PICK d1 \in Limb, r1 \in Limb, done1 \in BOOLEAN :
        Stepped(d1, r1, done1, 0, v, v1, v2, h, l, x, d0, r0, done0)
  BY <1>1, <1>3, <1>7, EstimateStep
<1>9. /\ [digit |-> d1, rest |-> r1, done |-> done1] = EstimateTurn(v, x, FirstEstimate(h, l, v))
      /\ Estimated(d1, r1, done1, 0 + v1, v1, v2, h, l, x)
  BY <1>3, <1>8, Zenon DEF Stepped
<1>10. PICK least1 \in Nat : least1 = 0 + v1
  BY <1>1
<1>11. PICK d2 \in Limb, r2 \in Limb, done2 \in BOOLEAN :
        Stepped(d2, r2, done2, least1, v, v1, v2, h, l, x, d1, r1, done1)
  BY <1>1, <1>9, <1>10, EstimateStep
<1>12. /\ [digit |-> d2, rest |-> r2, done |-> done2]
            = EstimateTurn(v, x, [digit |-> d1, rest |-> r1, done |-> done1])
       /\ Estimated(d2, r2, done2, least1 + v1, v1, v2, h, l, x)
  BY <1>11, Zenon DEF Stepped
<1>13. PICK least2 \in Nat : least2 = least1 + v1
  BY <1>1
<1>14. PICK d3 \in Limb, r3 \in Limb, done3 \in BOOLEAN :
        Stepped(d3, r3, done3, least2, v, v1, v2, h, l, x, d2, r2, done2)
  BY <1>1, <1>12, <1>13, EstimateStep
<1>15. /\ [digit |-> d3, rest |-> r3, done |-> done3]
            = EstimateTurn(v, x, [digit |-> d2, rest |-> r2, done |-> done2])
       /\ Estimated(d3, r3, done3, least2 + v1, v1, v2, h, l, x)
  BY <1>14, Zenon DEF Stepped
<1>16. done3
  <2> SUFFICES ASSUME ~done3 PROVE FALSE
    OBVIOUS
  <2>1. r3 >= least2 + v1
    BY <1>15, Zenon DEF Estimated
  <2>2. r3 \in Nat /\ r3 < Base
    BY <1>1 DEF Limb
  <2> QED
    BY <1>1, <1>10, <1>13, <2>1, <2>2
<1>17. TopFits(d3, v1, v2, h, l, x) /\ Bounds(d3, v1, v2, h, l, x)
  BY <1>15, <1>16, Zenon DEF Estimated
<1>18. Estimate(h, l, x, v) = d3
  <2>1. [digit |-> d3, rest |-> r3, done |-> done3].digit = d3
    BY Zenon
  <2>2. PICK s1 : s1 = [digit |-> d1, rest |-> r1, done |-> done1]
    OBVIOUS
  <2>3. PICK s2 : s2 = [digit |-> d2, rest |-> r2, done |-> done2]
    OBVIOUS
  <2>4. PICK s3 : s3 = [digit |-> d3, rest |-> r3, done |-> done3]
    OBVIOUS
  <2>5. /\ s1 = EstimateTurn(v, x, FirstEstimate(h, l, v)) /\ s2 = EstimateTurn(v, x, s1)
        /\ s3 = EstimateTurn(v, x, s2)
    BY <1>9, <1>12, <1>15, <2>2, <2>3, <2>4, Zenon
  <2>6. v[Len(v)] \in Limb
    BY <1>1
  <2>7. Corrections(v, h, l, x, s1, s2, s3)
    BY <1>4, <2>5, <2>6, Zenon DEF Corrections
  <2>8. Estimate(h, l, x, v) = s3.digit
    BY <2>7, EstimateTurns, Zenon
  <2> QED
    BY <2>1, <2>4, <2>8, Zenon
<1> QED
  BY <1>17, <1>18, Zenon

-----------------------------------------------------------------------------
(* A multiple taken from a window *)

(* Two limbs, or a limb and a borrow, taken with one borrow out. *)
LEMMA WrapsBelow ==
  ASSUME NEW x \in Limb, NEW y \in Limb
  PROVE  LET s == (x - y) % Base
         IN  s \in Limb /\ s + y = x + (IF x < y THEN 1 ELSE 0) * Base
<1>1. Base \in Nat /\ Base >= 4 /\ x \in Nat /\ y \in Nat /\ x < Base /\ y < Base
  BY BaseFacts DEF Limb
<1>2. CASE x >= y
  <2>1. x - y = Base * 0 + (x - y) /\ x - y \in Int /\ 0 <= x - y /\ x - y < Base
    BY <1>1, <1>2
  <2>2. (x - y) % Base = x - y
    BY <1>1, <2>1, DivisionIs
  <2>3. (IF x < y THEN 1 ELSE 0) * Base = 0
    BY <1>1, <1>2
  <2> QED
    BY <1>1, <1>2, <2>2, <2>3 DEF Limb
<1>3. CASE x < y
  <2>1. /\ x - y = Base * (-1) + (x - y + Base) /\ x - y + Base \in Int
        /\ 0 <= x - y + Base /\ x - y + Base < Base /\ x - y \in Int
    BY <1>1, <1>3
  <2>2. (x - y) % Base = x - y + Base
    BY <1>1, <2>1, DivisionIs
  <2>3. (IF x < y THEN 1 ELSE 0) * Base = Base
    BY <1>1, <1>3
  <2> QED
    BY <1>1, <1>3, <2>2, <2>3 DEF Limb
<1> QED
  BY <1>1, <1>2, <1>3

(* A limb less a product limb, less a borrow: each of the two may wrap, and no
   more than one of them does. *)
LEMMA BorrowTwice ==
  ASSUME NEW x \in Limb, NEW low \in Limb, NEW b \in 0 .. 1
  PROVE  LET difference == (x - low) % Base
             next == (difference - b) % Base
         IN  /\ next \in Limb
             /\ (next + low) + b = x + (IF x < low \/ difference < b THEN 1 ELSE 0) * Base
<1>1. Base \in Nat /\ Base >= 4 /\ x \in Nat /\ low \in Nat /\ x < Base /\ low < Base /\ b \in Limb
  BY BaseFacts DEF Limb
<1>2. PICK difference \in Limb : /\ difference = (x - low) % Base
                                 /\ difference + low = x + (IF x < low THEN 1 ELSE 0) * Base
  BY WrapsBelow
<1>3. PICK next \in Limb : /\ next = (difference - b) % Base
                           /\ next + b = difference + (IF difference < b THEN 1 ELSE 0) * Base
  BY <1>1, WrapsBelow
<1>4. difference \in Nat /\ difference < Base /\ next \in Nat
  BY <1>1 DEF Limb
<1>5. (next + low) + b = x + (IF x < low \/ difference < b THEN 1 ELSE 0) * Base
  <2>1. CASE x < low
    <3>1. difference + low = x + 1 * Base
      BY <1>2, <2>1
    <3>2. difference >= 1
      BY <1>1, <1>4, <3>1
    <3>3. ~(difference < b)
      BY <1>1, <3>2, <1>4
    <3>4. next + b = difference + 0 * Base
      BY <1>3, <3>3, Zenon
    <3>5. (next + low) + b = x + 1 * Base
      BY <1>1, <1>4, <3>1, <3>4
    <3> QED
      BY <2>1, <3>5, Zenon
  <2>2. CASE ~(x < low)
    <3>1. difference + low = x + 0 * Base
      BY <1>2, <2>2, Zenon
    <3>2. CASE difference < b
      <4>1. next + b = difference + 1 * Base
        BY <1>3, <3>2
      <4>2. (next + low) + b = x + 1 * Base
        BY <1>1, <1>4, <3>1, <4>1
      <4> QED
        BY <3>2, <4>2, Zenon
    <3>3. CASE ~(difference < b)
      <4>1. next + b = difference + 0 * Base
        BY <1>3, <3>3, Zenon
      <4>2. (next + low) + b = x + 0 * Base
        BY <1>1, <1>4, <3>1, <4>1
      <4> QED
        BY <2>2, <3>3, <4>2, Zenon
    <3> QED
      BY <3>2, <3>3
  <2> QED
    BY <2>1, <2>2
<1> QED
  BY <1>2, <1>3, <1>5, Zenon

(* One limb of the multiple, with what is owed to the limbs above. *)
TakenLimb(next, owed, x, d, y, owing) == (next + d * y) + owing = x + owed * Base
Taken(low, d, lv, lw, owed, place) == low + d * lv = lw + owed * place

(* One place more. *)
LEMMA PlacesTake ==
  ASSUME NEW low \in Int, NEW d \in Int, NEW lv \in Int, NEW lw \in Int, NEW owing \in Int, NEW w \in Int,
         Taken(low, d, lv, lw, owing, w),
         NEW next \in Int, NEW owed \in Int, NEW x \in Int, NEW y \in Int,
         TakenLimb(next, owed, x, d, y, owing)
  PROVE  Taken(low + next * w, d, lv + y * w, lw + x * w, owed, Base * w)
<1>1. PICK base \in Int : base = Base
  BY BaseFacts
<1>2. PICK dy \in Int : dy = d * y
  OBVIOUS
<1>3. PICK ob \in Int : ob = owed * base
  OBVIOUS
<1>4. (next + dy) + owing = x + ob
  BY <1>1, <1>2, <1>3, Zenon DEF TakenLimb
<1>5. PICK sum \in Int : sum = next + dy /\ sum = x + ob - owing
  BY <1>4
<1>6. sum * w = (x * w + ob * w) - owing * w
  <2>1. (x + ob - owing) * w = (x * w + ob * w) - owing * w
    OBVIOUS
  <2> QED
    BY <1>5, <2>1
<1>7. sum * w = next * w + dy * w
  BY <1>5
<1>8. d * (lv + y * w) = d * lv + dy * w
  <2>1. d * (lv + y * w) = d * lv + (d * y) * w
    OBVIOUS
  <2> QED
    BY <1>2, <2>1
<1>9. owed * (base * w) = ob * w
  <2>1. owed * (base * w) = (owed * base) * w
    OBVIOUS
  <2> QED
    BY <1>3, <2>1
<1>10. PICK t1 \in Int : t1 = next * w
  OBVIOUS
<1>11. PICK t2 \in Int : t2 = dy * w
  OBVIOUS
<1>12. PICK t3 \in Int : t3 = x * w
  OBVIOUS
<1>13. PICK t4 \in Int : t4 = ob * w
  OBVIOUS
<1>14. PICK t5 \in Int : t5 = owing * w
  OBVIOUS
<1>15. PICK t6 \in Int : t6 = d * lv
  OBVIOUS
<1>16. low + t6 = lw + t5
  BY <1>14, <1>15, Zenon DEF Taken
<1>17. t1 + t2 = (t3 + t4) - t5
  BY <1>6, <1>7, <1>10, <1>11, <1>12, <1>13, <1>14
<1>18. (low + t1) + (t6 + t2) = (lw + t3) + t4
  BY <1>16, <1>17
<1> QED
  BY <1>1, <1>8, <1>9, <1>10, <1>11, <1>12, <1>13, <1>15, <1>18, Zenon DEF Taken

(* A turn of the loop. *)
Takings == [limbs : Limbs, carry : Limb, borrow : 0 .. 1]
TakeTurn(window, v, digit, state, i) ==
  LET p == MultiplyLimbs(digit, v[i])
      low == (p.low + state.carry) % Base
      difference == (window[i] - low) % Base
  IN  [limbs |-> Append(state.limbs, (difference - state.borrow) % Base),
       carry |-> p.high + (IF low < p.low THEN 1 ELSE 0),
       borrow |-> IF window[i] < low \/ difference < state.borrow THEN 1 ELSE 0]

(* What it appends and owes. *)
TakeTurned(next, carry, borrow, window, v, digit, l, c, b, i) ==
  /\ TakeTurn(window, v, digit, [limbs |-> l, carry |-> c, borrow |-> b], i)
       = [limbs |-> Append(l, next), carry |-> carry, borrow |-> borrow]
  /\ TakenLimb(next, carry + borrow, LimbAt(window, i), digit, LimbAt(v, i), c + b)

(* Every turn does, and what is owed stays a limb and a bit. *)
LEMMA TakeTurnExact ==
  ASSUME NEW n \in Nat, NEW window \in Buffer(n), NEW v \in Buffer(n), NEW digit \in Limb,
         NEW i \in 1 .. n, NEW l, NEW c \in Limb, NEW b \in 0 .. 1
  PROVE  \E next \in Limb, carry \in Limb, borrow \in 0 .. 1 :
           TakeTurned(next, carry, borrow, window, v, digit, l, c, b, i)
<1>1. window \in Limbs /\ v \in Limbs /\ Len(window) = n /\ Len(v) = n
  BY DEF Buffer
<1>2. PICK x \in Limb : x = window[i] /\ x = LimbAt(window, i)
  BY <1>1, LimbAtPlace, ElementOfSeq DEF Limbs
<1>3. PICK y \in Limb : y = v[i] /\ y = LimbAt(v, i)
  BY <1>1, LimbAtPlace, ElementOfSeq DEF Limbs
<1> DEFINE p == MultiplyLimbs(digit, y)
<1>4. p.low \in Limb /\ p.high \in 0 .. Base - 2 /\ p.low + p.high * Base = digit * y
  BY MultiplyLimbsExact
<1> HIDE DEF p
<1>5. PICK plow \in Limb : plow = p.low
  BY <1>4
<1>6. PICK phigh \in 0 .. Base - 2 : phigh = p.high
  BY <1>4
<1>7. PICK low \in Limb : low = (plow + c) % Base /\ low + (IF low < plow THEN 1 ELSE 0) * Base = plow + c
  BY Wraps
<1>8. PICK e \in 0 .. 1 : e = (IF low < plow THEN 1 ELSE 0)
  OBVIOUS
<1>9. PICK difference : difference = (x - low) % Base
  OBVIOUS
<1>10. PICK next \in Limb :
         /\ next = (difference - b) % Base
         /\ (next + low) + b = x + (IF x < low \/ difference < b THEN 1 ELSE 0) * Base
  BY <1>9, BorrowTwice
<1>11. PICK borrow \in 0 .. 1 : borrow = (IF x < low \/ difference < b THEN 1 ELSE 0)
  OBVIOUS
<1>12. Base \in Nat /\ Base >= 4
  BY BaseFacts
<1>13. PICK carry \in Limb : carry = phigh + e
  BY <1>12 DEF Limb
<1> DEFINE state == [limbs |-> l, carry |-> c, borrow |-> b]
<1>14. state.limbs = l /\ state.carry = c /\ state.borrow = b
  OBVIOUS
<1> HIDE DEF state
<1>15. TakeTurn(window, v, digit, state, i) = [limbs |-> Append(l, next), carry |-> carry, borrow |-> borrow]
  <2>1. p = MultiplyLimbs(digit, v[i])
    BY <1>3, Zenon DEF p
  <2> QED
    BY <1>2, <1>5, <1>6, <1>7, <1>8, <1>9, <1>10, <1>11, <1>13, <1>14, <2>1, Zenon DEF TakeTurn
<1>16. (next + digit * y) + (c + b) = x + (carry + borrow) * Base
  <2>1. PICK m \in Int : m = digit * y
    BY <1>12 DEF Limb
  <2>2. PICK t \in Int : t = phigh * Base
    BY <1>12
  <2>3. PICK u \in Int : u = e * Base
    BY <1>12
  <2>4. PICK w \in Int : w = borrow * Base
    BY <1>12
  <2>5. plow + t = m
    BY <1>4, <1>5, <1>6, <2>1, <2>2
  <2>6. low + u = plow + c
    BY <1>7, <1>8, <2>3, Zenon
  <2>7. (next + low) + b = x + w
    BY <1>10, <1>11, <2>4, Zenon
  <2>8. (carry + borrow) * Base = (t + u) + w
    <3>1. ((phigh + e) + borrow) * Base = (phigh * Base + e * Base) + borrow * Base
      BY <1>12
    <3> QED
      BY <1>13, <2>2, <2>3, <2>4, <3>1
  <2>9. plow \in Int /\ low \in Int /\ c \in Int /\ next \in Int /\ x \in Int /\ b \in Int
    BY <1>12 DEF Limb
  <2>10. (next + m) + (c + b) = x + ((t + u) + w)
    BY <2>5, <2>6, <2>7, <2>9
  <2> QED
    BY <2>1, <2>8, <2>10, Zenon
<1>17. TakeTurned(next, carry, borrow, window, v, digit, l, c, b, i)
  BY <1>2, <1>3, <1>15, <1>16, Zenon DEF state, TakeTurned, TakenLimb
<1> QED
  BY <1>17

(* f is what the loop over the limbs of the divisor has come to after i turns. *)
TakeCourse(f, window, v, digit, n) ==
  f = [i \in 0 .. Len(v) |-> IF i = 0 THEN [limbs |-> <<>>, carry |-> 0, borrow |-> 0] ELSE TakeTurn(window, v, digit, f[i - 1], i)]

(* The difference is what its loop ends with. *)
LEMMA TakeUnfolded ==
  ASSUME NEW window, NEW v, NEW digit, NEW n
  PROVE  TakeMultiple(window, v, digit) = (CHOOSE f : TakeCourse(f, window, v, digit, n))[Len(v)]
  BY Zenon DEF TakeMultiple, TakeTurn, Loop, TakeCourse

(* It stays within its type, turn by turn. *)
LEMMA TakeLoop ==
  ASSUME NEW n \in Nat,
         NEW window \in Buffer(n),
         NEW v \in Buffer(n),
         NEW digit \in Limb
  PROVE  \E f \in [0 .. Len(v) -> Takings] :
           /\ f[0] = [limbs |-> <<>>, carry |-> 0, borrow |-> 0]
           /\ \A i \in 1 .. Len(v) : f[i] = TakeTurn(window, v, digit, f[i - 1], i)
           /\ TakeMultiple(window, v, digit) = f[Len(v)]
<1>1. Len(v) \in Nat /\ [limbs |-> <<>>, carry |-> 0, borrow |-> 0] \in Takings
  <2>1. Len(v) \in Nat
    BY DEF Buffer
  <2>2. 0 \in Limb
    BY BaseFacts DEF Limb
  <2> QED
    BY <2>1, <2>2 DEF Takings, Limbs
<1> DEFINE T == [i \in 1 .. Len(v) |-> [r \in Takings |-> TakeTurn(window, v, digit, r, i)]]
<1>2. ASSUME NEW i \in 1 .. Len(v), NEW r \in Takings PROVE TakeTurn(window, v, digit, r, i) \in Takings
  <2>1. i \in 1 .. n
    BY DEF Buffer
  <2>2. PICK l \in Limbs, c \in Limb, b \in 0 .. 1 : r = [limbs |-> l, carry |-> c, borrow |-> b]
    BY DEF Takings
  <2>3. PICK next \in Limb, carry \in Limb, borrow \in 0 .. 1 :
          TakeTurned(next, carry, borrow, window, v, digit, l, c, b, i)
    BY <2>1, TakeTurnExact
  <2>4. PICK t \in Limbs : t = Append(l, next)
    BY LowAppend
  <2>5. TakeTurn(window, v, digit, r, i) = [limbs |-> t, carry |-> carry, borrow |-> borrow]
    BY <2>2, <2>3, <2>4, Zenon DEF TakeTurned
  <2> QED
    BY <2>4, <2>5 DEF Takings
<1>3. T \in Turns(Len(v), Takings)
  BY <1>2 DEF Turns
<1>4. \A i \in 1 .. Len(v), r \in Takings : T[i][r] = TakeTurn(window, v, digit, r, i)
  OBVIOUS
<1> HIDE DEF T
<1>5. PICK f : Course(f, Len(v), Takings, [limbs |-> <<>>, carry |-> 0, borrow |-> 0], T)
  BY <1>1, <1>3, Iterates
<1>6. f \in [0 .. Len(v) -> Takings] /\ f[0] = [limbs |-> <<>>, carry |-> 0, borrow |-> 0] /\ \A i \in 1 .. Len(v) : f[i] = T[i][f[i - 1]]
  BY <1>5 DEF Course
<1>7. \A i \in 0 .. Len(v) : i # 0 => i \in 1 .. Len(v) /\ i - 1 \in 0 .. Len(v)
  BY <1>1
<1>8. \A i \in 0 .. Len(v) : f[i] = IF i = 0 THEN [limbs |-> <<>>, carry |-> 0, borrow |-> 0] ELSE TakeTurn(window, v, digit, f[i - 1], i)
  <2> SUFFICES ASSUME NEW i \in 0 .. Len(v), i # 0 PROVE f[i] = TakeTurn(window, v, digit, f[i - 1], i)
    BY <1>6, Zenon
  <2>1. i \in 1 .. Len(v) /\ f[i - 1] \in Takings
    BY <1>6, <1>7
  <2> QED
    BY <1>4, <1>6, <2>1, Zenon
<1>9. f = [i \in 0 .. Len(v) |-> IF i = 0 THEN [limbs |-> <<>>, carry |-> 0, borrow |-> 0] ELSE TakeTurn(window, v, digit, f[i - 1], i)]
  <2>1. f = [i \in 0 .. Len(v) |-> f[i]]
    BY <1>6
  <2> QED
    BY <1>8, <2>1, Zenon
<1>10. TakeCourse(f, window, v, digit, n)
  BY <1>9, Zenon DEF TakeCourse
<1>11. PICK g : g = CHOOSE h : TakeCourse(h, window, v, digit, n)
  OBVIOUS
<1>12. TakeCourse(g, window, v, digit, n) /\ TakeMultiple(window, v, digit) = g[Len(v)]
  BY <1>10, <1>11, TakeUnfolded, Zenon
<1>13. g = [i \in 0 .. Len(v) |-> IF i = 0 THEN [limbs |-> <<>>, carry |-> 0, borrow |-> 0] ELSE TakeTurn(window, v, digit, g[i - 1], i)]
  BY <1>12, Zenon DEF TakeCourse
<1>14. \A i \in 0 .. Len(v) : g[i] = IF i = 0 THEN [limbs |-> <<>>, carry |-> 0, borrow |-> 0] ELSE TakeTurn(window, v, digit, g[i - 1], i)
  BY <1>13, Zenon
<1>15. g = [i \in 0 .. Len(v) |-> g[i]]
  BY <1>13, <1>14, Zenon
<1>16. g[0] = [limbs |-> <<>>, carry |-> 0, borrow |-> 0] /\ \A i \in 1 .. Len(v) : g[i] = TakeTurn(window, v, digit, g[i - 1], i)
  <2>1. 0 \in 0 .. Len(v) /\ \A i \in 1 .. Len(v) : i \in 0 .. Len(v) /\ i # 0
    BY <1>1
  <2> QED
    BY <1>14, <2>1, Zenon
<1>17. \A i \in 1 .. Len(v) : g[i - 1] \in Takings => g[i] = T[i][g[i - 1]]
  BY <1>4, <1>16, Zenon
<1>18. Course(g, Len(v), Takings, [limbs |-> <<>>, carry |-> 0, borrow |-> 0], T)
  BY <1>1, <1>3, <1>15, <1>16, <1>17, RunsItsCourse
<1>19. g \in [0 .. Len(v) -> Takings]
  BY <1>18 DEF Course
<1> QED
  BY <1>12, <1>16, <1>19

(* digit times the divisor is taken from the window, short of what is owed. *)
Took(l, c, b, window, v, digit, n) ==
  /\ TakeMultiple(window, v, digit) = [limbs |-> l, carry |-> c, borrow |-> b]
  /\ Taken(Low(l, n), digit, Low(v, n), Low(window, n), c + b, Weight(n))

(* TakeMultiple does so for the whole divisor. *)
LEMMA TakeMultipleExact ==
  ASSUME NEW n \in Nat, NEW window \in Buffer(n), NEW v \in Buffer(n), NEW digit \in Limb
  PROVE  \E l \in Buffer(n), c \in Limb, b \in 0 .. 1 : Took(l, c, b, window, v, digit, n)
<1>1. window \in Limbs /\ v \in Limbs /\ Len(v) = n /\ Len(window) = n
  BY DEF Buffer
<1>2. PICK f \in [0 .. n -> Takings] :
        /\ f[0] = [limbs |-> <<>>, carry |-> 0, borrow |-> 0]
        /\ \A i \in 1 .. n : f[i] = TakeTurn(window, v, digit, f[i - 1], i)
        /\ TakeMultiple(window, v, digit) = f[n]
  <2>1. \E f \in [0 .. Len(v) -> Takings] :
          /\ f[0] = [limbs |-> <<>>, carry |-> 0, borrow |-> 0]
          /\ \A i \in 1 .. Len(v) : f[i] = TakeTurn(window, v, digit, f[i - 1], i)
          /\ TakeMultiple(window, v, digit) = f[Len(v)]
    BY TakeLoop
  <2> QED
    BY <1>1, <2>1, Zenon
<1> DEFINE C == {k \in 0 .. n :
             \E l \in Buffer(k), c \in Limb, b \in 0 .. 1 :
               /\ f[k] = [limbs |-> l, carry |-> c, borrow |-> b]
               /\ Taken(Low(l, k), digit, Low(v, k), Low(window, k), c + b, Weight(k))}
<1>3. Base \in Nat /\ Base >= 4 /\ digit \in Int
  BY BaseFacts DEF Limb
<1>4. 0 \in C
  <2>1. <<>> \in Buffer(0) /\ <<>> \in Limbs /\ 0 \in Limb
    BY <1>3 DEF Buffer, Limbs, Limb
  <2>2. Low(<<>>, 0) = 0 /\ Low(v, 0) = 0 /\ Low(window, 0) = 0
    BY <1>1, <2>1, LowFacts
  <2>3. 0 + digit * 0 = 0 + (0 + 0) * Weight(0)
    <3>1. Weight(0) \in Nat
      BY WeightFacts
    <3> QED
      BY <1>3, <3>1
  <2>4. Taken(Low(<<>>, 0), digit, Low(v, 0), Low(window, 0), 0 + 0, Weight(0))
    BY <2>2, <2>3, Zenon DEF Taken
  <2> QED
    BY <1>2, <2>1, <2>4
<1>5. ASSUME NEW k \in 0 .. n - 1, k \in C PROVE k + 1 \in C
  <2>1. PICK l \in Buffer(k), c \in Limb, b \in 0 .. 1 :
          /\ f[k] = [limbs |-> l, carry |-> c, borrow |-> b]
          /\ Taken(Low(l, k), digit, Low(v, k), Low(window, k), c + b, Weight(k))
    BY <1>5
  <2> HIDE DEF C
  <2>2. k + 1 \in 1 .. n /\ k + 1 \in 0 .. n /\ (k + 1) - 1 = k /\ k \in Nat /\ k + 1 \in Int
    OBVIOUS
  <2>3. PICK next \in Limb, carry \in Limb, borrow \in 0 .. 1 :
          TakeTurned(next, carry, borrow, window, v, digit, l, c, b, k + 1)
    BY <2>2, TakeTurnExact
  <2>4. PICK t : t = Append(l, next)
    OBVIOUS
  <2>5. l \in Limbs /\ Len(l) = k
    BY DEF Buffer
  <2>6. t \in Buffer(k + 1) /\ Low(t, k + 1) = Low(l, k) + next * Weight(k)
    BY <2>4, <2>5, LowAppend DEF Buffer
  <2>7. f[k + 1] = [limbs |-> t, carry |-> carry, borrow |-> borrow]
    <3>1. f[k + 1] = TakeTurn(window, v, digit, f[(k + 1) - 1], k + 1)
      BY <1>2, <2>2
    <3> QED
      BY <2>1, <2>2, <2>3, <2>4, <3>1, Zenon DEF TakeTurned
  <2>8. PICK x \in Limb : x = LimbAt(window, k + 1)
    BY <1>1, <2>2, LimbAtType
  <2>9. PICK y \in Limb : y = LimbAt(v, k + 1)
    BY <1>1, <2>2, LimbAtType
  <2>10. PICK owed \in Nat : owed = carry + borrow
    BY <1>3 DEF Limb
  <2>11. PICK owing \in Nat : owing = c + b
    BY <1>3 DEF Limb
  <2>12. TakenLimb(next, owed, x, digit, y, owing)
    BY <2>3, <2>8, <2>9, <2>10, <2>11, Zenon DEF TakeTurned
  <2>13. PICK w \in Nat : w = Weight(k) /\ Weight(k + 1) = Base * w
    BY <2>2, WeightFacts
  <2>14. PICK low \in Nat : low = Low(l, k)
    BY <2>2, <2>5, LowType
  <2>15. PICK lv \in Nat : lv = Low(v, k) /\ Low(v, k + 1) = lv + y * w
    BY <1>1, <2>2, <2>9, <2>13, LowFacts
  <2>16. PICK lw \in Nat : lw = Low(window, k) /\ Low(window, k + 1) = lw + x * w
    BY <1>1, <2>2, <2>8, <2>13, LowFacts
  <2>17. Taken(low, digit, lv, lw, owing, w)
    BY <2>1, <2>11, <2>13, <2>14, <2>15, <2>16, Zenon
  <2>18. next \in Int /\ x \in Int /\ y \in Int /\ owed \in Int /\ owing \in Int /\ w \in Int /\ low \in Int
         /\ lv \in Int /\ lw \in Int
    BY <1>3 DEF Limb
  <2>19. Taken(low + next * w, digit, lv + y * w, lw + x * w, owed, Base * w)
    BY <1>3, <2>12, <2>17, <2>18, PlacesTake
  <2>20. Taken(Low(t, k + 1), digit, Low(v, k + 1), Low(window, k + 1), carry + borrow, Weight(k + 1))
    BY <2>6, <2>10, <2>13, <2>14, <2>15, <2>16, <2>19, Zenon
  <2> QED
    BY <2>2, <2>6, <2>7, <2>20, Zenon DEF C
<1>6. n \in C
  <2>1. \A k \in 0 .. n : k \in C
    <3> HIDE DEF C
    <3> QED
      BY <1>4, <1>5, Induction
  <2> QED
    BY <2>1
<1>7. PICK l \in Buffer(n), c \in Limb, b \in 0 .. 1 :
        /\ f[n] = [limbs |-> l, carry |-> c, borrow |-> b]
        /\ Taken(Low(l, n), digit, Low(v, n), Low(window, n), c + b, Weight(n))
  BY <1>6
<1>8. Took(l, c, b, window, v, digit, n)
  BY <1>2, <1>7, Zenon DEF Took
<1> QED
  BY <1>8

-----------------------------------------------------------------------------
(* One quotient digit *)

(* The lowest limbs of a number. *)
LEMMA LowPrefix ==
  ASSUME NEW s \in Limbs, NEW n \in Nat, n <= Len(s), NEW t, t = SubSeq(s, 1, n)
  PROVE  t \in Buffer(n) /\ Low(t, n) = Low(s, n)
<1>1. Len(s) \in Nat /\ \A i \in 1 .. Len(s) : LimbAt(s, i) = s[i] /\ s[i] \in Limb
  BY LimbAtPlace, ElementOfSeq DEF Limbs
<1>2. \A i \in 1 .. n : s[i] \in Limb
  BY <1>1
<1>3. /\ t \in Seq(Limb)
      /\ Len(t) = IF 1 <= n THEN n - 1 + 1 ELSE 0
      /\ \A i \in 1 .. n - 1 + 1 : t[i] = s[1 + i - 1]
  <2>1. n \in Int /\ 1 \in Int
    OBVIOUS
  <2> QED
    BY <1>2, <2>1, SubSeqProperties
<1>4. t \in Limbs /\ Len(t) = n
  BY <1>3 DEF Limbs
<1>5. \A i \in 1 .. n : i \in 1 .. n - 1 + 1 /\ 1 + i - 1 = i /\ i \in 1 .. Len(s)
  BY <1>1
<1>6. Agree(t, s, n)
  <2> SUFFICES ASSUME NEW i \in 1 .. n PROVE LimbAt(t, i) = LimbAt(s, i)
    BY DEF Agree
  <2>1. t[i] = s[i]
    BY <1>3, <1>5
  <2> QED
    BY <1>1, <1>4, <1>5, <2>1, LimbAtPlace
<1> QED
  BY <1>4, <1>6, LowSame DEF Buffer

(* The window is put back, with the limb above it. *)
LEMMA PutWindowExact ==
  ASSUME NEW N \in Nat, NEW u \in Buffer(N), NEW n \in Nat, NEW limbs \in Buffer(n), NEW j \in Nat,
         (j + n) + 1 <= N, NEW high \in Limb, NEW t, t = PutWindow(u, j, limbs, high)
  PROVE  /\ t \in Buffer(N)
         /\ Low(t, j + n) = Low(u, j) + Low(limbs, n) * Weight(j)
         /\ LimbAt(t, (j + n) + 1) = high
<1>1. u \in Limbs /\ Len(u) = N /\ limbs \in Limbs /\ Len(limbs) = n
  BY DEF Buffer
<1>2. PICK a : a = SubSeq(u, 1, j)
  OBVIOUS
<1>3. a \in Buffer(j) /\ Low(a, j) = Low(u, j)
  <2>1. j <= Len(u)
    BY <1>1
  <2> QED
    BY <1>1, <1>2, <2>1, LowPrefix
<1>4. PICK m \in Nat : m = N - ((j + n) + 1)
  OBVIOUS
<1>5. PICK d : d = SubSeq(u, j + Len(limbs) + 2, Len(u))
  OBVIOUS
<1>6. d \in Buffer(m)
  <2>1. PICK k \in Nat : k = (j + n) + 1
    OBVIOUS
  <2>2. k + m <= Len(u) /\ k + 1 = j + Len(limbs) + 2 /\ k + m = Len(u)
    BY <1>1, <1>4, <2>1
  <2>3. Slice(d, u, k, m)
    BY <1>5, <2>2 DEF Slice
  <2> QED
    BY <1>1, <2>2, <2>3, LowSub
<1>7. PICK c : c = <<high>>
  OBVIOUS
<1>8. c \in Buffer(1) /\ LimbAt(c, 1) = high
  <2>1. c \in Seq(Limb) /\ Len(c) = 1 /\ c[1] = high
    BY <1>7
  <2>2. c \in Limbs
    BY <2>1 DEF Limbs
  <2>3. 1 \in 1 .. Len(c)
    BY <2>1
  <2> QED
    BY <2>1, <2>2, <2>3, LimbAtPlace DEF Buffer
<1>9. PICK ab : ab = a \o limbs
  OBVIOUS
<1>10. ab \in Buffer(j + n) /\ Low(ab, j + n) = Low(u, j) + Low(limbs, n) * Weight(j)
  <2>1. /\ a \o limbs \in Buffer(j + n)
        /\ Low(a \o limbs, j + n) = Low(a, j) + Low(limbs, n) * Weight(j)
    BY <1>3, LowConcat
  <2> QED
    BY <1>3, <1>9, <2>1, Zenon
<1>11. PICK p \in Nat : p = j + n
  OBVIOUS
<1>12. PICK abc : abc = ab \o c
  OBVIOUS
<1>13. /\ abc \in Buffer(p + 1) /\ Low(abc, p) = Low(ab, p)
       /\ LimbAt(abc, p + 1) = high
  <2>1. ab \in Buffer(p) /\ 1 \in Nat /\ 1 \in 1 .. 1
    BY <1>10, <1>11
  <2>2. /\ ab \o c \in Buffer(p + 1)
        /\ \A i \in 1 .. 1 : LimbAt(ab \o c, p + i) = LimbAt(c, i)
        /\ Low(ab \o c, p) = Low(ab, p)
    BY <1>8, <2>1, LowConcat
  <2> QED
    BY <1>8, <1>12, <2>1, <2>2, Zenon
<1>14. t = abc \o d
  BY <1>2, <1>5, <1>7, <1>9, <1>12, Zenon DEF PutWindow
<1>15. PICK q \in Nat : q = p + 1
  OBVIOUS
<1>16. /\ t \in Buffer(q + m)
       /\ \A i \in 1 .. q : LimbAt(t, i) = LimbAt(abc, i)
       /\ Low(t, q) = Low(abc, q)
  <2>1. abc \in Buffer(q)
    BY <1>13, <1>15
  <2>2. /\ abc \o d \in Buffer(q + m)
        /\ \A i \in 1 .. q : LimbAt(abc \o d, i) = LimbAt(abc, i)
        /\ Low(abc \o d, q) = Low(abc, q)
    BY <1>6, <2>1, LowConcat
  <2> QED
    BY <1>14, <2>2, Zenon
<1>17. q + m = N /\ p + 1 \in 1 .. q /\ \A i \in 1 .. p : i \in 1 .. q
  BY <1>4, <1>11, <1>15
<1>18. t \in Limbs /\ abc \in Limbs
  BY <1>13, <1>16 DEF Buffer
<1>19. Agree(t, abc, p)
  BY <1>16, <1>17, Zenon DEF Agree
<1>20. Low(t, p) = Low(abc, p)
  BY <1>18, <1>19, LowSame
<1>21. t \in Buffer(N)
  BY <1>16, <1>17, Zenon
<1>22. LimbAt(t, p + 1) = high
  BY <1>13, <1>16, <1>17, Zenon
<1> QED
  BY <1>10, <1>11, <1>13, <1>20, <1>21, <1>22, Zenon

(* A digit that fits the top limbs is at most one too large for them all. *)
LEMMA EstimateNear ==
  ASSUME NEW base \in Nat, NEW w \in Nat, NEW top \in Nat, NEW lv \in Nat, NEW t \in Nat, NEW lx \in Nat,
         NEW vv \in Nat, vv = top * w + lv, lv < w, NEW xx \in Nat, xx = t * w + lx,
         top >= base, NEW d \in Nat, d < base, d * top <= t
  PROVE  d * vv < xx + vv
<1>1. d * vv = (d * top) * w + d * lv
  <2>1. d * (top * w + lv) = (d * top) * w + d * lv
    OBVIOUS
  <2> QED
    BY <2>1
<1>2. PICK dt \in Nat : dt = d * top
  OBVIOUS
<1>3. dt * w <= t * w
  BY <1>2, TimesMonotone
<1>4. d * lv <= base * lv
  BY TimesMonotone
<1>5. lv * base <= w * base
  BY TimesMonotone
<1>6. base * w <= top * w
  BY TimesMonotone
<1>7. base * lv = lv * base /\ w * base = base * w
  OBVIOUS
<1>8. PICK e1 \in Nat : e1 = d * lv
  OBVIOUS
<1>9. PICK e2 \in Nat : e2 = base * lv
  OBVIOUS
<1>10. PICK e3 \in Nat : e3 = base * w
  OBVIOUS
<1>11. PICK e4 \in Nat : e4 = top * w
  OBVIOUS
<1>12. PICK e5 \in Nat : e5 = dt * w
  OBVIOUS
<1>13. PICK e6 \in Nat : e6 = t * w
  OBVIOUS
<1>14. lv > 0 => e2 < e3
  <2>1. CASE base = 0
    BY <2>1
  <2>2. CASE base >= 1
    <3>1. (lv + 1) * base <= w * base
      <4>1. lv + 1 <= w /\ lv + 1 \in Int /\ w \in Int
        OBVIOUS
      <4> QED
        BY <4>1, TimesMonotone
    <3>2. (lv + 1) * base = lv * base + base
      OBVIOUS
    <3> QED
      BY <1>7, <1>9, <1>10, <2>2, <3>1, <3>2
  <2> QED
    BY <2>1, <2>2
<1>15. vv = e4 + lv /\ xx = e6 + lx /\ d * vv = e5 + e1 /\ e5 <= e6 /\ e1 <= e2 /\ e3 <= e4
  BY <1>1, <1>2, <1>3, <1>4, <1>6, <1>8, <1>9, <1>10, <1>11, <1>12, <1>13
<1>16. e1 < vv
  <2>1. CASE lv > 0
    BY <1>14, <1>15, <2>1
  <2>2. CASE lv = 0
    <3>1. e1 = 0
      BY <1>8, <2>2
    <3>2. 1 * 1 <= top * w
      <4>1. 1 <= w /\ 1 <= top /\ top \in Int /\ w \in Int
        OBVIOUS
      <4>2. 1 * w <= top * w
        BY <4>1, TimesMonotone
      <4> QED
        BY <1>11, <4>1, <4>2
    <3> QED
      BY <1>11, <1>15, <2>2, <3>1, <3>2
  <2> QED
    BY <2>1, <2>2
<1> QED
  BY <1>15, <1>16

(* What goes into the whole goes into the top limbs. *)
LEMMA EstimateReaches ==
  ASSUME NEW w \in Nat, NEW top \in Nat, NEW lv \in Nat, NEW t \in Nat, NEW lx \in Nat,
         NEW vv \in Nat, vv = top * w + lv, NEW xx \in Nat, xx = t * w + lx, lx < w,
         NEW q \in Nat, q * vv <= xx
  PROVE  q * top <= t
<1>1. q * vv = (q * top) * w + q * lv
  <2>1. q * (top * w + lv) = (q * top) * w + q * lv
    OBVIOUS
  <2> QED
    BY <2>1
<1>2. PICK qt \in Nat : qt = q * top
  OBVIOUS
<1>3. PICK e1 \in Nat : e1 = q * lv
  OBVIOUS
<1>4. PICK e2 \in Nat : e2 = qt * w
  OBVIOUS
<1>5. PICK e3 \in Nat : e3 = t * w
  OBVIOUS
<1> SUFFICES ASSUME t + 1 <= qt PROVE FALSE
  BY <1>2
<1>6. (t + 1) * w <= qt * w
  BY TimesMonotone
<1>7. (t + 1) * w = t * w + w
  OBVIOUS
<1> QED
  BY <1>1, <1>2, <1>3, <1>4, <1>5, <1>6, <1>7

(* What is owed to the limb above is what that limb has, or one more. *)
LEMMA OwedIs ==
  ASSUME NEW w \in Nat, NEW low \in 0 .. w - 1, NEW more \in Int, NEW z \in Int, z = low + more * w
  PROVE  /\ 0 <= z /\ z < w => more = 0 /\ z = low
         /\ z < 0 /\ -w < z => more = -1 /\ z + w = low
<1>1. low \in Nat /\ low < w /\ w \in Nat
  OBVIOUS
<1>2. CASE more >= 1
  <2>1. 1 * w <= more * w
    BY <1>2, TimesMonotone
  <2>2. more * w \in Int
    OBVIOUS
  <2> QED
    BY <1>1, <2>1, <2>2
<1>3. CASE more = 0
  <2>1. more * w = 0
    BY <1>3
  <2> QED
    BY <1>1, <1>3, <2>1
<1>4. CASE more = -1
  <2>1. more * w = -w
    BY <1>4
  <2> QED
    BY <1>1, <1>4, <2>1
<1>5. CASE more <= -2
  <2>1. more * w <= (-2) * w
    BY <1>5, TimesMonotone
  <2>2. more * w \in Int /\ (-2) * w = -(2 * w)
    OBVIOUS
  <2> QED
    BY <1>1, <2>1, <2>2
<1> QED
  BY <1>2, <1>3, <1>4, <1>5

(* The limb above after what is owed was taken from it. *)
Negative(h, c, b) == h < c \/ (h - c) % Base < b
RestAbove(h, c, b) == (((h - c) % Base) - b) % Base

(* It is zero, or becomes it with the carry of adding back. *)
LEMMA LimbOwed ==
  ASSUME NEW h \in Limb, NEW c \in Limb, NEW b \in 0 .. 1
  PROVE  /\ c + b = h => ~Negative(h, c, b) /\ RestAbove(h, c, b) = 0
         /\ c + b = h + 1 => Negative(h, c, b) /\ (RestAbove(h, c, b) + 1) % Base = 0
<1>0. PICK top, high : top = (h - c) % Base /\ high = (top - b) % Base
  OBVIOUS
<1>1. Base \in Nat /\ Base >= 4 /\ h \in Nat /\ c \in Nat /\ h < Base /\ c < Base /\ b \in Limb
  BY BaseFacts DEF Limb
<1>2. top \in Limb /\ top + c = h + (IF h < c THEN 1 ELSE 0) * Base
  BY <1>0, WrapsBelow
<1>3. high \in Limb /\ high + b = top + (IF top < b THEN 1 ELSE 0) * Base
  BY <1>0, <1>1, <1>2, WrapsBelow
<1>4. top \in Nat /\ top < Base /\ high \in Nat /\ high < Base
  BY <1>1, <1>2, <1>3 DEF Limb
<1>5. ASSUME c + b = h PROVE ~(h < c \/ top < b) /\ high = 0
  <2>1. ~(h < c)
    BY <1>1, <1>5
  <2>2. top + c = h + 0 * Base
    BY <1>2, <2>1, Zenon
  <2>3. top = b /\ ~(top < b)
    BY <1>1, <1>4, <1>5, <2>2
  <2>4. high + b = top + 0 * Base
    BY <1>3, <2>3, Zenon
  <2> QED
    BY <1>1, <1>4, <2>1, <2>3, <2>4
<1>6. ASSUME c + b = h + 1 PROVE (h < c \/ top < b) /\ (high + 1) % Base = 0
  <2>1. high = Base - 1 /\ (h < c \/ top < b)
    <3>1. CASE h < c
      <4>1. b = 0 /\ c = h + 1
        BY <1>1, <1>6, <3>1
      <4>2. top + c = h + 1 * Base
        BY <1>2, <3>1
      <4>3. ~(top < b)
        BY <1>4, <4>1
      <4>4. high + b = top + 0 * Base
        BY <1>3, <4>3, Zenon
      <4> QED
        BY <1>1, <1>4, <3>1, <4>1, <4>2, <4>4
    <3>2. CASE ~(h < c)
      <4>1. b = 1 /\ c = h
        BY <1>1, <1>6, <3>2
      <4>2. top + c = h + 0 * Base
        BY <1>2, <3>2, Zenon
      <4>3. top = 0 /\ top < b
        BY <1>1, <1>4, <4>1, <4>2
      <4>4. high + b = top + 1 * Base
        BY <1>3, <4>3
      <4> QED
        BY <1>1, <1>4, <4>1, <4>3, <4>4
    <3> QED
      BY <3>1, <3>2
  <2>2. Base = Base * 1 + 0 /\ high + 1 = Base
    BY <1>1, <2>1
  <2>3. Base % Base = 0
    BY <1>1, <2>2, DivisionIs
  <2> QED
    BY <2>1, <2>2, <2>3
<1>7. (Negative(h, c, b) <=> h < c \/ top < b) /\ RestAbove(h, c, b) = high
  BY <1>0, Zenon DEF Negative, RestAbove
<1> QED
  BY <1>5, <1>6, <1>7, Zenon

(* The two top limbs of a number, over the others. *)
LEMMA TwoTops ==
  ASSUME NEW s \in Limbs, NEW k \in Nat, NEW w \in Nat, w = Weight(k),
         NEW y \in Limb, y = LimbAt(s, k + 1), NEW x \in Limb, x = LimbAt(s, k + 2)
  PROVE  /\ Low(s, k + 2) = (x * Base + y) * w + Low(s, k)
         /\ Weight(k + 2) = Base * (Base * w)
<1>1. PICK base \in Nat : base = Base
  BY BaseFacts
<1>2. x \in Int /\ y \in Int
  BY <1>1 DEF Limb
<1>3. k + 1 \in Nat /\ (k + 1) + 1 = k + 2
  OBVIOUS
<1>4. Weight(k + 1) = base * w /\ Weight((k + 1) + 1) = base * Weight(k + 1)
  BY <1>1, <1>3, WeightFacts
<1>5. PICK low \in Nat : low = Low(s, k)
  BY LowType
<1>6. Low(s, k + 1) = low + y * w
  BY <1>5, LowFacts
<1>7. Low(s, (k + 1) + 1) = Low(s, k + 1) + LimbAt(s, (k + 1) + 1) * Weight(k + 1)
  BY <1>3, LowFacts
<1>8. Low(s, k + 2) = (low + y * w) + x * (base * w)
  BY <1>3, <1>4, <1>6, <1>7, Zenon
<1>9. (low + y * w) + x * (base * w) = (x * base + y) * w + low
  BY <1>2
<1> QED
  BY <1>1, <1>3, <1>4, <1>5, <1>8, <1>9, Zenon

(* Two limbs, and three, over the rest of a number. *)
TwoOver(vv, v1, base, v2, w, lv) == vv = (v1 * base + v2) * w + lv
ThreeOver(xx, h, l, x, base, w, lx) == xx = ((h * base + l) * base + x) * w + lx

(* The top limb of what is divided is not above that of the divisor. *)
LEMMA TopNotAbove ==
  ASSUME NEW base \in Nat, base >= 1, NEW w \in Nat, w >= 1, NEW lv \in Nat, lv < w,
         NEW v1 \in Nat, NEW v2 \in Nat, v2 < base,
         NEW h \in Nat, NEW l \in Nat, NEW x \in Nat, NEW lx \in Nat,
         NEW vv \in Nat, TwoOver(vv, v1, base, v2, w, lv),
         NEW xx \in Nat, ThreeOver(xx, h, l, x, base, w, lx), xx < base * vv
  PROVE  h <= v1
<1>0. vv = (v1 * base + v2) * w + lv /\ xx = ((h * base + l) * base + x) * w + lx
  BY Zenon DEF TwoOver, ThreeOver
<1> SUFFICES ASSUME v1 + 1 <= h PROVE FALSE
  OBVIOUS
<1>1. PICK bw \in Nat : bw = base * w
  OBVIOUS
<1>2. vv < (v1 + 1) * bw
  <2>1. PICK top \in Nat : top = v1 * base + v2
    OBVIOUS
  <2>2. (top + 1) * w <= ((v1 + 1) * base) * w
    <3>1. (v1 + 1) * base = v1 * base + base
      OBVIOUS
    <3>2. top + 1 <= (v1 + 1) * base /\ top + 1 \in Int /\ (v1 + 1) * base \in Int
      BY <2>1, <3>1
    <3> QED
      BY <3>2, TimesMonotone
  <2>3. (top + 1) * w = top * w + w /\ ((v1 + 1) * base) * w = (v1 + 1) * (base * w)
    OBVIOUS
  <2>4. PICK m \in Nat : m = top * w
    OBVIOUS
  <2>5. PICK k \in Nat : k = (v1 + 1) * bw
    OBVIOUS
  <2>6. vv = m + lv
    BY <1>0, <2>1, <2>4
  <2>7. m + w <= k
    BY <1>1, <2>2, <2>3, <2>4, <2>5
  <2> QED
    BY <2>5, <2>6, <2>7
<1>3. PICK k \in Nat : k = (v1 + 1) * bw
  OBVIOUS
<1>4. base * vv < k * base
  <2>1. (vv + 1) * base <= k * base
    BY <1>2, <1>3, TimesMonotone
  <2>2. (vv + 1) * base = base * vv + base
    OBVIOUS
  <2>3. base * vv \in Nat /\ k * base \in Nat
    OBVIOUS
  <2> QED
    BY <2>1, <2>2, <2>3
<1>5. k * base <= xx
  <2>1. PICK z \in Nat : z = bw * base
    OBVIOUS
  <2>2. (v1 + 1) * z <= h * z
    BY TimesMonotone
  <2>3. (v1 + 1) * z = k * base
    <3>1. (v1 + 1) * (bw * base) = ((v1 + 1) * bw) * base
      OBVIOUS
    <3> QED
      BY <1>3, <2>1, <3>1
  <2>4. xx = h * z + ((l * bw + x * w) + lx)
    <3>1. ((h * base + l) * base + x) * w + lx = h * ((base * w) * base) + ((l * (base * w) + x * w) + lx)
      OBVIOUS
    <3> QED
      BY <1>0, <1>1, <2>1, <3>1
  <2>5. (l * bw + x * w) + lx \in Nat /\ h * z \in Nat /\ k * base \in Nat
    OBVIOUS
  <2> QED
    BY <2>2, <2>3, <2>4, <2>5
<1> QED
  BY <1>4, <1>5

(* The quotient of what is below a base of divisors is a limb. *)
LEMMA QuotientIsDigit ==
  ASSUME NEW base \in Nat, NEW vv \in Nat, vv >= 1, NEW xx \in Nat, xx < base * vv
  PROVE  \E q \in 0 .. base - 1 : q * vv <= xx /\ xx < (q + 1) * vv
<1>1. PICK q \in Int : q = xx \div vv
  BY DivisionOf
<1>2. PICK r \in Int : xx = vv * q + r /\ 0 <= r /\ r < vv
  <2>1. xx = vv * (xx \div vv) + (xx % vv) /\ 0 <= xx % vv /\ xx % vv < vv /\ xx % vv \in Int
    BY DivisionOf
  <2> QED
    BY <1>1, <2>1
<1>3. q \in Nat
  BY <1>1
<1>4. vv * q = q * vv /\ (q + 1) * vv = q * vv + vv /\ q * vv \in Int
  OBVIOUS
<1>5. q * vv <= xx /\ xx < (q + 1) * vv
  BY <1>2, <1>4
<1>6. q < base
  <2> SUFFICES ASSUME base <= q PROVE FALSE
    OBVIOUS
  <2>1. base * vv <= q * vv
    BY TimesMonotone
  <2>2. base * vv \in Int /\ q * vv \in Int
    OBVIOUS
  <2> QED
    BY <1>5, <2>1, <2>2
<1> QED
  BY <1>3, <1>5, <1>6

(* What dividing one window comes to. *)
DigitIs(d, t, r, xx, u, v, j, n) ==
  /\ QuotientDigit(u, v, j) = [u |-> t, digit |-> d]
  /\ xx = d * Low(v, n) + r /\ r < Low(v, n)
  /\ Low(t, j + n) = Low(u, j) + r * Weight(j)
  /\ LimbAt(t, (j + n) + 1) = 0

(* A window over a divisor whose top bit is set, and what they stand for. *)
Windowed(u, v, j, n, N, window, h, xx) ==
  /\ N \in Nat /\ u \in Buffer(N) /\ n \in Nat /\ n >= 2 /\ v \in Buffer(n) /\ 2 * v[n] >= Base
  /\ j \in Nat /\ (j + n) + 1 <= N
  /\ Slice(window, u, j, n) /\ h = u[(j + n) + 1]
  /\ xx = Low(window, n) + h * Weight(n)
  /\ xx < Base * Low(v, n)

(* The digit estimated for a window. *)
EstimatedFor(d, vv, xx, u, v, j, n, window, h) ==
  /\ d = Estimate(h, u[j + n], u[j + n - 1], v)
  /\ vv = Low(v, n) /\ vv >= 1
  /\ d * vv < xx + vv /\ xx < (d + 1) * vv

(* It is the digit of the window, or one more. *)
LEMMA EstimateForWindow ==
  ASSUME NEW u, NEW v, NEW j \in Nat, NEW n \in Nat, NEW N \in Nat, NEW window, NEW h, NEW xx,
         Windowed(u, v, j, n, N, window, h, xx)
  PROVE  \E d \in Limb, vv \in Nat : EstimatedFor(d, vv, xx, u, v, j, n, window, h)
<1>1. /\ N \in Nat /\ u \in Buffer(N) /\ n \in Nat /\ n >= 2 /\ v \in Buffer(n) /\ 2 * v[n] >= Base
      /\ j \in Nat /\ (j + n) + 1 <= N
      /\ Slice(window, u, j, n) /\ h = u[(j + n) + 1]
      /\ xx = Low(window, n) + h * Weight(n)
      /\ xx < Base * Low(v, n)
  BY DEF Windowed
<1>2. u \in Limbs /\ Len(u) = N /\ v \in Limbs /\ Len(v) = n
  BY <1>1 DEF Buffer
<1>3. PICK base \in Nat : base = Base /\ base >= 4
  BY BaseFacts
<1>4. PICK k \in Nat : k = n - 2 /\ n = k + 2 /\ n - 1 = k + 1
  BY <1>1
<1>5. /\ \A i \in 1 .. N : LimbAt(u, i) = u[i] /\ u[i] \in Limb
      /\ \A i \in 1 .. n : LimbAt(v, i) = v[i] /\ v[i] \in Limb
  BY <1>2, LimbAtPlace, ElementOfSeq DEF Limbs
<1>6. window \in Buffer(n) /\ \A i \in 1 .. n : LimbAt(window, i) = LimbAt(u, j + i)
  <2>1. j + n <= Len(u) /\ Slice(window, u, j, n) /\ u \in Limbs
    BY <1>1, <1>2
  <2> QED
    BY <2>1, LowSub
<1>7. window \in Limbs
  BY <1>6 DEF Buffer
<1>8. /\ n \in 1 .. n /\ n - 1 \in 1 .. n /\ j + n \in 1 .. N /\ j + n - 1 \in 1 .. N /\ (j + n) + 1 \in 1 .. N
      /\ j + (n - 1) = j + n - 1
  BY <1>1
<1>9. PICK v1 \in Limb : v1 = v[n] /\ v1 = LimbAt(v, k + 2)
  BY <1>4, <1>5, <1>8
<1>10. PICK v2 \in Limb : v2 = v[n - 1] /\ v2 = LimbAt(v, k + 1)
  BY <1>4, <1>5, <1>8
<1>11. PICK l \in Limb : l = u[j + n] /\ l = LimbAt(window, k + 2)
  <2>1. LimbAt(window, n) = LimbAt(u, j + n) /\ LimbAt(u, j + n) = u[j + n] /\ u[j + n] \in Limb
    BY <1>5, <1>6, <1>8
  <2> QED
    BY <1>4, <2>1
<1>12. PICK x \in Limb : x = u[j + n - 1] /\ x = LimbAt(window, k + 1)
  <2>1. LimbAt(window, n - 1) = LimbAt(u, j + (n - 1)) /\ LimbAt(u, j + n - 1) = u[j + n - 1]
        /\ u[j + n - 1] \in Limb
    BY <1>5, <1>6, <1>8
  <2>2. LimbAt(window, k + 1) = LimbAt(window, n - 1)
    BY <1>4
  <2>3. LimbAt(u, j + (n - 1)) = LimbAt(u, j + n - 1)
    BY <1>8
  <2> QED
    BY <2>1, <2>2, <2>3
<1>13. h \in Limb
  BY <1>1, <1>5, <1>8
<1>14. PICK w \in Nat : w = Weight(k) /\ w >= 1
  BY WeightFacts
<1>15. PICK lv \in Nat : lv = Low(v, k) /\ lv < w
  BY <1>2, <1>14, LowType, LowBounded
<1>16. PICK lx \in Nat : lx = Low(window, k) /\ lx < w
  BY <1>7, <1>14, LowType, LowBounded
<1>17. PICK vv \in Nat : vv = Low(v, n)
  BY <1>1, <1>2, LowType
<1>18. vv = (v1 * base + v2) * w + lv
  <2>1. Low(v, k + 2) = (v1 * Base + v2) * w + Low(v, k)
    BY <1>2, <1>9, <1>10, <1>14, TwoTops
  <2> QED
    BY <1>3, <1>4, <1>15, <1>17, <2>1, Zenon
<1>19. /\ v1 \in Nat /\ v2 \in Nat /\ v1 < base /\ v2 < base /\ l \in Nat /\ x \in Nat /\ h \in Nat
       /\ l < base /\ x < base /\ h < base
  BY <1>3, <1>13 DEF Limb
<1>20. xx \in Nat /\ xx = ((h * base + l) * base + x) * w + lx
  <2>1. /\ Low(window, k + 2) = (l * Base + x) * w + Low(window, k)
        /\ Weight(k + 2) = Base * (Base * w)
    BY <1>7, <1>11, <1>12, <1>14, TwoTops
  <2>2. xx = ((l * base + x) * w + lx) + h * (base * (base * w))
    BY <1>1, <1>3, <1>4, <1>16, <2>1, Zenon
  <2>3. ((l * base + x) * w + lx) + h * (base * (base * w)) = ((h * base + l) * base + x) * w + lx
    BY <1>19
  <2>4. ((h * base + l) * base + x) * w + lx \in Nat
    BY <1>19
  <2> QED
    BY <2>2, <2>3, <2>4
<1>21. xx < base * vv
  BY <1>1, <1>3, <1>17, Zenon
<1>22. h <= v1
  <2>1. TwoOver(vv, v1, base, v2, w, lv) /\ ThreeOver(xx, h, l, x, base, w, lx)
    BY <1>18, <1>20, Zenon DEF TwoOver, ThreeOver
  <2>2. base >= 1 /\ xx \in Nat
    BY <1>3, <1>20
  <2> QED
    BY <1>14, <1>15, <1>16, <1>19, <1>21, <2>1, <2>2, TopNotAbove
<1>23. 2 * v1 >= Base /\ h \in 0 .. v1 /\ v1 >= 1
  BY <1>1, <1>3, <1>9, <1>19, <1>22
<1>24. Tops(v, v1, v2)
  BY <1>1, <1>2, <1>9, <1>10 DEF Tops
<1>25. PICK d \in Limb : /\ d = Estimate(h, l, x, v)
                        /\ TopFits(d, v1, v2, h, l, x) /\ Bounds(d, v1, v2, h, l, x)
  <2>1. /\ Estimate(h, l, x, v) \in Limb
        /\ TopFits(Estimate(h, l, x, v), v1, v2, h, l, x)
        /\ Bounds(Estimate(h, l, x, v), v1, v2, h, l, x)
    BY <1>23, <1>24, EstimateExact
  <2> QED
    BY <2>1
<1>26. d \in Nat /\ d < base
  BY <1>3 DEF Limb
<1>27. PICK top \in Nat : top = v1 * base + v2
  BY <1>19
<1>28. PICK tt \in Nat : tt = (h * base + l) * base + x
  BY <1>19
<1>29. d * top <= tt
  BY <1>3, <1>25, <1>27, <1>28, Zenon DEF TopFits
<1>30. vv = top * w + lv /\ xx = tt * w + lx
  BY <1>18, <1>20, <1>27, <1>28, Zenon
<1>31. top >= base
  <2>1. 1 * base <= v1 * base
    BY <1>19, <1>23, TimesMonotone
  <2>2. v1 * base \in Nat
    BY <1>19
  <2> QED
    BY <1>19, <1>27, <2>1, <2>2
<1>32. d * vv < xx + vv
  BY <1>14, <1>15, <1>16, <1>20, <1>26, <1>29, <1>30, <1>31, EstimateNear
<1>33. vv >= 1
  <2>1. 1 * w <= top * w
    BY <1>3, <1>31, TimesMonotone
  <2>2. top * w \in Nat
    OBVIOUS
  <2> QED
    BY <1>14, <1>30, <2>1, <2>2
<1>34. PICK q \in 0 .. base - 1 : q * vv <= xx /\ xx < (q + 1) * vv
  BY <1>20, <1>21, <1>33, QuotientIsDigit
<1>35. q <= d
  <2>1. q \in Nat
    OBVIOUS
  <2>2. q * top <= tt
    BY <1>16, <1>20, <1>30, <1>34, <2>1, EstimateReaches
  <2>3. TopFits(q, v1, v2, h, l, x)
    BY <1>3, <1>27, <1>28, <2>2, Zenon DEF TopFits
  <2>4. q \in Limb
    BY <1>3 DEF Limb
  <2> QED
    BY <1>25, <2>3, <2>4, Zenon DEF Bounds
<1>36. xx < (d + 1) * vv
  <2>1. q + 1 <= d + 1 /\ q + 1 \in Int /\ d + 1 \in Int
    BY <1>26, <1>35
  <2>2. (q + 1) * vv <= (d + 1) * vv
    BY <2>1, TimesMonotone
  <2>3. (q + 1) * vv \in Int /\ (d + 1) * vv \in Int
    BY <1>26
  <2> QED
    BY <1>20, <1>34, <2>2, <2>3
<1>37. EstimatedFor(d, vv, xx, u, v, j, n, window, h)
  BY <1>11, <1>12, <1>17, <1>25, <1>32, <1>33, <1>36, Zenon DEF EstimatedFor
<1> QED
  BY <1>37

(* QuotientDigit divides what its window stands for by the divisor: the digit,
   and the remainder in the place of the window. *)
LEMMA QuotientDigitExact ==
  ASSUME NEW N \in Nat, NEW n \in Nat, NEW j \in Nat, NEW u, NEW v, NEW window, NEW h, NEW xx,
         Windowed(u, v, j, n, N, window, h, xx)
  PROVE  \E d \in Limb, t \in Buffer(N), r \in Nat : DigitIs(d, t, r, xx, u, v, j, n)
<1>1. /\ u \in Buffer(N) /\ n >= 2 /\ v \in Buffer(n)
      /\ (j + n) + 1 <= N
      /\ Slice(window, u, j, n) /\ h = u[(j + n) + 1]
      /\ xx = Low(window, n) + h * Weight(n)
  BY DEF Windowed
<1>2. u \in Limbs /\ Len(u) = N /\ v \in Limbs /\ Len(v) = n
  BY <1>1 DEF Buffer
<1>3. PICK base \in Nat : base = Base /\ base >= 4
  BY BaseFacts
<1>4. PICK d \in Limb, vv \in Nat : EstimatedFor(d, vv, xx, u, v, j, n, window, h)
  BY EstimateForWindow
<1>5. /\ d = Estimate(h, u[j + n], u[j + n - 1], v)
      /\ vv = Low(v, n) /\ vv >= 1
      /\ d * vv < xx + vv /\ xx < (d + 1) * vv
  BY <1>4 DEF EstimatedFor
<1>6. window \in Buffer(n)
  <2>1. j + n <= Len(u)
    BY <1>1, <1>2
  <2> QED
    BY <1>1, <1>2, <2>1, LowSub
<1>7. h \in Limb
  <2>1. (j + n) + 1 \in 1 .. Len(u)
    BY <1>1, <1>2
  <2> QED
    BY <1>1, <1>2, <2>1, ElementOfSeq DEF Limbs
<1>8. /\ d \in Nat /\ d < base /\ h \in Nat /\ h < base
  BY <1>3, <1>7 DEF Limb
<1>9. PICK l \in Buffer(n), c \in Limb, b \in 0 .. 1 : Took(l, c, b, window, v, d, n)
  BY <1>1, <1>6, TakeMultipleExact
<1>10. PICK taken : taken = [limbs |-> l, carry |-> c, borrow |-> b]
  OBVIOUS
<1>11. TakeMultiple(window, v, d) = taken /\ Taken(Low(l, n), d, Low(v, n), Low(window, n), c + b, Weight(n))
  BY <1>9, <1>10, Zenon DEF Took
<1>12. QuotientDigit(u, v, j) = Corrected(u, v, j, d, taken)
  <2>1. window = SubSeq(u, j + 1, j + n) /\ h = u[j + n + 1]
    BY <1>1 DEF Slice
  <2> QED
    BY <1>2, <1>5, <1>11, <2>1, Zenon DEF QuotientDigit
<1>13. PICK w \in Nat : w = Weight(n) /\ w >= 1
  BY WeightFacts
<1>14. PICK low \in Nat : low = Low(l, n) /\ low < w
  <2>1. l \in Limbs
    BY DEF Buffer
  <2> QED
    BY <1>13, <2>1, LowType, LowBounded
<1>15. PICK lw \in Nat : lw = Low(window, n)
  <2>1. window \in Limbs
    BY <1>6 DEF Buffer
  <2> QED
    BY <2>1, LowType
<1>16. vv < w
  BY <1>2, <1>5, <1>13, LowBounded
<1>17. PICK owed \in Nat : owed = c + b
  BY <1>3 DEF Limb
<1>18. PICK dv \in Nat : dv = d * vv
  BY <1>8
<1>19. low + dv = lw + owed * w
  BY <1>5, <1>11, <1>13, <1>14, <1>15, <1>17, <1>18, Zenon DEF Taken
<1>20. xx = lw + h * w
  BY <1>1, <1>13, <1>15
<1>21. PICK hw \in Nat : hw = h * w
  BY <1>8
<1>22. PICK ow \in Nat : ow = owed * w
  OBVIOUS
<1>23. PICK x \in Nat : x = xx
  BY <1>20, <1>21
<1>24. PICK more \in Int : more = h - owed /\ more * w = hw - ow
  <2>1. (h - owed) * w = h * w - owed * w
    BY <1>8
  <2>2. h - owed \in Int
    BY <1>8
  <2> QED
    BY <1>21, <1>22, <2>1, <2>2
<1>25. PICK z \in Int : z = x - dv /\ z = low + more * w
  BY <1>19, <1>20, <1>21, <1>22, <1>23, <1>24
<1>26. dv < x + vv /\ x < dv + vv
  <2>1. (d + 1) * vv = d * vv + vv
    BY <1>8
  <2> QED
    BY <1>5, <1>18, <1>23, <2>1
<1>27. /\ 0 <= z /\ z < w => more = 0 /\ z = low
       /\ z < 0 /\ -w < z => more = -1 /\ z + w = low
  <2>1. low \in 0 .. w - 1
    BY <1>14
  <2> QED
    BY <1>25, <2>1, OwedIs
<1>28. PICK high : high = RestAbove(h, c, b)
  OBVIOUS
<1>29. /\ c + b = h => ~Negative(h, c, b) /\ high = 0
       /\ c + b = h + 1 => Negative(h, c, b) /\ (high + 1) % Base = 0
  BY <1>7, <1>28, LimbOwed
<1>30. 0 \in Limb
  BY <1>3 DEF Limb
<1>31. n = Len(v) /\ h = u[j + n + 1] /\ taken.limbs = l /\ taken.carry = c /\ taken.borrow = b
  BY <1>1, <1>2, <1>10
<1>32. CASE dv <= x
  <2>1. more = 0 /\ z = low
    BY <1>16, <1>25, <1>26, <1>27, <1>32
  <2>2. c + b = h
    BY <1>8, <1>17, <1>24, <2>1
  <2>3. ~Negative(h, c, b) /\ high = 0
    BY <1>29, <2>2, Zenon
  <2>4. PICK t : t = PutWindow(u, j, l, high)
    OBVIOUS
  <2>5. Corrected(u, v, j, d, taken) = [u |-> t, digit |-> d]
    BY <1>28, <1>31, <2>3, <2>4, Zenon DEF Corrected, Negative, RestAbove
  <2>6. high \in Limb
    BY <1>30, <2>3
  <2>7. /\ t \in Buffer(N)
        /\ Low(t, j + n) = Low(u, j) + Low(l, n) * Weight(j)
        /\ LimbAt(t, (j + n) + 1) = high
    BY <1>1, <2>4, <2>6, PutWindowExact
  <2>8. x = d * vv + low /\ low < vv
    BY <1>18, <1>25, <1>26, <2>1
  <2>9. DigitIs(d, t, low, xx, u, v, j, n)
    BY <1>5, <1>12, <1>14, <1>23, <2>3, <2>5, <2>7, <2>8, Zenon DEF DigitIs
  <2> QED
    BY <2>7, <2>9
<1>33. CASE ~(dv <= x)
  <2>1. more = -1 /\ z + w = low
    BY <1>16, <1>25, <1>26, <1>27, <1>33
  <2>2. c + b = h + 1
    BY <1>8, <1>17, <1>24, <2>1
  <2>3. Negative(h, c, b) /\ (high + 1) % Base = 0
    BY <1>29, <2>2, Zenon
  <2>4. PICK restored : restored = SumOn(n, l, v)
    OBVIOUS
  <2>5. l \in Limbs
    BY DEF Buffer
  <2>6. /\ restored \in Limbs /\ Len(restored) = n + 1 /\ restored[n + 1] \in 0 .. 1
        /\ Low(restored, n) + restored[n + 1] * Weight(n) = Low(l, n) + Low(v, n)
    BY <1>2, <2>4, <2>5, SumExact
  <2>7. PICK bit \in 0 .. 1 : bit = restored[n + 1]
    BY <2>6
  <2>8. PICK r \in Nat : r = Low(restored, n) /\ r < w
    BY <1>13, <2>6, LowType, LowBounded
  <2>9. r + bit * w = low + vv
    BY <1>5, <1>13, <1>14, <2>6, <2>7, <2>8, Zenon
  <2>10. bit = 1 /\ r = z + vv
    <3>1. CASE bit = 0
      <4>1. bit * w = 0
        BY <3>1
      <4> QED
        BY <1>16, <1>25, <1>26, <2>1, <2>8, <2>9, <4>1
    <3>2. CASE bit = 1
      <4>1. bit * w = w
        BY <3>2
      <4> QED
        BY <2>1, <2>9, <3>2, <4>1
    <3> QED
      BY <3>1, <3>2
  <2>11. PICK s : s = SubSeq(restored, 1, n)
    OBVIOUS
  <2>12. s \in Buffer(n) /\ Low(s, n) = r
    <3>1. n <= Len(restored)
      BY <2>6
    <3> QED
      BY <2>6, <2>8, <2>11, <3>1, LowPrefix
  <2>13. (high + restored[n + 1]) % Base = 0
    BY <2>3, <2>7, <2>10, Zenon
  <2>14. PICK t : t = PutWindow(u, j, s, 0)
    OBVIOUS
  <2>15. Corrected(u, v, j, d, taken) = [u |-> t, digit |-> d - 1]
    <3>1. Corrected(u, v, j, d, taken)
            = [u |-> PutWindow(u, j, SubSeq(SumOn(n, l, v), 1, n),
                               (RestAbove(h, c, b) + SumOn(n, l, v)[n + 1]) % Base),
               digit |-> d - 1]
      BY <1>31, <2>3, Zenon DEF Corrected, Negative, RestAbove
    <3> QED
      BY <1>28, <2>4, <2>11, <2>13, <2>14, <3>1, Zenon
  <2>16. /\ t \in Buffer(N)
         /\ Low(t, j + n) = Low(u, j) + Low(s, n) * Weight(j)
         /\ LimbAt(t, (j + n) + 1) = 0
    BY <1>1, <1>30, <2>12, <2>14, PutWindowExact
  <2>17. d >= 1
    <3> SUFFICES ASSUME d = 0 PROVE FALSE
      BY <1>8
    <3>1. dv = 0
      BY <1>18
    <3> QED
      BY <1>33, <3>1
  <2>18. PICK e \in Limb : e = d - 1
    BY <1>3, <1>8, <2>17 DEF Limb
  <2>19. x = e * vv + r /\ r < vv
    <3>1. (d - 1) * vv = d * vv - vv
      BY <1>8
    <3> QED
      BY <1>18, <1>25, <1>26, <1>33, <2>10, <2>18, <3>1
  <2>20. DigitIs(e, t, r, xx, u, v, j, n)
    BY <1>5, <1>12, <1>23, <2>12, <2>15, <2>16, <2>18, <2>19, Zenon DEF DigitIs
  <2> QED
    BY <2>16, <2>20
<1> QED
  BY <1>32, <1>33

-----------------------------------------------------------------------------
(* Shifts *)

(* The bits of a limb that a shift moves out of it, and those that stay. *)
SplitBy(y, p, q, e, f) ==
  /\ e \in 0 .. p - 1 /\ f \in 0 .. q - 1
  /\ y = q * e + f
  /\ y \div q = e
  /\ (y * p) % Base = f * p
  /\ f * p + p <= Base

(* Every limb is split. *)
LEMMA ShiftSplit ==
  ASSUME NEW y \in Limb, NEW p \in Nat, NEW q \in Nat, p >= 1, q >= 1, p * q = Base
  PROVE  \E e \in Nat, f \in Nat : SplitBy(y, p, q, e, f)
<1>1. PICK base \in Nat : base = Base /\ base >= 4
  BY BaseFacts
<1>2. y \in Nat /\ y < base
  BY <1>1 DEF Limb
<1>3. PICK e \in Int : e = y \div q
  BY <1>2, DivisionOf
<1>4. PICK f \in Int : y = q * e + f /\ 0 <= f /\ f < q
  <2>1. y = q * (y \div q) + (y % q) /\ 0 <= y % q /\ y % q < q /\ y % q \in Int
    BY <1>2, DivisionOf
  <2> QED
    BY <1>3, <2>1
<1>5. e \in Nat
  BY <1>2, <1>3
<1>6. e <= p - 1
  <2> SUFFICES ASSUME p <= e PROVE FALSE
    BY <1>5
  <2>1. p * q <= e * q
    BY <1>5, TimesMonotone
  <2>2. e * q = q * e /\ q * e \in Int
    BY <1>5
  <2> QED
    BY <1>1, <1>2, <1>4, <2>1, <2>2
<1>7. PICK g \in Int : g = f * p
  BY <1>4
<1>8. g + p <= base /\ 0 <= g
  <2>1. (f + 1) * p <= q * p
    BY <1>4, TimesMonotone
  <2>2. (f + 1) * p = f * p + p /\ q * p = p * q
    BY <1>4
  <2>3. 0 * p <= f * p /\ 0 * p = 0
    BY <1>4, TimesMonotone
  <2> QED
    BY <1>1, <1>7, <2>1, <2>2, <2>3
<1>9. (y * p) % base = g
  <2>1. (q * e + f) * p = (p * q) * e + f * p
    BY <1>4, <1>5
  <2>2. y * p = base * e + g
    BY <1>1, <1>4, <1>7, <2>1
  <2>3. y * p \in Int /\ g < base /\ base > 0
    BY <1>1, <1>2, <1>8
  <2> QED
    BY <1>5, <1>8, <2>2, <2>3, DivisionIs
<1>10. e \in 0 .. p - 1 /\ f \in 0 .. q - 1 /\ f \in Nat
  BY <1>4, <1>5, <1>6
<1>11. SplitBy(y, p, q, e, f)
  BY <1>1, <1>3, <1>4, <1>7, <1>8, <1>9, <1>10, Zenon DEF SplitBy
<1> QED
  BY <1>5, <1>10, <1>11

(* What is moved out of a limb by a shift. *)
Spilled(y, q) == y \div q
ShiftedLimb(y, below, p, q) == ((y * p) % Base) + Spilled(below, q)
Shifts(shift, p, q) ==
  /\ p \in Nat /\ p >= 1 /\ q \in Nat /\ q >= 1 /\ p * q = Base
  /\ p = TwoTo[shift] /\ q = TwoTo[LimbBits - shift]

(* Limbs that are shifted, with those below them: one place of the product. *)
ShiftPlace(low, e, f, e2, p, q, lows, y, w, base) ==
  low + e * w = p * lows => (low + (f * p + e) * w) + e2 * (base * w) = p * (lows + y * w)

(* A place that is shifted carries the product one place further. *)
LEMMA ShiftedPlace ==
  ASSUME NEW low \in Nat, NEW e \in Nat, NEW f \in Nat, NEW e2 \in Nat, NEW p \in Nat, NEW q \in Nat,
         NEW lows \in Nat, NEW w \in Nat
  PROVE  ShiftPlace(low, e, f, e2, p, q, lows, q * e2 + f, w, p * q)
<1>1. (low + (f * p + e) * w) + e2 * ((p * q) * w) = (low + e * w) + p * ((q * e2 + f) * w)
  OBVIOUS
<1>2. p * (lows + (q * e2 + f) * w) = p * lows + p * ((q * e2 + f) * w)
  OBVIOUS
<1>3. PICK z \in Nat : z = p * ((q * e2 + f) * w)
  OBVIOUS
<1>4. low + e * w = p * lows => (low + (f * p + e) * w) + e2 * ((p * q) * w) = p * (lows + (q * e2 + f) * w)
  BY <1>1, <1>2, <1>3
<1> QED
  BY <1>4, Zenon DEF ShiftPlace

(* A limb that is shifted, with what comes from below. *)
LEMMA ShiftedLimbType ==
  ASSUME NEW y \in Limb, NEW below \in Limb, NEW shift, NEW p, NEW q, Shifts(shift, p, q)
  PROVE  ShiftedLimb(y, below, p, q) \in Limb
<1>1. p \in Nat /\ p >= 1 /\ q \in Nat /\ q >= 1 /\ p * q = Base
  BY DEF Shifts
<1>2. PICK e \in Nat, f \in Nat : SplitBy(y, p, q, e, f)
  BY <1>1, ShiftSplit
<1>3. PICK e2 \in Nat, f2 \in Nat : SplitBy(below, p, q, e2, f2)
  BY <1>1, ShiftSplit
<1>4. (y * p) % Base = f * p /\ f * p + p <= Base
  BY <1>2, Zenon DEF SplitBy
<1>5. below \div q = e2 /\ e2 \in 0 .. p - 1
  BY <1>3, Zenon DEF SplitBy
<1>6. PICK g \in Nat : g = f * p
  BY <1>1
<1>7. ShiftedLimb(y, below, p, q) = g + e2
  BY <1>4, <1>5, <1>6, Zenon DEF ShiftedLimb, Spilled
<1> QED
  BY <1>1, <1>4, <1>5, <1>6, <1>7, BaseFacts DEF Limb

(* ShiftedLimbs multiplies by a power of two: the lower limbs, with what is
   still to be moved up. *)
LEMMA ShiftedLimbsExact ==
  ASSUME NEW s \in Limbs, NEW shift, NEW p, NEW q, Shifts(shift, p, q), NEW t, t = ShiftedLimbs(s, shift)
  PROVE  /\ t \in Buffer(Len(s) + 1)
         /\ \A i \in 1 .. Len(s) + 1 : t[i] = ShiftedLimb(LimbAt(s, i), LimbAt(s, i - 1), p, q)
         /\ \A k \in 0 .. Len(s) + 1 : Low(t, k) + Spilled(LimbAt(s, k), q) * Weight(k) = p * Low(s, k)
<1>1. p \in Nat /\ p >= 1 /\ q \in Nat /\ q >= 1 /\ p * q = Base /\ p = TwoTo[shift] /\ q = TwoTo[LimbBits - shift]
  BY DEF Shifts
<1>2. PICK N \in Nat : N = Len(s) + 1
  BY LimbAtPlace
<1>3. t = [i \in 1 .. N |-> ShiftedLimb(LimbAt(s, i), LimbAt(s, i - 1), p, q)]
  BY <1>1, <1>2, Zenon DEF ShiftedLimbs, ShiftedLimb, Spilled
<1>4. \A i \in 1 .. N : ShiftedLimb(LimbAt(s, i), LimbAt(s, i - 1), p, q) \in Limb
  <2> SUFFICES ASSUME NEW i \in 1 .. N PROVE ShiftedLimb(LimbAt(s, i), LimbAt(s, i - 1), p, q) \in Limb
    OBVIOUS
  <2>1. LimbAt(s, i) \in Limb /\ LimbAt(s, i - 1) \in Limb
    BY <1>2, LimbAtType
  <2> QED
    BY <2>1, ShiftedLimbType
<1>5. t \in Limbs /\ Len(t) = N
  <2>1. t \in [1 .. N -> Limb]
    BY <1>3, <1>4, Zenon
  <2>2. t \in Limbs
    BY <1>2, <2>1 DEF Limbs
  <2> QED
    BY <1>2, <1>3, <2>2
<1>6. \A i \in 1 .. N : t[i] = ShiftedLimb(LimbAt(s, i), LimbAt(s, i - 1), p, q)
  BY <1>3, Zenon
<1> DEFINE C == {k \in 0 .. N : Low(t, k) + Spilled(LimbAt(s, k), q) * Weight(k) = p * Low(s, k)}
<1>7. 0 \in C
  <2>1. Low(t, 0) = 0 /\ Low(s, 0) = 0 /\ LimbAt(s, 0) = 0 /\ Weight(0) = 1
    BY <1>5, LowFacts, LimbAtPlace, WeightFacts
  <2>2. Spilled(0, q) = 0
    <3>1. 0 = q * 0 + 0
      BY <1>1
    <3>2. 0 \div q = 0
      BY <1>1, <3>1, DivisionIs
    <3> QED
      BY <3>2 DEF Spilled
  <2>3. 0 + 0 * 1 = p * 0
    BY <1>1
  <2>4. Low(t, 0) + Spilled(LimbAt(s, 0), q) * Weight(0) = p * Low(s, 0)
    BY <2>1, <2>2, <2>3, Zenon
  <2>5. 0 \in 0 .. N
    BY <1>2
  <2> QED
    BY <2>4, <2>5
<1>8. ASSUME NEW k \in 0 .. N - 1, k \in C PROVE k + 1 \in C
  <2>1. Low(t, k) + Spilled(LimbAt(s, k), q) * Weight(k) = p * Low(s, k)
    BY <1>8
  <2> HIDE DEF C
  <2>2. k \in Nat /\ k + 1 \in 1 .. N /\ k + 1 \in 0 .. N /\ (k + 1) - 1 = k /\ k \in Int /\ k + 1 \in Int
    BY <1>2
  <2>3. LimbAt(s, k) \in Limb /\ LimbAt(s, k + 1) \in Limb
    BY <2>2, LimbAtType
  <2>4. PICK y \in Limb : y = LimbAt(s, k + 1)
    BY <2>3
  <2>5. PICK e \in Nat, f \in Nat : SplitBy(LimbAt(s, k), p, q, e, f)
    BY <1>1, <2>3, ShiftSplit
  <2>6. PICK e2 \in Nat, f2 \in Nat : SplitBy(y, p, q, e2, f2)
    BY <1>1, <2>4, ShiftSplit
  <2>7. Spilled(LimbAt(s, k), q) = e
    BY <2>5, Zenon DEF SplitBy, Spilled
  <2>8. Spilled(y, q) = e2 /\ y = q * e2 + f2 /\ (y * p) % Base = f2 * p
    BY <2>6, Zenon DEF SplitBy, Spilled
  <2>9. t[k + 1] = f2 * p + e
    BY <1>6, <2>2, <2>4, <2>7, <2>8, Zenon DEF ShiftedLimb
  <2>10. LimbAt(t, k + 1) = f2 * p + e
    BY <1>5, <2>2, <2>9, LimbAtPlace
  <2>11. PICK w \in Nat : w = Weight(k) /\ Weight(k + 1) = Base * w
    BY <2>2, WeightFacts
  <2>12. PICK low \in Nat : low = Low(t, k) /\ Low(t, k + 1) = low + LimbAt(t, k + 1) * w
    BY <1>5, <2>2, <2>11, LowFacts
  <2>13. PICK lows \in Nat : lows = Low(s, k) /\ Low(s, k + 1) = lows + y * w
    BY <2>2, <2>4, <2>11, LowFacts
  <2>14. ShiftPlace(low, e, f2, e2, p, q, lows, y, w, Base)
    <3>1. ShiftPlace(low, e, f2, e2, p, q, lows, q * e2 + f2, w, p * q)
      BY <1>1, ShiftedPlace
    <3> QED
      BY <1>1, <2>8, <3>1, Zenon
  <2>15. low + e * w = p * lows
    BY <2>1, <2>7, <2>11, <2>12, <2>13, Zenon
  <2>16. (low + (f2 * p + e) * w) + e2 * (Base * w) = p * (lows + y * w)
    BY <2>14, <2>15, Zenon DEF ShiftPlace
  <2>17. Low(t, k + 1) + Spilled(LimbAt(s, k + 1), q) * Weight(k + 1) = p * Low(s, k + 1)
    BY <2>4, <2>8, <2>10, <2>11, <2>12, <2>13, <2>16, Zenon
  <2> QED
    BY <2>2, <2>17 DEF C
<1>9. \A k \in 0 .. N : k \in C
  <2> HIDE DEF C
  <2> QED
    BY <1>2, <1>7, <1>8, Induction
<1>10. \A k \in 0 .. N : Low(t, k) + Spilled(LimbAt(s, k), q) * Weight(k) = p * Low(s, k)
  BY <1>9
<1> HIDE DEF C
<1> QED
  BY <1>2, <1>5, <1>6, <1>10, Zenon DEF Buffer

(* Every shift but the last keeps a bit of the limb. *)
LEMMA ShiftIs ==
  ASSUME NEW shift \in 0 .. LimbBits
  PROVE  \E p \in Nat, q \in Nat : Shifts(shift, p, q)
<1>1. PICK p \in Nat : p = TwoTo[shift] /\ p >= 1
  BY ShiftFacts
<1>2. PICK q \in Nat : q = TwoTo[LimbBits - shift] /\ q >= 1
  BY ShiftFacts
<1>3. p * q = Base
  BY <1>1, <1>2, ShiftFacts
<1>4. Shifts(shift, p, q)
  BY <1>1, <1>2, <1>3 DEF Shifts
<1> QED
  BY <1>4

(* The bits of the top limb of the divisor: w of them. *)
TopBits(x, w) == w \in 1 .. LimbBits /\ TwoTo[w - 1] <= x /\ x < TwoTo[w]

(* A limb that is not zero has a number of bits. *)
LEMMA TopBitsFound ==
  ASSUME NEW x \in Limb, x # 0
  PROVE  \E w \in 1 .. LimbBits : TopBits(x, w)
<1>1. PICK L \in Nat : L = LimbBits /\ L >= 1
  BY BigIntAssumption
<1>2. x \in Nat /\ x >= 1 /\ x < TwoTo[L]
  BY <1>1, BaseFacts, BigIntAssumption DEF Limb
<1>3. \A k \in 0 .. L : TwoTo[k] \in Nat
  BY <1>1, Doubles
<1> DEFINE C == {k \in 0 .. L : TwoTo[k] <= x \/ \E w \in 1 .. L : TopBits(x, w)}
<1>4. 0 \in C
  BY <1>1, <1>2, Doubles
<1>5. ASSUME NEW k \in 0 .. L - 1, k \in C PROVE k + 1 \in C
  <2>1. TwoTo[k] <= x \/ \E w \in 1 .. L : TopBits(x, w)
    BY <1>5
  <2>2. k + 1 \in 1 .. L /\ k + 1 \in 0 .. L /\ (k + 1) - 1 = k
    BY <1>1
  <2>3. TwoTo[k + 1] \in Nat
    BY <1>3, <2>2
  <2>4. TwoTo[k] <= x /\ ~(TwoTo[k + 1] <= x) => TopBits(x, k + 1)
    BY <1>1, <1>2, <2>2, <2>3 DEF TopBits
  <2> QED
    BY <2>1, <2>2, <2>4
<1>6. L \in C
  <2> HIDE DEF C
  <2>1. \A k \in 0 .. L : k \in C
    BY <1>4, <1>5, Induction
  <2> QED
    BY <1>1, <2>1
<1> QED
  BY <1>1, <1>2, <1>3, <1>6

(* The number of bits LongDivision finds the top limb to have. *)
LEMMA TopBitsChosen ==
  ASSUME NEW x \in Limb, x # 0,
         NEW w, w = CHOOSE k \in 1 .. LimbBits : TwoTo[k - 1] <= x /\ x < TwoTo[k]
  PROVE  TopBits(x, w)
<1>1. \E k \in 1 .. LimbBits : TwoTo[k - 1] <= x /\ x < TwoTo[k]
  BY TopBitsFound, Zenon DEF TopBits
<1> QED
  BY <1>1, Zenon DEF TopBits

(* A shift that moves the top bit of a limb to the top: nothing of it is
   moved out, and it is then at least half of the base. *)
LEMMA TopShifted ==
  ASSUME NEW x \in Limb, NEW w, TopBits(x, w), NEW p, NEW q, Shifts(LimbBits - w, p, q)
  PROVE  /\ Spilled(x, q) = 0 /\ (x * p) % Base = x * p /\ 2 * (x * p) >= Base
         /\ 2 * p <= Base /\ q >= 2
<1>1. PICK L \in Nat : L = LimbBits /\ L >= 1
  BY BigIntAssumption
<1>2. PICK base \in Nat : base = Base /\ base >= 4
  BY BaseFacts
<1>3. w \in 1 .. L /\ TwoTo[w - 1] <= x /\ x < TwoTo[w]
  BY <1>1 DEF TopBits
<1>4. p \in Nat /\ p >= 1 /\ q \in Nat /\ q >= 1 /\ p * q = base /\ q = TwoTo[w]
  <2>1. LimbBits - (LimbBits - w) = w
    BY <1>1, <1>3
  <2> QED
    BY <1>2, <2>1 DEF Shifts
<1>5. PICK r \in Nat : r = TwoTo[w - 1] /\ q = 2 * r /\ r >= 1
  <2>1. w - 1 \in 0 .. L
    BY <1>1, <1>3
  <2> QED
    BY <1>1, <1>3, <1>4, <2>1, Doubles
<1>6. x \in Nat /\ r <= x /\ x < q
  BY <1>2, <1>3, <1>4, <1>5 DEF Limb
<1>7. x \div q = 0
  <2>1. PICK z \in Int : z = 0
    OBVIOUS
  <2>2. x = q * z + x /\ 0 <= x /\ x \in Int /\ q > 0
    BY <1>4, <1>6, <2>1
  <2>3. x \div q = z
    BY <1>4, <1>6, <2>2, DivisionIs
  <2> QED
    BY <2>1, <2>3
<1>8. PICK y \in Nat : y = x * p
  BY <1>4, <1>6
<1>9. y < base
  <2>1. (x + 1) * p <= q * p
    BY <1>4, <1>6, TimesMonotone
  <2>2. (x + 1) * p = x * p + p /\ q * p = p * q
    BY <1>4, <1>6
  <2> QED
    BY <1>4, <1>8, <2>1, <2>2
<1>10. y % base = y
  BY <1>2, <1>9, NoWrap
<1>11. 2 * y >= base
  <2>1. r * p <= x * p
    BY <1>4, <1>5, <1>6, TimesMonotone
  <2>2. p * (2 * r) = 2 * (r * p) /\ r * p \in Int
    BY <1>4
  <2> QED
    BY <1>4, <1>5, <1>8, <2>1, <2>2
<1>12. 2 * p <= base
  <2>1. 2 * p <= q * p
    <3>1. 2 <= q
      BY <1>5
    <3> QED
      BY <1>4, <3>1, TimesMonotone
  <2>2. q * p = p * q
    BY <1>4
  <2> QED
    BY <1>4, <2>1, <2>2
<1>13. q >= 2
  BY <1>4, <1>5
<1> QED
  BY <1>2, <1>7, <1>8, <1>10, <1>11, <1>12, <1>13, Zenon DEF Spilled

(* The divisor, shifted until its top bit is set. *)
Normalized(v, b, n, p) == v \in Buffer(n) /\ 2 * v[n] >= Base /\ Low(v, n) = p * Low(b, n)

(* What LongDivision makes of the divisor is normalized. *)
LEMMA DivisorNormalized ==
  ASSUME NEW n \in Nat, n >= 1, NEW b \in Buffer(n), NEW x, x = b[n], NEW w, TopBits(x, w),
         NEW p, NEW q, Shifts(LimbBits - w, p, q),
         NEW v, v = SubSeq(ShiftedLimbs(b, LimbBits - w), 1, n)
  PROVE  Normalized(v, b, n, p)
<1>1. b \in Limbs /\ Len(b) = n
  BY DEF Buffer
<1>2. PICK t : t = ShiftedLimbs(b, LimbBits - w)
  OBVIOUS
<1>3. /\ t \in Buffer(n + 1)
      /\ \A i \in 1 .. n + 1 : t[i] = ShiftedLimb(LimbAt(b, i), LimbAt(b, i - 1), p, q)
      /\ \A k \in 0 .. n + 1 : Low(t, k) + Spilled(LimbAt(b, k), q) * Weight(k) = p * Low(b, k)
  BY <1>1, <1>2, ShiftedLimbsExact
<1>4. t \in Limbs /\ Len(t) = n + 1 /\ n <= Len(t)
  BY <1>3 DEF Buffer
<1>5. v \in Buffer(n) /\ Low(v, n) = Low(t, n)
  BY <1>2, <1>4, LowPrefix
<1>6. n \in 1 .. n + 1 /\ n \in 0 .. n + 1 /\ n \in 1 .. n /\ n - 1 \in Int
  OBVIOUS
<1>7. x \in Limb /\ LimbAt(b, n) = x
  BY <1>1, <1>6, LimbAtPlace, ElementOfSeq DEF Limbs
<1>8. Spilled(x, q) = 0 /\ (x * p) % Base = x * p /\ 2 * (x * p) >= Base
  BY <1>7, TopShifted
<1>9. Low(t, n) = p * Low(b, n)
  <2>1. Low(t, n) + 0 * Weight(n) = p * Low(b, n)
    BY <1>3, <1>6, <1>7, <1>8, Zenon
  <2>2. Low(t, n) \in Nat /\ Weight(n) \in Nat
    BY <1>4, LowType, WeightFacts
  <2> QED
    BY <2>1, <2>2
<1>10. v[n] = ShiftedLimb(x, LimbAt(b, n - 1), p, q)
  <2>1. v[n] = t[n]
    BY <1>2, <1>4, <1>6
  <2> QED
    BY <1>3, <1>6, <1>7, <2>1, Zenon
<1>11. PICK e \in Nat : e = Spilled(LimbAt(b, n - 1), q)
  <2>1. LimbAt(b, n - 1) \in Limb
    BY <1>1, <1>6, LimbAtType
  <2>2. p \in Nat /\ p >= 1 /\ q \in Nat /\ q >= 1 /\ p * q = Base
    BY DEF Shifts
  <2>3. PICK e \in Nat, f \in Nat : SplitBy(LimbAt(b, n - 1), p, q, e, f)
    BY <2>1, <2>2, ShiftSplit
  <2>4. Spilled(LimbAt(b, n - 1), q) = e
    BY <2>3, Zenon DEF SplitBy, Spilled
  <2> QED
    BY <2>4
<1>12. v[n] = x * p + e
  BY <1>8, <1>10, <1>11, Zenon DEF ShiftedLimb
<1>13. 2 * v[n] >= Base
  <2>1. PICK y \in Nat : y = x * p
    BY <1>7, BaseFacts DEF Limb, Shifts
  <2>2. v[n] = y + e /\ 2 * y >= Base
    BY <1>8, <1>12, <2>1, Zenon
  <2> QED
    BY <2>2, BaseFacts
<1> QED
  BY <1>5, <1>9, <1>13, Zenon DEF Normalized

-----------------------------------------------------------------------------
(* Long division *)

(* After k digits, p places are left: what is divided is the digits times the
   divisor, in their place, and what u still holds, less than the divisor there. *)
Stage(whole, vv, lower, d, p, n) ==
  whole = (vv * d) * Weight(p) + lower /\ lower < vv * Weight(p)

(* The window of a digit is below a base of divisors. *)
LEMMA WindowBelow ==
  ASSUME NEW vv \in Nat, NEW w \in Nat, w >= 1, NEW base \in Nat, NEW xx \in Nat, NEW low \in Nat,
         NEW lower \in Nat, lower = low + xx * w, lower < vv * (base * w)
  PROVE  xx < base * vv
<1> SUFFICES ASSUME base * vv <= xx PROVE FALSE
  OBVIOUS
<1>1. (base * vv) * w <= xx * w
  BY TimesMonotone
<1>2. (base * vv) * w = vv * (base * w)
  OBVIOUS
<1>3. (base * vv) * w \in Int /\ xx * w \in Int
  OBVIOUS
<1> QED
  BY <1>1, <1>2, <1>3

(* One digit more. *)
LEMMA StageMoves ==
  ASSUME NEW vv \in Nat, NEW base \in Nat, NEW w \in Nat, NEW d \in Nat, NEW low \in Nat, NEW xx \in Nat,
         NEW whole \in Nat, NEW digit \in Nat, NEW r \in Nat, NEW after \in Nat,
         whole = (vv * d) * (base * w) + (low + xx * w), xx = digit * vv + r, r < vv,
         after = low + r * w, low < w
  PROVE  whole = (vv * (digit + base * d)) * w + after /\ after < vv * w
<1>1. (vv * (digit + base * d)) * w = (vv * d) * (base * w) + (digit * vv) * w
  OBVIOUS
<1>2. xx * w = (digit * vv) * w + r * w
  OBVIOUS
<1>3. PICK m \in Nat : m = (digit * vv) * w
  OBVIOUS
<1>4. PICK z \in Nat : z = (vv * d) * (base * w)
  OBVIOUS
<1>5. PICK y \in Nat : y = r * w
  OBVIOUS
<1>6. whole = z + (low + (m + y)) /\ after = low + y
  BY <1>2, <1>3, <1>4, <1>5
<1>7. (vv * (digit + base * d)) * w = z + m
  BY <1>1, <1>3, <1>4
<1>8. after < vv * w
  <2>1. r \in Int /\ r <= vv - 1 /\ low \in Int
    OBVIOUS
  <2>2. low + r * w < vv * w
    BY <2>1, LowRoom
  <2> QED
    BY <2>2
<1> QED
  BY <1>6, <1>7, <1>8

(* What u is made of, at the window of the digit j. *)
WindowOf(u, j, n, lower, low, xx, window, h) ==
  /\ Slice(window, u, j, n) /\ h = u[(j + n) + 1]
  /\ xx = Low(window, n) + h * Weight(n)
  /\ low = Low(u, j) /\ lower = low + xx * Weight(j)

(* There is such a window wherever u has room for it. *)
LEMMA WindowFound ==
  ASSUME NEW N \in Nat, NEW u \in Buffer(N), NEW n \in Nat, NEW j \in Nat, (j + n) + 1 <= N
  PROVE  \E low \in Nat, xx \in Nat : \E window, h : WindowOf(u, j, n, Low(u, (j + n) + 1), low, xx, window, h)
<1>1. u \in Limbs /\ Len(u) = N
  BY DEF Buffer
<1>2. PICK window : Slice(window, u, j, n)
  BY DEF Slice
<1>3. /\ window \in Buffer(n)
      /\ Low(u, j + n) = Low(u, j) + Low(window, n) * Weight(j)
  <2>1. j + n <= Len(u)
    BY <1>1
  <2> QED
    BY <1>1, <1>2, <2>1, LowSub
<1>4. PICK h \in Nat : h = u[(j + n) + 1] /\ h = LimbAt(u, (j + n) + 1)
  <2>1. (j + n) + 1 \in 1 .. N /\ (j + n) + 1 \in Int
    OBVIOUS
  <2> QED
    BY <1>1, <2>1, LimbAtPlace, LimbAtType
<1>5. window \in Limbs
  BY <1>3 DEF Buffer
<1>6. PICK low \in Nat : low = Low(u, j)
  BY <1>1, LowType
<1>7. PICK lw \in Nat : lw = Low(window, n)
  BY <1>5, LowType
<1>8. PICK w \in Nat : w = Weight(j)
  BY WeightFacts
<1>9. PICK wn \in Nat : wn = Weight(n)
  BY WeightFacts
<1>10. j + n \in Nat /\ Weight(j + n) = w * wn
  BY <1>8, <1>9, WeightsMultiply
<1>11. Low(u, (j + n) + 1) = Low(u, j + n) + h * (w * wn)
  BY <1>1, <1>4, <1>10, LowFacts
<1>12. Low(u, (j + n) + 1) = (low + lw * w) + h * (w * wn)
  BY <1>3, <1>6, <1>7, <1>8, <1>11, Zenon
<1>13. (low + lw * w) + h * (w * wn) = low + (lw + h * wn) * w
  OBVIOUS
<1>14. PICK xx \in Nat : xx = lw + h * wn
  OBVIOUS
<1>15. WindowOf(u, j, n, Low(u, (j + n) + 1), low, xx, window, h)
  BY <1>2, <1>4, <1>6, <1>7, <1>8, <1>9, <1>12, <1>13, <1>14, Zenon DEF WindowOf
<1> QED
  BY <1>15

(* The state of the division after a number of its turns. *)
Remains(u, p, n) == LimbAt(u, p + n + 1) = 0
Stages(whole, v, n, places, k) ==
  {state \in [u : Buffer(places + n), digits : Buffer(k)] :
     /\ Stage(whole, Low(v, n), Low(state.u, places - k + n), Low(state.digits, k), places - k, n)
     /\ k # 0 => Remains(state.u, places - k, n)}
WithDigit(digits, step) == [u |-> step.u, digits |-> <<step.digit>> \o digits]
DivisionTurn(v, state, position) == WithDigit(state.digits, QuotientDigit(state.u, v, position - 1))

(* A turn of the division brings one digit. *)
LEMMA DivisionTurnExact ==
  ASSUME NEW n \in Nat, n >= 2, NEW v \in Buffer(n), 2 * v[n] >= Base,
         NEW places \in Nat, NEW whole \in Nat,
         NEW k \in 0 .. places - 1, NEW state \in Stages(whole, v, n, places, k)
  PROVE  DivisionTurn(v, state, places + 1 - (k + 1)) \in Stages(whole, v, n, places, k + 1)
<1>1. PICK N \in Nat : N = places + n
  OBVIOUS
<1>2. k \in Nat /\ k <= places - 1
  OBVIOUS
<1>3. PICK j \in Nat : /\ j = places - (k + 1) /\ places - k = j + 1 /\ places - k + n = (j + n) + 1
                       /\ (j + n) + 1 <= N /\ (places + 1 - (k + 1)) - 1 = j
                       /\ places - (k + 1) + n = j + n /\ places - (k + 1) + n + 1 = (j + n) + 1
  BY <1>1, <1>2
<1>4. PICK u \in Buffer(N), digits \in Buffer(k) : state = [u |-> u, digits |-> digits]
  BY <1>1 DEF Stages
<1>5. state.u = u /\ state.digits = digits
  BY <1>4
<1>6. Stage(whole, Low(v, n), Low(u, (j + n) + 1), Low(digits, k), j + 1, n)
  <2>1. Stage(whole, Low(v, n), Low(state.u, places - k + n), Low(state.digits, k), places - k, n)
    BY Zenon DEF Stages
  <2> QED
    BY <1>3, <1>5, <2>1, Zenon
<1>7. PICK low \in Nat, xx \in Nat : \E window, h : WindowOf(u, j, n, Low(u, (j + n) + 1), low, xx, window, h)
  BY <1>3, WindowFound
<1>34. PICK window, h : WindowOf(u, j, n, Low(u, (j + n) + 1), low, xx, window, h)
  BY <1>7
<1>8. /\ Slice(window, u, j, n) /\ h = u[(j + n) + 1]
      /\ xx = Low(window, n) + h * Weight(n)
      /\ low = Low(u, j) /\ Low(u, (j + n) + 1) = low + xx * Weight(j)
  BY <1>34, Zenon DEF WindowOf
<1>9. u \in Limbs /\ digits \in Limbs /\ v \in Limbs
  BY DEF Buffer
<1>10. PICK vv \in Nat : vv = Low(v, n)
  BY <1>9, LowType
<1>11. PICK w \in Nat : w = Weight(j) /\ w >= 1 /\ Weight(j + 1) = Base * w
  BY WeightFacts
<1>12. PICK base \in Nat : base = Base
  BY BaseFacts
<1>13. PICK lower \in Nat : lower = Low(u, (j + n) + 1)
  <2>1. (j + n) + 1 \in Nat
    OBVIOUS
  <2> QED
    BY <1>9, <2>1, LowType
<1>14. PICK d \in Nat : d = Low(digits, k)
  BY <1>2, <1>9, LowType
<1>15. low < w
  BY <1>8, <1>9, <1>11, LowBounded
<1>16. /\ whole = (vv * d) * (base * w) + lower /\ lower < vv * (base * w)
       /\ lower = low + xx * w
  BY <1>6, <1>8, <1>10, <1>11, <1>12, <1>13, <1>14, Zenon DEF Stage
<1>17. xx < base * vv
  BY <1>11, <1>16, WindowBelow
<1>18. Windowed(u, v, j, n, N, window, h, xx)
  BY <1>3, <1>8, <1>10, <1>12, <1>17, Zenon DEF Windowed
<1>19. PICK digit \in Limb, t \in Buffer(N), r \in Nat : DigitIs(digit, t, r, xx, u, v, j, n)
  BY <1>18, QuotientDigitExact
<1>20. /\ QuotientDigit(u, v, j) = [u |-> t, digit |-> digit]
       /\ xx = digit * vv + r /\ r < vv
       /\ Low(t, j + n) = low + r * w
       /\ LimbAt(t, (j + n) + 1) = 0
  BY <1>8, <1>10, <1>11, <1>19, Zenon DEF DigitIs
<1>21. PICK after \in Nat : after = Low(t, j + n)
  <2>1. t \in Limbs /\ j + n \in Nat
    BY DEF Buffer
  <2> QED
    BY <2>1, LowType
<1>22. digit \in Nat
  BY <1>12 DEF Limb
<1>23. whole = (vv * (digit + base * d)) * w + after /\ after < vv * w
  <2>1. after = low + r * w
    BY <1>20, <1>21
  <2>2. whole = (vv * d) * (base * w) + (low + xx * w)
    BY <1>16, Zenon
  <2> QED
    BY <1>15, <1>20, <1>22, <2>1, <2>2, StageMoves
<1>24. PICK more : more = <<digit>> \o digits
  OBVIOUS
<1>25. more \in Buffer(k + 1) /\ Low(more, k + 1) = digit + base * d
  BY <1>2, <1>12, <1>14, <1>24, LowPrepend
<1>26. Stage(whole, Low(v, n), Low(t, j + n), Low(more, k + 1), j, n)
  BY <1>10, <1>11, <1>21, <1>23, <1>25, Zenon DEF Stage
<1>27. PICK next : next = [u |-> t, digits |-> more]
  OBVIOUS
<1>28. next.u = t /\ next.digits = more /\ next \in [u : Buffer(N), digits : Buffer(k + 1)]
  BY <1>25, <1>27
<1>29. DivisionTurn(v, state, places + 1 - (k + 1)) = next
  <2>1. PICK step : step = QuotientDigit(u, v, j)
    OBVIOUS
  <2>2. step.u = t /\ step.digit = digit
    BY <1>20, <2>1
  <2>3. DivisionTurn(v, state, places + 1 - (k + 1)) = WithDigit(digits, step)
    BY <1>3, <1>5, <2>1, Zenon DEF DivisionTurn
  <2> QED
    BY <1>24, <1>27, <2>2, <2>3, Zenon DEF WithDigit
<1>30. Remains(next.u, places - (k + 1), n)
  BY <1>3, <1>20, <1>28, Zenon DEF Remains
<1>31. Stage(whole, Low(v, n), Low(next.u, places - (k + 1) + n), Low(next.digits, k + 1), places - (k + 1), n)
  BY <1>3, <1>26, <1>28, Zenon
<1>32. next \in [u : Buffer(places + n), digits : Buffer(k + 1)]
  BY <1>1, <1>28, Zenon
<1>33. next \in Stages(whole, v, n, places, k + 1)
  BY <1>30, <1>31, <1>32, Zenon DEF Stages
<1> QED
  BY <1>29, <1>33, Zenon

(* A loop whose turns lead from each set of states to the next runs to its end. *)
Staged(f, n, S, start, B) ==
  /\ f = [k \in 0 .. n |-> f[k]] /\ f[0] = start
  /\ \A k \in 0 .. n : f[k] \in S[k]
  /\ \A i \in 1 .. n : f[i] = B[i][f[i - 1]]

(* Each turn may count on the stage the one before it reached. *)
LEMMA IteratesInStages ==
  ASSUME NEW n \in Nat, NEW S, NEW start \in S[0], NEW B,
         \A i \in 1 .. n : \A r \in S[i - 1] : B[i][r] \in S[i]
  PROVE  \E f : Staged(f, n, S, start, B)
<1> DEFINE R == UNION {S[k] : k \in 0 .. n}
           T == [i \in 1 .. n |-> [r \in R |-> IF r \in S[i - 1] THEN B[i][r] ELSE r]]
<1>1. \A k \in 0 .. n : S[k] \subseteq R
  OBVIOUS
<1>2. \A i \in 1 .. n : i \in 0 .. n /\ i - 1 \in 0 .. n
  OBVIOUS
<1>3. start \in R
  BY <1>1
<1> HIDE DEF R
<1>4. \A i \in 1 .. n, r \in R : (IF r \in S[i - 1] THEN B[i][r] ELSE r) \in R
  <2> SUFFICES ASSUME NEW i \in 1 .. n, NEW r \in R PROVE (IF r \in S[i - 1] THEN B[i][r] ELSE r) \in R
    OBVIOUS
  <2>1. r \in S[i - 1] => B[i][r] \in R
    BY <1>1, <1>2, Zenon
  <2> QED
    BY <2>1, Zenon
<1>5. T \in Turns(n, R)
  BY <1>4, Zenon DEF Turns
<1>6. \A i \in 1 .. n, r \in R : T[i][r] = IF r \in S[i - 1] THEN B[i][r] ELSE r
  BY Zenon
<1> HIDE DEF T
<1>7. PICK f : Course(f, n, R, start, T)
  BY <1>3, <1>5, Iterates
<1>8. f \in [0 .. n -> R] /\ f[0] = start /\ \A i \in 1 .. n : f[i] = T[i][f[i - 1]]
  BY <1>7, Zenon DEF Course
<1> DEFINE C == {k \in 0 .. n : f[k] \in S[k]}
<1>9. 0 \in C
  BY <1>8
<1>10. \A i \in 1 .. n : f[i - 1] \in S[i - 1] => f[i] = B[i][f[i - 1]]
  <2> SUFFICES ASSUME NEW i \in 1 .. n, f[i - 1] \in S[i - 1] PROVE f[i] = B[i][f[i - 1]]
    OBVIOUS
  <2>1. f[i - 1] \in R
    BY <1>2, <1>8, Zenon
  <2> QED
    BY <1>6, <1>8, <2>1, Zenon
<1>11. ASSUME NEW k \in 0 .. n - 1, k \in C PROVE k + 1 \in C
  <2>1. k + 1 \in 1 .. n /\ k + 1 \in 0 .. n /\ (k + 1) - 1 = k
    OBVIOUS
  <2>2. f[k] \in S[k]
    BY <1>11
  <2> HIDE DEF C
  <2>3. f[(k + 1) - 1] \in S[(k + 1) - 1]
    BY <2>1, <2>2, Zenon
  <2>4. f[k + 1] \in S[k + 1]
    BY <1>10, <2>1, <2>3, Zenon
  <2> QED
    BY <2>1, <2>4 DEF C
<1>12. \A k \in 0 .. n : k \in C
  <2> HIDE DEF C
  <2> QED
    BY <1>9, <1>11, Induction
<1>13. \A k \in 0 .. n : f[k] \in S[k]
  BY <1>12
<1> HIDE DEF C
<1>14. \A i \in 1 .. n : f[i] = B[i][f[i - 1]]
  BY <1>2, <1>10, <1>13, Zenon
<1>15. f = [k \in 0 .. n |-> f[k]]
  BY <1>8
<1>16. Staged(f, n, S, start, B)
  BY <1>8, <1>13, <1>14, <1>15, Zenon DEF Staged
<1> QED
  BY <1>16

(* f is what the loop over the places has come to after i turns. *)
DivisionCourse(f, u, v, n) ==
  f = [i \in 0 .. n |-> IF i = 0 THEN [u |-> u, digits |-> <<>>]
                        ELSE DivisionTurn(v, f[i - 1], n + 1 - i)]
DivisionLoop(u, v, n) == (CHOOSE f : DivisionCourse(f, u, v, n))[n]

(* The digits, and what is left. *)
LEMMA DivisionStages ==
  ASSUME NEW n \in Nat, n >= 2, NEW v \in Buffer(n), 2 * v[n] >= Base,
         NEW places \in Nat, NEW whole \in Nat, NEW u,
         [u |-> u, digits |-> <<>>] \in Stages(whole, v, n, places, 0)
  PROVE  DivisionLoop(u, v, places) \in Stages(whole, v, n, places, places)
<1> DEFINE start == [u |-> u, digits |-> <<>>]
           S == [k \in 0 .. places |-> Stages(whole, v, n, places, k)]
           B == [i \in 1 .. places |-> [r \in S[i - 1] |-> DivisionTurn(v, r, places + 1 - i)]]
<1>1. \A k \in 0 .. places : S[k] = Stages(whole, v, n, places, k)
  BY Zenon
<1>2. \A i \in 1 .. places : \A r \in S[i - 1] : B[i][r] = DivisionTurn(v, r, places + 1 - i)
  BY Zenon
<1>3. start \in S[0]
  <2>1. 0 \in 0 .. places
    OBVIOUS
  <2> HIDE DEF S
  <2> QED
    BY <1>1, <2>1, Zenon
<1> HIDE DEF start, S, B
<1>4. ASSUME NEW i \in 1 .. places, NEW r \in S[i - 1] PROVE B[i][r] \in S[i]
  <2>1. PICK k \in 0 .. places - 1 : k = i - 1 /\ i = k + 1
    OBVIOUS
  <2>2. k \in 0 .. places /\ k + 1 \in 0 .. places
    OBVIOUS
  <2>3. r \in Stages(whole, v, n, places, k)
    BY <1>1, <2>1, <2>2, Zenon
  <2>4. DivisionTurn(v, r, places + 1 - (k + 1)) \in Stages(whole, v, n, places, k + 1)
    BY <2>3, DivisionTurnExact
  <2> QED
    BY <1>1, <1>2, <2>1, <2>2, <2>4, Zenon
<1>5. PICK f : Staged(f, places, S, start, B)
  BY <1>3, <1>4, IteratesInStages
<1>6. /\ f = [k \in 0 .. places |-> f[k]] /\ f[0] = start
      /\ \A k \in 0 .. places : f[k] \in S[k]
      /\ \A i \in 1 .. places : f[i] = B[i][f[i - 1]]
  BY <1>5, Zenon DEF Staged
<1>7. \A i \in 0 .. places : i # 0 => i \in 1 .. places /\ i - 1 \in 0 .. places
  OBVIOUS
<1>8. \A i \in 0 .. places : f[i] = IF i = 0 THEN start ELSE DivisionTurn(v, f[i - 1], places + 1 - i)
  <2> SUFFICES ASSUME NEW i \in 0 .. places, i # 0 PROVE f[i] = DivisionTurn(v, f[i - 1], places + 1 - i)
    BY <1>6, Zenon
  <2> QED
    BY <1>2, <1>6, <1>7, Zenon
<1>9. f = [i \in 0 .. places |-> IF i = 0 THEN start ELSE DivisionTurn(v, f[i - 1], places + 1 - i)]
  BY <1>6, <1>8, Zenon
<1>10. DivisionCourse(f, u, v, places)
  BY <1>9, Zenon DEF DivisionCourse, start
<1>11. PICK g : g = CHOOSE h : DivisionCourse(h, u, v, places)
  OBVIOUS
<1>12. DivisionCourse(g, u, v, places) /\ DivisionLoop(u, v, places) = g[places]
  BY <1>10, <1>11, Zenon DEF DivisionLoop
<1>13. \A i \in 0 .. places : g[i] = IF i = 0 THEN start ELSE DivisionTurn(v, g[i - 1], places + 1 - i)
  <2>1. g = [i \in 0 .. places |-> IF i = 0 THEN start ELSE DivisionTurn(v, g[i - 1], places + 1 - i)]
    BY <1>12, Zenon DEF DivisionCourse, start
  <2> QED
    BY <2>1, Zenon
<1> DEFINE C == {k \in 0 .. places : g[k] = f[k]}
<1>14. 0 \in C
  <2>1. 0 \in 0 .. places
    OBVIOUS
  <2> QED
    BY <1>6, <1>13, <2>1, Zenon
<1>15. ASSUME NEW k \in 0 .. places - 1, k \in C PROVE k + 1 \in C
  <2>1. k + 1 \in 0 .. places /\ k + 1 # 0 /\ (k + 1) - 1 = k
    OBVIOUS
  <2>2. g[k] = f[k]
    BY <1>15
  <2>3. g[k + 1] = f[k + 1]
    BY <1>8, <1>13, <2>1, <2>2, Zenon
  <2> QED
    BY <2>1, <2>3
<1>16. \A k \in 0 .. places : k \in C
  <2> HIDE DEF C
  <2> QED
    BY <1>14, <1>15, Induction
<1>17. places \in 0 .. places
  OBVIOUS
<1>18. g[places] = f[places]
  BY <1>16, <1>17
<1> QED
  BY <1>1, <1>6, <1>12, <1>17, <1>18, Zenon

(* What LongDivision returns: trimmed digits, and the window shifted back. *)
Unshifted(u, n, shift) ==
  [i \in 1 .. n |-> u[i] \div TwoTo[shift]
     + IF shift = 0 THEN 0 ELSE (u[i + 1] * TwoTo[LimbBits - shift]) % Base]
DivisionResult(state, n, shift) ==
  [quotient |-> Trimmed(state.digits), remainder |-> Trimmed(Unshifted(state.u, n, shift))]
TopWidth(x) == CHOOSE w \in 1 .. LimbBits : TwoTo[w - 1] <= x /\ x < TwoTo[w]

(* The loop of LongDivision. *)
LEMMA DivisionLoopUnfolded ==
  ASSUME NEW u, NEW v, NEW n
  PROVE  LoopDown(n, [u |-> u, digits |-> <<>>], LAMBDA state, position :
             [u |-> QuotientDigit(state.u, v, position - 1).u,
              digits |-> <<QuotientDigit(state.u, v, position - 1).digit>> \o state.digits])
           = DivisionLoop(u, v, n)
  BY Zenon DEF LoopDown, Loop, DivisionLoop, DivisionCourse, DivisionTurn, WithDigit

(* LongDivision, in these terms. *)
LEMMA LongDivisionUnfolded ==
  ASSUME NEW a, NEW b, NEW shift, shift = LimbBits - TopWidth(b[Len(b)])
  PROVE  LongDivision(a, b)
           = DivisionResult(DivisionLoop(ShiftedLimbs(a, shift), SubSeq(ShiftedLimbs(b, shift), 1, Len(b)),
                                         Len(a) - Len(b) + 1),
                            Len(b), shift)
<1> DEFINE v == SubSeq(ShiftedLimbs(b, LimbBits - TopWidth(b[Len(b)])), 1, Len(b))
<1>1. LongDivision(a, b)
        = DivisionResult(
            LoopDown(Len(a) - Len(b) + 1, [u |-> ShiftedLimbs(a, LimbBits - TopWidth(b[Len(b)])), digits |-> <<>>],
              LAMBDA state, position :
                [u |-> QuotientDigit(state.u, v, position - 1).u,
                 digits |-> <<QuotientDigit(state.u, v, position - 1).digit>> \o state.digits]),
            Len(b), LimbBits - TopWidth(b[Len(b)]))
  BY Zenon DEF LongDivision, DivisionResult, Unshifted, TopWidth
<1> HIDE DEF v
<1>2. LongDivision(a, b)
        = DivisionResult(DivisionLoop(ShiftedLimbs(a, LimbBits - TopWidth(b[Len(b)])), v, Len(a) - Len(b) + 1),
                         Len(b), LimbBits - TopWidth(b[Len(b)]))
  BY <1>1, DivisionLoopUnfolded, Zenon
<1> QED
  BY <1>2, Zenon DEF v

(* What a shift to the right leaves out of a limb. *)
Kept(y, p) == y % p

(* What is kept and what is spilled are the two parts of a limb that is split. *)
LEMMA KeptIs ==
  ASSUME NEW p \in Nat, p >= 1, NEW q \in Nat, NEW e \in Nat, NEW f \in Nat, NEW y, SplitBy(y, q, p, e, f)
  PROVE  Kept(y, p) = f /\ Spilled(y, p) = e /\ (y * q) % Base = f * q /\ y = p * e + f /\ f < p
<1>1. e \in 0 .. q - 1 /\ f \in 0 .. p - 1 /\ y = p * e + f /\ y \div p = e /\ (y * q) % Base = f * q
  BY Zenon DEF SplitBy
<1>2. f < p /\ 0 <= f /\ y \in Int /\ p > 0
  BY <1>1
<1>3. y % p = f
  BY <1>1, <1>2, DivisionIs
<1> QED
  BY <1>1, <1>2, <1>3, Zenon DEF Kept, Spilled

(* Nothing is left out of nothing. *)
LEMMA KeptOfZero ==
  ASSUME NEW p \in Nat, p >= 1
  PROVE  Kept(0, p) = 0
<1>1. PICK z \in Int : z = 0
  OBVIOUS
<1>2. z = p * z + z /\ 0 <= z /\ z < p /\ p > 0
  BY <1>1
<1>3. z % p = z
  BY <1>2, DivisionIs
<1> QED
  BY <1>1, <1>3, Zenon DEF Kept

(* Limbs shifted to the right: one place. *)
UnshiftPlace(low, f1, f, e, f2, p, q, lows, w, base) ==
  p * low + f1 = lows + f * w
    => p * (low + (f2 * q + e) * w) + f1 = (lows + (p * e + f) * w) + f2 * (base * w)

(* A place that is shifted back carries the quotient one place further. *)
LEMMA UnshiftedPlace ==
  ASSUME NEW low \in Nat, NEW f1 \in Nat, NEW f \in Nat, NEW e \in Nat, NEW f2 \in Nat, NEW p \in Nat,
         NEW q \in Nat, NEW lows \in Nat, NEW w \in Nat
  PROVE  UnshiftPlace(low, f1, f, e, f2, p, q, lows, w, p * q)
<1>1. p * (low + (f2 * q + e) * w) = p * low + (f2 * ((p * q) * w) + (p * e) * w)
  OBVIOUS
<1>2. (p * e + f) * w = (p * e) * w + f * w
  OBVIOUS
<1>3. PICK z \in Nat : z = f2 * ((p * q) * w)
  OBVIOUS
<1>4. PICK x \in Nat : x = (p * e) * w
  OBVIOUS
<1>5. PICK y \in Nat : y = f * w
  OBVIOUS
<1>6. PICK m \in Nat : m = p * low
  OBVIOUS
<1>7. m + f1 = lows + y => (m + (z + x)) + f1 = (lows + (x + y)) + z
  OBVIOUS
<1>8. p * low + f1 = lows + f * w
        => p * (low + (f2 * q + e) * w) + f1 = (lows + (p * e + f) * w) + f2 * ((p * q) * w)
  BY <1>1, <1>2, <1>3, <1>4, <1>5, <1>6, <1>7, Zenon
<1> QED
  BY <1>8, Zenon DEF UnshiftPlace

(* A multiple and what is left out below it. *)
LEMMA MultipleLeft ==
  ASSUME NEW p \in Nat, p >= 1, NEW m \in Nat, NEW n \in Nat, NEW f \in Nat, f < p, p * m + f = p * n
  PROVE  m = n
<1>1. CASE m < n
  <2>1. (m + 1) * p <= n * p
    BY <1>1, TimesMonotone
  <2>2. (m + 1) * p = p * m + p /\ n * p = p * n /\ p * m \in Int /\ p * n \in Int
    OBVIOUS
  <2> QED
    BY <2>1, <2>2
<1>2. CASE n < m
  <2>1. (n + 1) * p <= m * p
    BY <1>2, TimesMonotone
  <2>2. (n + 1) * p = p * n + p /\ m * p = p * m /\ p * m \in Int /\ p * n \in Int
    OBVIOUS
  <2> QED
    BY <2>1, <2>2
<1> QED
  BY <1>1, <1>2

(* Each limb of what is shifted back. *)
LEMMA UnshiftedLimbs ==
  ASSUME NEW n \in Nat, NEW N \in Nat, n + 1 <= N, NEW u \in Buffer(N),
         NEW shift \in 0 .. LimbBits, NEW p, NEW q, Shifts(shift, p, q), NEW r, r = Unshifted(u, n, shift)
  PROVE  /\ r \in Buffer(n)
         /\ \A i \in 1 .. n : r[i] = ShiftedLimb(LimbAt(u, i + 1), LimbAt(u, i), q, p)
<1>1. /\ p \in Nat /\ p >= 1 /\ q \in Nat /\ q >= 1 /\ p * q = Base
      /\ p = TwoTo[shift] /\ q = TwoTo[LimbBits - shift]
  BY DEF Shifts
<1>2. u \in Limbs /\ Len(u) = N
  BY DEF Buffer
<1>3. Shifts(LimbBits - shift, q, p)
  <2>1. LimbBits - (LimbBits - shift) = shift
    BY BigIntAssumption
  <2>2. q * p = p * q
    BY <1>1
  <2> QED
    BY <1>1, <2>1, <2>2, Zenon DEF Shifts
<1>4. ASSUME NEW y \in Limb
      PROVE  (IF shift = 0 THEN 0 ELSE (y * TwoTo[LimbBits - shift]) % Base) = (y * q) % Base
  <2>1. CASE shift = 0
    <3>1. PICK base \in Nat : base = Base /\ base >= 4
      BY BaseFacts
    <3>2. q = base
      <4>1. LimbBits - shift = LimbBits
        BY <2>1, BigIntAssumption
      <4> QED
        BY <1>1, <3>1, <4>1, BigIntAssumption
    <3>3. y \in Int
      BY <3>1 DEF Limb
    <3>4. PICK z \in Int : z = 0
      OBVIOUS
    <3>5. y * base \in Int /\ y * base = base * y + z /\ 0 <= z /\ z < base /\ base > 0
      BY <3>1, <3>3, <3>4
    <3>6. (y * base) % base = z
      BY <3>1, <3>3, <3>5, DivisionIs
    <3> QED
      BY <2>1, <3>1, <3>2, <3>4, <3>6, Zenon
  <2>2. CASE shift # 0
    BY <1>1, <2>2, Zenon
  <2> QED
    BY <2>1, <2>2
<1>5. \A i \in 1 .. n : i \in 1 .. N /\ i + 1 \in 1 .. N /\ i \in Int /\ i + 1 \in Int
  OBVIOUS
<1>6. \A i \in 1 .. N : LimbAt(u, i) = u[i]
  BY <1>2, LimbAtPlace
<1>7. ASSUME NEW i \in 1 .. n
      PROVE  /\ u[i] \div TwoTo[shift] + (IF shift = 0 THEN 0 ELSE (u[i + 1] * TwoTo[LimbBits - shift]) % Base)
                  = ShiftedLimb(LimbAt(u, i + 1), LimbAt(u, i), q, p)
             /\ ShiftedLimb(LimbAt(u, i + 1), LimbAt(u, i), q, p) \in Limb
  <2>1. u[i] = LimbAt(u, i) /\ u[i + 1] = LimbAt(u, i + 1)
    BY <1>5, <1>6, Zenon
  <2>2. LimbAt(u, i) \in Limb /\ LimbAt(u, i + 1) \in Limb
    BY <1>2, <1>5, LimbAtType
  <2>3. (IF shift = 0 THEN 0 ELSE (u[i + 1] * TwoTo[LimbBits - shift]) % Base) = (LimbAt(u, i + 1) * q) % Base
    BY <1>4, <2>1, <2>2, Zenon
  <2>4. PICK x \in Int : x = (LimbAt(u, i + 1) * q) % Base
    BY <1>1, <2>2, BaseFacts DEF Limb
  <2>5. PICK y \in Int : y = LimbAt(u, i) \div p
    BY <1>1, <2>2, BaseFacts, DivisionOf DEF Limb
  <2>6. y + x = x + y
    OBVIOUS
  <2>7. ShiftedLimb(LimbAt(u, i + 1), LimbAt(u, i), q, p) = x + y
    BY <2>4, <2>5, Zenon DEF ShiftedLimb, Spilled
  <2>8. u[i] \div TwoTo[shift] = y
    BY <1>1, <2>1, <2>5, Zenon
  <2>9. ShiftedLimb(LimbAt(u, i + 1), LimbAt(u, i), q, p) \in Limb
    BY <1>3, <2>2, ShiftedLimbType
  <2> QED
    BY <2>3, <2>4, <2>6, <2>7, <2>8, <2>9, Zenon
<1>8. r = [i \in 1 .. n |-> ShiftedLimb(LimbAt(u, i + 1), LimbAt(u, i), q, p)]
  BY <1>7, Zenon DEF Unshifted
<1>9. \A i \in 1 .. n : r[i] = ShiftedLimb(LimbAt(u, i + 1), LimbAt(u, i), q, p)
  BY <1>8, Zenon
<1>10. r \in [1 .. n -> Limb]
  BY <1>7, <1>8, Zenon
<1>11. r \in Buffer(n)
  BY <1>8, <1>10 DEF Buffer, Limbs
<1> QED
  BY <1>9, <1>11

(* What is shifted back is what was shifted. *)
LEMMA UnshiftedExact ==
  ASSUME NEW n \in Nat, NEW N \in Nat, n + 1 <= N, NEW u \in Buffer(N),
         NEW shift \in 0 .. LimbBits, NEW p, NEW q, Shifts(shift, p, q), NEW r, r = Unshifted(u, n, shift),
         LimbAt(u, n + 1) = 0, NEW rem \in Nat, Low(u, n) = p * rem
  PROVE  r \in Buffer(n) /\ Low(r, n) = rem
<1>1. p \in Nat /\ p >= 1 /\ q \in Nat /\ q >= 1 /\ p * q = Base /\ q * p = Base
  BY DEF Shifts
<1>2. u \in Limbs /\ Len(u) = N
  BY DEF Buffer
<1>3. /\ r \in Buffer(n)
      /\ \A i \in 1 .. n : r[i] = ShiftedLimb(LimbAt(u, i + 1), LimbAt(u, i), q, p)
  BY UnshiftedLimbs
<1>4. r \in Limbs /\ Len(r) = n
  BY <1>3 DEF Buffer
<1>5. ASSUME NEW i \in Nat PROVE \E e \in Nat, f \in Nat : SplitBy(LimbAt(u, i), q, p, e, f)
  <2>1. LimbAt(u, i) \in Limb
    BY <1>2, LimbAtType
  <2> QED
    BY <1>1, <2>1, ShiftSplit
<1>6. PICK f1 \in Nat : f1 = Kept(LimbAt(u, 1), p) /\ f1 < p
  <2>1. PICK e \in Nat, f \in Nat : SplitBy(LimbAt(u, 1), q, p, e, f)
    BY <1>5
  <2>2. Kept(LimbAt(u, 1), p) = f /\ f < p
    BY <1>1, <2>1, KeptIs
  <2> QED
    BY <2>2
<1> DEFINE C == {k \in 0 .. n : p * Low(r, k) + f1 = Low(u, k) + Kept(LimbAt(u, k + 1), p) * Weight(k)}
<1>7. 0 \in C
  <2>1. Low(r, 0) = 0 /\ Low(u, 0) = 0 /\ Weight(0) = 1
    BY <1>2, <1>4, LowFacts, WeightFacts
  <2>2. p * 0 + f1 = 0 + f1 * 1
    BY <1>1
  <2>3. 0 + 1 = 1 /\ 0 \in 0 .. n
    OBVIOUS
  <2>4. p * Low(r, 0) + f1 = Low(u, 0) + Kept(LimbAt(u, 0 + 1), p) * Weight(0)
    BY <1>6, <2>1, <2>2, <2>3, Zenon
  <2> QED
    BY <2>3, <2>4
<1>8. ASSUME NEW k \in 0 .. n - 1, k \in C PROVE k + 1 \in C
  <2>1. p * Low(r, k) + f1 = Low(u, k) + Kept(LimbAt(u, k + 1), p) * Weight(k)
    BY <1>8
  <2> HIDE DEF C
  <2>2. k \in Nat /\ k + 1 \in 1 .. n /\ k + 1 \in 0 .. n /\ k + 1 \in Nat /\ (k + 1) + 1 \in Nat
    OBVIOUS
  <2>3. PICK y1 \in Nat : y1 = LimbAt(u, k + 1)
    BY <1>2, <2>2, LimbAtType
  <2>4. PICK y2 \in Nat : y2 = LimbAt(u, (k + 1) + 1)
    BY <1>2, <2>2, LimbAtType
  <2>5. PICK e \in Nat, f \in Nat : SplitBy(y1, q, p, e, f)
    BY <1>5, <2>2, <2>3
  <2>6. PICK e2 \in Nat, f2 \in Nat : SplitBy(y2, q, p, e2, f2)
    BY <1>5, <2>2, <2>4
  <2>7. Kept(y1, p) = f /\ Spilled(y1, p) = e /\ y1 = p * e + f
    BY <1>1, <2>5, KeptIs
  <2>8. Kept(y2, p) = f2 /\ (y2 * q) % Base = f2 * q
    BY <1>1, <2>6, KeptIs
  <2>9. r[k + 1] = f2 * q + e
    BY <1>3, <2>2, <2>3, <2>4, <2>7, <2>8, Zenon DEF ShiftedLimb
  <2>10. LimbAt(r, k + 1) = f2 * q + e
    BY <1>4, <2>2, <2>9, LimbAtPlace
  <2>11. PICK w \in Nat : w = Weight(k) /\ Weight(k + 1) = Base * w
    BY <2>2, WeightFacts
  <2>12. PICK low \in Nat : low = Low(r, k) /\ Low(r, k + 1) = low + LimbAt(r, k + 1) * w
    BY <1>4, <2>2, <2>11, LowFacts
  <2>13. PICK lows \in Nat : lows = Low(u, k) /\ Low(u, k + 1) = lows + y1 * w
    BY <1>2, <2>2, <2>3, <2>11, LowFacts
  <2>14. UnshiftPlace(low, f1, f, e, f2, p, q, lows, w, p * q)
    BY <1>1, UnshiftedPlace
  <2>15. p * low + f1 = lows + f * w
    BY <2>1, <2>3, <2>7, <2>11, <2>12, <2>13, Zenon
  <2>16. p * (low + (f2 * q + e) * w) + f1 = (lows + (p * e + f) * w) + f2 * (Base * w)
    BY <1>1, <2>14, <2>15, Zenon DEF UnshiftPlace
  <2>17. p * Low(r, k + 1) + f1 = Low(u, k + 1) + Kept(LimbAt(u, (k + 1) + 1), p) * Weight(k + 1)
    BY <2>4, <2>7, <2>8, <2>10, <2>11, <2>12, <2>13, <2>16, Zenon
  <2> QED
    BY <2>2, <2>17 DEF C
<1>9. n \in C
  <2> HIDE DEF C
  <2>1. \A k \in 0 .. n : k \in C
    BY <1>7, <1>8, Induction
  <2> QED
    BY <2>1
<1>10. p * Low(r, n) + f1 = Low(u, n) + Kept(LimbAt(u, n + 1), p) * Weight(n)
  BY <1>9
<1> HIDE DEF C
<1>11. Kept(LimbAt(u, n + 1), p) = 0
  BY <1>1, KeptOfZero
<1>12. PICK m \in Nat : m = Low(r, n)
  BY <1>4, LowType
<1>13. p * m + f1 = p * rem
  <2>1. PICK w \in Nat : w = Weight(n)
    BY WeightFacts
  <2>2. p * m + f1 = p * rem + 0 * w
    BY <1>10, <1>11, <1>12, <2>1, Zenon
  <2>3. 0 * w = 0 /\ p * rem \in Int
    BY <1>1
  <2> QED
    BY <2>2, <2>3
<1>14. m = rem
  BY <1>1, <1>6, <1>13, MultipleLeft
<1> QED
  BY <1>3, <1>12, <1>14

(* The limbs that are shifted stand for the product. *)
LEMMA DividendShifted ==
  ASSUME NEW a \in Limbs, NEW m \in Nat, m = Len(a), NEW shift, NEW p, NEW q, Shifts(shift, p, q),
         NEW t, t = ShiftedLimbs(a, shift)
  PROVE  t \in Buffer(m + 1) /\ Low(t, m + 1) = p * Low(a, m)
<1>1. p \in Nat /\ q \in Nat /\ q >= 1
  BY DEF Shifts
<1>2. /\ t \in Buffer(m + 1)
      /\ \A k \in 0 .. m + 1 : Low(t, k) + Spilled(LimbAt(a, k), q) * Weight(k) = p * Low(a, k)
  BY ShiftedLimbsExact
<1>3. m + 1 \in 0 .. m + 1 /\ m + 1 \in Nat /\ m + 1 \in Int /\ m + 1 > Len(a) /\ Len(a) <= m + 1
  OBVIOUS
<1>4. LimbAt(a, m + 1) = 0 /\ Low(a, m + 1) = Low(a, m)
  BY <1>3, LimbAtPlace, LowBeyond
<1>5. Spilled(0, q) = 0
  <2>1. PICK z \in Int : z = 0
    OBVIOUS
  <2>2. z = q * z + z /\ 0 <= z /\ z < q /\ q > 0
    BY <1>1, <2>1
  <2>3. z \div q = z
    BY <1>1, <2>2, DivisionIs
  <2> QED
    BY <2>1, <2>3, Zenon DEF Spilled
<1>6. Low(t, m + 1) + 0 * Weight(m + 1) = p * Low(a, m)
  BY <1>2, <1>3, <1>4, <1>5, Zenon
<1>7. t \in Limbs
  BY <1>2 DEF Buffer
<1>8. Low(t, m + 1) \in Nat /\ Weight(m + 1) \in Nat
  BY <1>3, <1>7, LowType, WeightFacts
<1>9. Low(t, m + 1) = p * Low(a, m)
  BY <1>6, <1>8
<1> QED
  BY <1>2, <1>9

(* At first all of it is left to divide. *)
LEMMA FirstStage ==
  ASSUME NEW p \in Nat, p >= 1, NEW bottom \in Nat, NEW top \in Nat, NEW wn \in Nat, NEW wp \in Nat,
         wn <= bottom, top < wn * wp
  PROVE  p * top < (p * bottom) * wp
<1>1. PICK product \in Nat : product = wn * wp
  OBVIOUS
<1>2. PICK more \in Nat : more = bottom * wp
  OBVIOUS
<1>3. product <= more
  BY <1>1, <1>2, TimesMonotone
<1>4. (top + 1) * p <= more * p
  BY <1>1, <1>3, TimesMonotone
<1>5. (top + 1) * p = p * top + p /\ more * p = (p * bottom) * wp /\ p * top \in Int
  <2>1. (bottom * wp) * p = (p * bottom) * wp
    OBVIOUS
  <2> QED
    BY <1>2, <2>1
<1> QED
  BY <1>4, <1>5

(* What is left at the end, shifted back. *)
LEMMA LastStage ==
  ASSUME NEW p \in Nat, p >= 1, NEW bottom \in Nat, NEW top \in Nat, NEW d \in Nat, NEW lower \in Nat,
         p * top = ((p * bottom) * d) * 1 + lower, lower < (p * bottom) * 1
  PROVE  \E rem \in Nat : lower = p * rem /\ top = d * bottom + rem /\ rem < bottom
<1>1. PICK rem \in Int : rem = top - d * bottom
  OBVIOUS
<1>2. p * rem = p * top - (p * bottom) * d
  <2>1. p * (top - d * bottom) = p * top - (p * bottom) * d
    OBVIOUS
  <2> QED
    BY <1>1, <2>1
<1>3. lower = p * rem
  <2>1. ((p * bottom) * d) * 1 = (p * bottom) * d /\ (p * bottom) * d \in Int /\ p * top \in Int
    OBVIOUS
  <2> QED
    BY <1>2, <2>1
<1>4. rem >= 0
  <2> SUFFICES ASSUME rem + 1 <= 0 PROVE FALSE
    BY <1>1
  <2>1. (rem + 1) * p <= 0 * p
    BY <1>1, TimesMonotone
  <2>2. (rem + 1) * p = p * rem + p /\ 0 * p = 0
    BY <1>1
  <2> QED
    BY <1>3, <2>1, <2>2
<1>5. rem < bottom
  <2> SUFFICES ASSUME bottom <= rem PROVE FALSE
    BY <1>1
  <2>1. bottom * p <= rem * p
    BY <1>1, TimesMonotone
  <2>2. bottom * p = (p * bottom) * 1 /\ rem * p = p * rem /\ bottom * p \in Int
    BY <1>1
  <2> QED
    BY <1>3, <2>1, <2>2
<1>6. top = d * bottom + rem
  <2>1. d * bottom \in Int
    OBVIOUS
  <2> QED
    BY <1>1, <2>1
<1> QED
  BY <1>1, <1>3, <1>4, <1>5, <1>6

(* A quotient and a remainder of magnitudes. *)
Divided(d, a, b) ==
  /\ d = [quotient |-> d.quotient, remainder |-> d.remainder]
  /\ Trim(d.quotient) /\ Trim(d.remainder)
  /\ Len(d.quotient) <= Len(a) /\ Len(d.remainder) <= Len(a)
  /\ MagnitudeOf(a) = MagnitudeOf(d.quotient) * MagnitudeOf(b) + MagnitudeOf(d.remainder)
  /\ MagnitudeOf(d.remainder) < MagnitudeOf(b)

(* LongDivision divides magnitudes. *)
LEMMA LongDivisionExact ==
  ASSUME NEW a, NEW b, Trim(a), Trim(b), Len(b) >= 2, Len(b) <= Len(a)
  PROVE  Divided(LongDivision(a, b), a, b)
<1>1. a \in Limbs /\ b \in Limbs
  BY DEF Trim
<1>2. PICK n \in Nat : n = Len(b) /\ n >= 2
  BY <1>1, LimbAtPlace
<1>3. PICK m \in Nat : m = Len(a) /\ n <= m
  BY <1>1, <1>2, LimbAtPlace
<1>4. b # <<>>
  BY <1>2
<1>5. PICK x \in Limb : x = b[n] /\ x # 0
  <2>1. n \in 1 .. Len(b) /\ b[Len(b)] # 0
    BY <1>2, <1>4, TrimTop
  <2> QED
    BY <1>1, <1>2, <2>1, ElementOfSeq DEF Limbs
<1>6. PICK w : w = TopWidth(x)
  OBVIOUS
<1>7. TopBits(x, w)
  <2>1. w = CHOOSE k \in 1 .. LimbBits : TwoTo[k - 1] <= x /\ x < TwoTo[k]
    BY <1>6, Zenon DEF TopWidth
  <2> QED
    BY <1>5, <2>1, TopBitsChosen
<1>8. PICK shift \in 0 .. LimbBits : shift = LimbBits - w
  <2>1. w \in 1 .. LimbBits
    BY <1>7 DEF TopBits
  <2>2. PICK L \in Nat : L = LimbBits
    BY BigIntAssumption
  <2>3. LimbBits - w \in 0 .. LimbBits
    BY <2>1, <2>2
  <2> QED
    BY <2>3
<1>9. PICK p \in Nat, q \in Nat : Shifts(shift, p, q)
  BY ShiftIs
<1>10. p >= 1
  BY <1>9 DEF Shifts
<1>11. b \in Buffer(n)
  BY <1>1, <1>2 DEF Buffer
<1>12. PICK v : v = SubSeq(ShiftedLimbs(b, shift), 1, n)
  OBVIOUS
<1>13. Normalized(v, b, n, p)
  <2>1. Shifts(LimbBits - w, p, q) /\ v = SubSeq(ShiftedLimbs(b, LimbBits - w), 1, n)
    BY <1>8, <1>9, <1>12, Zenon
  <2>2. n >= 1
    BY <1>2
  <2> QED
    BY <1>5, <1>7, <1>11, <2>1, <2>2, DivisorNormalized
<1>14. v \in Buffer(n) /\ 2 * v[n] >= Base /\ Low(v, n) = p * Low(b, n)
  BY <1>13, Zenon DEF Normalized
<1>15. PICK u0 : u0 = ShiftedLimbs(a, shift)
  OBVIOUS
<1>16. u0 \in Buffer(m + 1) /\ Low(u0, m + 1) = p * Low(a, m)
  BY <1>1, <1>3, <1>9, <1>15, DividendShifted
<1>17. PICK places \in Nat : places = m - n + 1 /\ places + n = m + 1 /\ places # 0 /\ places <= m
  <2>1. m - n + 1 \in Nat
    BY <1>2, <1>3
  <2>2. (m - n + 1) + n = m + 1 /\ m - n + 1 # 0 /\ m - n + 1 <= m
    BY <1>2, <1>3
  <2> QED
    BY <2>1, <2>2
<1>18. PICK top \in Nat : top = Low(a, m) /\ top = MagnitudeOf(a) /\ top < Weight(m)
  BY <1>3, TrimBounds
<1>19. PICK bottom \in Nat : bottom = Low(b, n) /\ bottom = MagnitudeOf(b) /\ bottom >= Weight(n - 1)
  BY <1>2, <1>4, TrimBounds
<1>20. PICK wn \in Nat : wn = Weight(n - 1)
  <2>1. n - 1 \in Nat
    BY <1>2
  <2> QED
    BY <2>1, WeightFacts
<1>21. PICK wp \in Nat : wp = Weight(places) /\ Weight(m) = wn * wp
  <2>1. n - 1 \in Nat /\ (n - 1) + places = m
    BY <1>2, <1>3, <1>17
  <2> QED
    <3>1. Weight((n - 1) + places) = Weight(n - 1) * Weight(places)
      BY <2>1, WeightsMultiply, Zenon
    <3>2. Weight(places) \in Nat
      BY WeightFacts, Zenon
    <3> QED
      BY <1>20, <2>1, <3>1, <3>2
<1>22. PICK whole \in Nat : whole = p * top
  OBVIOUS
<1>23. whole < Low(v, n) * Weight(places)
  <2>1. p * top < (p * bottom) * wp
    BY <1>10, <1>18, <1>19, <1>20, <1>21, FirstStage
  <2> QED
    BY <1>14, <1>19, <1>21, <1>22, <2>1, Zenon
<1>24. [u |-> u0, digits |-> <<>>] \in Stages(whole, v, n, places, 0)
  <2>1. PICK empty : empty = <<>>
    OBVIOUS
  <2>2. empty \in Buffer(0) /\ Low(empty, 0) = 0
    <3>1. empty \in Limbs /\ Len(empty) = 0
      BY <2>1 DEF Limbs
    <3> QED
      BY <3>1, LowFacts DEF Buffer
  <2>3. PICK state : state = [u |-> u0, digits |-> empty]
    OBVIOUS
  <2>4. state.u = u0 /\ state.digits = empty /\ state \in [u : Buffer(places + n), digits : Buffer(0)]
    BY <1>16, <1>17, <2>2, <2>3
  <2>5. places - 0 = places /\ places - 0 + n = m + 1
    BY <1>17
  <2>6. Low(u0, m + 1) = whole
    BY <1>16, <1>18, <1>22, Zenon
  <2>7. whole = (Low(v, n) * 0) * Weight(places) + whole
    <3>1. PICK vv \in Nat : vv = Low(v, n)
      BY <1>14, <1>19
    <3>2. whole = (vv * 0) * wp + whole
      OBVIOUS
    <3> QED
      BY <1>21, <3>1, <3>2, Zenon
  <2>8. Stage(whole, Low(v, n), Low(state.u, places - 0 + n), Low(state.digits, 0), places - 0, n)
    BY <1>23, <2>2, <2>4, <2>5, <2>6, <2>7, Zenon DEF Stage
  <2>9. state \in Stages(whole, v, n, places, 0)
    BY <2>4, <2>8, Zenon DEF Stages
  <2> QED
    BY <2>1, <2>3, <2>9, Zenon
<1>25. PICK state : state = DivisionLoop(u0, v, places)
  OBVIOUS
<1>26. state \in Stages(whole, v, n, places, places)
  BY <1>2, <1>14, <1>24, <1>25, DivisionStages
<1>27. PICK u \in Buffer(m + 1), digits \in Buffer(places) : u = state.u /\ digits = state.digits
  <2>1. state \in [u : Buffer(m + 1), digits : Buffer(places)]
    BY <1>17, <1>26, Zenon DEF Stages
  <2> QED
    BY <2>1
<1>28. Stage(whole, Low(v, n), Low(u, places - places + n), Low(digits, places), places - places, n)
       /\ Remains(u, places - places, n)
  BY <1>17, <1>26, <1>27, Zenon DEF Stages
<1>29. places - places = 0 /\ places - places + n = n /\ 0 + n + 1 = n + 1
  OBVIOUS
<1>30. u \in Limbs /\ digits \in Limbs /\ Len(digits) = places
  BY DEF Buffer
<1>31. PICK lower \in Nat : lower = Low(u, n)
  BY <1>30, LowType
<1>32. PICK d \in Nat : d = Low(digits, places)
  BY <1>30, LowType
<1>33. p * top = ((p * bottom) * d) * 1 + lower /\ lower < (p * bottom) * 1
  <2>1. Weight(0) = 1
    BY WeightFacts
  <2> QED
    BY <1>14, <1>19, <1>22, <1>28, <1>29, <1>31, <1>32, <2>1, Zenon DEF Stage
<1>34. LimbAt(u, n + 1) = 0
  <2>1. LimbAt(u, 0 + n + 1) = 0
    BY <1>28, <1>29, Zenon DEF Remains
  <2> QED
    BY <1>29, <2>1
<1>35. PICK rem \in Nat : lower = p * rem /\ top = d * bottom + rem /\ rem < bottom
  BY <1>10, <1>33, LastStage
<1>36. PICK r : r = Unshifted(u, n, shift)
  OBVIOUS
<1>37. r \in Buffer(n) /\ Low(r, n) = rem
  <2>1. n + 1 <= m + 1 /\ m + 1 \in Nat
    BY <1>3
  <2>2. Low(u, n) = p * rem
    BY <1>31, <1>35
  <2> QED
    BY <1>9, <1>34, <1>36, <2>1, <2>2, UnshiftedExact
<1>38. r \in Limbs /\ Len(r) = n
  BY <1>37 DEF Buffer
<1>39. LongDivision(a, b) = [quotient |-> Trimmed(digits), remainder |-> Trimmed(r)]
  <2>1. shift = LimbBits - TopWidth(b[Len(b)])
    BY <1>2, <1>5, <1>6, <1>8, Zenon
  <2>2. LongDivision(a, b)
          = DivisionResult(DivisionLoop(ShiftedLimbs(a, shift), SubSeq(ShiftedLimbs(b, shift), 1, Len(b)),
                                        Len(a) - Len(b) + 1), Len(b), shift)
    BY <2>1, LongDivisionUnfolded
  <2>3. LongDivision(a, b) = DivisionResult(state, n, shift)
    BY <1>2, <1>3, <1>12, <1>15, <1>17, <1>25, <2>2, Zenon
  <2> QED
    BY <1>27, <1>36, <2>3, Zenon DEF DivisionResult
<1>40. /\ Trim(Trimmed(digits)) /\ MagnitudeOf(Trimmed(digits)) = d /\ Len(Trimmed(digits)) <= places
       /\ Len(Trimmed(digits)) \in Nat
  BY <1>30, <1>32, TrimmedTwice, TrimmedValue, TrimmedFacts
<1>41. Trim(Trimmed(r)) /\ MagnitudeOf(Trimmed(r)) = rem /\ Len(Trimmed(r)) <= n /\ Len(Trimmed(r)) \in Nat
  BY <1>37, <1>38, TrimmedTwice, TrimmedValue, TrimmedFacts
<1>42. PICK division : division = LongDivision(a, b)
  OBVIOUS
<1>43. division.quotient = Trimmed(digits) /\ division.remainder = Trimmed(r)
  BY <1>39, <1>42
<1>44. division = [quotient |-> division.quotient, remainder |-> division.remainder]
  BY <1>39, <1>42, <1>43, Zenon
<1>45. Len(Trimmed(digits)) <= Len(a) /\ Len(Trimmed(r)) <= Len(a)
  BY <1>3, <1>17, <1>40, <1>41
<1>46. Divided(division, a, b)
  BY <1>18, <1>19, <1>35, <1>40, <1>41, <1>43, <1>44, <1>45, Zenon DEF Divided
<1> QED
  BY <1>42, <1>46, Zenon

(* One limb is a number when it is not zero. *)
LEMMA OneLimb ==
  ASSUME NEW x \in Limb
  PROVE  /\ <<x>> \in Limbs /\ Len(<<x>>) = 1
         /\ Low(<<x>>, 1) = x /\ MagnitudeOf(<<x>>) = x
         /\ Trim(Trimmed(<<x>>)) /\ MagnitudeOf(Trimmed(<<x>>)) = x /\ Len(Trimmed(<<x>>)) <= 1
         /\ x # 0 => Trimmed(<<x>>) = <<x>>
<1>1. PICK s : s = <<x>>
  OBVIOUS
<1>2. s \in Limbs /\ Len(s) = 1 /\ s[1] = x
  BY <1>1 DEF Limbs
<1>3. LimbAt(s, 0 + 1) = x
  BY <1>2, LimbAtPlace
<1>4. PICK y \in Nat : y = x
  BY BaseFacts DEF Limb
<1>5. Low(s, 0 + 1) = 0 + y * 1
  <2>1. 0 \in Nat
    OBVIOUS
  <2>2. Low(s, 0 + 1) = Low(s, 0) + LimbAt(s, 0 + 1) * Weight(0) /\ Low(s, 0) = 0 /\ Weight(0) = 1
    BY <1>2, <2>1, LowFacts, WeightFacts
  <2> QED
    BY <1>3, <1>4, <2>2, Zenon
<1>6. Low(s, 1) = x
  BY <1>4, <1>5
<1>7. MagnitudeOf(s) = x
  BY <1>2, <1>6, MagnitudeIsLow
<1>8. Trim(Trimmed(s)) /\ MagnitudeOf(Trimmed(s)) = x /\ Len(Trimmed(s)) \in 0 .. Len(s)
  BY <1>2, <1>6, TrimmedTwice, TrimmedValue, TrimmedFacts
<1>9. ASSUME x # 0 PROVE Trimmed(s) = s
  <2>1. Len(Trimmed(s)) = 1
    <3> SUFFICES ASSUME Len(Trimmed(s)) = 0 PROVE FALSE
      BY <1>2, <1>8
    <3>1. 1 \in Len(Trimmed(s)) + 1 .. Len(s)
      BY <1>2
    <3> QED
      BY <1>2, <1>9, <3>1, TrimmedFacts
  <2>2. Trimmed(s) \in Seq(Limb) /\ Trimmed(s)[1] = s[1] /\ s \in Seq(Limb)
    BY <1>2, <2>1, TrimmedFacts DEF Limbs
  <2> QED
    BY <1>2, <2>1, <2>2
<1>10. Len(Trimmed(s)) <= 1
  <2>1. Len(Trimmed(s)) \in 0 .. 1
    BY <1>2, <1>8, Zenon
  <2>2. PICK l : l = Len(Trimmed(s))
    OBVIOUS
  <2>3. l \in 0 .. 1
    BY <2>1, <2>2, Zenon
  <2>4. l <= 1
    BY <2>3
  <2> QED
    BY <2>2, <2>4, Zenon
<1> QED
  BY <1>1, <1>2, <1>6, <1>7, <1>8, <1>9, <1>10, Zenon

(* A longer magnitude is a larger one. *)
LEMMA LongerIsLarger ==
  ASSUME NEW a, NEW b, Trim(a), Trim(b), MagnitudeOf(a) >= MagnitudeOf(b)
  PROVE  Len(b) <= Len(a)
<1>1. Len(a) \in Nat /\ Len(b) \in Nat /\ MagnitudeOf(a) \in Nat /\ MagnitudeOf(b) \in Nat
  BY TrimBounds
<1> SUFFICES ASSUME Len(a) < Len(b) PROVE FALSE
  BY <1>1
<1>2. b # <<>>
  BY <1>1
<1>3. Len(b) - 1 \in Nat /\ MagnitudeOf(b) >= Weight(Len(b) - 1)
  BY <1>2, TrimBounds
<1>4. Len(a) <= Len(b) - 1
  BY <1>1
<1>5. Weight(Len(a)) <= Weight(Len(b) - 1)
  BY <1>1, <1>3, <1>4, WeightMonotone
<1>6. MagnitudeOf(a) < Weight(Len(a)) /\ Weight(Len(a)) \in Nat /\ Weight(Len(b) - 1) \in Nat
  BY <1>1, <1>3, TrimBounds, WeightFacts
<1> QED
  BY <1>1, <1>3, <1>5, <1>6

(* Division by one limb. *)
LEMMA ShortDivisionExact ==
  ASSUME NEW a, NEW b, Trim(a), Trim(b), Len(b) = 1, Len(a) >= 1,
         NEW short, short = DivideByUint(a, b[1])
  PROVE  Divided([short EXCEPT !.remainder = Trimmed(<<short.remainder>>)], a, b)
<1>1. a \in Limbs /\ b \in Limbs /\ b # <<>>
  BY DEF Trim
<1>2. PICK x \in Limb : x = b[1] /\ x # 0
  <2>1. b[Len(b)] # 0 /\ 1 \in 1 .. Len(b)
    BY <1>1, TrimTop
  <2> QED
    BY <1>1, <2>1, ElementOfSeq DEF Limbs
<1>3. b = <<x>>
  <2>1. b \in Seq(Limb)
    BY <1>1 DEF Limbs
  <2> QED
    BY <1>2, <2>1
<1>4. MagnitudeOf(b) = x
  BY <1>3, OneLimb
<1>5. /\ short = [quotient |-> short.quotient, remainder |-> short.remainder]
      /\ Trim(short.quotient) /\ short.remainder \in 0 .. x - 1
      /\ Len(short.quotient) <= Len(a)
      /\ MagnitudeOf(a) = MagnitudeOf(short.quotient) * x + short.remainder
  BY <1>1, <1>2, DivideByUintExact
<1>6. PICK q : q = short.quotient
  OBVIOUS
<1>7. PICK r \in Limb : r = short.remainder /\ r < x
  BY <1>2, <1>5, BaseFacts DEF Limb
<1>8. PICK t : t = Trimmed(<<r>>)
  OBVIOUS
<1>9. Trim(t) /\ MagnitudeOf(t) = r /\ Len(t) <= 1 /\ Len(t) \in Nat
  BY <1>8, OneLimb, TrimBounds
<1>10. PICK d : d = [quotient |-> q, remainder |-> t]
  OBVIOUS
<1>11. d.quotient = q /\ d.remainder = t
  BY <1>10
<1>12. [short EXCEPT !.remainder = Trimmed(<<short.remainder>>)] = d
  <2>1. short = [quotient |-> q, remainder |-> r]
    BY <1>5, <1>6, <1>7, Zenon
  <2>2. [short EXCEPT !.remainder = t] = d
    BY <1>10, <2>1
  <2> QED
    BY <1>7, <1>8, <2>2, Zenon
<1>13. Len(t) <= Len(a)
  <2>1. Len(a) \in Nat
    BY <1>1, LimbAtPlace
  <2> QED
    BY <1>9, <2>1
<1>14. d = [quotient |-> d.quotient, remainder |-> d.remainder]
  BY <1>10, <1>11, Zenon
<1>15. Divided(d, a, b)
  BY <1>4, <1>5, <1>6, <1>7, <1>9, <1>11, <1>13, <1>14, Zenon DEF Divided
<1> QED
  BY <1>12, <1>15, Zenon

(* A call that returns a quotient and a remainder, or refuses as the shifted
   dividend may not fit. *)
Divides(call, a, b) ==
  \/ call = Ok(call.value) /\ Divided(call.value, a, b)
  \/ call = Refused("VALUE_TOO_LARGE") /\ Len(a) + 1 > MaxLimbs

(* A division for which the room is asked first is such a call. *)
LEMMA WithinDivides ==
  ASSUME NEW d, NEW a, NEW b, Divided(d, a, b), NEW n \in Nat, n <= Len(a) + 1, Len(a) \in Nat
  PROVE  Divides(Within(n, d), a, b)
<1>1. MaxLimbs \in Nat
  BY BigIntAssumption
<1>2. Ok(d).value = d
  BY DEF Ok
<1>3. CASE n > MaxLimbs
  <2>1. Within(n, d) = Refused("VALUE_TOO_LARGE")
    BY <1>3, Zenon DEF Within
  <2>2. Len(a) + 1 > MaxLimbs
    BY <1>1, <1>3
  <2> QED
    BY <2>1, <2>2, Zenon DEF Divides
<1>4. CASE ~(n > MaxLimbs)
  <2>1. Within(n, d) = Ok(d)
    BY <1>4, Zenon DEF Within
  <2> QED
    BY <1>2, <2>1, Zenon DEF Divides
<1> QED
  BY <1>3, <1>4

(* DivModAbs divides magnitudes, by whichever of its ways. *)
LEMMA DivModAbsExact ==
  ASSUME NEW a, NEW b, Trim(a), Trim(b), b # <<>>
  PROVE  Divides(DivModAbs(a, b), a, b)
<1>1. a \in Limbs /\ b \in Limbs
  BY DEF Trim
<1>2. Len(a) \in Nat /\ Len(b) \in Nat /\ Len(b) >= 1
  BY <1>1, LimbAtPlace, TrimTop
<1>3. PICK x \in Nat : x = MagnitudeOf(a) /\ (a = <<>> => x = 0)
  BY TrimBounds
<1>4. PICK y \in Nat : y = MagnitudeOf(b) /\ y >= 1
  BY TrimBounds
<1>5. PICK empty : empty = <<>>
  OBVIOUS
<1>6. Trim(empty) /\ Len(empty) = 0 /\ MagnitudeOf(empty) = 0
  <2>1. empty \in Limbs /\ Len(empty) = 0
    BY <1>5 DEF Limbs
  <2>2. Trimmed(empty) \in Limbs /\ Len(Trimmed(empty)) \in 0 .. 0
    BY <2>1, TrimmedFacts
  <2>3. Trimmed(empty) = <<>>
    BY <2>2 DEF Limbs
  <2>4. Trim(empty)
    BY <1>5, <2>1, <2>3 DEF Trim
  <2> QED
    BY <1>5, <2>1, <2>4, TrimBounds
<1>7. \/ CompareAbs(a, b) = -1 /\ x < y
      \/ CompareAbs(a, b) = 0 /\ x = y /\ a = b
      \/ CompareAbs(a, b) = 1 /\ x > y
  BY <1>3, <1>4, CompareAbsExact
<1>8. CASE a = <<>> \/ CompareAbs(a, b) < 0
  <2>1. x < y
    BY <1>3, <1>4, <1>7, <1>8
  <2>2. PICK d : d = [quotient |-> empty, remainder |-> a]
    OBVIOUS
  <2>3. d.quotient = empty /\ d.remainder = a /\ d = [quotient |-> d.quotient, remainder |-> d.remainder]
    BY <2>2
  <2>4. x = 0 * y + x /\ 0 <= Len(a) /\ Len(a) <= Len(a)
    BY <1>2
  <2>5. Divided(d, a, b)
    BY <1>3, <1>4, <1>6, <2>1, <2>3, <2>4, Zenon DEF Divided
  <2>6. DivModAbs(a, b) = Ok(d)
    BY <1>5, <1>8, <2>2, Zenon DEF DivModAbs
  <2>7. Ok(d).value = d
    BY DEF Ok
  <2> QED
    BY <2>5, <2>6, <2>7, Zenon DEF Divides
<1>9. CASE ~(a = <<>> \/ CompareAbs(a, b) < 0) /\ CompareAbs(a, b) = 0
  <2>1. x = y /\ a = b
    BY <1>7, <1>9
  <2>2. PICK one : one = <<1>>
    OBVIOUS
  <2>3. Trim(one) /\ Len(one) = 1 /\ MagnitudeOf(one) = 1
    <3>1. 1 \in Limb
      BY BaseFacts DEF Limb
    <3> QED
      BY <2>2, <3>1, OneLimb
  <2>4. PICK d : d = [quotient |-> one, remainder |-> empty]
    OBVIOUS
  <2>5. d.quotient = one /\ d.remainder = empty /\ d = [quotient |-> d.quotient, remainder |-> d.remainder]
    BY <2>4
  <2>6. x = 1 * y + 0 /\ 0 < y /\ 0 <= Len(a) /\ 1 <= Len(a)
    BY <1>2, <1>4, <2>1
  <2>7. Divided(d, a, b)
    BY <1>3, <1>4, <1>6, <2>3, <2>5, <2>6, Zenon DEF Divided
  <2>8. DivModAbs(a, b) = Ok(d)
    BY <1>5, <1>9, <2>2, <2>4, Zenon DEF DivModAbs
  <2>9. Ok(d).value = d
    BY DEF Ok
  <2> QED
    BY <2>7, <2>8, <2>9, Zenon DEF Divides
<1>10. CASE ~(a = <<>> \/ CompareAbs(a, b) < 0) /\ CompareAbs(a, b) # 0
  <2>1. x > y
    BY <1>7, <1>10
  <2>2. Len(b) <= Len(a)
    BY <1>3, <1>4, <2>1, LongerIsLarger
  <2>3. CASE Len(b) = 1
    <3>1. PICK short : short = DivideByUint(a, b[1])
      OBVIOUS
    <3>2. PICK d : d = [short EXCEPT !.remainder = Trimmed(<<short.remainder>>)]
      OBVIOUS
    <3>3. Divided(d, a, b)
      BY <1>2, <2>2, <2>3, <3>1, <3>2, ShortDivisionExact
    <3>4. DivModAbs(a, b) = Within(Len(a), d)
      BY <1>10, <2>3, <3>1, <3>2, Zenon DEF DivModAbs
    <3>5. Len(a) <= Len(a) + 1
      BY <1>2
    <3>6. Divides(Within(Len(a), d), a, b)
      BY <1>2, <3>3, <3>5, WithinDivides
    <3> QED
      BY <3>4, <3>6, Zenon
  <2>4. CASE Len(b) # 1
    <3>1. Len(b) >= 2
      <4>1. PICK l \in Nat : l = Len(b)
        BY <1>2
      <4>2. l >= 1 /\ l # 1
        BY <1>2, <2>4, <4>1
      <4>3. l >= 2
        BY <4>2
      <4> QED
        BY <4>1, <4>3
    <3>2. PICK d : d = LongDivision(a, b)
      OBVIOUS
    <3>3. Divided(d, a, b)
      BY <2>2, <3>1, <3>2, LongDivisionExact
    <3>4. DivModAbs(a, b) = Within(Len(a) + 1, d)
      BY <1>10, <2>4, <3>2, Zenon DEF DivModAbs
    <3>5. PICK n \in Nat : n = Len(a) + 1 /\ n <= Len(a) + 1
      BY <1>2
    <3>6. Divides(Within(n, d), a, b)
      BY <1>2, <3>3, <3>5, WithinDivides
    <3> QED
      BY <3>4, <3>5, <3>6, Zenon
  <2> QED
    BY <2>3, <2>4
<1> QED
  BY <1>8, <1>9, <1>10

(* Signs of a quotient and a remainder that truncate toward zero. *)
LEMMA TruncatedTowardZero ==
  ASSUME NEW na \in BOOLEAN, NEW nb \in BOOLEAN, NEW x \in Nat, NEW y \in Nat, NEW k \in Nat, NEW r \in Nat,
         x = k * y + r, r < y
  PROVE  /\ Signed(na # nb, k) = Quotient(Signed(na, x), Signed(nb, y))
         /\ Signed(na, r) = Remainder(Signed(na, x), Signed(nb, y))
<1>1. y >= 1 /\ y > 0 /\ 0 <= r
  OBVIOUS
<1>2. x = y * k + r
  OBVIOUS
<1>3. x \div y = k /\ x % y = r
  BY <1>1, <1>2, DivisionIs
<1>4. Magnitude(Signed(na, x)) = x /\ Magnitude(Signed(nb, y)) = y
  BY DEF Magnitude, Signed
<1>5. x = 0 => k = 0 /\ r = 0
  <2> SUFFICES ASSUME x = 0 PROVE k = 0 /\ r = 0
    OBVIOUS
  <2>1. PICK z \in Int : z = 0
    OBVIOUS
  <2>2. x = y * z + z
    BY <2>1
  <2>3. x \div y = z /\ x % y = z
    BY <1>1, <2>1, <2>2, DivisionIs
  <2> QED
    BY <1>3, <2>1, <2>3
<1>6. PICK sa \in Int : sa = Sign(Signed(na, x)) /\ sa = IF x = 0 THEN 0 ELSE IF na THEN -1 ELSE 1
  BY DEF Sign, Signed
<1>7. PICK sb \in Int : sb = Sign(Signed(nb, y)) /\ sb = IF nb THEN -1 ELSE 1
  BY <1>1 DEF Sign, Signed
<1>8. /\ Quotient(Signed(na, x), Signed(nb, y)) = sa * sb * k
      /\ Remainder(Signed(na, x), Signed(nb, y)) = sa * r
  BY <1>3, <1>4, <1>6, <1>7, Zenon DEF Quotient, Remainder
<1>9. CASE na /\ nb
  <2>1. Signed(na # nb, k) = k /\ Signed(na, r) = -r
    BY <1>9, Zenon DEF Signed
  <2>2. sa = (IF x = 0 THEN 0 ELSE -1) /\ sb = -1
    BY <1>6, <1>7, <1>9, Zenon
  <2>3. sa * sb * k = k /\ sa * r = -r
    BY <1>5, <2>2
  <2> QED
    BY <1>8, <2>1, <2>3, Zenon
<1>10. CASE na /\ ~nb
  <2>1. Signed(na # nb, k) = -k /\ Signed(na, r) = -r
    BY <1>10, Zenon DEF Signed
  <2>2. sa = (IF x = 0 THEN 0 ELSE -1) /\ sb = 1
    BY <1>6, <1>7, <1>10, Zenon
  <2>3. sa * sb * k = -k /\ sa * r = -r
    BY <1>5, <2>2
  <2> QED
    BY <1>8, <2>1, <2>3, Zenon
<1>11. CASE ~na /\ nb
  <2>1. Signed(na # nb, k) = -k /\ Signed(na, r) = r
    BY <1>11, Zenon DEF Signed
  <2>2. sa = (IF x = 0 THEN 0 ELSE 1) /\ sb = -1
    BY <1>6, <1>7, <1>11, Zenon
  <2>3. sa * sb * k = -k /\ sa * r = r
    BY <1>5, <2>2
  <2> QED
    BY <1>8, <2>1, <2>3, Zenon
<1>12. CASE ~na /\ ~nb
  <2>1. Signed(na # nb, k) = k /\ Signed(na, r) = r
    BY <1>12, Zenon DEF Signed
  <2>2. sa = (IF x = 0 THEN 0 ELSE 1) /\ sb = 1
    BY <1>6, <1>7, <1>12, Zenon
  <2>3. sa * sb * k = k /\ sa * r = r
    BY <1>5, <2>2
  <2> QED
    BY <1>8, <2>1, <2>3, Zenon
<1> QED
  BY <1>9, <1>10, <1>11, <1>12

(* DivMod is the division of C, which truncates toward zero, with the digits that
   are estimated from two limbs, corrected and added back: it refuses a zero
   divisor, and else only what could outgrow the limit. *)
THEOREM DivisionExact ==
  ASSUME NEW a \in Numbers, NEW b \in Numbers
  PROVE  IF ValueOf(b) = 0 THEN DivMod(a, b) = Refused("DIVISION_BY_ZERO")
         ELSE \/ DivMod(a, b) = Refused("VALUE_TOO_LARGE") /\ Size(a) + 1 > MaxLimbs
              \/ \E q \in Numbers, r \in Numbers :
                   /\ DivMod(a, b) = Ok([quotient |-> q, remainder |-> r])
                   /\ ValueOf(q) = Quotient(ValueOf(a), ValueOf(b))
                   /\ ValueOf(r) = Remainder(ValueOf(a), ValueOf(b))
<1>1. PICK s : s = a.limbs /\ Trim(s) /\ Len(s) \in Nat /\ Len(s) <= MaxLimbs
  BY NumberShape
<1>2. PICK t : t = b.limbs /\ Trim(t) /\ (t = <<>> => ~b.negative)
  BY NumberShape
<1>3. a.negative \in BOOLEAN /\ b.negative \in BOOLEAN /\ b = [negative |-> b.negative, limbs |-> t]
  BY <1>2, NumberShape
<1>4. PICK x \in Nat : x = MagnitudeOf(s) /\ ValueOf(a) = Signed(a.negative, x)
  BY <1>1, NumberValue
<1>5. PICK y \in Nat : /\ y = MagnitudeOf(t) /\ ValueOf(b) = Signed(b.negative, y)
                      /\ (t = <<>> => y = 0) /\ (t # <<>> => y >= 1)
  BY <1>2, NumberValue, TrimBounds
<1>6. MaxLimbs \in Nat
  BY BigIntAssumption
<1>7. b = Zero <=> t = <<>>
  <2>1. Zero = [negative |-> FALSE, limbs |-> <<>>]
    <3>1. <<>> \in Limbs /\ Len(<<>>) = 0
      BY DEF Limbs
    <3>2. Trimmed(<<>>) \in Limbs /\ Len(Trimmed(<<>>)) \in 0 .. 0
      BY <3>1, TrimmedFacts
    <3>3. Trimmed(<<>>) = <<>>
      BY <3>2 DEF Limbs
    <3> QED
      BY <3>3 DEF Zero, BigInt
  <2>2. t = <<>> => b.negative = FALSE
    BY <1>2, <1>3
  <2>3. t = <<>> => b = Zero
    BY <1>3, <2>1, <2>2, Zenon
  <2>4. Zero.limbs = <<>>
    BY <2>1
  <2> QED
    BY <1>2, <2>3, <2>4, Zenon
<1>8. ValueOf(b) = 0 <=> t = <<>>
  BY <1>3, <1>5 DEF Signed
<1>9. CASE t = <<>>
  <2>1. DivMod(a, b) = Refused("DIVISION_BY_ZERO")
    BY <1>7, <1>9, Zenon DEF DivMod
  <2> QED
    BY <1>8, <1>9, <2>1, Zenon
<1>10. CASE t # <<>>
  <2>1. PICK call : call = DivModAbs(s, t)
    OBVIOUS
  <2>2. Divides(call, s, t)
    BY <1>1, <1>2, <1>10, <2>1, DivModAbsExact
  <2>3. DivMod(a, b) = Then(call, LAMBDA d : Ok([quotient |-> BigInt(a.negative # b.negative, d.quotient),
                                                 remainder |-> BigInt(a.negative, d.remainder)]))
    BY <1>1, <1>2, <1>7, <1>10, <2>1, Zenon DEF DivMod
  <2>4. CASE call = Refused("VALUE_TOO_LARGE") /\ Len(s) + 1 > MaxLimbs
    <3>1. call.status # "OK"
      BY <2>4 DEF Refused
    <3>2. DivMod(a, b) = call
      BY <2>3, <3>1, Zenon DEF Then
    <3>3. Size(a) = Len(s)
      BY <1>1 DEF Size
    <3> QED
      BY <1>8, <1>10, <2>4, <3>2, <3>3, Zenon
  <2>5. CASE call = Ok(call.value) /\ Divided(call.value, s, t)
    <3>1. PICK d : d = call.value
      OBVIOUS
    <3>2. PICK dq, dr : dq = d.quotient /\ dr = d.remainder
      OBVIOUS
    <3>3. /\ Trim(dq) /\ Trim(dr) /\ Len(dq) <= Len(s) /\ Len(dr) <= Len(s)
          /\ MagnitudeOf(s) = MagnitudeOf(dq) * MagnitudeOf(t) + MagnitudeOf(dr)
          /\ MagnitudeOf(dr) < MagnitudeOf(t)
      BY <2>5, <3>1, <3>2, Zenon DEF Divided
    <3>4. dq \in Limbs /\ Trimmed(dq) = dq /\ dr \in Limbs /\ Trimmed(dr) = dr
      BY <3>3 DEF Trim
    <3>5. Len(dq) \in Nat /\ Len(dr) \in Nat
      BY <3>4, LimbAtPlace
    <3>6. Len(Trimmed(dq)) <= MaxLimbs /\ Len(Trimmed(dr)) <= MaxLimbs
      BY <1>1, <1>6, <3>3, <3>4, <3>5
    <3>7. PICK k \in Nat : k = MagnitudeOf(dq)
      BY <3>3, TrimBounds
    <3>8. PICK r \in Nat : r = MagnitudeOf(dr)
      BY <3>3, TrimBounds
    <3>9. x = k * y + r /\ r < y
      BY <1>4, <1>5, <3>3, <3>7, <3>8, Zenon
    <3>10. PICK negative \in BOOLEAN : negative = (a.negative # b.negative)
      BY <1>3
    <3>11. PICK vq : vq = BigInt(negative, dq)
      OBVIOUS
    <3>12. PICK vr : vr = BigInt(a.negative, dr)
      OBVIOUS
    <3>13. vq \in Numbers /\ ValueOf(vq) = Signed(negative, k)
      BY <3>4, <3>6, <3>7, <3>11, NumberMade
    <3>14. vr \in Numbers /\ ValueOf(vr) = Signed(a.negative, r)
      BY <1>3, <3>4, <3>6, <3>8, <3>12, NumberMade
    <3>15. /\ Signed(a.negative # b.negative, k) = Quotient(Signed(a.negative, x), Signed(b.negative, y))
           /\ Signed(a.negative, r) = Remainder(Signed(a.negative, x), Signed(b.negative, y))
      BY <1>3, <3>9, TruncatedTowardZero
    <3>16. ValueOf(vq) = Quotient(ValueOf(a), ValueOf(b)) /\ ValueOf(vr) = Remainder(ValueOf(a), ValueOf(b))
      BY <1>4, <1>5, <3>10, <3>13, <3>14, <3>15, Zenon
    <3>17. call.status = "OK"
      BY <2>5 DEF Ok
    <3>18. DivMod(a, b) = Ok([quotient |-> vq, remainder |-> vr])
      BY <2>3, <3>1, <3>2, <3>10, <3>11, <3>12, <3>17, Zenon DEF Then
    <3> QED
      BY <1>8, <1>10, <3>13, <3>14, <3>16, <3>18, Zenon
  <2> QED
    BY <2>2, <2>4, <2>5, Zenon DEF Divides
<1> QED
  BY <1>9, <1>10

=============================================================================
