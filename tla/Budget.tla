-------------------------------- MODULE Budget --------------------------------
(***************************************************************************)
(* The resource scope of src/runtime/numforge_alloc.c, and the way the     *)
(* engine and the application use it: every compound operation begins a    *)
(* scope, only the outermost one of a thread owns it and ends it, and the  *)
(* status of an operation of the engine passes calculator_budget_status    *)
(* before it is returned.  The scope is thread-local, so one thread is the *)
(* whole state.                                                            *)
(*                                                                         *)
(* Time is a counter.  A reading of the clock may fail (UINT64_MAX); the   *)
(* scope then counts as late.  What an operation computes is abstracted to *)
(* its checks, its allocations, the operations it calls and its status;    *)
(* it may go on after a failed check, or ignore the status of a callee.    *)
(***************************************************************************)
EXTENDS Integers, Sequences

CONSTANTS
  Milliseconds,  \* time limits an operation may ask for
  Bytes,         \* limits on the sum of all allocations of a scope
  Singles,       \* limits on one allocation
  Sizes,         \* sizes that are allocated
  MaxDepth,      \* bound on the nesting of operations
  MaxTime,       \* bound on the clock
  Unreadable     \* UINT64_MAX: the clock could not be read

ASSUME BudgetAssumption ==
  /\ Milliseconds \subseteq Nat
  /\ Bytes \subseteq Nat
  /\ Singles \subseteq Nat
  /\ Sizes \subseteq Nat
  /\ MaxDepth \in Nat
  /\ MaxTime \in Nat
  /\ Unreadable \notin Nat

VARIABLES
  active, started, duration, remaining, single, failure,  \* budget_*
  plan,       \* allocations an admission query promised room for, or NoPlan
  calls,      \* the operations in progress, outermost first
  succeeded,  \* status of the operation that returned last
  now,        \* the monotonic clock
  asked,      \* history: the bytes the owner of the scope asked for
  spent,      \* history: the bytes allocated in the scope
  widest      \* history: the largest of these allocations

scope == <<active, started, duration, single, asked>>
vars == <<scope, remaining, failure, plan, calls, succeeded, now, spent, widest>>

Role == {"owner", "nested"}
NoPlan == [left |-> 0, largest |-> 0]
Readings == {now, Unreadable}

Init ==
  /\ active = FALSE
  /\ started = 0 /\ duration = 0 /\ remaining = 0 /\ single = 0
  /\ failure = "none"
  /\ plan = NoPlan
  /\ calls = <<>>
  /\ succeeded = TRUE
  /\ now = 0
  /\ asked = 0 /\ spent = 0 /\ widest = 0

-----------------------------------------------------------------------------
(* numforge_budget_begin: only the first of nested operations owns a scope. *)

BeginsScope == ~active

Enter(ms, bytes, limit, reading) ==
  /\ Len(calls) < MaxDepth
  /\ calls' = Append(calls, IF BeginsScope THEN "owner" ELSE "nested")
  /\ IF BeginsScope
     THEN /\ active' = TRUE
          /\ started' = reading
          /\ duration' = ms
          /\ remaining' = bytes
          /\ single' = limit
          /\ failure' = "none"
          /\ plan' = NoPlan
          /\ asked' = bytes
          /\ spent' = 0
          /\ widest' = 0
     ELSE UNCHANGED <<scope, remaining, failure, plan, spent, widest>>
  /\ UNCHANGED <<succeeded, now>>

(* numforge_budget_check: the first failure of a scope is kept. *)
Late_ByOne(reading) ==
  reading = Unreadable \/ started = Unreadable \/ reading - started > duration

Late(reading) ==
  reading = Unreadable \/ started = Unreadable \/ reading - started >= duration

Checked(reading) ==
  IF active /\ failure = "none" /\ Late(reading) THEN "time" ELSE failure

Check(reading) ==
  /\ active
  /\ failure' = Checked(reading)
  /\ UNCHANGED <<scope, remaining, plan, calls, succeeded, now, spent, widest>>

(* numforge_budget_can_allocate_pair and numforge_budget_can_allocate_plan:
   what is admitted is allocated next, whole or in part, and reserves nothing. *)
PairFits_Separately(first, second) ==
  /\ first <= single /\ second <= single
  /\ first <= remaining /\ second <= remaining

PairFits(first, second) ==
  /\ first <= single /\ second <= single
  /\ first <= remaining /\ second <= remaining - first

AdmitPair(first, second) ==
  /\ active
  /\ failure = "none"
  /\ PairFits(first, second)
  /\ plan' = [left |-> first + second,
              largest |-> IF first < second THEN second ELSE first]
  /\ UNCHANGED <<scope, remaining, failure, calls, succeeded, now, spent, widest>>

AdmitPlan(total, largest) ==
  /\ active
  /\ failure = "none"
  /\ largest <= single
  /\ total <= remaining
  /\ plan' = [left |-> total, largest |-> largest]
  /\ UNCHANGED <<scope, remaining, failure, calls, succeeded, now, spent, widest>>

DropPlan ==
  /\ plan # NoPlan
  /\ plan' = NoPlan
  /\ UNCHANGED <<scope, remaining, failure, calls, succeeded, now, spent, widest>>

Planned(size) == plan # NoPlan => size <= plan.left /\ size <= plan.largest

(* numforge_malloc, numforge_calloc, numforge_realloc in a scope. *)
Charged_OnlyLatest(size) == remaining' = asked - size
Charged(size) == remaining' = remaining - size

Fits(size) == size <= single /\ size <= remaining

Allocate(size, reading) ==
  /\ active
  /\ Planned(size)
  /\ Checked(reading) = "none"
  /\ Fits(size)
  /\ Charged(size)
  /\ spent' = spent + size
  /\ widest' = IF widest < size THEN size ELSE widest
  /\ plan' = IF plan = NoPlan THEN NoPlan ELSE [plan EXCEPT !.left = @ - size]
  /\ UNCHANGED <<scope, failure, calls, succeeded, now>>

AllocationRefused(size, reading) ==
  /\ active
  /\ Planned(size)
  /\ Checked(reading) # "none" \/ ~Fits(size)
  /\ failure' = IF Checked(reading) = "none" THEN "memory" ELSE Checked(reading)
  /\ UNCHANGED <<scope, remaining, plan, calls, succeeded, now, spent, widest>>

(* numforge_budget_end: what the latest operation does with the scope. *)
EndsScope_Always == active
EndsScope == active /\ calls[Len(calls)] = "owner"

(* An operation returns: calculator_budget_status overrules its own status,
   then the owner ends the scope. *)
StatusOf(ok, reading) == ok /\ Checked(reading) = "none"

Leave(ok, reading) ==
  /\ calls # <<>>
  /\ calls' = SubSeq(calls, 1, Len(calls) - 1)
  /\ succeeded' = StatusOf(ok, reading)
  /\ failure' = IF EndsScope THEN "none" ELSE Checked(reading)
  /\ active' = (active /\ ~EndsScope)
  /\ plan' = NoPlan
  /\ UNCHANGED <<started, duration, single, asked, remaining, now, spent, widest>>

Tick ==
  /\ now < MaxTime
  /\ now' = now + 1
  /\ UNCHANGED <<scope, remaining, failure, plan, calls, succeeded, spent, widest>>

Next ==
  \/ \E ms \in Milliseconds, bytes \in Bytes, limit \in Singles, reading \in Readings :
       Enter(ms, bytes, limit, reading)
  \/ \E reading \in Readings : Check(reading)
  \/ \E first, second \in Sizes : AdmitPair(first, second) \/ AdmitPlan(first, second)
  \/ DropPlan
  \/ \E size \in Sizes, reading \in Readings :
       Allocate(size, reading) \/ AllocationRefused(size, reading)
  \/ \E ok \in BOOLEAN, reading \in Readings : Leave(ok, reading)
  \/ Tick

Spec == Init /\ [][Next]_vars

-----------------------------------------------------------------------------
TypeOK ==
  /\ active \in BOOLEAN
  /\ started \in Nat \cup {Unreadable}
  /\ duration \in Nat /\ remaining \in Nat /\ single \in Nat
  /\ failure \in {"none", "time", "memory"}
  /\ plan \in [left : Nat, largest : Nat]
  /\ calls \in Seq(Role)
  /\ succeeded \in BOOLEAN
  /\ now \in Nat /\ asked \in Nat /\ spent \in Nat /\ widest \in Nat

(* A scope is open exactly while its owner runs, and the owner is the
   outermost operation: none is left open for the next request of the thread,
   and none is ended under a caller that still relies on it (runtime.h:13-14,
   "nested scopes reuse the current budget and must not end it"). *)
OutermostOwns ==
  /\ active <=> calls # <<>>
  /\ \A k \in 1 .. Len(calls) : calls[k] = "owner" <=> k = 1

(* Whatever nested operations allocate, their sum stays within what the owner
   asked for, and each allocation within the single limit (runtime.h:16-17). *)
WithinLimits ==
  active => remaining + spent = asked /\ widest <= single

(* As long as the outermost operation runs, whatever the nested ones do, they
   neither end its scope nor reset or extend its limits nor clear its first
   failure (docs/design/PARAMETRIC_EXPRESSIONS.md:30). *)
ScopeIsShared ==
  [][calls # <<>> /\ calls' # <<>> =>
       /\ active'
       /\ UNCHANGED <<started, duration, single, asked>>
       /\ remaining' <= remaining
       /\ failure # "none" => failure' = failure]_vars

(* An operation that succeeds did so in the time and memory its scope allows,
   at whatever depth it ran and whichever of its callees' failures it ignored. *)
SuccessIsInBudget ==
  [][Len(calls') < Len(calls) /\ succeeded' =>
       /\ started # Unreadable
       /\ now - started < duration
       /\ spent <= asked]_vars

(* Allocations that an admission query found room for are not refused for
   their size, as long as nothing else is allocated first: the callers pick
   the algorithm that needs the memory on the strength of the answer
   (multiplication.c:38, normalization.c:31, factorial.c:67). *)
PlanIsHonoured ==
  [][plan # NoPlan /\ failure = "none" => failure' # "memory"]_vars
===============================================================================
