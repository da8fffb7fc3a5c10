------------------------------- MODULE Session -------------------------------
(***************************************************************************)
(* One calculator session: src/application/sessions/session.c and the      *)
(* confirmed conversions of src/application/conversions/conversion.c.      *)
(*                                                                         *)
(* A session orders its requests by client-chosen revisions, keeps a       *)
(* preview, a bounded history, variables, the answer, the state of its     *)
(* random generator and a bounded history of conversions, and accounts for *)
(* what it retains.  It is always used under an exclusive lease, so every  *)
(* call is one action.  Calls arrive with any revision and any input:      *)
(* duplicated, late and reordered requests are all among the behaviours.   *)
(*                                                                         *)
(* A value is not a number but what it was computed from: its expression,  *)
(* the confirmation ans came from, the one the variable came from, the     *)
(* draw of the random generator and the numeric scale.  Two values are     *)
(* equal exactly if the evaluator would have computed the same.  The       *)
(* random state is the position in its stream.  A call that the session    *)
(* refuses (stale, expired, over its memory limit) or recognises as the    *)
(* retry of the latest one changes nothing and is a stuttering step.       *)
(***************************************************************************)
EXTENDS Integers, Sequences, FiniteSets, FiniteSetsExt

CONSTANTS
  Inputs,               \* expressions, as records; see InputRecord
  Names,                \* variable names
  NoName,
  Scales, Notations,    \* a numeric and a display-only setting
  MaxRevision,          \* UINT64_MAX, and the bound on a run
  ConversionRevisions,  \* revisions used for conversions
  HistoryCapacity,      \* CALCULATOR_HISTORY_CAPACITY
  ConversionCapacity,   \* APPLICATION_CONVERSION_CAPACITY
  VariableCapacity,     \* CALCULATOR_VARIABLE_CAPACITY
  Seeds,                \* what calculator_random_seed may return
  ByteLimit             \* limit of the attached retention policy

InputRecord ==
  [name : STRING, ans : BOOLEAN, random : BOOLEAN, exact : BOOLEAN,
   reads : Names \cup {NoName}, assigns : Names \cup {NoName}, size : Nat]

Revisions == 1 .. MaxRevision
Contexts == [scale : Scales, notation : Notations]
None == [none |-> TRUE]

ASSUME SessionAssumption ==
  /\ Inputs \subseteq InputRecord
  /\ NoName \notin Names
  /\ IsFiniteSet(Names)
  /\ MaxRevision \in Nat
  /\ ConversionRevisions \subseteq Revisions
  /\ HistoryCapacity \in Nat \ {0}
  /\ ConversionCapacity \in Nat \ {0}
  /\ VariableCapacity \in Nat
  /\ Seeds \subseteq Nat
  /\ Scales \subseteq Nat \ {0}
  /\ ByteLimit \in Nat

VARIABLES
  revision,      \* session->revision
  released,
  lifecycle,     \* lifecycle_revision and lifecycle_action
  deletion,      \* deletion_revision and deleted_variable
  history,       \* confirmed entries, oldest first
  detached,      \* detached_answer, or None
  preview,       \* preview with its expression and its random states, or None
  random,        \* random_state
  seeded,        \* random_initialized
  variables,     \* per name: its confirmed value, or None
  conversions, conversionRevision, conversionClear,
  reserved,      \* bytes granted by the retention policy
  latest         \* history variable: the latest mutation that was applied

calculation == <<history, detached, preview, random, seeded, variables>>
conversion == <<conversions, conversionRevision, conversionClear>>
vars == <<revision, released, lifecycle, deletion, calculation, conversion,
          reserved, latest>>

Init ==
  /\ revision = 0
  /\ released = FALSE
  /\ lifecycle = [revision |-> 0, action |-> "none"]
  /\ deletion = [revision |-> 0, name |-> NoName]
  /\ history = <<>>
  /\ detached = None
  /\ preview = None
  /\ random = 0
  /\ seeded = FALSE
  /\ variables = [n \in Names |-> None]
  /\ conversions = <<>>
  /\ conversionRevision = 0
  /\ conversionClear = 0
  /\ reserved = 0
  /\ latest = None

-----------------------------------------------------------------------------
(* Values *)

Last(s) == s[Len(s)]

(* calculator_session_answer *)
Answer_HistoryOnly == IF history # <<>> THEN Last(history) ELSE None
Answer == IF history # <<>> THEN Last(history) ELSE detached

Origin(entry) == IF entry = None THEN 0 ELSE entry.revision

Defined(in) ==
  /\ in.ans => Answer # None
  /\ in.reads # NoName => variables[in.reads] # None

Value(in, ctx, draw) ==
  [of |-> in,
   answer |-> IF in.ans THEN Origin(Answer) ELSE 0,
   variable |-> IF in.reads # NoName THEN Origin(variables[in.reads]) ELSE 0,
   draw |-> IF in.random THEN draw ELSE 0,
   scale |-> IF in.exact THEN 0 ELSE ctx.scale]

(* calculator_value_matches: the cached value is the one ctx asks for. *)
Matches(cached, ctx) == cached.value.of.exact \/ cached.context.scale = ctx.scale

-----------------------------------------------------------------------------
(* What the session owns: calculator_session_storage_bytes. *)

ValueBytes(cached) == IF cached = None THEN 0 ELSE cached.value.of.size
EntryBytes(entry) == ValueBytes(entry) + 1   \* the display text

BytesOf(s) == MapThenSumSet(LAMBDA k : EntryBytes(s[k]), 1 .. Len(s))

StorageBytes ==
  ValueBytes(preview) + ValueBytes(detached) + BytesOf(history)
    + MapThenSumSet(LAMBDA n : ValueBytes(variables[n]), Names)
    + BytesOf(conversions)

(* The policy grants what stays within its limit; its callback may refuse to
   grow, which leaves the session unchanged. *)
Granted(bytes) == bytes <= ByteLimit

Appended(s, capacity, entry) ==
  Append(IF Len(s) = capacity THEN Tail(s) ELSE s, entry)

-----------------------------------------------------------------------------
(* calculator_session_compute *)

Fresh(r) == ~released /\ r > revision

(* The latest confirmation is replayed verbatim. *)
IsReplay_IgnoresDeletion(r, in, ctx) ==
  /\ history # <<>>
  /\ Last(history).revision > lifecycle.revision
  /\ r = Last(history).revision
  /\ in = Last(history).expression
  /\ ctx = Last(history).context

IsReplay(r, in, ctx) ==
  /\ history # <<>>
  /\ Last(history).revision > deletion.revision
  /\ Last(history).revision > lifecycle.revision
  /\ r = Last(history).revision
  /\ in = Last(history).expression
  /\ ctx = Last(history).context

SamePreview(in) == preview # None /\ preview.expression = in

PreviewHit(in, ctx) == SamePreview(in) /\ Matches(preview, ctx)

HistoryHit_IgnoresVariables(in, ctx) ==
  /\ history # <<>>
  /\ ~in.ans /\ ~in.random
  /\ Last(history).expression = in
  /\ Matches(Last(history), ctx)

HistoryHit(in, ctx) ==
  /\ history # <<>>
  /\ ~in.ans /\ ~in.random /\ in.reads = NoName
  /\ Last(history).expression = in
  /\ Matches(Last(history), ctx)

Hit(in, ctx) == PreviewHit(in, ctx) \/ HistoryHit(in, ctx)

(* The generator is seeded by the first computation. *)
Base(seed) == IF seeded THEN random ELSE seed
Start(in, seed) == IF SamePreview(in) THEN preview.start ELSE Base(seed)
Advanced(in, draw) == IF in.random THEN draw + 1 ELSE draw

Computed(in, ctx, seed) ==
  IF PreviewHit(in, ctx) THEN preview.value
  ELSE IF HistoryHit(in, ctx) THEN Last(history).value
  ELSE Value(in, ctx, Start(in, seed))

NextRandom_ForgetsPreview(in, ctx, seed) ==
  IF Hit(in, ctx) THEN Start(in, seed) ELSE Advanced(in, Start(in, seed))

NextRandom(in, ctx, seed) ==
  IF PreviewHit(in, ctx) THEN preview.next
  ELSE IF HistoryHit(in, ctx) THEN Start(in, seed)
  ELSE Advanced(in, Start(in, seed))

(* A new variable needs room in the table. *)
Admissible(in) ==
  in.assigns # NoName =>
    \/ variables[in.assigns] # None
    \/ Cardinality({m \in Names : variables[m] # None}) < VariableCapacity

(* drop_preview: whatever changes what a preview was computed from drops it. *)
DropPreview == preview' = None

(* A malformed assignment, or one to a name beyond the table's capacity,
   consumes the revision. *)
ComputeRejected(r) ==
  /\ Fresh(r)
  /\ revision' = r
  /\ UNCHANGED <<released, lifecycle, deletion, calculation, conversion,
                 reserved, latest>>

(* Evaluation or formatting failed, or a budget ran out: the revision is
   consumed and the generator seeded, all else stays. *)
ComputeFails(r, seed) ==
  /\ Fresh(r)
  /\ revision' = r
  /\ random' = Base(seed)
  /\ seeded' = TRUE
  /\ UNCHANGED <<released, lifecycle, deletion, history, detached, preview,
                 variables, conversion, reserved, latest>>

(* A preview of what is cached is formatted from the cache. *)
ShowCached(r, in, ctx, seed) ==
  /\ Fresh(r)
  /\ Admissible(in)
  /\ Hit(in, ctx)
  /\ revision' = r
  /\ random' = Base(seed)
  /\ seeded' = TRUE
  /\ UNCHANGED <<released, lifecycle, deletion, history, detached, preview,
                 variables, conversion, reserved, latest>>

Preview(r, in, ctx, seed) ==
  LET bytes == StorageBytes - ValueBytes(preview) + in.size
  IN /\ Fresh(r)
     /\ Admissible(in)
     /\ ~Hit(in, ctx)
     /\ Defined(in)
     /\ Granted(bytes)
     /\ revision' = r
     /\ random' = Base(seed)
     /\ seeded' = TRUE
     /\ preview' = [expression |-> in, value |-> Computed(in, ctx, seed),
                    context |-> ctx, start |-> Start(in, seed),
                    next |-> NextRandom(in, ctx, seed)]
     /\ reserved' = bytes
     /\ UNCHANGED <<released, lifecycle, deletion, history, detached, variables,
                    conversion, latest>>

(* The size is reserved before anything is exchanged: without the preview,
   the detached answer, the entry that falls out of the history and the value
   that is assigned over, with the new value, its display and its copy. *)
ConfirmedBytes_KeepsEvicted(in) ==
  StorageBytes - ValueBytes(preview) - ValueBytes(detached)
    + (IF in.assigns = NoName THEN 0
       ELSE in.size - ValueBytes(variables[in.assigns]))
    + in.size + 1

ConfirmedBytes(in) ==
  StorageBytes - ValueBytes(preview) - ValueBytes(detached)
    - (IF Len(history) = HistoryCapacity THEN EntryBytes(Head(history)) ELSE 0)
    + (IF in.assigns = NoName THEN 0
       ELSE in.size - ValueBytes(variables[in.assigns]))
    + in.size + 1

Confirm(r, in, ctx, seed) ==
  LET value == Computed(in, ctx, seed)
      entry == [expression |-> in, value |-> value, context |-> ctx, revision |-> r]
  IN /\ Fresh(r)
     /\ ~IsReplay(r, in, ctx)
     /\ Admissible(in)
     /\ Hit(in, ctx) \/ Defined(in)
     /\ Granted(ConfirmedBytes(in))
     /\ reserved' = ConfirmedBytes(in)
     /\ revision' = r
     /\ random' = NextRandom(in, ctx, seed)
     /\ seeded' = TRUE
     /\ DropPreview
     /\ detached' = None
     /\ variables' = IF in.assigns = NoName THEN variables
                     ELSE [variables EXCEPT ![in.assigns] = entry]
     /\ history' = Appended(history, HistoryCapacity, entry)
     /\ latest' = [op |-> "confirm", revision |-> r, input |-> in, context |-> ctx]
     /\ UNCHANGED <<released, lifecycle, deletion, conversion>>

-----------------------------------------------------------------------------
(* calculator_session_delete_variable *)

IsDeletionRetry(r, n) == r = revision /\ deletion = [revision |-> r, name |-> n]

DeleteVariable(r, n) ==
  /\ Fresh(r)
  /\ variables' = [variables EXCEPT ![n] = None]
  /\ revision' = r
  /\ deletion' = [revision |-> r, name |-> n]
  /\ DropPreview
  /\ latest' = [op |-> "delete", revision |-> r, name |-> n]
  /\ UNCHANGED <<released, lifecycle, history, detached, random, seeded, conversion>>
  /\ reserved' = StorageBytes'

-----------------------------------------------------------------------------
(* calculator_session_mutate *)

IsLifecycleRetry(r, a) == r = revision /\ lifecycle = [revision |-> r, action |-> a]

ClearHistory(r) ==
  /\ Fresh(r)
  /\ detached' = Answer
  /\ history' = <<>>
  /\ DropPreview
  /\ revision' = r
  /\ lifecycle' = [revision |-> r, action |-> "clear"]
  /\ latest' = [op |-> "lifecycle", revision |-> r, action |-> "clear"]
  /\ UNCHANGED <<released, deletion, random, seeded, variables, conversion>>
  /\ reserved' = StorageBytes'

RestartMark_Zeroed == 0
RestartMark ==
  IF conversionRevision = MaxRevision THEN MaxRevision ELSE conversionRevision + 1

(* RESET and RELEASE empty the session but keep the conversions' mark. *)
Restart(r, action) ==
  /\ Fresh(r)
  /\ history' = <<>>
  /\ detached' = None
  /\ DropPreview
  /\ random' = 0
  /\ seeded' = FALSE
  /\ variables' = [n \in Names |-> None]
  /\ deletion' = [revision |-> 0, name |-> NoName]
  /\ conversions' = <<>>
  /\ conversionRevision' = RestartMark
  /\ conversionClear' = RestartMark
  /\ reserved' = 0
  /\ released' = (action = "release")
  /\ revision' = r
  /\ lifecycle' = [revision |-> r, action |-> action]
  /\ latest' = [op |-> "lifecycle", revision |-> r, action |-> action]

-----------------------------------------------------------------------------
(* application_conversion_confirm and application_conversion_clear *)

IsConversionReplay(r, in, ctx) ==
  /\ r = conversionRevision
  /\ conversions # <<>>
  /\ Last(conversions).revision = r
  /\ Last(conversions).expression = in
  /\ Last(conversions).context = ctx

ConversionFresh(r) == ~released /\ r > conversionRevision

ConvertedBytes(in) ==
  StorageBytes + in.size + 1
    - (IF Len(conversions) = ConversionCapacity THEN EntryBytes(Head(conversions)) ELSE 0)

(* The input is evaluated against the answer and the variables, unchanged. *)
ConfirmConversion(r, in, ctx) ==
  LET entry == [expression |-> in, value |-> Value(in, ctx, 0), context |-> ctx,
                revision |-> r]
  IN /\ ConversionFresh(r)
     /\ ~in.random /\ in.assigns = NoName
     /\ Defined(in)
     /\ ~IsConversionReplay(r, in, ctx)
     /\ Granted(ConvertedBytes(in))
     /\ reserved' = ConvertedBytes(in)
     /\ conversions' = Appended(conversions, ConversionCapacity, entry)
     /\ conversionRevision' = r
     /\ UNCHANGED <<revision, released, lifecycle, deletion, calculation,
                    conversionClear, latest>>

ClearConversions(r) ==
  /\ ConversionFresh(r)
  /\ conversions' = <<>>
  /\ conversionRevision' = r
  /\ conversionClear' = r
  /\ UNCHANGED <<revision, released, lifecycle, deletion, calculation, latest>>
  /\ reserved' = StorageBytes'

-----------------------------------------------------------------------------
Evaluations ==
  \E r \in Revisions, in \in Inputs, ctx \in Contexts, seed \in Seeds :
    \/ ShowCached(r, in, ctx, seed)
    \/ Preview(r, in, ctx, seed)
    \/ Confirm(r, in, ctx, seed)

Failures ==
  \E r \in Revisions :
    \/ ComputeRejected(r)
    \/ \E seed \in Seeds : ComputeFails(r, seed)

Mutations ==
  \E r \in Revisions :
    \/ \E n \in Names : DeleteVariable(r, n)
    \/ ClearHistory(r)
    \/ \E action \in {"reset", "release"} : Restart(r, action)

Conversions ==
  \E r \in ConversionRevisions :
    \/ \E in \in Inputs, ctx \in Contexts : ConfirmConversion(r, in, ctx)
    \/ ClearConversions(r)

Next == Evaluations \/ Failures \/ Mutations \/ Conversions

Spec == Init /\ [][Next]_vars

-----------------------------------------------------------------------------
Stamped == [expression : Inputs, context : Contexts, revision : Revisions]

IsEntry(x) ==
  /\ [expression |-> x.expression, context |-> x.context, revision |-> x.revision]
       \in Stamped
  /\ x.value.of = x.expression

TypeOK ==
  /\ revision \in 0 .. MaxRevision
  /\ conversionRevision \in 0 .. MaxRevision
  /\ conversionClear \in 0 .. conversionRevision
  /\ released \in BOOLEAN /\ seeded \in BOOLEAN
  /\ lifecycle \in [revision : 0 .. revision,
                    action : {"none", "clear", "reset", "release"}]
  /\ deletion \in [revision : 0 .. revision, name : Names \cup {NoName}]
  /\ Len(history) <= HistoryCapacity
  /\ Len(conversions) <= ConversionCapacity
  /\ \A k \in 1 .. Len(history) : IsEntry(history[k])
  /\ \A k \in 1 .. Len(conversions) : IsEntry(conversions[k])
  /\ detached # None => IsEntry(detached)
  /\ \A n \in Names : variables[n] # None => IsEntry(variables[n])
  /\ random \in Nat /\ reserved \in 0 .. ByteLimit

(* No position of the random stream is drawn by two confirmations, however
   previews, failures and confirmations alternate (session.c:314 and 400). *)
DrawsOnce ==
  /\ \A j, k \in 1 .. Len(history) :
       /\ j < k
       /\ history[j].value.of.random
       /\ history[k].value.of.random
       => history[j].value.draw < history[k].value.draw
  /\ \A k \in 1 .. Len(history) :
       history[k].value.of.random => history[k].value.draw < random

(* A repeated request is recognised exactly if it is the latest mutation of
   the session.  Previews and failures in between do not hide a confirmation,
   which is answered from the history, but a deletion, a clear or a restart
   does (session.c:276-290); a deletion or a lifecycle request succeeds again
   without effect until any later request consumes a revision (session.c:92
   and 155). *)
RetriesRecognised ==
  \A r \in Revisions :
    /\ \A in \in Inputs, ctx \in Contexts :
         IsReplay(r, in, ctx) <=>
           latest = [op |-> "confirm", revision |-> r, input |-> in, context |-> ctx]
    /\ \A n \in Names :
         IsDeletionRetry(r, n) <=>
           /\ revision = r
           /\ latest = [op |-> "delete", revision |-> r, name |-> n]
    /\ \A a \in {"clear", "reset", "release"} :
         IsLifecycleRetry(r, a) <=>
           /\ revision = r
           /\ latest = [op |-> "lifecycle", revision |-> r, action |-> a]

(* The answer changes when a value is confirmed or the session restarts, and
   at no other time: it outlives its history entry, its variable and every
   preview (session.c:98-113, SESSION_HTTP_API.md:119). *)
AnswerSurvives ==
  [][Answer' # Answer =>
       /\ latest' # latest
       /\ latest'.op = "confirm" \/ latest'.op = "lifecycle"
       /\ latest'.op = "lifecycle" => latest'.action # "clear"]_vars

(* The policy has granted exactly what the session owns, although sizes are
   computed before ownership is exchanged (retention.h:7, session.c:380-393). *)
ReservedIsOwned == reserved = StorageBytes

(* The conversion revision never falls back, not even when a restart zeroes
   the session (session.c:111-114): an old conversion request stays old. *)
ConversionMarkKept ==
  [][/\ conversionRevision' >= conversionRevision
     /\ conversions # <<>> /\ conversions' = <<>>
          => conversionRevision' > conversionRevision \/ conversionRevision = MaxRevision]_vars
===============================================================================
