--------------------------- MODULE EvaluationCache ---------------------------
(***************************************************************************)
(* The cache of the stateless evaluation endpoint: the calculation of      *)
(* src/apps/web/http/web_api.c under one CACHE lease, and the response     *)
(* that src/apps/web/server/web_server.c builds from it before it gives    *)
(* the lease back.  The lease is exclusive, so a request is one action.    *)
(* Requests arrive with any revision: late and repeated ones included.     *)
(*                                                                         *)
(* A value is what it was computed from: the expression, the settings that *)
(* mattered and, for a random one, the draw.  Every value is taken to be   *)
(* complex, the kind whose response carries a copy of its components.      *)
(***************************************************************************)
EXTENDS Integers

CONSTANTS
  Inputs,       \* expressions, as records; see InputRecord
  Angles,       \* CalculatorAngleUnit
  Scales,       \* division scales
  MaxRevision,  \* bound on the revisions of a run
  Draws,        \* what the random generator may return
  ByteLimit     \* limit of the attached retention policy

InputRecord ==
  [name : STRING, random : BOOLEAN, angular : BOOLEAN, exact : BOOLEAN, size : Nat]

Revisions == 1 .. MaxRevision
Contexts == [angle : Angles, scale : Scales]
None == [none |-> TRUE]

ASSUME CacheAssumption ==
  /\ Inputs \subseteq InputRecord
  /\ Scales \subseteq Nat \ {0}
  /\ Draws \subseteq Nat \ {0} /\ Draws # {}
  /\ MaxRevision \in Nat
  /\ ByteLimit \in Nat

VARIABLES
  revision,  \* cache->revision
  entry,     \* cache->value with its expression, or None
  reserved,  \* bytes granted by the retention policy
  seen,      \* history: newest revision of a request not refused for memory
  asked,     \* history: the latest request and its draw (0: none), or None
  response   \* history: what it was answered, or None for an error

vars == <<revision, entry, reserved, seen, asked, response>>

Init ==
  /\ revision = 0
  /\ entry = None
  /\ reserved = 0
  /\ seen = 0
  /\ asked = None
  /\ response = None

-----------------------------------------------------------------------------
Value(in, ctx, draw) ==
  [of |-> in,
   angle |-> IF in.angular THEN ctx.angle ELSE "any",
   scale |-> IF in.exact THEN 0 ELSE ctx.scale,
   draw |-> IF in.random THEN draw ELSE 0]

(* calculator_value_matches: an independent value has any scale. *)
Matches_AnyAngle(cached, ctx) ==
  cached.expression.exact \/ cached.context.scale = ctx.scale

Matches(cached, ctx) ==
  /\ cached.context.angle = ctx.angle
  /\ cached.expression.exact \/ cached.context.scale = ctx.scale

Hit(in, ctx) ==
  /\ entry # None
  /\ ~entry.expression.random
  /\ entry.expression = in
  /\ Matches(entry, ctx)

Bytes(cached) == IF cached = None THEN 0 ELSE cached.expression.size

(* The policy may refuse to grow, never to shrink. *)
Granted(bytes) == bytes <= ByteLimit
Refusable(bytes) == bytes > reserved

(* A request newer than all before it may replace what is cached. *)
Replaces(r) == r > revision
Advanced_WhenStored(r) == revision
Advanced(r) == IF r > revision THEN r ELSE revision

(* The handler copies the components of the cached value whenever it belongs
   to the same text as the request. *)
Respond(in, ctx, draw, value) ==
  /\ asked' = [input |-> in, context |-> ctx, draw |-> draw]
  /\ response' = [result |-> value,
                  copy |-> IF entry' # None /\ entry'.expression = in
                           THEN entry'.value ELSE None]

Saw(r) == seen' = IF r > seen THEN r ELSE seen

Refuse(in, ctx) ==
  /\ asked' = [input |-> in, context |-> ctx, draw |-> 0]
  /\ response' = None

-----------------------------------------------------------------------------
(* The expression is too long, a setting is invalid, evaluation or formatting
   failed or ran out of its budget: the revision advances nevertheless. *)
Fail(r, in, ctx) ==
  /\ revision' = Advanced(r)
  /\ Saw(r)
  /\ Refuse(in, ctx)
  /\ UNCHANGED <<entry, reserved>>

Reuse(r, in, ctx) ==
  /\ Hit(in, ctx)
  /\ revision' = Advanced(r)
  /\ Saw(r)
  /\ UNCHANGED <<entry, reserved>>
  /\ Respond(in, ctx, 0, entry.value)

(* An older request and a random value leave the cache alone. *)
Compute(r, in, ctx, draw) ==
  /\ ~Hit(in, ctx)
  /\ ~Replaces(r) \/ in.random
  /\ revision' = Advanced(r)
  /\ Saw(r)
  /\ UNCHANGED <<entry, reserved>>
  /\ Respond(in, ctx, draw, Value(in, ctx, draw))

Replace(r, in, ctx, draw) ==
  /\ ~Hit(in, ctx)
  /\ Replaces(r) /\ ~in.random
  /\ Granted(in.size)
  /\ revision' = r
  /\ Saw(r)
  /\ reserved' = in.size
  /\ entry' = [expression |-> in, context |-> ctx, value |-> Value(in, ctx, draw)]
  /\ Respond(in, ctx, draw, Value(in, ctx, draw))

(* Refused memory takes the revision back, so that the request can return. *)
ReplaceRefused(r, in, ctx) ==
  /\ ~Hit(in, ctx)
  /\ Replaces(r) /\ ~in.random
  /\ ~Granted(in.size) \/ Refusable(in.size)
  /\ Refuse(in, ctx)
  /\ UNCHANGED <<revision, entry, reserved, seen>>

(* application_evaluation_cache_clear: the store expired or replaced it. *)
Clear_KeepsReservation ==
  /\ revision' = 0
  /\ entry' = None
  /\ seen' = 0
  /\ asked' = None
  /\ response' = None
  /\ UNCHANGED reserved

Clear ==
  /\ revision' = 0
  /\ entry' = None
  /\ reserved' = 0
  /\ seen' = 0
  /\ asked' = None
  /\ response' = None

Next ==
  \/ \E r \in Revisions, in \in Inputs, ctx \in Contexts :
       \/ Fail(r, in, ctx)
       \/ Reuse(r, in, ctx)
       \/ \E draw \in Draws : Compute(r, in, ctx, draw) \/ Replace(r, in, ctx, draw)
       \/ ReplaceRefused(r, in, ctx)
  \/ Clear

Spec == Init /\ [][Next]_vars

-----------------------------------------------------------------------------
TypeOK ==
  /\ revision \in 0 .. MaxRevision
  /\ reserved \in 0 .. ByteLimit
  /\ entry # None => entry.expression \in Inputs /\ entry.context \in Contexts
  /\ seen \in 0 .. MaxRevision
  /\ response # None => asked.input \in Inputs /\ asked.context \in Contexts

(* Whether computed now or taken from the cache, a result is what a fresh
   evaluation of the request would give, and a random one is what this request
   drew: no earlier draw is ever shown again (tests/application/test_web_cache.c:6,
   which tries some orders of requests). *)
ResultIsFresh ==
  response # None => response.result = Value(asked.input, asked.context, asked.draw)

(* A request that is not newer than all before it never replaces what they
   left in the cache, although every failure and every hit in between takes a
   revision too and a refusal gives it back (web_api.h:52, "Revision prevents
   an older queued request from replacing newer work"). *)
NewerWorkStays ==
  [][entry' # entry /\ entry' # None => seen' > seen]_vars

(* The policy has granted what the cache owns (retention.h:7). *)
ReservedIsOwned == reserved = Bytes(entry)
===============================================================================
