------------------------------ MODULE WebTraffic ------------------------------
(***************************************************************************)
(* The connections of the web server: numforge_handle_connection_before    *)
(* of src/apps/web/server/web_server.c with its handlers, and the session  *)
(* routes of src/apps/web/http/session_api.c, composed with one client's   *)
(* Session and the leases of the client store (see ClientLocks).           *)
(*                                                                         *)
(* A worker serves one connection: it reads the request piece by piece,    *)
(* routes it, waits for a lease, computes under it and sends the reply.    *)
(* The peer may stall or close wherever the worker waits for it.  Time is  *)
(* a tick; each phase has a deadline, counted down in the connection, and  *)
(* the worker moves once it has passed.  How streams become requests and   *)
(* what a target means is the subject of HttpRequest and HttpTargets; here *)
(* a request is its method, path, fields and body.                         *)
(***************************************************************************)
EXTENDS Session

CONSTANTS
  Connections,   \* one per worker
  Requests,      \* what peers ask: [method, path, fields, body, text, name]
  Pieces,        \* recv calls a request takes
  MaxRequests,   \* bound on the connections of a behaviour
  MaxTimed,      \* bound on them for time to pass
  ReadTicks, WaitTicks, ServeTicks, SendTicks, DrainTicks

Targets == INSTANCE HttpTargets

ASSUME TrafficAssumption ==
  {Pieces, MaxRequests, MaxTimed} \cup {ReadTicks, WaitTicks, ServeTicks, SendTicks, DrainTicks}
    \subseteq Nat

(* Numbers of revisions are read up to UINT64_MAX, see DecimalNumber. *)
ASSUME RequestsAssumption ==
  /\ Requests \subseteq
       [method : STRING, path : STRING, body : STRING, text : Inputs, name : Names,
        fields : Seq([key : STRING, value : STRING, number : Int])]
  /\ \A q \in Requests : \A i \in DOMAIN q.fields :
       q.fields[i].key = "revision" =>
         /\ q.fields[i].number <= MaxRevision
         /\ q.path = "/api/conversions" /\ q.fields[i].number > 0
              => q.fields[i].number \in ConversionRevisions

VARIABLES
  conn,       \* per connection: what its worker is doing
  alive,      \* the client store has the session, perhaps as a tombstone
  requests,   \* number of connections so far
  seen        \* history variable: a page a peer has received, or None

traffic == <<conn, alive, requests, seen>>
allVars == <<vars, traffic>>

Closed ==
  [pc |-> "idle", request |-> None, arrived |-> 0, left |-> 0, age |-> 0,
   lease |-> "none", held |-> 0, page |-> None, code |-> 0]

InitTraffic ==
  /\ Init
  /\ conn = [c \in Connections |-> Closed]
  /\ alive \in BOOLEAN
  /\ requests = 0
  /\ seen = None

-----------------------------------------------------------------------------
(* Reading the request. *)

Changed(c, new) == conn' = [conn EXCEPT ![c] = new]
Unaltered == UNCHANGED <<alive, requests, seen>>
Quiet == UNCHANGED vars /\ Unaltered

Accept(c, q) ==
  /\ conn[c].pc = "idle"
  /\ requests < (IF \E d \in Connections : conn[d].age > 0 THEN MaxTimed ELSE MaxRequests)
  /\ requests' = requests + 1
  /\ Changed(c, [Closed EXCEPT !.pc = "reading", !.request = q, !.left = ReadTicks])
  /\ UNCHANGED <<vars, alive, seen>>

(* The deadline of the request is not moved by the pieces that arrive. *)
Received_RestartsDeadline(s) == [s EXCEPT !.arrived = @ + 1, !.left = ReadTicks]
Received(s) == [s EXCEPT !.arrived = @ + 1]

Receive(c) ==
  /\ conn[c].pc = "reading"
  /\ conn[c].arrived < Pieces
  /\ conn[c].left > 0
  /\ Changed(c, Received(conn[c]))
  /\ Quiet

(* numforge_send_bytes_response starts a deadline of its own. *)
Replying(s, code) == [s EXCEPT !.pc = "sending", !.left = SendTicks, !.code = code]
Released(s) == [s EXCEPT !.lease = "none", !.held = 0]

ReadFails(c) ==
  /\ conn[c].pc = "reading"
  /\ conn[c].arrived < Pieces
  /\ \E code \in {400, 413} \cup (IF conn[c].left = 0 THEN {408} ELSE {}) :
       Changed(c, Replying(conn[c], code))
  /\ Quiet

-----------------------------------------------------------------------------
(* Routing and the lease. *)

(* What becomes of each request: its handler or its code, and its lease. *)
Routed ==
  [q \in Requests |->
     Targets!Route(q.method, q.path, q.fields, q.body, [allowed |-> TRUE, hasLength |-> TRUE])]
Leased ==
  [q \in Requests |-> Targets!LeaseOf(Routed[q].handler, q.method, q.path, q.fields, q.body)]

HandlerOf(q) == Routed[q].handler
Code(q, status) == Targets!Code(HandlerOf(q), status)
FieldOf(q, key) == Targets!NumberIn(q.fields, key, 0)
WordOf(q, key) == Targets!ValueOf(q.fields, key, "none")
Has(q, key) == key \in Targets!Keys(q.fields)

Dispatch(c) ==
  LET q == conn[c].request
  IN  /\ conn[c].pc = "reading"
      /\ conn[c].arrived = Pieces
      /\ Changed(c,
           IF HandlerOf(q) = "none" THEN Replying(conn[c], Routed[q].code)
           ELSE IF Leased[q].status # "OK" THEN Replying(conn[c], Code(q, Leased[q].status))
           ELSE IF Leased[q].value = "none"
           THEN [conn[c] EXCEPT !.pc = "serving", !.left = ServeTicks]
           ELSE [conn[c] EXCEPT !.pc = "waiting", !.left = WaitTicks])
      /\ Quiet

(* The cache has an entry of its own; the other leases are of the session. *)
Compatible(held, wanted) ==
  \/ held = "none"
  \/ (held = "CACHE") # (wanted = "CACHE")
  \/ held = "READ" /\ wanted = "READ"

Available(c) ==
  \A d \in Connections \ {c} : Compatible(conn[d].lease, Leased[conn[c].request].value)

(* A tombstone is only lent to a request that may release it again. *)
Lent(access) ==
  CASE access = "CACHE" -> TRUE
    [] access = "START" -> ~(alive /\ released)
    [] access = "RETAINED" -> alive
    [] OTHER -> alive /\ ~released

Acquire(c) ==
  LET access == Leased[conn[c].request].value
  IN  /\ conn[c].pc = "waiting"
      /\ Available(c)
      /\ Lent(access)
      /\ Changed(c, [conn[c] EXCEPT !.pc = "serving", !.left = ServeTicks, !.lease = access])
      /\ alive' = (alive \/ access = "START")
      /\ UNCHANGED <<vars, requests, seen>>

(* The store may be full, or the wait too long. *)
AcquireFails(c) ==
  /\ conn[c].pc = "waiting"
  /\ \E status \in {"SESSION_BUSY", "SESSION_EXPIRED"} :
       /\ status = "SESSION_EXPIRED" => Available(c) /\ ~Lent(Leased[conn[c].request].value)
       /\ Changed(c, Replying(conn[c], Code(conn[c].request, status)))
  /\ Quiet

-----------------------------------------------------------------------------
(* The evaluation endpoint.  Its reply is sent under the lease; session      *)
(* routes and conversions give it back before they send theirs.             *)

Delivered_HoldsLease(q, s) == s
Delivered(q, s) == IF HandlerOf(q) = "evaluate" THEN s ELSE Released(s)

Finish(c, status) ==
  LET q == conn[c].request
  IN  Changed(c, Delivered(q, Replying(conn[c], Code(q, status)))) /\ Unaltered

Serves(c, handler) == conn[c].pc = "serving" /\ HandlerOf(conn[c].request) = handler

(* Out of time or memory, a mutation may have been applied all the same. *)
Outcomes == {"OK", "TIME_LIMIT"}

Evaluate(c) ==
  LET q == conn[c].request
      r == FieldOf(q, "revision")
      commits == WordOf(q, "action") = "commit"
  IN  /\ Serves(c, "evaluate")
      /\ WordOf(q, "action") \in {"preview", "commit"}
      /\ \E ctx \in Contexts, seed \in Seeds :
           \/ /\ \/ commits /\ Confirm(r, q.text, ctx, seed)
                 \/ commits /\ IsReplay(r, q.text, ctx) /\ UNCHANGED vars
                 \/ ~commits /\ ShowCached(r, q.text, ctx, seed)
                 \/ ~commits /\ Preview(r, q.text, ctx, seed)
              /\ Finish(c, "OK")
           \/ /\ ComputeRejected(r) \/ ComputeFails(r, seed)
              /\ Finish(c, "TIME_LIMIT")
           \/ /\ ~(commits /\ IsReplay(r, q.text, ctx))
              /\ UNCHANGED vars
              /\ Finish(c, IF Fresh(r) THEN "SESSION_MEMORY_LIMIT" ELSE "STALE_REQUEST")

Delete(c) ==
  LET q == conn[c].request
      r == FieldOf(q, "revision")
  IN  /\ Serves(c, "evaluate")
      /\ WordOf(q, "action") = "delete-variable"
      /\ \/ DeleteVariable(r, q.name) /\ Finish(c, "OK")
         \/ /\ ~Fresh(r)
            /\ UNCHANGED vars
            /\ Finish(c, IF IsDeletionRetry(r, q.name) THEN "OK" ELSE "STALE_REQUEST")

(* What leaves the session as it is, in the time its budget allows: a start and
   a cached evaluation; a conversion, a matrix and a currency. *)
Compute(c) ==
  LET q == conn[c].request
  IN  /\ conn[c].pc = "serving"
      /\ \/ HandlerOf(q) = "evaluate" /\ WordOf(q, "action") \in {"start", "none"}
         \/ HandlerOf(q) \in {"convert", "matrix", "currency", "units"}
      /\ UNCHANGED vars
      /\ \E status \in Outcomes : Finish(c, status)

(* A graph may read a session, and may be pinned to it; a fast view that cannot
   be had falls back on the exact samples within the same budget. *)
Graph(c) ==
  LET q == conn[c].request
      stale == conn[c].lease = "READ" /\ Has(q, "at") /\ FieldOf(q, "at") # revision
  IN  /\ Serves(c, "session")
      /\ q.path \in {"/api/graph/sample", "/api/graph/plot"}
      /\ UNCHANGED vars
      /\ \E status \in IF stale THEN {"STALE_REQUEST"} ELSE Outcomes : Finish(c, status)

\* Verified points, roots and the list of functions need no session.
Solve(c) ==
  /\ Serves(c, "session")
  /\ conn[c].request.path \in {"/api/graph/verify", "/api/equations/solve", "/api/functions"}
  /\ UNCHANGED vars
  /\ \E status \in Outcomes : Finish(c, status)

-----------------------------------------------------------------------------
(* The session routes: session_request, called by numforge_web_session_request. *)

Holds(c, access) == Serves(c, "session") /\ conn[c].lease = access

Mutation(q) == Targets!SessionMutation(q.path, q.fields, q.body)

Refuse(c) ==
  LET q == conn[c].request
      releases == q.path = "/api/session" /\ WordOf(q, "action") = "release"
      expired == released /\ ~releases
  IN  /\ Holds(c, "RETAINED")
      /\ expired \/ Mutation(q).status # "OK"
      /\ UNCHANGED vars
      /\ Finish(c, IF expired THEN "SESSION_EXPIRED" ELSE "INVALID_ARGUMENT")

Mutates(c, actions) ==
  LET q == conn[c].request
  IN  /\ Holds(c, "RETAINED")
      /\ Mutation(q).status = "OK"
      /\ Mutation(q).value \in actions

\* calculator_session_mutate; a tombstone may be released once more.
Mutate(c) ==
  LET q == conn[c].request
      r == FieldOf(q, "revision")
      action == IF WordOf(q, "action") = "clear-history" THEN "clear" ELSE WordOf(q, "action")
  IN  /\ Mutates(c, {"reset", "clear-history", "release"})
      /\ action = "release" \/ ~released
      /\ \/ /\ IF action = "clear" THEN ClearHistory(r) ELSE Restart(r, action)
            /\ \E status \in Outcomes : Finish(c, status)
         \/ /\ ~Fresh(r)
            /\ UNCHANGED vars
            /\ Finish(c, IF IsLifecycleRetry(r, action) THEN "OK"
                         ELSE IF released THEN "SESSION_EXPIRED" ELSE "STALE_REQUEST")

(* application_conversion_clear and application_conversion_confirm, whose
   evaluation may fail and whose bytes may be refused. *)
ChangeConversions(c) ==
  LET q == conn[c].request
      r == FieldOf(q, "revision")
      clears == WordOf(q, "action") = "clear"
      retries(ctx) == IF clears THEN r \in {conversionRevision} \cap {conversionClear}
                      ELSE IsConversionReplay(r, q.text, ctx)
  IN  /\ Mutates(c, {"clear", "convert"})
      /\ ~released
      /\ \E ctx \in Contexts, status \in Outcomes :
           \/ /\ IF clears THEN ClearConversions(r) ELSE ConfirmConversion(r, q.text, ctx)
              /\ Finish(c, status)
           \/ /\ ~clears /\ ConversionFresh(r)
              /\ UNCHANGED vars
              /\ Finish(c, "TIME_LIMIT")
           \/ /\ ~ConversionFresh(r)
              /\ UNCHANGED vars
              /\ Finish(c, IF retries(ctx) THEN status ELSE "STALE_REQUEST")

-----------------------------------------------------------------------------
(* Reading a page.  The revision it may be pinned to is that of what it      *)
(* lists; its items are formatted one by one, under the request's budget.    *)

PinnedTo_SessionOnly(path) == revision
PinnedTo(path) == IF path = "/api/conversions" THEN conversionRevision ELSE revision

(* One variable is enough to tell the states of their list apart. *)
Listing(path) ==
  CASE path = "/api/conversions" -> conversions
    [] path = "/api/session/history" -> history
    [] path = "/api/session/variables" ->
         LET defined == {n \in Names : variables[n] # None}
         IN  IF defined = {} THEN <<>> ELSE <<variables[CHOOSE n \in defined : TRUE]>>
    [] OTHER -> <<>>

(* The items a query asks for: from an offset, or the one with an id. *)
Chosen(q) ==
  LET listed == Listing(q.path)
      n == Len(listed)
      wanted == FieldOf(q, "offset") + Targets!NumberIn(q.fields, "limit", 8)
  IN  IF Has(q, "id") THEN {i \in 1 .. n : listed[i].revision = FieldOf(q, "id")}
      ELSE FieldOf(q, "offset") + 1 .. (IF wanted > n THEN n ELSE wanted)

StartReading(c) ==
  LET q == conn[c].request
      missing == \/ Has(q, "id") /\ Chosen(q) = {}
                 \/ q.path = "/api/session/value" /\ variables[q.name] = None
      page == [at |-> PinnedTo(q.path), total |-> Len(Listing(q.path)), chosen |-> Chosen(q),
               items |-> <<>>]
  IN  /\ Holds(c, "READ")
      /\ q.path \in Targets!Listings \cup {"/api/session", "/api/session/value"}
      /\ UNCHANGED vars
      /\ IF Has(q, "at") /\ FieldOf(q, "at") # PinnedTo(q.path) THEN Finish(c, "STALE_REQUEST")
         ELSE IF missing THEN Finish(c, "INVALID_ARGUMENT")
         ELSE Changed(c, [conn[c] EXCEPT !.pc = "listing", !.page = page]) /\ Unaltered

ReadItem(c) ==
  LET page == conn[c].page
      next == Min(page.chosen) + Len(page.items)
      listed == Listing(conn[c].request.path)
  IN  /\ conn[c].pc = "listing"
      /\ Len(page.items) < Cardinality(page.chosen)
      /\ Changed(c, [conn[c] EXCEPT !.page.items =
                       Append(@, IF next <= Len(listed) THEN listed[next] ELSE None)])
      /\ Quiet

ReadFailsLate(c) ==
  conn[c].pc = "listing" /\ UNCHANGED vars /\ Finish(c, "TIME_LIMIT")

ReadEnds(c) ==
  /\ conn[c].pc = "listing"
  /\ Len(conn[c].page.items) = Cardinality(conn[c].page.chosen)
  /\ UNCHANGED vars
  /\ Finish(c, "OK")

-----------------------------------------------------------------------------
(* Sending the reply.  The peer gets all of it, or the deadline or the peer
   ends the connection; after a 413 the rest of the request is drained. *)
Closes(c) ==
  Changed(c, IF conn[c].code = 413
             THEN [conn[c] EXCEPT !.pc = "draining", !.left = DrainTicks]
             ELSE Closed)

IsPage(s) == s.code = 200 /\ s.page # None /\ s.request.path \in Targets!Listings

Sent(c) ==
  /\ conn[c].pc = "sending"
  /\ conn[c].left > 0
  /\ Closes(c)
  /\ \/ UNCHANGED seen
     \/ /\ seen = None
        /\ IsPage(conn[c])
        /\ seen' = [path |-> conn[c].request.path, page |-> conn[c].page]
  /\ UNCHANGED <<vars, alive, requests>>

SendFails(c) == conn[c].pc = "sending" /\ Closes(c) /\ Quiet

Drained(c) == conn[c].pc = "draining" /\ Changed(c, Closed) /\ Quiet

-----------------------------------------------------------------------------
(* Time passes unless a worker's deadline has, and ages what is in progress. *)
Tick ==
  /\ requests <= MaxTimed
  /\ \E c \in Connections : conn[c].pc # "idle"
  /\ \A c \in Connections : conn[c].pc # "idle" => conn[c].left > 0
  /\ conn' = [c \in Connections |->
                IF conn[c].pc = "idle" THEN conn[c]
                ELSE [conn[c] EXCEPT !.left = @ - 1, !.age = @ + 1,
                                     !.held = IF conn[c].lease = "none" THEN 0 ELSE @ + 1]]
  /\ Quiet

(* expire_clients: an idle session nobody holds becomes a tombstone. *)
Expire ==
  /\ alive /\ ~released
  /\ \A c \in Connections : conn[c].lease \in {"none", "CACHE"} /\ conn[c].pc # "waiting"
  /\ released' = TRUE
  /\ history' = <<>> /\ detached' = None /\ preview' = None /\ conversions' = <<>>
  /\ variables' = [n \in Names |-> None]
  /\ random' = 0 /\ seeded' = FALSE
  /\ revision' = 0 /\ conversionRevision' = 0 /\ conversionClear' = 0 /\ reserved' = 0
  /\ lifecycle' = [revision |-> 0, action |-> "none"]
  /\ deletion' = [revision |-> 0, name |-> NoName]
  /\ latest' = None
  /\ UNCHANGED traffic

Peer(c) == (\E q \in Requests : Accept(c, q)) \/ Receive(c) \/ Sent(c)

Worker(c) ==
  \/ ReadFails(c) \/ Dispatch(c) \/ Acquire(c) \/ AcquireFails(c)
  \/ Evaluate(c) \/ Delete(c) \/ Compute(c) \/ Graph(c) \/ Solve(c)
  \/ Refuse(c) \/ Mutate(c) \/ ChangeConversions(c)
  \/ StartReading(c) \/ ReadItem(c) \/ ReadFailsLate(c) \/ ReadEnds(c)
  \/ SendFails(c) \/ Drained(c)

NextTraffic == (\E c \in Connections : Peer(c) \/ Worker(c)) \/ Tick \/ Expire

SpecTraffic == InitTraffic /\ [][NextTraffic]_allVars

-----------------------------------------------------------------------------
(* Pages of one list that report the same revision are of the same list,
   whatever other connections changed while one of them was formatted and
   between them; so a peer may join them (session_api.c:672 and 712,
   SESSION_HTTP_API.md:97).  A restart's mark is not told apart from itself at
   the top of its range. *)
PagesAgree ==
  \A c \in Connections :
    LET one == conn[c].page
        other == seen.page
    IN  /\ conn[c].pc = "sending" /\ IsPage(conn[c])
        /\ seen # None
        /\ seen.path = conn[c].request.path /\ other.at = one.at
        /\ seen.path = "/api/conversions" => one.at < MaxRevision
        => /\ one.total = other.total
           /\ \A i \in one.chosen \cap other.chosen :
                one.items[i - Min(one.chosen) + 1] = other.items[i - Min(other.chosen) + 1]

(* However slowly a peer sends its request or takes its reply, and however
   long others hold the lease, a worker is free again once each phase has had
   its deadline once; what is drained was not served (web_server.c:52, 224 and 140). *)
EndsByDeadline ==
  \A c \in Connections :
    conn[c].age <= ReadTicks + SendTicks + Max({WaitTicks + ServeTicks, DrainTicks})

(* A peer that does not take its reply keeps the lease of its session from
   others only at the evaluation endpoint, and there for one send at most
   (session_api.c:795, web_server.c:760 and 883). *)
LeasesEnd ==
  \A c \in Connections :
    conn[c].lease # "none" =>
      conn[c].held <= ServeTicks + (IF HandlerOf(conn[c].request) = "evaluate" THEN SendTicks
                                    ELSE 0)
=============================================================================
