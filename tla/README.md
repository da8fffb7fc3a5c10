# NumForge: specification and proofs

NumForge is an arbitrary-precision calculator: a C library of numbers and an
expression engine, an application layer with sessions and clients, and a
loopback web server with a pool of worker threads. This directory specifies the
parts of it that are hard to test, the order of things in the server and the
arithmetic and evaluation routes of the engine, model-checks them with TLC and
proves the main properties of the stateful ones with TLAPS. Source paths are relative to the
root of the repository; `PROJECT.json` maps every definition to its lines.

## The system

| Part | State it keeps | Operations | Modelled in |
|---|---|---|---|
| Client store (`src/application/clients`) | two pools of entries (sessions, evaluation caches), their FIFO queues, counters and tombstones, retained bytes, limits | acquire with and without waiting, release, retention callback, expire, configure, destroy | `ClientStore` |
| Worker pool and acceptor (`apps/web/server/web_workers.c`, `web_main.c`) | ring of connections, active count, threads, stop flags | start, submit, take, serve, expire, status, stop, accept loop | `WebWorkers` |
| Session (`src/application/sessions`) | revision, history, detached answer, preview, variables, random state, marks of the latest deletion and lifecycle request, reserved bytes | compute (preview, confirm, replay), delete variable, clear, reset, release | `Session` |
| Confirmed conversions (`src/application/conversions`) | conversion history, its revision and clear mark | confirm, replay, clear | `Session` |
| Evaluation responses (`apps/web/http/web_api.c`, `apps/web/server/web_server.c`) | evaluation cache: revision, value, text, reservation | cached evaluation; the result and the copy of an answer | `EvaluationCache`, `SessionResponses` |
| Resource budgets (`src/runtime/numforge_alloc.c`) | one thread-local scope: deadline, remaining bytes, single limit, first failure | begin, check, admission queries, allocate, end | `Budget` |
| HTTP requests (`apps/web/http/http_request.c`, the parsers of `web_server.c` and `session_api.c`) | the bytes received so far | probe, read, parse a target, route | `HttpRequest`, `HttpTargets` |
| Connections (`web_server.c`, `session_api.c`) | one request per connection, its lease, its deadline | read, route, lease, compute, list pages, send, drain | `WebTraffic` |
| Parser (`src/engine/parser`) | none between calls | tokenize, parse, bind | `Tokens`, `Parser` |
| Evaluators and API (`src/engine/evaluator`, `api`) | none between calls | evaluate exactly, in decimals, in complex numbers; mark what is independent of the precision | `ExactEvaluator`, `DecimalEvaluator`, `ComplexEvaluator`, `Calculator` |
| Big integers (`src/core/bigint`) | workspaces of one call | arithmetic, powers, bits, number theory, digits | `BigInt`, `BigIntFunctions` |
| Decimals, rationals (`src/core/bigdecimal`, `bigrational`) | the cached power of a series' workspace | arithmetic, rounding, roots, statistics, text | `BigDecimal`, `DecimalFormat`, `Rationals` |
| Units (`src/modules/units`) | none | exact and rounded conversion | `UnitConversion` |
| Adaptive graph (`src/application/graphs/graph.c`, `src/modules/numerical/refinement.c`) | arrays of samples and flags, ring of waiting edges, allowances | sample, split, accept, skip, set aside, anchor, stop, fail | `AdaptiveGraph` |
| Root search and scan (`src/modules/numerical/root.c`, `scan.c`) | bracket, grid, roots found, iterations and evaluations spent | halve, quarter, verify, scan a cell, list | `RootSearch` |
| Transcendental functions, complex decimals, quantities, integrals, linear algebra, equations, matrices | none between calls | – | no (see below) |
| Command line, Python binding, browser front end | – | sequential adapters; presentation | no |

How they interact. `main` accepts a connection and submits it to the pool. A
worker takes it, reads a request and acquires a lease of the client's session or
cache from the store, perhaps waiting in the queue of the entry. Under the lease
it calls the session, the conversions or the cached evaluation; these reserve
the bytes they will retain through a callback into the store, which takes the
store's mutex again, and run inside a budget scope of the worker's thread. The
handler builds the response from the session or cache while it still holds the
lease, sends it, releases the lease and closes the socket.

What is hard there:

* threads that compete for entries, queues and one condition variable, with
  deadlines, cancellation, idle expiry and replacement of entries in between;
* sockets that change hands between the acceptor, the ring and the workers while
  the pool fills up, expires, fails to start or stops;
* requests that are repeated, late or reordered, told apart only by revisions
  chosen by the client, and previews, histories and random draws that are cached
  across them;
* bytes that are accounted for before ownership is exchanged, in a quota shared
  by two leases of the same client;
* scopes that nest through every layer and must be owned by exactly one;
* requests that arrive in pieces and targets that are cut up from their end;
* lists that a client reads page by page while others change them, and peers
  that trickle, stall and do not take their reply;
* carries, corrections and Karatsuba halves that only rare limbs exercise,
  values that must be rounded once, and a workspace that an exhausted budget
  leaves half-way;
* a ring of indices into arrays that grow under it, and searches that spend out of
  one allowance what they must keep for their verification;
* texts that differ in one character from another derivation of the grammar, and
  expressions that can be evaluated along several routes which must agree.

`PROJECT.json` lists these as hazards, line by line, with the properties that
would catch each of them going wrong.

## Modules

| Module | Purpose |
|---|---|
| `ClientStore` | the client store, one action per critical section of its mutex |
| `ClientLocks` | what the store promises: per client a payload and a reader-writer lock with a FIFO line |
| `ClientStoreMC` | instances of `ClientStore` |
| `ClientStoreProofs` | its inductive invariant and safety theorems; waiting, tombstones, order and quota, and that each pool implements `ClientLocks` |
| `SumsAndLoops` | lemmas about loops and about the sum of a function over a finite set, for the proofs of several modules |
| `WebWorkers` | the pool and the acceptor, one action per critical section or socket operation |
| `ConnectionLine` | what the pool promises: a bounded FIFO line with one owner per connection and a gate |
| `WebWorkersProofs` | its inductive invariant and theorems, and that it implements `ConnectionLine` |
| `Session` | one session and its conversions, one action per call |
| `SessionResponses` | the evaluation handler composed with `Session`: what is answered |
| `SessionResponsesMC` | instances of both: the expressions |
| `SessionProofs` | the inductive invariant and theorems of both |
| `WebTraffic`, `WebTrafficMC` | connections composed with `Session` and the leases of its client; the requests |
| `WebTrafficProofs` | its inductive invariants and theorems, and that its calls are a behaviour of `Session` |
| `HttpRequest`, `HttpTargets` | from a stream to a request; from a target to a route, options and a lease |
| `HttpRequests` | a server that reads, understands and routes one request after the other; what the bytes and the target of a request mean |
| `EvaluationCache` | the evaluation cache and what is answered from it |
| `RequestsProofs` | the inductive invariant and theorems of `EvaluationCache`; that requests are read, understood and routed as `HttpRequests` says, for every input |
| `Budget` | the resource scope of one thread and the operations nested in it |
| `Calls` | statuses, loops and truncating division: how the modules below write C down |
| `BigInt` | integers as sequences of limbs: comparison, sum, difference, school product, long division |
| `BigIntFunctions` | what is built on them: Karatsuba, powers, bits, number theory, digits |
| `EngineProofs` | the inductive invariant and theorems of `Budget`; that the kernel in `BigInt` computes what it should, for every width of a limb and every size |
| `BigDecimal`, `DecimalFormat`, `Rationals` | decimals and fractions over integers, and their texts |
| `ArithmeticMC` | inputs of all of these and the definitions they are compared with |
| `AdaptiveGraph` | the arrays of a curve and the ring that schedules its samples |
| `CurveEdges` | what the drawing of a curve promises: a queue of edges, each judged once |
| `RootSearch` | the bracketed search for a root and the scan of a grid |
| `NumericsProofs` | the inductive invariants and theorems of both, and that `AdaptiveGraph` implements `CurveEdges` |
| `NumericsMC` | the union of `ArithmeticMC` and these two |
| `Tokens`, `Parser` | from a sequence of characters to a tree |
| `UnitConversion`, `ExactEvaluator`, `DecimalEvaluator`, `ComplexEvaluator`, `Calculator` | from a tree to a value, each evaluator extending the one before |
| `ExpressionGrammar`, `ExpressionMeaning` | the documented grammar as a relation; the rational number a tree means |
| `ExpressionsMC`, `RequestsMC` | texts, variables and answers; the union of small requests, sent to `HttpRequests`, and expressions; the requests of one cache |

### ClientStore

`entry` holds both pools; an entry is its id, the flags and counters `busy`,
`readers` and `released`, its queue, its retained bytes and how old `last_used`
is. `call` is what each thread is doing: idle, waiting with an entry, an id and
an access, or holding a lease. `signalled` are the waiting threads that a
broadcast has reached and that have not run since, so a lost wake-up is visible
as a waiting thread outside `signalled` that could proceed.

| Action | Code |
|---|---|
| `AcquireKnown`, `AcquireNew` | the first pass of `application_client_acquire_wait` through `session_slot`, for a client that has an entry or not, with the sweep that precedes it, the choice of a victim and the advance of the cursor |
| `AcquireWaiting` | the same call joining the queue |
| `Recheck` | a woken call looks again (the loop of `await_slot`) |
| `GiveUp` | its deadline passed or it was cancelled |
| `Release`, `Resize`, `ReleaseSession` | the end of a lease, the retention callback, the end of a session under its lease |
| `Expire`, `Elapse`, `Configure`, `Destroy` | sweep, passing of the idle time, limits, destruction |

A clock that cannot be read (`UINT64_MAX`) is a value of `ClockReads`: it stamps
entries so that they never look idle, and disables a sweep.

### WebWorkers

The variables are the fields of the pool, the place of every thread in
`serve_connections` and of `main` in its loop, and their local variables that
hold a socket. Connections are numbered in the order of acceptance; `aged` is
how many of them have waited too long, because stamps are monotonic. Failing
`pthread_create`, `accept` and set-up calls, signals at any moment and spurious
wake-ups are actions. `Serve` is the whole request; it ends by its deadline.

### Session, SessionResponses, EvaluationCache

A value is not a number but what it was computed from: its expression, the
confirmation that `ans` came from, the one its variable came from, its random
draw and the numeric settings that mattered. Two values are equal exactly if the
evaluator would have computed the same, so a stale cached value differs from a
current one, and a repeated draw is visible. What an expression depends on, and
how large its value is, is given by the expressions of the MC modules.

Every call of a session runs under an exclusive lease, so it is one action.
Calls come with any revision and any input. A call that the session refuses or
recognises as a retry changes nothing: in `Session` it is a stuttering step, in
`SessionResponses` a replay is an action of its own because it is answered. A
failed evaluation consumes its revision and seeds the generator
(`ComputeFails`), a malformed assignment only the former (`ComputeRejected`).

`SessionResponses` and `EvaluationCache` add what the handler answers: the result
and, for a complex value, its copy. Both take every value to be complex; for a
real one there is no copy, and the rest is the same.

### Budget

The fields of the scope are thread-local, so a single thread is the whole state.
`calls` are the nested operations of the engine and the application that began a
scope, each `owner` or `nested`; what such an operation does in between is any
sequence of checks, admission queries and allocations, and it may ignore every
failure until its status passes `calculator_budget_status`. A `plan` is what an
admission query promised and has not been allocated yet; `DropPlan` and the
return of the operation forget it.

### WebTraffic

`conn` is what the worker of each connection is doing: reading, waiting for its
lease, computing, formatting a page item by item, sending or draining. Time is
`Tick`: every phase has a deadline that is counted down in the connection, the
worker moves once it has passed, and `age` counts the ticks since the
connection was accepted. A peer may stall or close wherever the worker waits for
it. The session is `Session`'s, its mutations taken under the lease the route
asks for; leases are the reader-writer lock of `ClientLocks` without its line. A
page lists the items it shows with the revision it reports; `seen` remembers one
page that a peer received.

It covers one lifetime of one client's session, new or already with two history
entries and a conversion (`InitUsed`); the replacement of the entry by another
client is in `ClientStore`. Whether a quota refuses or a time limit passes is
nondeterministic. Serialisation is outside every budget, and its time is not
bounded by `ServeTicks`: only waiting counts. The mark of a conversion restart
saturates at `MaxRevision`, where pages cannot be told apart, and is left out
there.

### HttpRequest, HttpTargets, HttpRequests

A stream is a sequence of header lines, NUL bytes and body bytes; a header line
is its name with the digits or the origin it carries. `Probe` is the parser on
what has arrived so far and `ReadRequest` the loop that feeds it. A target is a
path and the fields of its query in the order of the text, so that what the
suffix parsers of `web_server.c` cut off with `strstr` is a first occurrence.
`Route` chooses a handler and `LeaseOf` the lease it will ask for.

`HttpRequests` calls them one after the other on any stream, digits, fields,
method and path, and states of each answer what the input means without an order
in which it comes: `Meaning` of a whole stream, `Spelled` digits, `Says` of a
whole target. `RequestsMC` makes the same calls on small inputs.

### Calls, BigInt, BigIntFunctions, BigDecimal, DecimalFormat, Rationals

A C function that returns a status and fills a result is an operator that
returns both, and a `for` loop is a recursive function of its counter. `BigInt`
works on limbs of `LimbBits` bits with the carries, borrows and corrections of the
code: every product of two limbs goes through their halves and every wrap is the
one of the C type, so the width is the only thing that differs from `uint64_t`.
What the code writes with a function that calls itself (Karatsuba, the product
tree of a factorial) is in `BigIntFunctions`, so that `BigInt` can be reasoned about; `BigDecimal` and the modules above it take integers for
their coefficients (a text of a mode comes with the length its memory was
allocated for), and keep scales in `MinScale .. MaxScale` so that they
overflow. Thresholds (Karatsuba, chunks of powers, guard digits) are constants.

### AdaptiveGraph, CurveEdges, RootSearch

`numforge_refine_intervals` knows edges by the index of their left sample, and
the callback of `graph.c` inserts a sample into three arrays at each probe.
`AdaptiveGraph` has both: `Sample` is the callback, `Probe` the iteration of the
scheduler around it, which takes an edge from the ring, shifts the indices that
moved and appends the halves of an edge that is split. `adaptive_peaks` then
walks over the same arrays while it inserts anchors. How a curve is judged, where
an anchor is found and when the budget is too low are choices.

`CurveEdges` has no indices: a queue of edges given by their ends, judged once and
oldest first, and the sets of edges that are drawn or blank. `AdaptiveGraph`
implements it under the mapping that reads each waiting index as the edge it
names.

`RootSearch` samples a function that is not given but chosen as it is asked, and
remembered: a sample is a gap, an exact zero or a rounded value, which may be
zero too. A verification at twice the precision may say anything. Searches are
`numforge_root_solve_strategy` with a strategy that proposes points inside the
bracket or none. `root.c` itself does not look whether they are inside: the
midpoint it takes by default is, and the only strategy of the code compares its
rounded proposal with both bounds and falls back to the midpoint
(`numeric_root_brent.c:258-266`), so a proposal elsewhere is not a state of the
program. Scans are `numforge_roots_scan`, one sample per step, with a
search for each bracket. Coordinates are integers and stand for fractions, which
always have another between two of them: `Room[n]` is how far apart bounds are
that can be moved `n` times more, at least four times `Room[n - 1]`, and the bounds
a search begins with are as far apart as `MaxIterations` moves need. Such distances
exist for every number of iterations, so nothing of the code is excluded.

### Tokens, Parser and the evaluators

A text is a sequence of characters, trees are records. `Parser` keeps the
recursion of the code with its two limits of depth. Each evaluator returns a
value, a status, or `NUMERICAL`: the value of a function that only a numerical
method computes, about which nothing is claimed. `Calculator` binds names,
evaluates with the typed answer and marks what is independent of the precision
(`calculator_expression_independent`).

Left out of the evaluators: error columns, the length check of the input, time
and memory (in `Budget`), exponents and places at the limits of their type.
Constants are decimals of six digits. An expression draws at most one random
number. `significant_division` is always set, as in every context the program
makes. The rounding mode is half-even: under a directed one `-(1/3)` written out
and with a name for its part may differ, because a sign before a quotient is
tried exactly and a sign before a variable is not.

## Runs

| Run | Question | Bounds | Properties |
|---|---|---|---|
| `ClientStoreLocks` | do leases exclude, are queues accounted for, is a wake-up ever lost or a writer overtaken, does each pool implement `ClientLocks`? | 3 threads, 2 clients for 1 entry of each pool, queues of 2, 2 waiting in all, failing clock | `LeaseExclusion` `QueueAccounting` `NoLostWakeup` `WriterNotOvertaken` `PoolsAreLocks` |
| `ClientStorePayloads` | who finds another client's entry after expiry and replacement, is every byte accounted for while both payloads grow and limits change? | 2 threads, 3 clients for 2 entries of each pool, two sizes, two settings of the limits | `PinnedIdentity` `WithinQuota` |
| `ClientStoreProgress` | does every waiting call return without a deadline? | 3 threads, 2 clients, 1 entry of each pool | `WaitersReturn` |
| `WebWorkersPool` | is each socket owned once and closed once, is every connection closed, does a stop end the process, does a connection leave the queue although no worker is ever free? | 2 workers, ring of 2, 4 connections | `SocketOwnedOnce` `FreedUnused` `RingIsLine` `ConnectionsClose` `StopCompletes` `QueueExpires` |
| `SessionRequests` | are answers current, draws unique, retries recognised, bytes exact, conversion marks kept? | 6 kinds of expression, 2 settings, 4 revisions, 2 of them for conversions, history of 2, 1 variable slot for 2 names, 6 bytes | `DrawsOnce` `RetriesRecognised` `ReservedIsOwned` `ShowsCurrentValue` `AnswerSurvives` `ConversionMarkKept` |
| `SessionResponsesCopy` | does the copy in a response belong to its result? | the same without conversions, 9 bytes | `CopyIsResult`: **violated** |
| `BudgetScopes` | do limits hold for nested operations together, is a success within them? | 3 nested operations, limits of 0–4 bytes, 3 ticks, failing clock | `WithinLimits` `ScopeIsShared` `SuccessIsInBudget` `PlanIsHonoured` |
| `WebTraffic` | do pages that report one revision agree, is a worker free again in bounded time, does a slow peer keep a lease? | 2 workers, 3 connections of 15 requests, time passes for the first 2 | `PagesAgree` `EndsByDeadline` `LeasesEnd` |
| `Requests` | is what was sent what is read, is a target understood as a whole, what can a foreign origin do, is a text parsed as the grammar says, does every route to an answer keep its meaning? does a hit of the cache equal a fresh evaluation, does an older request replace newer work? | buffer of 8, bodies up to 3, texts of up to 5 characters of three alphabets and one-place edits of ten longer ones, depth 6, 3 arguments, 0 and 1 places, 4 answers; for the cache 5 expressions, 4 settings, 4 revisions, 3 bytes | `ReadsWhatWasSent` `TargetsUnderstood` `ForeignOriginsOnlyRead` `ParsesGrammar` `AnswersMean` `ResultIsFresh` `NewerWorkStays` |
| `IndependentOfPrecision` | is a value that is marked as independent of the precision the same for every precision? | the expressions of `Requests` | `IndependentOfPrecision`: **violated** |
| `DecimalTextLimit` | does a limit bound the bytes of a text? | the texts of `Arithmetic`, limits of 0, 6 and 40 bytes | `OutputIsBounded`: **violated** |
| `Arithmetic` | do the kernels compute what integers, fractions and roundings are, and refuse only what cannot be had? is each edge of a curve judged once, does a search keep its bracket and a scan its word? | limbs of 4 bits, up to 30 of them; scales that overflow at 12; series in one workspace that a budget stops anywhere; 8 samples, edges halved twice, 2 phases; 2 iterations, 7 samples of a search, 10 of a scan of 2 segments, 2 roots | `IntegersExact` `DecimalsRounded` `TextsRounded` `SeriesAgrees` `CurveIsRefined` `RootsBracketed` |

Every property is stated with a comment in its module; `PROJECT.json` has, for
each, a mutated definition that breaks it.

### The three findings

* `SessionResponsesCopy`: `numforge_handle_evaluation_impl`
  (`apps/web/server/web_server.c:671`) finds the value of a result a second
  time, by its text, to build the `copy` that `docs/reference/HTTP_API.md:24`
  promises. Confirm `complex(sin(90);1)` in radians, preview it in degrees,
  preview it in radians again. The third request is answered from the history,
  but the preview in degrees still has its text, so the result
  `0.8939966636 + i` comes with the copy `complex(1E+0;1E+0)`.
* `IndependentOfPrecision`: `calculator_expression_independent`
  (`src/engine/api/calculator.c:193`), by its own comment a conservative proof of
  independence from working precision, takes every variable to be independent of
  it. A rational variable next to a decimal one is however rounded to the
  working precision (`evaluator.c:485-506`). With `x=1/3` and `y=sqrt(2)`, a
  preview of `x+y` at 10 places is reused for a request at 60 places, which
  shows 34 correct digits.

* `DecimalTextLimit`: `decimal_notation_plain_length`
  (`src/core/bigdecimal/format_mode.c:166-170`) compares the text without its
  sign with the limit and adds the sign afterwards, so `bigdecimal_format_mode`
  gives `-999510`, seven bytes, for a limit of six in plain notation.
  `include/numforge/bigdecimal.h:586` and `docs/reference/C_API.md:215-217` say
  that the limit bounds the text. The memory is allocated for the longer text
  and the engine looks at the length once more (`formatter.c:74`,
  `value.c:99`), so only callers of the C interface see it. `TextsRounded` says
  what the code does instead: everything but the sign of a plain text counts.

Results and histories are not affected by the first (`SessionRequests`). The
second is a matter of the mark alone: `Session` takes an input as exact only if
its value really is independent of the settings, so `ShowsCurrentValue` holds of
the caches given a correct mark, and this run shows where the mark is not.

### Why the bounds are enough

* Store: a lost wake-up or an overtaken writer needs a holder, a queued call and
  a third that arrives, reads or gives up: three threads and a queue of two.
  With two clients and one entry the third call can also be for the client that
  displaces the other. Accounting and replacement need one client more than
  entries, and a pinned victim beside a free one; each payload fits its client's
  limit, two of one client exceed it and three of different clients exceed the
  total. Threads and clients are symmetric in both runs.
* Pool: a ring of two wraps, fills up and drains with four connections; two
  workers are enough for one to take the connection the other was woken for.
* Session: four revisions allow a confirmation, two requests in between and the
  request that is affected; a history of two evicts.
* Cache: two requests define "older"; three more exercise failures and hits in
  between.
* Budget: a third nesting level adds a nested operation inside a nested one.
* Traffic: a page that is wrong needs two page requests and one change between or
  during them; a slow peer, a second request that waits for its lease. Each
  phase is at least one tick and reading is two, so a restarted deadline shows.
* Requests: with a buffer of 8 a header of each kind, its end and a body are each
  cut in the middle, fill the buffer exactly and exceed it by one. The grammar's
  productions all derive texts of five characters; three alphabets keep numbers,
  names and operators apart, and the edits reach calls, units and both limits of
  depth.
* Arithmetic: limbs of four bits make every correction of a quotient digit and
  every carry out of the top limb occur among operands of a few limbs; operands
  of thirty limbs reach Karatsuba twice, balanced and not. Decimal coefficients of up to
  four digits contain every pattern of kept digit, discarded digits and tie.

* Curves: the ring of eight slots wraps and fills up to the one that stays free; the
  limits on samples and on depth are each reached first in some order of splits,
  with anchors in edges of every length. Roots: seven samples allow two
  iterations, the second with quarters and a verification, and not one more; a
  scan reaches its limit in the grid, in a cell and in front of a search.

`CHECK_DEADLOCK FALSE` appears in the runs of `Session` and `WebTraffic`, where
revisions and connections are bounded (`MaxRevision`, `MaxRequests`), so a run
ends when they are used up, and in those of `ExpressionsMC` and `RequestsMC`,
which make one call and stop.

## Fairness

* `ClientStore!FairSpec`: holders release their leases, because requests end by
  their deadline, and woken threads run. Deadlines of waiting calls are *not*
  fair, so `WaitersReturn` does not come from calls that give up.
* `WebWorkers!FairSpec`: the acceptor runs. `WorkersRun`, that each worker runs
  and a request therefore ends, is the premise of `ConnectionsClose` and
  `StopCompletes` only; `TimePasses` is that of `QueueExpires`, in which workers
  may be stuck in a request for ever. Nothing makes a signal arrive, a call fail
  or a connection arrive.

## Proofs

The theorems hold for every value of the constants that satisfies the named
assumption of the module (`ConstantsAssumption`, `WorkersAssumption`,
`SessionAssumption`, `TrafficAssumption`, `RequestsAssumption`, `CacheAssumption`,
`BudgetAssumption`, `BigIntAssumption`, `GraphAssumption`). These fix types, that threads, workers and names are finitely many, that names and
numbers of the program differ from the model values that stand for none of them,
and ask for at least one entry, queue place, ring slot, waiting call, history
entry and possible draw, and for room for two samples. `RequestsAssumption` types the
requests: any method, path, body and fields, with revisions up to the largest one.
The theorems about `HttpRequests` assume nothing: they hold for every input of `NextHttp`.

* `ClientStoreProofs`. None of the properties is inductive alone. A release
  lowers a reader count that must be at least one, so the counters must be exact
  (`Counted`); a woken call is served on the entry its id names now, so ids must
  be unique (`Unique`) and queued entries pinned (`Identified`); entries are
  pinned by their queues, so queues must hold exactly the waiting calls
  (`Lined`). `Consistent` states this of any entries and calls, because each
  operation works on what its sweep leaves behind, and `IInv` states it of the
  current ones. Theorems: `TypeCorrect`, `Exclusion`, `PinnedEntriesStay`,
  `IdsAreUnique`, `QueuesAreAccounted`, `CountersAreExact`.
* On top of `IInv`: `WakeupsAreNotLost` (each step
  either broadcasts or leaves what blocks the sleeping calls),
  `TombstonesStay` and `WritersAreNotOvertaken`; and `StaysWithinQuota`. `Quota`
  states the property of sums over all entries, of the store (`Whole`) and of each
  client (`Owned`). A step is compared entry by entry: one that sweeps, replaces or
  releases takes the bytes of some entries and changes no other entry's client
  (`Shrunk`), whoever holds them; one that resizes changes a single summand by
  what was granted. It is granted against the one partner entry that
  `retain_client` finds, which is all the client owns because ids are unique.
* `PoolsRefineLocks`, in the same module, is the whole of `PoolsAreLocks`. What a
  client sees is stated of any entries and calls (`Pay`, `Holds`, `InLine`), so
  that one step can be taken apart into what its sweep does and what the call does
  after it. `AtHome` and `LineAtHome` read the payload and the line off the only
  entry of a client (ids are unique), `HoldersAtHome` and `FreeIsUnpinned` say
  that a client is free exactly if its entry is not pinned (counters are exact),
  which is why a sweep or a replacement is a decay to everybody (`CalmIsApart`,
  `SweptCalm`, `Bystanders`). `AskedAppend` and `AskedWithout` carry joining and
  leaving a queue over to the line. One lemma then maps each operation (`ServedKnown`,
  `ServedNew`, `JoinedWaits`, `WaiterServed`, `WaiterLeaves`, `Unlocked`, `Retired`,
  and decay for all others), for either pool (`Locks(p)`).
* `SumsAndLoops`, the sums. Both byte counts are folds over sets. That a sum does not depend
  on the order in which the elements are taken is shown from the recursive
  definition of the sum, without an induction theorem with an operator for the
  hypothesis: a family of subsets with no minimal set outside it is everything
  (`SubsetInduction`). `SumWithout`, `SumChanged`, `SumAtMost`, `SumShifted`,
  `SumSplit` and `SumMasked` are what the stores need of it.
* `WebWorkersProofs`. That a socket has one owner is not inductive: a worker
  takes the oldest connection because it believes that the ring holds one, the
  acceptor answers expired connections after it has unlocked, and the pool is
  freed because all threads have left it. The invariant therefore places every
  connection in a hand, a slot of the ring, the array of dropped ones or nowhere
  (`OncePerPlace`, `OnePlace`), and says what the place of each thread in its code
  tells the others (`Control`, `Hands`, `Wakeful`, `ActiveExact`). Theorems:
  `TypeCorrect`, `SocketsOwnedOnce`, `FreedAfterUse`, `NoWakeupLost`,
  `ActiveIsExact`. `RingRefinesLine` maps the slots between cursor and count to
  the abstract line: a submission appends, a worker takes the head, an expiry
  removes a prefix, a stop empties the line and shuts the gate; every other step stutters.
* `SessionProofs`. The invariant says that a kept preview is what the next
  confirmation of its text would compute, from where it would compute it
  (`PreviewCurrent`), that a history only exists of a seeded generator (`Seeded`),
  that its draws lie in order before the current position (`DrawsOnce` with the
  position), which request was the latest mutation (`LatestKnown`), and that the
  reservation is the sum of what is owned (`ReservedIsOwned`, `WithinLimit`).
  `LatestKnown` is what `RetriesRecognised` lacks: the marks of the history, of
  deletions and of the lifecycle survive each other, and a request that failed took
  a revision and left no mark, so only their order tells which was applied last. Theorems: `TypeCorrect`,
  `DrawsAreOnce`, `ReservationExact`, `RetriesAreRecognised`, `AnswerIsKept`,
  `ConversionMarkIsKept`; `ResponsesAreSession` carries them to the endpoint, and
  `CurrentValueShown` is about its answers: a preview, a history entry and a fresh
  evaluation give the same value wherever the code allows one for the other.
* `WebTrafficProofs`, about any number of connections, any requests and any
  deadlines, in three layers.
  - *Each connection.* A worker's step changes its own connection by one of six kinds
    of move (`Moves`). `Timed` bounds what a worker has spent together with what is left
    of its deadline, so that a tick preserves it; `Served` says which lease
    a request has at each point, and `Paged` that a page is read to its end before it is
    sent. `MovesSound` proves all of them of one move, `AgedSound` of a tick. Theorems:
    `WorkersAreFreed`, `LeasesAreReturned`.
  - *The session behind them.* `NextIsStep` classifies every step: a tick, an expiry, a
    page that opens or continues, a call of the session, or work that touches neither.
    That the call is one of `Session` with the revision and action that were asked
    for follows from what the parsers of `HttpTargets` accept (`EvaluationRouted`,
    `SuffixKeeps`, `MutationRouted`, `ReadRouted`). Leases are pairwise compatible
    (`Exclusive`, inductive together with: a list is read of a session that exists).
    Theorems: `LeasesAreExclusive`, `ChangesAreExclusive` (only the
    holder of an exclusive lease changes the session), `CallsAreSerial` (the server does to
    the session one call after another), and with it what `SessionProofs`
    proves of invariants: `DrawsAreOnceServed`, `ReservationExactServed`,
    `RetriesAreRecognisedServed`, `TypeCorrectServed`. An expiry keeps
    those invariants although it is no step of `Session`.
  - *The pages.* That two pages of one revision agree is not inductive: one may
    still be read, item by item, from a list that others want to change. The invariant
    says that marks only grow and that the list changes only with its mark
    (`ListsMarked`, from the order of the histories below it, `Dated`), that a page whose mark is the
    list's is a copy of the list so far as it was read (`Current`), that what is being read has
    that mark because its lease keeps changes away (`ReadsNow`), and that any two pages
    of one mark agree (`Agreed`). A change makes every page older than the list, and a
    new page is compared with the others through the list. Theorem: `PagesOfOneRevisionAgree`.
    `PagesAgree` leaves out the conversions' mark at its largest value, where it
    would be false; a session that has expired is not listed again, since the module
    covers one lifetime.
* `RequestsProofs`, the cache. The invariant says of the entry what `ResultIsFresh`
  says of answers, that it is the value of its text under its settings, and that
  the revision is the newest one seen; a matching value is then the one that is
  asked for. Theorems: `TypeCorrect`, `ResultsAreFresh`, `NewerWorkIsKept`,
  `ReservationIsExact`.
* `RequestsProofs`, the requests. Here a call is one step and the work is in the
  loops of the C code, which are recursive functions of their counter. Such a
  function is shown to exist and to be what `CHOOSE` yields (`Iterates` in `SumsAndLoops`, from
  `Induction`, which is that of numbers: a set of numbers with the first and with
  the successor of each of its members has them all, since there is no least one
  outside it). What then holds turn by turn is stated of each loop on its own:
  - `NumberExact`: the digits so far are the number so far, and the check before the
    multiplication fails exactly if the whole number is too large, for any limit.
  - `HeadersMean`: after `k` header lines, either what was found is what those
    lines say in any order (`LinesSay`), or they cannot stand together
    (`LinesStand`) and no later line can change that.
  - `ProbeDecides` and `NextPiece`: what a probe says of the first bytes is true of
    the whole stream, unless it asks for more. Hence, after each `recv`, either
    all bytes sent so far are in the buffer, as far as they fit, or the
    bytes at some earlier point were already a request or an error (`Known`); the
    end of the stream or the deadline settles the first case (`LastPiece`). With
    `NumberExact` this is the whole of `ReadsWhatWasSent`: `RequestsAreReadAsSent`.
  - `Reached`: what is left of a target after some options were cut off its end. It
    is read in both directions: what was cut off is admitted and in its order, and
    if the target says something at all then what is left only has the options
    that come before. One lemma for each parser (`SuffixReaches` for the four with a list of
    values, `CacheReaches` for client and revision, `PrecisionReaches`) carries it on
    or shows why the text says nothing; `TargetMeaning` chains them in the order of
    the code. This is the whole of `TargetsUnderstood`: `TargetsAreUnderstood`.
  - `RoutesOnlyRead`: the cases of the router, in the order of its overlapping
    prefixes. This is the whole of `ForeignOriginsOnlyRead`: `ForeignPagesOnlyRead`.
* `EngineProofs`, the budgets. The invariant adds that an open plan fits into what remains
  while nothing failed. Theorems: `TypeCorrect`, `OutermostOwnsScope`,
  `LimitsHold`, `ScopeStaysShared`, `SuccessNeedsBudget`, `PlansAreHonoured`.
* `EngineProofs`, the integers. `Numbers` are the canonical values that fit the limit
  of the code, and `ValueOf` the integer each stands for; `BigIntAssumption` asks for an
  even width of a limb up to 64 bits, for `Base` and `HalfBase` to be the powers of two of that
  width and of half of it, and for room for one limb. `Low(s, n)` is what
  the lowest `n` limbs of `s` stand for and `Weight(n)` what the limb above them counts. Each
  loop of the code is given its course by `Iterates` and then followed place by
  place with `Induction`: what the limbs written so far stand for, together with the
  carry or the borrow, is what the operation yields of the limbs read so far. Theorems:
  - `ComparisonExact`: the order of the representations is that of the values, so a
    value has one representation.
  - `AdditionExact`, `SubtractionExact`: for all signs, with the comparison of magnitudes that
    decides which is taken from which. A refusal means that the sum may not fit.
  - `SchoolProductExact`: the product of two limbs by their halves is exact and its
    carry fits (two limbs plus two carries stay below the square of the base); each row
    adds its multiple at its place and never carries out of the buffer.
  - `DivisionExact`, the whole of Knuth's Algorithm D as the code has it. The operands are
    shifted until the divisor fills its top limb, which multiplies both by one power of
    two. The estimate from the two top limbs of the window, corrected with a third,
    is never below the digit and at most one above it; taking its multiple from the window
    borrows exactly if it was above, and then adding the divisor back once, with its carry
    dropped, leaves what is owed. `DivideWide`, which divides two limbs by one bit by
    bit, and the division by a single limb are exact on the way. A refusal other
    than of a zero divisor means that the shifted dividend may not fit.
  These are the operations `add`, `sub`, `div` and `mod` of `IntegersExact`, the
  comparison it relies on and the leaf of its products.
* `NumericsProofs`, the graph. A new index is right if the old one was, and if indices
  and flags moved by the same rule; slots are told apart although they wrap
  because fewer edges wait than there are samples. What is missing for an
  inductive invariant is the state before the ring exists
  (`RingFollowsStage`). Theorems: `RingAndArraysFit` and `EdgesWaitOnce`.
  `RingRefinesCurve` is the whole of `CurveIsRefined`. `Cut` states once what the insertion of
  a sample does to the edge at each index and to the flags; from it follow
  what the probe and the anchor do to the waiting, the drawn and the blank edges.
  An anchor replaces an edge that the abstract queue knows only by its ends, so
  the coordinates must be in order for that edge to be the only one of its ends
  (`Sorted`); and the abstract curve tells of a limit at once, the code at the end
  of the refinement (`Reported`).
* `NumericsProofs`, the roots. `RootsAreBracketed` is the whole of `RootsBracketed`,
  for every function: any sample, in any order. The invariant adds what a search
  and a scan must remember for it. A search's recorded signs are the signs of the
  samples at its bounds, which are as far apart as its remaining moves need
  (`Bounded`; `RoomLeft` is the arithmetic of the midpoints). A scan has handled
  every crossing up to where it stands, or still holds its bracket (`Thorough`), and
  while a search runs, the whole allowance of the search is still unspent
  (`ScanHolds`). Samples never change once taken, so a crossing of the grid neither
  comes nor goes later (`KnownStays`, `CrossingStays`). The list of roots
  uses the lemmas about insertion that the graph needs.

Only model-checked:

* liveness (`WaitersReturn`, `ConnectionsClose`, `StopCompletes`,
  `QueueExpires`), which with `ENABLED` is out of the prover's reach;
* what the recursive operators of arithmetic and expressions compute for every
  input, which is induction over data: of `IntegersExact` all that `BigIntFunctions`
  adds (Karatsuba, powers, bits, number theory, digits), and `DecimalsRounded`,
  `TextsRounded`, `SeriesAgrees`, `ParsesGrammar`, `AnswersMean`.

The theorems named `TypeCorrect` state the types of what the others speak about.
`IdsAreUnique`, `TombstonesStay`, `CountersAreExact`, `OutermostOwnsScope`,
`ReservationIsExact`, `NoWakeupLost`, `ActiveIsExact`, `LeasesAreExclusive`,
`ChangesAreExclusive` and `CallsAreSerial` hold for every instance, so no run checks
these formulas separately.

## Not modelled

* Arguments that are rejected before any state is read (`NULL`, malformed ids).
* Counters at the width of their type: `readers == SIZE_MAX`, revisions at
  `UINT64_MAX` other than through `MaxRevision`.
* Allocation failures inside a call, except as the failure of the whole call;
  the rollback of a confirmation over its memory limit makes it a stuttering
  step.
* Statistics, fault injection and profiling, which exist in special builds.
* In `Session`, what the engine computes: a value is what it was computed from,
  and a failure of an evaluation is possible at any time.
* Transcendental functions and complex decimals: whether a series converges to the last digit is analysis, not a state space. The
  evaluators name such a value `NUMERICAL`.
* Quantities (`values/quantity.c`), currency rates, matrices, polynomials and
  regression: sequential compositions of the arithmetic that is modelled.
* Of graphs, the classification of a curve, the search for the position of an
  anchor, and the projection and analysis of the finished arrays; integrals and
  grids. Equations and expressions, which sample, classify and solve one request
  at a time and keep nothing between calls; the fast paths (`fast_expression.c`,
  `fast_graph.c`), which compute in binary floating point.
* Errors' columns, JSON, embedded assets, command line, Python binding and
  browser: presentation and adapters.

## Plan

1. Composition of `WebWorkers` and `ClientStore` (threads are workers): a stop
   while calls wait for leases.
2. Quantities: dimensions carried through the evaluators.
