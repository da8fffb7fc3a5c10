------------------------------ MODULE WebWorkers ------------------------------
(***************************************************************************)
(* The worker pool of apps/web/server/web_workers.c and the acceptor loop  *)
(* of apps/web/server/web_main.c that feeds it, expires what waits too     *)
(* long in it and stops it.                                                *)
(*                                                                         *)
(* Each critical section of the pool's mutex is one action; what a thread  *)
(* does between two of them is one action per socket operation.            *)
(* Connections are numbered in the order in which they are accepted; the   *)
(* acceptor stamps them in that order, so those that waited                *)
(* NUMFORGE_WEB_QUEUE_TIMEOUT_MS are 1 .. aged.  Handling a request is one *)
(* step here, bounded by its deadline.                                     *)
(***************************************************************************)
EXTENDS Integers, Sequences, FiniteSets

CONSTANTS
  Workers,         \* the threads the pool is asked to start
  Capacity,        \* --queue-capacity
  MaxConnections,  \* bound on the connections of a run
  NoConnection

ASSUME WorkersAssumption ==
  /\ IsFiniteSet(Workers)
  /\ Workers # {}
  /\ Capacity \in Nat \ {0}
  /\ MaxConnections \in Nat
  /\ NoConnection \notin Nat

Connections == 1 .. MaxConnections

VARIABLES
  ring, head, count,   \* workers->queue, ->head, ->count
  active,              \* workers->active
  started,             \* threads created so far
  stopping,            \* workers->stopping
  freed,               \* the pool was joined and freed
  asleep,              \* workers in pthread_cond_wait, not woken
  serving,             \* per worker: its place in serve_connections
  taken,               \* per worker: the local variable "connection"
  main,                \* the acceptor's place in main
  client,              \* the acceptor's local variable "client"
  dropped,             \* the arrays "expired" and "queued" still to be closed
  result,              \* the exit status so far
  stopRequested,       \* stop_requested, set by a signal
  arrived,             \* connections accepted so far
  aged,                \* how many of them waited too long
  answer,              \* per connection: what its peer was sent
  closes               \* per connection: how often its socket was closed

pool == <<ring, head, count, active, started, stopping, freed>>
threads == <<asleep, serving, taken>>
acceptor == <<main, client, dropped, result, stopRequested>>
peers == <<arrived, aged, answer, closes>>
vars == <<pool, threads, acceptor, peers>>

Init ==
  /\ ring = [k \in 0 .. Capacity - 1 |-> NoConnection]
  /\ head = 0 /\ count = 0
  /\ active = 0
  /\ started = {}
  /\ stopping = FALSE /\ freed = FALSE
  /\ asleep = {}
  /\ serving = [w \in Workers |-> "unborn"]
  /\ taken = [w \in Workers |-> NoConnection]
  /\ main = "start"
  /\ client = NoConnection
  /\ dropped = <<>>
  /\ result = 0
  /\ stopRequested = FALSE
  /\ arrived = 0 /\ aged = 0
  /\ answer = [c \in Connections |-> "none"]
  /\ closes = [c \in Connections |-> 0]

(* The queued connections, oldest first. *)
Queue == [k \in 1 .. count |-> ring[(head + k - 1) % Capacity]]

Answered(c, reply) == answer' = [answer EXCEPT ![c] = reply]
Closed(c) == closes' = [closes EXCEPT ![c] = @ + 1]

(* The queue is a ring of Capacity slots, count of them in use from head on. *)
Full == count >= Capacity
Back_OffByOne == (head + count - 1) % Capacity
Back == (head + count) % Capacity

RemoveFront_HeadStays(n) == head' = head /\ count' = count - n
RemoveFront(n) == head' = (head + n) % Capacity /\ count' = count - n

NotifyAll_ButOne == asleep' \in {asleep \ {w} : w \in asleep} \cup {{}}
NotifyAll == asleep' = {}

-----------------------------------------------------------------------------
(* serve_connections *)

Sleep(w) ==
  /\ serving[w] = "idle"
  /\ w \notin asleep
  /\ count = 0
  /\ ~stopping
  /\ asleep' = asleep \cup {w}
  /\ UNCHANGED <<pool, serving, taken, acceptor, peers>>

SpuriousWake(w) ==
  /\ w \in asleep
  /\ asleep' = asleep \ {w}
  /\ UNCHANGED <<pool, serving, taken, acceptor, peers>>

Take(w) ==
  /\ serving[w] = "idle"
  /\ w \notin asleep
  /\ count > 0
  /\ ~stopping
  /\ taken' = [taken EXCEPT ![w] = ring[head]]
  /\ RemoveFront(1)
  /\ active' = active + 1
  /\ serving' = [serving EXCEPT ![w] = "taken"]
  /\ UNCHANGED <<ring, started, stopping, freed, asleep, acceptor, peers>>

(* A connection that waited too long is rejected, any other one handled. *)
Serve(w) ==
  /\ serving[w] = "taken"
  /\ Answered(taken[w], IF taken[w] <= aged THEN "rejected" ELSE "handled")
  /\ serving' = [serving EXCEPT ![w] = "served"]
  /\ UNCHANGED <<pool, asleep, taken, acceptor, arrived, aged, closes>>

CloseServed(w) ==
  /\ serving[w] = "served"
  /\ Closed(taken[w])
  /\ taken' = [taken EXCEPT ![w] = NoConnection]
  /\ serving' = [serving EXCEPT ![w] = "closed"]
  /\ UNCHANGED <<pool, asleep, acceptor, arrived, aged, answer>>

Finish(w) ==
  /\ serving[w] = "closed"
  /\ active' = active - 1
  /\ serving' = [serving EXCEPT ![w] = "idle"]
  /\ UNCHANGED <<ring, head, count, started, stopping, freed, asleep, taken,
                 acceptor, peers>>

Exit(w) ==
  /\ serving[w] = "idle"
  /\ w \notin asleep
  /\ stopping
  /\ serving' = [serving EXCEPT ![w] = "exited"]
  /\ UNCHANGED <<pool, asleep, taken, acceptor, peers>>

-----------------------------------------------------------------------------
(* numforge_web_workers_start, called once by main *)

CreateThread(w) ==
  /\ main = "start"
  /\ w \notin started
  /\ started' = started \cup {w}
  /\ serving' = [serving EXCEPT ![w] = "idle"]
  /\ main' = IF started' = Workers THEN "expire" ELSE "start"
  /\ UNCHANGED <<ring, head, count, active, stopping, freed, asleep, taken,
                 client, dropped, result, stopRequested, peers>>

CreateFails ==
  /\ main = "start"
  /\ result' = 1
  /\ main' = "stop"
  /\ UNCHANGED <<pool, threads, client, dropped, stopRequested, peers>>

-----------------------------------------------------------------------------
(* The acceptor loop *)

Signal ==
  /\ ~stopRequested
  /\ stopRequested' = TRUE
  /\ UNCHANGED <<pool, threads, main, client, dropped, result, peers>>

(* numforge_web_workers_expire: the aged connections at the head leave the
   ring under the mutex and are closed after it. *)
Expired_WhenIdle ==
  IF active > 0 THEN 0
  ELSE CHOOSE n \in 0 .. count :
         /\ \A k \in 1 .. n : Queue[k] <= aged
         /\ n < count => Queue[n + 1] > aged

Expired ==
  CHOOSE n \in 0 .. count :
    /\ \A k \in 1 .. n : Queue[k] <= aged
    /\ n < count => Queue[n + 1] > aged

Expire ==
  /\ main = "expire"
  /\ ~stopRequested
  /\ dropped' = SubSeq(Queue, 1, Expired)
  /\ RemoveFront(Expired)
  /\ main' = "accept"
  /\ UNCHANGED <<ring, active, started, stopping, freed, threads, client,
                 result, stopRequested, peers>>

RejectDropped ==
  /\ main \in {"accept", "join"}
  /\ dropped # <<>>
  /\ Answered(Head(dropped), "rejected")
  /\ Closed(Head(dropped))
  /\ dropped' = Tail(dropped)
  /\ UNCHANGED <<pool, threads, main, client, result, stopRequested, arrived, aged>>

(* select found nothing within 100 ms, or accept failed and may be retried. *)
Poll ==
  /\ main = "accept"
  /\ dropped = <<>>
  /\ main' = "expire"
  /\ UNCHANGED <<pool, threads, client, dropped, result, stopRequested, peers>>

Accept ==
  /\ main = "accept"
  /\ dropped = <<>>
  /\ ~stopRequested
  /\ arrived < MaxConnections
  /\ arrived' = arrived + 1
  /\ client' = arrived'
  /\ main' = "submit"
  /\ UNCHANGED <<pool, threads, dropped, result, stopRequested, aged, answer, closes>>

(* select or accept failed for good. *)
AcceptFails ==
  /\ main = "accept"
  /\ dropped = <<>>
  /\ result' = 1
  /\ main' = "stop"
  /\ UNCHANGED <<pool, threads, client, dropped, stopRequested, peers>>

(* The socket cannot be configured: it is closed without an answer. *)
ConfigureFails ==
  /\ main = "submit"
  /\ Closed(client)
  /\ client' = NoConnection
  /\ main' = "expire"
  /\ UNCHANGED <<pool, threads, dropped, result, stopRequested, arrived, aged, answer>>

Submit ==
  /\ main = "submit"
  /\ ~stopping
  /\ ~Full
  /\ ring' = [ring EXCEPT ![Back] = client]
  /\ count' = count + 1
  /\ NotifyAll
  /\ client' = NoConnection
  /\ main' = "expire"
  /\ UNCHANGED <<head, active, started, stopping, freed, serving, taken,
                 dropped, result, stopRequested, peers>>

SubmitRefused ==
  /\ main = "submit"
  /\ stopping \/ Full
  /\ main' = "refuse"
  /\ UNCHANGED <<pool, threads, client, dropped, result, stopRequested, peers>>

Refuse ==
  /\ main = "refuse"
  /\ Answered(client, "rejected")
  /\ Closed(client)
  /\ client' = NoConnection
  /\ main' = "expire"
  /\ UNCHANGED <<pool, threads, dropped, result, stopRequested, arrived, aged>>

LeaveLoop ==
  /\ main = "expire"
  /\ stopRequested
  /\ main' = "stop"
  /\ UNCHANGED <<pool, threads, client, dropped, result, stopRequested, peers>>

-----------------------------------------------------------------------------
(* numforge_web_workers_stop *)

Stop ==
  /\ main = "stop"
  /\ stopping' = TRUE
  /\ dropped' = Queue
  /\ count' = 0
  /\ NotifyAll
  /\ main' = "join"
  /\ UNCHANGED <<ring, head, active, started, freed, serving, taken, client,
                 result, stopRequested, peers>>

(* Only the threads that were created are joined. *)
Joined_IfAllStarted == started = Workers => \A w \in started : serving[w] = "exited"
Joined == \A w \in started : serving[w] = "exited"

Join ==
  /\ main = "join"
  /\ dropped = <<>>
  /\ Joined
  /\ freed' = TRUE
  /\ main' = "exit"
  /\ UNCHANGED <<ring, head, count, active, started, stopping, threads, client,
                 dropped, result, stopRequested, peers>>

Age ==
  /\ aged < arrived
  /\ aged' = aged + 1
  /\ UNCHANGED <<pool, threads, acceptor, arrived, answer, closes>>

Done == main = "exit" /\ UNCHANGED vars

-----------------------------------------------------------------------------
Worker(w) ==
  Sleep(w) \/ Take(w) \/ Serve(w) \/ CloseServed(w) \/ Finish(w) \/ Exit(w)

AcceptorStep ==
  \/ \E w \in Workers : CreateThread(w)
  \/ Expire \/ RejectDropped \/ Poll \/ Accept \/ ConfigureFails
  \/ Submit \/ SubmitRefused \/ Refuse \/ LeaveLoop \/ Stop \/ Join

Next ==
  \/ \E w \in Workers : Worker(w) \/ SpuriousWake(w)
  \/ AcceptorStep
  \/ CreateFails
  \/ AcceptFails
  \/ Signal
  \/ Age
  \/ Done

Spec == Init /\ [][Next]_vars

(* The acceptor runs, and so do the workers and the clock where a property
   says so; a request then ends by its deadline.  Nothing makes a signal
   arrive, a call fail, or a connection arrive. *)
FairSpec == Spec /\ WF_vars(AcceptorStep)
WorkersRun == \A w \in Workers : WF_vars(Worker(w))
TimePasses == WF_vars(Age)

-----------------------------------------------------------------------------
TypeOK ==
  /\ ring \in [0 .. Capacity - 1 -> Connections \cup {NoConnection}]
  /\ head \in 0 .. Capacity - 1
  /\ count \in 0 .. Capacity
  /\ active \in Nat
  /\ started \subseteq Workers
  /\ stopping \in BOOLEAN /\ freed \in BOOLEAN /\ stopRequested \in BOOLEAN
  /\ asleep \subseteq Workers
  /\ serving \in [Workers ->
       {"unborn", "idle", "taken", "served", "closed", "exited"}]
  /\ taken \in [Workers -> Connections \cup {NoConnection}]
  /\ main \in {"start", "expire", "accept", "submit", "refuse", "stop", "join", "exit"}
  /\ client \in Connections \cup {NoConnection}
  /\ dropped \in Seq(Connections)
  /\ result \in {0, 1}
  /\ arrived \in 0 .. MaxConnections
  /\ aged \in 0 .. arrived
  /\ answer \in [Connections -> {"none", "rejected", "handled"}]
  /\ closes \in [Connections -> Nat]

Positions(s, c) == {k \in 1 .. Len(s) : s[k] = c}

Owners(c) ==
  Cardinality({w \in Workers : taken[w] = c})
    + Cardinality(Positions(Queue, c))
    + Cardinality(Positions(dropped, c))
    + (IF client = c THEN 1 ELSE 0)

(* Every accepted socket is, at every moment, either in the hands of exactly
   one thread or queue slot, or closed exactly once: none leaks, and none is
   closed twice, whoever expires, rejects, serves or drains it
   (web_workers.h:25, "success transfers ownership"). *)
SocketOwnedOnce == \A c \in 1 .. arrived : Owners(c) + closes[c] = 1

(* The pool is freed after its last thread left, with no socket behind: no
   thread reads freed memory (web_workers.c:187-197). *)
FreedUnused ==
  freed =>
    /\ \A w \in Workers : serving[w] \in {"unborn", "exited"}
    /\ \A c \in 1 .. arrived : closes[c] = 1

(* Every accepted connection is closed in the end, even while all workers are
   busy or the server stops. *)
ConnectionsClose ==
  WorkersRun => \A c \in Connections : c <= arrived ~> closes[c] = 1

(* A stop request ends the process: the queue is drained, the workers join. *)
StopCompletes == WorkersRun => (stopRequested ~> main = "exit")

(* A connection does not wait for a worker longer than the timeout: it leaves
   the queue though no worker ever becomes free (web_workers.h:27). *)
QueueExpires ==
  TimePasses =>
    \A c \in Connections :
      Positions(Queue, c) # {} ~> Positions(Queue, c) = {}

StageOf(c) ==
  IF c > arrived THEN "new"
  ELSE IF closes[c] > 0 THEN "gone"
  ELSE IF Positions(Queue, c) # {} THEN "waiting"
  ELSE "owned"

Line == INSTANCE ConnectionLine WITH
  line <- Queue,
  stage <- [c \in Connections |-> StageOf(c)],
  shut <- stopping

(* The ring, its cursor and its count are a bounded FIFO line of connections
   that serves nobody once it stops. *)
RingIsLine == Line!Spec
===============================================================================
