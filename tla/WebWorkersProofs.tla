--------------------------- MODULE WebWorkersProofs ---------------------------
(***************************************************************************)
(* Theorems about WebWorkers for every number of workers, ring capacity    *)
(* and number of connections.  The inductive invariant places every        *)
(* connection: with a worker, in the ring, in the array of those the       *)
(* acceptor still has to close, in the acceptor's hand, or nowhere, and    *)
(* then it was closed once or did not arrive.  What the threads may assume *)
(* of each other (Control, Wakeful, Busy) says when it can change places.  *)
(***************************************************************************)
EXTENDS WebWorkers, SequenceTheorems, FiniteSetTheorems, TLAPS

InHand(c) == \E w \in Workers : taken[w] = c
Waits(c) == \E k \in 1 .. count : Queue[k] = c
Drops(c) == \E k \in 1 .. Len(dropped) : dropped[k] = c

QueueTyped == \A k \in 1 .. count : Queue[k] \in Connections

(* Where the acceptor stands tells what it holds and whether the pool runs. *)
Control ==
  /\ main \notin {"accept", "join"} => dropped = <<>>
  /\ client # NoConnection <=> main \in {"submit", "refuse"}
  /\ stopping <=> main \in {"join", "exit"}
  /\ stopping => count = 0
  /\ freed <=> main = "exit"
  /\ freed => \A w \in Workers : serving[w] \in {"unborn", "exited"}

(* Where a worker stands tells whether it holds a connection. *)
Hands ==
  \A w \in Workers :
    /\ taken[w] # NoConnection <=> serving[w] \in {"taken", "served"}
    /\ serving[w] = "unborn" <=> w \notin started

(* No worker sleeps while a connection waits or the pool stops. *)
Wakeful ==
  /\ \A w \in asleep : serving[w] = "idle"
  /\ asleep # {} => count = 0 /\ ~stopping

(* workers->active counts the workers between taking a connection and saying
   that they are done with it. *)
Serving == {w \in Workers : serving[w] \in {"taken", "served", "closed"}}
ActiveExact == active = Cardinality(Serving)

(* No connection is twice in one place. *)
OncePerPlace ==
  /\ \A v, w \in Workers : taken[v] = taken[w] /\ taken[v] # NoConnection => v = w
  /\ \A j, k \in 1 .. count : Queue[j] = Queue[k] => j = k
  /\ \A j, k \in 1 .. Len(dropped) : dropped[j] = dropped[k] => j = k

(* No connection is in two places, and one is in a place exactly from its
   arrival until it is closed, once. *)
OnePlace ==
  \A c \in Connections :
    /\ InHand(c) => ~Waits(c) /\ ~Drops(c) /\ client # c
    /\ Waits(c) => ~Drops(c) /\ client # c
    /\ Drops(c) => client # c
    /\ InHand(c) \/ Waits(c) \/ Drops(c) \/ client = c <=> c <= arrived /\ closes[c] = 0
    /\ closes[c] \in {0, 1}
    /\ c > arrived => closes[c] = 0

IInv ==
  /\ TypeOK /\ QueueTyped /\ Control /\ Hands /\ Wakeful /\ ActiveExact
  /\ OncePerPlace /\ OnePlace

-----------------------------------------------------------------------------
(* The ring *)

Wrapped(n) == IF n < Capacity THEN n ELSE n - Capacity

(* A slot number leaves the ring's end at most once. *)
LEMMA Wraps ==
  ASSUME NEW n \in 0 .. 2 * Capacity - 1
  PROVE  n % Capacity = Wrapped(n)
<1>1. Capacity \in Nat /\ Capacity > 0
  BY WorkersAssumption DEF WorkersAssumption
<1>2. CASE n < Capacity
  BY <1>1, <1>2 DEF Wrapped
<1>3. CASE n >= Capacity
  <2>1. n = Capacity * 1 + (n - Capacity)
    BY <1>1
  <2>2. n - Capacity \in 0 .. Capacity - 1
    BY <1>1, <1>3
  <2> QED
    BY <1>1, <1>3, <2>1, <2>2 DEF Wrapped
<1> QED
  BY <1>1, <1>2, <1>3

(* The slot of a queued connection. *)
LEMMA QueuedAt ==
  ASSUME head \in 0 .. Capacity - 1, count \in 0 .. Capacity, NEW k \in 1 .. count
  PROVE  Queue[k] = ring[Wrapped(head + k - 1)]
<1>1. Capacity \in Nat /\ Capacity > 0
  BY WorkersAssumption DEF WorkersAssumption
<1>2. head + k - 1 \in 0 .. 2 * Capacity - 1
  BY <1>1
<1> QED
  BY <1>2, Wraps DEF Queue

(* What leaves the front leaves the others in their order. *)
LEMMA Removed ==
  ASSUME head \in 0 .. Capacity - 1, count \in 0 .. Capacity,
         NEW n \in 0 .. count, RemoveFront(n), ring' = ring
  PROVE  /\ head' \in 0 .. Capacity - 1
         /\ count' \in 0 .. Capacity /\ count' = count - n
         /\ \A k \in 1 .. count' : Queue'[k] = Queue[k + n]
<1>1. Capacity \in Nat /\ Capacity > 0
  BY WorkersAssumption DEF WorkersAssumption
<1>2. head' = Wrapped(head + n) /\ count' = count - n
  BY <1>1, Wraps DEF RemoveFront
<1>3. head' \in 0 .. Capacity - 1 /\ count' \in 0 .. Capacity
  BY <1>1, <1>2 DEF Wrapped
<1>4. ASSUME NEW k \in 1 .. count' PROVE Queue'[k] = Queue[k + n]
  <2>1. head' + k - 1 \in 0 .. 2 * Capacity - 1 /\ k + n \in 1 .. count
    BY <1>1, <1>2, <1>3
  <2>2. Queue'[k] = ring[Wrapped(head' + k - 1)]
    BY <2>1, Wraps DEF Queue
  <2>3. Queue[k + n] = ring[Wrapped(head + (k + n) - 1)]
    BY <2>1, QueuedAt
  <2>4. Wrapped(head' + k - 1) = Wrapped(head + (k + n) - 1)
    BY <1>1, <1>2, <1>3, <2>1 DEF Wrapped
  <2> QED
    BY <2>2, <2>3, <2>4
<1> QED
  BY <1>2, <1>3, <1>4

(* What enters goes behind the others. *)
LEMMA Submitted ==
  ASSUME TypeOK, Submit
  PROVE  /\ count' \in 0 .. Capacity /\ count' = count + 1
         /\ \A k \in 1 .. count + 1 : Queue'[k] = IF k <= count THEN Queue[k] ELSE client
<1>1. Capacity \in Nat /\ Capacity > 0
  BY WorkersAssumption DEF WorkersAssumption
<1>2. /\ head \in 0 .. Capacity - 1 /\ count \in 0 .. Capacity /\ head' = head
      /\ count < Capacity /\ count' = count + 1
      /\ ring' = [ring EXCEPT ![Back] = client]
      /\ ring \in [0 .. Capacity - 1 -> Connections \cup {NoConnection}]
  BY <1>1 DEF TypeOK, Submit, Full
<1>3. Back = Wrapped(head + count) /\ Back \in 0 .. Capacity - 1
  BY <1>1, <1>2, Wraps DEF Back, Wrapped
<1>4. ASSUME NEW k \in 1 .. count + 1
      PROVE  Queue'[k] = IF k <= count THEN Queue[k] ELSE client
  <2>1. head + k - 1 \in 0 .. 2 * Capacity - 1
    BY <1>1, <1>2
  <2>2. Queue'[k] = ring'[Wrapped(head + k - 1)] /\ Wrapped(head + k - 1) \in 0 .. Capacity - 1
    BY <1>1, <1>2, <2>1, Wraps DEF Queue, Wrapped
  <2>3. CASE k <= count
    <3>1. Wrapped(head + k - 1) # Back
      BY <1>1, <1>2, <1>3, <2>3 DEF Wrapped
    <3>2. Queue[k] = ring[Wrapped(head + k - 1)]
      BY <1>2, <2>3, QueuedAt
    <3> QED
      BY <1>2, <2>2, <2>3, <3>1, <3>2
  <2>4. CASE k > count
    <3>1. k = count + 1
      BY <1>2, <2>4
    <3>2. Wrapped(head + k - 1) = Back
      BY <1>2, <1>3, <3>1
    <3> QED
      BY <1>2, <1>3, <2>2, <2>4, <3>2
  <2> QED
    BY <1>2, <2>3, <2>4
<1> QED
  BY <1>1, <1>2, <1>4

(* An untouched ring holds the same line. *)
LEMMA SameLine ==
  ASSUME UNCHANGED <<ring, head, count>>
  PROVE  Queue' = Queue
  BY DEF Queue

(* The line is a sequence. *)
LEMMA LineTyped ==
  ASSUME count \in Nat, QueueTyped
  PROVE  Queue \in Seq(Connections) /\ Len(Queue) = count
<1>1. Queue \in [1 .. count -> Connections]
  BY DEF Queue, QueueTyped
<1> QED
  BY <1>1, SeqDef

(* A set of natural numbers has a least one. *)
LEMMA LeastNumber ==
  ASSUME NEW S, S \subseteq Nat, S # {}
  PROVE  \E n \in S : \A m \in S : n <= m
<1>1. PICK n \in S : \A m \in S : ~ (<<m, n>> \in OpToRel(<, Nat))
  BY WFMin, NatLessThanWellFounded
<1>2. ASSUME NEW m \in S PROVE n <= m
  <2>1. m \in Nat /\ n \in Nat
    BY <1>1
  <2>2. ~ (<<m, n>> \in OpToRel(<, Nat))
    BY <1>1
  <2>3. m < n => <<m, n>> \in OpToRel(<, Nat)
    BY <2>1 DEF OpToRel
  <2>4. ~ (m < n)
    BY <2>2, <2>3, Zenon
  <2> QED
    BY <2>1, <2>4
<1> QED
  BY <1>2

(* There is a number of connections to expire: the shortest front behind
   which nothing, or a younger connection, waits. *)
LEMMA ExpiredChosen ==
  ASSUME TypeOK, QueueTyped
  PROVE  /\ Expired \in 0 .. count
         /\ \A k \in 1 .. Expired : Queue[k] <= aged
<1> DEFINE T == {n \in 0 .. count : n < count => Queue[n + 1] > aged}
<1>1. count \in Nat /\ aged \in Nat /\ Connections \subseteq Nat
  BY WorkersAssumption DEF WorkersAssumption, TypeOK, Connections
<1>2. T \subseteq Nat
  BY <1>1
<1>3. count \in T
  BY <1>1
<1>4. PICK n \in T : \A m \in T : n <= m
  <2> HIDE DEF T
  <2> QED
    BY <1>2, <1>3, LeastNumber
<1>5. n \in 0 .. count /\ (n < count => Queue[n + 1] > aged)
  BY <1>4
<1>6. ASSUME NEW k \in 1 .. n PROVE Queue[k] <= aged
  <2>1. k - 1 \in 0 .. count /\ k - 1 < n /\ k \in 1 .. count
    BY <1>1, <1>5
  <2>2. k - 1 \notin T
    <3> HIDE DEF T
    <3> QED
      BY <1>2, <1>4, <1>5, <2>1
  <2>3. ~(Queue[(k - 1) + 1] > aged)
    BY <1>1, <2>1, <2>2
  <2>4. Queue[k] \in Nat
    BY <1>1, <2>1 DEF QueueTyped
  <2> QED
    BY <1>1, <2>1, <2>3, <2>4
<1>7. \E m \in 0 .. count :
        /\ \A k \in 1 .. m : Queue[k] <= aged
        /\ m < count => Queue[m + 1] > aged
  BY <1>5, <1>6
<1>8. /\ Expired \in 0 .. count
      /\ \A k \in 1 .. Expired : Queue[k] <= aged
      /\ Expired < count => Queue[Expired + 1] > aged
  BY <1>7, Zenon DEF Expired
<1> QED
  BY <1>8

-----------------------------------------------------------------------------
(* Control *)

(* The pool starts with nothing in any place. *)
LEMMA InitHolds == Init => IInv
<1> SUFFICES ASSUME Init PROVE IInv
  OBVIOUS
<1>1. Capacity \in Nat /\ Capacity > 0 /\ MaxConnections \in Nat /\ NoConnection \notin Nat
  BY WorkersAssumption DEF WorkersAssumption
<1>2. <<>> \in Seq(Connections) /\ Len(<<>>) = 0
  BY EmptySeq
<1>3. TypeOK
  <2>1. /\ ring \in [0 .. Capacity - 1 -> Connections \cup {NoConnection}]
        /\ answer \in [Connections -> {"none", "rejected", "handled"}]
        /\ closes \in [Connections -> Nat]
        /\ taken \in [Workers -> Connections \cup {NoConnection}]
        /\ serving \in [Workers -> {"unborn", "idle", "taken", "served", "closed", "exited"}]
        /\ main = "start" /\ client = NoConnection
    BY DEF Init
  <2>2. /\ head = 0 /\ count = 0 /\ active = 0 /\ arrived = 0 /\ aged = 0 /\ result = 0
        /\ started = {} /\ asleep = {}
        /\ stopping = FALSE /\ freed = FALSE /\ stopRequested = FALSE
    BY DEF Init
  <2>3. dropped \in Seq(Connections)
    BY <1>2, Zenon DEF Init
  <2>4. head \in 0 .. Capacity - 1 /\ count \in 0 .. Capacity /\ active \in Nat
    BY <1>1, <2>2
  <2>5. arrived \in 0 .. MaxConnections /\ aged \in 0 .. arrived
    BY <1>1, <2>2
  <2> QED
    BY <2>1, <2>2, <2>3, <2>4, <2>5, Zenon DEF TypeOK
<1>4. QueueTyped /\ Control /\ Hands /\ Wakeful
  BY <1>1 DEF Init, QueueTyped, Control, Hands, Wakeful
<1>5. ActiveExact
  <2>1. Serving = {}
    BY DEF Init, Serving
  <2> QED
    BY <2>1, FS_EmptySet DEF Init, ActiveExact
<1>6. OncePerPlace /\ OnePlace
  BY <1>1, <1>2 DEF Init, OncePerPlace, OnePlace, InHand, Waits, Drops, Connections
<1> QED
  BY <1>3, <1>4, <1>5, <1>6 DEF IInv

(* Every variable keeps its type, and every slot in use holds a connection. *)
LEMMA TypeHolds ==
  ASSUME IInv, [Next]_vars
  PROVE  TypeOK' /\ QueueTyped'
<1>1. /\ Capacity \in Nat /\ Capacity > 0 /\ MaxConnections \in Nat /\ NoConnection \notin Nat
      /\ Connections = 1 .. MaxConnections
  BY WorkersAssumption DEF WorkersAssumption, Connections
<1>2. TypeOK /\ QueueTyped /\ Control /\ Hands
  BY DEF IInv
<1>3. ASSUME NEW w \in Workers, Sleep(w) \/ SpuriousWake(w) \/ Exit(w) \/ CreateThread(w)
      PROVE  TypeOK' /\ QueueTyped'
  BY <1>2, <1>3, SameLine
  DEF TypeOK, QueueTyped, Sleep, SpuriousWake, Exit, CreateThread, pool, threads, acceptor, peers
<1>4. ASSUME NEW w \in Workers, Take(w) PROVE TypeOK' /\ QueueTyped'
  <2>1. /\ head \in 0 .. Capacity - 1 /\ count \in 0 .. Capacity /\ 1 \in 0 .. count
        /\ RemoveFront(1) /\ ring' = ring
    BY <1>1, <1>2, <1>4 DEF Take, TypeOK
  <2>2. /\ head' \in 0 .. Capacity - 1
        /\ count' \in 0 .. Capacity /\ count' = count - 1
        /\ \A k \in 1 .. count' : Queue'[k] = Queue[k + 1]
    BY <2>1, Removed
  <2>3. TypeOK'
    BY <1>2, <1>4, <2>2, SMTT(60) DEF TypeOK, Take, acceptor, peers
  <2>4. QueueTyped'
    BY <1>2, <2>1, <2>2 DEF QueueTyped
  <2> QED
    BY <2>3, <2>4
<1>5. ASSUME NEW w \in Workers, Serve(w) \/ CloseServed(w) PROVE TypeOK' /\ QueueTyped'
  <2>1. taken[w] \in Connections
    BY <1>2, <1>5 DEF TypeOK, Hands, Serve, CloseServed
  <2>2. QueueTyped'
    BY <1>2, <1>5, SameLine DEF QueueTyped, Serve, CloseServed, pool
  <2>3. CASE Serve(w)
    BY <1>2, <2>1, <2>2, <2>3 DEF TypeOK, Serve, Answered, pool, acceptor
  <2>4. CASE CloseServed(w)
    <3>1. closes' \in [Connections -> Nat]
      BY <1>2, <2>1, <2>4 DEF TypeOK, CloseServed, Closed
    <3> QED
      BY <1>2, <2>2, <2>4, <3>1 DEF TypeOK, CloseServed, pool, acceptor
  <2> QED
    BY <1>5, <2>3, <2>4
<1>6. ASSUME NEW w \in Workers, Finish(w) PROVE TypeOK' /\ QueueTyped'
  <2>1. active > 0
    <3>1. IsFiniteSet(Serving)
      BY WorkersAssumption, FS_Subset DEF WorkersAssumption, Serving
    <3>2. Serving # {}
      BY <1>6 DEF Finish, Serving
    <3> QED
      BY <3>1, <3>2, FS_EmptySet, FS_CardinalityType DEF IInv, ActiveExact
  <2> QED
    BY <1>2, <1>6, <2>1, SameLine DEF TypeOK, QueueTyped, Finish, acceptor, peers
<1>7. ASSUME Expire PROVE TypeOK' /\ QueueTyped'
  <2>1. /\ head \in 0 .. Capacity - 1 /\ count \in 0 .. Capacity /\ Expired \in 0 .. count
        /\ RemoveFront(Expired) /\ ring' = ring
    BY <1>2, <1>7, ExpiredChosen DEF Expire, TypeOK
  <2>2. /\ head' \in 0 .. Capacity - 1
        /\ count' \in 0 .. Capacity /\ count' = count - Expired
        /\ \A k \in 1 .. count' : Queue'[k] = Queue[k + Expired]
    BY <2>1, Removed
  <2>3. dropped' \in Seq(Connections)
    <3>1. \A k \in 1 .. Expired : Queue[k] \in Connections
      BY <1>1, <1>2, <2>1 DEF QueueTyped
    <3>2. Expired \in Int
      BY <2>1
    <3> QED
      BY <1>7, <3>1, <3>2, SubSeqProperties DEF Expire
  <2>4. TypeOK'
    BY <1>2, <1>7, <2>2, <2>3 DEF TypeOK, Expire, threads, peers
  <2>5. QueueTyped'
    BY <1>1, <1>2, <2>1, <2>2 DEF QueueTyped
  <2> QED
    BY <2>4, <2>5
<1>8. ASSUME RejectDropped PROVE TypeOK' /\ QueueTyped'
  <2>1. dropped \in Seq(Connections) /\ dropped # <<>>
    BY <1>2, <1>8 DEF RejectDropped, TypeOK
  <2>2. Head(dropped) \in Connections /\ Tail(dropped) \in Seq(Connections)
    BY <2>1, HeadTailProperties
  <2> QED
    BY <1>2, <1>8, <2>2, SameLine, SMTT(60)
    DEF TypeOK, QueueTyped, RejectDropped, Answered, Closed, pool, threads
<1>9. ASSUME Poll \/ CreateFails \/ AcceptFails \/ SubmitRefused \/ LeaveLoop \/ Join
             \/ Signal \/ Age \/ Done
      PROVE  TypeOK' /\ QueueTyped'
  <2>1. QueueTyped'
    BY <1>2, <1>9, SameLine
    DEF QueueTyped, Poll, CreateFails, AcceptFails, SubmitRefused, LeaveLoop, Join,
        Signal, Age, Done, pool, vars
  <2>2. CASE Poll \/ CreateFails \/ AcceptFails \/ SubmitRefused \/ LeaveLoop \/ Signal
    BY <1>2, <2>1, <2>2
    DEF TypeOK, Poll, CreateFails, AcceptFails, SubmitRefused, LeaveLoop, Signal, pool, threads, peers
  <2>3. CASE Join
    BY <1>2, <2>1, <2>3 DEF TypeOK, Join, threads, peers
  <2>4. CASE Age
    BY <1>1, <1>2, <2>1, <2>4 DEF TypeOK, Age, pool, threads, acceptor
  <2>5. CASE Done
    BY <1>2, <2>1, <2>5 DEF TypeOK, Done, vars, pool, threads, acceptor, peers
  <2> QED
    BY <1>9, <2>2, <2>3, <2>4, <2>5
<1>10. ASSUME Accept PROVE TypeOK' /\ QueueTyped'
  BY <1>1, <1>2, <1>10, SameLine DEF TypeOK, QueueTyped, Accept, pool, threads
<1>11. ASSUME ConfigureFails \/ Refuse PROVE TypeOK' /\ QueueTyped'
  <2>1. client \in Connections
    BY <1>2, <1>11 DEF TypeOK, Control, ConfigureFails, Refuse
  <2>2. closes' \in [Connections -> Nat]
    <3>1. closes' = [closes EXCEPT ![client] = closes[client] + 1]
      BY <1>11 DEF ConfigureFails, Refuse, Closed
    <3> QED
      BY <1>2, <2>1, <3>1 DEF TypeOK
  <2>3. answer' \in [Connections -> {"none", "rejected", "handled"}]
    BY <1>2, <1>11, <2>1 DEF TypeOK, ConfigureFails, Refuse, Answered
  <2>4. QueueTyped'
    BY <1>2, <1>11, SameLine DEF QueueTyped, ConfigureFails, Refuse, pool
  <2>5. CASE ConfigureFails
    BY <1>2, <2>2, <2>3, <2>4, <2>5 DEF TypeOK, ConfigureFails, pool, threads
  <2>6. CASE Refuse
    BY <1>2, <2>2, <2>3, <2>4, <2>6 DEF TypeOK, Refuse, pool, threads
  <2> QED
    BY <1>11, <2>5, <2>6
<1>12. ASSUME Submit PROVE TypeOK' /\ QueueTyped'
  <2>1. client \in Connections
    BY <1>2, <1>12 DEF TypeOK, Control, Submit
  <2>2. /\ count' \in 0 .. Capacity /\ count' = count + 1
        /\ \A k \in 1 .. count + 1 : Queue'[k] = IF k <= count THEN Queue[k] ELSE client
    BY <1>2, <1>12, Submitted
  <2>3. TypeOK'
    BY <1>2, <1>12, <2>1, <2>2 DEF TypeOK, Submit, NotifyAll, peers
  <2>4. QueueTyped'
    <3>1. count \in Nat
      BY <1>1, <1>2 DEF TypeOK
    <3> QED
      BY <1>2, <2>1, <2>2, <3>1 DEF QueueTyped
  <2> QED
    BY <2>3, <2>4
<1>13. ASSUME Stop PROVE TypeOK' /\ QueueTyped'
  <2>1. Queue \in Seq(Connections)
    BY <1>1, <1>2, LineTyped DEF TypeOK
  <2> QED
    BY <1>1, <1>2, <1>13, <2>1 DEF TypeOK, QueueTyped, Stop, NotifyAll, peers
<1>14. ASSUME UNCHANGED vars PROVE TypeOK' /\ QueueTyped'
  BY <1>2, <1>14, SameLine DEF TypeOK, QueueTyped, vars, pool, threads, acceptor, peers
<1> QED
  BY <1>3, <1>4, <1>5, <1>6, <1>7, <1>8, <1>9, <1>10, <1>11, <1>12, <1>13, <1>14
  DEF Next, Worker, AcceptorStep

(* The acceptor holds what its place in main says, and the pool runs until
   the acceptor stops it. *)
LEMMA ControlHolds ==
  ASSUME IInv, [Next]_vars
  PROVE  Control'
<1>1. /\ Control /\ Hands /\ TypeOK /\ NoConnection \notin Nat /\ Connections \subseteq Nat
      /\ Capacity \in Nat
  BY WorkersAssumption DEF IInv, WorkersAssumption, Connections
<1>2. ASSUME NEW w \in Workers, Sleep(w) \/ SpuriousWake(w) \/ Serve(w) \/ CloseServed(w) \/ Finish(w)
      PROVE  Control'
  BY <1>1, <1>2
  DEF Control, TypeOK, Sleep, SpuriousWake, Serve, CloseServed, Finish, pool, acceptor
<1>3. ASSUME NEW w \in Workers, Take(w) PROVE Control'
  BY <1>1, <1>3 DEF Control, TypeOK, Take, acceptor
<1>4. ASSUME NEW w \in Workers, Exit(w) PROVE Control'
  BY <1>1, <1>4 DEF Control, TypeOK, Exit, pool, acceptor
<1>5. ASSUME NEW w \in Workers, CreateThread(w) PROVE Control'
  BY <1>1, <1>5 DEF Control, CreateThread
<1>6. ASSUME Expire PROVE Control'
  BY <1>1, <1>6 DEF Control, Expire, threads
<1>7. ASSUME RejectDropped PROVE Control'
  BY <1>1, <1>7 DEF Control, RejectDropped, pool, threads
<1>8. ASSUME Accept PROVE Control'
  BY <1>1, <1>8 DEF Control, TypeOK, Accept, pool, threads
<1>9. ASSUME Poll \/ CreateFails \/ AcceptFails \/ SubmitRefused \/ LeaveLoop \/ Signal \/ Age \/ Done
      PROVE  Control'
  BY <1>1, <1>9
  DEF Control, Poll, CreateFails, AcceptFails, SubmitRefused, LeaveLoop, Signal, Age, Done,
      pool, threads, acceptor, vars
<1>10. ASSUME ConfigureFails \/ Refuse PROVE Control'
  BY <1>1, <1>10 DEF Control, ConfigureFails, Refuse, pool, threads
<1>11. ASSUME Submit PROVE Control'
  BY <1>1, <1>11 DEF Control, Submit
<1>12. ASSUME Stop PROVE Control'
  BY <1>1, <1>12 DEF Control, Stop
<1>13. ASSUME Join PROVE Control'
  <2>1. \A w \in Workers : serving[w] \in {"unborn", "exited"}
    BY <1>1, <1>13 DEF Join, Joined, Hands
  <2> QED
    BY <1>1, <1>13, <2>1 DEF Control, Join, threads
<1>14. ASSUME UNCHANGED vars PROVE Control'
  BY <1>1, <1>14 DEF Control, vars, pool, threads, acceptor
<1> QED
  BY <1>2, <1>3, <1>4, <1>5, <1>6, <1>7, <1>8, <1>9, <1>10, <1>11, <1>12, <1>13, <1>14
  DEF Next, Worker, AcceptorStep

(* A worker holds a connection between taking and closing it. *)
LEMMA HandsHold ==
  ASSUME IInv, [Next]_vars
  PROVE  Hands'
<1>1. Hands /\ Control /\ TypeOK /\ NoConnection \notin Nat /\ Connections \subseteq Nat
  BY WorkersAssumption DEF IInv, WorkersAssumption, Connections
<1>2. ASSUME NEW w \in Workers, Sleep(w) \/ SpuriousWake(w) PROVE Hands'
  BY <1>1, <1>2 DEF Hands, Sleep, SpuriousWake, pool
<1>3. ASSUME NEW w \in Workers, Take(w) PROVE Hands'
  <2>1. 1 \in 1 .. count /\ Queue[1] = ring[head] /\ head \in 0 .. Capacity - 1
    <3>1. count \in 0 .. Capacity /\ head \in 0 .. Capacity - 1 /\ 1 \in 1 .. count /\ Capacity \in Nat
      BY <1>1, <1>3, WorkersAssumption DEF Take, TypeOK, WorkersAssumption
    <3>2. Queue[1] = ring[Wrapped(head + 1 - 1)]
      BY <3>1, QueuedAt
    <3>3. Wrapped(head + 1 - 1) = head
      BY <3>1 DEF Wrapped
    <3> QED
      BY <3>1, <3>2, <3>3
  <2>2. ring[head] \in Connections
    BY <2>1 DEF IInv, QueueTyped
  <2> QED
    BY <1>1, <1>3, <2>2 DEF Hands, TypeOK, Take
<1>4. ASSUME NEW w \in Workers, Serve(w) \/ CloseServed(w) \/ Finish(w) \/ Exit(w) PROVE Hands'
  BY <1>1, <1>4 DEF Hands, TypeOK, Serve, CloseServed, Finish, Exit, pool
<1>5. ASSUME NEW w \in Workers, CreateThread(w) PROVE Hands'
  BY <1>1, <1>5 DEF Hands, TypeOK, CreateThread
<1>6. ASSUME Expire \/ RejectDropped \/ Poll \/ Accept \/ ConfigureFails \/ Submit \/ SubmitRefused
             \/ Refuse \/ LeaveLoop \/ Stop \/ Join
      PROVE  Hands'
  BY <1>1, <1>6
  DEF Hands, Expire, RejectDropped, Poll, Accept, ConfigureFails, Submit, SubmitRefused,
      Refuse, LeaveLoop, Stop, Join, pool, threads
<1>7. ASSUME CreateFails \/ AcceptFails \/ Signal \/ Age \/ Done \/ UNCHANGED vars PROVE Hands'
  BY <1>1, <1>7 DEF Hands, CreateFails, AcceptFails, Signal, Age, Done, vars, pool, threads
<1> QED
  BY <1>2, <1>3, <1>4, <1>5, <1>6, <1>7 DEF Next, Worker, AcceptorStep

(* A worker falls asleep on an empty ring only, and what fills the ring or
   stops the pool wakes all of them. *)
LEMMA WakefulHolds ==
  ASSUME IInv, [Next]_vars
  PROVE  Wakeful'
<1>1. Wakeful /\ Hands /\ TypeOK /\ Control
  BY DEF IInv
<1>2. ASSUME NEW w \in Workers, Sleep(w) \/ SpuriousWake(w) PROVE Wakeful'
  BY <1>1, <1>2 DEF Wakeful, Sleep, SpuriousWake, pool
<1>3. ASSUME NEW w \in Workers, Take(w) PROVE Wakeful'
  BY <1>1, <1>3 DEF Wakeful, TypeOK, Take
<1>4. ASSUME NEW w \in Workers, Serve(w) \/ CloseServed(w) \/ Finish(w) \/ Exit(w) PROVE Wakeful'
  BY <1>1, <1>4 DEF Wakeful, TypeOK, Serve, CloseServed, Finish, Exit, pool
<1>5. ASSUME NEW w \in Workers, CreateThread(w) PROVE Wakeful'
  BY <1>1, <1>5 DEF Wakeful, Hands, TypeOK, CreateThread
<1>6. ASSUME Expire PROVE Wakeful'
  <2>1. Expired \in 0 .. count /\ count' = count - Expired
    BY <1>6, ExpiredChosen DEF IInv, Expire, RemoveFront
  <2> QED
    BY <1>1, <1>6, <2>1 DEF Wakeful, TypeOK, Expire, threads
<1>7. ASSUME RejectDropped \/ Poll \/ Accept \/ ConfigureFails \/ Submit \/ SubmitRefused
             \/ Refuse \/ LeaveLoop \/ Stop \/ Join
      PROVE  Wakeful'
  BY <1>1, <1>7
  DEF Wakeful, RejectDropped, Poll, Accept, ConfigureFails, Submit, SubmitRefused, NotifyAll,
      Refuse, LeaveLoop, Stop, Join, pool, threads
<1>8. ASSUME CreateFails \/ AcceptFails \/ Signal \/ Age \/ Done \/ UNCHANGED vars PROVE Wakeful'
  BY <1>1, <1>8 DEF Wakeful, CreateFails, AcceptFails, Signal, Age, Done, vars, pool, threads
<1> QED
  BY <1>2, <1>3, <1>4, <1>5, <1>6, <1>7, <1>8 DEF Next, Worker, AcceptorStep

(* Each worker that takes a connection is counted until it is done. *)
LEMMA ActiveHolds ==
  ASSUME IInv, [Next]_vars
  PROVE  ActiveExact'
<1>1. ActiveExact /\ TypeOK /\ Hands
  BY DEF IInv
<1>2. IsFiniteSet(Serving) /\ Cardinality(Serving) \in Nat
  BY WorkersAssumption, FS_Subset, FS_CardinalityType DEF WorkersAssumption, Serving
<1>3. ASSUME NEW w \in Workers, Take(w) PROVE ActiveExact'
  <2>1. Serving' = Serving \cup {w} /\ w \notin Serving
    BY <1>1, <1>3 DEF Take, Serving, TypeOK
  <2> QED
    BY <1>1, <1>2, <1>3, <2>1, FS_AddElement DEF ActiveExact, Take
<1>4. ASSUME NEW w \in Workers, Finish(w) PROVE ActiveExact'
  <2>1. Serving' = Serving \ {w} /\ w \in Serving
    BY <1>1, <1>4 DEF Finish, Serving, TypeOK
  <2> QED
    BY <1>1, <1>2, <1>4, <2>1, FS_RemoveElement DEF ActiveExact, Finish
<1>5. ASSUME active' = active, Serving' = Serving PROVE ActiveExact'
  BY <1>1, <1>5 DEF ActiveExact
<1>6. ASSUME NEW w \in Workers,
             Sleep(w) \/ SpuriousWake(w) \/ Serve(w) \/ CloseServed(w) \/ Exit(w) \/ CreateThread(w)
      PROVE  ActiveExact'
  <2>1. active' = active /\ Serving' = Serving
    BY <1>1, <1>6
    DEF Sleep, SpuriousWake, Serve, CloseServed, Exit, CreateThread, Hands, Serving, TypeOK, pool
  <2> QED
    BY <1>5, <2>1
<1>7. ASSUME UNCHANGED <<active, serving>> PROVE ActiveExact'
  <2>1. active' = active /\ Serving' = Serving
    BY <1>7 DEF Serving
  <2> QED
    BY <1>5, <2>1
<1>8. ASSUME Expire \/ RejectDropped \/ Poll \/ Accept \/ ConfigureFails \/ Submit \/ SubmitRefused
             \/ Refuse \/ LeaveLoop \/ Stop \/ Join
      PROVE  UNCHANGED <<active, serving>>
  BY <1>8
  DEF Expire, RejectDropped, Poll, Accept, ConfigureFails, Submit, SubmitRefused,
      Refuse, LeaveLoop, Stop, Join, pool, threads
<1>9. ASSUME CreateFails \/ AcceptFails \/ Signal \/ Age \/ Done \/ UNCHANGED vars
      PROVE  UNCHANGED <<active, serving>>
  BY <1>9 DEF CreateFails, AcceptFails, Signal, Age, Done, vars, pool, threads
<1> QED
  BY <1>3, <1>4, <1>6, <1>7, <1>8, <1>9 DEF Next, Worker, AcceptorStep

-----------------------------------------------------------------------------
(* Places *)

Placed == OncePerPlace /\ OnePlace

(* The steps that move no connection. *)
LEMMA PlacesRest ==
  ASSUME Placed, UNCHANGED <<ring, head, count, taken, dropped, client, arrived, closes>>
  PROVE  Placed'
  BY SameLine DEF Placed, OncePerPlace, OnePlace, InHand, Waits, Drops

(* From the front of the ring into a worker's hand. *)
LEMMA TakePlaces ==
  ASSUME IInv, NEW w \in Workers, Take(w)
  PROVE  Placed'
<1>1. /\ TypeOK /\ QueueTyped /\ Hands /\ OncePerPlace /\ OnePlace
      /\ NoConnection \notin Nat /\ Connections \subseteq Nat /\ Capacity \in Nat
  BY WorkersAssumption DEF IInv, WorkersAssumption, Connections
<1>2. /\ head \in 0 .. Capacity - 1 /\ count \in 0 .. Capacity /\ 1 \in 0 .. count /\ 1 \in 1 .. count
      /\ RemoveFront(1) /\ ring' = ring /\ taken[w] = NoConnection
  BY <1>1 DEF Take, TypeOK, Hands
<1>3. /\ count' = count - 1 /\ count' \in Nat
      /\ \A k \in 1 .. count' : Queue'[k] = Queue[k + 1]
  BY <1>2, Removed
<1>4. PICK d : d = Queue[1]
  OBVIOUS
<1>5. d = ring[head] /\ d \in Connections
  <2>1. Queue[1] = ring[Wrapped(head + 1 - 1)]
    BY <1>2, QueuedAt
  <2>2. Wrapped(head + 1 - 1) = head
    BY <1>1, <1>2 DEF Wrapped
  <2> QED
    BY <1>1, <1>2, <1>4, <2>1, <2>2 DEF QueueTyped
<1>6. taken' = [taken EXCEPT ![w] = d] /\ UNCHANGED <<dropped, client, arrived, closes>>
  BY <1>5 DEF Take, acceptor, peers
<1>7. ASSUME NEW c \in Connections PROVE InHand(c)' <=> InHand(c) \/ c = d
  BY <1>1, <1>2, <1>6, <1>7 DEF InHand, TypeOK
<1>8. ASSUME NEW c \in Connections PROVE Waits(c)' <=> Waits(c) /\ c # d
  <2>1. ASSUME NEW k \in 1 .. count' PROVE k + 1 \in 1 .. count /\ Queue'[k] = Queue[k + 1] /\ Queue[k + 1] # d
    <3>1. k + 1 \in 1 .. count /\ k + 1 # 1
      BY <1>2, <1>3
    <3> QED
      BY <1>1, <1>2, <1>3, <1>4, <3>1 DEF OncePerPlace
  <2>2. ASSUME NEW k \in 1 .. count, Queue[k] # d PROVE k - 1 \in 1 .. count' /\ Queue'[k - 1] = Queue[k]
    <3>1. k # 1
      BY <1>4, <2>2
    <3>2. k - 1 \in 1 .. count' /\ (k - 1) + 1 = k
      BY <1>2, <1>3, <3>1
    <3> QED
      BY <1>3, <3>2
  <2> QED
    BY <2>1, <2>2 DEF Waits
<1>9. ASSUME NEW c \in Connections PROVE Drops(c)' <=> Drops(c)
  BY <1>6 DEF Drops
<1>10. Waits(d) /\ ~InHand(d) /\ ~Drops(d) /\ client # d
  BY <1>1, <1>2, <1>4, <1>5 DEF Waits, OnePlace
<1>11. OnePlace'
  BY <1>1, <1>5, <1>6, <1>7, <1>8, <1>9, <1>10 DEF OnePlace
<1>12. OncePerPlace'
  <2>1. \A u, v \in Workers : taken'[u] = taken'[v] /\ taken'[u] # NoConnection => u = v
    BY <1>1, <1>6, <1>10 DEF OncePerPlace, InHand, TypeOK
  <2>2. \A j, k \in 1 .. count' : Queue'[j] = Queue'[k] => j = k
    <3>1. ASSUME NEW j \in 1 .. count', NEW k \in 1 .. count', Queue'[j] = Queue'[k] PROVE j = k
      <4>1. j + 1 \in 1 .. count /\ k + 1 \in 1 .. count
        BY <1>2, <1>3
      <4>2. j + 1 = k + 1
        BY <1>1, <1>3, <3>1, <4>1 DEF OncePerPlace
      <4> QED
        BY <4>2
    <3> QED
      BY <3>1
  <2>3. \A j, k \in 1 .. Len(dropped') : dropped'[j] = dropped'[k] => j = k
    BY <1>1, <1>6 DEF OncePerPlace
  <2> QED
    BY <2>1, <2>2, <2>3 DEF OncePerPlace
<1> QED
  BY <1>11, <1>12 DEF Placed

(* Out of a worker's hand, closed. *)
LEMMA CloseServedPlaces ==
  ASSUME IInv, NEW w \in Workers, CloseServed(w)
  PROVE  Placed'
<1>1. /\ TypeOK /\ Hands /\ OncePerPlace /\ OnePlace
      /\ NoConnection \notin Nat /\ Connections \subseteq Nat
  BY WorkersAssumption DEF IInv, WorkersAssumption, Connections
<1>2. PICK d : d = taken[w]
  OBVIOUS
<1>3. d \in Connections /\ d # NoConnection
  BY <1>1, <1>2 DEF CloseServed, Hands, TypeOK
<1>4. /\ taken' = [taken EXCEPT ![w] = NoConnection]
      /\ closes' = [closes EXCEPT ![d] = closes[d] + 1]
      /\ UNCHANGED <<ring, head, count, dropped, client, arrived>>
  BY <1>2 DEF CloseServed, Closed, pool, acceptor
<1>5. ASSUME NEW c \in Connections PROVE InHand(c)' <=> InHand(c) /\ c # d
  <2>1. c # NoConnection
    BY <1>1
  <2>2. \A v \in Workers : taken'[v] = IF v = w THEN NoConnection ELSE taken[v]
    BY <1>1, <1>4 DEF TypeOK
  <2>3. \A v \in Workers : taken[v] = d => v = w
    BY <1>1, <1>2, <1>3 DEF OncePerPlace
  <2> QED
    BY <1>2, <2>1, <2>2, <2>3 DEF InHand
<1>6. ASSUME NEW c \in Connections PROVE (Waits(c)' <=> Waits(c)) /\ (Drops(c)' <=> Drops(c))
  BY <1>4, SameLine DEF Waits, Drops
<1>7. InHand(d)
  BY <1>2 DEF InHand
<1>8. closes[d] = 0 /\ d <= arrived
  BY <1>1, <1>3, <1>7 DEF OnePlace
<1>9. \A c \in Connections : closes'[c] = IF c = d THEN 1 ELSE closes[c]
  BY <1>1, <1>3, <1>4, <1>8 DEF TypeOK
<1>10. ~Waits(d) /\ ~Drops(d) /\ client # d
  BY <1>1, <1>3, <1>7 DEF OnePlace
<1>11. arrived \in Nat /\ d \in Nat
  BY <1>1, <1>3, WorkersAssumption DEF TypeOK, WorkersAssumption
<1>12. OnePlace'
  <2>1. ASSUME NEW c \in Connections
        PROVE  /\ InHand(c)' => ~Waits(c)' /\ ~Drops(c)' /\ client' # c
               /\ Waits(c)' => ~Drops(c)' /\ client' # c
               /\ Drops(c)' => client' # c
               /\ InHand(c)' \/ Waits(c)' \/ Drops(c)' \/ client' = c <=> c <= arrived' /\ closes'[c] = 0
               /\ closes'[c] \in {0, 1}
               /\ c > arrived' => closes'[c] = 0
    <3>1. CASE c = d
      BY <1>4, <1>5, <1>6, <1>8, <1>9, <1>10, <1>11, <3>1
    <3>2. CASE c # d
      BY <1>1, <1>4, <1>5, <1>6, <1>9, <3>2 DEF OnePlace
    <3> QED
      BY <3>1, <3>2
  <2> QED
    BY <2>1 DEF OnePlace
<1>13. OncePerPlace'
  <2>1. Queue' = Queue
    BY <1>4, SameLine
  <2> QED
    BY <1>1, <1>4, <2>1 DEF OncePerPlace, TypeOK
<1> QED
  BY <1>12, <1>13 DEF Placed

(* Out of the acceptor's hand, closed. *)
LEMMA RefusePlaces ==
  ASSUME IInv, ConfigureFails \/ Refuse
  PROVE  Placed'
<1>1. /\ TypeOK /\ Control /\ OncePerPlace /\ OnePlace
      /\ NoConnection \notin Nat /\ Connections \subseteq Nat
  BY WorkersAssumption DEF IInv, WorkersAssumption, Connections
<1>2. client \in Connections
  BY <1>1 DEF ConfigureFails, Refuse, Control, TypeOK
<1>3. /\ closes' = [closes EXCEPT ![client] = closes[client] + 1]
      /\ client' = NoConnection
      /\ UNCHANGED <<ring, head, count, taken, dropped, arrived>>
  BY DEF ConfigureFails, Refuse, Closed, pool, threads
<1>4. ASSUME NEW c \in Connections
      PROVE  (InHand(c)' <=> InHand(c)) /\ (Waits(c)' <=> Waits(c)) /\ (Drops(c)' <=> Drops(c))
  BY <1>3, SameLine DEF InHand, Waits, Drops
<1>5. ~InHand(client) /\ ~Waits(client) /\ ~Drops(client) /\ client <= arrived /\ closes[client] = 0
  BY <1>1, <1>2 DEF OnePlace
<1>6. \A c \in Connections : closes'[c] = IF c = client THEN 1 ELSE closes[c]
  BY <1>1, <1>2, <1>3, <1>5 DEF TypeOK
<1>7. arrived \in Nat /\ client \in Nat /\ \A c \in Connections : c # client'
  BY <1>1, <1>2, <1>3, WorkersAssumption DEF TypeOK, WorkersAssumption
<1>8. OnePlace'
  <2>1. ASSUME NEW c \in Connections
        PROVE  /\ InHand(c)' => ~Waits(c)' /\ ~Drops(c)' /\ client' # c
               /\ Waits(c)' => ~Drops(c)' /\ client' # c
               /\ Drops(c)' => client' # c
               /\ InHand(c)' \/ Waits(c)' \/ Drops(c)' \/ client' = c <=> c <= arrived' /\ closes'[c] = 0
               /\ closes'[c] \in {0, 1}
               /\ c > arrived' => closes'[c] = 0
    <3>1. CASE c = client
      BY <1>3, <1>4, <1>5, <1>6, <1>7, <3>1
    <3>2. CASE c # client
      BY <1>1, <1>3, <1>4, <1>6, <1>7, <3>2 DEF OnePlace
    <3> QED
      BY <3>1, <3>2
  <2> QED
    BY <2>1 DEF OnePlace
<1>9. OncePerPlace'
  BY <1>1, <1>3, SameLine DEF OncePerPlace
<1> QED
  BY <1>8, <1>9 DEF Placed

(* A new connection comes into the acceptor's hand. *)
LEMMA AcceptPlaces ==
  ASSUME IInv, Accept
  PROVE  Placed'
<1>1. /\ TypeOK /\ QueueTyped /\ Control /\ OncePerPlace /\ OnePlace
      /\ NoConnection \notin Nat /\ Connections \subseteq Nat /\ MaxConnections \in Nat
      /\ Connections = 1 .. MaxConnections
  BY WorkersAssumption DEF IInv, WorkersAssumption, Connections
<1>2. /\ arrived \in Nat /\ arrived' = arrived + 1 /\ client' = arrived + 1
      /\ arrived + 1 \in Connections /\ client = NoConnection
      /\ UNCHANGED <<ring, head, count, taken, dropped, closes>>
  BY <1>1 DEF Accept, TypeOK, Control, pool, threads
<1>3. ASSUME NEW c \in Connections
      PROVE  (InHand(c)' <=> InHand(c)) /\ (Waits(c)' <=> Waits(c)) /\ (Drops(c)' <=> Drops(c))
  BY <1>2, SameLine DEF InHand, Waits, Drops
<1>4. ASSUME NEW c \in Connections, c = arrived + 1
      PROVE  ~InHand(c) /\ ~Waits(c) /\ ~Drops(c) /\ closes[c] = 0
  BY <1>1, <1>2, <1>4 DEF OnePlace
<1>5. OnePlace'
  <2>1. ASSUME NEW c \in Connections
        PROVE  /\ InHand(c)' => ~Waits(c)' /\ ~Drops(c)' /\ client' # c
               /\ Waits(c)' => ~Drops(c)' /\ client' # c
               /\ Drops(c)' => client' # c
               /\ InHand(c)' \/ Waits(c)' \/ Drops(c)' \/ client' = c <=> c <= arrived' /\ closes'[c] = 0
               /\ closes'[c] \in {0, 1}
               /\ c > arrived' => closes'[c] = 0
    <3>1. c \in Nat
      BY <1>1
    <3>2. CASE c = arrived + 1
      BY <1>2, <1>3, <1>4, <3>2
    <3>3. CASE c # arrived + 1
      BY <1>1, <1>2, <1>3, <3>1, <3>3 DEF OnePlace
    <3> QED
      BY <3>2, <3>3
  <2> QED
    BY <2>1 DEF OnePlace
<1>6. OncePerPlace'
  BY <1>1, <1>2, SameLine DEF OncePerPlace
<1> QED
  BY <1>5, <1>6 DEF Placed

(* From the acceptor's hand to the back of the ring. *)
LEMMA SubmitPlaces ==
  ASSUME IInv, Submit
  PROVE  Placed'
<1>1. /\ TypeOK /\ QueueTyped /\ Control /\ OncePerPlace /\ OnePlace
      /\ NoConnection \notin Nat /\ Connections \subseteq Nat
      /\ count \in Nat
  BY WorkersAssumption DEF IInv, WorkersAssumption, Connections, TypeOK
<1>2. client \in Connections
  BY <1>1 DEF Submit, Control, TypeOK
<1>3. /\ count' = count + 1
      /\ \A k \in 1 .. count + 1 : Queue'[k] = IF k <= count THEN Queue[k] ELSE client
  BY <1>1, Submitted
<1>4. client' = NoConnection /\ UNCHANGED <<taken, dropped, arrived, closes>>
  BY DEF Submit, peers
<1>5. ASSUME NEW c \in Connections
      PROVE  (InHand(c)' <=> InHand(c)) /\ (Drops(c)' <=> Drops(c))
  BY <1>4 DEF InHand, Drops
<1>6. ASSUME NEW c \in Connections PROVE Waits(c)' <=> Waits(c) \/ c = client
  <2>1. ASSUME NEW k \in 1 .. count + 1 PROVE Queue'[k] = client \/ (k \in 1 .. count /\ Queue'[k] = Queue[k])
    BY <1>1, <1>3
  <2>2. ASSUME NEW k \in 1 .. count PROVE k \in 1 .. count + 1 /\ Queue'[k] = Queue[k]
    BY <1>1, <1>3
  <2>3. count + 1 \in 1 .. count + 1 /\ Queue'[count + 1] = client
    BY <1>1, <1>3
  <2> QED
    BY <1>3, <2>1, <2>2, <2>3 DEF Waits
<1>7. ~InHand(client) /\ ~Waits(client) /\ ~Drops(client) /\ client <= arrived /\ closes[client] = 0
  BY <1>1, <1>2 DEF OnePlace
<1>8. \A c \in Connections : c # client'
  BY <1>1, <1>4
<1>9. OnePlace'
  BY <1>1, <1>4, <1>5, <1>6, <1>7, <1>8 DEF OnePlace
<1>10. \A j, k \in 1 .. count' : Queue'[j] = Queue'[k] => j = k
  <2>1. ASSUME NEW j \in 1 .. count PROVE Queue[j] # client
    BY <1>7 DEF Waits
  <2>2. ASSUME NEW j \in 1 .. count + 1, NEW k \in 1 .. count + 1, Queue'[j] = Queue'[k] PROVE j = k
    <3>1. (j \in 1 .. count \/ j = count + 1) /\ (k \in 1 .. count \/ k = count + 1)
      BY <1>1
    <3>2. ASSUME j \in 1 .. count PROVE Queue'[j] = Queue[j]
      BY <1>1, <1>3, <3>2
    <3>3. ASSUME k \in 1 .. count PROVE Queue'[k] = Queue[k]
      BY <1>1, <1>3, <3>3
    <3>4. Queue'[count + 1] = client
      BY <1>1, <1>3
    <3> QED
      BY <1>1, <2>1, <2>2, <3>1, <3>2, <3>3, <3>4 DEF OncePerPlace
  <2> QED
    BY <1>3, <2>2
<1>11. OncePerPlace'
  BY <1>1, <1>4, <1>10 DEF OncePerPlace
<1> QED
  BY <1>9, <1>11 DEF Placed

(* From the front of the ring into the array of expired connections. *)
LEMMA ExpirePlaces ==
  ASSUME IInv, Expire
  PROVE  Placed'
<1>1. /\ TypeOK /\ QueueTyped /\ Control /\ OncePerPlace /\ OnePlace /\ count \in Nat
  BY WorkersAssumption DEF IInv, WorkersAssumption, TypeOK
<1>2. PICK e : e = Expired
  OBVIOUS
<1>3. e \in 0 .. count
  BY <1>1, <1>2, ExpiredChosen
<1>4. /\ count' = count - e
      /\ \A k \in 1 .. count' : Queue'[k] = Queue[k + e]
  <2>1. /\ head \in 0 .. Capacity - 1 /\ count \in 0 .. Capacity
        /\ RemoveFront(e) /\ ring' = ring
    BY <1>1, <1>2 DEF Expire, TypeOK
  <2> QED
    BY <1>3, <2>1, Removed
<1>5. Len(dropped') = e /\ \A k \in 1 .. e : dropped'[k] = Queue[k]
  <2>1. \A k \in 1 .. e : Queue[k] \in Connections
    BY <1>1, <1>3 DEF QueueTyped
  <2>2. dropped' = SubSeq(Queue, 1, e) /\ e \in Int /\ 1 \in Int
    BY <1>2, <1>3 DEF Expire
  <2>3. /\ Len(SubSeq(Queue, 1, e)) = IF 1 <= e THEN e - 1 + 1 ELSE 0
        /\ \A k \in 1 .. e - 1 + 1 : SubSeq(Queue, 1, e)[k] = Queue[1 + k - 1]
    BY <2>1, <2>2, SubSeqProperties
  <2> QED
    BY <1>3, <2>2, <2>3
<1>6. dropped = <<>> /\ UNCHANGED <<taken, client, arrived, closes>>
  BY <1>1 DEF Expire, Control, threads, peers
<1>7. Len(dropped) = 0
  BY <1>6
<1>8. ASSUME NEW c \in Connections PROVE InHand(c)' <=> InHand(c)
  BY <1>6 DEF InHand
<1>9. ASSUME NEW c \in Connections PROVE ~Drops(c)
  BY <1>7 DEF Drops
<1>10. ASSUME NEW c \in Connections PROVE /\ Waits(c)' \/ Drops(c)' <=> Waits(c)
                                          /\ ~(Waits(c)' /\ Drops(c)')
  <2>1. ASSUME NEW k \in 1 .. count' PROVE k + e \in 1 .. count /\ Queue'[k] = Queue[k + e] /\ k + e > e
    BY <1>1, <1>3, <1>4
  <2>2. ASSUME NEW k \in 1 .. e PROVE k \in 1 .. count /\ dropped'[k] = Queue[k]
    BY <1>1, <1>3, <1>5
  <2>3. ASSUME NEW k \in 1 .. count
        PROVE  (k \in 1 .. e /\ dropped'[k] = Queue[k]) \/ (k - e \in 1 .. count' /\ Queue'[k - e] = Queue[k])
    <3>1. CASE k <= e
      BY <1>3, <1>5, <3>1
    <3>2. CASE k > e
      <4>1. k - e \in 1 .. count' /\ (k - e) + e = k
        BY <1>1, <1>3, <1>4, <3>2
      <4> QED
        BY <1>4, <4>1
    <3> QED
      BY <1>3, <3>1, <3>2
  <2>4. Waits(c)' \/ Drops(c)' <=> Waits(c)
    BY <1>5, <2>1, <2>2, <2>3 DEF Waits, Drops
  <2>5. ASSUME NEW j \in 1 .. count', NEW k \in 1 .. e PROVE Queue'[j] # dropped'[k]
    <3>1. j + e \in 1 .. count /\ k \in 1 .. count /\ j + e # k
      BY <1>1, <1>3, <2>1
    <3> QED
      BY <1>1, <2>1, <2>2, <3>1 DEF OncePerPlace
  <2> QED
    BY <1>5, <2>4, <2>5 DEF Waits, Drops
<1>11. OnePlace'
  BY <1>1, <1>6, <1>8, <1>9, <1>10 DEF OnePlace
<1>12. OncePerPlace'
  <2>1. ASSUME NEW j \in 1 .. count', NEW k \in 1 .. count', Queue'[j] = Queue'[k] PROVE j = k
    <3>1. j + e \in 1 .. count /\ k + e \in 1 .. count
      BY <1>1, <1>3, <1>4
    <3>2. j + e = k + e
      BY <1>1, <1>4, <2>1, <3>1 DEF OncePerPlace
    <3> QED
      BY <1>3, <3>2
  <2>2. ASSUME NEW j \in 1 .. Len(dropped'), NEW k \in 1 .. Len(dropped'), dropped'[j] = dropped'[k]
        PROVE  j = k
    <3>1. j \in 1 .. count /\ k \in 1 .. count /\ j \in 1 .. e /\ k \in 1 .. e
      BY <1>1, <1>3, <1>5
    <3> QED
      BY <1>1, <1>5, <2>2, <3>1 DEF OncePerPlace
  <2> QED
    BY <1>1, <1>6, <2>1, <2>2 DEF OncePerPlace
<1> QED
  BY <1>11, <1>12 DEF Placed

(* Out of the array of expired or drained connections, closed. *)
LEMMA RejectPlaces ==
  ASSUME IInv, RejectDropped
  PROVE  Placed'
<1>1. /\ TypeOK /\ OncePerPlace /\ OnePlace
      /\ NoConnection \notin Nat /\ Connections \subseteq Nat /\ arrived \in Nat
  BY WorkersAssumption DEF IInv, WorkersAssumption, Connections, TypeOK
<1>2. dropped \in Seq(Connections) /\ dropped # <<>>
  BY <1>1 DEF RejectDropped, TypeOK
<1>3. PICK d : d = Head(dropped)
  OBVIOUS
<1>4. PICK n : n = Len(dropped)
  OBVIOUS
<1>5. d \in Connections /\ d = dropped[1] /\ n \in Nat /\ n > 0
  BY <1>2, <1>3, <1>4, HeadTailProperties, EmptySeq
<1>6. Len(dropped') = n - 1 /\ \A k \in 1 .. n - 1 : dropped'[k] = dropped[k + 1]
  BY <1>2, <1>4, HeadTailProperties DEF RejectDropped
<1>7. /\ closes' = [closes EXCEPT ![d] = closes[d] + 1]
      /\ UNCHANGED <<ring, head, count, taken, client, arrived>>
  BY <1>3 DEF RejectDropped, Closed, pool, threads
<1>8. ASSUME NEW c \in Connections PROVE (InHand(c)' <=> InHand(c)) /\ (Waits(c)' <=> Waits(c))
  BY <1>7, SameLine DEF InHand, Waits
<1>9. ASSUME NEW c \in Connections PROVE Drops(c)' <=> Drops(c) /\ c # d
  <2>1. ASSUME NEW k \in 1 .. n - 1
        PROVE  k + 1 \in 1 .. n /\ dropped'[k] = dropped[k + 1] /\ dropped[k + 1] # d
    <3>1. k + 1 \in 1 .. n /\ k + 1 # 1 /\ 1 \in 1 .. n
      BY <1>5
    <3> QED
      BY <1>1, <1>4, <1>5, <1>6, <3>1 DEF OncePerPlace
  <2>2. ASSUME NEW k \in 1 .. n, dropped[k] # d
        PROVE  k - 1 \in 1 .. n - 1 /\ dropped'[k - 1] = dropped[k]
    <3>1. k - 1 \in 1 .. n - 1 /\ (k - 1) + 1 = k
      BY <1>5, <2>2
    <3> QED
      BY <1>6, <3>1
  <2> QED
    BY <1>4, <1>6, <2>1, <2>2 DEF Drops
<1>10. Drops(d)
  <2>1. 1 \in 1 .. n
    BY <1>5
  <2> QED
    BY <1>4, <1>5, <2>1 DEF Drops
<1>11. ~InHand(d) /\ ~Waits(d) /\ client # d /\ d <= arrived /\ closes[d] = 0
  BY <1>1, <1>5, <1>10 DEF OnePlace
<1>12. \A c \in Connections : closes'[c] = IF c = d THEN 1 ELSE closes[c]
  BY <1>1, <1>5, <1>7, <1>11 DEF TypeOK
<1>13. OnePlace'
  <2>1. ASSUME NEW c \in Connections
        PROVE  /\ InHand(c)' => ~Waits(c)' /\ ~Drops(c)' /\ client' # c
               /\ Waits(c)' => ~Drops(c)' /\ client' # c
               /\ Drops(c)' => client' # c
               /\ InHand(c)' \/ Waits(c)' \/ Drops(c)' \/ client' = c <=> c <= arrived' /\ closes'[c] = 0
               /\ closes'[c] \in {0, 1}
               /\ c > arrived' => closes'[c] = 0
    <3>1. CASE c = d
      BY <1>1, <1>7, <1>8, <1>9, <1>11, <1>12, <3>1
    <3>2. CASE c # d
      BY <1>1, <1>7, <1>8, <1>9, <1>12, <3>2 DEF OnePlace
    <3> QED
      BY <3>1, <3>2
  <2> QED
    BY <2>1 DEF OnePlace
<1>14. OncePerPlace'
  <2>1. ASSUME NEW j \in 1 .. n - 1, NEW k \in 1 .. n - 1, dropped'[j] = dropped'[k] PROVE j = k
    <3>1. j + 1 \in 1 .. n /\ k + 1 \in 1 .. n
      BY <1>5
    <3>2. j + 1 = k + 1
      BY <1>1, <1>4, <1>6, <2>1, <3>1 DEF OncePerPlace
    <3> QED
      BY <3>2
  <2>2. Queue' = Queue
    BY <1>7, SameLine
  <2> QED
    BY <1>1, <1>6, <1>7, <2>1, <2>2 DEF OncePerPlace
<1> QED
  BY <1>13, <1>14 DEF Placed

(* The whole ring into the array of drained connections. *)
LEMMA StopPlaces ==
  ASSUME IInv, Stop
  PROVE  Placed'
<1>1. TypeOK /\ QueueTyped /\ Control /\ OncePerPlace /\ OnePlace /\ count \in Nat
  BY WorkersAssumption DEF IInv, WorkersAssumption, TypeOK
<1>2. Len(dropped') = count /\ dropped' = Queue
  BY <1>1, LineTyped DEF Stop
<1>3. count' = 0 /\ UNCHANGED <<taken, client, arrived, closes>>
  BY DEF Stop, peers
<1>4. Len(dropped) = 0
  BY <1>1, EmptySeq DEF Stop, Control
<1>5. ASSUME NEW c \in Connections
      PROVE  (InHand(c)' <=> InHand(c)) /\ ~Waits(c)' /\ (Drops(c)' <=> Waits(c)) /\ ~Drops(c)
  BY <1>2, <1>3, <1>4 DEF InHand, Waits, Drops
<1>6. OnePlace'
  BY <1>1, <1>3, <1>5 DEF OnePlace
<1>7. OncePerPlace'
  BY <1>1, <1>2, <1>3 DEF OncePerPlace
<1> QED
  BY <1>6, <1>7 DEF Placed

(* Every step leaves every connection in one place. *)
LEMMA PlacesHold ==
  ASSUME IInv, [Next]_vars
  PROVE  Placed'
<1>1. Placed
  BY DEF IInv, Placed
<1>2. ASSUME NEW w \in Workers,
             Sleep(w) \/ SpuriousWake(w) \/ Serve(w) \/ Finish(w) \/ Exit(w) \/ CreateThread(w)
      PROVE  Placed'
  BY <1>1, <1>2, PlacesRest
  DEF Sleep, SpuriousWake, Serve, Finish, Exit, CreateThread, pool, acceptor, peers
<1>3. ASSUME Poll \/ SubmitRefused \/ LeaveLoop \/ Join \/ CreateFails \/ AcceptFails
             \/ Signal \/ Age \/ Done \/ UNCHANGED vars
      PROVE  Placed'
  BY <1>1, <1>3, PlacesRest
  DEF Poll, SubmitRefused, LeaveLoop, Join, CreateFails, AcceptFails, Signal, Age, Done,
      pool, threads, acceptor, peers, vars
<1> QED
  BY <1>2, <1>3, TakePlaces, CloseServedPlaces, RefusePlaces, AcceptPlaces, SubmitPlaces,
     ExpirePlaces, RejectPlaces, StopPlaces
  DEF Next, Worker, AcceptorStep

(* Every step of the acceptor and of a worker keeps the invariant. *)
LEMMA StepHolds == IInv /\ [Next]_vars => IInv'
  BY TypeHolds, ControlHolds, HandsHold, WakefulHolds, ActiveHolds, PlacesHold DEF IInv, Placed

(* The invariant holds throughout. *)
LEMMA Invariance == Spec => []IInv
<1>1. Init => IInv
  BY InitHolds
<1>2. IInv /\ [Next]_vars => IInv'
  BY StepHolds
<1> QED
  BY <1>1, <1>2, PTL DEF Spec

-----------------------------------------------------------------------------
(* Theorems *)

(* Every variable of the pool, its threads and the acceptor keeps its type;
   the ring's cursor and count stay within the ring. *)
THEOREM TypeCorrect == Spec => []TypeOK
<1>1. IInv => TypeOK
  BY DEF IInv
<1> QED
  BY <1>1, Invariance, PTL

(* A connection has as many owners as places: one, until it is closed. *)
LEMMA OwnersCounted ==
  ASSUME IInv, NEW c \in Connections
  PROVE  Owners(c) = IF c <= arrived /\ closes[c] = 0 THEN 1 ELSE 0
<1>1. /\ TypeOK /\ QueueTyped /\ OncePerPlace /\ OnePlace /\ count \in Nat
      /\ NoConnection \notin Nat /\ Connections \subseteq Nat
  BY WorkersAssumption DEF IInv, WorkersAssumption, Connections, TypeOK
<1>2. Cardinality({w \in Workers : taken[w] = c}) = IF InHand(c) THEN 1 ELSE 0
  <2> DEFINE H == {w \in Workers : taken[w] = c}
  <2>1. CASE InHand(c)
    <3>1. PICK w \in Workers : taken[w] = c
      BY <2>1 DEF InHand
    <3>2. H = {w}
      BY <1>1, <3>1 DEF OncePerPlace
    <3> QED
      BY <2>1, <3>2, FS_Singleton
  <2>2. CASE ~InHand(c)
    <3>1. H = {}
      BY <2>2 DEF InHand
    <3> QED
      BY <2>2, <3>1, FS_EmptySet
  <2> QED
    BY <2>1, <2>2
<1>3. Cardinality(Positions(Queue, c)) = IF Waits(c) THEN 1 ELSE 0
  <2>1. Positions(Queue, c) = {k \in 1 .. count : Queue[k] = c}
    BY <1>1, LineTyped DEF Positions
  <2>2. CASE Waits(c)
    <3>1. PICK k \in 1 .. count : Queue[k] = c
      BY <2>2 DEF Waits
    <3>2. Positions(Queue, c) = {k}
      BY <1>1, <2>1, <3>1 DEF OncePerPlace
    <3> QED
      BY <2>2, <3>2, FS_Singleton
  <2>3. CASE ~Waits(c)
    <3>1. Positions(Queue, c) = {}
      BY <2>1, <2>3 DEF Waits
    <3> QED
      BY <2>3, <3>1, FS_EmptySet
  <2> QED
    BY <2>2, <2>3
<1>4. Cardinality(Positions(dropped, c)) = IF Drops(c) THEN 1 ELSE 0
  <2>1. CASE Drops(c)
    <3>1. PICK k \in 1 .. Len(dropped) : dropped[k] = c
      BY <2>1 DEF Drops
    <3>2. Positions(dropped, c) = {k}
      BY <1>1, <3>1 DEF OncePerPlace, Positions
    <3> QED
      BY <2>1, <3>2, FS_Singleton
  <2>2. CASE ~Drops(c)
    <3>1. Positions(dropped, c) = {}
      BY <2>2 DEF Drops, Positions
    <3> QED
      BY <2>2, <3>1, FS_EmptySet
  <2> QED
    BY <2>1, <2>2
<1>5. Owners(c) = (IF InHand(c) THEN 1 ELSE 0) + (IF Waits(c) THEN 1 ELSE 0)
                    + (IF Drops(c) THEN 1 ELSE 0) + (IF client = c THEN 1 ELSE 0)
  BY <1>2, <1>3, <1>4 DEF Owners
<1> QED
  BY <1>1, <1>5 DEF OnePlace

(* Every accepted socket is in the hands of exactly one thread, slot or array,
   or closed exactly once, for every number of workers, slots and connections
   (web_workers.h:25). *)
THEOREM SocketsOwnedOnce == Spec => []SocketOwnedOnce
<1>1. IInv => SocketOwnedOnce
  <2> SUFFICES ASSUME IInv, NEW c \in 1 .. arrived PROVE Owners(c) + closes[c] = 1
    BY DEF SocketOwnedOnce
  <2>1. c \in Connections /\ c <= arrived
    BY WorkersAssumption DEF IInv, TypeOK, Connections, WorkersAssumption
  <2>2. closes[c] \in {0, 1}
    BY <2>1 DEF IInv, OnePlace
  <2> QED
    BY <2>1, <2>2, OwnersCounted
<1> QED
  BY <1>1, Invariance, PTL

(* When main frees the pool, every thread it created has left it and every
   accepted socket is closed (web_workers.c:187-197). *)
THEOREM FreedAfterUse == Spec => []FreedUnused
<1>1. IInv => FreedUnused
  <2> SUFFICES ASSUME IInv, freed
               PROVE  /\ \A w \in Workers : serving[w] \in {"unborn", "exited"}
                      /\ \A c \in 1 .. arrived : closes[c] = 1
    BY DEF FreedUnused
  <2>1. /\ main = "exit" /\ count = 0 /\ dropped = <<>> /\ client = NoConnection
        /\ \A w \in Workers : serving[w] \in {"unborn", "exited"}
    BY DEF IInv, Control, TypeOK
  <2>2. \A w \in Workers : taken[w] = NoConnection
    BY <2>1 DEF IInv, Hands
  <2>3. ASSUME NEW c \in 1 .. arrived PROVE closes[c] = 1
    <3>1. c \in Connections /\ c <= arrived /\ c # NoConnection
      BY WorkersAssumption DEF IInv, TypeOK, Connections, WorkersAssumption
    <3>2. Len(dropped) = 0
      BY <2>1, EmptySeq
    <3>3. ~InHand(c) /\ ~Waits(c) /\ ~Drops(c) /\ client # c
      BY <2>1, <2>2, <3>1, <3>2 DEF InHand, Waits, Drops
    <3> QED
      BY <3>1, <3>3 DEF IInv, OnePlace
  <2> QED
    BY <2>1, <2>3
<1> QED
  BY <1>1, Invariance, PTL

(* No worker sleeps on the pool's condition while a connection waits or the
   pool stops: no wakeup is lost. *)
THEOREM NoWakeupLost == Spec => [](asleep # {} => count = 0 /\ ~stopping)
<1>1. IInv => (asleep # {} => count = 0 /\ ~stopping)
  BY DEF IInv, Wakeful
<1> QED
  BY <1>1, Invariance, PTL

(* workers->active is the number of workers that serve a connection. *)
THEOREM ActiveIsExact == Spec => []ActiveExact
<1>1. IInv => ActiveExact
  BY DEF IInv
<1> QED
  BY <1>1, Invariance, PTL

-----------------------------------------------------------------------------
(* The ring as a line *)

(* What the front of the ring loses, the line loses from its front. *)
LEMMA LineShrinks ==
  ASSUME IInv, QueueTyped', NEW n \in 0 .. count, RemoveFront(n), ring' = ring
  PROVE  /\ Queue' = SubSeq(Queue, n + 1, Len(Queue))
         /\ \A c \in Connections : Waits(c)' <=> Waits(c) /\ ~(\E k \in 1 .. n : Queue[k] = c)
<1>1. /\ count \in Nat /\ Queue \in Seq(Connections) /\ Len(Queue) = count
      /\ head \in 0 .. Capacity - 1 /\ count \in 0 .. Capacity
  BY LineTyped, WorkersAssumption DEF IInv, TypeOK, WorkersAssumption
<1>2. /\ count' = count - n /\ count' \in Nat
      /\ \A k \in 1 .. count' : Queue'[k] = Queue[k + n]
  BY <1>1, Removed
<1>3. Queue' \in Seq(Connections) /\ Len(Queue') = count'
  <2>1. Queue' \in [1 .. count' -> Connections]
    BY DEF Queue, QueueTyped
  <2> QED
    BY <1>2, <2>1, SeqDef
<1>4. Queue' = SubSeq(Queue, n + 1, Len(Queue))
  <2>1. /\ SubSeq(Queue, n + 1, Len(Queue)) \in Seq(Connections)
        /\ Len(SubSeq(Queue, n + 1, Len(Queue))) = count'
        /\ \A k \in 1 .. count' : SubSeq(Queue, n + 1, Len(Queue))[k] = Queue[k + n]
    <3>1. \A i \in n + 1 .. count : Queue[i] \in Connections
      BY <1>1 DEF IInv, QueueTyped
    <3>2. n + 1 \in Int /\ count \in Int
      BY <1>1
    <3>3. /\ SubSeq(Queue, n + 1, count) \in Seq(Connections)
          /\ Len(SubSeq(Queue, n + 1, count)) = IF n + 1 <= count THEN count - (n + 1) + 1 ELSE 0
          /\ \A k \in 1 .. count - (n + 1) + 1 : SubSeq(Queue, n + 1, count)[k] = Queue[(n + 1) + k - 1]
      BY <3>1, <3>2, SubSeqProperties
    <3>4. ASSUME NEW k \in 1 .. count'
          PROVE  k \in 1 .. count - (n + 1) + 1 /\ (n + 1) + k - 1 = k + n
      BY <1>1, <1>2
    <3>5. \A k \in 1 .. count' : SubSeq(Queue, n + 1, count)[k] = Queue[k + n]
      BY <3>3, <3>4
    <3>6. count' = IF n + 1 <= count THEN count - (n + 1) + 1 ELSE 0
      BY <1>1, <1>2
    <3> QED
      BY <1>1, <3>3, <3>5, <3>6
  <2> QED
    BY <1>2, <1>3, <2>1, SeqEqual
<1>5. ASSUME NEW c \in Connections
      PROVE  Waits(c)' <=> Waits(c) /\ ~(\E k \in 1 .. n : Queue[k] = c)
  <2>1. ASSUME NEW j \in 1 .. count'
        PROVE  j + n \in 1 .. count /\ Queue'[j] = Queue[j + n] /\ \A k \in 1 .. n : Queue[k] # Queue[j + n]
    <3>1. j + n \in 1 .. count /\ \A k \in 1 .. n : k \in 1 .. count /\ k # j + n
      BY <1>1, <1>2
    <3> QED
      BY <1>2, <3>1 DEF IInv, OncePerPlace
  <2>2. ASSUME NEW j \in 1 .. count, j \notin 1 .. n
        PROVE  j - n \in 1 .. count' /\ Queue'[j - n] = Queue[j]
    <3>1. j - n \in 1 .. count' /\ (j - n) + n = j
      BY <1>1, <1>2, <2>2
    <3> QED
      BY <1>2, <3>1
  <2> QED
    BY <2>1, <2>2 DEF Waits
<1> QED
  BY <1>4, <1>5

(* What is submitted joins the line at its back. *)
LEMMA LineGrows ==
  ASSUME IInv, QueueTyped', Submit
  PROVE  /\ Queue' = Append(Queue, client)
         /\ \A c \in Connections : Waits(c)' <=> Waits(c) \/ c = client
<1>1. /\ count \in Nat /\ Queue \in Seq(Connections) /\ Len(Queue) = count
      /\ client \in Connections
  BY LineTyped, WorkersAssumption DEF IInv, TypeOK, WorkersAssumption, Control, Submit
<1>2. /\ count' = count + 1
      /\ \A k \in 1 .. count + 1 : Queue'[k] = IF k <= count THEN Queue[k] ELSE client
  BY Submitted DEF IInv
<1>3. Queue' \in Seq(Connections) /\ Len(Queue') = count + 1
  <2>1. Queue' \in [1 .. count' -> Connections]
    BY DEF Queue, QueueTyped
  <2> QED
    BY <1>1, <1>2, <2>1, SeqDef
<1>4. /\ Append(Queue, client) \in Seq(Connections)
      /\ Len(Append(Queue, client)) = count + 1
      /\ \A k \in 1 .. count : Append(Queue, client)[k] = Queue[k]
      /\ Append(Queue, client)[count + 1] = client
  BY <1>1, AppendProperties
<1>5. \A k \in 1 .. count + 1 : Queue'[k] = Append(Queue, client)[k]
  BY <1>1, <1>2, <1>4
<1>6. Queue' = Append(Queue, client)
  BY <1>3, <1>4, <1>5, SeqEqual
<1>7. ASSUME NEW c \in Connections PROVE Waits(c)' <=> Waits(c) \/ c = client
  <2>1. ASSUME NEW k \in 1 .. count + 1
        PROVE  Queue'[k] = client \/ (k \in 1 .. count /\ Queue'[k] = Queue[k])
    BY <1>1, <1>2
  <2>2. ASSUME NEW k \in 1 .. count PROVE k \in 1 .. count + 1 /\ Queue'[k] = Queue[k]
    BY <1>1, <1>2
  <2>3. count + 1 \in 1 .. count + 1 /\ Queue'[count + 1] = client
    BY <1>1, <1>2
  <2> QED
    BY <1>2, <2>1, <2>2, <2>3 DEF Waits
<1> QED
  BY <1>6, <1>7

(* The stage of a connection, by the place it has. *)
Stage(c) ==
  IF c > arrived THEN "new"
  ELSE IF closes[c] > 0 THEN "gone"
  ELSE IF Waits(c) THEN "waiting" ELSE "owned"

(* The stage the line gives a connection is read off the place it is in. *)
LEMMA StageByPlace ==
  ASSUME count \in Nat, QueueTyped, NEW c \in Connections
  PROVE  StageOf(c) = Stage(c)
<1>1. Positions(Queue, c) # {} <=> Waits(c)
  BY LineTyped DEF Positions, Waits
<1> QED
  BY <1>1 DEF StageOf, Stage

(* The same for the state after a step that keeps the invariant. *)
LEMMA StageByPlaceNext ==
  ASSUME count' \in Nat, QueueTyped', NEW c \in Connections
  PROVE  StageOf(c)' = Stage(c)'
<1>1. Queue' \in [1 .. count' -> Connections]
  BY DEF Queue, QueueTyped
<1>2. Len(Queue') = count'
  BY <1>1, SeqDef
<1>3. (Positions(Queue, c) # {})' <=> Waits(c)'
  BY <1>2 DEF Positions, Waits
<1> QED
  BY <1>3 DEF StageOf, Stage

(* Every step of the server is a step of the line or leaves it alone. *)
LEMMA LineStutters ==
  ASSUME UNCHANGED <<ring, head, count, arrived, closes, stopping>>
  PROVE  UNCHANGED Line!vars
<1>1. Queue' = Queue
  BY SameLine
<1>2. [c \in Connections |-> StageOf(c)]' = [c \in Connections |-> StageOf(c)]
  BY <1>1 DEF StageOf, Positions
<1> QED
  BY <1>1, <1>2 DEF Line!vars

(* Accepting a connection is its arrival at the line. *)
LEMMA AcceptIsArrive ==
  ASSUME IInv, IInv', Accept
  PROVE  \E c \in Connections : Line!Arrive(c)
<1>1. /\ Connections \subseteq Nat /\ arrived \in Nat /\ arrived + 1 \in Connections
      /\ arrived' = arrived + 1 /\ ~stopping
      /\ UNCHANGED <<ring, head, count, closes, stopping>>
  BY WorkersAssumption DEF IInv, TypeOK, Control, Accept, Connections, WorkersAssumption, pool
<1>2. Queue' = Queue
  BY <1>1, SameLine
<1>3. \A c \in Connections : StageOf(c) = Stage(c) /\ StageOf(c)' = Stage(c)'
  BY StageByPlace, StageByPlaceNext DEF IInv, TypeOK
<1>4. ASSUME NEW c \in Connections PROVE Waits(c)' <=> Waits(c)
  BY <1>1, <1>2 DEF Waits
<1>5. closes[arrived + 1] = 0 /\ ~Waits(arrived + 1)
  BY <1>1 DEF IInv, OnePlace
<1>6. ASSUME NEW c \in Connections
      PROVE  StageOf(c)' = IF c = arrived + 1 THEN "owned" ELSE StageOf(c)
  <2>1. c \in Nat
    BY <1>1
  <2> QED
    BY <1>1, <1>3, <1>4, <1>5, <2>1 DEF Stage
<1>7. StageOf(arrived + 1) = "new"
  BY <1>1, <1>3 DEF Stage
<1>8. [c \in Connections |-> StageOf(c)]'
        = [[c \in Connections |-> StageOf(c)] EXCEPT ![arrived + 1] = "owned"]
  BY <1>6
<1>9. Line!Arrive(arrived + 1)
  BY <1>1, <1>2, <1>7, <1>8 DEF Line!Arrive
<1> QED
  BY <1>1, <1>9

(* Putting a connection in the ring is admitting it to the line. *)
LEMMA SubmitIsAdmit ==
  ASSUME IInv, IInv', Submit
  PROVE  \E c \in Connections : Line!Admit(c)
<1>1. /\ client \in Connections /\ ~stopping /\ count < Capacity /\ count \in Nat
      /\ UNCHANGED <<arrived, closes, stopping>>
  BY WorkersAssumption
  DEF IInv, TypeOK, Control, Submit, Full, WorkersAssumption, peers
<1>2. /\ Queue' = Append(Queue, client) /\ Len(Queue) = count
      /\ \A c \in Connections : Waits(c)' <=> Waits(c) \/ c = client
  BY <1>1, LineGrows, LineTyped DEF IInv
<1>3. \A c \in Connections : StageOf(c) = Stage(c) /\ StageOf(c)' = Stage(c)'
  BY StageByPlace, StageByPlaceNext DEF IInv, TypeOK
<1>4. client <= arrived /\ closes[client] = 0 /\ ~Waits(client) /\ arrived \in Nat /\ client \in Nat
  BY <1>1, WorkersAssumption DEF IInv, OnePlace, TypeOK, Connections, WorkersAssumption
<1>5. ASSUME NEW c \in Connections
      PROVE  StageOf(c)' = IF c = client THEN "waiting" ELSE StageOf(c)
  BY <1>1, <1>2, <1>3, <1>4 DEF Stage
<1>6. StageOf(client) = "owned"
  BY <1>1, <1>3, <1>4 DEF Stage
<1>7. [c \in Connections |-> StageOf(c)]'
        = [[c \in Connections |-> StageOf(c)] EXCEPT ![client] = "waiting"]
  BY <1>5
<1>8. Line!Admit(client)
  BY <1>1, <1>2, <1>6, <1>7 DEF Line!Admit
<1> QED
  BY <1>1, <1>8

(* The n oldest leave the ring together. *)
LEMMA RemovalIsLeave ==
  ASSUME IInv, IInv', NEW n \in 1 .. count, RemoveFront(n), ~stopping,
         UNCHANGED <<ring, arrived, closes, stopping>>
  PROVE  \E m \in 1 .. Len(Queue) : Line!Leave(m)
<1>1. count \in Nat /\ Len(Queue) = count /\ n \in 0 .. count
  BY LineTyped, WorkersAssumption DEF IInv, TypeOK, WorkersAssumption
<1>2. /\ Queue' = SubSeq(Queue, n + 1, Len(Queue))
      /\ \A c \in Connections : Waits(c)' <=> Waits(c) /\ ~(\E k \in 1 .. n : Queue[k] = c)
  BY <1>1, LineShrinks DEF IInv
<1>3. \A c \in Connections : StageOf(c) = Stage(c) /\ StageOf(c)' = Stage(c)'
  BY StageByPlace, StageByPlaceNext DEF IInv, TypeOK
<1>4. ASSUME NEW c \in Connections, NEW k \in 1 .. n, Queue[k] = c
      PROVE  Waits(c) /\ c <= arrived /\ closes[c] = 0 /\ c \in Nat /\ arrived \in Nat
  <2>1. k \in 1 .. count
    BY <1>1
  <2>2. Waits(c)
    BY <1>4, <2>1 DEF Waits
  <2> QED
    BY <2>2, WorkersAssumption DEF IInv, OnePlace, TypeOK, Connections, WorkersAssumption
<1>5. ASSUME NEW c \in Connections
      PROVE  StageOf(c)' = IF \E k \in 1 .. n : Queue[k] = c THEN "owned" ELSE StageOf(c)
  <2>1. CASE \E k \in 1 .. n : Queue[k] = c
    <3>1. c <= arrived /\ closes[c] = 0 /\ c \in Nat /\ arrived \in Nat /\ ~Waits(c)'
      BY <1>2, <1>4, <2>1
    <3>2. Stage(c)' = "owned"
      BY <3>1 DEF Stage
    <3> QED
      BY <1>3, <2>1, <3>2
  <2>2. CASE ~ \E k \in 1 .. n : Queue[k] = c
    <3>1. Stage(c)' = Stage(c)
      BY <1>2, <2>2 DEF Stage
    <3> QED
      BY <1>3, <2>2, <3>1
  <2> QED
    BY <2>1, <2>2
<1>6. [c \in Connections |-> StageOf(c)]'
        = [c \in Connections |->
             IF \E k \in 1 .. n : Queue[k] = c THEN "owned"
             ELSE [d \in Connections |-> StageOf(d)][c]]
  BY <1>5
<1>7. Line!Leave(n)
  BY <1>2, <1>6 DEF Line!Leave
<1> QED
  BY <1>1, <1>7

(* A connection in a hand or in the array is closed. *)
LEMMA ClosingIsClose ==
  ASSUME IInv, IInv', NEW d \in Connections, InHand(d) \/ Drops(d) \/ client = d, Closed(d),
         UNCHANGED <<ring, head, count, arrived, stopping>>
  PROVE  \E c \in Connections : Line!Close(c)
<1>1. Queue' = Queue
  BY SameLine
<1>2. \A c \in Connections : StageOf(c) = Stage(c) /\ StageOf(c)' = Stage(c)'
  BY StageByPlace, StageByPlaceNext DEF IInv, TypeOK
<1>3. ~Waits(d) /\ d <= arrived /\ closes[d] = 0 /\ d \in Nat /\ arrived \in Nat
  BY WorkersAssumption DEF IInv, OnePlace, TypeOK, Connections, WorkersAssumption
<1>4. ASSUME NEW c \in Connections PROVE Waits(c)' <=> Waits(c)
  BY <1>1 DEF Waits
<1>5. \A c \in Connections : closes'[c] = IF c = d THEN 1 ELSE closes[c]
  BY <1>3 DEF IInv, TypeOK, Closed
<1>6. ASSUME NEW c \in Connections
      PROVE  StageOf(c)' = IF c = d THEN "gone" ELSE StageOf(c)
  <2>1. CASE c = d
    <3>1. Stage(d)' = "gone"
      BY <1>3, <1>5 DEF Stage
    <3> QED
      BY <1>2, <2>1, <3>1
  <2>2. CASE c # d
    <3>1. Stage(c)' = Stage(c)
      BY <1>4, <1>5, <2>2 DEF Stage
    <3> QED
      BY <1>2, <2>2, <3>1
  <2> QED
    BY <2>1, <2>2
<1>7. StageOf(d) = "owned"
  BY <1>2, <1>3 DEF Stage
<1>8. [c \in Connections |-> StageOf(c)]'
        = [[c \in Connections |-> StageOf(c)] EXCEPT ![d] = "gone"]
  BY <1>6
<1>9. Line!Close(d)
  BY <1>1, <1>7, <1>8 DEF Line!Close
<1> QED
  BY <1>9

(* Stopping the pool shuts the line. *)
LEMMA StopIsShut ==
  ASSUME IInv, IInv', Stop
  PROVE  Line!Shut
<1>1. /\ ~stopping /\ stopping' /\ count' = 0 /\ UNCHANGED <<arrived, closes>>
      /\ stopping' = TRUE
  BY DEF IInv, Control, Stop, peers
<1>2. Queue' = <<>>
  <2>1. Queue' \in [1 .. 0 -> Connections]
    BY <1>1 DEF Queue, IInv, QueueTyped
  <2>2. Queue' \in Seq(Connections) /\ Len(Queue') = 0
    BY <2>1, SeqDef
  <2> QED
    BY <2>2, EmptySeq
<1>3. \A c \in Connections : StageOf(c) = Stage(c) /\ StageOf(c)' = Stage(c)'
  BY StageByPlace, StageByPlaceNext DEF IInv, TypeOK
<1>4. ASSUME NEW c \in Connections PROVE ~Waits(c)'
  BY <1>1 DEF Waits
<1>5. ASSUME NEW c \in Connections
      PROVE  StageOf(c)' = IF StageOf(c) = "waiting" THEN "owned" ELSE StageOf(c)
  BY <1>1, <1>3, <1>4 DEF Stage
<1>6. [c \in Connections |-> StageOf(c)]'
        = [c \in Connections |->
             IF [d \in Connections |-> StageOf(d)][c] = "waiting" THEN "owned"
             ELSE [d \in Connections |-> StageOf(d)][c]]
  BY <1>5
<1> QED
  BY <1>1, <1>2, <1>6 DEF Line!Shut

(* The pool starts as an empty line. *)
LEMMA InitRefines == Init => Line!Init
<1> SUFFICES ASSUME Init PROVE Line!Init
  OBVIOUS
<1>1. IInv /\ count = 0 /\ arrived = 0 /\ stopping = FALSE
  BY InitHolds DEF Init
<1>2. Queue = <<>>
  <2>1. Queue \in Seq(Connections) /\ Len(Queue) = 0
    BY <1>1, LineTyped DEF IInv
  <2> QED
    BY <2>1, EmptySeq
<1>3. ASSUME NEW c \in Connections PROVE StageOf(c) = "new"
  <2>1. c > arrived
    BY <1>1, WorkersAssumption DEF Connections, WorkersAssumption
  <2> QED
    BY <2>1 DEF StageOf
<1> QED
  BY <1>1, <1>2, <1>3 DEF Line!Init

(* Every step of the pool is one of the line, or leaves the line as it was. *)
LEMMA StepRefines ==
  ASSUME IInv, IInv', [Next]_vars
  PROVE  [Line!Next]_(Line!vars)
<1>1. /\ Capacity \in Nat /\ Capacity > 0 /\ NoConnection \notin Connections
      /\ TypeOK /\ Control /\ Hands
  BY WorkersAssumption DEF IInv, WorkersAssumption, Connections
<1>2. ASSUME NEW w \in Workers,
             Sleep(w) \/ SpuriousWake(w) \/ Serve(w) \/ Finish(w) \/ Exit(w) \/ CreateThread(w)
      PROVE  UNCHANGED Line!vars
  BY <1>2, LineStutters
  DEF Sleep, SpuriousWake, Serve, Finish, Exit, CreateThread, pool, acceptor, peers
<1>3. ASSUME Poll \/ SubmitRefused \/ LeaveLoop \/ Join \/ CreateFails \/ AcceptFails
             \/ Signal \/ Age \/ Done \/ UNCHANGED vars
      PROVE  UNCHANGED Line!vars
  BY <1>3, LineStutters
  DEF Poll, SubmitRefused, LeaveLoop, Join, CreateFails, AcceptFails, Signal, Age, Done,
      pool, threads, acceptor, peers, vars
<1>4. ASSUME NEW w \in Workers, Take(w) PROVE Line!Next
  <2>1. /\ 1 \in 1 .. count /\ RemoveFront(1) /\ ~stopping
        /\ UNCHANGED <<ring, arrived, closes, stopping>>
    BY <1>1, <1>4 DEF TypeOK, Take, acceptor, peers
  <2> QED
    BY <2>1, RemovalIsLeave DEF Line!Next
<1>5. ASSUME Expire PROVE Line!Next \/ UNCHANGED Line!vars
  <2>1. PICK e : e = Expired
    OBVIOUS
  <2>2. /\ e \in 0 .. count /\ RemoveFront(e) /\ ~stopping
        /\ UNCHANGED <<ring, arrived, closes, stopping>>
    BY <1>1, <1>5, <2>1, ExpiredChosen DEF IInv, Expire, Control, threads, peers
  <2>3. CASE e = 0
    <3>1. /\ head \in 0 .. Capacity - 1 /\ count \in 0 .. Capacity
          /\ head' = (head + 0) % Capacity /\ count' = count - 0
      BY <1>1, <2>2, <2>3 DEF RemoveFront, TypeOK
    <3>2. (head + 0) % Capacity = head /\ count - 0 = count
      BY <1>1, <3>1, Wraps DEF Wrapped
    <3> QED
      BY <2>2, <3>1, <3>2, LineStutters
  <2>4. CASE e # 0
    <3>1. e \in 1 .. count
      BY <1>1, <2>2, <2>4
    <3> QED
      BY <2>2, <3>1, RemovalIsLeave DEF Line!Next
  <2> QED
    BY <2>3, <2>4
<1>6. ASSUME Accept PROVE Line!Next
  BY <1>6, AcceptIsArrive DEF Line!Next
<1>7. ASSUME Submit PROVE Line!Next
  BY <1>7, SubmitIsAdmit DEF Line!Next
<1>8. ASSUME NEW w \in Workers, CloseServed(w) PROVE Line!Next
  <2>1. taken[w] \in Connections /\ InHand(taken[w])
    BY <1>1, <1>8 DEF CloseServed, Hands, TypeOK, InHand
  <2>2. Closed(taken[w]) /\ UNCHANGED <<ring, head, count, arrived, stopping>>
    BY <1>8 DEF CloseServed, pool
  <2> QED
    BY <2>1, <2>2, ClosingIsClose DEF Line!Next
<1>9. ASSUME ConfigureFails \/ Refuse PROVE Line!Next
  <2>1. client \in Connections
    BY <1>1, <1>9 DEF ConfigureFails, Refuse, Control, TypeOK
  <2>2. Closed(client) /\ UNCHANGED <<ring, head, count, arrived, stopping>>
    BY <1>9 DEF ConfigureFails, Refuse, pool
  <2> QED
    BY <2>1, <2>2, ClosingIsClose DEF Line!Next
<1>10. ASSUME RejectDropped PROVE Line!Next
  <2>1. dropped \in Seq(Connections) /\ dropped # <<>>
    BY <1>1, <1>10 DEF RejectDropped, TypeOK
  <2>2. Head(dropped) \in Connections /\ Head(dropped) = dropped[1] /\ 1 \in 1 .. Len(dropped)
    BY <2>1, HeadTailProperties, EmptySeq
  <2>3. Drops(Head(dropped))
    BY <2>2 DEF Drops
  <2>4. Closed(Head(dropped)) /\ UNCHANGED <<ring, head, count, arrived, stopping>>
    BY <1>10 DEF RejectDropped, pool
  <2> QED
    BY <2>2, <2>3, <2>4, ClosingIsClose DEF Line!Next
<1>11. ASSUME Stop PROVE Line!Next
  BY <1>11, StopIsShut DEF Line!Next
<1> QED
  BY <1>2, <1>3, <1>4, <1>5, <1>6, <1>7, <1>8, <1>9, <1>10, <1>11
  DEF Next, Worker, AcceptorStep

(* The ring with its cursor and its count, read and written by the acceptor
   and any number of workers, is a bounded first-in first-out line that each
   connection leaves once, and that serves nobody once it is shut. *)
THEOREM RingRefinesLine == Spec => RingIsLine
<1>1. Init => Line!Init
  BY InitRefines
<1>2. IInv /\ IInv' /\ [Next]_vars => [Line!Next]_(Line!vars)
  BY StepRefines
<1> QED
  BY <1>1, <1>2, Invariance, PTL DEF Spec, RingIsLine, Line!Spec
================================================================================
