----------------------------- MODULE ClientStore -----------------------------
(***************************************************************************)
(* The concurrent client store of src/application/clients/client_store.c.  *)
(*                                                                         *)
(* A fixed pool of session entries and a fixed pool of evaluation caches   *)
(* are leased to the threads that serve requests.  READ leases of a        *)
(* session share it; every other lease is exclusive.  A call that meets a  *)
(* conflict may wait in the FIFO queue of the entry.  One process-wide     *)
(* mutex protects every field, so each critical section is one action, and *)
(* one condition variable, always broadcast, wakes every waiting call.     *)
(*                                                                         *)
(* Abstractions.  Time: an entry's last_used is "recent" until Elapse says *)
(* that idle_ms passed, and "never" if it was stamped by a clock that      *)
(* could not be read (UINT64_MAX, which no later reading exceeds); the     *)
(* deadline of a waiting call may pass at any moment (GiveUp).  Payloads:  *)
(* a session or a cache is its retained bytes and its released flag.       *)
(* Arguments the code rejects before it takes the lock (NULL, malformed    *)
(* ids) change nothing and are left out, and so is readers = SIZE_MAX.     *)
(***************************************************************************)
EXTENDS Integers, Sequences, FiniteSets, FiniteSetsExt

CONSTANTS
  Threads,         \* calling threads (the web workers)
  Ids,             \* client identifiers
  NoId,            \* the empty identifier of a free entry
  Capacity,        \* NUMFORGE_APPLICATION_CLIENT_CAPACITY, entries per pool
  PerEntry,        \* NUMFORGE_APPLICATION_CLIENT_PENDING_PER_ENTRY
  PendingLimit,    \* NUMFORGE_APPLICATION_CLIENT_PENDING_LIMIT
  Accesses,        \* the access modes used, of the five of the enum
  ClockReads,      \* {TRUE}, or BOOLEAN when the clock may fail to be read
  ByteSizes,       \* what a payload may retain
  DefaultLimits,   \* limits of a zeroed store
  Limits           \* limits a caller of configure may pass

AllAccesses == {"LIVE", "START", "RETAINED", "CACHE", "READ"}
LimitRecord == [client : Nat \ {0}, total : Nat \ {0}]

ASSUME ConstantsAssumption ==
  /\ IsFiniteSet(Threads)
  /\ NoId \notin Ids
  /\ Capacity \in Nat \ {0}
  /\ PerEntry \in Nat \ {0}
  /\ PendingLimit \in Nat \ {0}
  /\ Accesses \subseteq AllAccesses
  /\ ClockReads \subseteq BOOLEAN
  /\ ByteSizes \subseteq Nat
  /\ DefaultLimits \in LimitRecord
  /\ Limits \subseteq LimitRecord

Pools == {"session", "cache"}
Slots == 0 .. Capacity - 1
Entries == Pools \X Slots

VARIABLES
  entry,       \* the entries of both pools
  next,        \* next_session and next_cache, the replacement cursors
  pending,     \* number of queued calls in the store
  retained,    \* retained_bytes
  limits,      \* the limits in force
  call,        \* per thread: what it is doing with the store
  signalled    \* queued threads the condition variable has woken

vars == <<entry, next, pending, retained, limits, call, signalled>>

EntryRecord ==
  [id : Ids \cup {NoId}, busy : BOOLEAN, readers : Nat, queue : Seq(Threads),
   released : BOOLEAN, lastUsed : {"recent", "idle", "never"}, bytes : Nat]

CallRecord ==
  [pc : {"idle", "queued", "leased"}, id : Ids \cup {NoId},
   access : AllAccesses, entry : Entries]

EmptyEntry ==
  [id |-> NoId, busy |-> FALSE, readers |-> 0, queue |-> <<>>,
   released |-> FALSE, lastUsed |-> "recent", bytes |-> 0]

NoCall ==
  [pc |-> "idle", id |-> NoId, access |-> "LIVE", entry |-> <<"session", 0>>]

Init ==
  /\ entry = [e \in Entries |-> EmptyEntry]
  /\ next = [p \in Pools |-> 0]
  /\ pending = 0
  /\ retained = 0
  /\ limits = DefaultLimits
  /\ call = [t \in Threads |-> NoCall]
  /\ signalled = {}

-----------------------------------------------------------------------------
(* Expiry.  Every critical section that looks an entry up sweeps the store   *)
(* first, so E below is always the store after the sweep.                    *)

Pinned_IgnoresQueue(r) == r.busy \/ r.readers > 0
Pinned(r) == r.busy \/ r.readers > 0 \/ r.queue # <<>>

Expirable(e) ==
  /\ entry[e].id # NoId
  /\ ~Pinned(entry[e])
  /\ ~entry[e].released
  /\ entry[e].lastUsed = "idle"

Swept(clock) == {e \in Entries : clock /\ Expirable(e)}

(* An expired session keeps its id as a tombstone; a cache is forgotten. *)
Expired(e) ==
  IF e[1] = "session"
  THEN [entry[e] EXCEPT !.released = TRUE, !.bytes = 0]
  ELSE [entry[e] EXCEPT !.id = NoId, !.bytes = 0]

Sweep(clock) ==
  [e \in Entries |-> IF e \in Swept(clock) THEN Expired(e) ELSE entry[e]]

(* clear_session and clear_cache subtract what the entry retained. *)
BytesIn(S) == MapThenSumSet(LAMBDA e : entry[e].bytes, S)

-----------------------------------------------------------------------------
(* Lookup, admission and replacement: session_slot and cache_slot.           *)

PoolOf(a) == IF a = "CACHE" THEN "cache" ELSE "session"
Located(E, a, i) == {e \in Entries : e[1] = PoolOf(a) /\ E[e].id = i}

QueueReady_Newcomers(q, t, a) ==
  (\E k \in 1 .. Len(q) : q[k] = t) =>
    \A k \in 1 .. Len(q) :
      (\A j \in 1 .. k : q[j] # t) => a = "READ" /\ call[q[k]].access = "READ"

(* Everyone who waits before t is a reader and so is t; a call that is not
   in the queue yet (waiter == NULL) needs an empty queue. *)
QueueReady(q, t, a) ==
  IF \E k \in 1 .. Len(q) : q[k] = t
  THEN \A k \in 1 .. Len(q) :
         (\A j \in 1 .. k : q[j] # t) => a = "READ" /\ call[q[k]].access = "READ"
  ELSE q = <<>>

Conflict_IgnoresReaders(r, t, a) == r.busy \/ ~QueueReady(r.queue, t, a)
Conflict(r, t, a) ==
  \/ r.busy
  \/ a # "READ" /\ r.readers > 0
  \/ ~QueueReady(r.queue, t, a)

Gone_ButRead(r, a) == r.released /\ a \notin {"RETAINED", "READ"}
Gone(r, a) == r.released /\ a # "RETAINED"

Vacant(r) == r.id = NoId \/ r.released

(* The scan of 2 * Capacity candidates from the cursor: the nearest unpinned
   vacant slot, or else the nearest unpinned slot. *)
Victims(E, p) ==
  LET free == {s \in Slots : ~Pinned(E[<<p, s>>])}
      best == IF \E s \in free : Vacant(E[<<p, s>>])
              THEN {s \in free : Vacant(E[<<p, s>>])}
              ELSE free
      distance(s) == (s - next[p]) % Capacity
  IN {s \in best : \A r \in best : distance(s) <= distance(r)}

Claimed(E, e, i, clock) ==
  [E EXCEPT ![e] = [EmptyEntry EXCEPT !.id = i,
                      !.lastUsed = IF clock THEN "recent" ELSE "never"]]

Taken(E, e, a) ==
  [E EXCEPT ![e].busy = (a # "READ"),
            ![e].readers = IF a = "READ" THEN @ + 1 ELSE @]

Leased(t, i, a, e) ==
  [call EXCEPT ![t] = [pc |-> "leased", id |-> i, access |-> a, entry |-> e]]

Without(q, t) ==
  LET k == CHOOSE j \in 1 .. Len(q) : q[j] = t
  IN [j \in 1 .. Len(q) - 1 |-> IF j < k THEN q[j] ELSE q[j + 1]]

Dequeued_Oldest(E, e, t) == [E EXCEPT ![e].queue = Tail(@)]
Dequeued(E, e, t) == [E EXCEPT ![e].queue = Without(@, t)]

(* pthread_cond_signal in place of pthread_cond_broadcast *)
Broadcast_ToOne ==
  LET waiting == {u \in Threads : call'[u].pc = "queued"}
  IN signalled' \in IF waiting = {} THEN {{}}
                    ELSE {(signalled \cap waiting) \cup {u} : u \in waiting}
Broadcast == signalled' = {u \in Threads : call'[u].pc = "queued"}

-----------------------------------------------------------------------------
(* application_client_acquire_wait.  A refused call (SESSION_BUSY or          *)
(* SESSION_EXPIRED, with or without wait_ms) leaves nothing behind but its   *)
(* sweep of the store: it is the action Expire.                              *)

AcquireKnown(t, i, a, clock) ==
  LET E == Sweep(clock)
  IN /\ call[t].pc = "idle"
     /\ \E e \in Located(E, a, i) :
          /\ ~Conflict(E[e], t, a)
          /\ ~Gone(E[e], a)
          /\ entry' = Taken(E, e, a)
          /\ call' = Leased(t, i, a, e)
     /\ retained' = retained - BytesIn(Swept(clock))
     /\ UNCHANGED <<next, pending, limits, signalled>>

AcquireNew(t, i, a, clock) ==
  LET E == Sweep(clock)
      p == PoolOf(a)
  IN /\ call[t].pc = "idle"
     /\ a \in {"START", "CACHE"}
     /\ Located(E, a, i) = {}
     /\ \E s \in Victims(E, p) :
          /\ entry' = Taken(Claimed(E, <<p, s>>, i, clock), <<p, s>>, a)
          /\ call' = Leased(t, i, a, <<p, s>>)
          /\ next' = [next EXCEPT ![p] = (s + 1) % Capacity]
          /\ retained' = retained - BytesIn(Swept(clock) \cup {<<p, s>>})
     /\ UNCHANGED <<pending, limits, signalled>>

(* await_slot: join the queue, unless a queue is full, then look again: a
   reader behind readers only is served at once, or finds the session gone. *)
AcquireWaiting(t, i, a) ==
  LET E == Sweep(TRUE)
  IN /\ call[t].pc = "idle"
     /\ \E e \in Located(E, a, i) :
          LET joined == [E EXCEPT ![e].queue = Append(@, t)]
          IN /\ Conflict(E[e], t, a)
             /\ Len(E[e].queue) # PerEntry
             /\ pending # PendingLimit
             /\ \/ /\ Conflict(joined[e], t, a)
                   /\ entry' = joined
                   /\ call' = [call EXCEPT ![t] =
                        [pc |-> "queued", id |-> i, access |-> a, entry |-> e]]
                   /\ pending' = pending + 1
                   /\ UNCHANGED signalled
                \/ /\ ~Conflict(joined[e], t, a)
                   /\ ~Gone(E[e], a)
                   /\ entry' = Taken(E, e, a)
                   /\ call' = Leased(t, i, a, e)
                   /\ UNCHANGED pending
                   /\ Broadcast
                \/ /\ ~Conflict(joined[e], t, a)
                   /\ Gone(E[e], a)
                   /\ entry' = E
                   /\ UNCHANGED <<call, pending>>
                   /\ Broadcast
     /\ retained' = retained - BytesIn(Swept(TRUE))
     /\ UNCHANGED <<next, limits>>

(* A woken call looks its entry up again before its deadline. *)
Recheck(t) ==
  LET E == Sweep(TRUE)
      i == call[t].id
      a == call[t].access
  IN /\ call[t].pc = "queued"
     /\ t \in signalled
     /\ \E e \in Located(E, a, i) :
          \/ /\ Conflict(E[e], t, a)
             /\ entry' = E
             /\ signalled' = signalled \ {t}
             /\ UNCHANGED <<call, pending>>
          \/ /\ ~Conflict(E[e], t, a)
             /\ ~Gone(E[e], a)
             /\ entry' = Taken(Dequeued(E, e, t), e, a)
             /\ call' = Leased(t, i, a, e)
             /\ pending' = pending - 1
             /\ Broadcast
          \/ /\ ~Conflict(E[e], t, a)
             /\ Gone(E[e], a)
             /\ entry' = Dequeued(E, e, t)
             /\ call' = [call EXCEPT ![t] = NoCall]
             /\ pending' = pending - 1
             /\ Broadcast
     /\ retained' = retained - BytesIn(Swept(TRUE))
     /\ UNCHANGED <<next, limits>>

(* The deadline passed, the clock failed, or the thread was cancelled. *)
GiveUp(t) ==
  /\ call[t].pc = "queued"
  /\ entry' = Dequeued(entry, call[t].entry, t)
  /\ call' = [call EXCEPT ![t] = NoCall]
  /\ pending' = pending - 1
  /\ Broadcast
  /\ UNCHANGED <<next, retained, limits>>

SpuriousWake(t) ==
  /\ call[t].pc = "queued"
  /\ t \notin signalled
  /\ signalled' = signalled \cup {t}
  /\ UNCHANGED <<entry, next, pending, retained, limits, call>>

Freed(e, a, clock) ==
  [entry EXCEPT
     ![e].busy = IF a = "READ" THEN @ ELSE FALSE,
     ![e].readers = IF a = "READ" THEN @ - 1 ELSE @,
     ![e].lastUsed = IF clock THEN "recent" ELSE @]

Release(t, clock) ==
  /\ call[t].pc = "leased"
  /\ entry' = Freed(call[t].entry, call[t].access, clock)
  /\ call' = [call EXCEPT ![t] = NoCall]
  /\ Broadcast
  /\ UNCHANGED <<next, pending, retained, limits>>

-----------------------------------------------------------------------------
(* What the holder of an exclusive lease does to the payload.                *)

SameClient(e) == {f \in Entries : f # e /\ entry[f].id = entry[e].id}

Accepts_IgnoresOtherPool(e, bytes) ==
  \/ bytes <= entry[e].bytes
  \/ bytes <= limits.client /\ bytes - entry[e].bytes <= limits.total - retained

(* retain_client accepts bytes for the payload of entry e. *)
Accepts(e, bytes) ==
  \/ bytes <= entry[e].bytes
  \/ /\ BytesIn(SameClient(e)) <= limits.client
     /\ bytes <= limits.client - BytesIn(SameClient(e))
     /\ bytes - entry[e].bytes <= limits.total - retained

(* A refused resize changes nothing. *)
Resize(t, bytes) ==
  LET e == call[t].entry
  IN /\ call[t].pc = "leased"
     /\ call[t].access # "READ"
     /\ ~entry[e].released
     /\ Accepts(e, bytes)
     /\ retained' = retained - entry[e].bytes + bytes
     /\ entry' = [entry EXCEPT ![e].bytes = bytes]
     /\ UNCHANGED <<next, pending, limits, call, signalled>>

(* The lifecycle RELEASE of a session, requested under a RETAINED lease. *)
ReleaseSession(t) ==
  LET e == call[t].entry
  IN /\ call[t].pc = "leased"
     /\ call[t].access = "RETAINED"
     /\ ~entry[e].released
     /\ retained' = retained - entry[e].bytes
     /\ entry' = [entry EXCEPT ![e].bytes = 0, ![e].released = TRUE]
     /\ UNCHANGED <<next, pending, limits, call, signalled>>

-----------------------------------------------------------------------------
(* The acceptor's sweep, configuration and destruction.                      *)

Expire(clock) ==
  /\ entry' = Sweep(clock)
  /\ retained' = retained - BytesIn(Swept(clock))
  /\ UNCHANGED <<next, pending, limits, call, signalled>>

Elapse(e) ==
  /\ entry[e].id # NoId
  /\ entry[e].lastUsed = "recent"
  /\ entry' = [entry EXCEPT ![e].lastUsed = "idle"]
  /\ UNCHANGED <<next, pending, retained, limits, call, signalled>>

Configure(new) ==
  /\ new.client <= DefaultLimits.client
  /\ new.total <= DefaultLimits.total
  /\ pending = 0
  /\ retained = 0
  /\ \A e \in Entries : entry[e].id = NoId
  /\ limits' = new
  /\ UNCHANGED <<entry, next, pending, retained, call, signalled>>

Destroy ==
  /\ pending = 0
  /\ \A e \in Entries : ~entry[e].busy /\ entry[e].readers = 0
  /\ entry' = [e \in Entries |-> EmptyEntry]
  /\ next' = [p \in Pools |-> 0]
  /\ retained' = 0
  /\ limits' = DefaultLimits
  /\ UNCHANGED <<pending, call, signalled>>

-----------------------------------------------------------------------------
Next ==
  \/ \E t \in Threads, i \in Ids, a \in Accesses :
       \/ \E clock \in ClockReads : AcquireKnown(t, i, a, clock)
       \/ \E clock \in ClockReads : AcquireNew(t, i, a, clock)
       \/ AcquireWaiting(t, i, a)
  \/ \E t \in Threads :
       \/ Recheck(t)
       \/ GiveUp(t)
       \/ SpuriousWake(t)
       \/ \E clock \in ClockReads : Release(t, clock)
       \/ \E bytes \in ByteSizes : Resize(t, bytes)
       \/ ReleaseSession(t)
  \/ \E clock \in ClockReads : Expire(clock)
  \/ \E e \in Entries : Elapse(e)
  \/ \E new \in Limits : Configure(new)
  \/ Destroy

Spec == Init /\ [][Next]_vars

(* Fairness: a lease is released and a woken call runs again.  Deadlines are
   not fair: progress below does not come from calls that give up. *)
FairSpec ==
  /\ Spec
  /\ \A t \in Threads : WF_vars(Release(t, TRUE)) /\ WF_vars(Recheck(t))

-----------------------------------------------------------------------------
(* The types of every variable but retained, which WithinQuota fixes. *)
TypeOK ==
  /\ entry \in [Entries -> EntryRecord]
  /\ next \in [Pools -> Slots]
  /\ pending \in Nat
  /\ limits \in LimitRecord
  /\ call \in [Threads -> CallRecord]
  /\ signalled \subseteq Threads

LeasedOn(e) == {t \in Threads : call[t].pc = "leased" /\ call[t].entry = e}
QueuedOn(e) == {t \in Threads : call[t].pc = "queued" /\ call[t].entry = e}

(* Two threads hold leases on one entry only if both read it, whatever the
   order of waiting, waking, giving up and releasing (client_store.h:89). *)
LeaseExclusion ==
  \A t, u \in Threads :
    /\ t # u
    /\ call[t].pc = "leased"
    /\ call[u].pc = "leased"
    /\ call[t].entry = call[u].entry
    => call[t].access = "READ" /\ call[u].access = "READ"

(* An entry is neither expired, evicted nor given to another client while a
   thread holds it or waits for it: the client it was leased or queued for is
   still the one it stores (client_store.h:92, "a held slot cannot be evicted"). *)
PinnedIdentity ==
  \A t \in Threads :
    call[t].pc # "idle" =>
      /\ entry[call[t].entry].id = call[t].id
      /\ call[t].entry[1] = PoolOf(call[t].access)

(* A client has at most one entry in a pool, tombstones included, so that a
   lookup by id has one answer (client_store.c:194 takes the first). *)
UniqueIds ==
  \A e, f \in Entries :
    e[1] = f[1] /\ entry[e].id = entry[f].id /\ entry[e].id # NoId => e = f

(* The queues hold exactly the waiting calls, each once, pending counts them
   all, and both documented bounds hold (client_store.h:15). *)
QueueAccounting ==
  /\ \A e \in Entries :
       /\ {entry[e].queue[k] : k \in 1 .. Len(entry[e].queue)} = QueuedOn(e)
       /\ Len(entry[e].queue) = Cardinality(QueuedOn(e))
       /\ Len(entry[e].queue) <= PerEntry
  /\ pending = Cardinality({t \in Threads : call[t].pc = "queued"})
  /\ pending <= PendingLimit

(* A call that sleeps unsignalled would find the entry busy if it looked
   again: no release, departure or grant that could serve it went unannounced
   (the broadcasts of client_store.c:256 and 344). *)
NoLostWakeup ==
  \A t \in Threads :
    call[t].pc = "queued" /\ t \notin signalled =>
      Conflict(entry[call[t].entry], t, call[t].access)

(* retained_bytes is what the payloads of both pools retain, a tombstone
   retains nothing, the session and the cache of one client together stay
   within the client limit and the store within its total, although they grow
   under different leases and are swept at any time (client_store.c:119-124
   and 157-163, client_store.h:36). *)
WithinQuota ==
  /\ retained = BytesIn(Entries)
  /\ retained <= limits.total
  /\ \A e \in Entries :
       /\ entry[e].released => entry[e].bytes = 0
       /\ entry[e].id # NoId => BytesIn({e} \cup SameClient(e)) <= limits.client

(* The code's counters agree with the leases in existence. *)
LeaseCounters ==
  \A e \in Entries :
    /\ entry[e].busy <=> \E t \in LeasedOn(e) : call[t].access # "READ"
    /\ entry[e].readers =
         Cardinality({t \in LeasedOn(e) : call[t].access = "READ"})

(* START never revives a tombstone: a released session stays released for as
   long as the entry stores the same client (client_store.h:76). *)
TombstoneStays ==
  [][\A e \in Entries :
       entry[e].released /\ entry'[e].id = entry[e].id => entry'[e].released]_vars

(* While a writer waits, only calls that were ahead of it in the queue are
   served (client_store.h:115, "FIFO writers cannot be bypassed"). *)
WriterNotOvertaken ==
  [][\A w, t \in Threads :
       LET e == call[w].entry
           q == entry[e].queue
       IN /\ call[w].pc = "queued"
          /\ call'[w].pc = "queued"
          /\ call[w].access # "READ"
          /\ call[t].pc # "leased"
          /\ call'[t].pc = "leased"
          /\ call'[t].entry = e
          => \E j, k \in 1 .. Len(q) : j < k /\ q[j] = t /\ q[k] = w]_vars

(* Without any deadline passing, every waiting call is eventually served or
   told that its session expired, if lease holders release. *)
WaitersReturn ==
  \A t \in Threads : call[t].pc = "queued" ~> call[t].pc # "queued"
-----------------------------------------------------------------------------
(* The store, seen by its clients. *)

Home(p, i) == {e \in Entries : e[1] = p /\ entry[e].id = i}

PayloadOf(p, i) ==
  IF Home(p, i) = {} THEN "absent"
  ELSE IF \E e \in Home(p, i) : entry[e].released THEN "retired" ELSE "live"

RequestOf(t) == [thread |-> t, read |-> call[t].access = "READ"]

HoldersOf(p, i) ==
  {RequestOf(t) : t \in {u \in Threads : call[u].pc = "leased" /\ call[u].id = i
                                       /\ call[u].entry[1] = p}}

LineOf(p, i) ==
  IF Home(p, i) = {} THEN <<>>
  ELSE LET q == entry[CHOOSE e \in Home(p, i) : TRUE].queue
       IN [k \in 1 .. Len(q) |-> RequestOf(q[k])]

SessionLocks == INSTANCE ClientLocks WITH
  payload <- [i \in Ids |-> PayloadOf("session", i)],
  holders <- [i \in Ids |-> HoldersOf("session", i)],
  line <- [i \in Ids |-> LineOf("session", i)]

CacheLocks == INSTANCE ClientLocks WITH
  payload <- [i \in Ids |-> PayloadOf("cache", i)],
  holders <- [i \in Ids |-> HoldersOf("cache", i)],
  line <- [i \in Ids |-> LineOf("cache", i)]

(* Each pool implements the per-client lock with a FIFO line: a client's
   payload changes only under its lock, an ended session is not started again
   while it is remembered, readers never see one, and no call is served out of
   turn (client_store.h:76 and 89-121). *)
PoolsAreLocks == SessionLocks!Spec /\ CacheLocks!Spec
=============================================================================
