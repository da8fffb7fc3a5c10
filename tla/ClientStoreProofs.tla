-------------------------- MODULE ClientStoreProofs --------------------------
(***************************************************************************)
(* The inductive invariant of ClientStore and the safety properties that   *)
(* follow from it.                                                         *)
(*                                                                         *)
(* The properties are not inductive one by one: a release subtracts from a *)
(* reader count that must be at least one, which needs the count to be the *)
(* number of read leases; a woken call is served on the entry its id names *)
(* now, which must be the entry it queued on, which needs ids to be unique *)
(* and queued entries to be pinned; and an entry is pinned by a queue that *)
(* must hold whoever waits.  IInv says all of that together.  It is stated *)
(* over any entries E and calls c (Consistent), because every operation of *)
(* the store works on the entries its sweep leaves behind.                 *)
(*                                                                         *)
(* The second half proves what a call may count on: its wake-up is not     *)
(* lost, a writer is not overtaken, the end of a session it waits for is   *)
(* final, and what all sessions retain, and those of one client, stays     *)
(* within the quota.  And what all of it amounts to: each pool implements  *)
(* ClientLocks.  All rest on IInv, the quota also on the sums of           *)
(* SumsAndLoops, the refinement on what a call's place in a queue is to the  *)
(* line of its client.                                                     *)
(***************************************************************************)
EXTENDS ClientStore, SumsAndLoops, SequenceTheorems

Members(q) == {q[k] : k \in 1 .. Len(q)}
Distinct(q) == \A j, k \in 1 .. Len(q) : q[j] = q[k] => j = k

Queuers(c, e) == {t \in Threads : c[t].pc = "queued" /\ c[t].entry = e}
Leasers(c, e) == {t \in Threads : c[t].pc = "leased" /\ c[t].entry = e}
Readers(c, e) == {t \in Leasers(c, e) : c[t].access = "READ"}
Waiting(c) == {t \in Threads : c[t].pc = "queued"}

Typed(E, c) ==
  /\ E \in [Entries -> EntryRecord]
  /\ c \in [Threads -> CallRecord]

Identified(E, c) ==
  \A t \in Threads :
    c[t].pc # "idle" =>
      /\ c[t].id \in Ids
      /\ E[c[t].entry].id = c[t].id
      /\ c[t].entry[1] = PoolOf(c[t].access)

Lined(E, c) ==
  \A e \in Entries :
    /\ Members(E[e].queue) = Queuers(c, e)
    /\ Distinct(E[e].queue)
    /\ Len(E[e].queue) = Cardinality(Queuers(c, e))
    /\ Len(E[e].queue) <= PerEntry

Counted(E, c) ==
  \A e \in Entries :
    /\ E[e].readers = Cardinality(Readers(c, e))
    /\ E[e].busy <=> \E t \in Leasers(c, e) : c[t].access # "READ"

Exclusive(c) ==
  \A e \in Entries : \A t, u \in Leasers(c, e) :
    t # u => c[t].access = "READ" /\ c[u].access = "READ"

(* UniqueIds, of any entries *)
Unique(E) ==
  \A e, f \in Entries :
    e[1] = f[1] /\ E[e].id = E[f].id /\ E[e].id # NoId => e = f

Consistent(E, c) ==
  /\ Typed(E, c)
  /\ Identified(E, c)
  /\ Lined(E, c)
  /\ Counted(E, c)
  /\ Exclusive(c)

(* There is an entry for NoCall to name. *)
LEMMA EntriesNonempty == <<"session", 0>> \in Entries
  BY ConstantsAssumption DEF Entries, Pools, Slots

(* An idle thread has a typed record. *)
LEMMA NoCallTyped == NoCall \in CallRecord
  BY EntriesNonempty DEF NoCall, CallRecord, AllAccesses

(* Threads are finite, and so is every set of them. *)
LEMMA ThreadSetsFinite ==
  ASSUME NEW c, NEW e
  PROVE  /\ IsFiniteSet(Queuers(c, e)) /\ Cardinality(Queuers(c, e)) \in Nat
         /\ IsFiniteSet(Readers(c, e)) /\ Cardinality(Readers(c, e)) \in Nat
         /\ IsFiniteSet(Waiting(c)) /\ Cardinality(Waiting(c)) \in Nat
<1>1. Queuers(c, e) \in SUBSET Threads /\ Readers(c, e) \in SUBSET Threads /\ Waiting(c) \in SUBSET Threads
  BY DEF Queuers, Readers, Leasers, Waiting
<1>2. IsFiniteSet(Threads)
  BY ConstantsAssumption
<1> QED
  BY <1>1, <1>2, FS_Subset, FS_CardinalityType

-----------------------------------------------------------------------------
(* A step that leaves queue, busy and readers alone, and the identity of the
   entries in use, keeps the store consistent. *)
LEMMA PayloadConsistent ==
  ASSUME NEW E, NEW F, NEW c,
         Consistent(E, c),
         F \in [Entries -> EntryRecord],
         \A e \in Entries :
           /\ F[e].queue = E[e].queue
           /\ F[e].busy = E[e].busy
           /\ F[e].readers = E[e].readers
           /\ Pinned(E[e]) => F[e].id = E[e].id
  PROVE  Consistent(F, c)
<1>1. Typed(F, c) /\ Lined(F, c) /\ Counted(F, c) /\ Exclusive(c)
  BY DEF Consistent, Typed, Lined, Counted
<1>2. ASSUME NEW t \in Threads, c[t].pc # "idle"
      PROVE  Pinned(E[c[t].entry])
  <2>0. c[t].entry \in Entries /\ c[t].pc \in {"idle", "queued", "leased"}
    BY DEF Consistent, Typed, CallRecord
  <2>1. CASE c[t].pc = "queued"
    <3>1. t \in Members(E[c[t].entry].queue)
      BY <2>0, <2>1 DEF Consistent, Lined, Queuers
    <3>2. E[c[t].entry].queue # <<>>
      BY <3>1 DEF Members
    <3> QED
      BY <3>2 DEF Pinned
  <2>2. CASE c[t].pc = "leased" /\ c[t].access # "READ"
    BY <2>0, <2>2 DEF Consistent, Counted, Leasers, Pinned
  <2>3. CASE c[t].pc = "leased" /\ c[t].access = "READ"
    <3>1. t \in Readers(c, c[t].entry)
      BY <2>0, <2>3 DEF Readers, Leasers
    <3>2. Cardinality(Readers(c, c[t].entry)) # 0
      BY <3>1, ThreadSetsFinite, FS_EmptySet
    <3>3. E[c[t].entry].readers > 0
      BY <2>0, <3>2, ThreadSetsFinite DEF Consistent, Counted
    <3> QED
      BY <3>3 DEF Pinned
  <2> QED
    BY <1>2, <2>0, <2>1, <2>2, <2>3
<1>3. Identified(F, c)
  BY <1>2 DEF Consistent, Identified, Typed, CallRecord
<1> QED
  BY <1>1, <1>3 DEF Consistent

(* Entries that keep or lose their ids stay unique. *)
LEMMA IdsKept ==
  ASSUME NEW E, NEW F, Unique(E), \A e \in Entries : F[e].id \in {E[e].id, NoId}
  PROVE  Unique(F)
BY DEF Unique

(* A sweep only ever removes ids. *)
LEMMA SweepIds ==
  ASSUME NEW clock \in BOOLEAN, entry \in [Entries -> EntryRecord], NEW e \in Entries
  PROVE  Sweep(clock)[e].id \in {entry[e].id, NoId}
BY DEF Sweep, Expired, EntryRecord

(* A sweep keeps the store consistent. *)
LEMMA SweepConsistent ==
  ASSUME NEW c, NEW clock \in BOOLEAN, Consistent(entry, c)
  PROVE  Consistent(Sweep(clock), c)
<1>1. entry \in [Entries -> EntryRecord]
  BY DEF Consistent, Typed
<1>2. \A e \in Entries : Expired(e) \in EntryRecord
  BY <1>1 DEF Expired, EntryRecord
<1>3. Sweep(clock) \in [Entries -> EntryRecord]
  BY <1>1, <1>2 DEF Sweep
<1>4. \A e \in Entries :
        /\ Sweep(clock)[e].queue = entry[e].queue
        /\ Sweep(clock)[e].busy = entry[e].busy
        /\ Sweep(clock)[e].readers = entry[e].readers
        /\ Pinned(entry[e]) => Sweep(clock)[e].id = entry[e].id
  BY <1>1 DEF Sweep, Swept, Expirable, Expired, EntryRecord
<1> QED
  BY <1>3, <1>4, PayloadConsistent

(* Claiming an unpinned entry for a new client keeps it consistent. *)
LEMMA ClaimedConsistent ==
  ASSUME NEW E, NEW c, NEW e \in Entries, NEW i \in Ids, NEW clock \in BOOLEAN,
         Consistent(E, c), ~Pinned(E[e])
  PROVE  Consistent(Claimed(E, e, i, clock), c)
<1> DEFINE F == Claimed(E, e, i, clock)
<1>1. E \in [Entries -> EntryRecord]
  BY DEF Consistent, Typed
<1>2. E[e].queue = <<>> /\ E[e].busy = FALSE /\ E[e].readers = 0
  BY <1>1 DEF Pinned, EntryRecord
<1> DEFINE stamp == IF clock THEN "recent" ELSE "never"
           fresh == [EmptyEntry EXCEPT !.id = i, !.lastUsed = stamp]
<1>3. F = [E EXCEPT ![e] = fresh]
  BY DEF Claimed
<1>4. stamp \in {"recent", "idle", "never"}
  OBVIOUS
<1> HIDE DEF stamp
<1>5. <<>> \in Seq(Threads)
  OBVIOUS
<1>6. fresh \in EntryRecord
  BY <1>4, <1>5 DEF EmptyEntry, EntryRecord
<1>7. fresh.queue = <<>> /\ fresh.busy = FALSE /\ fresh.readers = 0
  BY DEF EmptyEntry
<1> HIDE DEF fresh, F
<1>8. F \in [Entries -> EntryRecord]
  BY <1>1, <1>3, <1>6
<1>9. ASSUME NEW f \in Entries
      PROVE  /\ F[f].queue = E[f].queue
             /\ F[f].busy = E[f].busy
             /\ F[f].readers = E[f].readers
             /\ Pinned(E[f]) => F[f].id = E[f].id
  <2>1. CASE f = e
    <3>1. F[f] = fresh
      BY <1>1, <1>3, <2>1
    <3> QED
      BY <1>2, <1>7, <2>1, <3>1
  <2>2. CASE f # e
    <3>1. F[f] = E[f]
      BY <1>1, <1>3, <2>2
    <3> QED
      BY <3>1
  <2> QED
    BY <2>1, <2>2
<1> QED
  BY <1>8, <1>9, PayloadConsistent DEF F

(* The pointwise effect of a grant. *)
LEMMA TakenEntry ==
  ASSUME NEW E \in [Entries -> EntryRecord], NEW e \in Entries, NEW a
  PROVE  /\ Taken(E, e, a) \in [Entries -> EntryRecord]
         /\ \A f \in Entries : f # e => Taken(E, e, a)[f] = E[f]
         /\ Taken(E, e, a)[e].busy = (a # "READ")
         /\ Taken(E, e, a)[e].readers = IF a = "READ" THEN E[e].readers + 1 ELSE E[e].readers
         /\ Taken(E, e, a)[e].queue = E[e].queue
         /\ Taken(E, e, a)[e].id = E[e].id
         /\ Taken(E, e, a)[e].released = E[e].released
         /\ Taken(E, e, a)[e].bytes = E[e].bytes
<1> DEFINE r == IF a = "READ" THEN E[e].readers + 1 ELSE E[e].readers
           x == (a # "READ")
<1>1. Taken(E, e, a) = [E EXCEPT ![e].busy = x, ![e].readers = r]
  BY DEF Taken
<1>2. r \in Nat /\ x \in BOOLEAN
  BY DEF EntryRecord
<1> HIDE DEF r, x
<1>3. [E EXCEPT ![e].busy = x, ![e].readers = r]
        = [E EXCEPT ![e] = [E[e] EXCEPT !.busy = x, !.readers = r]]
  BY DEF EntryRecord
<1>4. /\ [E[e] EXCEPT !.busy = x, !.readers = r] \in EntryRecord
      /\ [E[e] EXCEPT !.busy = x, !.readers = r].busy = x
      /\ [E[e] EXCEPT !.busy = x, !.readers = r].readers = r
      /\ [E[e] EXCEPT !.busy = x, !.readers = r].queue = E[e].queue
      /\ [E[e] EXCEPT !.busy = x, !.readers = r].id = E[e].id
      /\ [E[e] EXCEPT !.busy = x, !.readers = r].released = E[e].released
      /\ [E[e] EXCEPT !.busy = x, !.readers = r].bytes = E[e].bytes
  BY <1>2 DEF EntryRecord
<1> DEFINE s == [E[e] EXCEPT !.busy = x, !.readers = r]
<1> HIDE DEF s
<1>5. Taken(E, e, a) = [E EXCEPT ![e] = s]
  BY <1>1, <1>3 DEF s
<1>6. Taken(E, e, a)[e] = s /\ \A f \in Entries : f # e => Taken(E, e, a)[f] = E[f]
  BY <1>5
<1>7. Taken(E, e, a) \in [Entries -> EntryRecord]
  BY <1>4, <1>5 DEF s
<1> QED
  BY <1>4, <1>6, <1>7 DEF s, r, x

(* Granting a lease that does not conflict with the holders. *)
LEMMA TakenConsistent ==
  ASSUME NEW E, NEW c, NEW e \in Entries, NEW t \in Threads, NEW i \in Ids,
         NEW a \in AllAccesses,
         Consistent(E, c),
         c[t].pc = "idle",
         ~E[e].busy,
         a # "READ" => ~(E[e].readers > 0),
         E[e].id = i,
         e[1] = PoolOf(a)
  PROVE  Consistent(Taken(E, e, a),
                    [c EXCEPT ![t] = [pc |-> "leased", id |-> i, access |-> a, entry |-> e]])
<1> DEFINE F == Taken(E, e, a)
           d == [c EXCEPT ![t] = [pc |-> "leased", id |-> i, access |-> a, entry |-> e]]
<1>1. E \in [Entries -> EntryRecord] /\ c \in [Threads -> CallRecord]
  BY DEF Consistent, Typed
<1>2. /\ F \in [Entries -> EntryRecord]
      /\ \A f \in Entries : f # e => F[f] = E[f]
      /\ F[e].busy = (a # "READ")
      /\ F[e].readers = IF a = "READ" THEN E[e].readers + 1 ELSE E[e].readers
      /\ F[e].queue = E[e].queue
      /\ F[e].id = E[e].id
  BY <1>1, TakenEntry
<1>3. d \in [Threads -> CallRecord]
  BY <1>1 DEF CallRecord
<1>4. /\ \A u \in Threads : u # t => d[u] = c[u]
      /\ d[t].pc = "leased" /\ d[t].id = i /\ d[t].access = a /\ d[t].entry = e
  BY <1>1
<1> HIDE DEF F, d
<1>5. Identified(F, d)
  BY <1>1, <1>2, <1>3, <1>4 DEF Consistent, Identified, CallRecord
<1>6. \A f \in Entries : Queuers(d, f) = Queuers(c, f)
  BY <1>4 DEF Queuers
<1>7. Lined(F, d)
  BY <1>2, <1>6 DEF Consistent, Lined
<1>8. \A f \in Entries : f # e => Leasers(d, f) = Leasers(c, f)
  BY <1>4 DEF Leasers
<1>9. Leasers(d, e) = Leasers(c, e) \cup {t} /\ t \notin Leasers(c, e)
  BY <1>4 DEF Leasers
<1>10. \A u \in Leasers(c, e) : c[u].access = "READ" /\ a = "READ"
  <2> SUFFICES ASSUME NEW u \in Leasers(c, e)
               PROVE  c[u].access = "READ" /\ a = "READ"
    OBVIOUS
  <2>1. c[u].access = "READ"
    BY DEF Consistent, Counted
  <2>2. u \in Readers(c, e)
    BY <2>1 DEF Readers
  <2>3. E[e].readers > 0
    BY <2>2, ThreadSetsFinite, FS_EmptySet DEF Consistent, Counted
  <2> QED
    BY <2>1, <2>3
<1>11. \A f \in Entries : f # e => Readers(d, f) = Readers(c, f)
  BY <1>4, <1>8 DEF Readers, Leasers
<1>12. Readers(d, e) = IF a = "READ" THEN Readers(c, e) \cup {t} ELSE Readers(c, e)
  BY <1>4, <1>9 DEF Readers, Leasers
<1>13. Cardinality(Readers(d, e)) = F[e].readers
  <2>1. E[e].readers = Cardinality(Readers(c, e))
    BY DEF Consistent, Counted
  <2>2. t \notin Readers(c, e)
    BY <1>9 DEF Readers
  <2>3. Cardinality(Readers(c, e) \cup {t}) = Cardinality(Readers(c, e)) + 1
    BY <2>2, ThreadSetsFinite, FS_AddElement
  <2> QED
    BY <1>2, <1>12, <2>1, <2>3
<1>14. \A f \in Entries : F[f].busy <=> \E u \in Leasers(d, f) : d[u].access # "READ"
  <2> SUFFICES ASSUME NEW f \in Entries
               PROVE  F[f].busy <=> \E u \in Leasers(d, f) : d[u].access # "READ"
    OBVIOUS
  <2>1. CASE f = e
    <3>1. \A u \in Leasers(c, e) : d[u].access = "READ"
      BY <1>4, <1>9, <1>10 DEF Leasers
    <3> QED
      BY <1>2, <1>4, <1>9, <2>1, <3>1
  <2>2. CASE f # e
    <3>1. \A u \in Leasers(c, f) : u # t /\ d[u] = c[u]
      BY <1>4 DEF Leasers
    <3> QED
      BY <1>2, <1>8, <2>2, <3>1 DEF Consistent, Counted
  <2> QED
    BY <2>1, <2>2
<1>15. Counted(F, d)
  BY <1>2, <1>11, <1>13, <1>14 DEF Consistent, Counted
<1>16. Exclusive(d)
  <2> SUFFICES ASSUME NEW f \in Entries, NEW u \in Leasers(d, f), NEW v \in Leasers(d, f), u # v
               PROVE  d[u].access = "READ" /\ d[v].access = "READ"
    BY DEF Exclusive
  <2>1. CASE f = e
    BY <1>4, <1>9, <1>10, <2>1 DEF Leasers
  <2>2. CASE f # e
    BY <1>4, <1>8, <2>2 DEF Leasers, Consistent, Exclusive
  <2> QED
    BY <2>1, <2>2
<1> QED
  BY <1>2, <1>3, <1>5, <1>7, <1>15, <1>16 DEF Consistent, Typed, F, d

(* The pointwise effect of a release: on what it leaves alone, and on the two
   fields that say who holds the entry. *)
LEMMA FreedRest ==
  ASSUME entry \in [Entries -> EntryRecord], NEW e \in Entries, NEW a, NEW clock
  PROVE  \A f \in Entries :
           /\ f # e => Freed(e, a, clock)[f] = entry[f]
           /\ Freed(e, a, clock)[f].queue = entry[f].queue
           /\ Freed(e, a, clock)[f].id = entry[f].id
           /\ Freed(e, a, clock)[f].released = entry[f].released
           /\ Freed(e, a, clock)[f].bytes = entry[f].bytes
<1> DEFINE x == IF a = "READ" THEN entry[e].busy ELSE FALSE
           r == IF a = "READ" THEN entry[e].readers - 1 ELSE entry[e].readers
           u == IF clock THEN "recent" ELSE entry[e].lastUsed
           s == [entry[e] EXCEPT !.busy = x, !.readers = r, !.lastUsed = u]
<1>1. Freed(e, a, clock) = [entry EXCEPT ![e].busy = x, ![e].readers = r, ![e].lastUsed = u]
  BY DEF Freed
<1> HIDE DEF x, r, u
<1>2. [entry EXCEPT ![e].busy = x, ![e].readers = r, ![e].lastUsed = u]
        = [entry EXCEPT ![e] = s]
  BY DEF EntryRecord
<1>3. /\ s.queue = entry[e].queue /\ s.id = entry[e].id
      /\ s.released = entry[e].released /\ s.bytes = entry[e].bytes
  BY DEF EntryRecord
<1> HIDE DEF s
<1>4. Freed(e, a, clock) = [entry EXCEPT ![e] = s]
  BY <1>1, <1>2
<1> QED
  BY <1>3, <1>4

(* What releasing a lease does to its entry. *)
LEMMA FreedEntry ==
  ASSUME entry \in [Entries -> EntryRecord], NEW e \in Entries, NEW a, NEW clock,
         a = "READ" => entry[e].readers > 0
  PROVE  /\ Freed(e, a, clock) \in [Entries -> EntryRecord]
         /\ a # "READ" => /\ Freed(e, a, clock)[e].busy = FALSE
                          /\ Freed(e, a, clock)[e].readers = entry[e].readers
         /\ a = "READ" => /\ Freed(e, a, clock)[e].busy = entry[e].busy
                          /\ Freed(e, a, clock)[e].readers = entry[e].readers - 1
<1> DEFINE x == IF a = "READ" THEN entry[e].busy ELSE FALSE
           r == IF a = "READ" THEN entry[e].readers - 1 ELSE entry[e].readers
           u == IF clock THEN "recent" ELSE entry[e].lastUsed
           s == [entry[e] EXCEPT !.busy = x, !.readers = r, !.lastUsed = u]
<1>1. Freed(e, a, clock) = [entry EXCEPT ![e].busy = x, ![e].readers = r, ![e].lastUsed = u]
  BY DEF Freed
<1>2. entry[e] \in EntryRecord
  OBVIOUS
<1>3. x \in BOOLEAN /\ r \in Nat /\ u \in {"recent", "idle", "never"}
  <2>1. x \in BOOLEAN
    BY <1>2 DEF EntryRecord
  <2>2. r \in Nat
    BY <1>2 DEF EntryRecord
  <2>3. u \in {"recent", "idle", "never"}
    BY <1>2 DEF EntryRecord
  <2> QED
    BY <2>1, <2>2, <2>3
<1>4. /\ a # "READ" => x = FALSE /\ r = entry[e].readers
      /\ a = "READ" => x = entry[e].busy /\ r = entry[e].readers - 1
  OBVIOUS
<1> HIDE DEF x, r, u
<1>5. [entry EXCEPT ![e].busy = x, ![e].readers = r, ![e].lastUsed = u]
        = [entry EXCEPT ![e] = s]
  BY DEF EntryRecord
<1>6. s \in EntryRecord /\ s.busy = x /\ s.readers = r
  BY <1>3 DEF EntryRecord
<1> HIDE DEF s
<1>7. Freed(e, a, clock) = [entry EXCEPT ![e] = s]
  BY <1>1, <1>5
<1>8. Freed(e, a, clock) \in [Entries -> EntryRecord]
  BY <1>6, <1>7
<1>9. Freed(e, a, clock)[e].busy = x /\ Freed(e, a, clock)[e].readers = r
  BY <1>6, <1>7
<1> QED
  BY <1>4, <1>8, <1>9

(* Releasing a lease keeps the store consistent. *)
LEMMA FreedConsistent ==
  ASSUME NEW c, NEW t \in Threads, NEW clock \in BOOLEAN, Consistent(entry, c), c[t].pc = "leased"
  PROVE  Consistent(Freed(c[t].entry, c[t].access, clock), [c EXCEPT ![t] = NoCall])
<1> DEFINE e == c[t].entry
           a == c[t].access
           F == Freed(e, a, clock)
           d == [c EXCEPT ![t] = NoCall]
<1>1. entry \in [Entries -> EntryRecord] /\ c \in [Threads -> CallRecord]
  BY DEF Consistent, Typed
<1>2. e \in Entries /\ t \in Leasers(c, e)
  BY <1>1 DEF CallRecord, Leasers
<1>3. a = "READ" => t \in Readers(c, e)
  BY <1>2 DEF Readers
<1>4. a = "READ" => entry[e].readers > 0
  BY <1>2, <1>3, ThreadSetsFinite, FS_EmptySet DEF Consistent, Counted
<1> HIDE DEF e, a
<1>5. /\ F \in [Entries -> EntryRecord]
      /\ \A f \in Entries : f # e => F[f] = entry[f]
      /\ a # "READ" => F[e].busy = FALSE /\ F[e].readers = entry[e].readers
      /\ a = "READ" => F[e].busy = entry[e].busy /\ F[e].readers = entry[e].readers - 1
      /\ F[e].queue = entry[e].queue
      /\ F[e].id = entry[e].id
  <2>1. /\ F \in [Entries -> EntryRecord]
        /\ a # "READ" => F[e].busy = FALSE /\ F[e].readers = entry[e].readers
        /\ a = "READ" => F[e].busy = entry[e].busy /\ F[e].readers = entry[e].readers - 1
    BY <1>1, <1>2, <1>4, FreedEntry
  <2>2. /\ \A f \in Entries : f # e => F[f] = entry[f]
        /\ F[e].queue = entry[e].queue
        /\ F[e].id = entry[e].id
    BY <1>1, <1>2, FreedRest
  <2> QED
    BY <2>1, <2>2
<1>6. d \in [Threads -> CallRecord]
  BY <1>1, NoCallTyped
<1>7. /\ \A u \in Threads : u # t => d[u] = c[u]
      /\ d[t].pc = "idle"
  BY <1>1 DEF NoCall
<1> HIDE DEF F, d, e, a
<1>8. Identified(F, d)
  <2>1. \A f \in Entries : F[f].id = entry[f].id
    BY <1>2, <1>5
  <2>2. \A u \in Threads : d[u].pc # "idle" => u # t /\ d[u] = c[u] /\ c[u].entry \in Entries
    BY <1>1, <1>7 DEF CallRecord
  <2> QED
    BY <2>1, <2>2 DEF Consistent, Identified
<1>9. \A f \in Entries : Queuers(d, f) = Queuers(c, f)
  BY <1>7 DEF Queuers
<1>10. Lined(F, d)
  BY <1>2, <1>5, <1>9 DEF Consistent, Lined
<1>11. \A f \in Entries : Leasers(d, f) = Leasers(c, f) \ {t}
  BY <1>7 DEF Leasers
<1>12. \A f \in Entries : f # e => t \notin Leasers(c, f)
  BY DEF Leasers, e
<1>13. \A f \in Entries : \A u \in Leasers(d, f) : u \in Leasers(c, f) /\ d[u] = c[u] /\ u # t
  BY <1>7, <1>11 DEF Leasers
<1>14. \A f \in Entries : Readers(d, f) = Readers(c, f) \ {t}
  BY <1>11, <1>13 DEF Readers
<1>15. ASSUME NEW f \in Entries
       PROVE  F[f].readers = Cardinality(Readers(d, f))
  <2>1. Cardinality(Readers(c, f) \ {t}) =
          IF t \in Readers(c, f) THEN Cardinality(Readers(c, f)) - 1
          ELSE Cardinality(Readers(c, f))
    BY ThreadSetsFinite, FS_RemoveElement
  <2>2. entry[f].readers = Cardinality(Readers(c, f))
    BY DEF Consistent, Counted
  <2>3. t \in Readers(c, f) <=> f = e /\ a = "READ"
    BY <1>2, <1>12 DEF Readers, a
  <2> QED
    BY <1>5, <1>14, <2>1, <2>2, <2>3
<1>16. ASSUME NEW f \in Entries
       PROVE  F[f].busy <=> \E u \in Leasers(d, f) : d[u].access # "READ"
  <2>1. entry[f].busy <=> \E u \in Leasers(c, f) : c[u].access # "READ"
    BY DEF Consistent, Counted
  <2>2. CASE f # e
    BY <1>5, <1>11, <1>12, <1>13, <2>1, <2>2
  <2>3. CASE f = e /\ a = "READ"
    BY <1>5, <1>11, <1>13, <2>1, <2>3 DEF a
  <2>4. CASE f = e /\ a # "READ"
    <3>1. Leasers(d, f) = {}
      BY <1>2, <1>13, <2>4 DEF Consistent, Exclusive, a
    <3> QED
      BY <1>5, <2>4, <3>1
  <2> QED
    BY <2>2, <2>3, <2>4
<1>17. Exclusive(d)
  BY <1>13 DEF Exclusive, Consistent
<1> QED
  BY <1>5, <1>6, <1>8, <1>10, <1>15, <1>16, <1>17 DEF Consistent, Typed, Counted, F, d, e, a

-----------------------------------------------------------------------------
(* Queues *)

(* A call that joins the end of a queue stands in it once. *)
LEMMA AppendLines ==
  ASSUME NEW q \in Seq(Threads), NEW t \in Threads, t \notin Members(q), Distinct(q)
  PROVE  /\ Append(q, t) \in Seq(Threads)
         /\ Members(Append(q, t)) = Members(q) \cup {t}
         /\ Distinct(Append(q, t))
         /\ Len(Append(q, t)) = Len(q) + 1
BY DEF Members, Distinct

(* A call that leaves the middle of a queue leaves the others in order. *)
LEMMA WithoutLines ==
  ASSUME NEW q \in Seq(Threads), NEW t \in Members(q), Distinct(q)
  PROVE  /\ Without(q, t) \in Seq(Threads)
         /\ Members(Without(q, t)) = Members(q) \ {t}
         /\ Distinct(Without(q, t))
         /\ Len(Without(q, t)) = Len(q) - 1
<1> DEFINE k == CHOOSE j \in 1 .. Len(q) : q[j] = t
           p == Without(q, t)
<1>1. k \in 1 .. Len(q) /\ q[k] = t
  BY DEF Members
<1>2. \A j \in 1 .. Len(q) : q[j] = t => j = k
  BY <1>1 DEF Distinct
<1>3. p = [j \in 1 .. Len(q) - 1 |-> IF j < k THEN q[j] ELSE q[j + 1]]
  BY DEF Without
<1> HIDE DEF k, p
<1>4. Len(q) \in Nat /\ Len(q) >= 1
  BY <1>1
<1>5. \A j \in 1 .. Len(q) - 1 : p[j] \in Threads
  BY <1>1, <1>3, <1>4
<1>6. p \in [1 .. Len(q) - 1 -> Threads]
  BY <1>3, <1>5
<1>7. p \in Seq(Threads) /\ Len(p) = Len(q) - 1
  BY <1>4, <1>6
<1>8. Members(p) \subseteq Members(q) \ {t}
  BY <1>1, <1>2, <1>3, <1>4, <1>7 DEF Members
<1>9. ASSUME NEW u \in Members(q), u # t
      PROVE  u \in Members(p)
  <2>1. PICK j \in 1 .. Len(q) : q[j] = u
    BY DEF Members
  <2>2. j # k
    BY <1>1, <1>9, <2>1
  <2>3. CASE j < k
    <3>1. j \in 1 .. Len(q) - 1 /\ p[j] = u
      BY <1>1, <1>3, <2>1, <2>3
    <3> QED
      BY <1>7, <3>1 DEF Members
  <2>4. CASE j > k
    <3>1. j - 1 \in 1 .. Len(q) - 1 /\ ~(j - 1 < k) /\ (j - 1) + 1 = j
      BY <1>1, <2>4
    <3>2. p[j - 1] = u
      BY <1>3, <2>1, <3>1
    <3> QED
      BY <1>7, <3>1, <3>2 DEF Members
  <2> QED
    BY <1>1, <2>2, <2>3, <2>4
<1>10. Distinct(p)
  <2> SUFFICES ASSUME NEW i \in 1 .. Len(q) - 1, NEW j \in 1 .. Len(q) - 1, p[i] = p[j]
               PROVE  i = j
    BY <1>7 DEF Distinct
  <2> DEFINE at(n) == IF n < k THEN n ELSE n + 1
  <2>1. at(i) \in 1 .. Len(q) /\ at(j) \in 1 .. Len(q)
    BY <1>4
  <2>2. p[i] = q[at(i)] /\ p[j] = q[at(j)]
    BY <1>3
  <2>3. at(i) = at(j)
    BY <2>1, <2>2 DEF Distinct
  <2> QED
    BY <1>1, <2>3
<1> QED
  BY <1>7, <1>8, <1>9, <1>10 DEF p

(* One thread enters or leaves the queue of one entry. *)
LEMMA QueueChangeConsistent ==
  ASSUME NEW E, NEW c, NEW d, NEW e \in Entries, NEW t \in Threads, NEW q \in Seq(Threads),
         Consistent(E, c),
         d \in [Threads -> CallRecord],
         \A u \in Threads : u # t => d[u] = c[u],
         c[t].pc # "leased", d[t].pc # "leased",
         \A f \in Entries : f # e => t \notin Queuers(c, f) /\ t \notin Queuers(d, f),
         Members(q) = Queuers(d, e),
         Distinct(q),
         Len(q) = Cardinality(Queuers(d, e)),
         Len(q) <= PerEntry,
         d[t].pc # "idle" =>
           /\ d[t].id \in Ids
           /\ E[d[t].entry].id = d[t].id
           /\ d[t].entry[1] = PoolOf(d[t].access)
  PROVE  Consistent([E EXCEPT ![e].queue = q], d)
<1> DEFINE F == [E EXCEPT ![e].queue = q]
<1>1. E \in [Entries -> EntryRecord] /\ c \in [Threads -> CallRecord]
  BY DEF Consistent, Typed
<1>2. /\ F \in [Entries -> EntryRecord]
      /\ F[e].queue = q
      /\ \A f \in Entries : /\ f # e => F[f].queue = E[f].queue
                            /\ F[f].busy = E[f].busy
                            /\ F[f].readers = E[f].readers
                            /\ F[f].id = E[f].id
  BY <1>1, ZenonT(60) DEF EntryRecord
<1> HIDE DEF F
<1>3. \A f \in Entries : f # e => Queuers(d, f) = Queuers(c, f)
  BY DEF Queuers
<1>4. Lined(F, d)
  BY <1>2, <1>3 DEF Consistent, Lined
<1>5. \A f \in Entries : Leasers(d, f) = Leasers(c, f)
  BY DEF Leasers
<1>6. \A f \in Entries : \A u \in Leasers(c, f) : d[u] = c[u]
  BY DEF Leasers
<1>7. \A f \in Entries : Readers(d, f) = Readers(c, f)
  BY <1>5, <1>6 DEF Readers
<1>8. Counted(F, d)
  BY <1>2, <1>5, <1>6, <1>7 DEF Consistent, Counted
<1>9. Exclusive(d)
  BY <1>5, <1>6 DEF Consistent, Exclusive
<1>10. ASSUME NEW u \in Threads, d[u].pc # "idle"
       PROVE  /\ d[u].id \in Ids
              /\ F[d[u].entry].id = d[u].id
              /\ d[u].entry[1] = PoolOf(d[u].access)
  <2>1. d[u].entry \in Entries
    BY DEF CallRecord
  <2>2. F[d[u].entry].id = E[d[u].entry].id
    BY <1>2, <2>1
  <2>3. CASE u = t
    BY <1>10, <2>2, <2>3
  <2>4. CASE u # t
    BY <1>10, <2>2, <2>4 DEF Consistent, Identified
  <2> QED
    BY <2>3, <2>4
<1>11. Identified(F, d)
  BY <1>10 DEF Identified
<1> QED
  BY <1>2, <1>4, <1>8, <1>9, <1>11 DEF Consistent, Typed, F

(* Joining a queue keeps the store consistent. *)
LEMMA JoinedConsistent ==
  ASSUME NEW E, NEW c, NEW e \in Entries, NEW t \in Threads, NEW i \in Ids,
         NEW a \in AllAccesses,
         Consistent(E, c),
         c[t].pc = "idle",
         E[e].id = i,
         e[1] = PoolOf(a),
         Len(E[e].queue) # PerEntry
  PROVE  Consistent([E EXCEPT ![e].queue = Append(@, t)],
                    [c EXCEPT ![t] = [pc |-> "queued", id |-> i, access |-> a, entry |-> e]])
<1> DEFINE d == [c EXCEPT ![t] = [pc |-> "queued", id |-> i, access |-> a, entry |-> e]]
           q == Append(E[e].queue, t)
<1>1. E \in [Entries -> EntryRecord] /\ c \in [Threads -> CallRecord]
  BY DEF Consistent, Typed
<1>2. /\ d \in [Threads -> CallRecord]
      /\ \A u \in Threads : u # t => d[u] = c[u]
      /\ d[t].pc = "queued" /\ d[t].id = i /\ d[t].access = a /\ d[t].entry = e
  BY <1>1 DEF CallRecord
<1> HIDE DEF d
<1>3. \A f \in Entries : t \notin Queuers(c, f)
  BY DEF Queuers
<1>4. Queuers(d, e) = Queuers(c, e) \cup {t} /\ \A f \in Entries : f # e => t \notin Queuers(d, f)
  BY <1>2 DEF Queuers
<1>5. /\ E[e].queue \in Seq(Threads)
      /\ Members(E[e].queue) = Queuers(c, e)
      /\ Distinct(E[e].queue)
      /\ Len(E[e].queue) = Cardinality(Queuers(c, e))
      /\ Len(E[e].queue) <= PerEntry
  BY <1>1 DEF Consistent, Lined, EntryRecord
<1>6. /\ q \in Seq(Threads)
      /\ Members(q) = Queuers(d, e)
      /\ Distinct(q)
      /\ Len(q) = Len(E[e].queue) + 1
  BY <1>3, <1>4, <1>5, AppendLines
<1>7. Cardinality(Queuers(d, e)) = Cardinality(Queuers(c, e)) + 1
  BY <1>3, <1>4, ThreadSetsFinite, FS_AddElement
<1>8. Len(q) = Cardinality(Queuers(d, e)) /\ Len(q) <= PerEntry
  BY <1>5, <1>6, <1>7, ThreadSetsFinite, ConstantsAssumption
<1> HIDE DEF q
<1>9. c[t].pc # "leased" /\ d[t].pc # "leased" /\ E[d[t].entry].id = d[t].id
        /\ d[t].entry[1] = PoolOf(d[t].access) /\ d[t].id \in Ids
  BY <1>2
<1>10. Consistent([E EXCEPT ![e].queue = q], d)
  BY <1>2, <1>3, <1>4, <1>6, <1>8, <1>9, QueueChangeConsistent
<1> QED
  BY <1>10 DEF q, d

(* Leaving a queue changes nothing else. *)
LEMMA DequeuedIds ==
  ASSUME NEW E \in [Entries -> EntryRecord], NEW e \in Entries, NEW t
  PROVE  /\ \A f \in Entries : /\ Dequeued(E, e, t)[f].id = E[f].id
                               /\ Dequeued(E, e, t)[f].busy = E[f].busy
                               /\ Dequeued(E, e, t)[f].readers = E[f].readers
                               /\ Dequeued(E, e, t)[f].released = E[f].released
                               /\ Dequeued(E, e, t)[f].bytes = E[f].bytes
BY DEF Dequeued, EntryRecord

(* Leaving a queue keeps the store consistent. *)
LEMMA DequeuedConsistent ==
  ASSUME NEW E, NEW c, NEW t \in Threads, Consistent(E, c), c[t].pc = "queued"
  PROVE  Consistent(Dequeued(E, c[t].entry, t), [c EXCEPT ![t] = NoCall])
<1> DEFINE d == [c EXCEPT ![t] = NoCall]
           e == c[t].entry
           q == Without(E[e].queue, t)
<1>1. E \in [Entries -> EntryRecord] /\ c \in [Threads -> CallRecord]
  BY DEF Consistent, Typed
<1>2. /\ d \in [Threads -> CallRecord]
      /\ \A u \in Threads : u # t => d[u] = c[u]
      /\ d[t].pc = "idle"
  BY <1>1, NoCallTyped DEF NoCall
<1> HIDE DEF d
<1>3. e \in Entries /\ t \in Queuers(c, e) /\ \A f \in Entries : f # e => t \notin Queuers(c, f)
  BY <1>1 DEF Queuers, CallRecord
<1>4. Queuers(d, e) = Queuers(c, e) \ {t} /\ \A f \in Entries : t \notin Queuers(d, f)
  BY <1>2 DEF Queuers
<1>5. /\ E[e].queue \in Seq(Threads)
      /\ Members(E[e].queue) = Queuers(c, e)
      /\ Distinct(E[e].queue)
      /\ Len(E[e].queue) = Cardinality(Queuers(c, e))
      /\ Len(E[e].queue) <= PerEntry
  BY <1>1, <1>3 DEF Consistent, Lined, EntryRecord
<1>6. /\ q \in Seq(Threads)
      /\ Members(q) = Queuers(d, e)
      /\ Distinct(q)
      /\ Len(q) = Len(E[e].queue) - 1
  BY <1>3, <1>4, <1>5, WithoutLines
<1> HIDE DEF q, e
<1>7. Cardinality(Queuers(d, e)) = Cardinality(Queuers(c, e)) - 1
  BY <1>3, <1>4, ThreadSetsFinite, FS_RemoveElement
<1>8. Len(q) = Cardinality(Queuers(d, e)) /\ Len(q) <= PerEntry
  BY <1>5, <1>6, <1>7, ThreadSetsFinite, ConstantsAssumption
<1>9. c[t].pc # "leased" /\ d[t].pc # "leased" /\ ~(d[t].pc # "idle")
  BY <1>2
<1>10. Consistent([E EXCEPT ![e].queue = q], d)
  BY <1>2, <1>3, <1>4, <1>6, <1>8, <1>9, QueueChangeConsistent
<1> QED
  BY <1>10 DEF q, d, e, Dequeued

-----------------------------------------------------------------------------
(* How the number of waiting calls changes with the state of one of them. *)
LEMMA WaitingCount ==
  ASSUME NEW c \in [Threads -> CallRecord], NEW t \in Threads, NEW r \in CallRecord
  PROVE  Cardinality(Waiting([c EXCEPT ![t] = r])) =
           IF c[t].pc = "queued"
           THEN IF r.pc = "queued" THEN Cardinality(Waiting(c)) ELSE Cardinality(Waiting(c)) - 1
           ELSE IF r.pc = "queued" THEN Cardinality(Waiting(c)) + 1 ELSE Cardinality(Waiting(c))
<1> DEFINE d == [c EXCEPT ![t] = r]
<1>1. d[t] = r /\ \A u \in Threads : u # t => d[u] = c[u]
  OBVIOUS
<1> HIDE DEF d
<1>2. t \in Waiting(c) <=> c[t].pc = "queued"
  BY DEF Waiting
<1>3. CASE r.pc = "queued"
  <2>1. Waiting(d) = Waiting(c) \cup {t}
    BY <1>1, <1>3 DEF Waiting
  <2>2. Cardinality(Waiting(c) \cup {t}) =
          IF t \in Waiting(c) THEN Cardinality(Waiting(c)) ELSE Cardinality(Waiting(c)) + 1
    BY ThreadSetsFinite, FS_AddElement
  <2> QED
    BY <1>2, <1>3, <2>1, <2>2 DEF d
<1>4. CASE r.pc # "queued"
  <2>1. Waiting(d) = Waiting(c) \ {t}
    BY <1>1, <1>4 DEF Waiting
  <2>2. Cardinality(Waiting(c) \ {t}) =
          IF t \in Waiting(c) THEN Cardinality(Waiting(c)) - 1 ELSE Cardinality(Waiting(c))
    BY ThreadSetsFinite, FS_RemoveElement
  <2> QED
    BY <1>2, <1>4, <2>1, <2>2 DEF d
<1> QED
  BY <1>3, <1>4

(* An empty store is consistent. *)
LEMMA EmptyConsistent ==
  ASSUME NEW c \in [Threads -> CallRecord], \A t \in Threads : c[t].pc = "idle"
  PROVE  Consistent([e \in Entries |-> EmptyEntry], c)
<1> DEFINE E == [e \in Entries |-> EmptyEntry]
<1>1. <<>> \in Seq(Threads)
  OBVIOUS
<1>2. EmptyEntry \in EntryRecord
  BY <1>1 DEF EmptyEntry, EntryRecord
<1>3. E \in [Entries -> EntryRecord]
  BY <1>2
<1>4. \A e \in Entries : E[e].queue = <<>> /\ E[e].busy = FALSE /\ E[e].readers = 0
  BY DEF EmptyEntry
<1> HIDE DEF E
<1>5. \A e \in Entries : Leasers(c, e) = {} /\ Queuers(c, e) = {} /\ Readers(c, e) = {}
  BY DEF Leasers, Queuers, Readers
<1>6. Cardinality({}) = 0
  BY FS_EmptySet
<1>7. Members(<<>>) = {} /\ Distinct(<<>>) /\ Len(<<>>) = 0
  BY DEF Members, Distinct
<1>8. Lined(E, c)
  <2>1. 0 <= PerEntry
    BY ConstantsAssumption
  <2>2. ASSUME NEW e \in Entries
        PROVE  /\ Members(E[e].queue) = Queuers(c, e)
               /\ Distinct(E[e].queue)
               /\ Len(E[e].queue) = Cardinality(Queuers(c, e))
               /\ Len(E[e].queue) <= PerEntry
    <3>1. E[e].queue = <<>> /\ Queuers(c, e) = {}
      BY <1>4, <1>5
    <3> QED
      BY <1>6, <1>7, <2>1, <3>1
  <2> QED
    BY <2>2 DEF Lined
<1>9. Counted(E, c) /\ Exclusive(c)
  BY <1>4, <1>5, <1>6 DEF Counted, Exclusive
<1> QED
  BY <1>3, <1>8, <1>9 DEF Consistent, Typed, Identified, E

-----------------------------------------------------------------------------
(* The inductive invariant *)
IInv ==
  /\ Consistent(entry, call)
  /\ next \in [Pools -> Slots]
  /\ limits \in LimitRecord
  /\ signalled \subseteq Threads
  /\ pending = Cardinality(Waiting(call))
  /\ pending <= PendingLimit
  /\ Unique(entry)

(* The zero-initialized store satisfies the invariant. *)
LEMMA InitIInv == Init => IInv
<1> SUFFICES ASSUME Init PROVE IInv
  OBVIOUS
<1>1. call \in [Threads -> CallRecord] /\ \A t \in Threads : call[t].pc = "idle"
  BY NoCallTyped DEF Init, NoCall
<1>2. Consistent(entry, call)
  BY <1>1, EmptyConsistent DEF Init
<1>3. Waiting(call) = {}
  BY <1>1 DEF Waiting
<1>4. next \in [Pools -> Slots]
  BY ConstantsAssumption DEF Init, Slots
<1>5. Unique(entry)
  BY DEF Init, Unique, EmptyEntry
<1> QED
  <2>1. pending = Cardinality(Waiting(call)) /\ pending <= PendingLimit
    BY <1>3, FS_EmptySet, ConstantsAssumption DEF Init
  <2>2. limits \in LimitRecord /\ signalled \subseteq Threads
    BY ConstantsAssumption DEF Init
  <2> QED
    BY <1>2, <1>4, <1>5, <2>1, <2>2 DEF IInv

(* A sweep keeps the ids unique. *)
LEMMA SweepUnique ==
  ASSUME IInv, NEW clock \in BOOLEAN
  PROVE  Unique(Sweep(clock))
BY SweepIds, IdsKept DEF IInv, Consistent, Typed

(* A broadcast signals threads. *)
LEMMA BroadcastTyped == Broadcast => signalled' \subseteq Threads
  BY DEF Broadcast

(* What a granted lease does to the invariant, given the entries E it is
   granted on. *)
LEMMA GrantStep ==
  ASSUME NEW E, NEW c, NEW e \in Entries, NEW t \in Threads, NEW i \in Ids,
         NEW a \in AllAccesses,
         Consistent(E, c), c[t].pc = "idle",
         ~Conflict(E[e], t, a), E[e].id = i, e[1] = PoolOf(a),
         entry' = Taken(E, e, a),
         call' = [c EXCEPT ![t] = [pc |-> "leased", id |-> i, access |-> a, entry |-> e]]
  PROVE  Consistent(entry, call)' /\ Cardinality(Waiting(call))' = Cardinality(Waiting(c))
<1>1. Consistent(entry', call')
  BY TakenConsistent DEF Conflict
<1>2. [pc |-> "leased", id |-> i, access |-> a, entry |-> e] \in CallRecord
  BY DEF CallRecord
<1>3. Cardinality(Waiting(call')) = Cardinality(Waiting(c))
  BY <1>2, WaitingCount, ZenonT(60) DEF Consistent, Typed
<1> QED
  BY <1>1, <1>3

(* Acquiring an entry the client already has. *)
LEMMA AcquireKnownStep ==
  ASSUME IInv, NEW t \in Threads, NEW i \in Ids, NEW a \in Accesses, NEW clock \in ClockReads,
         AcquireKnown(t, i, a, clock)
  PROVE  IInv'
<1>1. a \in AllAccesses /\ clock \in BOOLEAN
  BY ConstantsAssumption
<1>2. Consistent(Sweep(clock), call)
  BY <1>1, SweepConsistent DEF IInv
<1>3. PICK e \in Located(Sweep(clock), a, i) :
        /\ ~Conflict(Sweep(clock)[e], t, a)
        /\ entry' = Taken(Sweep(clock), e, a)
        /\ call' = Leased(t, i, a, e)
  BY DEF AcquireKnown
<1>4. e \in Entries /\ e[1] = PoolOf(a) /\ Sweep(clock)[e].id = i
  BY DEF Located
<1>5. Consistent(entry, call)' /\ Cardinality(Waiting(call))' = Cardinality(Waiting(call))
  BY <1>1, <1>2, <1>3, <1>4, GrantStep DEF AcquireKnown, Leased
<1>6. Unique(entry')
  <2>1. Sweep(clock) \in [Entries -> EntryRecord]
    BY <1>2 DEF Consistent, Typed
  <2>2. \A f \in Entries : entry'[f].id = Sweep(clock)[f].id
    BY <1>3, <1>4, <2>1, TakenEntry
  <2> QED
    BY <1>1, <2>2, SweepUnique, IdsKept
<1> QED
  BY <1>5, <1>6 DEF IInv, AcquireKnown

(* Giving up a wait, at its deadline or cancelled. *)
LEMMA GiveUpStep ==
  ASSUME IInv, NEW t \in Threads, GiveUp(t)
  PROVE  IInv'
<1>1. Consistent(entry', call')
  BY DequeuedConsistent DEF IInv, GiveUp
<1>2. Cardinality(Waiting(call')) = Cardinality(Waiting(call)) - 1
  BY NoCallTyped, WaitingCount, ZenonT(60) DEF IInv, GiveUp, Consistent, Typed, NoCall
<1>3. signalled' \subseteq Threads
  BY BroadcastTyped DEF GiveUp
<1>4. Unique(entry')
  <2>1. call[t].entry \in Entries /\ entry \in [Entries -> EntryRecord]
    BY DEF IInv, Consistent, Typed, CallRecord
  <2>2. \A f \in Entries : entry'[f].id = entry[f].id
    BY <2>1, DequeuedIds DEF GiveUp
  <2> QED
    BY <2>2, IdsKept DEF IInv
<1> QED
  BY <1>1, <1>2, <1>3, <1>4, ThreadSetsFinite, ConstantsAssumption DEF IInv, GiveUp

(* Acquiring an entry for a client that has none. *)
LEMMA AcquireNewStep ==
  ASSUME IInv, NEW t \in Threads, NEW i \in Ids, NEW a \in Accesses, NEW clock \in ClockReads,
         AcquireNew(t, i, a, clock)
  PROVE  IInv'
<1> DEFINE E == Sweep(clock)
           p == PoolOf(a)
<1>1. a \in AllAccesses /\ clock \in BOOLEAN
  BY ConstantsAssumption
<1>2. Consistent(E, call)
  BY <1>1, SweepConsistent DEF IInv
<1>3. PICK s \in Victims(E, p) :
        /\ entry' = Taken(Claimed(E, <<p, s>>, i, clock), <<p, s>>, a)
        /\ call' = Leased(t, i, a, <<p, s>>)
        /\ next' = [next EXCEPT ![p] = (s + 1) % Capacity]
  BY DEF AcquireNew
<1>4. s \in Slots /\ ~Pinned(E[<<p, s>>])
  BY <1>3 DEF Victims
<1> DEFINE e == <<p, s>>
           F == Claimed(E, e, i, clock)
<1>5. p \in Pools /\ e \in Entries /\ e[1] = p
  BY <1>4 DEF PoolOf, Pools, Entries
<1>6. Consistent(F, call)
  BY <1>1, <1>2, <1>4, <1>5, ClaimedConsistent
<1>7. F[e].id = i /\ ~F[e].busy /\ F[e].queue = <<>> /\ ~(F[e].readers > 0)
  <2>1. E \in [Entries -> EntryRecord]
    BY <1>2 DEF Consistent, Typed
  <2> HIDE DEF E, e
  <2>2. F[e] = [EmptyEntry EXCEPT !.id = i, !.lastUsed = IF clock THEN "recent" ELSE "never"]
    BY <1>5, <2>1 DEF Claimed
  <2> QED
    BY <2>2 DEF EmptyEntry
<1>8. ~Conflict(F[e], t, a)
  BY <1>7 DEF Conflict, QueueReady
<1>9. Consistent(entry, call)' /\ Cardinality(Waiting(call))' = Cardinality(Waiting(call))
  <2> HIDE DEF E, F, e, p
  <2>1. call[t].pc = "idle"
    BY DEF AcquireNew
  <2>2. entry' = Taken(F, e, a) /\ e[1] = PoolOf(a)
    BY <1>3, <1>5 DEF F, e, p
  <2>3. call' = [call EXCEPT ![t] = [pc |-> "leased", id |-> i, access |-> a, entry |-> e]]
    BY <1>3 DEF Leased, e, p
  <2> QED
    BY <1>1, <1>5, <1>6, <1>7, <1>8, <2>1, <2>2, <2>3, GrantStep
<1>10. next' \in [Pools -> Slots]
  <2>1. (s + 1) % Capacity \in Slots
    BY <1>4, ConstantsAssumption DEF Slots
  <2> QED
    BY <1>3, <1>5, <2>1 DEF IInv
<1>11. Unique(entry')
  <2>1. E \in [Entries -> EntryRecord] /\ Unique(E)
    BY <1>1, <1>2, SweepUnique DEF Consistent, Typed
  <2>2. \A f \in Entries : f[1] = p => E[f].id # i
    BY DEF AcquireNew, Located
  <2> HIDE DEF E, e
  <2>3. F \in [Entries -> EntryRecord] /\ \A f \in Entries : f # e => F[f] = E[f]
    BY <1>6, <2>1 DEF Consistent, Typed, Claimed
  <2> HIDE DEF F
  <2>4. Unique(F)
    BY <1>5, <1>7, <2>1, <2>2, <2>3 DEF Unique
  <2>5. entry' = Taken(F, e, a)
    BY <1>3 DEF F, e
  <2>6. \A f \in Entries : entry'[f].id = F[f].id
    BY <1>5, <2>3, <2>5, TakenEntry
  <2> QED
    BY <2>4, <2>6, IdsKept
<1> QED
  BY <1>9, <1>10, <1>11 DEF IInv, AcquireNew

(* Joining the queue: t waits there, or is served or refused at once. *)
LEMMA AcquireWaitingStep ==
  ASSUME IInv, NEW t \in Threads, NEW i \in Ids, NEW a \in Accesses,
         AcquireWaiting(t, i, a)
  PROVE  IInv'
<1> DEFINE E == Sweep(TRUE)
<1>1. a \in AllAccesses
  BY ConstantsAssumption
<1>2. Consistent(E, call)
  BY SweepConsistent DEF IInv
<1>3. call[t].pc = "idle" /\ call \in [Threads -> CallRecord] /\ E \in [Entries -> EntryRecord]
  BY <1>2 DEF AcquireWaiting, Consistent, Typed
<1>4. PICK e \in Located(E, a, i) :
        LET joined == [E EXCEPT ![e].queue = Append(@, t)]
        IN /\ Conflict(E[e], t, a)
           /\ Len(E[e].queue) # PerEntry
           /\ pending # PendingLimit
           /\ \/ /\ Conflict(joined[e], t, a)
                 /\ entry' = joined
                 /\ call' = [call EXCEPT ![t] =
                      [pc |-> "queued", id |-> i, access |-> a, entry |-> e]]
                 /\ pending' = pending + 1
                 /\ UNCHANGED signalled
              \/ /\ ~Conflict(joined[e], t, a)
                 /\ ~Gone(E[e], a)
                 /\ entry' = Taken(E, e, a)
                 /\ call' = Leased(t, i, a, e)
                 /\ UNCHANGED pending
                 /\ Broadcast
              \/ /\ ~Conflict(joined[e], t, a)
                 /\ Gone(E[e], a)
                 /\ entry' = E
                 /\ UNCHANGED <<call, pending>>
                 /\ Broadcast
  BY DEF AcquireWaiting
<1> DEFINE joined == [E EXCEPT ![e].queue = Append(@, t)]
<1>5. e \in Entries /\ e[1] = PoolOf(a) /\ E[e].id = i
  BY DEF Located
<1>6. UNCHANGED <<next, limits>>
  BY DEF AcquireWaiting
<1>10. Unique(E)
  BY SweepUnique
<1> HIDE DEF E
<1>7. CASE /\ entry' = joined
           /\ call' = [call EXCEPT ![t] =
                [pc |-> "queued", id |-> i, access |-> a, entry |-> e]]
           /\ pending' = pending + 1
           /\ UNCHANGED signalled
  <2>1. Consistent(entry', call')
    BY <1>1, <1>2, <1>3, <1>4, <1>5, <1>7, JoinedConsistent
  <2> DEFINE r == [pc |-> "queued", id |-> i, access |-> a, entry |-> e]
  <2>2. r \in CallRecord /\ r.pc = "queued"
    BY <1>1, <1>5 DEF CallRecord
  <2>3. call' = [call EXCEPT ![t] = r]
    BY <1>7
  <2> HIDE DEF r
  <2>4. Cardinality(Waiting(call')) = Cardinality(Waiting(call)) + 1
    BY <1>3, <2>2, <2>3, WaitingCount
  <2>5. pending' = Cardinality(Waiting(call')) /\ pending' <= PendingLimit
    <3>1. /\ pending = Cardinality(Waiting(call)) /\ pending <= PendingLimit
          /\ pending # PendingLimit /\ pending' = pending + 1
      BY <1>4, <1>7 DEF IInv
    <3>2. Cardinality(Waiting(call)) \in Nat /\ PendingLimit \in Nat
      BY ThreadSetsFinite, ConstantsAssumption
    <3> QED
      BY <2>4, <3>1, <3>2
  <2>6. Unique(entry')
    <3>1. \A f \in Entries : joined[f].id = E[f].id
      BY <1>3, <1>5 DEF EntryRecord
    <3> QED
      BY <1>7, <1>10, <3>1, IdsKept, ZenonT(60)
  <2> QED
    BY <1>6, <1>7, <2>1, <2>5, <2>6 DEF IInv
<1>8. CASE /\ ~Conflict(joined[e], t, a)
           /\ entry' = Taken(E, e, a)
           /\ call' = Leased(t, i, a, e)
           /\ UNCHANGED pending
           /\ Broadcast
  <2>1. joined[e].busy = E[e].busy /\ joined[e].readers = E[e].readers
    BY <1>3, <1>5 DEF EntryRecord
  <2>2. ~E[e].busy /\ (a # "READ" => ~(E[e].readers > 0))
    BY <1>8, <2>1 DEF Conflict
  <2>3. Consistent(entry', call')
    BY <1>1, <1>2, <1>3, <1>5, <1>8, <2>2, TakenConsistent DEF Leased
  <2>4. [pc |-> "leased", id |-> i, access |-> a, entry |-> e] \in CallRecord
    BY <1>1, <1>5 DEF CallRecord
  <2>5. Cardinality(Waiting(call')) = Cardinality(Waiting(call))
    BY <1>3, <1>8, <2>4, WaitingCount, ZenonT(60) DEF Leased
  <2>6. Unique(entry')
    BY <1>3, <1>5, <1>8, <1>10, TakenEntry, IdsKept
  <2> QED
    BY <1>6, <1>8, <2>3, <2>5, <2>6, BroadcastTyped DEF IInv
<1>9. CASE entry' = E /\ UNCHANGED <<call, pending>> /\ Broadcast
  BY <1>2, <1>6, <1>9, <1>10, BroadcastTyped DEF IInv
<1> QED
  BY <1>4, <1>7, <1>8, <1>9

(* A woken call looks again at its place in the queue. *)
LEMMA RecheckStep ==
  ASSUME IInv, NEW t \in Threads, Recheck(t)
  PROVE  IInv'
<1> DEFINE E == Sweep(TRUE)
           i == call[t].id
           a == call[t].access
           c == [call EXCEPT ![t] = NoCall]
<1>1. call[t].pc = "queued" /\ UNCHANGED <<next, limits>>
  BY DEF Recheck
<1>2. Consistent(E, call) /\ call \in [Threads -> CallRecord]
  BY SweepConsistent DEF IInv, Consistent, Typed
<1>3. /\ i \in Ids /\ a \in AllAccesses /\ call[t].entry \in Entries
      /\ E[call[t].entry].id = i /\ call[t].entry[1] = PoolOf(a)
  BY <1>1, <1>2 DEF Consistent, Identified, CallRecord
<1>4. PICK e \in Located(E, a, i) :
        \/ /\ entry' = E
           /\ signalled' = signalled \ {t}
           /\ UNCHANGED <<call, pending>>
        \/ /\ ~Conflict(E[e], t, a)
           /\ entry' = Taken(Dequeued(E, e, t), e, a)
           /\ call' = Leased(t, i, a, e)
           /\ pending' = pending - 1
           /\ Broadcast
        \/ /\ entry' = Dequeued(E, e, t)
           /\ call' = c
           /\ pending' = pending - 1
           /\ Broadcast
  BY DEF Recheck
<1>5. Unique(E) /\ E \in [Entries -> EntryRecord]
  BY <1>2, SweepUnique DEF Consistent, Typed
<1> HIDE DEF E
<1>6. e = call[t].entry
  BY <1>3, <1>4, <1>5, ConstantsAssumption DEF Located, Unique
<1>7. Consistent(Dequeued(E, e, t), c) /\ c \in [Threads -> CallRecord] /\ c[t].pc = "idle"
  BY <1>1, <1>2, <1>6, DequeuedConsistent, NoCallTyped DEF NoCall
<1>8. Cardinality(Waiting(c)) = Cardinality(Waiting(call)) - 1
  BY <1>1, <1>2, NoCallTyped, WaitingCount DEF NoCall
<1>9. Cardinality(Waiting(call)) \in Nat /\ pending = Cardinality(Waiting(call))
        /\ pending <= PendingLimit /\ PendingLimit \in Nat
  BY ThreadSetsFinite, ConstantsAssumption DEF IInv
<1>10. Unique(Dequeued(E, e, t))
  BY <1>3, <1>5, <1>6, DequeuedIds, IdsKept
<1>11. CASE entry' = E /\ signalled' = signalled \ {t} /\ UNCHANGED <<call, pending>>
  BY <1>1, <1>2, <1>5, <1>11 DEF IInv
<1>12. CASE /\ ~Conflict(E[e], t, a)
            /\ entry' = Taken(Dequeued(E, e, t), e, a)
            /\ call' = Leased(t, i, a, e)
            /\ pending' = pending - 1
            /\ Broadcast
  <2> DEFINE D == Dequeued(E, e, t)
             r == [pc |-> "leased", id |-> i, access |-> a, entry |-> e]
  <2>1. D \in [Entries -> EntryRecord]
    BY <1>7 DEF Consistent, Typed
  <2>2. ~D[e].busy /\ (a # "READ" => ~(D[e].readers > 0)) /\ D[e].id = i
    BY <1>3, <1>5, <1>6, <1>12, DequeuedIds DEF Conflict
  <2>3. call' = [c EXCEPT ![t] = r]
    BY <1>2, <1>12 DEF Leased
  <2>4. r \in CallRecord /\ r.pc = "leased"
    BY <1>3, <1>6 DEF CallRecord
  <2> HIDE DEF c, r
  <2>5. Cardinality(Waiting(call')) = Cardinality(Waiting(c))
    BY <1>7, <2>3, <2>4, WaitingCount
  <2> HIDE DEF i, a, D
  <2>6. Consistent(Taken(D, e, a), [c EXCEPT ![t] = [pc |-> "leased", id |-> i, access |-> a, entry |-> e]])
    BY <1>3, <1>6, <1>7, <2>2, TakenConsistent DEF D
  <2>7. Consistent(entry', call')
    BY <1>12, <2>3, <2>6 DEF D, r
  <2>8. Unique(entry')
    <3>1. \A f \in Entries : entry'[f].id = D[f].id
      BY <1>3, <1>6, <1>12, <2>1, TakenEntry DEF D
    <3> QED
      BY <1>10, <3>1, IdsKept DEF D
  <2> QED
    BY <1>1, <1>8, <1>9, <1>12, <2>5, <2>7, <2>8, BroadcastTyped DEF IInv
<1>13. CASE /\ entry' = Dequeued(E, e, t)
            /\ call' = c
            /\ pending' = pending - 1
            /\ Broadcast
  <2> HIDE DEF c
  <2> QED
    BY <1>1, <1>7, <1>8, <1>9, <1>10, <1>13, BroadcastTyped DEF IInv
<1> QED
  BY <1>4, <1>11, <1>12, <1>13

(* application_client_release keeps the invariant. *)
LEMMA ReleaseStep ==
  ASSUME IInv, NEW t \in Threads, NEW clock \in ClockReads, Release(t, clock)
  PROVE  IInv'
<1>1. clock \in BOOLEAN
  BY ConstantsAssumption
<1>2. Consistent(entry', call')
  BY <1>1, FreedConsistent DEF IInv, Release
<1>3. Cardinality(Waiting(call')) = Cardinality(Waiting(call))
  BY NoCallTyped, WaitingCount DEF IInv, Release, Consistent, Typed, NoCall
<1>4. Unique(entry')
  <2>1. call[t].entry \in Entries /\ entry \in [Entries -> EntryRecord]
    BY DEF IInv, Consistent, Typed, CallRecord
  <2>2. \A f \in Entries : entry'[f].id = entry[f].id
    BY <2>1, FreedRest DEF Release
  <2> QED
    BY <2>2, IdsKept DEF IInv
<1> QED
  BY <1>2, <1>3, <1>4, BroadcastTyped DEF IInv, Release

(* Steps that change only what an entry carries. *)
LEMMA CarriedStep ==
  ASSUME IInv, UNCHANGED <<next, pending, limits, call, signalled>>,
         entry' \in [Entries -> EntryRecord],
         \A e \in Entries :
           /\ entry'[e].queue = entry[e].queue
           /\ entry'[e].busy = entry[e].busy
           /\ entry'[e].readers = entry[e].readers
           /\ entry'[e].id = entry[e].id
  PROVE  IInv'
<1>1. Consistent(entry', call)
  BY PayloadConsistent DEF IInv
<1>2. Unique(entry')
  BY IdsKept DEF IInv
<1> QED
  BY <1>1, <1>2 DEF IInv

(* What the holder of an exclusive lease does to its entry. *)
LEMMA HolderStep ==
  ASSUME IInv, NEW t \in Threads,
         (\E bytes \in ByteSizes : Resize(t, bytes)) \/ ReleaseSession(t)
  PROVE  IInv'
<1>1. call[t].entry \in Entries /\ entry \in [Entries -> EntryRecord]
  BY DEF IInv, Consistent, Typed, CallRecord
<1>2. CASE \E bytes \in ByteSizes : Resize(t, bytes)
  <2>1. PICK bytes \in ByteSizes : Resize(t, bytes)
    BY <1>2
  <2>2. bytes \in Nat
    BY ConstantsAssumption
  <2>3. entry' = [entry EXCEPT ![call[t].entry].bytes = bytes]
    BY <2>1 DEF Resize
  <2>4. entry' \in [Entries -> EntryRecord]
    BY <1>1, <2>2, <2>3, ZenonT(60) DEF EntryRecord
  <2> QED
    BY <1>1, <2>1, <2>3, <2>4, CarriedStep DEF Resize
<1>3. CASE ReleaseSession(t)
  <2>1. entry' = [entry EXCEPT ![call[t].entry].bytes = 0, ![call[t].entry].released = TRUE]
    BY <1>3 DEF ReleaseSession
  <2>2. entry' \in [Entries -> EntryRecord]
    BY <1>1, <2>1, ZenonT(60) DEF EntryRecord
  <2> QED
    BY <1>1, <1>3, <2>1, <2>2, CarriedStep DEF ReleaseSession
<1> QED
  BY <1>2, <1>3

(* Ticks, signals and sweeps keep the invariant. *)
LEMMA TimeStep ==
  ASSUME IInv, (\E clock \in ClockReads : Expire(clock)) \/ (\E e \in Entries : Elapse(e))
  PROVE  IInv'
<1>1. entry \in [Entries -> EntryRecord]
  BY DEF IInv, Consistent, Typed
<1>2. ASSUME NEW clock \in ClockReads, Expire(clock)
      PROVE  IInv'
  <2>1. clock \in BOOLEAN
    BY ConstantsAssumption
  <2> QED
    BY <1>2, <2>1, SweepConsistent, SweepUnique DEF IInv, Expire
<1>3. ASSUME NEW e \in Entries, Elapse(e)
      PROVE  IInv'
  <2>1. entry' = [entry EXCEPT ![e].lastUsed = "idle"]
    BY <1>3 DEF Elapse
  <2>2. entry' \in [Entries -> EntryRecord]
    BY <1>1, <2>1 DEF EntryRecord
  <2> QED
    BY <1>1, <1>3, <2>1, <2>2, CarriedStep DEF Elapse
<1> QED
  BY <1>2, <1>3

(* A store without leases and waiting calls is used by nobody. *)
LEMMA UnusedStore ==
  ASSUME IInv, Destroy
  PROVE  \A t \in Threads : call[t].pc = "idle"
<1>1. call \in [Threads -> CallRecord] /\ entry \in [Entries -> EntryRecord]
  BY DEF IInv, Consistent, Typed
<1>2. TAKE t \in Threads
<1>3. call[t].pc \in {"idle", "queued", "leased"} /\ call[t].entry \in Entries
  BY <1>1 DEF CallRecord
<1>4. Waiting(call) = {}
  BY ThreadSetsFinite, FS_EmptySet DEF Destroy, IInv
<1>5. call[t].pc # "queued"
  BY <1>4 DEF Waiting
<1>6. ASSUME call[t].pc = "leased"
      PROVE  FALSE
  <2>1. t \in Leasers(call, call[t].entry)
    BY <1>3, <1>6 DEF Leasers
  <2>2. call[t].access = "READ"
    BY <1>3, <2>1 DEF Destroy, IInv, Consistent, Counted
  <2>3. t \in Readers(call, call[t].entry)
    BY <2>1, <2>2 DEF Readers
  <2>4. entry[call[t].entry].readers = Cardinality(Readers(call, call[t].entry))
    BY <1>3 DEF IInv, Consistent, Counted
  <2> QED
    BY <1>3, <2>3, <2>4, ThreadSetsFinite, FS_EmptySet DEF Destroy
<1> QED
  BY <1>3, <1>5, <1>6

(* A store that nobody uses may be destroyed. *)
LEMMA DestroyStep ==
  ASSUME IInv, Destroy
  PROVE  IInv'
<1>1. call \in [Threads -> CallRecord]
  BY DEF IInv, Consistent, Typed
<1>2. Consistent(entry', call')
  BY <1>1, UnusedStore, EmptyConsistent DEF Destroy
<1>3. next' \in [Pools -> Slots] /\ limits' \in LimitRecord
  BY ConstantsAssumption DEF Destroy, Slots
<1>4. Unique(entry')
  BY DEF Destroy, Unique, EmptyEntry
<1> QED
  BY <1>2, <1>3, <1>4 DEF IInv, Destroy

(* Every step keeps the invariant. *)
LEMMA NextIInv == IInv /\ [Next]_vars => IInv'
<1> SUFFICES ASSUME IInv, [Next]_vars PROVE IInv'
  OBVIOUS
<1>1. ASSUME NEW t \in Threads, NEW i \in Ids, NEW a \in Accesses,
             \/ \E clock \in ClockReads : AcquireKnown(t, i, a, clock)
             \/ \E clock \in ClockReads : AcquireNew(t, i, a, clock)
             \/ AcquireWaiting(t, i, a)
      PROVE  IInv'
  BY <1>1, AcquireKnownStep, AcquireNewStep, AcquireWaitingStep
<1>2. ASSUME NEW t \in Threads, Recheck(t) PROVE IInv'
  BY <1>2, RecheckStep
<1>3. ASSUME NEW t \in Threads, GiveUp(t) PROVE IInv'
  BY <1>3, GiveUpStep
<1>4. ASSUME NEW t \in Threads, SpuriousWake(t) PROVE IInv'
  BY <1>4 DEF SpuriousWake, IInv
<1>5. ASSUME NEW t \in Threads, NEW clock \in ClockReads, Release(t, clock) PROVE IInv'
  BY <1>5, ReleaseStep
<1>6. ASSUME NEW t \in Threads,
             (\E bytes \in ByteSizes : Resize(t, bytes)) \/ ReleaseSession(t)
      PROVE  IInv'
  BY <1>6, HolderStep
<1>7. ASSUME (\E clock \in ClockReads : Expire(clock)) \/ (\E e \in Entries : Elapse(e))
      PROVE  IInv'
  BY <1>7, TimeStep
<1>8. ASSUME NEW new \in Limits, Configure(new) PROVE IInv'
  <2>1. new \in LimitRecord
    BY ConstantsAssumption
  <2> QED
    BY <1>8, <2>1 DEF Configure, IInv
<1>9. ASSUME Destroy PROVE IInv'
  BY <1>9, DestroyStep
<1>10. ASSUME UNCHANGED vars PROVE IInv'
  BY <1>10 DEF vars, IInv
<1> QED
  BY <1>1, <1>2, <1>3, <1>4, <1>5, <1>6, <1>7, <1>8, <1>9, <1>10 DEF Next

(* The inductive invariant holds in every reachable state. *)
THEOREM Invariance == Spec => []IInv
BY InitIInv, NextIInv, PTL DEF Spec

-----------------------------------------------------------------------------
(* Every variable keeps its type, for any number of threads, clients and
   slots: no release takes a reader count below zero, no departure the count
   of pending calls. *)
THEOREM TypeCorrect == Spec => []TypeOK
<1>1. IInv => TypeOK
  BY ThreadSetsFinite DEF IInv, TypeOK, Consistent, Typed
<1> QED
  BY <1>1, Invariance, PTL

(* The reader-writer exclusion of client_store.h:89. *)
THEOREM Exclusion == Spec => []LeaseExclusion
<1>1. IInv => LeaseExclusion
  <2> SUFFICES ASSUME IInv, NEW t \in Threads, NEW u \in Threads,
                      t # u, call[t].pc = "leased", call[u].pc = "leased",
                      call[t].entry = call[u].entry
               PROVE  call[t].access = "READ" /\ call[u].access = "READ"
    BY DEF LeaseExclusion
  <2>1. call[t].entry \in Entries
    BY DEF IInv, Consistent, Typed, CallRecord
  <2>2. t \in Leasers(call, call[t].entry) /\ u \in Leasers(call, call[t].entry)
    BY DEF Leasers
  <2> QED
    BY <2>1, <2>2 DEF IInv, Consistent, Exclusive
<1> QED
  BY <1>1, Invariance, PTL

(* Neither expiry nor replacement takes an entry from a client whose call
   holds it or waits for it (client_store.h:92). *)
THEOREM PinnedEntriesStay == Spec => []PinnedIdentity
<1>1. IInv => PinnedIdentity
  BY DEF IInv, Consistent, Identified, PinnedIdentity
<1> QED
  BY <1>1, Invariance, PTL

(* A client has one entry per pool, so the first match of the lookup loops
   is the only one (client_store.c:194 and 223). *)
THEOREM IdsAreUnique == Spec => []UniqueIds
<1>1. IInv => UniqueIds
  BY DEF IInv, Unique, UniqueIds
<1> QED
  BY <1>1, Invariance, PTL

(* The queues and their counters agree with the waiting calls, and both
   limits of client_store.h:15 are kept. *)
THEOREM QueuesAreAccounted == Spec => []QueueAccounting
<1>1. IInv => QueueAccounting
  <2> SUFFICES ASSUME IInv PROVE QueueAccounting
    OBVIOUS
  <2>1. \A e \in Entries : QueuedOn(e) = Queuers(call, e)
    BY DEF QueuedOn, Queuers
  <2>2. \A e \in Entries :
          /\ {entry[e].queue[k] : k \in 1 .. Len(entry[e].queue)} = QueuedOn(e)
          /\ Len(entry[e].queue) = Cardinality(QueuedOn(e))
          /\ Len(entry[e].queue) <= PerEntry
    BY <2>1 DEF IInv, Consistent, Lined, Members
  <2> QED
    BY <2>2 DEF QueueAccounting, IInv, Waiting
<1> QED
  BY <1>1, Invariance, PTL

(* busy and readers always say who holds the entry. *)
THEOREM CountersAreExact == Spec => []LeaseCounters
<1>1. IInv => LeaseCounters
  BY DEF IInv, Consistent, Counted, LeaseCounters, LeasedOn, Leasers, Readers
<1> QED
  BY <1>1, Invariance, PTL

-----------------------------------------------------------------------------
(* Wake-ups.  A call that waits in the queue of an entry pins it. *)
LEMMA QueuedIsPinned ==
  ASSUME IInv, NEW u \in Threads, call[u].pc = "queued"
  PROVE  /\ call[u].entry \in Entries
         /\ u \in Members(entry[call[u].entry].queue)
         /\ \A clock \in BOOLEAN : Sweep(clock)[call[u].entry] = entry[call[u].entry]
<1>1. call[u].entry \in Entries
  BY DEF IInv, Consistent, Typed, CallRecord
<1>2. u \in Members(entry[call[u].entry].queue)
  BY <1>1 DEF IInv, Consistent, Lined, Queuers
<1>3. Pinned(entry[call[u].entry])
  BY <1>2 DEF Members, Pinned
<1> QED
  BY <1>1, <1>2, <1>3 DEF Sweep, Swept, Expirable

(* Who stands in the queue of an entry waits for it. *)
LEMMA MembersQueued ==
  ASSUME IInv, NEW e \in Entries, NEW k \in 1 .. Len(entry[e].queue)
  PROVE  entry[e].queue[k] \in Threads /\ call[entry[e].queue[k]].pc = "queued"
<1>1. entry[e].queue[k] \in Members(entry[e].queue)
  BY DEF Members
<1> QED
  BY <1>1 DEF IInv, Consistent, Lined, Queuers

(* What waits in the queue of e still conflicts after a step that leaves the
   queue and the calls in it alone and frees nothing. *)
LEMMA StillConflicts ==
  ASSUME IInv, NEW u \in Threads, NEW e \in Entries,
         call[u].pc = "queued", call[u].entry = e,
         Conflict(entry[e], u, call[u].access),
         \A k \in 1 .. Len(entry[e].queue) :
           call'[entry[e].queue[k]].access = call[entry[e].queue[k]].access,
         call'[u] = call[u],
         entry'[e].queue = entry[e].queue,
         entry[e].busy => entry'[e].busy,
         entry[e].readers > 0 => entry'[e].readers > 0
  PROVE  Conflict(entry[call[u].entry], u, call[u].access)'
<1> DEFINE a == call[u].access
<1>1. QueueReady(entry[e].queue, u, a) <=> QueueReady(entry[e].queue, u, a)'
  BY SMTT(60) DEF QueueReady
<1> QED
  BY <1>1 DEF Conflict

(* One call changes, and none of those in the queue of e is it. *)
LEMMA OthersKept ==
  ASSUME IInv, NEW t \in Threads, NEW s, call[t].pc # "queued",
         call' = [call EXCEPT ![t] = s], NEW e \in Entries
  PROVE  /\ \A k \in 1 .. Len(entry[e].queue) :
              call'[entry[e].queue[k]].access = call[entry[e].queue[k]].access
         /\ \A u \in Threads : u # t => call'[u] = call[u]
BY MembersQueued DEF IInv, Consistent, Typed

(* After a broadcast no wake-up is missing. *)
LEMMA BroadcastWakes ==
  ASSUME Broadcast
  PROVE  NoLostWakeup'
BY DEF Broadcast, NoLostWakeup

(* Acquiring a known entry loses no wake-up. *)
LEMMA KnownWakes ==
  ASSUME IInv, NoLostWakeup, NEW t \in Threads, NEW i \in Ids, NEW a \in Accesses,
         NEW clock \in ClockReads, AcquireKnown(t, i, a, clock)
  PROVE  NoLostWakeup'
<1> DEFINE E == Sweep(clock)
<1>1. clock \in BOOLEAN
  BY ConstantsAssumption
<1>2. PICK f \in Located(E, a, i) :
        /\ ~Conflict(E[f], t, a)
        /\ entry' = Taken(E, f, a)
        /\ call' = Leased(t, i, a, f)
  BY DEF AcquireKnown
<1>3. f \in Entries /\ E \in [Entries -> EntryRecord] /\ call[t].pc = "idle"
  BY <1>1, SweepConsistent DEF IInv, Consistent, Typed, Located, AcquireKnown
<1>4. SUFFICES ASSUME NEW u \in Threads, call'[u].pc = "queued", u \notin signalled'
               PROVE  Conflict(entry[call[u].entry], u, call[u].access)'
  BY DEF NoLostWakeup
<1>5. u # t
  BY <1>2, <1>4 DEF Leased, IInv, Consistent, Typed
<1> DEFINE e == call[u].entry
<1>6. call'[u] = call[u] /\ call[u].pc = "queued" /\ u \notin signalled
  BY <1>2, <1>4, <1>5 DEF Leased, AcquireKnown
<1>7. e \in Entries /\ E[e] = entry[e]
  BY <1>1, <1>6, QueuedIsPinned
<1>8. Conflict(entry[e], u, call[u].access)
  BY <1>6 DEF NoLostWakeup
<1>9. \A k \in 1 .. Len(entry[e].queue) :
        call'[entry[e].queue[k]].access = call[entry[e].queue[k]].access
  BY <1>2, <1>3, <1>7, OthersKept DEF Leased
<1> HIDE DEF E, e
<1>10. /\ entry'[e].queue = entry[e].queue
       /\ entry[e].busy => entry'[e].busy
       /\ entry[e].readers > 0 => entry'[e].readers > 0
  <2>1. CASE e # f
    BY <1>2, <1>3, <1>7, <2>1, TakenEntry
  <2>2. CASE e = f
    <3>1. entry[e].readers \in Nat /\ ~entry[e].busy
      BY <1>2, <1>3, <1>7, <2>2 DEF Conflict, EntryRecord
    <3> QED
      BY <1>2, <1>3, <1>7, <2>2, <3>1, TakenEntry
  <2> QED
    BY <2>1, <2>2
<1> QED
  BY <1>6, <1>7, <1>8, <1>9, <1>10, StillConflicts DEF e

(* Acquiring a new entry loses no wake-up. *)
LEMMA NewWakes ==
  ASSUME IInv, NoLostWakeup, NEW t \in Threads, NEW i \in Ids, NEW a \in Accesses,
         NEW clock \in ClockReads, AcquireNew(t, i, a, clock)
  PROVE  NoLostWakeup'
<1> DEFINE E == Sweep(clock)
           p == PoolOf(a)
<1>1. clock \in BOOLEAN
  BY ConstantsAssumption
<1>2. PICK s \in Victims(E, p) :
        /\ entry' = Taken(Claimed(E, <<p, s>>, i, clock), <<p, s>>, a)
        /\ call' = Leased(t, i, a, <<p, s>>)
  BY DEF AcquireNew
<1> DEFINE f == <<p, s>>
           F == Claimed(E, f, i, clock)
<1>3. f \in Entries /\ ~Pinned(E[f]) /\ call[t].pc = "idle"
  BY DEF Victims, PoolOf, Pools, Entries, AcquireNew
<1>4. Consistent(E, call)
  BY <1>1, SweepConsistent DEF IInv
<1>5. Consistent(F, call)
  <2> HIDE DEF E, f
  <2> QED
    BY <1>1, <1>3, <1>4, ClaimedConsistent
<1>6. E \in [Entries -> EntryRecord] /\ F \in [Entries -> EntryRecord]
  BY <1>4, <1>5 DEF Consistent, Typed
<1>7. \A e \in Entries : e # f => F[e] = E[e]
  BY <1>6 DEF Claimed
<1>8. SUFFICES ASSUME NEW u \in Threads, call'[u].pc = "queued", u \notin signalled'
               PROVE  Conflict(entry[call[u].entry], u, call[u].access)'
  BY DEF NoLostWakeup
<1>9. u # t
  BY <1>2, <1>8 DEF Leased, IInv, Consistent, Typed
<1> DEFINE e == call[u].entry
<1>10. call'[u] = call[u] /\ call[u].pc = "queued" /\ u \notin signalled
  BY <1>2, <1>8, <1>9 DEF Leased, AcquireNew
<1>11. e \in Entries /\ E[e] = entry[e] /\ u \in Members(entry[e].queue)
  BY <1>1, <1>10, QueuedIsPinned
<1>12. Conflict(entry[e], u, call[u].access)
  BY <1>10 DEF NoLostWakeup
<1>13. \A k \in 1 .. Len(entry[e].queue) :
        call'[entry[e].queue[k]].access = call[entry[e].queue[k]].access
  BY <1>2, <1>3, <1>11, OthersKept DEF Leased
<1>14. e # f
  BY <1>3, <1>11 DEF Pinned, Members
<1>15. entry' = Taken(F, f, a)
  BY <1>2
<1> HIDE DEF E, e, f, F
<1>16. entry'[e] = entry[e]
  BY <1>3, <1>6, <1>7, <1>11, <1>14, <1>15, TakenEntry
<1> QED
  BY <1>10, <1>11, <1>12, <1>13, <1>16, StillConflicts DEF e

(* QueueReady, of any calls *)
Ready(c, q, t, a) ==
  IF \E k \in 1 .. Len(q) : q[k] = t
  THEN \A k \in 1 .. Len(q) :
         (\A j \in 1 .. k : q[j] # t) => a = "READ" /\ c[q[k]].access = "READ"
  ELSE q = <<>>

(* Joining the end of a queue changes nothing for those ahead. *)
LEMMA ReadyAppend ==
  ASSUME NEW c, NEW d, NEW q \in Seq(Threads), NEW t \in Threads,
         \A k \in 1 .. Len(q) : q[k] # t /\ d[q[k]].access = c[q[k]].access
  PROVE  /\ \A a : Ready(d, Append(q, t), t, a) <=> Ready(c, Append(q, t), t, a)
         /\ \A a : \A u \in Members(q) : Ready(d, Append(q, t), u, a) <=> Ready(c, q, u, a)
<1> DEFINE p == Append(q, t)
<1>1. /\ Len(q) \in Nat /\ Len(p) = Len(q) + 1 /\ p[Len(q) + 1] = t
      /\ \A k \in 1 .. Len(q) : p[k] = q[k]
  OBVIOUS
<1> HIDE DEF p
<1>2. ASSUME NEW a PROVE Ready(d, p, t, a) <=> Ready(c, p, t, a)
  <2>1. \A k \in 1 .. Len(p) : (\A j \in 1 .. k : p[j] # t) => k \in 1 .. Len(q)
    BY <1>1
  <2>2. \A k \in 1 .. Len(q) : d[p[k]].access = c[p[k]].access
    BY <1>1
  <2>3. \A k \in 1 .. Len(p) :
          (\A j \in 1 .. k : p[j] # t) => d[p[k]].access = c[p[k]].access
    BY <2>1, <2>2
  <2> QED
    BY <2>3 DEF Ready
<1>3. ASSUME NEW u \in Members(q), NEW a PROVE Ready(d, p, u, a) <=> Ready(c, q, u, a)
  <2>1. PICK m \in 1 .. Len(q) : q[m] = u
    BY DEF Members
  <2>2. m \in 1 .. Len(p) /\ p[m] = u
    BY <1>1, <2>1
  <2>3. \A k \in 1 .. Len(p) : (\A j \in 1 .. k : p[j] # u) => k \in 1 .. Len(q) /\ k < m
    BY <1>1, <2>2
  <2>4. \A k \in 1 .. Len(q) : \A j \in 1 .. k : p[j] = q[j]
    BY <1>1
  <2>5. Ready(d, p, u, a) <=>
          \A k \in 1 .. Len(q) :
            (\A j \in 1 .. k : q[j] # u) => a = "READ" /\ d[q[k]].access = "READ"
    BY <1>1, <2>2, <2>3, <2>4, SMTT(60) DEF Ready
  <2>6. Ready(c, q, u, a) <=>
          \A k \in 1 .. Len(q) :
            (\A j \in 1 .. k : q[j] # u) => a = "READ" /\ c[q[k]].access = "READ"
    BY <2>1 DEF Ready
  <2> QED
    BY <2>5, <2>6
<1> QED
  BY <1>2, <1>3 DEF p

(* Conflict, of any calls, and what a sleeping call needs after a step. *)
Blocked(c, r, t, a) ==
  \/ r.busy
  \/ a # "READ" /\ r.readers > 0
  \/ ~Ready(c, r.queue, t, a)

(* What keeps a queued call from proceeding. *)
LEMMA BlockedNow ==
  ASSUME NEW r, NEW t, NEW a PROVE Conflict(r, t, a) <=> Blocked(call, r, t, a)
BY DEF Conflict, QueueReady, Blocked, Ready

(* The same in the next state. *)
LEMMA BlockedNext ==
  ASSUME NEW u \in Threads
  PROVE  Conflict(entry[call[u].entry], u, call[u].access)' <=>
           Blocked(call', entry'[call'[u].entry], u, call'[u].access)
BY DEF Conflict, QueueReady, Blocked, Ready

(* Joining a queue loses no wake-up. *)
LEMMA WaitingWakes ==
  ASSUME IInv, NoLostWakeup, NEW t \in Threads, NEW i \in Ids, NEW a \in Accesses,
         AcquireWaiting(t, i, a)
  PROVE  NoLostWakeup'
<1> DEFINE E == Sweep(TRUE)
<1>1. PICK f \in Located(E, a, i) :
        \/ /\ Conflict([E EXCEPT ![f].queue = Append(@, t)][f], t, a)
           /\ entry' = [E EXCEPT ![f].queue = Append(@, t)]
           /\ call' = [call EXCEPT ![t] =
                [pc |-> "queued", id |-> i, access |-> a, entry |-> f]]
           /\ UNCHANGED signalled
        \/ Broadcast
  BY DEF AcquireWaiting
<1>2. f \in Entries /\ E \in [Entries -> EntryRecord] /\ call[t].pc = "idle"
        /\ call \in [Threads -> CallRecord] /\ entry \in [Entries -> EntryRecord]
  BY SweepConsistent DEF IInv, Consistent, Typed, Located, AcquireWaiting
<1> DEFINE q == entry[f].queue
           joined == [E EXCEPT ![f].queue = Append(@, t)]
<1>3. CASE Broadcast
  BY <1>3, BroadcastWakes
<1>4. CASE /\ Conflict(joined[f], t, a)
           /\ entry' = joined
           /\ call' = [call EXCEPT ![t] =
                [pc |-> "queued", id |-> i, access |-> a, entry |-> f]]
           /\ UNCHANGED signalled
  <2>1. SUFFICES ASSUME NEW u \in Threads, call'[u].pc = "queued", u \notin signalled'
                 PROVE  Blocked(call', entry'[call'[u].entry], u, call'[u].access)
    BY BlockedNext DEF NoLostWakeup
  <2>2. E[f].queue = q
    BY <1>2, ZenonT(60) DEF Sweep, Expired, EntryRecord
  <2>3. q \in Seq(Threads)
    BY <1>2 DEF EntryRecord
  <2>4. \A e \in Entries : /\ e # f => entry'[e] = E[e]
                           /\ entry'[e].busy = E[e].busy
                           /\ entry'[e].readers = E[e].readers
    BY <1>2, <1>4, ZenonT(60) DEF EntryRecord
  <2>5. entry'[f].queue = Append(q, t)
    BY <1>2, <1>4, <2>2 DEF EntryRecord
  <2>6. \A k \in 1 .. Len(q) : q[k] # t /\ call'[q[k]].access = call[q[k]].access
    BY <1>2, <1>4, OthersKept, MembersQueued
  <2>7. \A v \in Threads : v # t => call'[v] = call[v]
    BY <1>2, <1>4
  <2>8. call'[t].access = a /\ call'[t].entry = f
    BY <1>2, <1>4
  <2>9. Blocked(call, entry'[f], t, a)
    BY <1>4, BlockedNow
  <2> HIDE DEF joined, E, q
  <2>10. CASE u = t
    <3>1. Ready(call', Append(q, t), t, a) <=> Ready(call, Append(q, t), t, a)
      BY <2>3, <2>6, ReadyAppend
    <3>2. Blocked(call', entry'[f], t, a)
      BY <2>5, <2>9, <3>1 DEF Blocked
    <3> QED
      BY <2>8, <2>10, <3>2
  <2>11. CASE u # t
    <3> DEFINE e == call[u].entry
               b == call[u].access
    <3>1. call'[u] = call[u] /\ call[u].pc = "queued" /\ u \notin signalled
      BY <1>4, <2>1, <2>7, <2>11
    <3>2. e \in Entries /\ E[e] = entry[e] /\ u \in Members(entry[e].queue)
      BY <3>1, QueuedIsPinned DEF E
    <3>3. Conflict(entry[e], u, b)
      BY <3>1 DEF NoLostWakeup
    <3>4. Blocked(call, entry[e], u, b)
      BY <3>3, BlockedNow
    <3>5. call'[u].entry = e /\ call'[u].access = b
      BY <3>1
    <3> HIDE DEF e, b
    <3>6. Ready(call', entry'[e].queue, u, b) <=> Ready(call, entry[e].queue, u, b)
      <4>1. CASE e # f
        <5>1. entry'[e].queue = entry[e].queue
          BY <2>4, <3>2, <4>1
        <5>2. \A k \in 1 .. Len(entry[e].queue) :
                call'[entry[e].queue[k]].access = call[entry[e].queue[k]].access
          BY <1>2, <1>4, <3>2, OthersKept, ZenonT(60)
        <5> QED
          BY <5>1, <5>2 DEF Ready
      <4>2. CASE e = f
        <5>1. u \in Members(q)
          BY <3>2, <4>2 DEF q
        <5>2. Ready(call', Append(q, t), u, b) <=> Ready(call, q, u, b)
          BY <2>3, <2>6, <5>1, ReadyAppend
        <5> QED
          BY <2>5, <4>2, <5>2 DEF q
      <4> QED
        BY <4>1, <4>2
    <3>7. entry'[e].busy = entry[e].busy /\ entry'[e].readers = entry[e].readers
      BY <2>4, <3>2
    <3>8. Blocked(call', entry'[e], u, b)
      BY <3>4, <3>6, <3>7 DEF Blocked
    <3> QED
      BY <3>5, <3>8
  <2> QED
    BY <2>10, <2>11
<1> QED
  BY <1>1, <1>3, <1>4

(* A step that changes neither the calls nor any queue or counter. *)
LEMMA QuietWakes ==
  ASSUME IInv, NoLostWakeup, UNCHANGED call, signalled \subseteq signalled',
         \A e \in Entries :
           /\ entry'[e].queue = entry[e].queue
           /\ entry'[e].busy = entry[e].busy
           /\ entry'[e].readers = entry[e].readers
  PROVE  NoLostWakeup'
<1> SUFFICES ASSUME NEW u \in Threads, call'[u].pc = "queued", u \notin signalled'
             PROVE  Conflict(entry[call[u].entry], u, call[u].access)'
  BY DEF NoLostWakeup
<1>1. call[u].pc = "queued" /\ u \notin signalled
  OBVIOUS
<1>2. call[u].entry \in Entries
  BY <1>1, QueuedIsPinned
<1>3. Conflict(entry[call[u].entry], u, call[u].access)
  BY <1>1 DEF NoLostWakeup
<1> QED
  BY <1>1, <1>2, <1>3, StillConflicts

(* A queued call finds the entry it queued on. *)
LEMMA HomeOfQueued ==
  ASSUME IInv, NEW t \in Threads, call[t].pc = "queued",
         NEW f \in Located(Sweep(TRUE), call[t].access, call[t].id)
  PROVE  f = call[t].entry
<1> DEFINE E == Sweep(TRUE)
<1>1. Consistent(E, call)
  BY SweepConsistent DEF IInv
<1>2. Unique(E) /\ E \in [Entries -> EntryRecord]
  BY <1>1, SweepUnique DEF Consistent, Typed
<1>3. /\ call[t].id \in Ids /\ call[t].entry \in Entries
      /\ E[call[t].entry].id = call[t].id
      /\ call[t].entry[1] = PoolOf(call[t].access)
  BY <1>1 DEF Consistent, Typed, Identified, CallRecord
<1> HIDE DEF E
<1> QED
  BY <1>2, <1>3, ConstantsAssumption DEF E, Located, Unique

(* A woken call that must wait again takes its own mark only; any other step
   of await_slot broadcasts. *)
LEMMA RecheckWakes ==
  ASSUME IInv, NoLostWakeup, NEW t \in Threads, Recheck(t)
  PROVE  NoLostWakeup'
<1> DEFINE E == Sweep(TRUE)
           a == call[t].access
<1>1. PICK f \in Located(E, a, call[t].id) :
        \/ /\ Conflict(E[f], t, a)
           /\ entry' = E
           /\ signalled' = signalled \ {t}
           /\ UNCHANGED call
        \/ Broadcast
  BY DEF Recheck
<1>2. call[t].pc = "queued" /\ f \in Entries
  BY DEF Recheck, Located
<1>3. CASE Broadcast
  BY <1>3, BroadcastWakes
<1>4. CASE /\ Conflict(E[f], t, a)
           /\ entry' = E
           /\ signalled' = signalled \ {t}
           /\ UNCHANGED call
  <2>1. SUFFICES ASSUME NEW u \in Threads, call'[u].pc = "queued", u \notin signalled'
                 PROVE  Blocked(call', entry'[call'[u].entry], u, call'[u].access)
    BY BlockedNext DEF NoLostWakeup
  <2>2. call' = call /\ call[u].pc = "queued" /\ call[u].entry \in Entries
          /\ E[call[u].entry] = entry[call[u].entry]
    BY <1>4, <2>1, QueuedIsPinned
  <2>3. CASE u = t
    <3>1. f = call[t].entry
      BY <1>2, HomeOfQueued
    <3> QED
      BY <1>4, <2>2, <2>3, <3>1, BlockedNow
  <2>4. CASE u # t
    <3>1. Conflict(entry[call[u].entry], u, call[u].access)
      BY <1>4, <2>1, <2>2, <2>4 DEF NoLostWakeup
    <3> QED
      BY <1>4, <2>2, <3>1, BlockedNow
  <2> QED
    BY <2>3, <2>4
<1> QED
  BY <1>1, <1>3, <1>4

(* The steps of a holder lose no wake-up. *)
LEMMA HolderWakes ==
  ASSUME IInv, NoLostWakeup, NEW t \in Threads,
         (\E bytes \in ByteSizes : Resize(t, bytes)) \/ ReleaseSession(t)
  PROVE  NoLostWakeup'
<1>1. call[t].entry \in Entries /\ entry \in [Entries -> EntryRecord]
  BY DEF IInv, Consistent, Typed, CallRecord
<1>2. CASE \E bytes \in ByteSizes : Resize(t, bytes)
  <2>1. PICK bytes \in ByteSizes : Resize(t, bytes)
    BY <1>2
  <2>2. entry' = [entry EXCEPT ![call[t].entry].bytes = bytes]
    BY <2>1 DEF Resize
  <2>3. \A e \in Entries : /\ entry'[e].queue = entry[e].queue
                           /\ entry'[e].busy = entry[e].busy
                           /\ entry'[e].readers = entry[e].readers
    BY <1>1, <2>2 DEF EntryRecord
  <2> QED
    BY <2>1, <2>3, QuietWakes DEF Resize
<1>3. CASE ReleaseSession(t)
  <2>1. entry' = [entry EXCEPT ![call[t].entry].bytes = 0, ![call[t].entry].released = TRUE]
    BY <1>3 DEF ReleaseSession
  <2>2. \A e \in Entries : /\ entry'[e].queue = entry[e].queue
                           /\ entry'[e].busy = entry[e].busy
                           /\ entry'[e].readers = entry[e].readers
    BY <1>1, <2>1 DEF EntryRecord
  <2> QED
    BY <1>3, <2>2, QuietWakes DEF ReleaseSession
<1> QED
  BY <1>2, <1>3

(* Ticks and sweeps lose no wake-up. *)
LEMMA TimeWakes ==
  ASSUME IInv, NoLostWakeup,
         (\E clock \in ClockReads : Expire(clock)) \/ (\E e \in Entries : Elapse(e))
  PROVE  NoLostWakeup'
<1>1. entry \in [Entries -> EntryRecord]
  BY DEF IInv, Consistent, Typed
<1>2. ASSUME NEW clock \in ClockReads, Expire(clock)
      PROVE  NoLostWakeup'
  <2>1. \A e \in Entries : /\ Sweep(clock)[e].queue = entry[e].queue
                           /\ Sweep(clock)[e].busy = entry[e].busy
                           /\ Sweep(clock)[e].readers = entry[e].readers
    BY <1>1 DEF Sweep, Expired, EntryRecord
  <2> QED
    BY <1>2, <2>1, QuietWakes DEF Expire
<1>3. ASSUME NEW e \in Entries, Elapse(e)
      PROVE  NoLostWakeup'
  <2>1. \A f \in Entries : /\ entry'[f].queue = entry[f].queue
                           /\ entry'[f].busy = entry[f].busy
                           /\ entry'[f].readers = entry[f].readers
    BY <1>1, <1>3 DEF Elapse, EntryRecord
  <2> QED
    BY <1>3, <2>1, QuietWakes DEF Elapse
<1> QED
  BY <1>2, <1>3

(* No step loses a wake-up. *)
LEMMA NextWakes == IInv /\ NoLostWakeup /\ [Next]_vars => NoLostWakeup'
<1> SUFFICES ASSUME IInv, NoLostWakeup, [Next]_vars PROVE NoLostWakeup'
  OBVIOUS
<1>1. ASSUME NEW t \in Threads, NEW i \in Ids, NEW a \in Accesses,
             \/ \E clock \in ClockReads : AcquireKnown(t, i, a, clock)
             \/ \E clock \in ClockReads : AcquireNew(t, i, a, clock)
             \/ AcquireWaiting(t, i, a)
      PROVE  NoLostWakeup'
  BY <1>1, KnownWakes, NewWakes, WaitingWakes
<1>2. ASSUME NEW t \in Threads, Recheck(t) PROVE NoLostWakeup'
  BY <1>2, RecheckWakes
<1>3. ASSUME NEW t \in Threads, GiveUp(t) PROVE NoLostWakeup'
  BY <1>3, BroadcastWakes DEF GiveUp
<1>4. ASSUME NEW t \in Threads, SpuriousWake(t) PROVE NoLostWakeup'
  BY <1>4, QuietWakes DEF SpuriousWake
<1>5. ASSUME NEW t \in Threads, NEW clock \in ClockReads, Release(t, clock) PROVE NoLostWakeup'
  BY <1>5, BroadcastWakes DEF Release
<1>6. ASSUME NEW t \in Threads,
             (\E bytes \in ByteSizes : Resize(t, bytes)) \/ ReleaseSession(t)
      PROVE  NoLostWakeup'
  BY <1>6, HolderWakes
<1>7. ASSUME (\E clock \in ClockReads : Expire(clock)) \/ (\E e \in Entries : Elapse(e))
      PROVE  NoLostWakeup'
  BY <1>7, TimeWakes
<1>8. ASSUME NEW new \in Limits, Configure(new) PROVE NoLostWakeup'
  BY <1>8, QuietWakes DEF Configure
<1>9. ASSUME Destroy PROVE NoLostWakeup'
  BY <1>9, UnusedStore DEF Destroy, NoLostWakeup
<1>10. ASSUME UNCHANGED vars PROVE NoLostWakeup'
  BY <1>10, QuietWakes DEF vars
<1> QED
  BY <1>1, <1>2, <1>3, <1>4, <1>5, <1>6, <1>7, <1>8, <1>9, <1>10 DEF Next

(* No wake-up is lost (the broadcasts of client_store.c:256 and 344): however
   many calls wait, one that sleeps unsignalled could not have been served. *)
THEOREM WakeupsAreNotLost == Spec => []NoLostWakeup
<1>1. Init => NoLostWakeup
  BY SMTT(60) DEF Init, NoLostWakeup, NoCall
<1> QED
  BY <1>1, NextWakes, Invariance, PTL DEF Spec

-----------------------------------------------------------------------------
(* Tombstones. Ended says that only an entry in use is one. *)

Ended(E) == \A e \in Entries : E[e].released => E[e].id # NoId
Lasting(E, F) ==
  \A e \in Entries : E[e].released /\ F[e].id = E[e].id => F[e].released

(* A sweep ends sessions and revives none. *)
LEMMA SweepEnds ==
  ASSUME entry \in [Entries -> EntryRecord], Ended(entry), NEW clock \in BOOLEAN
  PROVE  /\ Ended(Sweep(clock))
         /\ \A e \in Entries : entry[e].released => Sweep(clock)[e] = entry[e]
BY DEF Ended, Sweep, Swept, Expirable, Expired, EntryRecord

(* After the sweep, a step that leaves id and released alone. *)
LEMMA SweptEnds ==
  ASSUME entry \in [Entries -> EntryRecord], Ended(entry), NEW clock \in BOOLEAN, NEW F,
         \A e \in Entries : /\ F[e].id = Sweep(clock)[e].id
                            /\ F[e].released = Sweep(clock)[e].released
  PROVE  Ended(F) /\ Lasting(entry, F)
<1>1. /\ Ended(Sweep(clock))
      /\ \A e \in Entries : entry[e].released => Sweep(clock)[e] = entry[e]
  BY SweepEnds
<1> QED
  BY <1>1 DEF Ended, Lasting

(* Taking over an entry for a new client revives no tombstone. *)
LEMMA NewEnds ==
  ASSUME IInv, Ended(entry), NEW t \in Threads, NEW i \in Ids, NEW a \in Accesses,
         NEW clock \in BOOLEAN, AcquireNew(t, i, a, clock)
  PROVE  Ended(entry') /\ Lasting(entry, entry')
<1> DEFINE E == Sweep(clock)
           p == PoolOf(a)
<1>1. PICK s \in Victims(E, p) :
        entry' = Taken(Claimed(E, <<p, s>>, i, clock), <<p, s>>, a)
  BY DEF AcquireNew
<1> DEFINE f == <<p, s>>
           F == Claimed(E, f, i, clock)
<1>2. f \in Entries /\ f[1] = p /\ ~Pinned(E[f])
  BY DEF Victims, PoolOf, Pools, Entries
<1>3. entry \in [Entries -> EntryRecord] /\ Consistent(E, call)
  BY SweepConsistent DEF IInv, Consistent, Typed
<1>4. /\ Ended(E)
      /\ \A e \in Entries : entry[e].released => E[e] = entry[e]
  BY <1>3, SweepEnds
<1>5. \A e \in Entries : e[1] = p => E[e].id # i
  BY DEF AcquireNew, Located
<1>6. E \in [Entries -> EntryRecord]
  BY <1>3 DEF Consistent, Typed
<1> HIDE DEF E, f, p
<1>7. F \in [Entries -> EntryRecord]
  BY <1>2, <1>3, ClaimedConsistent DEF Consistent, Typed
<1>8. F[f].id = i /\ ~F[f].released /\ \A e \in Entries : e # f => F[e] = E[e]
  <2>1. F[f] = [EmptyEntry EXCEPT !.id = i, !.lastUsed = IF clock THEN "recent" ELSE "never"]
    BY <1>2, <1>6 DEF Claimed
  <2>2. \A e \in Entries : e # f => F[e] = E[e]
    BY <1>2, <1>6 DEF Claimed
  <2> QED
    BY <2>1, <2>2 DEF EmptyEntry
<1> HIDE DEF F
<1>9. entry' = Taken(F, f, a)
  BY <1>1 DEF F, f
<1>10. \A e \in Entries : entry'[e].id = F[e].id /\ entry'[e].released = F[e].released
  BY <1>2, <1>7, <1>9, TakenEntry
<1>11. Ended(entry')
  BY <1>4, <1>8, <1>10 DEF Ended
<1>12. Lasting(entry, entry')
  BY <1>2, <1>4, <1>5, <1>8, <1>10 DEF Lasting
<1> QED
  BY <1>11, <1>12

(* Joining a queue keeps tombstones. *)
LEMMA WaitingEnds ==
  ASSUME IInv, Ended(entry), NEW t \in Threads, NEW i \in Ids, NEW a \in Accesses,
         AcquireWaiting(t, i, a) \/ AcquireKnown(t, i, a, TRUE) \/ AcquireKnown(t, i, a, FALSE)
  PROVE  Ended(entry') /\ Lasting(entry, entry')
<1>1. PICK clock \in BOOLEAN, f \in Entries :
        \/ entry' = [Sweep(clock) EXCEPT ![f].queue = Append(@, t)]
        \/ entry' = Taken(Sweep(clock), f, a)
        \/ entry' = Sweep(clock)
  BY DEF AcquireWaiting, AcquireKnown, Located
<1> DEFINE E == Sweep(clock)
<1>2. E \in [Entries -> EntryRecord] /\ entry \in [Entries -> EntryRecord]
  BY SweepConsistent DEF IInv, Consistent, Typed
<1>3. \A e \in Entries : entry'[e].id = E[e].id /\ entry'[e].released = E[e].released
  <2> HIDE DEF E
  <2>1. CASE entry' = [E EXCEPT ![f].queue = Append(@, t)]
    BY <1>2, <2>1 DEF EntryRecord
  <2>2. CASE entry' = Taken(E, f, a)
    BY <1>2, <2>2, TakenEntry
  <2> QED
    BY <1>1, <2>1, <2>2 DEF E
<1> QED
  BY <1>2, <1>3, SweptEnds

(* A woken call keeps tombstones. *)
LEMMA RecheckEnds ==
  ASSUME IInv, Ended(entry), NEW t \in Threads, Recheck(t)
  PROVE  Ended(entry') /\ Lasting(entry, entry')
<1> DEFINE E == Sweep(TRUE)
           a == call[t].access
<1>1. PICK f \in Entries :
        \/ entry' = E
        \/ entry' = Taken(Dequeued(E, f, t), f, a) /\ f = call[t].entry
        \/ entry' = Dequeued(E, f, t)
  <2>1. PICK f \in Located(E, a, call[t].id) :
          \/ entry' = E
          \/ entry' = Taken(Dequeued(E, f, t), f, a)
          \/ entry' = Dequeued(E, f, t)
    BY DEF Recheck
  <2>2. f \in Entries
    BY DEF Located
  <2>3. f = call[t].entry
    BY HomeOfQueued, <2>2 DEF Recheck
  <2> QED
    BY <2>1, <2>2, <2>3
<1>2. Consistent(E, call) /\ E \in [Entries -> EntryRecord] /\ entry \in [Entries -> EntryRecord]
  BY SweepConsistent DEF IInv, Consistent, Typed
<1>3. \A e \in Entries : entry'[e].id = E[e].id /\ entry'[e].released = E[e].released
  <2> HIDE DEF E, a
  <2>1. CASE entry' = Dequeued(E, f, t)
    BY <1>2, <2>1, DequeuedIds
  <2>2. CASE entry' = Taken(Dequeued(E, f, t), f, a) /\ f = call[t].entry
    <3> DEFINE F == Dequeued(E, f, t)
    <3>1. F \in [Entries -> EntryRecord]
      BY <1>2, <2>2, DequeuedConsistent DEF Recheck, Consistent, Typed
    <3>2. \A e \in Entries : F[e].id = E[e].id /\ F[e].released = E[e].released
      BY <1>2, DequeuedIds
    <3> HIDE DEF F
    <3>3. \A e \in Entries : entry'[e].id = F[e].id /\ entry'[e].released = F[e].released
      BY <2>2, <3>1, TakenEntry DEF F
    <3> QED
      BY <3>2, <3>3
  <2> QED
    BY <1>1, <2>1, <2>2
<1> QED
  BY <1>2, <1>3, SweptEnds

(* The steps of a holder keep tombstones. *)
LEMMA HolderEnds ==
  ASSUME IInv, Ended(entry), NEW t \in Threads,
         \/ \E clock \in BOOLEAN : Release(t, clock)
         \/ GiveUp(t)
         \/ \E bytes \in ByteSizes : Resize(t, bytes)
         \/ ReleaseSession(t)
  PROVE  Ended(entry') /\ Lasting(entry, entry')
<1> DEFINE e == call[t].entry
<1>1. entry \in [Entries -> EntryRecord] /\ e \in Entries
  BY DEF IInv, Consistent, Typed, CallRecord
<1>2. CASE \E clock \in BOOLEAN : Release(t, clock)
  <2>1. PICK clock \in BOOLEAN : Release(t, clock)
    BY <1>2
  <2>2. \A f \in Entries : entry'[f].id = entry[f].id /\ entry'[f].released = entry[f].released
    BY <1>1, <2>1, FreedRest DEF Release
  <2> QED
    BY <2>2 DEF Ended, Lasting
<1>3. CASE GiveUp(t)
  <2>1. \A f \in Entries : entry'[f].id = entry[f].id /\ entry'[f].released = entry[f].released
    BY <1>1, <1>3, DequeuedIds DEF GiveUp
  <2> QED
    BY <2>1 DEF Ended, Lasting
<1>4. CASE \E bytes \in ByteSizes : Resize(t, bytes)
  <2>1. \A f \in Entries : entry'[f].id = entry[f].id /\ entry'[f].released = entry[f].released
    BY <1>1, <1>4 DEF Resize, EntryRecord
  <2> QED
    BY <2>1 DEF Ended, Lasting
<1>5. CASE ReleaseSession(t)
  <2>1. entry[e].id \in Ids
    BY <1>5 DEF ReleaseSession, IInv, Consistent, Identified
  <2>2. entry' = [entry EXCEPT ![e].bytes = 0, ![e].released = TRUE]
    BY <1>5 DEF ReleaseSession
  <2> DEFINE s == [entry[e] EXCEPT !.bytes = 0, !.released = TRUE]
  <2> HIDE DEF e
  <2>3. entry' = [entry EXCEPT ![e] = s]
    BY <1>1, <2>2 DEF EntryRecord
  <2>4. s.id = entry[e].id /\ s.released
    BY <1>1 DEF EntryRecord
  <2> HIDE DEF s
  <2>5. \A f \in Entries : /\ entry'[f].id = entry[f].id
                           /\ f # e => entry'[f].released = entry[f].released
                           /\ entry'[e].released
    BY <1>1, <2>3, <2>4
  <2> QED
    BY <2>1, <2>5, ConstantsAssumption DEF Ended, Lasting, e
<1> QED
  BY <1>2, <1>3, <1>4, <1>5

(* Every step keeps tombstones. *)
LEMMA NextEnds == IInv /\ Ended(entry) /\ [Next]_vars => Ended(entry') /\ Lasting(entry, entry')
<1> SUFFICES ASSUME IInv, Ended(entry), [Next]_vars PROVE Ended(entry') /\ Lasting(entry, entry')
  OBVIOUS
<1>1. entry \in [Entries -> EntryRecord] /\ ClockReads \subseteq BOOLEAN
  BY ConstantsAssumption DEF IInv, Consistent, Typed
<1>2. ASSUME NEW t \in Threads, NEW i \in Ids, NEW a \in Accesses,
             \/ \E clock \in ClockReads : AcquireKnown(t, i, a, clock)
             \/ \E clock \in ClockReads : AcquireNew(t, i, a, clock)
             \/ AcquireWaiting(t, i, a)
      PROVE  Ended(entry') /\ Lasting(entry, entry')
  BY <1>1, <1>2, NewEnds, WaitingEnds
<1>3. ASSUME NEW t \in Threads,
             \/ Recheck(t)
             \/ GiveUp(t)
             \/ \E clock \in ClockReads : Release(t, clock)
             \/ \E bytes \in ByteSizes : Resize(t, bytes)
             \/ ReleaseSession(t)
      PROVE  Ended(entry') /\ Lasting(entry, entry')
  BY <1>1, <1>3, RecheckEnds, HolderEnds
<1>4. ASSUME NEW clock \in ClockReads, Expire(clock)
      PROVE  Ended(entry') /\ Lasting(entry, entry')
  BY <1>1, <1>4, SweptEnds DEF Expire
<1>5. ASSUME NEW e \in Entries, Elapse(e)
      PROVE  Ended(entry') /\ Lasting(entry, entry')
  <2>1. \A f \in Entries : entry'[f].id = entry[f].id /\ entry'[f].released = entry[f].released
    BY <1>1, <1>5 DEF Elapse, EntryRecord
  <2> QED
    BY <2>1 DEF Ended, Lasting
<1>6. ASSUME Destroy
      PROVE  Ended(entry') /\ Lasting(entry, entry')
  <2>1. \A e \in Entries : ~entry'[e].released /\ entry'[e].id = NoId
    BY <1>6 DEF Destroy, EmptyEntry
  <2> QED
    BY <2>1 DEF Ended, Lasting
<1>7. ASSUME UNCHANGED entry
      PROVE  Ended(entry') /\ Lasting(entry, entry')
  BY <1>7 DEF Ended, Lasting
<1>8. ASSUME \/ \E t \in Threads : SpuriousWake(t)
             \/ \E new \in Limits : Configure(new)
             \/ UNCHANGED vars
      PROVE  UNCHANGED entry
  BY <1>8 DEF SpuriousWake, Configure, vars
<1> QED
  BY <1>2, <1>3, <1>4, <1>5, <1>6, <1>7, <1>8 DEF Next

(* A released or expired session is not started again while the store still
   remembers its client (client_store.h:76), whoever asks and however the
   requests interleave with evictions and sweeps. *)
THEOREM TombstonesStay == Spec => TombstoneStays
<1>1. Init => Ended(entry)
  BY DEF Init, Ended, EmptyEntry
<1>2. IInv /\ Ended(entry) /\ [Next]_vars => Ended(entry)'
  BY NextEnds
<1>3. IInv /\ Ended(entry) /\ [Next]_vars =>
        [\A e \in Entries :
           entry[e].released /\ entry'[e].id = entry[e].id => entry'[e].released]_vars
  BY NextEnds DEF Lasting
<1> QED
  BY <1>1, <1>2, <1>3, Invariance, PTL DEF Spec, TombstoneStays

-----------------------------------------------------------------------------
(* Turns. *)

InTurn ==
  \A w, t \in Threads :
    LET e == call[w].entry
        q == entry[e].queue
    IN /\ call[w].pc = "queued"
       /\ call'[w].pc = "queued"
       /\ call[w].access # "READ"
       /\ call[t].pc # "leased"
       /\ call'[t].pc = "leased"
       /\ call'[t].entry = e
       => \E j, k \in 1 .. Len(q) : j < k /\ q[j] = t /\ q[k] = w

(* Who is ready waits ahead of every writer. *)
LEMMA ReadyAhead ==
  ASSUME NEW q \in Seq(Threads), Distinct(q), NEW t \in Threads, NEW w \in Members(q), NEW a,
         w # t, call[w].access # "READ"
  PROVE  /\ QueueReady(q, t, a) => \E j, k \in 1 .. Len(q) : j < k /\ q[j] = t /\ q[k] = w
         /\ t \notin Members(q) => ~QueueReady(Append(q, t), t, a)
<1>1. PICK k \in 1 .. Len(q) : q[k] = w
  BY DEF Members
<1>2. ASSUME QueueReady(q, t, a)
      PROVE  \E j \in 1 .. Len(q) : j < k /\ q[j] = t
  <2>1. q # <<>>
    OBVIOUS
  <2>2. PICK m \in 1 .. Len(q) : q[m] = t
    BY <1>2, <2>1 DEF QueueReady
  <2>3. ~ \A j \in 1 .. k : q[j] # t
    BY <1>1, <1>2, <2>2 DEF QueueReady
  <2> QED
    BY <1>1, <2>3
<1>3. ASSUME t \notin Members(q), QueueReady(Append(q, t), t, a)
      PROVE  FALSE
  <2> DEFINE p == Append(q, t)
  <2>1. Len(q) \in Nat /\ Len(p) = Len(q) + 1 /\ p[Len(q) + 1] = t
          /\ \A j \in 1 .. Len(q) : p[j] = q[j]
    OBVIOUS
  <2> HIDE DEF p
  <2>2. \A j \in 1 .. k : p[j] # t
    BY <1>3, <2>1 DEF Members
  <2>3. k \in 1 .. Len(p) /\ p[k] = w /\ \E m \in 1 .. Len(p) : p[m] = t
    BY <1>1, <2>1
  <2>4. QueueReady(p, t, a)
    BY <1>3 DEF p
  <2> QED
    BY <2>2, <2>3, <2>4 DEF QueueReady
<1> QED
  BY <1>1, <1>2, <1>3

(* A grant to a call never passes a queued writer. *)
LEMMA GrantsInTurn ==
  ASSUME IInv, NEW w \in Threads, NEW t \in Threads,
         call[w].pc = "queued", call'[w].pc = "queued", call[w].access # "READ",
         call[t].pc # "leased", call'[t].pc = "leased", call'[t].entry = call[w].entry,
         NEW u \in Threads,
         \/ \E i \in Ids, a \in Accesses :
              \/ \E clock \in ClockReads : AcquireKnown(u, i, a, clock) \/ AcquireNew(u, i, a, clock)
              \/ AcquireWaiting(u, i, a)
         \/ Recheck(u)
  PROVE  \E j, k \in 1 .. Len(entry[call[w].entry].queue) :
           j < k /\ entry[call[w].entry].queue[j] = t /\ entry[call[w].entry].queue[k] = w
<1> DEFINE e == call[w].entry
           q == entry[e].queue
<1>1. \A clock \in BOOLEAN : e \in Entries /\ Sweep(clock)[e] = entry[e] /\ w \in Members(q)
  BY QueuedIsPinned
<1>2. w # t
  OBVIOUS
<1>3. /\ call \in [Threads -> CallRecord] /\ entry \in [Entries -> EntryRecord]
      /\ q \in Seq(Threads) /\ Distinct(q)
  BY <1>1 DEF IInv, Consistent, Typed, Lined, EntryRecord
<1>4. \A a : /\ QueueReady(q, t, a) => \E j, k \in 1 .. Len(q) : j < k /\ q[j] = t /\ q[k] = w
             /\ t \notin Members(q) => ~QueueReady(Append(q, t), t, a)
  BY <1>1, <1>2, <1>3, ReadyAhead, ZenonT(60)
<1>5. /\ call' # call
      /\ \A r : r.pc # "leased" => call' # [call EXCEPT ![u] = r]
  BY <1>3
<1>6. ASSUME NEW i \in Ids, NEW a \in Accesses, NEW clock \in ClockReads,
             AcquireKnown(u, i, a, clock)
      PROVE  QueueReady(q, t, a)
  <2>1. PICK f \in Entries : ~Conflict(Sweep(clock)[f], u, a) /\ call' = Leased(u, i, a, f)
    BY <1>6 DEF AcquireKnown, Located
  <2>2. u = t /\ f = e
    BY <1>3, <2>1 DEF Leased
  <2> QED
    BY <1>1, <2>1, <2>2, ConstantsAssumption DEF Conflict
<1>7. ASSUME NEW i \in Ids, NEW a \in Accesses, NEW clock \in ClockReads,
             AcquireNew(u, i, a, clock)
      PROVE  FALSE
  <2>1. PICK s \in Victims(Sweep(clock), PoolOf(a)) : call' = Leased(u, i, a, <<PoolOf(a), s>>)
    BY <1>7 DEF AcquireNew
  <2>2. ~Pinned(Sweep(clock)[<<PoolOf(a), s>>])
    BY DEF Victims
  <2>3. <<PoolOf(a), s>> = e
    BY <1>3, <2>1 DEF Leased
  <2> QED
    BY <1>1, <2>2, <2>3, ConstantsAssumption DEF Pinned, Members
<1>8. ASSUME NEW i \in Ids, NEW a \in Accesses, AcquireWaiting(u, i, a)
      PROVE  FALSE
  <2> DEFINE E == Sweep(TRUE)
  <2>1. PICK f \in Entries :
          \/ call' = [call EXCEPT ![u] =
               [pc |-> "queued", id |-> i, access |-> a, entry |-> f]]
          \/ ~Conflict([E EXCEPT ![f].queue = Append(@, u)][f], u, a) /\ call' = Leased(u, i, a, f)
          \/ UNCHANGED call
    BY <1>8 DEF AcquireWaiting, Located
  <2> HIDE DEF E
  <2>2. /\ ~Conflict([E EXCEPT ![f].queue = Append(@, u)][f], u, a)
        /\ call' = Leased(u, i, a, f)
    BY <1>5, <2>1
  <2>3. u = t /\ f = e
    BY <1>3, <2>2 DEF Leased
  <2>4. E \in [Entries -> EntryRecord]
    BY SweepConsistent DEF E, IInv, Consistent, Typed
  <2>5. [E EXCEPT ![f].queue = Append(@, u)][f].queue = Append(q, t)
    BY <1>1, <2>3, <2>4 DEF E, EntryRecord
  <2>6. t \notin Members(q)
    BY <1>1, <1>3, <1>8, <2>3, MembersQueued DEF AcquireWaiting, Members
  <2> QED
    BY <1>4, <2>2, <2>3, <2>5, <2>6 DEF Conflict
<1>9. ASSUME Recheck(u)
      PROVE  QueueReady(q, t, call[t].access)
  <2>1. PICK f \in Entries :
          \/ UNCHANGED call
          \/ ~Conflict(Sweep(TRUE)[f], u, call[u].access)
               /\ call' = Leased(u, call[u].id, call[u].access, f)
          \/ call' = [call EXCEPT ![u] = NoCall]
    BY <1>9 DEF Recheck, Located
  <2>2. /\ ~Conflict(Sweep(TRUE)[f], u, call[u].access)
        /\ call' = Leased(u, call[u].id, call[u].access, f)
    BY <1>5, <2>1 DEF NoCall
  <2>3. u = t /\ f = e
    BY <1>3, <2>2 DEF Leased
  <2> QED
    BY <1>1, <2>2, <2>3 DEF Conflict
<1> HIDE DEF q, e
<1> QED
  BY <1>4, <1>6, <1>7, <1>8, <1>9 DEF q, e

(* Every step grants in turn. *)
LEMMA NextInTurn == IInv /\ [Next]_vars => InTurn
<1> SUFFICES ASSUME IInv, [Next]_vars,
                    NEW w \in Threads, NEW t \in Threads,
                    call[w].pc = "queued", call'[w].pc = "queued", call[w].access # "READ",
                    call[t].pc # "leased", call'[t].pc = "leased", call'[t].entry = call[w].entry
             PROVE  \E j, k \in 1 .. Len(entry[call[w].entry].queue) :
                      j < k /\ entry[call[w].entry].queue[j] = t
                            /\ entry[call[w].entry].queue[k] = w
  BY DEF InTurn
<1>1. call \in [Threads -> CallRecord]
  BY DEF IInv, Consistent, Typed
<1>2. ~UNCHANGED call
  OBVIOUS
<1>3. ASSUME NEW u \in Threads PROVE call' # [call EXCEPT ![u] = NoCall]
  BY <1>1 DEF NoCall
<1>4. PICK u \in Threads :
         \/ \E i \in Ids, a \in Accesses :
              \/ \E clock \in ClockReads : AcquireKnown(u, i, a, clock) \/ AcquireNew(u, i, a, clock)
              \/ AcquireWaiting(u, i, a)
         \/ Recheck(u)
  BY <1>2, <1>3 DEF Next, vars, GiveUp, SpuriousWake, Release, Resize, ReleaseSession,
       Expire, Elapse, Configure, Destroy
<1> QED
  BY <1>4, GrantsInTurn

(* No call is served past a waiting writer (client_store.h:115), however many
   readers arrive while it waits. *)
THEOREM WritersAreNotOvertaken == Spec => WriterNotOvertaken
<1>1. IInv /\ [Next]_vars =>
        [\A w, t \in Threads :
           LET e == call[w].entry
               q == entry[e].queue
           IN /\ call[w].pc = "queued"
              /\ call'[w].pc = "queued"
              /\ call[w].access # "READ"
              /\ call[t].pc # "leased"
              /\ call'[t].pc = "leased"
              /\ call'[t].entry = e
              => \E j, k \in 1 .. Len(q) : j < k /\ q[j] = t /\ q[k] = w]_vars
  BY NextInTurn DEF InTurn
<1> QED
  BY <1>1, Invariance, PTL DEF Spec, WriterNotOvertaken

-----------------------------------------------------------------------------
(* The quota.  Whole is what all entries retain, Owned what those of one
   client do; Quota says of them what WithinQuota says of the store. *)

Bytes(E) == [e \in Entries |-> E[e].bytes]
Share(E, i) == [e \in Entries |-> IF E[e].id = i THEN E[e].bytes ELSE 0]
Whole(E) == SumFunctionOnSet(Bytes(E), Entries)
Owned(E, i) == SumFunctionOnSet(Share(E, i), Entries)

Quota(E, kept, lim) ==
  /\ kept = Whole(E)
  /\ kept <= lim.total
  /\ \A e \in Entries : E[e].released => E[e].bytes = 0
  /\ \A i \in Ids : Owned(E, i) <= lim.client

(* The entries of Z lose their bytes, and only they change hands. *)
Shrunk(E, F, Z) ==
  \A e \in Entries :
    /\ F[e].bytes = IF e \in Z THEN 0 ELSE E[e].bytes
    /\ e \notin Z => F[e].id = E[e].id /\ (F[e].released => E[e].released)

(* There are finitely many entries. *)
LEMMA EntriesFinite == IsFiniteSet(Entries)
<1>1. IsFiniteSet(Pools)
  <2>1. IsFiniteSet({"session"})
    BY FS_Singleton
  <2>2. IsFiniteSet({"session"} \cup {"cache"})
    BY <2>1, FS_AddElement
  <2> QED
    BY <2>2 DEF Pools
<1>2. IsFiniteSet(Slots)
  <2>1. 0 \in Int /\ Capacity - 1 \in Int
    BY ConstantsAssumption
  <2> QED
    BY <2>1, FS_Interval DEF Slots
<1> QED
  BY <1>1, <1>2, FS_Product DEF Entries

(* What a set of entries retains, as a sum. *)
LEMMA BytesInIsSum ==
  ASSUME NEW S, S \subseteq Entries
  PROVE  BytesIn(S) = SumFunctionOnSet(Bytes(entry), S)
<1> DEFINE f == [e \in S |-> entry[e].bytes]
           B(h) == [t \in SUBSET S |->
                      IF t = {} THEN 0 ELSE entry[Any(t)].bytes + h[t \ {Any(t)}]]
<1>1. BytesIn(S) = (CHOOSE h : h = B(h))[S]
  BY Zenon DEF BytesIn, MapThenSumSet, MapThenFoldSet, Any
<1>2. ASSUME NEW h PROVE h = B(h) <=> Adds(h, f, S)
  <2>1. \A t \in SUBSET S : t # {} => f[Any(t)] = entry[Any(t)].bytes
    <3>1. \A t \in SUBSET S : t # {} => Any(t) \in S
      BY AnyMember
    <3> QED
      BY <3>1
  <2>2. B(h) = [t \in SUBSET S |-> IF t = {} THEN 0 ELSE f[Any(t)] + h[t \ {Any(t)}]]
    <3> HIDE DEF f
    <3> QED
      BY <2>1
  <2> HIDE DEF f, B
  <2> QED
    BY <2>2 DEF Adds
<1>3. (CHOOSE h : h = B(h)) = (CHOOSE h : Adds(h, f, S))
  <2> HIDE DEF f, B
  <2> QED
    BY <1>2, Zenon
<1>4. BytesIn(S) = SumFunctionOnSet(f, S)
  BY <1>1, <1>3, SumUnfolded
<1>5. SumFunctionOnSet(f, S) = SumFunctionOnSet(Bytes(entry), S)
  <2>1. IsFiniteSet(S)
    BY EntriesFinite, FS_Subset
  <2>2. \A x \in S : f[x] = Bytes(entry)[x]
    BY DEF Bytes
  <2> HIDE DEF f
  <2> QED
    BY <2>1, <2>2, SumSame
<1> QED
  BY <1>4, <1>5

(* Entries retain natural numbers of bytes. *)
LEMMA BytesTyped ==
  ASSUME NEW E \in [Entries -> EntryRecord]
  PROVE  /\ \A e \in Entries : Bytes(E)[e] = E[e].bytes /\ Bytes(E)[e] \in Nat
         /\ Whole(E) \in Nat
         /\ \A S \in SUBSET Entries : SumFunctionOnSet(Bytes(E), S) \in Nat
<1>1. \A e \in Entries : Bytes(E)[e] = E[e].bytes /\ Bytes(E)[e] \in Nat
  BY DEF Bytes, EntryRecord
<1>2. ASSUME NEW S \in SUBSET Entries PROVE SumFunctionOnSet(Bytes(E), S) \in Nat
  <2>1. IsFiniteSet(S)
    BY EntriesFinite, FS_Subset
  <2> QED
    BY <1>1, <2>1, SumNat
<1> QED
  BY <1>1, <1>2 DEF Whole

(* So does each client. *)
LEMMA ShareTyped ==
  ASSUME NEW E \in [Entries -> EntryRecord], NEW i
  PROVE  /\ \A e \in Entries :
              /\ Share(E, i)[e] = IF E[e].id = i THEN E[e].bytes ELSE 0
              /\ Share(E, i)[e] \in Nat
         /\ Owned(E, i) \in Nat
<1>1. \A e \in Entries :
        /\ Share(E, i)[e] = IF E[e].id = i THEN E[e].bytes ELSE 0
        /\ Share(E, i)[e] \in Nat
  BY DEF Share, EntryRecord
<1>2. Owned(E, i) \in Nat
  BY <1>1, EntriesFinite, SumNat DEF Owned
<1> QED
  BY <1>1, <1>2

(* What a client owns is what its entries retain. *)
LEMMA OwnedIsSum ==
  ASSUME NEW E \in [Entries -> EntryRecord], NEW i, NEW S,
         S = {e \in Entries : E[e].id = i}
  PROVE  Owned(E, i) = SumFunctionOnSet(Bytes(E), S)
<1>1. S \subseteq Entries
  OBVIOUS
<1>2. \A e \in Entries : Share(E, i)[e] = IF e \in S THEN Bytes(E)[e] ELSE 0
  BY BytesTyped, ShareTyped
<1>3. \A e \in Entries : Bytes(E)[e] \in Int
  BY BytesTyped
<1> QED
  BY <1>1, <1>2, <1>3, EntriesFinite, SumMasked DEF Owned

(* Taking bytes away keeps within the quota, if retained_bytes follows. *)
LEMMA ShrunkQuota ==
  ASSUME NEW E \in [Entries -> EntryRecord], NEW F \in [Entries -> EntryRecord],
         NEW Z, Z \subseteq Entries, NEW kept, NEW lim \in LimitRecord,
         Quota(E, kept, lim), Shrunk(E, F, Z)
  PROVE  Quota(F, kept - SumFunctionOnSet(Bytes(E), Z), lim)
<1> DEFINE R == Entries \ Z
<1>1. /\ \A e \in Entries : Bytes(E)[e] = E[e].bytes /\ Bytes(E)[e] \in Int
      /\ \A e \in Entries : Bytes(F)[e] = F[e].bytes /\ Bytes(F)[e] \in Int
  BY BytesTyped
<1>2. Whole(F) = SumFunctionOnSet(Bytes(E), R)
  <2>1. \A e \in Entries : Bytes(F)[e] = IF e \in R THEN Bytes(E)[e] ELSE 0
    BY <1>1 DEF Shrunk
  <2>2. R \subseteq Entries
    OBVIOUS
  <2> HIDE DEF R
  <2> QED
    BY <1>1, <2>1, <2>2, EntriesFinite, SumMasked DEF Whole
<1>3. Whole(E) = SumFunctionOnSet(Bytes(E), Z) + SumFunctionOnSet(Bytes(E), R)
  BY <1>1, EntriesFinite, SumSplit DEF Whole
<1>4. /\ SumFunctionOnSet(Bytes(E), Z) \in Nat /\ Whole(F) \in Nat /\ Whole(E) \in Nat
      /\ lim.total \in Nat /\ lim.client \in Nat
  BY BytesTyped DEF LimitRecord
<1>5. ASSUME NEW i \in Ids PROVE Owned(F, i) <= lim.client
  <2>1. \A e \in Entries : /\ Share(F, i)[e] \in Nat /\ Share(E, i)[e] \in Nat
                           /\ Share(F, i)[e] <= Share(E, i)[e]
    <3>1. ASSUME NEW e \in Entries
          PROVE  /\ Share(F, i)[e] = IF F[e].id = i THEN F[e].bytes ELSE 0
                 /\ Share(E, i)[e] = IF E[e].id = i THEN E[e].bytes ELSE 0
                 /\ Share(F, i)[e] \in Nat /\ Share(E, i)[e] \in Nat
                 /\ F[e].bytes \in Nat /\ E[e].bytes \in Nat
      BY ShareTyped, BytesTyped
    <3>2. ASSUME NEW e \in Entries PROVE Share(F, i)[e] <= Share(E, i)[e]
      <4>1. CASE e \in Z
        BY <3>1, <4>1 DEF Shrunk
      <4>2. CASE e \notin Z
        BY <3>1, <4>2 DEF Shrunk
      <4> QED
        BY <4>1, <4>2
    <3> QED
      BY <3>1, <3>2
  <2>2. Owned(F, i) <= Owned(E, i)
    BY <2>1, EntriesFinite, SumAtMost DEF Owned
  <2>3. Owned(E, i) <= lim.client /\ Owned(E, i) \in Nat /\ Owned(F, i) \in Nat
    BY ShareTyped DEF Quota
  <2> QED
    BY <1>4, <2>2, <2>3
<1>6. \A e \in Entries : F[e].released => F[e].bytes = 0
  BY DEF Shrunk, Quota
<1>7. kept - SumFunctionOnSet(Bytes(E), Z) = Whole(F)
  BY <1>2, <1>3, <1>4 DEF Quota
<1>8. kept - SumFunctionOnSet(Bytes(E), Z) <= lim.total
  BY <1>4 DEF Quota
<1> QED
  BY <1>5, <1>6, <1>7, <1>8 DEF Quota

(* A step that only takes bytes away and counts them. *)
Frees(Z) ==
  /\ Z \subseteq Entries
  /\ Shrunk(entry, entry', Z)
  /\ retained' = retained - BytesIn(Z)
  /\ limits' = limits

(* It keeps within the quota. *)
LEMMA FreesQuota ==
  ASSUME IInv, IInv', Quota(entry, retained, limits), NEW Z, Frees(Z)
  PROVE  Quota(entry', retained', limits')
<1>1. /\ entry \in [Entries -> EntryRecord] /\ entry' \in [Entries -> EntryRecord]
      /\ limits \in LimitRecord
  BY DEF IInv, Consistent, Typed
<1>2. retained' = retained - SumFunctionOnSet(Bytes(entry), Z) /\ limits' = limits
  BY BytesInIsSum DEF Frees
<1>3. Quota(entry', retained - SumFunctionOnSet(Bytes(entry), Z), limits)
  BY <1>1, ShrunkQuota DEF Frees
<1> QED
  BY <1>2, <1>3

(* Nothing is counted for no entry. *)
LEMMA BytesInNone == BytesIn({}) = 0
<1>1. BytesIn({}) = SumFunctionOnSet(Bytes(entry), {})
  BY BytesInIsSum
<1> QED
  BY <1>1, SumEmpty

(* A step that leaves bytes, ids and tombstones alone. *)
LEMMA KeepsQuota ==
  ASSUME IInv, IInv', Quota(entry, retained, limits),
         retained' = retained, limits' = limits,
         \A e \in Entries : /\ entry'[e].bytes = entry[e].bytes
                            /\ entry'[e].id = entry[e].id
                            /\ entry'[e].released => entry[e].released
  PROVE  Quota(entry', retained', limits')
<1>1. Shrunk(entry, entry', {})
  BY DEF Shrunk
<1>2. retained \in Nat
  BY BytesTyped DEF Quota, IInv, Consistent, Typed
<1>3. Frees({})
  BY <1>1, <1>2, BytesInNone DEF Frees
<1> QED
  BY <1>3, FreesQuota

(* What expires loses its bytes. *)
LEMMA SweepShrinks ==
  ASSUME IInv, NEW clock \in BOOLEAN
  PROVE  /\ Swept(clock) \subseteq Entries
         /\ Sweep(clock) \in [Entries -> EntryRecord]
         /\ Shrunk(entry, Sweep(clock), Swept(clock))
<1>1. entry \in [Entries -> EntryRecord] /\ Sweep(clock) \in [Entries -> EntryRecord]
  BY SweepConsistent DEF IInv, Consistent, Typed
<1>2. Swept(clock) \subseteq Entries
  BY DEF Swept
<1>3. \A e \in Swept(clock) : Sweep(clock)[e].bytes = 0
  BY <1>1, <1>2 DEF Sweep, Expired, EntryRecord
<1>4. \A e \in Entries : e \notin Swept(clock) => Sweep(clock)[e] = entry[e]
  BY DEF Sweep
<1> QED
  BY <1>1, <1>2, <1>3, <1>4 DEF Shrunk

(* After the sweep, a step that leaves bytes, ids and tombstones alone. *)
LEMMA SweptQuota ==
  ASSUME IInv, IInv', Quota(entry, retained, limits), NEW clock \in BOOLEAN,
         \A e \in Entries : /\ entry'[e].bytes = Sweep(clock)[e].bytes
                            /\ entry'[e].id = Sweep(clock)[e].id
                            /\ entry'[e].released = Sweep(clock)[e].released,
         retained' = retained - BytesIn(Swept(clock)),
         limits' = limits
  PROVE  Quota(entry', retained', limits')
<1>1. Swept(clock) \subseteq Entries /\ Shrunk(entry, Sweep(clock), Swept(clock))
  BY SweepShrinks
<1>2. Shrunk(entry, entry', Swept(clock))
  BY <1>1 DEF Shrunk
<1>3. Frees(Swept(clock))
  BY <1>1, <1>2 DEF Frees
<1> QED
  BY <1>3, FreesQuota

(* The new client of an entry starts with nothing. *)
LEMMA NewQuota ==
  ASSUME IInv, IInv', Quota(entry, retained, limits),
         NEW t \in Threads, NEW i \in Ids, NEW a \in Accesses,
         NEW clock \in BOOLEAN, AcquireNew(t, i, a, clock)
  PROVE  Quota(entry', retained', limits')
<1> DEFINE E == Sweep(clock)
           p == PoolOf(a)
           W == Swept(clock)
<1>1. PICK s \in Victims(E, p) :
        /\ entry' = Taken(Claimed(E, <<p, s>>, i, clock), <<p, s>>, a)
        /\ retained' = retained - BytesIn(W \cup {<<p, s>>})
  BY DEF AcquireNew
<1> DEFINE f == <<p, s>>
           F == Claimed(E, f, i, clock)
<1>2. f \in Entries /\ ~Pinned(E[f])
  BY DEF Victims, PoolOf, Pools, Entries
<1>3. Consistent(E, call)
  BY SweepConsistent DEF IInv
<1>4. W \subseteq Entries /\ E \in [Entries -> EntryRecord] /\ Shrunk(entry, E, W)
  BY SweepShrinks
<1> HIDE DEF E, f, p, W
<1>5. F \in [Entries -> EntryRecord]
  BY <1>2, <1>3, ClaimedConsistent DEF Consistent, Typed
<1>6. F[f].bytes = 0 /\ \A e \in Entries : e # f => F[e] = E[e]
  <2>1. F[f] = [EmptyEntry EXCEPT !.id = i, !.lastUsed = IF clock THEN "recent" ELSE "never"]
    BY <1>2, <1>4 DEF Claimed
  <2>2. \A e \in Entries : e # f => F[e] = E[e]
    BY <1>2, <1>4 DEF Claimed
  <2> QED
    BY <2>1, <2>2 DEF EmptyEntry
<1> HIDE DEF F
<1>7. entry' = Taken(F, f, a)
  BY <1>1 DEF F, f
<1>8. \A e \in Entries : /\ entry'[e].id = F[e].id /\ entry'[e].released = F[e].released
                         /\ entry'[e].bytes = F[e].bytes
  BY <1>2, <1>5, <1>7, TakenEntry
<1>9. Shrunk(entry, entry', W \cup {f})
  BY <1>2, <1>4, <1>6, <1>8 DEF Shrunk
<1>10. Frees(W \cup {f})
  <2>1. retained' = retained - BytesIn(W \cup {f})
    BY <1>1 DEF f
  <2>2. limits' = limits
    BY DEF AcquireNew
  <2> QED
    BY <1>2, <1>4, <1>9, <2>1, <2>2 DEF Frees
<1> QED
  BY <1>10, FreesQuota

(* A lease of a known entry, or a place in its queue. *)
LEMMA KnownQuota ==
  ASSUME IInv, IInv', Quota(entry, retained, limits),
         NEW t \in Threads, NEW i \in Ids, NEW a \in Accesses, NEW clock \in BOOLEAN,
         AcquireKnown(t, i, a, clock) \/ (AcquireWaiting(t, i, a) /\ clock = TRUE)
  PROVE  Quota(entry', retained', limits')
<1> DEFINE E == Sweep(clock)
<1>1. PICK f \in Entries :
        \/ entry' = [E EXCEPT ![f].queue = Append(@, t)]
        \/ entry' = Taken(E, f, a)
        \/ entry' = E
  BY DEF AcquireWaiting, AcquireKnown, Located
<1>2. E \in [Entries -> EntryRecord]
  BY SweepShrinks
<1>3. \A e \in Entries : /\ entry'[e].id = E[e].id /\ entry'[e].released = E[e].released
                         /\ entry'[e].bytes = E[e].bytes
  <2> HIDE DEF E
  <2>1. CASE entry' = [E EXCEPT ![f].queue = Append(@, t)]
    BY <1>2, <2>1 DEF EntryRecord
  <2>2. CASE entry' = Taken(E, f, a)
    BY <1>2, <2>2, TakenEntry
  <2> QED
    BY <1>1, <2>1, <2>2
<1>4. retained' = retained - BytesIn(Swept(clock)) /\ limits' = limits
  BY DEF AcquireWaiting, AcquireKnown
<1> QED
  BY <1>3, <1>4, SweptQuota

(* A woken call that looks again. *)
LEMMA RecheckQuota ==
  ASSUME IInv, IInv', Quota(entry, retained, limits), NEW t \in Threads, Recheck(t)
  PROVE  Quota(entry', retained', limits')
<1> DEFINE E == Sweep(TRUE)
           a == call[t].access
<1>1. PICK f \in Entries :
        \/ entry' = E
        \/ entry' = Taken(Dequeued(E, f, t), f, a) /\ f = call[t].entry
        \/ entry' = Dequeued(E, f, t)
  <2>1. PICK f \in Located(E, a, call[t].id) :
          \/ entry' = E
          \/ entry' = Taken(Dequeued(E, f, t), f, a)
          \/ entry' = Dequeued(E, f, t)
    BY DEF Recheck
  <2>2. f \in Entries
    BY DEF Located
  <2>3. f = call[t].entry
    BY HomeOfQueued, <2>2 DEF Recheck
  <2> QED
    BY <2>1, <2>2, <2>3
<1>2. Consistent(E, call) /\ E \in [Entries -> EntryRecord]
  BY SweepConsistent DEF IInv, Consistent, Typed
<1>3. \A e \in Entries : /\ entry'[e].id = E[e].id /\ entry'[e].released = E[e].released
                         /\ entry'[e].bytes = E[e].bytes
  <2> HIDE DEF E, a
  <2>1. CASE entry' = Dequeued(E, f, t)
    BY <1>2, <2>1, DequeuedIds
  <2>2. CASE entry' = Taken(Dequeued(E, f, t), f, a) /\ f = call[t].entry
    <3> DEFINE F == Dequeued(E, f, t)
    <3>1. F \in [Entries -> EntryRecord]
      BY <1>2, <2>2, DequeuedConsistent DEF Recheck, Consistent, Typed
    <3>2. \A e \in Entries : /\ F[e].id = E[e].id /\ F[e].released = E[e].released
                             /\ F[e].bytes = E[e].bytes
      BY <1>2, DequeuedIds
    <3> HIDE DEF F
    <3>3. \A e \in Entries : /\ entry'[e].id = F[e].id /\ entry'[e].released = F[e].released
                             /\ entry'[e].bytes = F[e].bytes
      BY <2>2, <3>1, TakenEntry DEF F
    <3> QED
      BY <3>2, <3>3
  <2> QED
    BY <1>1, <2>1, <2>2
<1>4. retained' = retained - BytesIn(Swept(TRUE)) /\ limits' = limits
  BY DEF Recheck
<1> QED
  BY <1>3, <1>4, SweptQuota

(* What retain_client accepts fits the client and the store. *)
LEMMA ResizeQuota ==
  ASSUME IInv, IInv', Quota(entry, retained, limits),
         NEW t \in Threads, NEW bytes \in ByteSizes, Resize(t, bytes)
  PROVE  Quota(entry', retained', limits')
<1> DEFINE e == call[t].entry
<1>1. entry \in [Entries -> EntryRecord] /\ entry' \in [Entries -> EntryRecord] /\ e \in Entries
      /\ limits \in LimitRecord
  BY DEF IInv, Consistent, Typed, CallRecord
<1>2. entry[e].id \in Ids
  BY DEF Resize, IInv, Consistent, Identified
<1>3. /\ ~entry[e].released /\ Accepts(e, bytes) /\ limits' = limits
      /\ retained' = retained - entry[e].bytes + bytes
      /\ entry' = [entry EXCEPT ![e].bytes = bytes]
  BY DEF Resize
<1> HIDE DEF e
<1>4. /\ entry'[e].bytes = bytes /\ \A f \in Entries : f # e => entry'[f] = entry[f]
      /\ \A f \in Entries : entry'[f].id = entry[f].id /\ entry'[f].released = entry[f].released
  BY <1>1, <1>3 DEF EntryRecord
<1>5. bytes \in Nat /\ limits.client \in Nat /\ limits.total \in Nat
  BY <1>1, ConstantsAssumption DEF LimitRecord
<1>6. /\ \A f \in Entries : Bytes(entry)[f] = entry[f].bytes /\ Bytes(entry)[f] \in Nat
      /\ \A f \in Entries : Bytes(entry')[f] = entry'[f].bytes /\ Bytes(entry')[f] \in Nat
      /\ Whole(entry) \in Nat
  BY <1>1, BytesTyped
<1>7. retained' = Whole(entry')
  <2>1. Whole(entry') = Whole(entry) - Bytes(entry)[e] + Bytes(entry')[e]
    <3>1. \A f \in Entries \ {e} : Bytes(entry')[f] = Bytes(entry)[f]
      BY <1>4, <1>6
    <3> QED
      BY <1>1, <1>6, <3>1, EntriesFinite, SumChanged DEF Whole
  <2> QED
    BY <1>1, <1>3, <1>4, <1>6, <2>1 DEF Quota
<1>8. retained' <= limits.total
  <2>1. retained \in Nat /\ retained <= limits.total /\ entry[e].bytes \in Nat
    BY <1>1, <1>6 DEF Quota
  <2>2. bytes <= entry[e].bytes \/ bytes - entry[e].bytes <= limits.total - retained
    BY <1>3 DEF Accepts
  <2> QED
    BY <1>3, <1>5, <2>1, <2>2
<1>9. ASSUME NEW i \in Ids PROVE Owned(entry', i) <= limits.client
  <2>1. /\ Owned(entry, i) <= limits.client /\ Owned(entry, i) \in Nat
        /\ Owned(entry', i) \in Nat
    BY <1>1, ShareTyped DEF Quota
  <2>2. \A f \in Entries : /\ Share(entry, i)[f] = IF entry[f].id = i THEN entry[f].bytes ELSE 0
                           /\ Share(entry', i)[f] = IF entry'[f].id = i THEN entry'[f].bytes ELSE 0
                           /\ Share(entry, i)[f] \in Nat /\ Share(entry', i)[f] \in Nat
    BY <1>1, ShareTyped
  <2>3. Owned(entry', i) = Owned(entry, i) - Share(entry, i)[e] + Share(entry', i)[e]
    <3>1. \A f \in Entries \ {e} : Share(entry', i)[f] = Share(entry, i)[f]
      BY <1>4, <2>2
    <3> QED
      BY <1>1, <2>2, <3>1, EntriesFinite, SumChanged DEF Owned
  <2>4. CASE entry[e].id # i
    <3>1. Share(entry, i)[e] = 0 /\ Share(entry', i)[e] = 0
      BY <1>1, <1>4, <2>2, <2>4
    <3> QED
      BY <2>1, <2>3, <3>1
  <2>5. CASE entry[e].id = i
    <3>1. Share(entry, i)[e] = entry[e].bytes /\ Share(entry', i)[e] = bytes
          /\ entry[e].bytes \in Nat
      BY <1>1, <1>4, <1>6, <2>2, <2>5
    <3>2. CASE bytes <= entry[e].bytes
      BY <1>5, <2>1, <2>3, <3>1, <3>2
    <3>3. CASE ~(bytes <= entry[e].bytes)
      <4> DEFINE S == {f \in Entries : entry[f].id = i}
      <4>1. SameClient(e) = S \ {e} /\ e \in S /\ S \subseteq Entries
        BY <1>1, <2>5 DEF SameClient
      <4>2. BytesIn(SameClient(e)) = SumFunctionOnSet(Bytes(entry), S \ {e})
        BY <4>1, BytesInIsSum
      <4>3. Owned(entry, i) = SumFunctionOnSet(Bytes(entry), S)
        BY <1>1, OwnedIsSum
      <4>4. IsFiniteSet(S) /\ \A f \in S : Bytes(entry)[f] \in Int
        BY <1>6, <4>1, EntriesFinite, FS_Subset
      <4> HIDE DEF S
      <4>5. SumFunctionOnSet(Bytes(entry), S) =
              Bytes(entry)[e] + SumFunctionOnSet(Bytes(entry), S \ {e})
        BY <4>1, <4>4, SumWithout
      <4>6. PICK o : o = BytesIn(SameClient(e))
        OBVIOUS
      <4>7. o \in Nat
        <5>1. S \ {e} \in SUBSET Entries
          BY <4>1
        <5> QED
          BY <1>1, <4>2, <4>6, <5>1, BytesTyped
      <4>8. Owned(entry, i) = entry[e].bytes + o
        BY <1>1, <1>6, <4>2, <4>3, <4>5, <4>6
      <4>9. bytes <= limits.client - o
        BY <1>3, <3>3, <4>6 DEF Accepts
      <4> QED
        BY <1>5, <2>1, <2>3, <3>1, <4>7, <4>8, <4>9
    <3> QED
      BY <3>2, <3>3
  <2> QED
    BY <2>4, <2>5
<1>10. \A f \in Entries : entry'[f].released => entry'[f].bytes = 0
  BY <1>3, <1>4 DEF Quota
<1> QED
  BY <1>3, <1>7, <1>8, <1>9, <1>10 DEF Quota

(* A released session retains nothing any more. *)
LEMMA ReleaseQuota ==
  ASSUME IInv, IInv', Quota(entry, retained, limits),
         NEW t \in Threads, ReleaseSession(t)
  PROVE  Quota(entry', retained', limits')
<1> DEFINE e == call[t].entry
<1>1. entry \in [Entries -> EntryRecord] /\ e \in Entries
  BY DEF IInv, Consistent, Typed, CallRecord
<1>2. /\ limits' = limits /\ retained' = retained - entry[e].bytes
      /\ entry' = [entry EXCEPT ![e].bytes = 0, ![e].released = TRUE]
  BY DEF ReleaseSession
<1> DEFINE s == [entry[e] EXCEPT !.bytes = 0, !.released = TRUE]
<1> HIDE DEF e
<1>3. entry' = [entry EXCEPT ![e] = s]
  BY <1>1, <1>2 DEF EntryRecord
<1>4. s.bytes = 0
  BY <1>1 DEF EntryRecord
<1> HIDE DEF s
<1>5. Shrunk(entry, entry', {e})
  BY <1>1, <1>3, <1>4 DEF Shrunk
<1>6. BytesIn({e}) = entry[e].bytes
  <2>1. BytesIn({e}) = SumFunctionOnSet(Bytes(entry), {e})
    BY <1>1, BytesInIsSum
  <2>2. Bytes(entry)[e] = entry[e].bytes /\ Bytes(entry)[e] \in Nat
    BY <1>1, BytesTyped
  <2>3. IsFiniteSet({e}) /\ {e} \ {e} = {}
    BY FS_Singleton
  <2>4. SumFunctionOnSet(Bytes(entry), {e}) =
          Bytes(entry)[e] + SumFunctionOnSet(Bytes(entry), {e} \ {e})
    BY <2>2, <2>3, SumWithout
  <2>5. SumFunctionOnSet(Bytes(entry), {e} \ {e}) = 0
    BY <2>3, SumEmpty, Zenon
  <2>6. PICK n : n = SumFunctionOnSet(Bytes(entry), {e})
    OBVIOUS
  <2>7. n = Bytes(entry)[e] + 0
    BY <2>4, <2>5, <2>6
  <2>8. n = Bytes(entry)[e]
    BY <2>2, <2>7
  <2> QED
    BY <2>1, <2>2, <2>6, <2>8
<1>7. Frees({e})
  BY <1>1, <1>2, <1>5, <1>6 DEF Frees
<1> QED
  BY <1>7, FreesQuota

(* Nothing is owned in a store of empty entries. *)
LEMMA EmptyQuota ==
  ASSUME NEW E, E = [e \in Entries |-> EmptyEntry], NEW lim \in LimitRecord
  PROVE  Quota(E, 0, lim)
<1>1. \A e \in Entries : E[e].bytes = 0 /\ ~E[e].released
  BY DEF EmptyEntry
<1>2. \A e \in Entries : Bytes(E)[e] = 0
  BY <1>1 DEF Bytes
<1>3. Whole(E) = 0
  BY <1>2, EntriesFinite, SumZero DEF Whole
<1>4. ASSUME NEW i \in Ids PROVE Owned(E, i) = 0
  <2>1. \A e \in Entries : Share(E, i)[e] = 0
    BY <1>1 DEF Share
  <2> QED
    BY <2>1, EntriesFinite, SumZero DEF Owned
<1>5. lim.total \in Nat /\ lim.client \in Nat
  BY DEF LimitRecord
<1> QED
  BY <1>1, <1>3, <1>4, <1>5 DEF Quota

(* New limits are set for a store without clients only. *)
LEMMA ConfigureQuota ==
  ASSUME IInv, Quota(entry, retained, limits), NEW new \in Limits, Configure(new)
  PROVE  Quota(entry', retained', limits')
<1>1. /\ entry' = entry /\ retained' = 0 /\ retained = 0 /\ limits' = new
      /\ \A e \in Entries : entry[e].id = NoId
  BY DEF Configure
<1>2. new.total \in Nat /\ new.client \in Nat
  BY ConstantsAssumption DEF LimitRecord
<1>3. ASSUME NEW i \in Ids PROVE Owned(entry, i) = 0
  <2>1. \A e \in Entries : Share(entry, i)[e] = 0
    BY <1>1, ConstantsAssumption DEF Share
  <2> QED
    BY <2>1, EntriesFinite, SumZero DEF Owned
<1> QED
  BY <1>1, <1>2, <1>3 DEF Quota

(* Every step keeps within the quota. *)
LEMMA NextQuota ==
  IInv /\ Quota(entry, retained, limits) /\ [Next]_vars => Quota(entry, retained, limits)'
<1> SUFFICES ASSUME IInv, Quota(entry, retained, limits), [Next]_vars
             PROVE  Quota(entry', retained', limits')
  BY DEF Quota, Whole, Owned, Bytes, Share
<1>1. IInv' /\ ClockReads \subseteq BOOLEAN
  BY NextIInv, ConstantsAssumption
<1>2. entry \in [Entries -> EntryRecord]
  BY DEF IInv, Consistent, Typed
<1>3. ASSUME NEW t \in Threads, NEW i \in Ids, NEW a \in Accesses,
             \/ \E clock \in ClockReads : AcquireKnown(t, i, a, clock)
             \/ \E clock \in ClockReads : AcquireNew(t, i, a, clock)
             \/ AcquireWaiting(t, i, a)
      PROVE  Quota(entry', retained', limits')
  BY <1>1, <1>3, KnownQuota, NewQuota
<1>4. ASSUME NEW t \in Threads, Recheck(t) PROVE Quota(entry', retained', limits')
  BY <1>1, <1>4, RecheckQuota
<1>5. ASSUME NEW t \in Threads, GiveUp(t) PROVE Quota(entry', retained', limits')
  <2>1. call[t].entry \in Entries
    BY DEF IInv, Consistent, Typed, CallRecord
  <2> QED
    BY <1>1, <1>2, <1>5, <2>1, DequeuedIds, KeepsQuota DEF GiveUp
<1>6. ASSUME NEW t \in Threads, NEW clock \in ClockReads, Release(t, clock)
      PROVE  Quota(entry', retained', limits')
  <2>1. call[t].entry \in Entries
    BY DEF IInv, Consistent, Typed, CallRecord
  <2> QED
    BY <1>1, <1>2, <1>6, <2>1, FreedRest, KeepsQuota DEF Release
<1>7. ASSUME NEW t \in Threads, NEW bytes \in ByteSizes, Resize(t, bytes)
      PROVE  Quota(entry', retained', limits')
  BY <1>1, <1>7, ResizeQuota
<1>8. ASSUME NEW t \in Threads, ReleaseSession(t) PROVE Quota(entry', retained', limits')
  BY <1>1, <1>8, ReleaseQuota
<1>9. ASSUME NEW clock \in ClockReads, Expire(clock) PROVE Quota(entry', retained', limits')
  BY <1>1, <1>9, SweptQuota DEF Expire
<1>10. ASSUME NEW e \in Entries, Elapse(e) PROVE Quota(entry', retained', limits')
  <2>1. \A f \in Entries : /\ entry'[f].bytes = entry[f].bytes
                           /\ entry'[f].id = entry[f].id
                           /\ entry'[f].released = entry[f].released
    BY <1>2, <1>10 DEF Elapse, EntryRecord
  <2> QED
    BY <1>1, <1>10, <2>1, KeepsQuota DEF Elapse
<1>11. ASSUME NEW new \in Limits, Configure(new) PROVE Quota(entry', retained', limits')
  BY <1>11, ConfigureQuota
<1>12. ASSUME Destroy PROVE Quota(entry', retained', limits')
  BY <1>12, EmptyQuota, ConstantsAssumption DEF Destroy
<1>13. ASSUME UNCHANGED <<entry, retained, limits>> PROVE Quota(entry', retained', limits')
  BY <1>1, <1>13, KeepsQuota
<1>14. ASSUME (\E t \in Threads : SpuriousWake(t)) \/ UNCHANGED vars
       PROVE  UNCHANGED <<entry, retained, limits>>
  BY <1>14 DEF SpuriousWake, vars
<1> QED
  BY <1>3, <1>4, <1>5, <1>6, <1>7, <1>8, <1>9, <1>10, <1>11, <1>12, <1>13, <1>14 DEF Next

(* For any limits, retained_bytes is what the payloads retain, no client
   passes its limit with its session and its cache together, the store never
   passes its total, and tombstones retain nothing (client_store.c:119-124 and
   157-163). *)
THEOREM StaysWithinQuota == Spec => []WithinQuota
<1>1. Init => Quota(entry, retained, limits)
  BY EmptyQuota, ConstantsAssumption DEF Init
<1>2. IInv /\ Quota(entry, retained, limits) => WithinQuota
  <2> SUFFICES ASSUME IInv, Quota(entry, retained, limits) PROVE WithinQuota
    OBVIOUS
  <2>1. entry \in [Entries -> EntryRecord]
    BY DEF IInv, Consistent, Typed
  <2>2. retained = BytesIn(Entries)
    BY BytesInIsSum DEF Quota, Whole
  <2>3. ASSUME NEW e \in Entries, entry[e].id # NoId
        PROVE  BytesIn({e} \cup SameClient(e)) <= limits.client
    <3>1. PICK i \in Ids : i = entry[e].id
      BY <2>1, <2>3 DEF EntryRecord
    <3>2. PICK S : S = {e} \cup SameClient(e)
      OBVIOUS
    <3>3. S = {f \in Entries : entry[f].id = i} /\ S \subseteq Entries
      BY <3>1, <3>2 DEF SameClient
    <3>4. BytesIn(S) = Owned(entry, i)
      BY <2>1, <3>3, BytesInIsSum, OwnedIsSum
    <3> QED
      BY <3>2, <3>4 DEF Quota
  <2> QED
    BY <2>2, <2>3 DEF WithinQuota, Quota
<1> QED
  BY <1>1, <1>2, NextQuota, Invariance, PTL DEF Spec

-----------------------------------------------------------------------------
(* The refinement of ClientLocks, for either pool: Locks(p) is SessionLocks or
   CacheLocks.  What each client sees is stated of any entries E and calls c. *)
Locks(p) == INSTANCE ClientLocks WITH
  payload <- [i \in Ids |-> PayloadOf(p, i)],
  holders <- [i \in Ids |-> HoldersOf(p, i)],
  line <- [i \in Ids |-> LineOf(p, i)]

HomeIn(E, p, i) == {e \in Entries : e[1] = p /\ E[e].id = i}

Pay(E, p, i) ==
  IF HomeIn(E, p, i) = {} THEN "absent"
  ELSE IF \E e \in HomeIn(E, p, i) : E[e].released THEN "retired" ELSE "live"

Asks(c, t) == [thread |-> t, read |-> c[t].access = "READ"]

HoldingIn(c, p, i) ==
  {t \in Threads : c[t].pc = "leased" /\ c[t].id = i /\ c[t].entry[1] = p}
Holds(c, p, i) == {Asks(c, t) : t \in HoldingIn(c, p, i)}

Asked(c, q) == [k \in 1 .. Len(q) |-> Asks(c, q[k])]
InLine(E, c, p, i) ==
  IF HomeIn(E, p, i) = {} THEN <<>>
  ELSE Asked(c, E[CHOOSE e \in HomeIn(E, p, i) : TRUE].queue)

(* What ClientStore maps to ClientLocks, in these terms. *)
LEMMA Viewed ==
  ASSUME NEW p, NEW i
  PROVE  /\ PayloadOf(p, i) = Pay(entry, p, i)
         /\ HoldersOf(p, i) = Holds(call, p, i)
         /\ LineOf(p, i) = InLine(entry, call, p, i)
BY DEF PayloadOf, Home, Pay, HomeIn, HoldersOf, RequestOf, Holds, HoldingIn, Asks,
       LineOf, InLine, Asked

(* The mapping after a step. *)
LEMMA ViewedNext ==
  ASSUME NEW p, NEW i
  PROVE  /\ PayloadOf(p, i)' = Pay(entry', p, i)
         /\ HoldersOf(p, i)' = Holds(call', p, i)
         /\ LineOf(p, i)' = InLine(entry', call', p, i)
BY DEF PayloadOf, Home, Pay, HomeIn, HoldersOf, RequestOf, Holds, HoldingIn, Asks,
       LineOf, InLine, Asked

(* The entry of a client tells what the client sees of its payload ... *)
LEMMA AtHome ==
  ASSUME NEW E, Unique(E), NEW e \in Entries, NEW i \in Ids, E[e].id = i
  PROVE  /\ HomeIn(E, e[1], i) = {e}
         /\ Pay(E, e[1], i) = IF E[e].released THEN "retired" ELSE "live"
<1>1. HomeIn(E, e[1], i) = {e}
  BY ConstantsAssumption DEF HomeIn, Unique
<1> QED
  BY <1>1 DEF Pay

(* ... and of its line. *)
LEMMA LineAtHome ==
  ASSUME NEW E, Unique(E), NEW e \in Entries, NEW i \in Ids, E[e].id = i
  PROVE  \A c : InLine(E, c, e[1], i) = Asked(c, E[e].queue)
<1>1. HomeIn(E, e[1], i) = {e}
  BY AtHome
<1> QED
  BY <1>1 DEF InLine

(* A client without an entry has neither. *)
LEMMA Homeless ==
  ASSUME NEW E, NEW p, NEW i, \A e \in Entries : e[1] = p => E[e].id # i
  PROVE  Pay(E, p, i) = "absent" /\ \A c : InLine(E, c, p, i) = <<>>
BY DEF HomeIn, Pay, InLine

(* A payload is in one of three states. *)
LEMMA PayTyped == ASSUME NEW E, NEW p, NEW i PROVE Pay(E, p, i) \in {"absent", "live", "retired"}
BY DEF Pay

(* Nobody waits in an empty queue. *)
LEMMA AskedNone == ASSUME NEW c PROVE Asked(c, <<>>) = <<>>
BY DEF Asked

(* Who holds a lease of the client holds its entry. *)
LEMMA HoldersAtHome ==
  ASSUME NEW E, NEW c, Consistent(E, c), Unique(E), NEW e \in Entries, NEW i \in Ids, E[e].id = i
  PROVE  HoldingIn(c, e[1], i) = Leasers(c, e)
<1>1. ASSUME NEW t \in Threads, c[t].pc = "leased", c[t].id = i, c[t].entry[1] = e[1]
      PROVE  c[t].entry = e
  <2>1. c[t].entry \in Entries /\ E[c[t].entry].id = i
    BY <1>1 DEF Consistent, Typed, Identified, CallRecord
  <2> QED
    BY <1>1, <2>1, ConstantsAssumption DEF Unique
<1>2. ASSUME NEW t \in Threads, c[t].pc = "leased", c[t].entry = e
      PROVE  c[t].id = i
  BY <1>2 DEF Consistent, Identified
<1> QED
  BY <1>1, <1>2 DEF HoldingIn, Leasers

(* Nobody holds a lease of a client without an entry. *)
LEMMA HoldersHomeless ==
  ASSUME NEW E, NEW c, Consistent(E, c), NEW p, NEW i, \A e \in Entries : e[1] = p => E[e].id # i
  PROVE  Holds(c, p, i) = {}
<1>1. ASSUME NEW t \in HoldingIn(c, p, i) PROVE FALSE
  BY DEF HoldingIn, Consistent, Typed, Identified, CallRecord
<1> QED
  BY <1>1 DEF Holds

(* A client is free exactly if its entry is not pinned. *)
LEMMA FreeIsUnpinned ==
  ASSUME NEW E, NEW c, Consistent(E, c), Unique(E), NEW e \in Entries, NEW i \in Ids, E[e].id = i
  PROVE  Holds(c, e[1], i) = {} /\ InLine(E, c, e[1], i) = <<>> <=> ~Pinned(E[e])
<1>1. HoldingIn(c, e[1], i) = Leasers(c, e) /\ InLine(E, c, e[1], i) = Asked(c, E[e].queue)
  BY LineAtHome, HoldersAtHome
<1>2. E[e].queue \in Seq(Threads) /\ E[e].busy \in BOOLEAN /\ E[e].readers \in Nat
  BY DEF Consistent, Typed, EntryRecord
<1>3. Asked(c, E[e].queue) = <<>> <=> E[e].queue = <<>>
  <2>1. PICK q \in Seq(Threads) : q = E[e].queue
    BY <1>2
  <2>2. ASSUME q # <<>> PROVE Asked(c, q) # <<>>
    <3>1. 1 \in 1 .. Len(q)
      BY <2>2
    <3>2. DOMAIN Asked(c, q) # {}
      BY <3>1 DEF Asked
    <3> QED
      BY <3>2
  <2> QED
    BY <2>1, <2>2, AskedNone
<1>4. Holds(c, e[1], i) = {} <=> Leasers(c, e) = {}
  BY <1>1 DEF Holds
<1>5. E[e].busy <=> \E t \in Leasers(c, e) : c[t].access # "READ"
  BY DEF Consistent, Counted
<1>6. E[e].readers > 0 <=> Readers(c, e) # {}
  <2>1. E[e].readers = Cardinality(Readers(c, e))
    BY DEF Consistent, Counted
  <2>2. Cardinality(Readers(c, e)) = 0 <=> Readers(c, e) = {}
    BY ThreadSetsFinite, FS_EmptySet
  <2> QED
    BY <1>2, <2>1, <2>2
<1>7. Leasers(c, e) # {} <=> E[e].busy \/ E[e].readers > 0
  BY <1>5, <1>6 DEF Readers
<1> QED
  BY <1>1, <1>3, <1>4, <1>7 DEF Pinned

-----------------------------------------------------------------------------
(* What a step does to a client it is not about. *)
Unused(E, c, p, i) == Holds(c, p, i) = {} /\ InLine(E, c, p, i) = <<>>

Fades(E, c, F, p, i) ==
  \/ Pay(F, p, i) = Pay(E, p, i)
  \/ Unused(E, c, p, i) /\ Pay(F, p, i) = "absent"
  \/ Unused(E, c, p, i) /\ Pay(E, p, i) = "live" /\ Pay(F, p, i) = "retired"

SameHolders(c, d, p, i) == Holds(d, p, i) = Holds(c, p, i)
SameLine(E, c, F, d, p, i) == InLine(F, d, p, i) = InLine(E, c, p, i)

Apart(E, c, F, d, p, i) ==
  Fades(E, c, F, p, i) /\ SameHolders(c, d, p, i) /\ SameLine(E, c, F, d, p, i)

(* Whoever t asks for is nowhere else. *)
Uninvolved(E, c, p, t) ==
  \A j \in Ids :
    /\ \A h \in Holds(c, p, j) : h.thread # t
    /\ \A k \in 1 .. Len(InLine(E, c, p, j)) : InLine(E, c, p, j)[k].thread # t

(* A payload that a lease may be granted on. *)
Awarded(E, c, F, p, i, read) ==
  /\ Pay(F, p, i) \in IF read THEN {"live"} ELSE {"live", "retired"}
  /\ \/ Pay(F, p, i) = Pay(E, p, i)
     \/ Unused(E, c, p, i) /\ Pay(E, p, i) = "live"
     \/ Pay(E, p, i) = "absent" /\ Pay(F, p, i) = "live" /\ ~read

(* The mapping turns these into the actions of ClientLocks. *)
LEMMA MappedDecays ==
  ASSUME NEW p, NEW i \in Ids
  PROVE  /\ Fades(entry, call, entry', p, i) => Locks(p)!Decays(i)
         /\ Unused(entry, call, p, i) <=> Locks(p)!Free(i)
BY Viewed, ViewedNext DEF Fades, Unused, Locks!Decays, Locks!Free

(* A step that is about no client is a Decay. *)
LEMMA DecayMapped ==
  ASSUME NEW p, \A j \in Ids : Apart(entry, call, entry', call', p, j)
  PROVE  Locks(p)!Decay
<1>1. \A j \in Ids : Locks(p)!Decays(j)
  BY MappedDecays DEF Apart
<1>2. \A j \in Ids : PayloadOf(p, j)' \in {"absent", "live", "retired"}
  BY ViewedNext, PayTyped
<1>3. [j \in Ids |-> HoldersOf(p, j)]' = [j \in Ids |-> HoldersOf(p, j)]
  BY Viewed, ViewedNext DEF Apart, SameHolders
<1>4. [j \in Ids |-> LineOf(p, j)]' = [j \in Ids |-> LineOf(p, j)]
  BY Viewed, ViewedNext DEF Apart, SameLine
<1> QED
  BY <1>1, <1>2, <1>3, <1>4 DEF Locks!Decay

(* One more lease, and a payload that may be served, is a Serve. *)
LEMMA ServeMapped ==
  ASSUME NEW p, NEW i \in Ids, NEW t \in Threads, NEW read \in BOOLEAN,
         Uninvolved(entry, call, p, t),
         \A h \in Holds(call, p, i) : read /\ h.read,
         InLine(entry, call, p, i) # <<>> =>
           read /\ \A k \in 1 .. Len(InLine(entry, call, p, i)) : InLine(entry, call, p, i)[k].read,
         Awarded(entry, call, entry', p, i, read),
         Holds(call', p, i) = Holds(call, p, i) \cup {[thread |-> t, read |-> read]},
         SameLine(entry, call, entry', call', p, i),
         \A j \in Ids \ {i} : Apart(entry, call, entry', call', p, j)
  PROVE  Locks(p)!Serve(i, t, read)
<1>1. Locks(p)!Idle(t)
  BY Viewed DEF Uninvolved, Locks!Idle
<1>2. Locks(p)!Compatible(i, read)
  BY Viewed DEF Locks!Compatible
<1>3. LineOf(p, i) # <<>> => read /\ Locks(p)!ReadersOnly(LineOf(p, i))
  BY Viewed DEF Locks!ReadersOnly
<1>4. Locks(p)!Granted(i, read)
  BY Viewed, ViewedNext, MappedDecays DEF Awarded, Locks!Granted
<1>5. Locks(p)!OthersDecay(i)
  BY MappedDecays DEF Apart, Locks!OthersDecay
<1>6. [j \in Ids |-> HoldersOf(p, j)]' =
        [[j \in Ids |-> HoldersOf(p, j)] EXCEPT ![i] = @ \cup {[thread |-> t, read |-> read]}]
  <2>1. HoldersOf(p, i)' = HoldersOf(p, i) \cup {[thread |-> t, read |-> read]}
    BY Viewed, ViewedNext
  <2>2. \A j \in Ids \ {i} : HoldersOf(p, j)' = HoldersOf(p, j)
    BY Viewed, ViewedNext DEF Apart, SameHolders
  <2> QED
    BY <2>1, <2>2
<1>7. [j \in Ids |-> LineOf(p, j)]' = [j \in Ids |-> LineOf(p, j)]
  BY Viewed, ViewedNext DEF Apart, SameLine
<1> QED
  BY <1>1, <1>2, <1>3, <1>4, <1>5, <1>6, <1>7 DEF Locks!Serve

(* One more call at the end of a line is a Wait. *)
LEMMA WaitMapped ==
  ASSUME NEW p, NEW i \in Ids, NEW t \in Threads, NEW read \in BOOLEAN,
         Uninvolved(entry, call, p, t),
         ~Unused(entry, call, p, i),
         InLine(entry', call', p, i) = Append(InLine(entry, call, p, i), [thread |-> t, read |-> read]),
         Pay(entry', p, i) = Pay(entry, p, i),
         SameHolders(call, call', p, i),
         \A j \in Ids \ {i} : Apart(entry, call, entry', call', p, j)
  PROVE  Locks(p)!Wait(i, t, read)
<1>1. Locks(p)!Idle(t)
  BY Viewed DEF Uninvolved, Locks!Idle
<1>2. ~Locks(p)!Free(i)
  BY MappedDecays
<1>3. Locks(p)!OthersDecay(i)
  BY MappedDecays DEF Apart, Locks!OthersDecay
<1>4. [j \in Ids |-> HoldersOf(p, j)]' = [j \in Ids |-> HoldersOf(p, j)]
  BY Viewed, ViewedNext DEF Apart, SameHolders
<1>5. [j \in Ids |-> LineOf(p, j)]' =
        [[j \in Ids |-> LineOf(p, j)] EXCEPT ![i] = Append(@, [thread |-> t, read |-> read])]
  <2>1. LineOf(p, i)' = Append(LineOf(p, i), [thread |-> t, read |-> read])
    BY Viewed, ViewedNext
  <2>2. \A j \in Ids \ {i} : LineOf(p, j)' = LineOf(p, j)
    BY Viewed, ViewedNext DEF Apart, SameLine
  <2> QED
    BY <2>1, <2>2
<1>6. PayloadOf(p, i)' = PayloadOf(p, i)
  BY Viewed, ViewedNext
<1> QED
  BY <1>1, <1>2, <1>3, <1>4, <1>5, <1>6 DEF Locks!Wait

(* A line without its place k. *)
RemovedAt(s, k) == SubSeq(s, 1, k - 1) \o SubSeq(s, k + 1, Len(s))

(* One call less in a line is a Leave. *)
LEMMA LeaveMapped ==
  ASSUME NEW p, NEW i \in Ids, NEW k,
         InLine(entry', call', p, i) = RemovedAt(InLine(entry, call, p, i), k),
         Pay(entry', p, i) = Pay(entry, p, i),
         SameHolders(call, call', p, i),
         \A j \in Ids \ {i} : Apart(entry, call, entry', call', p, j)
  PROVE  Locks(p)!Leave(i, k)
<1>1. Locks(p)!OthersDecay(i)
  BY MappedDecays DEF Apart, Locks!OthersDecay
<1>2. [j \in Ids |-> HoldersOf(p, j)]' = [j \in Ids |-> HoldersOf(p, j)]
  BY Viewed, ViewedNext DEF Apart, SameHolders
<1>3. [j \in Ids |-> LineOf(p, j)]' =
        [[j \in Ids |-> LineOf(p, j)] EXCEPT ![i] = RemovedAt(@, k)]
  <2>1. LineOf(p, i)' = RemovedAt(LineOf(p, i), k)
    BY Viewed, ViewedNext
  <2>2. \A j \in Ids \ {i} : LineOf(p, j)' = LineOf(p, j)
    BY Viewed, ViewedNext DEF Apart, SameLine
  <2> QED
    BY <2>1, <2>2
<1>4. PayloadOf(p, i)' = PayloadOf(p, i)
  BY Viewed, ViewedNext
<1> QED
  BY <1>1, <1>2, <1>3, <1>4 DEF Locks!Leave, Locks!Removed, RemovedAt

(* A call that turns from a place in the line into a lease is a Grant. *)
LEMMA GrantMapped ==
  ASSUME NEW p, NEW i \in Ids, NEW k, NEW r,
         r = InLine(entry, call, p, i)[k],
         r.read \in BOOLEAN,
         \A h \in Holds(call, p, i) : r.read /\ h.read,
         k > 1 =>
           r.read /\ LET s == SubSeq(InLine(entry, call, p, i), 1, k - 1)
                     IN \A j \in 1 .. Len(s) : s[j].read,
         Awarded(entry, call, entry', p, i, r.read),
         Holds(call', p, i) = Holds(call, p, i) \cup {r},
         InLine(entry', call', p, i) = RemovedAt(InLine(entry, call, p, i), k),
         \A j \in Ids \ {i} : Apart(entry, call, entry', call', p, j)
  PROVE  Locks(p)!Grant(i, k)
<1>1. r = LineOf(p, i)[k]
  BY Viewed
<1>2. Locks(p)!Compatible(i, r.read)
  BY Viewed DEF Locks!Compatible
<1>3. k > 1 => r.read /\ Locks(p)!ReadersOnly(SubSeq(LineOf(p, i), 1, k - 1))
  BY Viewed DEF Locks!ReadersOnly
<1>4. Locks(p)!Granted(i, r.read)
  BY Viewed, ViewedNext, MappedDecays DEF Awarded, Locks!Granted
<1>5. Locks(p)!OthersDecay(i)
  BY MappedDecays DEF Apart, Locks!OthersDecay
<1>6. [j \in Ids |-> HoldersOf(p, j)]' =
        [[j \in Ids |-> HoldersOf(p, j)] EXCEPT ![i] = @ \cup {r}]
  <2>1. HoldersOf(p, i)' = HoldersOf(p, i) \cup {r}
    BY Viewed, ViewedNext
  <2>2. \A j \in Ids \ {i} : HoldersOf(p, j)' = HoldersOf(p, j)
    BY Viewed, ViewedNext DEF Apart, SameHolders
  <2> QED
    BY <2>1, <2>2
<1>7. [j \in Ids |-> LineOf(p, j)]' =
        [[j \in Ids |-> LineOf(p, j)] EXCEPT ![i] = RemovedAt(@, k)]
  <2>1. LineOf(p, i)' = RemovedAt(LineOf(p, i), k)
    BY Viewed, ViewedNext
  <2>2. \A j \in Ids \ {i} : LineOf(p, j)' = LineOf(p, j)
    BY Viewed, ViewedNext DEF Apart, SameLine
  <2> QED
    BY <2>1, <2>2
<1> QED
  BY <1>1, <1>2, <1>3, <1>4, <1>5, <1>6, <1>7 DEF Locks!Grant, Locks!Removed, RemovedAt

(* One lease less is an Unlock. *)
LEMMA UnlockMapped ==
  ASSUME NEW p, NEW i \in Ids, NEW h,
         Holds(call', p, i) = Holds(call, p, i) \ {h},
         Pay(entry', p, i) = Pay(entry, p, i),
         SameLine(entry, call, entry', call', p, i),
         \A j \in Ids \ {i} : /\ Pay(entry', p, j) = Pay(entry, p, j)
                             /\ SameHolders(call, call', p, j)
                             /\ SameLine(entry, call, entry', call', p, j)
  PROVE  Locks(p)!Unlock(i, h)
<1>1. [j \in Ids |-> PayloadOf(p, j)]' = [j \in Ids |-> PayloadOf(p, j)]
  BY Viewed, ViewedNext
<1>2. [j \in Ids |-> LineOf(p, j)]' = [j \in Ids |-> LineOf(p, j)]
  BY Viewed, ViewedNext DEF SameLine
<1>3. [j \in Ids |-> HoldersOf(p, j)]' =
        [[j \in Ids |-> HoldersOf(p, j)] EXCEPT ![i] = @ \ {h}]
  <2>1. HoldersOf(p, i)' = HoldersOf(p, i) \ {h}
    BY Viewed, ViewedNext
  <2>2. \A j \in Ids \ {i} : HoldersOf(p, j)' = HoldersOf(p, j)
    BY Viewed, ViewedNext DEF SameHolders
  <2> QED
    BY <2>1, <2>2
<1> QED
  BY <1>1, <1>2, <1>3 DEF Locks!Unlock

(* A payload that is retired under an exclusive lease is a Retire. *)
LEMMA RetireMapped ==
  ASSUME NEW p, NEW i \in Ids,
         \E h \in Holds(call, p, i) : ~h.read,
         Pay(entry, p, i) = "live",
         Pay(entry', p, i) = "retired",
         \A j \in Ids \ {i} : Pay(entry', p, j) = Pay(entry, p, j),
         \A j \in Ids : /\ SameHolders(call, call', p, j)
                       /\ SameLine(entry, call, entry', call', p, j)
  PROVE  Locks(p)!Retire(i)
<1>1. [j \in Ids |-> HoldersOf(p, j)]' = [j \in Ids |-> HoldersOf(p, j)]
  BY Viewed, ViewedNext DEF SameHolders
<1>2. [j \in Ids |-> LineOf(p, j)]' = [j \in Ids |-> LineOf(p, j)]
  BY Viewed, ViewedNext DEF SameLine
<1>3. [j \in Ids |-> PayloadOf(p, j)]' =
        [[j \in Ids |-> PayloadOf(p, j)] EXCEPT ![i] = "retired"]
  <2>1. PayloadOf(p, i)' = "retired"
    BY ViewedNext
  <2>2. \A j \in Ids \ {i} : PayloadOf(p, j)' = PayloadOf(p, j)
    BY Viewed, ViewedNext
  <2> QED
    BY <2>1, <2>2
<1>4. (\E h \in HoldersOf(p, i) : ~h.read) /\ PayloadOf(p, i) = "live"
  BY Viewed
<1> QED
  BY <1>1, <1>2, <1>3, <1>4 DEF Locks!Retire

-----------------------------------------------------------------------------
(* The entries of a client keep its payload and its line, or are forgotten or
   expired while nobody uses them. *)
Calm(E, F, p, i) ==
  \A e \in Entries : e[1] = p =>
    /\ F[e].id = i => E[e].id = i
    /\ E[e].id = i =>
         \/ F[e].id = i /\ F[e].released = E[e].released /\ F[e].queue = E[e].queue
         \/ ~Pinned(E[e]) /\ F[e].id # i
         \/ /\ ~Pinned(E[e]) /\ ~E[e].released
            /\ F[e].id = i /\ F[e].released /\ F[e].queue = E[e].queue

(* No call in the line of a client is given another access. *)
SameAccess(E, c, d, p, i) ==
  \A e \in Entries : e[1] = p /\ E[e].id = i =>
    \A k \in 1 .. Len(E[e].queue) : d[E[e].queue[k]].access = c[E[e].queue[k]].access

(* A line whose calls keep their access reads the same. *)
LEMMA AskedSame ==
  ASSUME NEW c, NEW d, NEW q, \A k \in 1 .. Len(q) : d[q[k]].access = c[q[k]].access
  PROVE  Asked(d, q) = Asked(c, q)
BY DEF Asked, Asks

(* Then the step is none of the client's, but for what time may do. *)
LEMMA CalmIsApart ==
  ASSUME NEW E, NEW F, NEW c, NEW d, Consistent(E, c), Unique(E), Unique(F),
         NEW p, NEW i \in Ids,
         Calm(E, F, p, i), SameAccess(E, c, d, p, i), SameHolders(c, d, p, i)
  PROVE  Apart(E, c, F, d, p, i)
<1>1. CASE \A e \in Entries : e[1] = p => E[e].id # i
  <2>1. \A e \in Entries : e[1] = p => F[e].id # i
    BY <1>1 DEF Calm
  <2>2. Pay(F, p, i) = "absent" /\ InLine(F, d, p, i) = <<>>
    BY <2>1, Homeless
  <2>3. Pay(E, p, i) = "absent" /\ InLine(E, c, p, i) = <<>>
    BY <1>1, Homeless
  <2> QED
    BY <2>2, <2>3 DEF Apart, Fades, SameLine
<1>2. CASE \E e \in Entries : e[1] = p /\ E[e].id = i
  <2>1. PICK e \in Entries : e[1] = p /\ E[e].id = i
    BY <1>2
  <2>2. /\ Pay(E, p, i) = IF E[e].released THEN "retired" ELSE "live"
        /\ InLine(E, c, p, i) = Asked(c, E[e].queue)
    BY <2>1, AtHome, LineAtHome
  <2>3. ~Pinned(E[e]) => Unused(E, c, p, i)
    BY <2>1, FreeIsUnpinned DEF Unused
  <2>4. CASE F[e].id = i
    <3>1. /\ Pay(F, p, i) = IF F[e].released THEN "retired" ELSE "live"
          /\ InLine(F, d, p, i) = Asked(d, F[e].queue)
      BY <2>1, <2>4, AtHome, LineAtHome, ZenonT(60)
    <3>2. F[e].queue = E[e].queue
      BY <2>1, <2>4 DEF Calm
    <3>3. \A k \in 1 .. Len(E[e].queue) : d[E[e].queue[k]].access = c[E[e].queue[k]].access
      BY <2>1 DEF SameAccess
    <3>4. Asked(d, E[e].queue) = Asked(c, E[e].queue)
      BY <3>3, AskedSame
    <3>5. \/ F[e].released = E[e].released
          \/ ~Pinned(E[e]) /\ ~E[e].released /\ F[e].released
      BY <2>1, <2>4 DEF Calm
    <3>6. Fades(E, c, F, p, i)
      BY <2>2, <2>3, <3>1, <3>5 DEF Fades
    <3> QED
      BY <2>2, <3>1, <3>2, <3>4, <3>6 DEF Apart, SameLine
  <2>5. CASE F[e].id # i
    <3>1. ~Pinned(E[e])
      BY <2>1, <2>5 DEF Calm
    <3>2. \A f \in Entries : f[1] = p => F[f].id # i
      BY <2>1, <2>5, ConstantsAssumption DEF Calm, Unique
    <3>3. Pay(F, p, i) = "absent" /\ InLine(F, d, p, i) = <<>>
      BY <3>2, Homeless
    <3> QED
      BY <2>3, <3>1, <3>3 DEF Apart, Fades, SameLine, Unused
  <2> QED
    BY <2>4, <2>5
<1> QED
  BY <1>1, <1>2

(* What a sweep does to a client, and whatever comes after it spares. *)
LEMMA SweptCalm ==
  ASSUME IInv, NEW clock \in BOOLEAN, NEW F, NEW p, NEW i \in Ids,
         \A e \in Entries : e[1] = p =>
           \/ /\ F[e].id = Sweep(clock)[e].id
              /\ F[e].released = Sweep(clock)[e].released
              /\ F[e].queue = Sweep(clock)[e].queue
           \/ /\ F[e].id # i
              /\ Sweep(clock)[e].id = i => ~Pinned(Sweep(clock)[e])
  PROVE  Calm(entry, F, p, i)
<1>1. entry \in [Entries -> EntryRecord]
  BY DEF IInv, Consistent, Typed
<1>2. SUFFICES ASSUME NEW e \in Entries, e[1] = p
               PROVE  /\ F[e].id = i => entry[e].id = i
                      /\ entry[e].id = i =>
                           \/ /\ F[e].id = i /\ F[e].released = entry[e].released
                              /\ F[e].queue = entry[e].queue
                           \/ ~Pinned(entry[e]) /\ F[e].id # i
                           \/ /\ ~Pinned(entry[e]) /\ ~entry[e].released
                              /\ F[e].id = i /\ F[e].released /\ F[e].queue = entry[e].queue
  BY DEF Calm
<1>3. CASE e \in Swept(clock)
  <2>1. ~Pinned(entry[e]) /\ ~entry[e].released
    BY <1>3 DEF Swept, Expirable
  <2>2. /\ Sweep(clock)[e].queue = entry[e].queue
        /\ IF e[1] = "session" THEN Sweep(clock)[e].id = entry[e].id /\ Sweep(clock)[e].released
           ELSE Sweep(clock)[e].id = NoId
    BY <1>1, <1>3 DEF Sweep, Expired, EntryRecord
  <2> QED
    BY <1>2, <2>1, <2>2, ConstantsAssumption
<1>4. CASE e \notin Swept(clock)
  <2>1. Sweep(clock)[e] = entry[e]
    BY <1>4 DEF Sweep
  <2> QED
    BY <1>2, <2>1
<1> QED
  BY <1>3, <1>4

(* No call but t's changes. *)
OnlyCall(c, d, t) == \A u \in Threads : u # t => d[u] = c[u]
LeasedTo(r, p, i) == r.pc = "leased" /\ r.id = i /\ r.entry[1] = p

(* Who holds what after a call is granted, joins or leaves a line. *)
LEMMA HoldsGained ==
  ASSUME NEW c, NEW d, NEW t \in Threads, OnlyCall(c, d, t), c[t].pc # "leased"
  PROVE  \A p, i :
           /\ LeasedTo(d[t], p, i) => Holds(d, p, i) = Holds(c, p, i) \cup {Asks(d, t)}
           /\ ~LeasedTo(d[t], p, i) => SameHolders(c, d, p, i)
<1> SUFFICES ASSUME NEW p, NEW i
             PROVE  /\ LeasedTo(d[t], p, i) => Holds(d, p, i) = Holds(c, p, i) \cup {Asks(d, t)}
                    /\ ~LeasedTo(d[t], p, i) => SameHolders(c, d, p, i)
  OBVIOUS
<1>1. \A u \in Threads : u # t => d[u] = c[u]
  BY DEF OnlyCall
<1>2. \A u \in HoldingIn(c, p, i) : u # t /\ u \in Threads /\ Asks(d, u) = Asks(c, u)
  BY <1>1 DEF HoldingIn, Asks
<1>3. HoldingIn(d, p, i) = IF LeasedTo(d[t], p, i)
                           THEN HoldingIn(c, p, i) \cup {t} ELSE HoldingIn(c, p, i)
  BY <1>1 DEF HoldingIn, LeasedTo
<1>5. Holds(d, p, i) = {Asks(d, u) : u \in HoldingIn(d, p, i)}
  BY DEF Holds
<1>6. Holds(c, p, i) = {Asks(d, u) : u \in HoldingIn(c, p, i)}
  BY <1>2 DEF Holds
<1>7. CASE LeasedTo(d[t], p, i)
  <2> DEFINE G == HoldingIn(c, p, i)
  <2>1. HoldingIn(d, p, i) = G \cup {t}
    BY <1>3, <1>7
  <2> HIDE DEF G
  <2>2. {Asks(d, u) : u \in G \cup {t}} = {Asks(d, u) : u \in G} \cup {Asks(d, t)}
    OBVIOUS
  <2>3. Holds(d, p, i) = Holds(c, p, i) \cup {Asks(d, t)}
    BY <1>5, <1>6, <2>1, <2>2 DEF G
  <2> QED
    BY <1>7, <2>3
<1>8. CASE ~LeasedTo(d[t], p, i)
  BY <1>3, <1>5, <1>6, <1>8 DEF SameHolders
<1> QED
  BY <1>7, <1>8

(* Who holds what after a lease is released. *)
LEMMA HoldsLost ==
  ASSUME NEW c, NEW d, NEW t \in Threads, OnlyCall(c, d, t), c[t].pc = "leased", d[t].pc # "leased"
  PROVE  \A p, i :
           /\ LeasedTo(c[t], p, i) => /\ Holds(d, p, i) = Holds(c, p, i) \ {Asks(c, t)}
                                     /\ Asks(c, t) \in Holds(c, p, i)
           /\ ~LeasedTo(c[t], p, i) => SameHolders(c, d, p, i)
<1> SUFFICES ASSUME NEW p, NEW i
             PROVE  /\ LeasedTo(c[t], p, i) => /\ Holds(d, p, i) = Holds(c, p, i) \ {Asks(c, t)}
                                              /\ Asks(c, t) \in Holds(c, p, i)
                    /\ ~LeasedTo(c[t], p, i) => SameHolders(c, d, p, i)
  OBVIOUS
<1>1. d[t].pc # "leased" /\ \A u \in Threads : u # t => d[u] = c[u]
  BY DEF OnlyCall
<1>2. HoldingIn(d, p, i) = HoldingIn(c, p, i) \ {t}
  BY <1>1 DEF HoldingIn
<1>3. \A u \in Threads : u # t => Asks(d, u) = Asks(c, u)
  BY <1>1 DEF Asks
<1>4. \A u \in Threads : Asks(c, u) = Asks(c, t) => u = t
  BY DEF Asks
<1>5. Holds(d, p, i) = {Asks(c, u) : u \in HoldingIn(c, p, i) \ {t}}
  <2>1. \A u \in HoldingIn(c, p, i) \ {t} : Asks(d, u) = Asks(c, u)
    BY <1>3 DEF HoldingIn
  <2> QED
    BY <1>2, <2>1 DEF Holds
<1>6. CASE LeasedTo(c[t], p, i)
  <2>1. t \in HoldingIn(c, p, i) /\ HoldingIn(c, p, i) \subseteq Threads
    BY <1>6 DEF HoldingIn, LeasedTo
  <2> QED
    BY <1>4, <1>5, <1>6, <2>1 DEF Holds
<1>7. CASE ~LeasedTo(c[t], p, i)
  <2>1. t \notin HoldingIn(c, p, i)
    BY <1>7 DEF HoldingIn, LeasedTo
  <2>2. HoldingIn(c, p, i) \ {t} = HoldingIn(c, p, i)
    BY <2>1
  <2> QED
    BY <1>5, <1>7, <2>2 DEF Holds, SameHolders
<1> QED
  BY <1>6, <1>7

-----------------------------------------------------------------------------
(* A call that has not been made is in no line and holds nothing. *)
LEMMA IdleUninvolved ==
  ASSUME IInv, NEW p, NEW t \in Threads, call[t].pc = "idle"
  PROVE  Uninvolved(entry, call, p, t)
<1> SUFFICES ASSUME NEW j \in Ids
             PROVE  /\ \A h \in Holds(call, p, j) : h.thread # t
                    /\ \A k \in 1 .. Len(InLine(entry, call, p, j)) :
                         InLine(entry, call, p, j)[k].thread # t
  BY DEF Uninvolved
<1>1. \A h \in Holds(call, p, j) : h.thread # t
  BY DEF Holds, HoldingIn, Asks
<1>2. CASE \A e \in Entries : e[1] = p => entry[e].id # j
  <2>1. InLine(entry, call, p, j) = <<>>
    BY <1>2, Homeless
  <2> QED
    BY <1>1, <2>1
<1>3. ASSUME NEW e \in Entries, e[1] = p, entry[e].id = j
      PROVE  \A k \in 1 .. Len(InLine(entry, call, p, j)) :
               InLine(entry, call, p, j)[k].thread # t
  <2>1. InLine(entry, call, p, j) = Asked(call, entry[e].queue)
    BY <1>3, LineAtHome DEF IInv
  <2>2. entry[e].queue \in Seq(Threads)
    BY DEF IInv, Consistent, Typed, EntryRecord
  <2>3. \A k \in 1 .. Len(entry[e].queue) : entry[e].queue[k] # t
    BY MembersQueued
  <2>4. PICK q \in Seq(Threads) : q = entry[e].queue
    BY <2>2
  <2>5. Len(Asked(call, q)) = Len(q) /\ \A k \in 1 .. Len(q) : Asked(call, q)[k] = Asks(call, q[k])
    BY DEF Asked
  <2>6. \A k \in 1 .. Len(q) : Asks(call, q[k]).thread # t
    BY <2>3, <2>4 DEF Asks
  <2>7. InLine(entry, call, p, j) = Asked(call, q)
    BY <2>1, <2>4
  <2> QED
    BY <2>5, <2>6, <2>7
<1> QED
  BY <1>1, <1>2, <1>3

(* An entry without a conflicting lease has only readers, and only for one. *)
LEMMA HoldersCompatible ==
  ASSUME NEW E, NEW c, Consistent(E, c), Unique(E), NEW e \in Entries, NEW i \in Ids,
         E[e].id = i, NEW a, ~E[e].busy, a # "READ" => ~(E[e].readers > 0)
  PROVE  \A h \in Holds(c, e[1], i) : a = "READ" /\ h.read
<1>1. HoldingIn(c, e[1], i) = Leasers(c, e)
  BY HoldersAtHome
<1>2. ASSUME NEW u \in Leasers(c, e) PROVE a = "READ" /\ c[u].access = "READ"
  <2>1. c[u].access = "READ"
    BY DEF Consistent, Counted
  <2>2. u \in Readers(c, e)
    BY <2>1 DEF Readers
  <2>3. E[e].readers > 0
    BY <2>2, ThreadSetsFinite, FS_EmptySet DEF Consistent, Counted
  <2> QED
    BY <2>1, <2>3
<1>3. \A h \in Holds(c, e[1], i) : \E u \in Leasers(c, e) : h = Asks(c, u)
  BY <1>1 DEF Holds
<1>4. \A u : Asks(c, u).read = (c[u].access = "READ")
  BY DEF Asks
<1> QED
  BY <1>2, <1>3, <1>4

(* The lines a call is not in read the same after it changes. *)
LEMMA AccessElsewhere ==
  ASSUME IInv, NEW t \in Threads, OnlyCall(call, call', t)
  PROVE  \A p, i : (call[t].pc = "queued" => ~(call[t].id = i /\ call[t].entry[1] = p))
                     => SameAccess(entry, call, call', p, i)
<1> SUFFICES ASSUME NEW p, NEW i,
                    call[t].pc = "queued" => ~(call[t].id = i /\ call[t].entry[1] = p),
                    NEW e \in Entries, e[1] = p, entry[e].id = i,
                    NEW k \in 1 .. Len(entry[e].queue)
             PROVE  call'[entry[e].queue[k]].access = call[entry[e].queue[k]].access
  BY DEF SameAccess
<1> DEFINE u == entry[e].queue[k]
<1>1. u \in Queuers(call, e)
  BY DEF IInv, Consistent, Lined, Members
<1> HIDE DEF u
<1>2. u \in Threads /\ call[u].pc = "queued" /\ call[u].entry = e
  BY <1>1 DEF Queuers
<1>3. call[u].id = i
  BY <1>2 DEF IInv, Consistent, Identified
<1>4. u # t
  BY <1>2, <1>3
<1>5. call'[u] = call[u]
  BY <1>2, <1>4 DEF OnlyCall
<1> QED
  BY <1>5 DEF u

(* Without a clock nothing expires. *)
LEMMA NoSweep ==
  ASSUME entry \in [Entries -> EntryRecord]
  PROVE  Sweep(FALSE) = entry
BY DEF Sweep, Swept

(* One call changes, with the entry f of one client i: all other clients, and
   i itself in the other pool, see what time may do. *)
LEMMA Bystanders ==
  ASSUME IInv, IInv', NEW clock \in BOOLEAN, NEW t \in Threads,
         OnlyCall(call, call', t), NEW f \in Entries, NEW i \in Ids,
         call[t].pc # "idle" => call[t].id = i /\ call[t].entry = f,
         call'[t].pc # "idle" => call'[t].id = i /\ call'[t].entry = f,
         entry'[f].id = i,
         Sweep(clock)[f].id = i \/ ~Pinned(Sweep(clock)[f]),
         \A e \in Entries : e # f =>
           /\ entry'[e].id = Sweep(clock)[e].id
           /\ entry'[e].released = Sweep(clock)[e].released
           /\ entry'[e].queue = Sweep(clock)[e].queue
  PROVE  \A p : \A j \in Ids : ~(p = f[1] /\ j = i) => Apart(entry, call, entry', call', p, j)
<1> SUFFICES ASSUME NEW p, NEW j \in Ids, ~(p = f[1] /\ j = i)
             PROVE  Apart(entry, call, entry', call', p, j)
  OBVIOUS
<1>1. Consistent(entry, call) /\ Unique(entry) /\ Unique(entry') /\ call \in [Threads -> CallRecord]
  BY DEF IInv, Consistent, Typed
<1>2. SameAccess(entry, call, call', p, j)
  BY AccessElsewhere
<1>3. SameHolders(call, call', p, j)
  <2>0. ~LeasedTo(call'[t], p, j) /\ ~LeasedTo(call[t], p, j)
    BY DEF LeasedTo
  <2>1. CASE call[t].pc # "leased"
    BY <2>0, <2>1, HoldsGained
  <2>2. CASE call[t].pc = "leased"
    <3> DEFINE d == [call EXCEPT ![t] = NoCall]
    <3>1. d[t].pc # "leased" /\ OnlyCall(call, d, t) /\ OnlyCall(d, call', t)
      BY <1>1 DEF OnlyCall, NoCall
    <3> HIDE DEF d
    <3>2. SameHolders(call, d, p, j)
      BY <2>0, <2>2, <3>1, HoldsLost
    <3>3. SameHolders(d, call', p, j)
      BY <2>0, <3>1, HoldsGained
    <3> QED
      BY <3>2, <3>3 DEF SameHolders
  <2> QED
    BY <2>1, <2>2
<1>4. Calm(entry, entry', p, j)
  <2>1. ASSUME NEW e \in Entries, e[1] = p
        PROVE  \/ /\ entry'[e].id = Sweep(clock)[e].id
                  /\ entry'[e].released = Sweep(clock)[e].released
                  /\ entry'[e].queue = Sweep(clock)[e].queue
               \/ /\ entry'[e].id # j
                  /\ Sweep(clock)[e].id = j => ~Pinned(Sweep(clock)[e])
    BY <2>1
  <2> QED
    BY <2>1, SweptCalm
<1> QED
  BY <1>1, <1>2, <1>3, <1>4, CalmIsApart

-----------------------------------------------------------------------------
(* What a sweep does to the entry of a client it does not forget. *)
LEMMA SweptEntry ==
  ASSUME IInv, NEW clock \in BOOLEAN, NEW e \in Entries, Sweep(clock)[e].id \in Ids
  PROVE  /\ entry[e].id = Sweep(clock)[e].id
         /\ entry[e].queue = Sweep(clock)[e].queue
         /\ entry[e].busy = Sweep(clock)[e].busy
         /\ entry[e].readers = Sweep(clock)[e].readers
         /\ \/ entry[e].released = Sweep(clock)[e].released
            \/ ~Pinned(entry[e]) /\ ~entry[e].released /\ Sweep(clock)[e].released
<1>1. entry \in [Entries -> EntryRecord]
  BY DEF IInv, Consistent, Typed
<1>2. CASE e \in Swept(clock)
  <2>1. ~Pinned(entry[e]) /\ ~entry[e].released
    BY <1>2 DEF Swept, Expirable
  <2>2. Sweep(clock)[e] = Expired(e)
    BY <1>2 DEF Sweep
  <2>3. e[1] = "session"
    BY <1>1, <2>2, ConstantsAssumption DEF Expired, EntryRecord
  <2>4. Sweep(clock)[e] = [entry[e] EXCEPT !.released = TRUE, !.bytes = 0]
    BY <2>2, <2>3 DEF Expired
  <2> QED
    BY <1>1, <2>1, <2>4, ZenonT(60) DEF EntryRecord
<1>3. CASE e \notin Swept(clock)
  <2>1. Sweep(clock)[e] = entry[e]
    BY <1>3 DEF Sweep
  <2> QED
    BY <2>1
<1> QED
  BY <1>2, <1>3

(* The payload a known client is granted a lease of. *)
LEMMA AwardedKnown ==
  ASSUME IInv, IInv', NEW clock \in BOOLEAN, NEW e \in Entries, NEW i \in Ids,
         Sweep(clock)[e].id = i, entry'[e].id = i,
         entry'[e].released = Sweep(clock)[e].released,
         NEW a, ~Gone(Sweep(clock)[e], a)
  PROVE  Awarded(entry, call, entry', e[1], i, a = "READ")
<1>1. /\ entry[e].id = i
      /\ \/ entry[e].released = Sweep(clock)[e].released
         \/ ~Pinned(entry[e]) /\ ~entry[e].released /\ Sweep(clock)[e].released
  BY SweptEntry
<1>2. Pay(entry, e[1], i) = IF entry[e].released THEN "retired" ELSE "live"
  BY <1>1, AtHome DEF IInv
<1>3. Pay(entry', e[1], i) = IF entry'[e].released THEN "retired" ELSE "live"
  <2>1. Unique(entry')
    BY DEF IInv
  <2> QED
    BY <2>1, AtHome
<1>4. ~Pinned(entry[e]) => Unused(entry, call, e[1], i)
  BY <1>1, FreeIsUnpinned DEF IInv, Unused
<1>5. a = "READ" => ~Sweep(clock)[e].released
  BY DEF Gone
<1> QED
  BY <1>1, <1>2, <1>3, <1>4, <1>5 DEF Awarded

(* A lease of a known client is served at once. *)
LEMMA ServedKnown ==
  ASSUME IInv, IInv', NEW clock \in BOOLEAN, NEW t \in Threads, NEW i \in Ids,
         NEW a \in AllAccesses, call[t].pc = "idle", NEW e \in Located(Sweep(clock), a, i),
         ~Sweep(clock)[e].busy, a # "READ" => ~(Sweep(clock)[e].readers > 0),
         Sweep(clock)[e].queue # <<>> =>
           /\ a = "READ"
           /\ \A k \in 1 .. Len(Sweep(clock)[e].queue) :
                call[Sweep(clock)[e].queue[k]].access = "READ",
         ~Gone(Sweep(clock)[e], a), NEW p
  PROVE  entry' = Taken(Sweep(clock), e, a) /\ call' = Leased(t, i, a, e) =>
           Locks(p)!Serve(i, t, a = "READ") \/ Locks(p)!Decay
<1>0. SUFFICES ASSUME entry' = Taken(Sweep(clock), e, a), call' = Leased(t, i, a, e)
               PROVE  Locks(p)!Serve(i, t, a = "READ") \/ Locks(p)!Decay
  OBVIOUS
<1> DEFINE E == Sweep(clock)
           r == [pc |-> "leased", id |-> i, access |-> a, entry |-> e]
<1>1. e \in Entries /\ E[e].id = i
  BY DEF Located
<1>2. E \in [Entries -> EntryRecord] /\ call \in [Threads -> CallRecord]
  BY SweepConsistent DEF IInv, Consistent, Typed
<1>3. /\ \A f \in Entries : f # e => entry'[f] = E[f]
      /\ entry'[e].id = i /\ entry'[e].queue = E[e].queue /\ entry'[e].released = E[e].released
  BY <1>0, <1>1, <1>2, TakenEntry
<1>4. OnlyCall(call, call', t) /\ call'[t] = r
  BY <1>0, <1>2 DEF Leased, OnlyCall
<1>5. call'[t].pc = "leased" /\ call'[t].id = i /\ call'[t].entry = e /\ call'[t].access = a
  BY <1>4
<1>6. /\ entry[e].id = i /\ entry[e].queue = E[e].queue
      /\ entry[e].busy = E[e].busy /\ entry[e].readers = E[e].readers
  BY <1>1, SweptEntry
<1> HIDE DEF r, E
<1>7. \A q : \A j \in Ids : ~(q = e[1] /\ j = i) => Apart(entry, call, entry', call', q, j)
  BY <1>1, <1>3, <1>4, <1>5, Bystanders DEF E
<1>8. CASE p # e[1]
  BY <1>7, <1>8, DecayMapped
<1>9. CASE p = e[1]
  <2>1. Uninvolved(entry, call, p, t)
    BY IdleUninvolved
  <2>2. \A h \in Holds(call, p, i) : a = "READ" /\ h.read
    BY <1>1, <1>6, <1>9, HoldersCompatible DEF IInv, E
  <2>3. InLine(entry, call, p, i) = Asked(call, E[e].queue)
    BY <1>1, <1>6, <1>9, LineAtHome, ZenonT(60) DEF IInv
  <2>4. InLine(entry, call, p, i) # <<>> =>
          /\ a = "READ"
          /\ \A k \in 1 .. Len(InLine(entry, call, p, i)) : InLine(entry, call, p, i)[k].read
    <3>1. PICK q \in Seq(Threads) : q = E[e].queue
      BY <1>1, <1>2 DEF EntryRecord
    <3>2. Asked(call, q) # <<>> => q # <<>>
      BY AskedNone
    <3>3. Len(Asked(call, q)) = Len(q) /\ \A k \in 1 .. Len(q) : Asked(call, q)[k] = Asks(call, q[k])
      BY DEF Asked
    <3>4. q # <<>> => a = "READ" /\ \A k \in 1 .. Len(q) : Asks(call, q[k]).read
      BY <3>1 DEF E, Asks
    <3>5. InLine(entry, call, p, i) = Asked(call, q)
      BY <2>3, <3>1
    <3> QED
      BY <3>2, <3>3, <3>4, <3>5
  <2>5. Awarded(entry, call, entry', p, i, a = "READ")
    BY <1>1, <1>3, <1>9, AwardedKnown DEF E
  <2>6. Holds(call', p, i) = Holds(call, p, i) \cup {[thread |-> t, read |-> a = "READ"]}
    <3>1. LeasedTo(call'[t], p, i) /\ call[t].pc # "leased"
      BY <1>5, <1>9 DEF LeasedTo
    <3>2. Holds(call', p, i) = Holds(call, p, i) \cup {Asks(call', t)}
      BY <1>4, <3>1, HoldsGained
    <3>3. Asks(call', t) = [thread |-> t, read |-> a = "READ"]
      BY <1>5 DEF Asks
    <3> QED
      BY <3>2, <3>3
  <2>7. SameLine(entry, call, entry', call', p, i)
    <3>1. Unique(entry')
      BY DEF IInv
    <3>2. InLine(entry', call', p, i) = Asked(call', E[e].queue)
      BY <1>1, <1>3, <1>9, <3>1, LineAtHome
    <3>3. SameAccess(entry, call, call', p, i)
      BY <1>4, AccessElsewhere
    <3>4. Asked(call', E[e].queue) = Asked(call, E[e].queue)
      BY <1>1, <1>6, <1>9, <3>3, AskedSame DEF SameAccess
    <3> QED
      BY <2>3, <3>2, <3>4 DEF SameLine
  <2>8. \A j \in Ids \ {i} : Apart(entry, call, entry', call', p, j)
    BY <1>7
  <2> QED
    BY <2>1, <2>2, <2>4, <2>5, <2>6, <2>7, <2>8, ServeMapped
<1> QED
  BY <1>8, <1>9

-----------------------------------------------------------------------------
(* Who is not in a queue needs it to be empty, or to read behind readers. *)
LEMMA ReadyOutside ==
  ASSUME NEW q \in Seq(Threads), NEW t \in Threads, \A k \in 1 .. Len(q) : q[k] # t, NEW a
  PROVE  /\ QueueReady(q, t, a) <=> q = <<>>
         /\ QueueReady(Append(q, t), t, a) =>
              \A k \in 1 .. Len(q) : a = "READ" /\ call[q[k]].access = "READ"
<1>1. QueueReady(q, t, a) <=> q = <<>>
  BY DEF QueueReady
<1> DEFINE s == Append(q, t)
<1>2. Len(s) = Len(q) + 1 /\ Len(q) \in Nat /\ s[Len(q) + 1] = t /\ \A k \in 1 .. Len(q) : s[k] = q[k]
  OBVIOUS
<1> HIDE DEF s
<1>3. ASSUME QueueReady(s, t, a), NEW k \in 1 .. Len(q)
      PROVE  a = "READ" /\ call[q[k]].access = "READ"
  <2>1. k \in 1 .. Len(s) /\ Len(q) + 1 \in 1 .. Len(s)
    BY <1>2
  <2>2. \A j \in 1 .. k : s[j] # t
    BY <1>2
  <2>3. a = "READ" /\ call[s[k]].access = "READ"
    BY <1>2, <1>3, <2>1, <2>2 DEF QueueReady
  <2> QED
    BY <1>2, <2>3
<1> QED
  BY <1>1, <1>3 DEF s

(* Whoever has not called is in no queue, before or after a sweep. *)
LEMMA IdleOutside ==
  ASSUME IInv, NEW clock \in BOOLEAN, NEW t \in Threads, call[t].pc # "queued", NEW e \in Entries
  PROVE  /\ Sweep(clock)[e].queue \in Seq(Threads)
         /\ \A k \in 1 .. Len(Sweep(clock)[e].queue) : Sweep(clock)[e].queue[k] # t
<1> DEFINE E == Sweep(clock)
<1>1. Consistent(E, call)
  BY SweepConsistent DEF IInv
<1> HIDE DEF E
<1>2. E[e].queue \in Seq(Threads)
  BY <1>1 DEF Consistent, Typed, EntryRecord
<1>3. Members(E[e].queue) = Queuers(call, e)
  BY <1>1 DEF Consistent, Lined
<1>4. t \notin Members(E[e].queue)
  BY <1>3 DEF Queuers
<1> QED
  BY <1>2, <1>4 DEF E, Members

(* The sequence operators, elementwise. *)
LEMMA SeqElements ==
  ASSUME NEW S, NEW s \in Seq(S), NEW n, Len(s) = n
  PROVE  s = [k \in 1 .. n |-> s[k]]
OBVIOUS

(* The part of a sequence before its element k. *)
LEMMA PrefixElements ==
  ASSUME NEW S, NEW s \in Seq(S), NEW k \in 1 .. Len(s)
  PROVE  /\ Len(SubSeq(s, 1, k - 1)) = k - 1
         /\ \A j \in 1 .. k - 1 : SubSeq(s, 1, k - 1)[j] = s[j]
OBVIOUS

(* What Append makes of them. *)
LEMMA AppendElements ==
  ASSUME NEW S, NEW r \in Seq(S), NEW x \in S
  PROVE  Append(r, x) = [k \in 1 .. Len(r) + 1 |-> IF k = Len(r) + 1 THEN x ELSE r[k]]
<1> DEFINE s == Append(r, x)
<1>1. /\ s \in Seq(S) /\ Len(s) = Len(r) + 1 /\ s[Len(r) + 1] = x
      /\ \A k \in 1 .. Len(r) : s[k] = r[k]
  BY AppendProperties
<1>2. Len(r) \in Nat
  OBVIOUS
<1> HIDE DEF s
<1>3. s = [k \in 1 .. Len(r) + 1 |-> s[k]]
  BY <1>1, SeqElements
<1>4. \A k \in 1 .. Len(r) + 1 : s[k] = IF k = Len(r) + 1 THEN x ELSE r[k]
  BY <1>1, <1>2
<1> QED
  BY <1>3, <1>4 DEF s

(* What concatenation makes of them. *)
LEMMA ConcatElements ==
  ASSUME NEW S, NEW x \in Seq(S), NEW y \in Seq(S)
  PROVE  x \o y = [j \in 1 .. Len(x) + Len(y) |-> IF j <= Len(x) THEN x[j] ELSE y[j - Len(x)]]
<1> DEFINE s == x \o y
<1>1. /\ s \in Seq(S) /\ Len(s) = Len(x) + Len(y)
      /\ \A j \in 1 .. Len(x) + Len(y) : s[j] = IF j <= Len(x) THEN x[j] ELSE y[j - Len(x)]
  BY ConcatProperties
<1> HIDE DEF s
<1>2. s = [j \in 1 .. Len(x) + Len(y) |-> s[j]]
  BY <1>1, SeqElements
<1> QED
  BY <1>1, <1>2 DEF s

(* Joining and leaving a line, as the client sees it. *)
LEMMA AskedAppend ==
  ASSUME NEW c, NEW d, NEW q \in Seq(Threads), NEW t \in Threads,
         OnlyCall(c, d, t), \A k \in 1 .. Len(q) : q[k] # t
  PROVE  Asked(d, Append(q, t)) = Append(Asked(c, q), Asks(d, t))
<1> DEFINE s == Append(q, t)
           r == Asked(c, q)
           x == Asks(d, t)
<1>1. Len(s) = Len(q) + 1 /\ Len(q) \in Nat /\ s[Len(q) + 1] = t /\ \A k \in 1 .. Len(q) : s[k] = q[k]
  OBVIOUS
<1>2. \A k \in 1 .. Len(q) : q[k] \in Threads /\ Asks(d, q[k]) = Asks(c, q[k])
  BY DEF OnlyCall, Asks
<1>3. Asked(d, s) = [k \in 1 .. Len(q) + 1 |-> Asks(d, s[k])]
  BY <1>1 DEF Asked
<1>4. r = [k \in 1 .. Len(q) |-> Asks(c, q[k])]
  BY DEF Asked
<1> DEFINE R == {Asks(c, u) : u \in Threads} \cup {x}
<1>5. r \in Seq(R) /\ Len(r) = Len(q) /\ \A k \in 1 .. Len(q) : r[k] = Asks(c, q[k])
  BY <1>1, <1>2, <1>4
<1>8. x \in R
  OBVIOUS
<1> HIDE DEF s, r, x, R
<1>6. Append(r, x) = [k \in 1 .. Len(q) + 1 |-> IF k = Len(q) + 1 THEN x ELSE r[k]]
  BY <1>5, <1>8, AppendElements
<1>7. \A k \in 1 .. Len(q) + 1 : Asks(d, s[k]) = IF k = Len(q) + 1 THEN x ELSE r[k]
  BY <1>1, <1>2, <1>5 DEF x
<1> QED
  BY <1>3, <1>6, <1>7 DEF s, r, x

(* A queue without one call is read as its line without that place. *)
LEMMA AskedWithout ==
  ASSUME NEW c, NEW d, NEW q \in Seq(Threads), Distinct(q), NEW t, OnlyCall(c, d, t),
         NEW k \in 1 .. Len(q), q[k] = t
  PROVE  Asked(d, Without(q, t)) = RemovedAt(Asked(c, q), k)
<1> DEFINE w == Without(q, t)
           r == Asked(c, q)
<1>1. w = [j \in 1 .. Len(q) - 1 |-> IF j < k THEN q[j] ELSE q[j + 1]]
  <2>1. (CHOOSE j \in 1 .. Len(q) : q[j] = t) = k
    BY DEF Distinct
  <2> QED
    BY <2>1 DEF Without
<1>2. Len(q) \in Nat /\ Len(w) = Len(q) - 1
  BY <1>1
<1>3. Asked(d, w) = [j \in 1 .. Len(q) - 1 |-> Asks(d, w[j])]
  BY <1>2 DEF Asked
<1>4. r = [j \in 1 .. Len(q) |-> Asks(c, q[j])]
  BY DEF Asked
<1> DEFINE R == {Asks(c, u) : u \in Threads}
<1>5. r \in Seq(R) /\ Len(r) = Len(q) /\ \A j \in 1 .. Len(q) : r[j] = Asks(c, q[j])
  BY <1>2, <1>4
<1> HIDE DEF r, R
<1>6. /\ SubSeq(r, 1, k - 1) \in Seq(R) /\ Len(SubSeq(r, 1, k - 1)) = k - 1
      /\ \A j \in 1 .. k - 1 : SubSeq(r, 1, k - 1)[j] = r[j]
  BY <1>2, <1>5
<1>7. /\ SubSeq(r, k + 1, Len(r)) \in Seq(R) /\ Len(SubSeq(r, k + 1, Len(r))) = Len(q) - k
      /\ \A j \in 1 .. Len(q) - k : SubSeq(r, k + 1, Len(r))[j] = r[k + j]
  BY <1>2, <1>5
<1> DEFINE x == SubSeq(r, 1, k - 1)
           y == SubSeq(r, k + 1, Len(r))
<1> HIDE DEF x, y
<1>8. x \o y = [j \in 1 .. Len(q) - 1 |-> IF j < k THEN r[j] ELSE r[j + 1]]
  <2>1. x \o y = [j \in 1 .. Len(x) + Len(y) |-> IF j <= Len(x) THEN x[j] ELSE y[j - Len(x)]]
    BY <1>6, <1>7, ConcatElements, ZenonT(60) DEF x, y
  <2>2. Len(x) + Len(y) = Len(q) - 1 /\ Len(x) = k - 1
    <3>1. Len(x) = k - 1 /\ Len(y) = Len(q) - k
      BY <1>6, <1>7 DEF x, y
    <3>2. Len(q) \in Nat /\ k \in Nat
      BY <1>2
    <3> QED
      BY <3>1, <3>2
  <2>3. \A j \in 1 .. Len(q) - 1 :
          (IF j <= k - 1 THEN x[j] ELSE y[j - (k - 1)]) = IF j < k THEN r[j] ELSE r[j + 1]
    <3>1. \A j \in 1 .. k - 1 : x[j] = r[j]
      BY <1>6 DEF x
    <3>2. \A j \in 1 .. Len(q) - k : y[j] = r[k + j]
      BY <1>7 DEF y
    <3>3. ASSUME NEW j \in 1 .. Len(q) - 1, ~(j < k) PROVE y[j - (k - 1)] = r[j + 1]
      <4>1. j - (k - 1) \in 1 .. Len(q) - k /\ k + (j - (k - 1)) = j + 1
        BY <1>2, <3>3
      <4> QED
        BY <3>2, <4>1
    <3> QED
      BY <1>2, <3>1, <3>3
  <2> QED
    BY <2>1, <2>2, <2>3
<1>9. \A j \in 1 .. Len(q) - 1 : Asks(d, w[j]) = IF j < k THEN r[j] ELSE r[j + 1]
  <2>1. \A j \in 1 .. Len(q) : j # k => q[j] # t /\ q[j] \in Threads
    BY DEF Distinct
  <2>2. \A j \in 1 .. Len(q) : j # k => Asks(d, q[j]) = r[j]
    BY <1>5, <2>1 DEF OnlyCall, Asks
  <2> QED
    BY <1>1, <1>2, <2>2
<1> QED
  BY <1>3, <1>8, <1>9 DEF w, r, x, y, RemovedAt

-----------------------------------------------------------------------------
(* A call that joins the line of a client who is not free waits. *)
LEMMA JoinedWaits ==
  ASSUME IInv, IInv', NEW clock \in BOOLEAN, NEW t \in Threads, NEW i \in Ids,
         NEW a \in AllAccesses, call[t].pc = "idle", NEW e \in Located(Sweep(clock), a, i),
         Conflict(Sweep(clock)[e], t, a), NEW p
  PROVE  /\ entry' = [Sweep(clock) EXCEPT ![e].queue = Append(@, t)]
         /\ call' = [call EXCEPT ![t] = [pc |-> "queued", id |-> i, access |-> a, entry |-> e]]
         => Locks(p)!Wait(i, t, a = "READ") \/ Locks(p)!Decay
<1>0. SUFFICES ASSUME entry' = [Sweep(clock) EXCEPT ![e].queue = Append(@, t)],
                      call' = [call EXCEPT ![t] =
                        [pc |-> "queued", id |-> i, access |-> a, entry |-> e]]
               PROVE  Locks(p)!Wait(i, t, a = "READ") \/ Locks(p)!Decay
  OBVIOUS
<1> DEFINE E == Sweep(clock)
<1>1. e \in Entries /\ E[e].id = i
  BY DEF Located
<1>2. E \in [Entries -> EntryRecord] /\ call \in [Threads -> CallRecord] /\ Unique(entry')
  BY SweepConsistent DEF IInv, Consistent, Typed
<1>3. /\ \A f \in Entries : f # e => entry'[f] = E[f]
      /\ entry'[e].id = i /\ entry'[e].queue = Append(E[e].queue, t)
      /\ entry'[e].released = E[e].released
  BY <1>0, <1>1, <1>2 DEF EntryRecord
<1>4. /\ OnlyCall(call, call', t)
      /\ call'[t].pc = "queued" /\ call'[t].id = i /\ call'[t].entry = e /\ call'[t].access = a
  BY <1>0, <1>2 DEF OnlyCall
<1>5. /\ entry[e].id = i /\ entry[e].queue = E[e].queue
      /\ entry[e].busy = E[e].busy /\ entry[e].readers = E[e].readers
      /\ entry[e].released = E[e].released \/ ~Pinned(entry[e])
  BY <1>1, SweptEntry
<1>6. E[e].queue \in Seq(Threads) /\ \A k \in 1 .. Len(E[e].queue) : E[e].queue[k] # t
  BY <1>1, IdleOutside
<1>7. Pinned(entry[e])
  <2>1. QueueReady(E[e].queue, t, a) <=> E[e].queue = <<>>
    BY <1>6, ReadyOutside
  <2> QED
    BY <1>5, <2>1 DEF Conflict, Pinned
<1> HIDE DEF E
<1>8. \A q : \A j \in Ids : ~(q = e[1] /\ j = i) => Apart(entry, call, entry', call', q, j)
  BY <1>1, <1>3, <1>4, Bystanders DEF E
<1>9. CASE p # e[1]
  BY <1>8, <1>9, DecayMapped
<1>10. CASE p = e[1]
  <2>1. Uninvolved(entry, call, p, t)
    BY IdleUninvolved
  <2>2. ~Unused(entry, call, p, i)
    BY <1>1, <1>5, <1>7, <1>10, FreeIsUnpinned DEF IInv, Unused
  <2>3. InLine(entry, call, p, i) = Asked(call, E[e].queue)
    BY <1>1, <1>5, <1>10, LineAtHome DEF IInv
  <2>4. InLine(entry', call', p, i) = Asked(call', Append(E[e].queue, t))
    BY <1>1, <1>2, <1>3, <1>10, LineAtHome, ZenonT(60)
  <2>5. Asked(call', Append(E[e].queue, t)) = Append(Asked(call, E[e].queue), Asks(call', t))
    BY <1>4, <1>6, AskedAppend, ZenonT(60)
  <2>6. Asks(call', t) = [thread |-> t, read |-> a = "READ"]
    BY <1>4 DEF Asks
  <2>7. Pay(entry', p, i) = Pay(entry, p, i)
    <3>1. Pay(entry, p, i) = IF entry[e].released THEN "retired" ELSE "live"
      BY <1>1, <1>5, <1>10, AtHome DEF IInv
    <3>2. Pay(entry', p, i) = IF entry'[e].released THEN "retired" ELSE "live"
      BY <1>1, <1>2, <1>3, <1>10, AtHome
    <3> QED
      BY <1>3, <1>5, <1>7, <3>1, <3>2
  <2>8. SameHolders(call, call', p, i)
    BY <1>4, HoldsGained DEF LeasedTo
  <2>9. \A j \in Ids \ {i} : Apart(entry, call, entry', call', p, j)
    BY <1>8
  <2> QED
    BY <2>1, <2>2, <2>3, <2>4, <2>5, <2>6, <2>7, <2>8, <2>9, WaitMapped
<1> QED
  BY <1>9, <1>10

(* What leaving its line does to the entry a call waits for. *)
LEMMA DequeuedEntry ==
  ASSUME NEW E \in [Entries -> EntryRecord], NEW e \in Entries, NEW t
  PROVE  /\ Dequeued(E, e, t)[e].queue = Without(E[e].queue, t)
         /\ \A f \in Entries : f # e => Dequeued(E, e, t)[f] = E[f]
BY DEF Dequeued, EntryRecord

(* The line of a client without one of its calls. *)
LEMMA LineLeft ==
  ASSUME IInv, IInv', NEW clock \in BOOLEAN, NEW t \in Threads, call[t].pc = "queued",
         NEW e, NEW i, e = call[t].entry, i = call[t].id,
         Sweep(clock)[e].id = i,
         entry'[e].id = i, entry'[e].queue = Without(Sweep(clock)[e].queue, t),
         OnlyCall(call, call', t)
  PROVE  \E k \in 1 .. Len(InLine(entry, call, e[1], i)) :
           /\ InLine(entry', call', e[1], i) = RemovedAt(InLine(entry, call, e[1], i), k)
           /\ InLine(entry, call, e[1], i)[k] = Asks(call, t)
           /\ k \in 1 .. Len(entry[e].queue) /\ entry[e].queue[k] = t
           /\ Sweep(clock)[e].queue = entry[e].queue
           /\ InLine(entry, call, e[1], i) = Asked(call, entry[e].queue)
<1>1. e \in Entries /\ i \in Ids /\ Unique(entry) /\ Unique(entry')
  BY DEF IInv, Consistent, Typed, Identified, CallRecord
<1>2. entry[e].id = i /\ entry[e].queue = Sweep(clock)[e].queue
  BY <1>1, SweptEntry
<1>3. PICK q \in Seq(Threads) : q = entry[e].queue
  BY <1>1 DEF IInv, Consistent, Typed, EntryRecord
<1>4. Distinct(q) /\ t \in Members(q)
  BY <1>1, <1>3 DEF IInv, Consistent, Lined, Queuers
<1>5. PICK k \in 1 .. Len(q) : q[k] = t
  BY <1>4 DEF Members
<1>6. InLine(entry, call, e[1], i) = Asked(call, q)
  BY <1>1, <1>2, <1>3, LineAtHome
<1>7. InLine(entry', call', e[1], i) = Asked(call', Without(q, t))
  <2>1. entry'[e].id = i
    OBVIOUS
  <2>2. \A c : InLine(entry', c, e[1], i) = Asked(c, entry'[e].queue)
    BY <1>1, <2>1, LineAtHome
  <2>3. entry'[e].queue = Without(q, t)
    BY <1>2, <1>3
  <2> QED
    BY <2>2, <2>3
<1>8. Asked(call', Without(q, t)) = RemovedAt(Asked(call, q), k)
  BY <1>4, <1>5, AskedWithout
<1>9. Len(Asked(call, q)) = Len(q) /\ Asked(call, q)[k] = Asks(call, t)
  BY <1>5 DEF Asked
<1> QED
  BY <1>2, <1>3, <1>5, <1>6, <1>7, <1>8, <1>9

(* A call that leaves its line unserved. *)
LEMMA WaiterLeaves ==
  ASSUME IInv, IInv', NEW clock \in BOOLEAN, NEW t \in Threads, call[t].pc = "queued",
         NEW p
  PROVE  /\ entry' = Dequeued(Sweep(clock), call[t].entry, t)
         /\ call' = [call EXCEPT ![t] = NoCall]
         => (\E i \in Ids : \E k \in 1 .. Len(LineOf(p, i)) : Locks(p)!Leave(i, k)) \/ Locks(p)!Decay
<1>0. SUFFICES ASSUME entry' = Dequeued(Sweep(clock), call[t].entry, t),
                      call' = [call EXCEPT ![t] = NoCall]
               PROVE  (\E i \in Ids : \E k \in 1 .. Len(LineOf(p, i)) : Locks(p)!Leave(i, k))
                        \/ Locks(p)!Decay
  OBVIOUS
<1> DEFINE E == Sweep(clock)
           e == call[t].entry
           i == call[t].id
<1>1. Consistent(E, call) /\ Unique(entry')
  BY SweepConsistent DEF IInv
<1>2. /\ E \in [Entries -> EntryRecord] /\ call \in [Threads -> CallRecord]
      /\ e \in Entries /\ i \in Ids /\ E[e].id = i
  BY <1>1 DEF Consistent, Typed, Identified, CallRecord
<1> HIDE DEF E, e, i
<1>3. /\ \A f \in Entries : f # e => entry'[f] = E[f]
      /\ entry'[e].queue = Without(E[e].queue, t)
      /\ entry'[e].id = i /\ entry'[e].released = E[e].released
  BY <1>0, <1>2, DequeuedEntry, DequeuedIds DEF E, e
<1>4. OnlyCall(call, call', t) /\ call'[t].pc = "idle"
  BY <1>0, <1>2 DEF OnlyCall, NoCall
<1>5. \A q : \A j \in Ids : ~(q = e[1] /\ j = i) => Apart(entry, call, entry', call', q, j)
  BY <1>2, <1>3, <1>4, Bystanders DEF E, e, i
<1>6. CASE p # e[1]
  BY <1>5, <1>6, DecayMapped
<1>7. CASE p = e[1]
  <2>1. PICK k \in 1 .. Len(InLine(entry, call, e[1], i)) :
             /\ InLine(entry', call', e[1], i) = RemovedAt(InLine(entry, call, e[1], i), k)
             /\ k \in 1 .. Len(entry[e].queue) /\ entry[e].queue[k] = t
    BY <1>2, <1>3, <1>4, LineLeft DEF E, e, i
  <2>2. Pay(entry', p, i) = Pay(entry, p, i)
    <3>1. entry[e].id = i /\ (entry[e].released = E[e].released \/ ~Pinned(entry[e]))
      BY <1>2, SweptEntry DEF E
    <3>2. Pinned(entry[e])
      BY <2>1 DEF Pinned
    <3>3. Pay(entry, p, i) = IF entry[e].released THEN "retired" ELSE "live"
      BY <1>2, <1>7, <3>1, AtHome DEF IInv
    <3>4. Pay(entry', p, i) = IF entry'[e].released THEN "retired" ELSE "live"
      BY <1>1, <1>2, <1>3, <1>7, AtHome
    <3> QED
      BY <1>3, <3>1, <3>2, <3>3, <3>4
  <2>3. SameHolders(call, call', p, i)
    BY <1>4, HoldsGained DEF LeasedTo
  <2>4. \A j \in Ids \ {i} : Apart(entry, call, entry', call', p, j)
    BY <1>5
  <2>5. Locks(p)!Leave(i, k)
    BY <1>2, <1>7, <2>1, <2>2, <2>3, <2>4, LeaveMapped
  <2>6. LineOf(p, i) = InLine(entry, call, p, i)
    BY Viewed
  <2>7. i \in Ids /\ k \in 1 .. Len(LineOf(p, i))
    BY <1>2, <1>7, <2>1, <2>6
  <2> QED
    BY <2>5, <2>7
<1> QED
  BY <1>6, <1>7

(* A woken call that is served. *)
LEMMA WaiterServed ==
  ASSUME IInv, IInv', NEW clock \in BOOLEAN, NEW t \in Threads, call[t].pc = "queued",
         NEW e, NEW a, NEW i, e = call[t].entry, a = call[t].access, i = call[t].id,
         ~Conflict(Sweep(clock)[e], t, a), ~Gone(Sweep(clock)[e], a), NEW p
  PROVE  /\ entry' = Taken(Dequeued(Sweep(clock), e, t), e, a)
         /\ call' = Leased(t, i, a, e)
         => (\E j \in Ids : \E k \in 1 .. Len(LineOf(p, j)) : Locks(p)!Grant(j, k)) \/ Locks(p)!Decay
<1>0. SUFFICES ASSUME entry' = Taken(Dequeued(Sweep(clock), e, t), e, a), call' = Leased(t, i, a, e)
               PROVE  (\E j \in Ids : \E k \in 1 .. Len(LineOf(p, j)) : Locks(p)!Grant(j, k))
                        \/ Locks(p)!Decay
  OBVIOUS
<1> DEFINE E == Sweep(clock)
           D == Dequeued(E, e, t)
<1>1. Consistent(E, call) /\ Unique(entry')
  BY SweepConsistent DEF IInv
<1>2. /\ E \in [Entries -> EntryRecord] /\ call \in [Threads -> CallRecord]
      /\ e \in Entries /\ i \in Ids /\ E[e].id = i /\ a \in AllAccesses
  BY <1>1 DEF Consistent, Typed, Identified, CallRecord
<1>3. D \in [Entries -> EntryRecord]
  <2>1. Consistent(D, [call EXCEPT ![t] = NoCall])
    BY <1>1, DequeuedConsistent
  <2> QED
    BY <2>1 DEF Consistent, Typed
<1> HIDE DEF E
<1>4. /\ \A f \in Entries : f # e => D[f] = E[f]
      /\ D[e].queue = Without(E[e].queue, t)
      /\ D[e].id = i /\ D[e].released = E[e].released
  BY <1>2, DequeuedEntry, DequeuedIds
<1> HIDE DEF D
<1>5. entry' = Taken(D, e, a)
  BY <1>0 DEF D, E
<1>6. /\ \A f \in Entries : f # e => entry'[f] = E[f]
      /\ entry'[e].queue = Without(E[e].queue, t)
      /\ entry'[e].id = i /\ entry'[e].released = E[e].released
  BY <1>2, <1>3, <1>4, <1>5, TakenEntry
<1>7. /\ OnlyCall(call, call', t) /\ call'[t].pc = "leased"
      /\ call'[t].id = i /\ call'[t].entry = e /\ call'[t].access = a
  BY <1>0, <1>2 DEF OnlyCall, Leased
<1>8. \A q : \A j \in Ids : ~(q = e[1] /\ j = i) => Apart(entry, call, entry', call', q, j)
  BY <1>2, <1>6, <1>7, Bystanders DEF E
<1>9. CASE p # e[1]
  BY <1>8, <1>9, DecayMapped
<1>10. CASE p = e[1]
  <2> DEFINE L == InLine(entry, call, p, i)
             r == Asks(call, t)
  <2>1. PICK k \in 1 .. Len(L) :
             /\ InLine(entry', call', p, i) = RemovedAt(L, k)
             /\ L[k] = r
             /\ k \in 1 .. Len(entry[e].queue) /\ entry[e].queue[k] = t
             /\ E[e].queue = entry[e].queue
             /\ L = Asked(call, entry[e].queue)
    BY <1>2, <1>6, <1>7, <1>10, LineLeft DEF E
  <2>2. r = [thread |-> t, read |-> a = "READ"] /\ r = Asks(call', t)
    BY <1>7 DEF Asks
  <2>3. /\ entry[e].id = i /\ entry[e].busy = E[e].busy /\ entry[e].readers = E[e].readers
    BY <1>2, SweptEntry DEF E
  <2>4. ~E[e].busy /\ (a # "READ" => ~(E[e].readers > 0)) /\ QueueReady(E[e].queue, t, a)
    BY DEF Conflict, E
  <2>5. \A h \in Holds(call, p, i) : a = "READ" /\ h.read
    BY <1>2, <1>10, <2>3, <2>4, HoldersCompatible DEF IInv
  <2>6. k > 1 => /\ a = "READ"
                 /\ LET s == SubSeq(L, 1, k - 1) IN \A j \in 1 .. Len(s) : s[j].read
    <3>1. PICK q \in Seq(Threads) : q = entry[e].queue
      BY <1>2 DEF IInv, Consistent, Typed, EntryRecord
    <3>2. Distinct(q) /\ k \in 1 .. Len(q) /\ q[k] = t
      BY <1>2, <2>1, <3>1 DEF IInv, Consistent, Lined
    <3>3. \A j \in 1 .. k - 1 : j \in 1 .. Len(q) /\ \A m \in 1 .. j : q[m] # t
      BY <3>2, SMTT(60) DEF Distinct
    <3>4. \A j \in 1 .. k - 1 : a = "READ" /\ call[q[j]].access = "READ"
      BY <2>1, <2>4, <3>1, <3>2, <3>3 DEF QueueReady
    <3>5. L = [j \in 1 .. Len(q) |-> Asks(call, q[j])]
      BY <2>1, <3>1 DEF Asked
    <3> DEFINE R == {Asks(call, u) : u \in Threads}
    <3>6. L \in Seq(R) /\ Len(L) = Len(q) /\ Len(q) \in Nat
      BY <3>5
    <3> HIDE DEF L, R
    <3>7. Len(SubSeq(L, 1, k - 1)) = k - 1 /\ \A j \in 1 .. k - 1 : SubSeq(L, 1, k - 1)[j] = L[j]
      BY <3>2, <3>6, PrefixElements
    <3>8. \A j \in 1 .. k - 1 : L[j].read
      BY <3>3, <3>4, <3>5 DEF Asks
    <3> QED
      BY <3>2, <3>4, <3>7, <3>8
  <2>7. Awarded(entry, call, entry', p, i, a = "READ")
    BY <1>2, <1>6, <1>10, AwardedKnown DEF E
  <2>8. Holds(call', p, i) = Holds(call, p, i) \cup {r}
    <3>1. LeasedTo(call'[t], p, i)
      BY <1>7, <1>10 DEF LeasedTo
    <3>2. Holds(call', p, i) = Holds(call, p, i) \cup {Asks(call', t)}
      BY <1>7, <3>1, HoldsGained
    <3> QED
      BY <2>2, <3>2
  <2>9. \A j \in Ids \ {i} : Apart(entry, call, entry', call', p, j)
    BY <1>8
  <2>10. r.read = (a = "READ") /\ r.read \in BOOLEAN
    BY <2>2
  <2> HIDE DEF L, r
  <2>11. Locks(p)!Grant(i, k)
    <3>1. /\ \A h \in Holds(call, p, i) : r.read /\ h.read
          /\ k > 1 => r.read /\ LET s == SubSeq(L, 1, k - 1) IN \A j \in 1 .. Len(s) : s[j].read
          /\ Awarded(entry, call, entry', p, i, r.read)
      BY <2>5, <2>6, <2>7, <2>10
    <3>2. r = InLine(entry, call, p, i)[k]
      BY <2>1 DEF L
    <3> QED
      BY <1>2, <2>1, <2>8, <2>9, <2>10, <3>1, <3>2, GrantMapped DEF L
  <2>12. k \in 1 .. Len(LineOf(p, i))
    BY <2>1, Viewed DEF L
  <2> QED
    BY <1>2, <2>11, <2>12
<1> QED
  BY <1>9, <1>10

-----------------------------------------------------------------------------
(* A client whose entries keep their payload sees the same one ... *)
LEMMA SamePay ==
  ASSUME NEW E, NEW F, NEW p, NEW j,
         \A e \in Entries : e[1] = p =>
           /\ F[e].id = j <=> E[e].id = j
           /\ E[e].id = j => F[e].released = E[e].released
  PROVE  Pay(F, p, j) = Pay(E, p, j)
<1>1. HomeIn(F, p, j) = HomeIn(E, p, j)
  BY DEF HomeIn
<1>2. \A e \in HomeIn(E, p, j) : F[e].released = E[e].released
  BY DEF HomeIn
<1> QED
  BY <1>1, <1>2 DEF Pay

(* ... and if they keep their queues, the same line. *)
LEMMA SameLines ==
  ASSUME NEW E, NEW F, NEW c, NEW p, NEW j,
         \A e \in Entries : e[1] = p =>
           /\ F[e].id = j <=> E[e].id = j
           /\ E[e].id = j => F[e].queue = E[e].queue
  PROVE  InLine(F, c, p, j) = InLine(E, c, p, j)
<1>1. HomeIn(F, p, j) = HomeIn(E, p, j)
  BY DEF HomeIn
<1>2. HomeIn(E, p, j) # {} =>
        F[CHOOSE e \in HomeIn(E, p, j) : TRUE].queue = E[CHOOSE e \in HomeIn(E, p, j) : TRUE].queue
  BY DEF HomeIn
<1> QED
  BY <1>1, <1>2 DEF InLine

(* A client without an entry is given one. *)
LEMMA ServedNew ==
  ASSUME IInv, IInv', NEW clock \in BOOLEAN, NEW t \in Threads, NEW i \in Ids, NEW a \in Accesses,
         AcquireNew(t, i, a, clock), NEW p
  PROVE  Locks(p)!Serve(i, t, a = "READ") \/ Locks(p)!Decay
<1> DEFINE E == Sweep(clock)
<1>1. PICK s \in Victims(E, PoolOf(a)) :
        /\ entry' = Taken(Claimed(E, <<PoolOf(a), s>>, i, clock), <<PoolOf(a), s>>, a)
        /\ call' = Leased(t, i, a, <<PoolOf(a), s>>)
  BY DEF AcquireNew
<1> DEFINE f == <<PoolOf(a), s>>
           C == Claimed(E, f, i, clock)
<1>2. f \in Entries /\ f[1] = PoolOf(a) /\ ~Pinned(E[f])
  BY DEF Victims, PoolOf, Pools, Entries
<1>3. /\ call[t].pc = "idle" /\ a # "READ"
      /\ \A e \in Entries : e[1] = PoolOf(a) => E[e].id # i
  BY DEF AcquireNew, Located
<1>4. Consistent(E, call) /\ Unique(entry') /\ call \in [Threads -> CallRecord]
  BY SweepConsistent DEF IInv, Consistent, Typed
<1>5. Consistent(C, call)
  <2> HIDE DEF E, f
  <2> QED
    BY <1>2, <1>4, ClaimedConsistent
<1>6. E \in [Entries -> EntryRecord] /\ C \in [Entries -> EntryRecord]
  BY <1>4, <1>5 DEF Consistent, Typed
<1>7. /\ \A e \in Entries : e # f => C[e] = E[e]
      /\ C[f].id = i /\ C[f].queue = <<>> /\ C[f].released = FALSE
  <2> HIDE DEF E, f
  <2> QED
    BY <1>2, <1>6 DEF Claimed, EmptyEntry
<1>8. entry' = Taken(C, f, a) /\ call' = Leased(t, i, a, f)
  BY <1>1
<1> HIDE DEF C, E, f
<1>9. /\ \A e \in Entries : e # f => entry'[e] = E[e]
      /\ entry'[f].id = i /\ entry'[f].queue = <<>> /\ entry'[f].released = FALSE
  BY <1>2, <1>6, <1>7, <1>8, TakenEntry
<1>10. /\ OnlyCall(call, call', t) /\ call'[t].pc = "leased"
       /\ call'[t].id = i /\ call'[t].entry = f /\ call'[t].access = a
  BY <1>4, <1>8 DEF OnlyCall, Leased
<1>11. \A q : \A j \in Ids : ~(q = f[1] /\ j = i) => Apart(entry, call, entry', call', q, j)
  <2>1. /\ call[t].pc # "idle" => call[t].id = i /\ call[t].entry = f
        /\ call'[t].pc # "idle" => call'[t].id = i /\ call'[t].entry = f
        /\ entry'[f].id = i
        /\ Sweep(clock)[f].id = i \/ ~Pinned(Sweep(clock)[f])
        /\ \A e \in Entries : e # f => /\ entry'[e].id = Sweep(clock)[e].id
                                       /\ entry'[e].released = Sweep(clock)[e].released
                                       /\ entry'[e].queue = Sweep(clock)[e].queue
    BY <1>2, <1>3, <1>9, <1>10 DEF E
  <2> QED
    BY <1>2, <1>10, <2>1, Bystanders
<1>12. CASE p # f[1]
  BY <1>11, <1>12, DecayMapped
<1>13. CASE p = f[1]
  <2>1. Uninvolved(entry, call, p, t)
    BY <1>3, IdleUninvolved
  <2>2. Unused(entry, call, p, i) /\ Pay(entry, p, i) \in {"absent", "live"}
    <3>1. CASE \A e \in Entries : e[1] = p => entry[e].id # i
      <4>1. Pay(entry, p, i) = "absent" /\ InLine(entry, call, p, i) = <<>>
        BY <3>1, Homeless
      <4>2. Holds(call, p, i) = {}
        BY <3>1, HoldersHomeless DEF IInv
      <4> QED
        BY <4>1, <4>2 DEF Unused
    <3>2. ASSUME NEW e \in Entries, e[1] = p, entry[e].id = i
          PROVE  Unused(entry, call, p, i) /\ Pay(entry, p, i) = "live"
      <4>1. e \in Swept(clock)
        BY <1>2, <1>3, <1>13, <3>2 DEF E, Sweep
      <4>2. ~Pinned(entry[e]) /\ ~entry[e].released
        BY <4>1 DEF Swept, Expirable
      <4>3. Pay(entry, e[1], i) = "live"
        BY <3>2, <4>2, AtHome DEF IInv
      <4>4. Unused(entry, call, e[1], i)
        BY <3>2, <4>2, FreeIsUnpinned DEF IInv, Unused
      <4> QED
        BY <3>2, <4>3, <4>4
    <3> QED
      BY <3>1, <3>2
  <2>3. Pay(entry', p, i) = "live"
    BY <1>2, <1>4, <1>9, <1>13, AtHome
  <2>4. Awarded(entry, call, entry', p, i, a = "READ")
    BY <1>3, <2>2, <2>3 DEF Awarded
  <2>5. Holds(call', p, i) = Holds(call, p, i) \cup {[thread |-> t, read |-> a = "READ"]}
    <3>1. LeasedTo(call'[t], p, i) /\ call[t].pc # "leased"
      BY <1>3, <1>10, <1>13 DEF LeasedTo
    <3>2. Holds(call', p, i) = Holds(call, p, i) \cup {Asks(call', t)}
      BY <1>10, <3>1, HoldsGained
    <3>3. Asks(call', t) = [thread |-> t, read |-> a = "READ"]
      BY <1>10 DEF Asks
    <3> QED
      BY <3>2, <3>3
  <2>6. SameLine(entry, call, entry', call', p, i)
    <3>1. InLine(entry', call', p, i) = Asked(call', <<>>)
      BY <1>2, <1>4, <1>9, <1>13, LineAtHome
    <3> QED
      BY <2>2, <3>1, AskedNone DEF SameLine, Unused
  <2>7. \A j \in Ids \ {i} : Apart(entry, call, entry', call', p, j)
    BY <1>11
  <2>8. Holds(call, p, i) = {} /\ InLine(entry, call, p, i) = <<>>
    BY <2>2 DEF Unused
  <2> QED
    BY <2>1, <2>4, <2>5, <2>6, <2>7, <2>8, ServeMapped
<1> QED
  BY <1>12, <1>13

(* A lease is given back. *)
LEMMA Unlocked ==
  ASSUME IInv, IInv', NEW t \in Threads, NEW clock, Release(t, clock), NEW p
  PROVE  (\E i \in Ids : \E h \in HoldersOf(p, i) : Locks(p)!Unlock(i, h)) \/ Locks(p)!Decay
<1> DEFINE e == call[t].entry
           i == call[t].id
<1>1. /\ entry \in [Entries -> EntryRecord] /\ call \in [Threads -> CallRecord]
      /\ call[t].pc = "leased" /\ e \in Entries /\ i \in Ids /\ entry[e].id = i
  BY DEF Release, IInv, Consistent, Typed, Identified, CallRecord
<1>2. \A f \in Entries : /\ entry'[f].queue = entry[f].queue
                         /\ entry'[f].id = entry[f].id
                         /\ entry'[f].released = entry[f].released
  BY <1>1, FreedRest DEF Release
<1>3. OnlyCall(call, call', t) /\ call'[t].pc = "idle"
  BY <1>1 DEF Release, OnlyCall, NoCall
<1> HIDE DEF e, i
<1>4. \A q : \A j \in Ids : ~(q = e[1] /\ j = i) => Apart(entry, call, entry', call', q, j)
  <2>1. FALSE \in BOOLEAN /\ Sweep(FALSE) = entry
    BY <1>1, NoSweep
  <2>2. /\ call[t].pc # "idle" => call[t].id = i /\ call[t].entry = e
        /\ call'[t].pc # "idle" => call'[t].id = i /\ call'[t].entry = e
        /\ entry'[e].id = i
        /\ Sweep(FALSE)[e].id = i \/ ~Pinned(Sweep(FALSE)[e])
        /\ \A f \in Entries : f # e => /\ entry'[f].id = Sweep(FALSE)[f].id
                                       /\ entry'[f].released = Sweep(FALSE)[f].released
                                       /\ entry'[f].queue = Sweep(FALSE)[f].queue
    BY <1>1, <1>2, <1>3, <2>1 DEF e, i
  <2> QED
    BY <1>1, <1>3, <2>1, <2>2, Bystanders
<1>5. CASE p # e[1]
  BY <1>4, <1>5, DecayMapped
<1>6. CASE p = e[1]
  <2>1. /\ Holds(call', p, i) = Holds(call, p, i) \ {Asks(call, t)}
        /\ Asks(call, t) \in Holds(call, p, i)
    <3>1. LeasedTo(call[t], p, i)
      BY <1>1, <1>6 DEF LeasedTo, e, i
    <3> QED
      BY <1>1, <1>3, <3>1, HoldsLost
  <2>2. \A j \in Ids : Pay(entry', p, j) = Pay(entry, p, j)
    BY <1>2, SamePay
  <2>3. SameLine(entry, call, entry', call', p, i)
    <3>1. SameAccess(entry, call, call', p, i)
      BY <1>1, <1>3, AccessElsewhere
    <3>2. Asked(call', entry[e].queue) = Asked(call, entry[e].queue)
      BY <1>1, <1>6, <3>1, AskedSame DEF SameAccess
    <3>3. InLine(entry, call', p, i) = Asked(call', entry[e].queue)
          /\ InLine(entry, call, p, i) = Asked(call, entry[e].queue)
      BY <1>1, <1>6, LineAtHome DEF IInv
    <3>4. InLine(entry', call', p, i) = InLine(entry, call', p, i)
      BY <1>2, SameLines
    <3> QED
      BY <3>2, <3>3, <3>4 DEF SameLine
  <2>4. \A j \in Ids \ {i} : /\ SameHolders(call, call', p, j)
                            /\ SameLine(entry, call, entry', call', p, j)
    BY <1>4 DEF Apart
  <2>5. Locks(p)!Unlock(i, Asks(call, t))
    BY <1>1, <2>1, <2>2, <2>3, <2>4, UnlockMapped
  <2>6. Asks(call, t) \in HoldersOf(p, i)
    BY <2>1, Viewed
  <2> QED
    BY <1>1, <2>5, <2>6
<1> QED
  BY <1>5, <1>6

(* A step of no call, that only does to entries what time may do. *)
LEMMA QuietDecays ==
  ASSUME IInv, IInv', call' = call, NEW p, \A i \in Ids : Calm(entry, entry', p, i)
  PROVE  Locks(p)!Decay
<1>1. Consistent(entry, call) /\ Unique(entry) /\ Unique(entry')
  BY DEF IInv
<1>2. \A i \in Ids : SameAccess(entry, call, call', p, i) /\ SameHolders(call, call', p, i)
  BY DEF SameAccess, SameHolders
<1>3. \A i \in Ids : Apart(entry, call, entry', call', p, i)
  BY <1>1, <1>2, CalmIsApart
<1> QED
  BY <1>3, DecayMapped

(* The sweep alone, or a step that keeps ids, queues and payloads. *)
LEMMA SweepDecays ==
  ASSUME IInv, IInv', call' = call, NEW clock \in BOOLEAN, NEW p,
         \A e \in Entries : /\ entry'[e].id = Sweep(clock)[e].id
                            /\ entry'[e].released = Sweep(clock)[e].released
                            /\ entry'[e].queue = Sweep(clock)[e].queue
  PROVE  Locks(p)!Decay
<1>1. \A i \in Ids : Calm(entry, entry', p, i)
  BY SweptCalm
<1> QED
  BY <1>1, QuietDecays

(* The end of a session. *)
LEMMA Retired ==
  ASSUME IInv, IInv', NEW t \in Threads, ReleaseSession(t), NEW p
  PROVE  (\E i \in Ids : Locks(p)!Retire(i)) \/ Locks(p)!Decay
<1> DEFINE e == call[t].entry
           i == call[t].id
<1>1. /\ entry \in [Entries -> EntryRecord] /\ call[t].pc = "leased" /\ call[t].access = "RETAINED"
      /\ e \in Entries /\ i \in Ids /\ entry[e].id = i /\ ~entry[e].released
      /\ Unique(entry) /\ Unique(entry') /\ call' = call
  BY DEF ReleaseSession, IInv, Consistent, Typed, Identified, CallRecord
<1>2. entry' = [entry EXCEPT ![e].bytes = 0, ![e].released = TRUE]
  BY DEF ReleaseSession
<1> HIDE DEF e, i
<1>3. /\ \A f \in Entries : f # e => entry'[f] = entry[f]
      /\ \A f \in Entries : entry'[f].id = entry[f].id /\ entry'[f].queue = entry[f].queue
      /\ entry'[e].released
  BY <1>1, <1>2 DEF EntryRecord
<1>4. CASE p # e[1]
  <2>1. \A j \in Ids : Calm(entry, entry', p, j)
    BY <1>3, <1>4 DEF Calm
  <2> QED
    BY <1>1, <2>1, QuietDecays
<1>5. CASE p = e[1]
  <2>1. t \in HoldingIn(call, p, i)
    BY <1>1, <1>5 DEF HoldingIn, e, i
  <2>2. Asks(call, t) \in Holds(call, p, i) /\ ~Asks(call, t).read
    BY <1>1, <2>1 DEF Holds, Asks
  <2>3. Pay(entry, p, i) = "live"
    BY <1>1, <1>5, AtHome
  <2>4. Pay(entry', p, i) = "retired"
    <3>1. entry'[e].id = i
      BY <1>1, <1>3
    <3> QED
      BY <1>1, <1>3, <1>5, <3>1, AtHome
  <2>5. ASSUME NEW j \in Ids \ {i} PROVE Pay(entry', p, j) = Pay(entry, p, j)
    <3>1. \A f \in Entries : /\ entry'[f].id = j <=> entry[f].id = j
                             /\ entry[f].id = j => entry'[f].released = entry[f].released
      BY <1>1, <1>3
    <3> QED
      BY <3>1, SamePay
  <2>6. \A j \in Ids : /\ SameHolders(call, call', p, j)
                      /\ SameLine(entry, call, entry', call', p, j)
    <3>1. \A j \in Ids : InLine(entry', call, p, j) = InLine(entry, call, p, j)
      BY <1>3, SameLines
    <3> QED
      BY <1>1, <3>1 DEF SameHolders, SameLine
  <2> QED
    BY <1>1, <2>2, <2>3, <2>4, <2>5, <2>6, RetireMapped
<1> QED
  BY <1>4, <1>5

(* A store that is destroyed forgets clients nobody uses. *)
LEMMA DestroyDecays ==
  ASSUME IInv, IInv', Destroy, NEW p
  PROVE  Locks(p)!Decay
<1>1. \A t \in Threads : call[t].pc = "idle"
  BY UnusedStore
<1>2. ASSUME NEW e \in Entries PROVE ~Pinned(entry[e]) /\ entry'[e].id = NoId
  <2>1. ~entry[e].busy /\ entry[e].readers = 0 /\ entry'[e].id = NoId
    BY DEF Destroy, EmptyEntry
  <2>2. Queuers(call, e) = {}
    BY <1>1 DEF Queuers
  <2>3. PICK q \in Seq(Threads) : q = entry[e].queue
    BY DEF IInv, Consistent, Typed, EntryRecord
  <2>4. Len(q) = 0
    BY <2>2, <2>3, FS_EmptySet DEF IInv, Consistent, Lined
  <2>5. q = <<>>
    BY <2>4
  <2> QED
    BY <2>1, <2>3, <2>5 DEF Pinned
<1>3. \A i \in Ids : Calm(entry, entry', p, i)
  BY <1>2, ConstantsAssumption DEF Calm
<1> QED
  BY <1>3, QuietDecays DEF Destroy

-----------------------------------------------------------------------------
(* Every call of the store is a step of the lock of each pool. *)
LEMMA AcquireMapped ==
  ASSUME IInv, IInv', NEW t \in Threads, NEW i \in Ids, NEW a \in Accesses,
         \/ \E clock \in ClockReads : AcquireKnown(t, i, a, clock)
         \/ \E clock \in ClockReads : AcquireNew(t, i, a, clock)
         \/ AcquireWaiting(t, i, a),
         NEW p
  PROVE  Locks(p)!Serve(i, t, a = "READ") \/ Locks(p)!Wait(i, t, a = "READ") \/ Locks(p)!Decay
<1>1. a \in AllAccesses /\ ClockReads \subseteq BOOLEAN /\ TRUE \in BOOLEAN
  BY ConstantsAssumption
<1>2. ASSUME NEW clock \in ClockReads, AcquireKnown(t, i, a, clock)
      PROVE  Locks(p)!Serve(i, t, a = "READ") \/ Locks(p)!Decay
  <2> DEFINE E == Sweep(clock)
  <2>1. PICK e \in Located(E, a, i) :
          /\ ~Conflict(E[e], t, a)
          /\ ~Gone(E[e], a)
          /\ entry' = Taken(E, e, a)
          /\ call' = Leased(t, i, a, e)
    BY <1>2 DEF AcquireKnown
  <2>2. call[t].pc = "idle" /\ e \in Entries /\ clock \in BOOLEAN
    BY <1>1, <1>2 DEF AcquireKnown, Located
  <2>3. E[e].queue \in Seq(Threads) /\ \A k \in 1 .. Len(E[e].queue) : E[e].queue[k] # t
    BY <2>2, IdleOutside
  <2>4. ~E[e].busy /\ (a # "READ" => ~(E[e].readers > 0)) /\ QueueReady(E[e].queue, t, a)
    BY <2>1 DEF Conflict
  <2>5. E[e].queue = <<>>
    BY <2>3, <2>4, ReadyOutside
  <2> QED
    BY <1>1, <2>1, <2>2, <2>4, <2>5, ServedKnown
<1>3. ASSUME NEW clock \in ClockReads, AcquireNew(t, i, a, clock)
      PROVE  Locks(p)!Serve(i, t, a = "READ") \/ Locks(p)!Decay
  BY <1>1, <1>3, ServedNew
<1>4. ASSUME AcquireWaiting(t, i, a)
      PROVE  Locks(p)!Serve(i, t, a = "READ") \/ Locks(p)!Wait(i, t, a = "READ") \/ Locks(p)!Decay
  <2> DEFINE E == Sweep(TRUE)
  <2>1. PICK e \in Located(E, a, i) :
          LET joined == [E EXCEPT ![e].queue = Append(@, t)]
          IN /\ Conflict(E[e], t, a)
             /\ \/ /\ entry' = joined
                   /\ call' = [call EXCEPT ![t] =
                        [pc |-> "queued", id |-> i, access |-> a, entry |-> e]]
                \/ /\ ~Conflict(joined[e], t, a)
                   /\ ~Gone(E[e], a)
                   /\ entry' = Taken(E, e, a)
                   /\ call' = Leased(t, i, a, e)
                \/ entry' = E /\ call' = call
    BY <1>4 DEF AcquireWaiting
  <2>2. call[t].pc = "idle" /\ e \in Entries
    BY <1>4 DEF AcquireWaiting, Located
  <2>3. CASE /\ entry' = [E EXCEPT ![e].queue = Append(@, t)]
             /\ call' = [call EXCEPT ![t] = [pc |-> "queued", id |-> i, access |-> a, entry |-> e]]
    BY <1>1, <2>1, <2>2, <2>3, JoinedWaits
  <2>4. CASE /\ ~Conflict([E EXCEPT ![e].queue = Append(@, t)][e], t, a)
             /\ ~Gone(E[e], a)
             /\ entry' = Taken(E, e, a)
             /\ call' = Leased(t, i, a, e)
    <3>1. E[e].queue \in Seq(Threads) /\ \A k \in 1 .. Len(E[e].queue) : E[e].queue[k] # t
      BY <1>1, <2>2, IdleOutside
    <3>2. E \in [Entries -> EntryRecord]
      BY SweepConsistent DEF IInv, Consistent, Typed
    <3> HIDE DEF E
    <3>3. /\ ~E[e].busy /\ (a # "READ" => ~(E[e].readers > 0))
          /\ QueueReady(Append(E[e].queue, t), t, a)
      BY <2>2, <2>4, <3>2 DEF Conflict, EntryRecord
    <3>4. \A k \in 1 .. Len(E[e].queue) : a = "READ" /\ call[E[e].queue[k]].access = "READ"
      BY <3>1, <3>3, ReadyOutside
    <3>5. E[e].queue # <<>> => 1 \in 1 .. Len(E[e].queue)
      BY <3>1
    <3>6. E[e].queue # <<>> =>
            /\ a = "READ"
            /\ \A k \in 1 .. Len(E[e].queue) : call[E[e].queue[k]].access = "READ"
      BY <3>4, <3>5
    <3> QED
      BY <1>1, <2>2, <2>4, <3>3, <3>6, ServedKnown DEF E
  <2>5. CASE entry' = E /\ call' = call
    BY <1>1, <2>5, SweepDecays
  <2> QED
    BY <2>1, <2>3, <2>4, <2>5
<1> QED
  BY <1>2, <1>3, <1>4

(* A woken call is granted, leaves its line, or waits on. *)
LEMMA RecheckMapped ==
  ASSUME IInv, IInv', NEW t \in Threads, Recheck(t), NEW p
  PROVE  \/ \E i \in Ids : \E k \in 1 .. Len(LineOf(p, i)) : Locks(p)!Grant(i, k) \/ Locks(p)!Leave(i, k)
         \/ Locks(p)!Decay
<1> DEFINE E == Sweep(TRUE)
           e == call[t].entry
           i == call[t].id
           a == call[t].access
<1>1. PICK f \in Located(E, a, i) :
        \/ entry' = E /\ call' = call
        \/ /\ ~Conflict(E[f], t, a)
           /\ ~Gone(E[f], a)
           /\ entry' = Taken(Dequeued(E, f, t), f, a)
           /\ call' = Leased(t, i, a, f)
        \/ /\ entry' = Dequeued(E, f, t)
           /\ call' = [call EXCEPT ![t] = NoCall]
  BY DEF Recheck
<1>2. call[t].pc = "queued"
  BY DEF Recheck
<1>3. f = e
  BY <1>2, HomeOfQueued
<1>4. CASE entry' = E /\ call' = call
  BY <1>4, SweepDecays
<1>5. CASE /\ ~Conflict(E[e], t, a)
           /\ ~Gone(E[e], a)
           /\ entry' = Taken(Dequeued(E, e, t), e, a)
           /\ call' = Leased(t, i, a, e)
  BY <1>2, <1>5, WaiterServed
<1>6. CASE entry' = Dequeued(E, e, t) /\ call' = [call EXCEPT ![t] = NoCall]
  BY <1>2, <1>6, WaiterLeaves
<1> QED
  BY <1>1, <1>3, <1>4, <1>5, <1>6

(* Every step of the store is one of the lock of each pool. *)
LEMMA NextMapped ==
  ASSUME IInv, [Next]_vars, NEW p
  PROVE  Locks(p)!Next
<1>1. IInv' /\ entry \in [Entries -> EntryRecord]
  BY NextIInv DEF IInv, Consistent, Typed
<1>2. Sweep(FALSE) = entry /\ FALSE \in BOOLEAN
  BY <1>1, NoSweep
<1>3. Locks(p)!Next <=>
        \/ \E i \in Ids, t \in Threads, read \in BOOLEAN :
             Locks(p)!Serve(i, t, read) \/ Locks(p)!Wait(i, t, read)
        \/ \E i \in Ids : \E k \in 1 .. Len(LineOf(p, i)) : Locks(p)!Grant(i, k) \/ Locks(p)!Leave(i, k)
        \/ \E i \in Ids : \E h \in HoldersOf(p, i) : Locks(p)!Unlock(i, h)
        \/ \E i \in Ids : Locks(p)!Retire(i)
        \/ Locks(p)!Decay
  BY DEF Locks!Next
<1>4. ASSUME NEW t \in Threads, NEW i \in Ids, NEW a \in Accesses,
             \/ \E clock \in ClockReads : AcquireKnown(t, i, a, clock)
             \/ \E clock \in ClockReads : AcquireNew(t, i, a, clock)
             \/ AcquireWaiting(t, i, a)
      PROVE  Locks(p)!Next
  <2>1. Locks(p)!Serve(i, t, a = "READ") \/ Locks(p)!Wait(i, t, a = "READ") \/ Locks(p)!Decay
    BY <1>1, <1>4, AcquireMapped
  <2>2. PICK read \in BOOLEAN : read = (a = "READ")
    OBVIOUS
  <2>3. Locks(p)!Serve(i, t, read) \/ Locks(p)!Wait(i, t, read) \/ Locks(p)!Decay
    BY <2>1, <2>2
  <2> QED
    BY <1>3, <2>3
<1>5. ASSUME NEW t \in Threads, Recheck(t) PROVE Locks(p)!Next
  BY <1>1, <1>3, <1>5, RecheckMapped
<1>6. ASSUME NEW t \in Threads, GiveUp(t) PROVE Locks(p)!Next
  <2>1. /\ call[t].pc = "queued"
        /\ entry' = Dequeued(Sweep(FALSE), call[t].entry, t)
        /\ call' = [call EXCEPT ![t] = NoCall]
    BY <1>2, <1>6 DEF GiveUp
  <2>2. (\E i \in Ids : \E k \in 1 .. Len(LineOf(p, i)) : Locks(p)!Leave(i, k)) \/ Locks(p)!Decay
    BY <1>1, <1>2, <2>1, WaiterLeaves
  <2> QED
    BY <1>3, <2>2
<1>7. ASSUME NEW t \in Threads, NEW clock \in ClockReads, Release(t, clock) PROVE Locks(p)!Next
  BY <1>1, <1>3, <1>7, Unlocked
<1>8. ASSUME NEW t \in Threads, ReleaseSession(t) PROVE Locks(p)!Next
  BY <1>1, <1>3, <1>8, Retired
<1>9. ASSUME NEW clock \in ClockReads, Expire(clock) PROVE Locks(p)!Next
  <2>1. clock \in BOOLEAN /\ entry' = Sweep(clock) /\ call' = call
    BY <1>9, ConstantsAssumption DEF Expire
  <2> QED
    BY <1>1, <1>3, <2>1, SweepDecays
<1>10. ASSUME Destroy PROVE Locks(p)!Next
  BY <1>1, <1>3, <1>10, DestroyDecays
<1>11. ASSUME \/ \E t \in Threads : SpuriousWake(t) \/ \E bytes \in ByteSizes : Resize(t, bytes)
              \/ \E e \in Entries : Elapse(e)
              \/ \E new \in Limits : Configure(new)
              \/ UNCHANGED vars
       PROVE  Locks(p)!Next
  <2>1. call' = call
    BY <1>11 DEF SpuriousWake, Resize, Elapse, Configure, vars
  <2>2. \A e \in Entries : /\ entry'[e].id = entry[e].id
                           /\ entry'[e].released = entry[e].released
                           /\ entry'[e].queue = entry[e].queue
    <3>1. ASSUME NEW f \in Entries, NEW b, entry' = [entry EXCEPT ![f].bytes = b]
          PROVE  \A e \in Entries : /\ entry'[e].id = entry[e].id
                                    /\ entry'[e].released = entry[e].released
                                    /\ entry'[e].queue = entry[e].queue
      BY <1>1, <3>1 DEF EntryRecord
    <3>6. ASSUME NEW f \in Entries, NEW b, entry' = [entry EXCEPT ![f].lastUsed = b]
          PROVE  \A e \in Entries : /\ entry'[e].id = entry[e].id
                                    /\ entry'[e].released = entry[e].released
                                    /\ entry'[e].queue = entry[e].queue
      BY <1>1, <3>6 DEF EntryRecord
    <3>2. ASSUME NEW t \in Threads, NEW bytes \in ByteSizes, Resize(t, bytes)
          PROVE  \E f \in Entries : entry' = [entry EXCEPT ![f].bytes = bytes]
      BY <3>2 DEF Resize, IInv, Consistent, Typed, CallRecord
    <3>3. ASSUME NEW e \in Entries, Elapse(e)
          PROVE  entry' = [entry EXCEPT ![e].lastUsed = "idle"]
      BY <3>3 DEF Elapse
    <3>4. ASSUME entry' = entry
          PROVE  \A e \in Entries : /\ entry'[e].id = entry[e].id
                                    /\ entry'[e].released = entry[e].released
                                    /\ entry'[e].queue = entry[e].queue
      BY <3>4
    <3>5. ASSUME (\E t \in Threads : SpuriousWake(t)) \/ (\E new \in Limits : Configure(new)) \/ UNCHANGED vars
          PROVE  entry' = entry
      BY <3>5 DEF SpuriousWake, Configure, vars
    <3> QED
      BY <1>11, <3>1, <3>6, <3>2, <3>3, <3>4, <3>5
  <2>3. Locks(p)!Decay
    BY <1>1, <1>2, <2>1, <2>2, SweepDecays
  <2> QED
    BY <1>3, <2>3
<1> QED
  BY <1>4, <1>5, <1>6, <1>7, <1>8, <1>9, <1>10, <1>11 DEF Next

(* The empty store is the lock of clients that have never been started. *)
LEMMA InitMapped ==
  ASSUME Init, NEW p
  PROVE  Locks(p)!Init
<1>1. \A e \in Entries : entry[e].id = NoId
  BY DEF Init, EmptyEntry
<1>2. \A t \in Threads : call[t].pc = "idle"
  BY DEF Init, NoCall
<1>3. ASSUME NEW i \in Ids
      PROVE  PayloadOf(p, i) = "absent" /\ HoldersOf(p, i) = {} /\ LineOf(p, i) = <<>>
  <2>1. Pay(entry, p, i) = "absent" /\ InLine(entry, call, p, i) = <<>>
    BY <1>1, Homeless, ConstantsAssumption
  <2>2. Holds(call, p, i) = {}
    BY <1>2 DEF Holds, HoldingIn
  <2> QED
    BY <2>1, <2>2, Viewed
<1> QED
  BY <1>3 DEF Locks!Init

(* Locks, for the sessions ... *)
LEMMA SessionLocksSame ==
  /\ SessionLocks!Init <=> Locks("session")!Init
  /\ SessionLocks!Next <=> Locks("session")!Next
<1>1. SessionLocks!Init <=> Locks("session")!Init
  BY DEF SessionLocks!Init, Locks!Init
<1>2. SessionLocks!Next <=> Locks("session")!Next
  BY DEF SessionLocks!Next, SessionLocks!Free, SessionLocks!Decays, SessionLocks!OthersDecay,
         SessionLocks!Compatible, SessionLocks!ReadersOnly, SessionLocks!Idle,
         SessionLocks!Granted, SessionLocks!Serve, SessionLocks!Wait, SessionLocks!Removed,
         SessionLocks!Grant, SessionLocks!Leave, SessionLocks!Unlock, SessionLocks!Retire,
         SessionLocks!Decay,
         Locks!Next, Locks!Free, Locks!Decays, Locks!OthersDecay, Locks!Compatible,
         Locks!ReadersOnly, Locks!Idle, Locks!Granted, Locks!Serve, Locks!Wait, Locks!Removed,
         Locks!Grant, Locks!Leave, Locks!Unlock, Locks!Retire, Locks!Decay
<1> QED
  BY <1>1, <1>2

(* ... and for the caches, is the instance the property names. *)
LEMMA CacheLocksSame ==
  /\ CacheLocks!Init <=> Locks("cache")!Init
  /\ CacheLocks!Next <=> Locks("cache")!Next
<1>1. CacheLocks!Init <=> Locks("cache")!Init
  BY DEF CacheLocks!Init, Locks!Init
<1>2. CacheLocks!Next <=> Locks("cache")!Next
  BY DEF CacheLocks!Next, CacheLocks!Free, CacheLocks!Decays, CacheLocks!OthersDecay,
         CacheLocks!Compatible, CacheLocks!ReadersOnly, CacheLocks!Idle, CacheLocks!Granted,
         CacheLocks!Serve, CacheLocks!Wait, CacheLocks!Removed, CacheLocks!Grant,
         CacheLocks!Leave, CacheLocks!Unlock, CacheLocks!Retire, CacheLocks!Decay,
         Locks!Next, Locks!Free, Locks!Decays, Locks!OthersDecay, Locks!Compatible,
         Locks!ReadersOnly, Locks!Idle, Locks!Granted, Locks!Serve, Locks!Wait, Locks!Removed,
         Locks!Grant, Locks!Leave, Locks!Unlock, Locks!Retire, Locks!Decay
<1> QED
  BY <1>1, <1>2

(* For any threads, clients, entries and limits, each pool of the store is a
   reader-writer lock with a FIFO line for each client: leases only exist
   together if all read, calls are served in the order in which they came
   unless all that pass each other read, a payload changes only under its own
   lock, and a session that ended stays ended until it is forgotten
   (client_store.h:76 and 89-121). *)
THEOREM PoolsRefineLocks == Spec => PoolsAreLocks
<1>1. Init => SessionLocks!Init /\ CacheLocks!Init
  BY InitMapped, SessionLocksSame, CacheLocksSame
<1>2. IInv /\ [Next]_vars => [SessionLocks!Next]_SessionLocks!vars /\ [CacheLocks!Next]_CacheLocks!vars
  BY NextMapped, SessionLocksSame, CacheLocksSame
<1> QED
  BY <1>1, <1>2, Invariance, PTL DEF Spec, PoolsAreLocks, SessionLocks!Spec, CacheLocks!Spec

=============================================================================
