----------------------------- MODULE NumericsProofs -----------------------------
(***************************************************************************)
(* Proofs about AdaptiveGraph and RootSearch, which share no state.        *)
(*                                                                         *)
(* The graph: for every limit on samples and on depth, and that its ring   *)
(* implements the queue of CurveEdges.  QueueFits and ActiveEdgesDisjoint  *)
(* are not inductive: that the ring is laid out right when it is allocated *)
(* needs RingFollowsStage, which says where the ring stands before it      *)
(* exists and that nothing has been drawn by then.  The refinement also    *)
(* needs that the axis is in order (Sorted): an anchor replaces the edge   *)
(* it is found in, and no other edge may be the same.                      *)
(*                                                                         *)
(* The roots: for every function and every allowance.  RootsBracketed is   *)
(* not inductive: that a search keeps its bracket needs what it remembers  *)
(* of the signs and that its bounds are far enough apart for the moves it  *)
(* has left (Bounded), and that a scan hands over every change of sign     *)
(* needs what it owes while it stands at a cell (Thorough) and that the    *)
(* samples a search may take are set aside before it begins (ScanHolds).   *)
(***************************************************************************)
EXTENDS AdaptiveGraph, RootSearch, SequenceTheorems, WellFoundedInduction, TLAPS

(* An index of the ring after at most one turn. *)
Wrapped(n) == IF n < PointLimit THEN n ELSE n - PointLimit

(* Less than one turn past the end, the remainder is a subtraction. *)
LEMMA Wraps ==
  ASSUME NEW n \in 0 .. 2 * PointLimit - 1
  PROVE  n % PointLimit = Wrapped(n)
<1>1. PointLimit \in Nat /\ PointLimit > 0
  BY GraphAssumption
<1>2. CASE n < PointLimit
  BY <1>1, <1>2 DEF Wrapped
<1>3. CASE n >= PointLimit
  <2>1. n = PointLimit * 1 + (n - PointLimit)
    BY <1>1
  <2>2. n - PointLimit \in 0 .. PointLimit - 1
    BY <1>1, <1>3
  <2> QED
    BY <1>1, <1>3, <2>1, <2>2 DEF Wrapped
<1> QED
  BY <1>1, <1>2, <1>3

(* What the sequence with one element more consists of, position by position. *)
Grown(s, i, x, t) ==
  \A k \in 1 .. Len(s) + 1 : t[k] = IF k <= i THEN s[k] ELSE IF k = i + 1 THEN x ELSE s[k - 1]

(* And it is one. *)
LEMMA InsertedProperties ==
  ASSUME NEW S, NEW s \in Seq(S), NEW i \in 0 .. Len(s), NEW x \in S
  PROVE  /\ Inserted(s, i, x) \in Seq(S)
         /\ Len(Inserted(s, i, x)) = Len(s) + 1
         /\ Grown(s, i, x, Inserted(s, i, x))
<1> DEFINE a == SubSeq(s, 1, i)
           b == SubSeq(s, i + 1, Len(s))
<1>1. Len(s) \in Nat /\ i \in Int
  BY LenProperties
<1>2. a \in Seq(S) /\ Len(a) = i /\ \A k \in 1 .. i : a[k] = s[k]
  <2>1. \A k \in 1 .. i : s[k] \in S
    BY <1>1, ElementOfSeq
  <2>2. a \in Seq(S) /\ Len(a) = (IF 1 <= i THEN i - 1 + 1 ELSE 0) /\ \A k \in 1 .. i - 1 + 1 : a[k] = s[1 + k - 1]
    BY <1>1, <2>1, SubSeqProperties
  <2> QED
    BY <1>1, <2>2
<1>3. b \in Seq(S) /\ Len(b) = Len(s) - i /\ \A k \in 1 .. Len(s) - i : b[k] = s[i + k]
  <2>1. \A k \in i + 1 .. Len(s) : s[k] \in S
    BY <1>1, ElementOfSeq
  <2>2. /\ b \in Seq(S)
        /\ Len(b) = IF i + 1 <= Len(s) THEN Len(s) - (i + 1) + 1 ELSE 0
        /\ \A k \in 1 .. Len(s) - (i + 1) + 1 : b[k] = s[i + 1 + k - 1]
    BY <1>1, <2>1, SubSeqProperties
  <2> QED
    BY <1>1, <2>2
<1>4. <<x>> \in Seq(S) /\ Len(<<x>>) = 1 /\ <<x>>[1] = x
  OBVIOUS
<1> DEFINE c == a \o <<x>>
<1>5. c \in Seq(S) /\ Len(c) = i + 1 /\ \A k \in 1 .. i + 1 : c[k] = IF k <= i THEN s[k] ELSE x
  <2>1. /\ c \in Seq(S)
        /\ Len(c) = Len(a) + Len(<<x>>)
        /\ \A k \in 1 .. Len(a) + Len(<<x>>) : c[k] = IF k <= Len(a) THEN a[k] ELSE <<x>>[k - Len(a)]
    BY <1>2, <1>4, ConcatProperties
  <2> QED
    BY <1>1, <1>2, <1>4, <2>1
<1>6. /\ c \o b \in Seq(S)
      /\ Len(c \o b) = Len(c) + Len(b)
      /\ \A k \in 1 .. Len(c) + Len(b) : (c \o b)[k] = IF k <= Len(c) THEN c[k] ELSE b[k - Len(c)]
  BY <1>3, <1>5, ConcatProperties
<1>7. Inserted(s, i, x) = c \o b
  BY DEF Inserted
<1> HIDE DEF a, b, c
<1>8. Len(c \o b) = Len(s) + 1
  BY <1>1, <1>3, <1>5, <1>6
<1>9. ASSUME NEW k \in 1 .. Len(s) + 1
      PROVE  (c \o b)[k] = IF k <= i THEN s[k] ELSE IF k = i + 1 THEN x ELSE s[k - 1]
  <2>1. k \in 1 .. Len(c) + Len(b)
    BY <1>1, <1>3, <1>5
  <2>2. CASE k <= i + 1
    BY <1>1, <1>5, <1>6, <2>1, <2>2
  <2>3. CASE k > i + 1
    <3>1. ~(k <= Len(c)) /\ k - Len(c) = k - 1 - i
      BY <1>1, <1>5, <2>3
    <3>2. (c \o b)[k] = b[k - Len(c)]
      BY <1>6, <2>1, <3>1
    <3>3. k - 1 - i \in 1 .. Len(s) - i /\ i + (k - 1 - i) = k - 1
      BY <1>1, <2>3
    <3>4. b[k - 1 - i] = s[i + (k - 1 - i)]
      BY <1>3, <3>3
    <3>5. ~(k <= i) /\ ~(k = i + 1)
      BY <1>1, <2>3
    <3>6. (c \o b)[k] = s[k - 1]
      BY <3>1, <3>2, <3>3, <3>4
    <3> QED
      BY <3>5, <3>6
  <2>4. k <= i + 1 \/ k > i + 1
    BY <1>1
  <2> QED
    BY <2>2, <2>3, <2>4, Zenon
<1>10. Grown(s, i, x, c \o b)
  BY <1>9 DEF Grown
<1> QED
  BY <1>6, <1>7, <1>8, <1>10

(* InsertedProperties, the part about the length. *)
LEMMA InsertedLength ==
  ASSUME NEW S, NEW s \in Seq(S), NEW i \in 0 .. Len(s), NEW y \in S
  PROVE  Inserted(s, i, y) \in Seq(S) /\ Len(Inserted(s, i, y)) = Len(s) + 1
BY InsertedProperties

-----------------------------------------------------------------------------
(* The invariant. *)

TypeOK ==
  /\ stage \in {"idle", "refine", "peaks", "done", "failed"}
  /\ coordinates \in Seq(Int) /\ connect \in Seq(BOOLEAN)
  /\ head \in Slots /\ pending \in Nat /\ points \in Nat
  /\ edge \in Nat \ {0}
  /\ queue # NoQueue => queue \in [Slots -> [left : Nat, depth : Nat]]

RingFollowsStage ==
  /\ stage # "refine" => pending = 0 /\ queue = NoQueue
  /\ stage = "refine" => points >= 2
  /\ queue = NoQueue => head = 0
  /\ stage = "refine" /\ queue = NoQueue =>
       pending = points - 1 /\ \A k \in 1 .. points : ~connect[k]

IInv == TypeOK /\ QueueFits /\ ActiveEdgesDisjoint /\ RingFollowsStage

(* Slots reached within one turn are slots, and different ones. *)
LEMMA SlotsWrap ==
  ASSUME head \in Slots
  PROVE  /\ \A i \in 0 .. PointLimit : Slot(i) = Wrapped(head + i)
         /\ \A i \in 0 .. PointLimit : Slot(i) \in Slots
         /\ Slot(0) = head
         /\ \A i, j \in 0 .. PointLimit - 1 : Slot(i) = Slot(j) => i = j
<1>1. PointLimit \in Nat /\ PointLimit > 0 /\ head \in 0 .. PointLimit - 1
  BY GraphAssumption DEF Slots
<1>2. ASSUME NEW i \in 0 .. PointLimit PROVE Slot(i) = Wrapped(head + i)
  BY <1>1, Wraps DEF Slot
<1> QED
  BY <1>1, <1>2 DEF Wrapped, Slots

(* The ring that begins one slot later. *)
LEMMA NextSlot ==
  ASSUME head \in Slots, head' = Slot(1)
  PROVE  /\ head' \in Slots
         /\ \A i \in 0 .. PointLimit - 1 : Slot(i)' = Slot(i + 1)
<1>1. PointLimit \in Nat /\ PointLimit > 0 /\ head \in 0 .. PointLimit - 1
  BY GraphAssumption DEF Slots
<1>2. head' \in Slots /\ head' = Wrapped(head + 1)
  BY <1>1, SlotsWrap
<1>3. ASSUME NEW i \in 0 .. PointLimit - 1 PROVE Slot(i)' = Wrapped(head' + i)
  BY <1>1, <1>2, Wraps DEF Slot, Slots
<1>4. ASSUME NEW i \in 0 .. PointLimit - 1 PROVE Slot(i + 1) = Wrapped(head + (i + 1))
  BY <1>1, SlotsWrap
<1> QED
  BY <1>1, <1>2, <1>3, <1>4 DEF Wrapped

(* A ring has slots, so it is not the empty sequence. *)
LEMMA RingIsThere ==
  ASSUME NEW q, NEW V, q \in [Slots -> V] PROVE q # NoQueue
<1>1. 0 \in DOMAIN q
  BY GraphAssumption DEF Slots
<1>2. DOMAIN <<>> = {}
  OBVIOUS
<1> QED
  BY <1>1, <1>2 DEF NoQueue

(* No request yet: both arrays and the ring are empty. *)
LEMMA InitHolds == Init => IInv
<1>1. <<>> \in Seq(Int) /\ <<>> \in Seq(BOOLEAN) /\ Len(<<>>) = 0
  BY EmptySeq
<1> QED
  BY <1>1, GraphAssumption
  DEF Init, Empty, IInv, TypeOK, QueueFits, ActiveEdgesDisjoint, RingFollowsStage, Slots, NoQueue

(* A destroyed or delivered graph leaves nothing behind. *)
LEMMA EmptiedHolds == Emptied /\ stage' \in {"idle", "failed"} => IInv'
<1>1. <<>> \in Seq(Int) /\ <<>> \in Seq(BOOLEAN) /\ Len(<<>>) = 0
  BY EmptySeq
<1> QED
  BY <1>1, GraphAssumption
  DEF Emptied, IInv, TypeOK, QueueFits, ActiveEdgesDisjoint, RingFollowsStage, Slots, NoQueue

(* The seeds: every edge waits, and none is drawn. *)
LEMMA BeginHolds == ASSUME IInv, NEW n \in 2 .. PointLimit, Begin(n) PROVE IInv'
<1>1. /\ coordinates' \in Seq(Int) /\ Len(coordinates') = n
      /\ connect' \in Seq(BOOLEAN) /\ Len(connect') = n
      /\ \A k \in 1 .. n : ~connect'[k]
  BY GraphAssumption DEF Begin
<1>2. queue = NoQueue /\ queue' = NoQueue /\ pending' = n - 1 /\ points' = n /\ stage' = "refine"
  BY DEF IInv, RingFollowsStage, Begin
<1>3. head' \in Slots /\ edge' \in Nat \ {0} /\ head' = head
  BY DEF IInv, TypeOK, Begin, cursor, Slots
<1>4. head = 0
  BY DEF IInv, Begin, RingFollowsStage
<1>5. TypeOK'
  BY <1>1, <1>2, <1>3, GraphAssumption DEF TypeOK
<1>6. QueueFits'
  BY <1>1, <1>2, GraphAssumption DEF QueueFits
<1>7. ActiveEdgesDisjoint'
  <2>1. \A i \in 0 .. pending' - 1 : Entry(i)' = [left |-> i, depth |-> 0] /\ i + 2 \in 1 .. n
    BY <1>2 DEF Entry
  <2> QED
    BY <1>1, <1>2, <2>1 DEF ActiveEdgesDisjoint, Lefts
<1>8. RingFollowsStage'
  BY <1>1, <1>2, <1>3, <1>4 DEF RingFollowsStage
<1> QED
  BY <1>5, <1>6, <1>7, <1>8 DEF IInv

(* However the refinement ends, the ring is gone. *)
LEMMA ConcludeHolds == ASSUME IInv, stage = "refine", NEW reached, Conclude(reached) PROVE IInv'
BY GraphAssumption
DEF Conclude, cursor, IInv, TypeOK, QueueFits, ActiveEdgesDisjoint, RingFollowsStage, Slots, NoQueue

(* The ring takes the edges between the seeds over, in their order. *)
LEMMA AllocateQueueHolds == ASSUME IInv, AllocateQueue PROVE IInv'
<1>1. /\ stage = "refine" /\ queue = NoQueue /\ head = 0 /\ pending = points - 1
      /\ points = Len(coordinates) /\ points = Len(connect) /\ points < PointLimit
      /\ points \in Nat /\ points >= 2 /\ \A k \in 1 .. points : ~connect[k]
  BY DEF IInv, RingFollowsStage, QueueFits, TypeOK, AllocateQueue, Refining
<1>2. UNCHANGED <<stage, coordinates, connect, head, pending, points, edge>>
  BY DEF AllocateQueue, cursor
<1>3. queue' = [s \in Slots |-> [left |-> IF s < pending THEN s ELSE 0, depth |-> 0]]
  BY DEF AllocateQueue
<1>4. queue' \in [Slots -> [left : Nat, depth : Nat]]
  BY <1>3 DEF Slots
<1>5. queue' # NoQueue
  BY <1>4, RingIsThere
<1>6. TypeOK' /\ QueueFits' /\ RingFollowsStage'
  BY <1>1, <1>2, <1>4, <1>5 DEF IInv, TypeOK, QueueFits, RingFollowsStage, Slots
<1>7. ASSUME NEW i \in 0 .. pending' - 1
      PROVE  Entry(i)'.left = i /\ i \in Lefts' /\ ~connect'[i + 2]
  <2>1. head' = 0 /\ i \in 0 .. PointLimit - 1 /\ i + 2 \in 1 .. points
    BY <1>1, <1>2, GraphAssumption
  <2>2. Slot(i)' = i
    BY <2>1, GraphAssumption, Wraps DEF Slot, Wrapped
  <2>3. Entry(i)' = queue'[i] /\ queue'[i].left = i
    BY <1>1, <1>2, <1>3, <1>5, <2>1, <2>2 DEF Entry, Slots
  <2>4. connect' = connect /\ ~connect[i + 2]
    BY <1>1, <1>2, <2>1
  <2>5. i \in Lefts'
    <3>1. i \in Nat /\ i <= Len(coordinates) - 2 /\ Len(coordinates) \in Nat
      BY <1>1, <2>1
    <3> QED
      BY <1>2, <3>1 DEF Lefts
  <2> QED
    BY <2>3, <2>4, <2>5
<1>8. ActiveEdgesDisjoint'
  BY <1>7 DEF ActiveEdgesDisjoint
<1> QED
  BY <1>6, <1>8 DEF IInv

(* An edge as deep as allowed leaves the ring; the others keep their slots. *)
LEMMA SetAsideHolds == ASSUME IInv, SetAside PROVE IInv'
<1>1. /\ stage = "refine" /\ queue # NoQueue /\ pending > 0 /\ pending \in Nat
      /\ points \in Nat /\ pending < points /\ points < PointLimit
      /\ head \in Slots /\ queue \in [Slots -> [left : Nat, depth : Nat]]
  BY DEF IInv, QueueFits, TypeOK, SetAside, Takes, Refining
<1>2. /\ UNCHANGED <<stage, coordinates, connect, queue, points, edge>>
      /\ head' = Slot(1) /\ pending' = pending - 1
  BY DEF SetAside, cursor
<1>3. head' \in Slots /\ \A i \in 0 .. PointLimit - 1 : Slot(i)' = Slot(i + 1)
  BY <1>1, <1>2, NextSlot
<1>4. TypeOK' /\ QueueFits' /\ RingFollowsStage'
  BY <1>1, <1>2, <1>3 DEF IInv, TypeOK, QueueFits, RingFollowsStage, Slots
<1>5. ASSUME NEW i \in 0 .. pending' - 1
      PROVE  Entry(i)' = Entry(i + 1) /\ i + 1 \in 0 .. pending - 1
  BY <1>1, <1>2, <1>3, GraphAssumption DEF Entry
<1>6. Lefts' = Lefts /\ connect' = connect
  BY <1>2 DEF Lefts
<1>7. ASSUME NEW i \in 0 .. pending' - 1
      PROVE  Entry(i)'.left \in Lefts' /\ ~connect'[Entry(i)'.left + 2]
  <2>1. Entry(i + 1).left \in Lefts /\ ~connect[Entry(i + 1).left + 2]
    BY <1>5 DEF IInv, ActiveEdgesDisjoint
  <2> QED
    BY <1>5, <1>6, <2>1, Zenon
<1>8. ASSUME NEW i \in 0 .. pending' - 1, NEW j \in 0 .. pending' - 1, Entry(i)'.left = Entry(j)'.left
      PROVE  i = j
  <2>1. /\ i + 1 \in 0 .. pending - 1 /\ j + 1 \in 0 .. pending - 1
        /\ Entry(i + 1).left = Entry(j + 1).left
    BY <1>5, <1>8, Zenon
  <2>2. i + 1 = j + 1
    BY <2>1, Zenon DEF IInv, ActiveEdgesDisjoint
  <2>3. i \in Int /\ j \in Int
    BY <1>1, <1>2
  <2> QED
    BY <2>2, <2>3
<1>9. ActiveEdgesDisjoint'
  BY <1>7, <1>8, Zenon DEF ActiveEdgesDisjoint
<1> QED
  BY <1>4, <1>9 DEF IInv

(* A step of the search for peaks leaves the ring alone, which is empty. *)
LEMMA PeaksHold ==
  ASSUME IInv, stage \in {"peaks", "done"}, stage' \in {"peaks", "done"},
         UNCHANGED <<coordinates, connect, ring, points>>, edge' \in Nat \ {0}
  PROVE  IInv'
BY DEF ring, IInv, TypeOK, QueueFits, ActiveEdgesDisjoint, RingFollowsStage, Slots

(* An anchor makes both arrays longer; no edge waits any more. *)
LEMMA AnchorHolds == ASSUME IInv, NEW x \in Int, Anchor(x) PROVE IInv'
<1>1. /\ coordinates \in Seq(Int) /\ connect \in Seq(BOOLEAN)
      /\ Len(connect) = Len(coordinates) /\ Len(coordinates) < PointLimit
      /\ edge \in 0 .. Len(coordinates) /\ edge \in Nat \ {0}
      /\ stage = "peaks" /\ queue = NoQueue /\ pending = 0
  BY LenProperties
  DEF IInv, TypeOK, QueueFits, RingFollowsStage, Anchor, Examines, Anchoring
<1>2. /\ UNCHANGED <<stage, queue, head, pending, points>> /\ edge' = edge + 1
      /\ coordinates' = Inserted(coordinates, edge, x)
      /\ connect' = Inserted(connect, edge, TRUE)
  BY DEF Anchor, ring
<1>3. /\ coordinates' \in Seq(Int)
      /\ Len(coordinates') = Len(coordinates) + 1
  <2>1. coordinates \in Seq(Int) /\ edge \in 0 .. Len(coordinates) /\ x \in Int
    BY <1>1
  <2>2. /\ Inserted(coordinates, edge, x) \in Seq(Int)
        /\ Len(Inserted(coordinates, edge, x)) = Len(coordinates) + 1
    BY <2>1, InsertedLength, Zenon
  <2> QED
    BY <1>2, <2>2
<1>4. /\ connect' \in Seq(BOOLEAN)
      /\ Len(connect') = Len(connect) + 1
  <2>1. connect \in Seq(BOOLEAN) /\ edge \in 0 .. Len(connect) /\ TRUE \in BOOLEAN
    BY <1>1
  <2>2. /\ Inserted(connect, edge, TRUE) \in Seq(BOOLEAN)
        /\ Len(Inserted(connect, edge, TRUE)) = Len(connect) + 1
    BY <2>1, InsertedLength, Zenon
  <2> QED
    BY <1>2, <2>2
<1>5. TypeOK'
  <2>1. head' \in Slots' /\ pending' \in Nat /\ points' \in Nat /\ edge' \in Nat \ {0}
    BY <1>1, <1>2 DEF IInv, TypeOK, Slots
  <2>2. stage' = "peaks" /\ ~(queue' # NoQueue)
    BY <1>1, <1>2
  <2> QED
    BY <1>3, <1>4, <2>1, <2>2 DEF TypeOK
<1>6. QueueFits'
  <2>1. points <= PointLimit /\ Len(coordinates) \in Nat
    BY <1>1 DEF IInv, QueueFits
  <2>2. Len(coordinates') = Len(connect') /\ Len(coordinates') <= PointLimit
    BY <1>1, <1>3, <1>4, <2>1, GraphAssumption
  <2> QED
    BY <1>1, <1>2, <2>1, <2>2 DEF QueueFits
<1>7. ActiveEdgesDisjoint'
  BY <1>1, <1>2 DEF ActiveEdgesDisjoint
<1>8. RingFollowsStage'
  BY <1>1, <1>2 DEF IInv, RingFollowsStage
<1> QED
  BY <1>5, <1>6, <1>7, <1>8 DEF IInv

-----------------------------------------------------------------------------
(* The probe.                                                              *)

(* The flags after a sample: both halves of its edge carry the verdict, and the
   flags of every other edge moved with it. *)
LEMMA SampleProperties ==
  ASSUME IInv, NEW left \in Lefts, NEW accepted \in BOOLEAN, Sample(left, accepted)
  PROVE  /\ coordinates' \in Seq(Int) /\ Len(coordinates') = Len(coordinates) + 1
         /\ connect' \in Seq(BOOLEAN) /\ Len(connect') = Len(coordinates) + 1
         /\ connect'[left + 2] = accepted /\ connect'[left + 3] = accepted
         /\ \A l \in Lefts : l < left => connect'[l + 2] = connect[l + 2]
         /\ \A l \in Lefts : l > left => connect'[l + 3] = connect[l + 2]
<1> DEFINE n == Len(coordinates)
           middle == (coordinates[left + 1] + coordinates[left + 2]) \div 2
<1>1. /\ coordinates \in Seq(Int) /\ connect \in Seq(BOOLEAN)
      /\ Len(connect) = n /\ n \in Nat
      /\ left \in Nat /\ left + 1 \in 1 .. n /\ left + 2 \in 1 .. n
  BY LenProperties DEF IInv, TypeOK, QueueFits, Lefts
<1>2. coordinates' = Inserted(coordinates, left + 1, middle) /\ middle \in Int
  <2>1. coordinates[left + 1] \in Int /\ coordinates[left + 2] \in Int
    BY <1>1, ElementOfSeq
  <2> QED
    BY <2>1 DEF Sample
<1>3. coordinates' \in Seq(Int) /\ Len(coordinates') = n + 1
  <2> DEFINE at == left + 1
  <2>1. coordinates \in Seq(Int) /\ at \in 0 .. Len(coordinates) /\ middle \in Int
    BY <1>1, <1>2
  <2> HIDE DEF middle, at
  <2>2. /\ Inserted(coordinates, at, middle) \in Seq(Int)
        /\ Len(Inserted(coordinates, at, middle)) = Len(coordinates) + 1
    BY <2>1, InsertedLength, Zenon
  <2> USE DEF at
  <2> QED
    BY <1>2, <2>2
<1> DEFINE at == left + 1
           longer == Inserted(connect, at, accepted)
<1>4. /\ connect' \in Seq(BOOLEAN) /\ Len(connect') = n + 1
      /\ \A k \in 1 .. n + 1 : connect'[k] = IF k = left + 3 THEN accepted ELSE longer[k]
  <2> DEFINE place == left + 3
  <2>1. connect \in Seq(BOOLEAN) /\ at \in 0 .. Len(connect) /\ accepted \in BOOLEAN
    BY <1>1
  <2>2. connect' = [longer EXCEPT ![place] = accepted]
    BY DEF Sample
  <2> HIDE DEF at
  <2>3. longer \in Seq(BOOLEAN) /\ Len(longer) = Len(connect) + 1
    BY <2>1, InsertedLength
  <2> HIDE DEF longer
  <2>4. place \in 1 .. Len(longer)
    BY <1>1, <2>3
  <2> HIDE DEF place
  <2>5. /\ [longer EXCEPT ![place] = accepted] \in Seq(BOOLEAN)
        /\ Len([longer EXCEPT ![place] = accepted]) = Len(longer)
        /\ \A k \in 1 .. Len(longer) :
             [longer EXCEPT ![place] = accepted][k] = IF k = place THEN accepted ELSE longer[k]
    BY <2>3, <2>4, ExceptSeq
  <2> USE DEF place
  <2> QED
    BY <1>1, <2>2, <2>3, <2>5
<1>5. \A k \in 1 .. n + 1 :
        longer[k] = IF k <= at THEN connect[k] ELSE IF k = at + 1 THEN accepted ELSE connect[k - 1]
  <2>1. connect \in Seq(BOOLEAN) /\ at \in 0 .. Len(connect) /\ accepted \in BOOLEAN
    BY <1>1
  <2> HIDE DEF at
  <2>2. \A k \in 1 .. Len(connect) + 1 :
          longer[k] = IF k <= at THEN connect[k] ELSE IF k = at + 1 THEN accepted ELSE connect[k - 1]
    <3>1. Grown(connect, at, accepted, longer)
      BY <2>1, InsertedProperties
    <3> QED
      BY <3>1 DEF Grown
  <2> QED
    BY <1>1, <2>2
<1> HIDE DEF longer
<1>6. connect'[left + 2] = accepted /\ connect'[left + 3] = accepted
  BY <1>1, <1>4, <1>5
<1>7. ASSUME NEW l \in Lefts, l < left PROVE connect'[l + 2] = connect[l + 2]
  <2> DEFINE m == l + 2
  <2>1. m \in 1 .. n + 1 /\ m <= at /\ ~(m = left + 3)
    BY <1>1, <1>7 DEF Lefts
  <2> HIDE DEF m, at
  <2>2. connect'[m] = longer[m]
    BY <1>4, <2>1, Zenon
  <2>3. longer[m] = connect[m]
    BY <1>5, <2>1, Zenon
  <2>4. connect'[m] = connect[m]
    BY <2>2, <2>3, Zenon
  <2> USE DEF m
  <2> QED
    BY <2>4
<1>8. ASSUME NEW l \in Lefts, l > left PROVE connect'[l + 3] = connect[l + 2]
  <2> DEFINE m == l + 3
  <2>1. /\ m \in 1 .. n + 1 /\ m - 1 = l + 2
        /\ ~(m = left + 3) /\ ~(m <= at) /\ ~(m = at + 1)
    BY <1>1, <1>8 DEF Lefts
  <2> HIDE DEF m, at
  <2>2. connect'[m] = longer[m]
    BY <1>4, <2>1, Zenon
  <2>3. longer[m] = connect[m - 1]
    BY <1>5, <2>1, Zenon
  <2>4. connect'[m] = connect[l + 2]
    BY <2>1, <2>2, <2>3
  <2> USE DEF m
  <2> QED
    BY <2>4
<1> QED
  BY <1>1, <1>3, <1>4, <1>6, <1>7, <1>8

(* What the probe writes: the entries that stay follow their edge, the halves
   of a split edge are behind them. *)
LEMMA ProbedRing ==
  ASSUME IInv, NEW decision \in {"SPLIT", "ACCEPT", "SKIP"}, Probe(decision)
  PROVE  /\ queue' \in [Slots -> [left : Nat, depth : Nat]]
         /\ \A i \in 1 .. pending - 1 :
              queue'[Slot(i)].left =
                IF queue[Slot(i)].left > queue[head].left THEN queue[Slot(i)].left + 1
                ELSE queue[Slot(i)].left
         /\ \A i \in 1 .. pending - 1 : queue'[Slot(i)].depth = queue[Slot(i)].depth
         /\ decision = "SPLIT" =>
              /\ queue'[Slot(pending)].left = queue[head].left
              /\ queue'[Slot(pending + 1)].left = queue[head].left + 1
              /\ queue'[Slot(pending)].depth = queue[head].depth + 1
              /\ queue'[Slot(pending + 1)].depth = queue[head].depth + 1
<1> DEFINE Edges == [left : Nat, depth : Nat]
           current == queue[head]
           ahead == Shifted(current.left)
<1>1. /\ queue \in [Slots -> Edges] /\ head \in Slots /\ current \in Edges
      /\ pending \in Nat /\ pending > 0 /\ pending + 1 <= PointLimit - 1
      /\ PointLimit \in Nat
  <2>1. /\ queue \in [Slots -> Edges] /\ head \in Slots /\ pending \in Nat /\ points \in Nat
        /\ stage = "refine" /\ pending > 0 /\ points < PointLimit
    BY DEF IInv, TypeOK, Probe, Takes, Refining
  <2>2. pending < points
    BY <2>1 DEF IInv, QueueFits
  <2>3. current \in Edges
    BY <2>1
  <2> HIDE DEF current, Edges
  <2> QED
    BY <2>1, <2>2, <2>3, GraphAssumption
<1>2. /\ \A i \in 0 .. PointLimit : Slot(i) \in Slots
      /\ \A i, j \in 0 .. PointLimit - 1 : Slot(i) = Slot(j) => i = j
  BY <1>1, SlotsWrap
<1>3. ahead \in [Slots -> Edges]
  <2>1. ASSUME NEW s \in Slots
        PROVE  (IF s \in Moved(current.left) THEN [queue[s] EXCEPT !.left = @ + 1] ELSE queue[s]) \in Edges
    <3>1. queue[s] \in Edges
      BY <1>1
    <3> QED
      BY <3>1
  <2> QED
    BY <2>1 DEF Shifted
<1>4. ASSUME NEW i \in 1 .. pending - 1
      PROVE  /\ ahead[Slot(i)].left =
                   IF queue[Slot(i)].left > current.left THEN queue[Slot(i)].left + 1
                   ELSE queue[Slot(i)].left
             /\ ahead[Slot(i)].depth = queue[Slot(i)].depth
  <2>1. Slot(i) \in Slots /\ queue[Slot(i)] \in Edges
    BY <1>1, <1>2
  <2>2. Slot(i) \in Moved(current.left) <=> queue[Slot(i)].left > current.left
    BY <2>1 DEF Moved
  <2> QED
    BY <2>1, <2>2 DEF Shifted
<1> HIDE DEF ahead
<1>5. CASE decision = "SPLIT"
  <2> DEFINE first == [left |-> current.left, depth |-> current.depth + 1]
             second == [left |-> current.left + 1, depth |-> current.depth + 1]
             a == Slot(pending)
             b == Slot(pending + 1)
  <2>1. queue' = [ahead EXCEPT ![a] = first, ![b] = second]
    BY <1>5 DEF Probe, ahead
  <2>2. first \in Edges /\ second \in Edges
    BY <1>1
  <2>3. a \in Slots /\ b \in Slots /\ a # b
    BY <1>1, <1>2
  <2>4. \A i \in 1 .. pending - 1 : Slot(i) \in Slots /\ Slot(i) # a /\ Slot(i) # b
    BY <1>1, <1>2
  <2>5. /\ first.left = current.left /\ second.left = current.left + 1
        /\ first.depth = current.depth + 1 /\ second.depth = current.depth + 1
    OBVIOUS
  <2> HIDE DEF a, b, first, second
  <2>6. queue' \in [Slots -> Edges] /\ queue'[a] = first /\ queue'[b] = second
    BY <1>3, <2>1, <2>2, <2>3
  <2>7. \A i \in 1 .. pending - 1 : queue'[Slot(i)] = ahead[Slot(i)]
    BY <1>3, <2>1, <2>4
  <2>8. /\ queue'[a].left = current.left /\ queue'[b].left = current.left + 1
        /\ queue'[a].depth = current.depth + 1 /\ queue'[b].depth = current.depth + 1
    BY <2>5, <2>6
  <2> QED
    BY <1>4, <2>6, <2>7, <2>8 DEF a, b
<1>6. CASE decision # "SPLIT"
  <2>1. queue' = ahead
    BY <1>6 DEF Probe, ahead
  <2> QED
    BY <1>3, <1>4, <1>6, <2>1
<1> QED
  BY <1>5, <1>6

(* The entries of the ring and the flags move by the same rule, so an entry still
   names its own edge, which is still not drawn. *)
LEMMA ProbeHolds ==
  ASSUME IInv, NEW decision \in {"SPLIT", "ACCEPT", "SKIP"}, Probe(decision) PROVE IInv'
<1> DEFINE left == queue[head].left
           moved(l) == IF l > left THEN l + 1 ELSE l
           n == Len(coordinates)
<1>1. /\ queue \in [Slots -> [left : Nat, depth : Nat]] /\ head \in Slots /\ queue # NoQueue
      /\ pending \in Nat /\ pending > 0 /\ pending < points /\ points < PointLimit
      /\ points \in Nat /\ points = n /\ PointLimit \in Nat /\ stage = "refine"
      /\ edge \in Nat \ {0} /\ Len(connect) = n
  BY GraphAssumption DEF IInv, TypeOK, QueueFits, Probe, Takes, Refining
<1>2. /\ UNCHANGED <<stage, edge>> /\ head' = Slot(1) /\ points' = points + 1
      /\ decision = "SPLIT" => pending' = pending + 1
      /\ decision # "SPLIT" => pending' = pending - 1
      /\ Sample(left, decision = "ACCEPT")
  BY DEF Probe, cursor
<1>3. head' \in Slots /\ \A i \in 0 .. PointLimit - 1 : Slot(i)' = Slot(i + 1)
  BY <1>1, <1>2, NextSlot
<1>4. Slot(0) = head
  BY <1>1, SlotsWrap
<1>5. \A i \in 0 .. pending - 1 : Entry(i) = queue[Slot(i)]
  BY <1>1 DEF Entry
<1>6. left = Entry(0).left /\ 0 \in 0 .. pending - 1
  BY <1>1, <1>4, <1>5
<1> HIDE DEF left
<1>7. left \in Lefts /\ left \in Nat /\ left <= n - 2 /\ n \in Nat
  BY <1>1, <1>6 DEF IInv, ActiveEdgesDisjoint, Lefts
<1>8. ASSUME NEW i \in 1 .. pending - 1
      PROVE  /\ Entry(i).left \in Lefts /\ Entry(i).left # left
             /\ ~connect[Entry(i).left + 2]
  BY <1>1, <1>6 DEF IInv, ActiveEdgesDisjoint
<1>9. /\ coordinates' \in Seq(Int) /\ Len(coordinates') = n + 1
      /\ connect' \in Seq(BOOLEAN) /\ Len(connect') = n + 1
      /\ decision = "SPLIT" => ~connect'[left + 2] /\ ~connect'[left + 3]
      /\ \A l \in Lefts : l < left => connect'[l + 2] = connect[l + 2]
      /\ \A l \in Lefts : l > left => connect'[l + 3] = connect[l + 2]
  <2> DEFINE accepted == decision = "ACCEPT"
  <2>1. accepted \in BOOLEAN /\ Sample(left, accepted) /\ (decision = "SPLIT" => ~accepted)
    BY <1>2
  <2> HIDE DEF accepted
  <2> QED
    BY <1>7, <2>1, SampleProperties
<1>10. /\ queue' \in [Slots -> [left : Nat, depth : Nat]]
       /\ \A i \in 1 .. pending - 1 : queue'[Slot(i)].left = moved(queue[Slot(i)].left)
       /\ decision = "SPLIT" => queue'[Slot(pending)].left = left /\ queue'[Slot(pending + 1)].left = left + 1
  BY ProbedRing DEF left
<1>11. queue' # NoQueue
  BY <1>10, RingIsThere
<1>12. TypeOK'
  <2>1. /\ stage' = "refine" /\ edge' \in Nat \ {0}
        /\ pending' \in Nat /\ points' \in Nat
    BY <1>1, <1>2
  <2>2. head' \in Slots'
    BY <1>3 DEF Slots
  <2>3. queue' \in [Slots' -> [left : Nat, depth : Nat]]
    BY <1>10 DEF Slots
  <2> QED
    BY <1>9, <2>1, <2>2, <2>3 DEF TypeOK
<1>13. QueueFits'
  BY <1>1, <1>2, <1>7, <1>9 DEF QueueFits
<1>14. RingFollowsStage'
  BY <1>1, <1>2, <1>11 DEF IInv, RingFollowsStage
<1>15. ASSUME NEW i \in 0 .. pending - 2
       PROVE  Entry(i)'.left = moved(Entry(i + 1).left) /\ i + 1 \in 1 .. pending - 1
  <2>1. i + 1 \in 1 .. pending - 1 /\ i + 1 \in 0 .. pending - 1 /\ i \in 0 .. PointLimit - 1
    BY <1>1
  <2>2. Entry(i)' = queue'[Slot(i + 1)]
    BY <1>3, <1>11, <2>1 DEF Entry
  <2> QED
    BY <1>5, <1>10, <2>1, <2>2
<1>16. ASSUME decision = "SPLIT", NEW i \in Nat
       PROVE  /\ i = pending - 1 => Entry(i)'.left = left
              /\ i = pending => Entry(i)'.left = left + 1
  <2>1. ASSUME i = pending - 1 \/ i = pending PROVE Entry(i)' = queue'[Slot(i + 1)]
    <3>1. i \in 0 .. PointLimit - 1
      BY <1>1, <2>1
    <3> QED
      BY <1>3, <1>11, <3>1 DEF Entry
  <2>2. i = pending - 1 => i + 1 = pending
    BY <1>1
  <2> QED
    BY <1>10, <1>16, <2>1, <2>2
<1> DEFINE Stays(i) == /\ i \in 0 .. pending - 2 /\ i + 1 \in 1 .. pending - 1
                       /\ Entry(i)'.left = moved(Entry(i + 1).left)
                       /\ Entry(i + 1).left \in Lefts /\ Entry(i + 1).left # left
                       /\ ~connect[Entry(i + 1).left + 2]
           First(i) == decision = "SPLIT" /\ i = pending - 1 /\ Entry(i)'.left = left
           Second(i) == decision = "SPLIT" /\ i = pending /\ Entry(i)'.left = left + 1
<1>17. ASSUME NEW i \in 0 .. pending' - 1 PROVE Stays(i) \/ First(i) \/ Second(i)
  <2>1. CASE i \in 0 .. pending - 2
    BY <1>8, <1>15, <2>1
  <2>2. CASE decision = "SPLIT" /\ i >= pending - 1
    <3>1. i \in Nat /\ (i = pending - 1 \/ i = pending)
      BY <1>1, <1>2, <2>2
    <3> QED
      BY <1>16, <2>2, <3>1
  <2> QED
    BY <1>1, <1>2, <2>1, <2>2
<1>18. ASSUME NEW i \in 0 .. pending' - 1
       PROVE  Entry(i)'.left \in Lefts' /\ ~connect'[Entry(i)'.left + 2]
  <2>1. \A new \in Nat : new <= n - 1 => new \in Lefts'
    BY <1>7, <1>9 DEF Lefts
  <2>2. ASSUME NEW l \in Lefts, l # left, ~connect[l + 2]
        PROVE  moved(l) \in Lefts' /\ ~connect'[moved(l) + 2]
    <3>1. l \in Nat /\ l <= n - 2
      BY <1>7 DEF Lefts
    <3>2. CASE l < left
      <4>1. moved(l) = l /\ l <= n - 1
        BY <1>7, <3>1, <3>2
      <4>2. ~connect'[l + 2]
        BY <1>9, <2>2, <3>2
      <4> QED
        BY <2>1, <3>1, <4>1, <4>2
    <3>3. CASE l > left
      <4>1. moved(l) = l + 1 /\ l + 1 \in Nat /\ l + 1 <= n - 1 /\ l + 1 + 2 = l + 3
        BY <1>7, <3>1, <3>3
      <4>2. ~connect'[l + 3]
        BY <1>9, <2>2, <3>3
      <4> QED
        BY <2>1, <4>1, <4>2
    <3> QED
      BY <1>7, <2>2, <3>1, <3>2, <3>3
  <2>3. CASE Stays(i)
    BY <2>2, <2>3
  <2>4. CASE First(i)
    BY <1>7, <1>9, <2>1, <2>4, SMTT(60)
  <2>5. CASE Second(i)
    <3>1. left + 1 \in Nat /\ left + 1 <= n - 1 /\ left + 1 + 2 = left + 3 /\ ~connect'[left + 3]
      BY <1>7, <1>9, <2>5
    <3>2. Entry(i)'.left = left + 1
      BY <2>5
    <3> QED
      BY <2>1, <3>1, <3>2
  <2>6. Stays(i) \/ First(i) \/ Second(i)
    BY <1>17
  <2> HIDE DEF Stays, First, Second
  <2> QED
    BY <2>3, <2>4, <2>5, <2>6
<1>19. ASSUME NEW i \in 0 .. pending' - 1, NEW j \in 0 .. pending' - 1, Entry(i)'.left = Entry(j)'.left
       PROVE  i = j
  <2>1. \A m \in 0 .. pending - 2 : Entry(m + 1).left \in Lefts => Entry(m + 1).left \in Nat
    BY <1>7 DEF Lefts
  <2>2. CASE Stays(i) /\ Stays(j)
    <3>1. Entry(i + 1).left = Entry(j + 1).left
      <4> DEFINE k == Entry(i + 1).left
                 l == Entry(j + 1).left
      <4>1. k \in Nat /\ l \in Nat /\ k # left /\ l # left /\ moved(k) = moved(l)
        BY <1>19, <2>1, <2>2
      <4> HIDE DEF k, l
      <4>2. k = l
        BY <1>7, <4>1
      <4> QED
        BY <4>2 DEF k, l
    <3>2. i + 1 \in 0 .. pending - 1 /\ j + 1 \in 0 .. pending - 1
      BY <1>1, <2>2
    <3>3. i + 1 = j + 1
      BY <3>1, <3>2 DEF IInv, ActiveEdgesDisjoint
    <3> QED
      BY <3>3
  <2>3. ~(Stays(i) /\ (First(j) \/ Second(j))) /\ ~(Stays(j) /\ (First(i) \/ Second(i)))
    <3>1. \A l \in Nat : l # left => moved(l) # left /\ moved(l) # left + 1
      BY <1>7
    <3>2. ASSUME NEW m \in 0 .. pending' - 1, Stays(m)
          PROVE  Entry(m)'.left # left /\ Entry(m)'.left # left + 1
      <4>1. PICK l \in Nat : l # left /\ Entry(m)'.left = moved(l)
        BY <2>1, <3>2
      <4> HIDE DEF moved
      <4> QED
        BY <3>1, <4>1, Zenon
    <3>3. ASSUME NEW m \in 0 .. pending' - 1, First(m) \/ Second(m)
          PROVE  Entry(m)'.left = left \/ Entry(m)'.left = left + 1
      BY <3>3, Zenon
    <3> HIDE DEF Stays, First, Second
    <3> QED
      BY <1>19, <3>2, <3>3, Zenon
  <2>4. ~(First(i) /\ Second(j)) /\ ~(First(j) /\ Second(i))
    BY <1>7, <1>19
  <2>5. (First(i) /\ First(j)) \/ (Second(i) /\ Second(j)) => i = j
    OBVIOUS
  <2>6. (Stays(i) \/ First(i) \/ Second(i)) /\ (Stays(j) \/ First(j) \/ Second(j))
    BY <1>17
  <2> HIDE DEF Stays, First, Second
  <2> QED
    BY <2>2, <2>3, <2>4, <2>5, <2>6
<1>20. ActiveEdgesDisjoint'
  BY <1>18, <1>19 DEF ActiveEdgesDisjoint
<1> QED
  BY <1>12, <1>13, <1>14, <1>20 DEF IInv

-----------------------------------------------------------------------------
(* Every step keeps the invariant. *)
LEMMA NextInductive == IInv /\ [Next]_vars => IInv'
<1> SUFFICES ASSUME IInv, [Next]_vars PROVE IInv'
  OBVIOUS
<1>1. ASSUME NEW n \in 2 .. PointLimit, Begin(n) PROVE IInv'
  BY <1>1, BeginHolds
<1>2. CASE Finish
  BY <1>2, ConcludeHolds DEF Finish
<1>3. CASE StopAtPoints
  BY <1>3, ConcludeHolds DEF StopAtPoints, Refining
<1>4. CASE StopForResources
  BY <1>4, ConcludeHolds DEF StopForResources, Refining
<1>5. CASE AllocateQueue
  BY <1>5, AllocateQueueHolds
<1>6. CASE SetAside
  BY <1>6, SetAsideHolds
<1>7. ASSUME NEW decision \in {"SPLIT", "ACCEPT", "SKIP"}, Probe(decision) PROVE IInv'
  BY <1>7, ProbeHolds
<1>8. edge \in Nat \ {0} /\ edge + 1 \in Nat \ {0}
  BY DEF IInv, TypeOK
<1>9. CASE NextEdge
  BY <1>8, <1>9, PeaksHold DEF NextEdge, Anchoring
<1>10. CASE NoPeak
  BY <1>8, <1>10, PeaksHold DEF NoPeak, Examines, Anchoring
<1>11. CASE StopAnchoring
  BY <1>8, <1>11, PeaksHold DEF StopAnchoring, Examines, Anchoring, cursor
<1>12. CASE FinishPeaks
  BY <1>8, <1>12, PeaksHold DEF FinishPeaks, cursor
<1>13. ASSUME NEW i \in DOMAIN coordinates,
              Anchor(coordinates[i] + 1) \/ Anchor(coordinates[i] - 1)
       PROVE  IInv'
  <2>1. coordinates[i] \in Int
    BY <1>13, ElementOfSeq, LenProperties DEF IInv, TypeOK
  <2>2. coordinates[i] + 1 \in Int /\ coordinates[i] - 1 \in Int
    BY <2>1
  <2> QED
    BY <1>13, <2>2, AnchorHolds
<1>14. CASE Fail
  BY <1>14, EmptiedHolds DEF Fail
<1>15. CASE Deliver
  BY <1>15, EmptiedHolds DEF Deliver
<1>16. CASE UNCHANGED vars
  BY <1>16
  DEF vars, ring, cursor, IInv, TypeOK, QueueFits, ActiveEdgesDisjoint, RingFollowsStage,
      Slots, Lefts, Entry, Slot
<1> QED
  BY <1>1, <1>2, <1>3, <1>4, <1>5, <1>6, <1>7, <1>9, <1>10, <1>11, <1>12, <1>13, <1>14, <1>15, <1>16
  DEF Next

(* The invariant holds in every behaviour. *)
THEOREM Invariance == Spec => []IInv
BY InitHolds, NextInductive, PTL DEF Spec

(* Whatever the limit, the ring and the arrays never overflow: the callback
   inserts without looking at the size of its arrays, and the ring is as long
   as the limit on samples, one slot more than edges can wait. *)
THEOREM RingAndArraysFit == Spec => []QueueFits
<1>1. IInv => QueueFits
  BY DEF IInv
<1> QED
  BY <1>1, Invariance, PTL

(* Whatever the limit, every waiting slot names an edge that exists and is
   not drawn, and no two name the same one, wherever the ring wraps. *)
THEOREM EdgesWaitOnce == Spec => []ActiveEdgesDisjoint
<1>1. IInv => ActiveEdgesDisjoint
  BY DEF IInv
<1> QED
  BY <1>1, Invariance, PTL

-----------------------------------------------------------------------------
(* The refinement of CurveEdges.                                           *)

(* The axis is in order, so no two edges with samples between their ends are
   the same. *)
Sorted == \A i, j \in 1 .. Len(coordinates) : i <= j => coordinates[i] <= coordinates[j]

(* Nothing is left of the request before, and the caller is told of a limit
   only at the end of the refinement. *)
Reported ==
  /\ limited \in BOOLEAN
  /\ stage = "idle" => Empty
  /\ stage = "refine" => ~limited

RInv == IInv /\ Sorted /\ Reported /\ unresolved \in Nat

(* InsertedProperties, case by case. *)
LEMMA InsertedElements ==
  ASSUME NEW S, NEW s \in Seq(S), NEW i \in 0 .. Len(s), NEW x \in S
  PROVE  /\ \A k \in 1 .. i : Inserted(s, i, x)[k] = s[k]
         /\ Inserted(s, i, x)[i + 1] = x
         /\ \A k \in i + 1 .. Len(s) : Inserted(s, i, x)[k + 1] = s[k]
<1>1. Len(s) \in Nat
  BY LenProperties
<1>2. PICK t : t = Inserted(s, i, x)
  OBVIOUS
<1>3. \A k \in 1 .. Len(s) + 1 :
        t[k] = IF k <= i THEN s[k] ELSE IF k = i + 1 THEN x ELSE s[k - 1]
  <2>1. Grown(s, i, x, t)
    BY <1>2, InsertedProperties
  <2> QED
    BY <2>1 DEF Grown
<1>4. ASSUME NEW k \in 1 .. i PROVE t[k] = s[k]
  <2>1. k \in 1 .. Len(s) + 1 /\ k <= i
    BY <1>1
  <2> QED
    BY <1>3, <2>1, Zenon
<1>5. t[i + 1] = x
  <2>1. i + 1 \in 1 .. Len(s) + 1 /\ ~(i + 1 <= i)
    BY <1>1
  <2> QED
    BY <1>3, <2>1, Zenon
<1>6. ASSUME NEW k \in i + 1 .. Len(s) PROVE t[k + 1] = s[k]
  <2> DEFINE m == k + 1
  <2>1. m \in 1 .. Len(s) + 1 /\ ~(m <= i) /\ ~(m = i + 1) /\ m - 1 = k
    BY <1>1
  <2> HIDE DEF m
  <2>2. t[m] = s[m - 1]
    BY <1>3, <2>1, Zenon
  <2>3. t[m] = s[k]
    BY <2>1, <2>2, Zenon
  <2> USE DEF m
  <2> QED
    BY <2>3
<1> QED
  BY <1>2, <1>4, <1>5, <1>6, Zenon

(* A sample between its neighbours leaves the axis in order. *)
LEMMA InsertedSorted ==
  ASSUME NEW s \in Seq(Int), NEW i \in 1 .. Len(s), i + 1 \in 1 .. Len(s), NEW x \in Int,
         \A j, k \in 1 .. Len(s) : j <= k => s[j] <= s[k],
         s[i] <= x, x <= s[i + 1]
  PROVE  \A j, k \in 1 .. Len(Inserted(s, i, x)) :
           j <= k => Inserted(s, i, x)[j] <= Inserted(s, i, x)[k]
<1>1. Len(s) \in Nat /\ i \in 0 .. Len(s)
  BY LenProperties
<1>2. PICK t : t = Inserted(s, i, x)
  OBVIOUS
<1>3. /\ Len(t) = Len(s) + 1
      /\ \A k \in 1 .. i : t[k] = s[k]
      /\ t[i + 1] = x
      /\ \A k \in i + 1 .. Len(s) : t[k + 1] = s[k]
  <2>1. t \in Seq(Int) /\ Len(t) = Len(s) + 1
    BY <1>1, <1>2, InsertedLength, Zenon
  <2>2. /\ \A k \in 1 .. i : Inserted(s, i, x)[k] = s[k]
        /\ Inserted(s, i, x)[i + 1] = x
        /\ \A k \in i + 1 .. Len(s) : Inserted(s, i, x)[k + 1] = s[k]
    BY <1>1, InsertedElements, SMTT(60)
  <2> QED
    BY <1>2, <2>1, <2>2, Zenon
<1>4. \A k \in 1 .. Len(s) : s[k] \in Int
  BY ElementOfSeq
<1>5. ASSUME NEW j \in 1 .. i PROVE t[j] = s[j] /\ s[j] <= s[i] /\ s[j] \in Int
  BY <1>1, <1>3, <1>4
<1>6. ASSUME NEW k \in i + 1 .. Len(s) PROVE t[k + 1] = s[k] /\ s[i + 1] <= s[k] /\ s[k] \in Int
  BY <1>1, <1>3, <1>4
<1>7. s[i] \in Int /\ s[i + 1] \in Int
  BY <1>4
<1>8. \A k \in 1 .. Len(s) + 1 : k \in 1 .. i \/ k = i + 1 \/ k - 1 \in i + 1 .. Len(s)
  BY <1>1
<1>9. ASSUME NEW j \in 1 .. Len(s) + 1, NEW k \in 1 .. Len(s) + 1, j <= k
      PROVE  t[j] <= t[k]
  <2>1. CASE j \in 1 .. i /\ k \in 1 .. i
    BY <1>1, <1>3, <1>9, <2>1, SMTT(60)
  <2>2. CASE j \in 1 .. i /\ k = i + 1
    BY <1>3, <1>5, <1>7, <2>2, SMTT(60)
  <2>3. CASE j \in 1 .. i /\ k - 1 \in i + 1 .. Len(s)
    <3>1. t[k - 1 + 1] = s[k - 1] /\ s[i + 1] <= s[k - 1] /\ s[k - 1] \in Int /\ k - 1 + 1 = k
      BY <1>6, <2>3
    <3>2. t[j] = s[j] /\ s[j] <= s[i] /\ s[j] \in Int
      BY <1>5, <2>3
    <3> QED
      BY <1>7, <3>1, <3>2, SMTT(60)
  <2>4. CASE j = i + 1 /\ k = i + 1
    BY <1>3, <2>4
  <2>5. CASE j = i + 1 /\ k - 1 \in i + 1 .. Len(s)
    <3>1. t[k - 1 + 1] = s[k - 1] /\ s[i + 1] <= s[k - 1] /\ s[k - 1] \in Int /\ k - 1 + 1 = k
      BY <1>6, <2>5
    <3> QED
      BY <1>3, <1>7, <2>5, <3>1
  <2>6. CASE j - 1 \in i + 1 .. Len(s) /\ k - 1 \in i + 1 .. Len(s)
    <3>1. t[k - 1 + 1] = s[k - 1] /\ k - 1 + 1 = k
      BY <1>6, <2>6
    <3>2. t[j - 1 + 1] = s[j - 1] /\ j - 1 + 1 = j
      BY <1>6, <2>6
    <3>3. s[j - 1] <= s[k - 1]
      <4>1. j - 1 \in 1 .. Len(s) /\ k - 1 \in 1 .. Len(s) /\ j - 1 <= k - 1
        BY <1>1, <1>9, <2>6
      <4> QED
        BY <4>1
    <3> QED
      BY <3>1, <3>2, <3>3
  <2>7. ~(k \in 1 .. i /\ ~(j \in 1 .. i)) /\ ~(k = i + 1 /\ j - 1 \in i + 1 .. Len(s))
    BY <1>1, <1>9
  <2> QED
    BY <1>8, <2>1, <2>2, <2>3, <2>4, <2>5, <2>6, <2>7, Zenon
<1> QED
  BY <1>2, <1>3, <1>9

-----------------------------------------------------------------------------
(* Cutting an edge.  Axis is the function from left indices to edges; Cut says
   what a sample x in the edge of index left does to it and to the flags. *)

Axis == [l \in Lefts |-> [from |-> coordinates[l + 1], to |-> coordinates[l + 2]]]

Cut(left, x, accepted) ==
  /\ coordinates' \in Seq(Int) /\ Len(coordinates') = Len(coordinates) + 1
  /\ \A l \in Lefts : l < left => l \in Lefts' /\ Axis'[l] = Axis[l] /\ connect'[l + 2] = connect[l + 2]
  /\ \A l \in Lefts : l > left =>
       l + 1 \in Lefts' /\ Axis'[l + 1] = Axis[l] /\ connect'[l + 3] = connect[l + 2]
  /\ left \in Lefts' /\ Axis'[left] = [from |-> Axis[left].from, to |-> x]
  /\ left + 1 \in Lefts' /\ Axis'[left + 1] = [from |-> x, to |-> Axis[left].to]
  /\ connect'[left + 2] = accepted /\ connect'[left + 3] = accepted
  /\ \A l \in Lefts' : l < left \/ l = left \/ l = left + 1 \/ (l - 1 \in Lefts /\ l - 1 > left)
  /\ \A l \in Lefts' : l < left => l \in Lefts

(* The coordinates and the flags move by the same rule. *)
LEMMA InsertedCuts ==
  ASSUME IInv, NEW left \in Lefts, NEW x \in Int, NEW accepted \in BOOLEAN,
         coordinates' = Inserted(coordinates, left + 1, x),
         connect'[left + 2] = accepted, connect'[left + 3] = accepted,
         \A l \in Lefts : l < left => connect'[l + 2] = connect[l + 2],
         \A l \in Lefts : l > left => connect'[l + 3] = connect[l + 2]
  PROVE  Cut(left, x, accepted)
<1> DEFINE n == Len(coordinates)
           at == left + 1
<1>1. /\ coordinates \in Seq(Int) /\ n \in Nat
      /\ left \in Nat /\ at \in 1 .. n /\ left + 2 \in 1 .. n
  BY LenProperties DEF IInv, TypeOK, QueueFits, Lefts
<1>2. at \in 0 .. n
  BY <1>1
<1> HIDE DEF at
<1>3. /\ coordinates' \in Seq(Int) /\ Len(coordinates') = n + 1
      /\ \A k \in 1 .. at : coordinates'[k] = coordinates[k]
      /\ coordinates'[at + 1] = x
      /\ \A k \in at + 1 .. n : coordinates'[k + 1] = coordinates[k]
  <2>0. coordinates \in Seq(Int) /\ at \in 0 .. Len(coordinates) /\ n = Len(coordinates)
    BY <1>1, <1>2
  <2>1. coordinates' = Inserted(coordinates, at, x)
    BY DEF at
  <2>2. /\ Inserted(coordinates, at, x) \in Seq(Int)
        /\ Len(Inserted(coordinates, at, x)) = n + 1
    BY <1>1, <1>2, InsertedLength, ZenonT(60)
  <2>3. /\ \A k \in 1 .. at : Inserted(coordinates, at, x)[k] = coordinates[k]
        /\ Inserted(coordinates, at, x)[at + 1] = x
        /\ \A k \in at + 1 .. n : Inserted(coordinates, at, x)[k + 1] = coordinates[k]
    <3> HIDE DEF n
    <3>1. coordinates \in Seq(Int) /\ at \in 0 .. Len(coordinates)
      BY <2>0
    <3>2. x \in Int
      OBVIOUS
    <3>3. /\ \A k \in 1 .. at : Inserted(coordinates, at, x)[k] = coordinates[k]
          /\ Inserted(coordinates, at, x)[at + 1] = x
          /\ \A k \in at + 1 .. Len(coordinates) : Inserted(coordinates, at, x)[k + 1] = coordinates[k]
      BY <3>1, <3>2, InsertedElements, SMTT(60)
    <3> QED
      BY <2>0, <3>3, Zenon
  <2> QED
    BY <2>1, <2>2, <2>3, Zenon
<1> HIDE DEF n
<1>4. Lefts = 0 .. n - 2 /\ Lefts' = 0 .. n - 1
  BY <1>1, <1>3 DEF Lefts, n
<1>5. \A l \in Lefts : Axis[l] = [from |-> coordinates[l + 1], to |-> coordinates[l + 2]]
  BY DEF Axis
<1>6. \A l \in Lefts' : Axis'[l] = [from |-> coordinates'[l + 1], to |-> coordinates'[l + 2]]
  BY DEF Axis
<1>7. ASSUME NEW l \in Lefts, l < left PROVE l \in Lefts' /\ Axis'[l] = Axis[l]
  <2>1. l \in Lefts' /\ l + 1 \in 1 .. at /\ l + 2 \in 1 .. at
    BY <1>1, <1>4, <1>7 DEF at
  <2> QED
    BY <1>3, <1>5, <1>6, <2>1, ZenonT(60)
<1>8. ASSUME NEW l \in Lefts, l > left PROVE l + 1 \in Lefts' /\ Axis'[l + 1] = Axis[l]
  <2>1. /\ l + 1 \in Lefts' /\ l + 1 \in at + 1 .. n /\ l + 2 \in at + 1 .. n
        /\ l + 2 + 1 = l + 1 + 2
    BY <1>1, <1>4, <1>8 DEF at
  <2>2. coordinates'[l + 1 + 1] = coordinates[l + 1] /\ coordinates'[l + 2 + 1] = coordinates[l + 2]
    BY <1>3, <2>1, Zenon
  <2>3. Axis'[l + 1] = [from |-> coordinates'[l + 1 + 1], to |-> coordinates'[l + 1 + 2]]
    BY <1>6, <2>1, Zenon
  <2> QED
    BY <1>5, <2>1, <2>2, <2>3, Zenon
<1>9. left \in Lefts' /\ Axis'[left] = [from |-> Axis[left].from, to |-> x]
  <2>1. left \in Lefts' /\ left + 1 \in 1 .. at /\ left + 2 = at + 1
    BY <1>1, <1>4 DEF at
  <2>2. coordinates'[left + 1] = coordinates[left + 1] /\ coordinates'[left + 2] = x
    BY <1>3, <2>1, Zenon
  <2>3. Axis'[left] = [from |-> coordinates'[left + 1], to |-> coordinates'[left + 2]]
    BY <1>6, <2>1, Zenon
  <2>4. Axis[left].from = coordinates[left + 1]
    BY Zenon DEF Axis
  <2> QED
    BY <2>1, <2>2, <2>3, <2>4, Zenon
<1>10. left + 1 \in Lefts' /\ Axis'[left + 1] = [from |-> x, to |-> Axis[left].to]
  <2>1. /\ left + 1 \in Lefts' /\ left + 2 \in at + 1 .. n
        /\ left + 1 + 1 = at + 1 /\ left + 2 + 1 = left + 1 + 2
    BY <1>1, <1>4 DEF at
  <2>2. coordinates'[left + 1 + 1] = x /\ coordinates'[left + 2 + 1] = coordinates[left + 2]
    BY <1>3, <2>1, Zenon
  <2>3. Axis'[left + 1] = [from |-> coordinates'[left + 1 + 1], to |-> coordinates'[left + 1 + 2]]
    BY <1>6, <2>1, Zenon
  <2>4. Axis[left].to = coordinates[left + 2]
    BY Zenon DEF Axis
  <2> QED
    BY <2>1, <2>2, <2>3, <2>4, Zenon
<1>11. /\ \A l \in Lefts' : l < left \/ l = left \/ l = left + 1 \/ (l - 1 \in Lefts /\ l - 1 > left)
       /\ \A l \in Lefts' : l < left => l \in Lefts
  BY <1>1, <1>4
<1> QED
  BY <1>3, <1>7, <1>8, <1>9, <1>10, <1>11 DEF Cut, n

(* The indices P after the sample in the edge of index left. *)
Behind(P, left) == {IF l > left THEN l + 1 ELSE l : l \in P}

(* The edges of the indices P are the same afterwards. *)
LEMMA CutKeeps ==
  ASSUME NEW left \in Lefts, NEW x, NEW accepted, Cut(left, x, accepted),
         NEW P \in SUBSET Lefts, left \notin P
  PROVE  {Axis'[l] : l \in Behind(P, left)} = {Axis[l] : l \in P}
<1>1. ASSUME NEW l \in P PROVE Axis'[IF l > left THEN l + 1 ELSE l] = Axis[l]
  <2>1. l \in Lefts /\ l # left /\ l \in Int /\ left \in Int
    BY DEF Lefts
  <2>2. CASE l > left
    BY <2>1, <2>2 DEF Cut
  <2>3. CASE ~(l > left)
    <3>1. l < left
      BY <2>1, <2>3
    <3> QED
      BY <2>1, <2>3, <3>1 DEF Cut
  <2> QED
    BY <2>2, <2>3
<1> QED
  BY <1>1 DEF Behind

-----------------------------------------------------------------------------
(* The strengthened invariant.                                             *)

(* Seeds are in order. *)
LEMMA SeedsSorted == ASSUME NEW n \in 2 .. PointLimit, Begin(n) PROVE Sorted'
<1>1. n \in Nat /\ Spacing \in Nat
  BY GraphAssumption
<1>2. coordinates' = [i \in 1 .. n |-> (i - 1) * Spacing] /\ Len(coordinates') = n
  BY <1>1 DEF Begin
<1>3. ASSUME NEW i \in 1 .. n, NEW j \in 1 .. n, i <= j
      PROVE  (i - 1) * Spacing <= (j - 1) * Spacing
  <2>1. (j - 1) * Spacing = (i - 1) * Spacing + (j - i) * Spacing
    BY <1>1
  <2>2. (j - i) * Spacing >= 0 /\ (j - i) * Spacing \in Int /\ (i - 1) * Spacing \in Int
    BY <1>1, <1>3
  <2> QED
    BY <2>1, <2>2
<1> QED
  BY <1>2, <1>3 DEF Sorted

(* A sample in the middle of an edge is between its ends. *)
LEMMA SampleBetween ==
  ASSUME IInv, Sorted, NEW left \in Lefts, NEW accepted, Sample(left, accepted)
  PROVE  \E x \in Int :
           /\ x = (coordinates[left + 1] + coordinates[left + 2]) \div 2
           /\ coordinates' = Inserted(coordinates, left + 1, x)
           /\ coordinates[left + 1] <= x /\ x <= coordinates[left + 2]
<1>1. /\ coordinates \in Seq(Int) /\ Len(coordinates) \in Nat
      /\ left + 1 \in 1 .. Len(coordinates) /\ left + 2 \in 1 .. Len(coordinates)
      /\ left + 1 <= left + 2
  BY LenProperties DEF IInv, TypeOK, Lefts
<1>2. coordinates[left + 1] \in Int /\ coordinates[left + 2] \in Int
  BY <1>1, ElementOfSeq
<1>3. coordinates[left + 1] <= coordinates[left + 2]
  BY <1>1, Zenon DEF Sorted
<1>4. PICK a, b : a = coordinates[left + 1] /\ b = coordinates[left + 2]
  OBVIOUS
<1>5. (a + b) \div 2 \in Int /\ a <= (a + b) \div 2 /\ (a + b) \div 2 <= b
  BY <1>2, <1>3, <1>4
<1> QED
  BY <1>4, <1>5 DEF Sample

(* A sample leaves the axis in order. *)
LEMMA SampleSorted ==
  ASSUME IInv, Sorted, NEW left \in Lefts, NEW accepted, Sample(left, accepted)
  PROVE  Sorted'
<1> DEFINE at == left + 1
<1>1. PICK x \in Int : /\ coordinates' = Inserted(coordinates, at, x)
                       /\ coordinates[at] <= x /\ x <= coordinates[left + 2]
  BY SampleBetween
<1>2. /\ coordinates \in Seq(Int) /\ at \in 1 .. Len(coordinates)
      /\ at + 1 \in 1 .. Len(coordinates) /\ at + 1 = left + 2
  BY LenProperties DEF IInv, TypeOK, Lefts
<1> HIDE DEF at
<1>3. \A j, k \in 1 .. Len(coordinates) : j <= k => coordinates[j] <= coordinates[k]
  BY DEF Sorted
<1>4. x <= coordinates[at + 1]
  BY <1>1, <1>2
<1>5. \A j, k \in 1 .. Len(Inserted(coordinates, at, x)) :
        j <= k => Inserted(coordinates, at, x)[j] <= Inserted(coordinates, at, x)[k]
  BY <1>1, <1>2, <1>3, <1>4, InsertedSorted
<1> QED
  BY <1>1, <1>5, Zenon DEF Sorted

(* So does an anchor. *)
LEMMA AnchorSorted == ASSUME IInv, Sorted, NEW x \in Int, Anchor(x) PROVE Sorted'
<1>1. /\ coordinates' = Inserted(coordinates, edge, x)
      /\ coordinates[edge] < x /\ x < coordinates[edge + 1]
      /\ coordinates \in Seq(Int) /\ edge \in 1 .. Len(coordinates)
      /\ edge + 1 \in 1 .. Len(coordinates)
  BY LenProperties DEF IInv, TypeOK, Anchor, Examines, Anchoring
<1>2. coordinates[edge] \in Int /\ coordinates[edge + 1] \in Int
  BY <1>1, ElementOfSeq
<1>3. coordinates[edge] <= x /\ x <= coordinates[edge + 1]
  BY <1>1, <1>2
<1>4. \A j, k \in 1 .. Len(coordinates) : j <= k => coordinates[j] <= coordinates[k]
  BY DEF Sorted
<1>5. \A j, k \in 1 .. Len(Inserted(coordinates, edge, x)) :
        j <= k => Inserted(coordinates, edge, x)[j] <= Inserted(coordinates, edge, x)[k]
  BY <1>1, <1>3, <1>4, InsertedSorted
<1> QED
  BY <1>1, <1>5, Zenon DEF Sorted

(* An empty axis is in order, and tells nothing. *)
LEMMA EmptiedReported == Emptied => Sorted' /\ (limited \in BOOLEAN)' /\ Empty'
<1> SUFFICES ASSUME Emptied PROVE Sorted' /\ (limited \in BOOLEAN)' /\ Empty'
  OBVIOUS
<1>1. 1 .. Len(coordinates') = {}
  BY DEF Emptied
<1>2. Sorted'
  BY <1>1, Zenon DEF Sorted
<1> QED
  BY <1>2 DEF Emptied, Empty

(* The edge at the head of the ring is one of the axis. *)
LEMMA HeadIsEdge ==
  ASSUME IInv, Takes
  PROVE  /\ Entry(0) = queue[head] /\ queue[head] \in [left : Nat, depth : Nat]
         /\ queue[head].left \in Lefts /\ ~connect[queue[head].left + 2]
         /\ pending \in Nat /\ 0 \in 0 .. pending - 1
<1>1. queue # NoQueue /\ pending > 0 /\ pending \in Nat /\ head \in Slots
      /\ queue \in [Slots -> [left : Nat, depth : Nat]]
  BY DEF IInv, TypeOK, Takes, Refining
<1>2. Entry(0) = queue[head] /\ 0 \in 0 .. pending - 1
  BY <1>1, SlotsWrap DEF Entry
<1> QED
  BY <1>1, <1>2 DEF IInv, ActiveEdgesDisjoint

(* Every step leaves the axis in order. *)
LEMMA NextSorted == ASSUME IInv, Sorted, [Next]_vars PROVE Sorted'
<1>1. ASSUME NEW n \in 2 .. PointLimit, Begin(n) PROVE Sorted'
  BY <1>1, SeedsSorted
<1>2. ASSUME UNCHANGED coordinates PROVE Sorted'
  BY <1>2 DEF Sorted
<1>3. ASSUME NEW decision \in {"SPLIT", "ACCEPT", "SKIP"}, Probe(decision) PROVE Sorted'
  <2>1. PICK left : left = queue[head].left
    OBVIOUS
  <2>2. left \in Lefts
    BY <1>3, <2>1, HeadIsEdge DEF Probe
  <2>3. Sample(left, decision = "ACCEPT")
    BY <1>3, <2>1 DEF Probe
  <2> QED
    BY <2>2, <2>3, SampleSorted
<1>4. ASSUME NEW i \in DOMAIN coordinates,
             Anchor(coordinates[i] + 1) \/ Anchor(coordinates[i] - 1)
      PROVE  Sorted'
  <2>1. coordinates[i] \in Int
    BY <1>4, ElementOfSeq, LenProperties DEF IInv, TypeOK
  <2>2. coordinates[i] + 1 \in Int /\ coordinates[i] - 1 \in Int
    BY <2>1
  <2> QED
    BY <1>4, <2>2, AnchorSorted
<1>5. ASSUME Emptied PROVE Sorted'
  BY <1>5, EmptiedReported
<1> QED
  BY <1>1, <1>2, <1>3, <1>4, <1>5
  DEF Next, Finish, StopAtPoints, StopForResources, Conclude, AllocateQueue, SetAside,
      NextEdge, NoPeak, StopAnchoring, FinishPeaks, Fail, Deliver, vars

(* Nothing is reported before the refinement ends, and nothing is left over. *)
LEMMA NextReported == ASSUME IInv, Reported, [Next]_vars PROVE Reported'
<1>1. ASSUME NEW n \in 2 .. PointLimit, Begin(n) PROVE Reported'
  BY <1>1 DEF Begin, Reported, Empty
<1>2. ASSUME NEW reached, Conclude(reached) PROVE Reported'
  BY <1>2 DEF Conclude, Reported
<1>3. ASSUME stage # "idle", UNCHANGED <<stage, limited>> PROVE Reported'
  BY <1>3 DEF Reported
<1>4. ASSUME Emptied, stage' # "refine" PROVE Reported'
  BY <1>4, EmptiedReported DEF Reported
<1>5. CASE Finish \/ StopAtPoints \/ StopForResources
  BY <1>2, <1>5 DEF Finish, StopAtPoints, StopForResources
<1>6. CASE AllocateQueue \/ SetAside
  BY <1>3, <1>6 DEF AllocateQueue, SetAside, Takes, Refining
<1>7. ASSUME NEW decision, Probe(decision) PROVE Reported'
  BY <1>3, <1>7 DEF Probe, Takes, Refining
<1>8. CASE NextEdge \/ NoPeak
  BY <1>3, <1>8 DEF NextEdge, NoPeak, Examines, Anchoring
<1>9. CASE StopAnchoring \/ FinishPeaks
  BY <1>9 DEF StopAnchoring, FinishPeaks, Reported
<1>10. ASSUME NEW x, Anchor(x) PROVE Reported'
  BY <1>3, <1>10 DEF Anchor, Examines, Anchoring
<1>11. CASE Fail \/ Deliver
  BY <1>4, <1>11 DEF Fail, Deliver
<1>12. CASE UNCHANGED vars
  BY <1>12 DEF vars, ring, cursor, Reported, Empty
<1> QED
  BY <1>1, <1>5, <1>6, <1>7, <1>8, <1>9, <1>10, <1>11, <1>12 DEF Next

(* The count of edges that were never judged stays a number. *)
LEMMA NextCounted == ASSUME IInv, unresolved \in Nat, [Next]_vars PROVE unresolved' \in Nat
<1>1. pending \in Nat
  BY DEF IInv, TypeOK
<1>2. ASSUME NEW reached, Conclude(reached) PROVE unresolved' \in Nat
  BY <1>1, <1>2 DEF Conclude
<1>3. CASE Finish \/ StopAtPoints \/ StopForResources
  BY <1>2, <1>3 DEF Finish, StopAtPoints, StopForResources
<1>4. CASE SetAside
  BY <1>4 DEF SetAside
<1>5. CASE Fail \/ Deliver
  BY <1>5 DEF Fail, Deliver, Emptied
<1> QED
  BY <1>3, <1>4, <1>5
  DEF Next, Begin, AllocateQueue, Probe, NextEdge, NoPeak, Anchor, StopAnchoring, FinishPeaks, vars

(* What the refinement rests on holds in every behaviour. *)
LEMMA RInvariance == Spec => []RInv
<1>1. Init => Sorted /\ Reported /\ unresolved \in Nat
  <2> SUFFICES ASSUME Init PROVE Sorted /\ Reported /\ unresolved \in Nat
    OBVIOUS
  <2>1. 1 .. Len(coordinates) = {}
    BY DEF Init, Empty
  <2>2. Sorted
    BY <2>1, Zenon DEF Sorted
  <2>3. Reported
    BY DEF Init, Empty, Reported
  <2>4. unresolved \in Nat
    BY DEF Init, Empty
  <2> QED
    BY <2>2, <2>3, <2>4
<1>2. /\ Sorted /\ Reported /\ unresolved \in Nat /\ IInv /\ [Next]_vars
      => Sorted' /\ Reported' /\ (unresolved \in Nat)'
  BY NextSorted, NextReported, NextCounted
<1> QED
  BY <1>1, <1>2, Invariance, PTL DEF Spec, RInv

-----------------------------------------------------------------------------
(* The mapping.  Drawn and Blank are the edges of the indices with and without
   a flag that do not wait. *)

DrawnLefts == {l \in Lefts : connect[l + 2]}
BlankLefts == {l \in Lefts : ~connect[l + 2] /\ l \notin PendingLefts}
Drawn == {Axis[l] : l \in DrawnLefts}
Blank == {Axis[l] : l \in BlankLefts}
Told == limited \/ limits # {}

WaitingEdge == [from : Int, to : Int, depth : Nat]

(* The variables of CurveEdges, read off the arrays. *)
LEMMA Mapped ==
  /\ {EdgeAt(left) : left \in {l \in Lefts : connect[l + 2]}} = Drawn
  /\ {EdgeAt(left) : left \in {l \in Lefts : ~connect[l + 2] /\ l \notin PendingLefts}} = Blank
<1>1. \A l \in Lefts : EdgeAt(l) = Axis[l]
  BY DEF EdgeAt, Axis
<1> QED
  BY <1>1 DEF Drawn, Blank, DrawnLefts, BlankLefts

(* The same after a step. *)
LEMMA MappedNext ==
  /\ {EdgeAt(left) : left \in {l \in Lefts : connect[l + 2]}}' = Drawn'
  /\ {EdgeAt(left) : left \in {l \in Lefts : ~connect[l + 2] /\ l \notin PendingLefts}}' = Blank'
<1>1. \A l \in Lefts' : EdgeAt(l)' = Axis'[l]
  BY DEF EdgeAt, Axis
<1> QED
  BY <1>1 DEF Drawn, Blank, DrawnLefts, BlankLefts

(* A step of CurveEdges, in terms of these. *)
LEMMA SameCurve ==
  ASSUME WaitingEdges' = WaitingEdges, Drawn' = Drawn, Blank' = Blank,
         unresolved' = unresolved, Told' = Told
  PROVE  UNCHANGED Curve!vars
BY Mapped, MappedNext DEF Curve!vars, Told


-----------------------------------------------------------------------------
(* What waits, edge by edge. *)
WaitingNamed ==
  /\ WaitingEdges \in Seq(WaitingEdge) /\ Len(WaitingEdges) = pending
  /\ \A i \in 1 .. pending :
       WaitingEdges[i] = [from |-> Axis[Entry(i - 1).left].from,
                          to |-> Axis[Entry(i - 1).left].to,
                          depth |-> Entry(i - 1).depth]

(* An edge has two coordinates. *)
LEMMA AxisTyped == ASSUME IInv PROVE Axis \in [Lefts -> [from : Int, to : Int]]
<1>1. ASSUME NEW l \in Lefts PROVE coordinates[l + 1] \in Int /\ coordinates[l + 2] \in Int
  <2>1. /\ coordinates \in Seq(Int) /\ l + 1 \in 1 .. Len(coordinates)
        /\ l + 2 \in 1 .. Len(coordinates)
    BY LenProperties DEF IInv, TypeOK, Lefts
  <2> QED
    BY <2>1, ElementOfSeq
<1> QED
  BY <1>1 DEF Axis

(* An entry, whether the ring exists or not. *)
LEMMA EntryTyped ==
  ASSUME IInv, NEW i \in 0 .. pending - 1
  PROVE  /\ Entry(i).left \in Lefts /\ Entry(i).left \in Nat /\ Entry(i).depth \in Nat
         /\ ~connect[Entry(i).left + 2]
<1>1. Entry(i).left \in Lefts /\ ~connect[Entry(i).left + 2]
  BY DEF IInv, ActiveEdgesDisjoint
<1>2. Entry(i).depth \in Nat
  <2>1. CASE queue = NoQueue
    BY <2>1 DEF Entry
  <2>2. CASE queue # NoQueue
    <3>1. /\ head \in Slots /\ queue \in [Slots -> [left : Nat, depth : Nat]]
          /\ i \in 0 .. PointLimit
      <4>1. stage = "refine" /\ pending < points /\ points <= PointLimit
        BY <2>2 DEF IInv, QueueFits, RingFollowsStage
      <4>2. pending \in Nat /\ points \in Nat /\ PointLimit \in Nat
        BY GraphAssumption DEF IInv, TypeOK
      <4> QED
        BY <2>2, <4>1, <4>2 DEF IInv, TypeOK
    <3>2. Slot(i) \in Slots
      BY <3>1, SlotsWrap
    <3> QED
      BY <2>2, <3>1, <3>2 DEF Entry
  <2> QED
    BY <2>1, <2>2
<1> QED
  BY <1>1, <1>2 DEF Lefts

(* The waiting edges are a sequence, as long as the ring is full. *)
LEMMA WaitingProperties == IInv => WaitingNamed
<1> SUFFICES ASSUME IInv PROVE WaitingNamed
  OBVIOUS
<1>1. pending \in Nat
  BY DEF IInv, TypeOK
<1>2. ASSUME NEW l \in Lefts PROVE EdgeAt(l) = Axis[l]
  BY DEF EdgeAt, Axis
<1>3. ASSUME NEW i \in 1 .. pending
      PROVE  /\ WaitingEdges[i] = [from |-> Axis[Entry(i - 1).left].from,
                                   to |-> Axis[Entry(i - 1).left].to,
                                   depth |-> Entry(i - 1).depth]
             /\ WaitingEdges[i] \in WaitingEdge
  <2>1. i - 1 \in 0 .. pending - 1
    BY <1>1
  <2>2. Entry(i - 1).left \in Lefts /\ Entry(i - 1).depth \in Nat
    BY <2>1, EntryTyped
  <2>3. EdgeAt(Entry(i - 1).left) = Axis[Entry(i - 1).left]
    BY <1>2, <2>2
  <2>4. Axis[Entry(i - 1).left] \in [from : Int, to : Int]
    BY <2>2, AxisTyped
  <2>5. WaitingEdges[i] = [from |-> EdgeAt(Entry(i - 1).left).from,
                           to |-> EdgeAt(Entry(i - 1).left).to,
                           depth |-> Entry(i - 1).depth]
    BY DEF WaitingEdges
  <2>6. WaitingEdges[i] = [from |-> Axis[Entry(i - 1).left].from,
                           to |-> Axis[Entry(i - 1).left].to,
                           depth |-> Entry(i - 1).depth]
    BY <2>3, <2>5, Zenon
  <2> QED
    BY <2>2, <2>4, <2>6 DEF WaitingEdge
<1>4. DOMAIN WaitingEdges = 1 .. pending
      /\ WaitingEdges = [i \in 1 .. pending |-> WaitingEdges[i]]
  BY DEF WaitingEdges
<1>5. WaitingEdges \in Seq(WaitingEdge) /\ Len(WaitingEdges) = pending
  <2>1. WaitingEdges \in [1 .. pending -> WaitingEdge]
    BY <1>3, <1>4
  <2> QED
    BY <1>1, <2>1
<1> QED
  BY <1>3, <1>5 DEF WaitingNamed

(* The same after a step. *)
LEMMA WaitingPropertiesNext == IInv' => WaitingNamed'
BY WaitingProperties, PTL

-----------------------------------------------------------------------------
(* What a cut does to the sets of indices and of edges.                    *)

(* The indices after a cut: those in front of it stay, those behind it move by one. *)
LEMMA CutBounds ==
  ASSUME NEW left \in Lefts, NEW x, NEW accepted, Cut(left, x, accepted)
  PROVE  /\ left \in Int /\ \A l \in Lefts : l \in Int
         /\ \A P \in SUBSET Lefts : Behind(P, left) \subseteq Lefts'
         /\ \A P \in SUBSET Lefts : left \notin P =>
              left \notin Behind(P, left) /\ left + 1 \notin Behind(P, left)
         /\ \A P \in SUBSET Lefts, l \in Lefts :
              (l < left => (l \in Behind(P, left) <=> l \in P))
              /\ (l > left => (l + 1 \in Behind(P, left) <=> l \in P))
<1>1. left \in Int /\ \A l \in Lefts : l \in Int
  BY DEF Lefts
<1>2. ASSUME NEW P \in SUBSET Lefts, NEW l \in P
      PROVE  (IF l > left THEN l + 1 ELSE l) \in Lefts'
  <2>1. CASE l > left
    BY <2>1 DEF Cut
  <2>2. CASE ~(l > left)
    <3>1. l < left \/ l = left
      BY <1>1, <2>2
    <3> QED
      BY <2>2, <3>1 DEF Cut
  <2> QED
    BY <2>1, <2>2
<1>3. \A P \in SUBSET Lefts : Behind(P, left) \subseteq Lefts'
  BY <1>2 DEF Behind
<1>4. ASSUME NEW P \in SUBSET Lefts, left \notin P
      PROVE  left \notin Behind(P, left) /\ left + 1 \notin Behind(P, left)
  BY <1>1, <1>4 DEF Behind
<1>5. ASSUME NEW P \in SUBSET Lefts, NEW l \in Lefts
      PROVE  /\ l < left => (l \in Behind(P, left) <=> l \in P)
             /\ l > left => (l + 1 \in Behind(P, left) <=> l \in P)
  <2>1. \A p \in P : p \in Int
    BY <1>1
  <2>2. l \in P => (IF l > left THEN l + 1 ELSE l) \in Behind(P, left)
    BY Zenon DEF Behind
  <2>3. ASSUME l < left, l \in Behind(P, left) PROVE l \in P
    <3>1. PICK p \in P : l = IF p > left THEN p + 1 ELSE p
      BY <2>3 DEF Behind
    <3>2. l = p
      BY <1>1, <2>1, <2>3, <3>1
    <3> QED
      BY <3>2
  <2>4. ASSUME l > left, l + 1 \in Behind(P, left) PROVE l \in P
    <3>1. PICK p \in P : l + 1 = IF p > left THEN p + 1 ELSE p
      BY <2>4 DEF Behind
    <3>2. l = p
      BY <1>1, <2>1, <2>4, <3>1
    <3> QED
      BY <3>2
  <2>5. l < left => ~(l > left)
    BY <1>1
  <2> QED
    BY <2>2, <2>3, <2>4, <2>5
<1> QED
  BY <1>1, <1>3, <1>4, <1>5

(* A set of new indices is known by its members in front of the cut, behind it
   and at it. *)
LEMMA CutSet ==
  ASSUME NEW left \in Lefts, NEW x, NEW accepted, Cut(left, x, accepted),
         NEW P \in SUBSET Lefts, left \notin P, NEW Q \in SUBSET {left, left + 1},
         NEW R, R \subseteq Lefts',
         \A l \in Lefts : l < left => (l \in R <=> l \in P),
         \A l \in Lefts : l > left => (l + 1 \in R <=> l \in P),
         left \in R <=> left \in Q,
         left + 1 \in R <=> left + 1 \in Q
  PROVE  R = Behind(P, left) \cup Q
<1>1. ASSUME NEW m \in Lefts' PROVE m \in R <=> m \in Behind(P, left) \cup Q
  <2>1. left \in Int /\ m \in Int
    BY DEF Lefts
  <2>2. CASE m < left
    <3>1. m \in Lefts /\ m \notin Q
      BY <2>1, <2>2 DEF Cut
    <3> QED
      BY <2>2, <3>1, CutBounds
  <2>3. CASE m = left \/ m = left + 1
    BY <2>3, CutBounds
  <2>4. CASE m - 1 \in Lefts /\ m - 1 > left
    <3>1. PICK l \in Lefts : l = m - 1 /\ l > left
      BY <2>4
    <3>2. m = l + 1 /\ m \notin Q
      BY <2>1, <3>1
    <3>3. l + 1 \in R <=> l \in P
      BY <3>1
    <3>4. l + 1 \in Behind(P, left) <=> l \in P
      BY <3>1, CutBounds
    <3> QED
      BY <3>2, <3>3, <3>4
  <2> QED
    BY <2>2, <2>3, <2>4 DEF Cut
<1>2. Behind(P, left) \cup Q \subseteq Lefts'
  BY CutBounds DEF Cut
<1> QED
  BY <1>1, <1>2

(* The edges of these indices. *)
LEMMA CutImage ==
  ASSUME NEW left \in Lefts, NEW x, NEW accepted, Cut(left, x, accepted),
         NEW P \in SUBSET Lefts, left \notin P
  PROVE  {Axis'[l] : l \in Behind(P, left) \cup {left, left + 1}} =
           {Axis[l] : l \in P} \cup {[from |-> Axis[left].from, to |-> x],
                                     [from |-> x, to |-> Axis[left].to]}
<1>1. {Axis'[l] : l \in Behind(P, left)} = {Axis[l] : l \in P}
  BY CutKeeps
<1>2. {Axis'[l] : l \in Behind(P, left) \cup {left, left + 1}} =
        {Axis'[l] : l \in Behind(P, left)} \cup {Axis'[left], Axis'[left + 1]}
  BY Zenon
<1> QED
  BY <1>1, <1>2, Zenon DEF Cut


-----------------------------------------------------------------------------
(* The probe. *)

(* The entries after a probe: those behind the head follow their edges, and the
   halves of a split edge are the last. *)
LEMMA ProbedEntries ==
  ASSUME IInv, NEW decision \in {"SPLIT", "ACCEPT", "SKIP"}, Probe(decision),
         NEW left, left = queue[head].left, NEW depth, depth = queue[head].depth
  PROVE  /\ pending' = IF decision = "SPLIT" THEN pending + 1 ELSE pending - 1
         /\ \A i \in 0 .. pending - 2 :
              /\ Entry(i)'.left = IF Entry(i + 1).left > left THEN Entry(i + 1).left + 1
                                  ELSE Entry(i + 1).left
              /\ Entry(i)'.depth = Entry(i + 1).depth
         /\ decision = "SPLIT" =>
              \A i \in Nat :
                /\ i = pending - 1 => Entry(i)'.left = left /\ Entry(i)'.depth = depth + 1
                /\ i = pending => Entry(i)'.left = left + 1 /\ Entry(i)'.depth = depth + 1
<1>1. /\ queue \in [Slots -> [left : Nat, depth : Nat]] /\ head \in Slots /\ queue # NoQueue
      /\ pending \in Nat /\ pending > 0 /\ pending < points /\ points < PointLimit
      /\ points \in Nat /\ PointLimit \in Nat
  BY GraphAssumption DEF IInv, TypeOK, QueueFits, Probe, Takes, Refining
<1>2. head' = Slot(1) /\ pending' = IF decision = "SPLIT" THEN pending + 1 ELSE pending - 1
  BY DEF Probe
<1>3. head' \in Slots /\ \A i \in 0 .. PointLimit - 1 : Slot(i)' = Slot(i + 1)
  BY <1>1, <1>2, NextSlot
<1>4. \A i \in 0 .. pending - 1 : Entry(i) = queue[Slot(i)]
  BY <1>1 DEF Entry
<1>5. /\ queue' \in [Slots -> [left : Nat, depth : Nat]]
      /\ \A i \in 1 .. pending - 1 :
           queue'[Slot(i)].left =
             IF queue[Slot(i)].left > left THEN queue[Slot(i)].left + 1 ELSE queue[Slot(i)].left
      /\ \A i \in 1 .. pending - 1 : queue'[Slot(i)].depth = queue[Slot(i)].depth
      /\ decision = "SPLIT" =>
           /\ queue'[Slot(pending)].left = left /\ queue'[Slot(pending)].depth = depth + 1
           /\ queue'[Slot(pending + 1)].left = left + 1
           /\ queue'[Slot(pending + 1)].depth = depth + 1
  BY ProbedRing
<1>6. queue' # NoQueue
  BY <1>5, RingIsThere
<1>7. ASSUME NEW i \in 0 .. pending - 2
      PROVE  /\ Entry(i)'.left = IF Entry(i + 1).left > left THEN Entry(i + 1).left + 1
                                 ELSE Entry(i + 1).left
             /\ Entry(i)'.depth = Entry(i + 1).depth
  <2>1. i + 1 \in 1 .. pending - 1 /\ i + 1 \in 0 .. pending - 1 /\ i \in 0 .. PointLimit - 1
    BY <1>1
  <2>2. Entry(i)' = queue'[Slot(i + 1)]
    BY <1>3, <1>6, <2>1 DEF Entry
  <2> QED
    BY <1>4, <1>5, <2>1, <2>2
<1>8. ASSUME decision = "SPLIT", NEW i \in Nat
      PROVE  /\ i = pending - 1 => Entry(i)'.left = left /\ Entry(i)'.depth = depth + 1
             /\ i = pending => Entry(i)'.left = left + 1 /\ Entry(i)'.depth = depth + 1
  <2>1. ASSUME i = pending - 1 \/ i = pending PROVE Entry(i)' = queue'[Slot(i + 1)]
    <3>1. i \in 0 .. PointLimit - 1
      BY <1>1, <2>1
    <3> QED
      BY <1>3, <1>6, <3>1 DEF Entry
  <2>2. i = pending - 1 => i + 1 = pending
    BY <1>1
  <2> QED
    BY <1>5, <1>8, <2>1, <2>2
<1> QED
  BY <1>2, <1>7, <1>8

(* The indices that wait after a probe. *)
LEMMA ProbedPending ==
  ASSUME IInv, IInv', NEW decision \in {"SPLIT", "ACCEPT", "SKIP"}, Probe(decision),
         NEW left, left = queue[head].left
  PROVE  PendingLefts' = Behind(PendingLefts \ {left}, left)
                           \cup (IF decision = "SPLIT" THEN {left, left + 1} ELSE {})
<1>1. PICK depth : depth = queue[head].depth
  OBVIOUS
<1>2. /\ pending' = IF decision = "SPLIT" THEN pending + 1 ELSE pending - 1
      /\ \A i \in 0 .. pending - 2 :
           Entry(i)'.left = IF Entry(i + 1).left > left THEN Entry(i + 1).left + 1
                            ELSE Entry(i + 1).left
      /\ decision = "SPLIT" =>
           \A i \in Nat : /\ i = pending - 1 => Entry(i)'.left = left
                          /\ i = pending => Entry(i)'.left = left + 1
  BY <1>1, ProbedEntries
<1>3. /\ pending \in Nat /\ pending > 0 /\ Entry(0) = queue[head] /\ 0 \in 0 .. pending - 1
  BY HeadIsEdge DEF Probe, Takes, Refining
<1>4. \A i, j \in 0 .. pending - 1 : Entry(i).left = Entry(j).left => i = j
  BY DEF IInv, ActiveEdgesDisjoint
<1>5. PendingLefts \ {left} = {Entry(i + 1).left : i \in 0 .. pending - 2}
  <2>1. ASSUME NEW i \in 0 .. pending - 1, Entry(i).left # left
        PROVE  \E k \in 0 .. pending - 2 : Entry(i).left = Entry(k + 1).left
    <3>1. i # 0
      BY <1>3, <2>1
    <3>2. i - 1 \in 0 .. pending - 2 /\ i - 1 + 1 = i
      BY <1>3, <3>1
    <3> QED
      BY <3>2
  <2>2. ASSUME NEW i \in 0 .. pending - 2
        PROVE  i + 1 \in 0 .. pending - 1 /\ Entry(i + 1).left # left
    <3>1. i + 1 \in 0 .. pending - 1 /\ i + 1 # 0
      BY <1>3
    <3> QED
      BY <1>3, <1>4, <3>1
  <2> QED
    BY <2>1, <2>2, Zenon DEF PendingLefts
<1>6. Behind(PendingLefts \ {left}, left) = {Entry(i)'.left : i \in 0 .. pending - 2}
  <2>1. ASSUME NEW l \in PendingLefts \ {left}
        PROVE  \E i \in 0 .. pending - 2 : (IF l > left THEN l + 1 ELSE l) = Entry(i)'.left
    <3>1. PICK i \in 0 .. pending - 2 : l = Entry(i + 1).left
      BY <1>5
    <3>2. Entry(i)'.left = IF Entry(i + 1).left > left THEN Entry(i + 1).left + 1
                           ELSE Entry(i + 1).left
      BY <1>2
    <3> QED
      BY <3>1, <3>2, Zenon
  <2>2. ASSUME NEW i \in 0 .. pending - 2 PROVE Entry(i)'.left \in Behind(PendingLefts \ {left}, left)
    <3>1. PICK l : l = Entry(i + 1).left
      OBVIOUS
    <3>2. l \in PendingLefts \ {left}
      BY <1>5, <3>1, Zenon
    <3>3. Entry(i)'.left = IF l > left THEN l + 1 ELSE l
      BY <1>2, <3>1, Zenon
    <3> QED
      BY <3>2, <3>3, Zenon DEF Behind
  <2> QED
    BY <2>1, <2>2 DEF Behind
<1>7. PendingLefts' = {Entry(i)'.left : i \in 0 .. pending' - 1}
  BY DEF PendingLefts
<1>8. CASE decision = "SPLIT"
  <2>1. pending - 1 \in Nat /\ pending \in Nat
        /\ 0 .. pending' - 1 = (0 .. pending - 2) \cup {pending - 1, pending}
    BY <1>2, <1>3, <1>8
  <2>2. PICK a, b : a = pending - 1 /\ b = pending
    OBVIOUS
  <2>3. Entry(a)'.left = left /\ Entry(b)'.left = left + 1
    BY <1>2, <1>8, <2>1, <2>2
  <2>4. 0 .. pending' - 1 = (0 .. pending - 2) \cup {a, b}
    BY <2>1, <2>2
  <2>5. {Entry(i)'.left : i \in 0 .. pending' - 1} =
          {Entry(i)'.left : i \in 0 .. pending - 2} \cup {Entry(a)'.left, Entry(b)'.left}
    BY <2>4, Zenon
  <2> QED
    BY <1>6, <1>7, <1>8, <2>3, <2>5, Zenon
<1>9. CASE decision # "SPLIT"
  <2>1. 0 .. pending' - 1 = 0 .. pending - 2
    BY <1>2, <1>3, <1>9
  <2> QED
    BY <1>6, <1>7, <1>9, <2>1, Zenon
<1> QED
  BY <1>8, <1>9


(* The edges after a probe: its halves join those that are drawn, those that are
   not, or none of them. *)
LEMMA ProbedEdges ==
  ASSUME IInv, IInv', Sorted, NEW decision \in {"SPLIT", "ACCEPT", "SKIP"}, Probe(decision),
         NEW left \in Lefts, left = queue[head].left, NEW e, e = Axis[left]
  PROVE  /\ Cut(left, (e.from + e.to) \div 2, decision = "ACCEPT")
         /\ Drawn' = IF decision = "ACCEPT" THEN Drawn \cup Curve!Halves(e) ELSE Drawn
         /\ Blank' = IF decision = "SKIP" THEN Blank \cup Curve!Halves(e) ELSE Blank
<1> DEFINE x == (e.from + e.to) \div 2
           accepted == decision = "ACCEPT"
           Cuts == {[from |-> e.from, to |-> x], [from |-> x, to |-> e.to]}
<1>1. e.from = coordinates[left + 1] /\ e.to = coordinates[left + 2]
  BY DEF Axis
<1>2. Sample(left, accepted) /\ accepted \in BOOLEAN
  BY DEF Probe
<1>3. Curve!Halves(e) = Cuts
  BY DEF Curve!Halves, Curve!Edge, Curve!Middle
<1>4. x \in Int /\ coordinates' = Inserted(coordinates, left + 1, x)
  <2>1. PICK y \in Int : y = (coordinates[left + 1] + coordinates[left + 2]) \div 2
                         /\ coordinates' = Inserted(coordinates, left + 1, y)
    BY <1>2, SampleBetween
  <2> QED
    BY <1>1, <2>1, Zenon
<1> HIDE DEF x, accepted, Cuts
<1>5. Cut(left, x, accepted)
  <2>1. /\ connect'[left + 2] = accepted /\ connect'[left + 3] = accepted
        /\ \A l \in Lefts : l < left => connect'[l + 2] = connect[l + 2]
        /\ \A l \in Lefts : l > left => connect'[l + 3] = connect[l + 2]
    BY <1>2, SampleProperties
  <2> QED
    BY <1>2, <1>4, <2>1, InsertedCuts
<1>6. ~connect[left + 2] /\ left \in PendingLefts /\ left \in Int
  <2>1. Entry(0) = queue[head] /\ 0 \in 0 .. pending - 1 /\ ~connect[left + 2]
    BY HeadIsEdge DEF Probe
  <2> QED
    BY <2>1 DEF PendingLefts, Lefts
<1> DEFINE Q == IF accepted THEN {left, left + 1} ELSE {}
           B == IF decision = "SKIP" THEN {left, left + 1} ELSE {}
           S == IF decision = "SPLIT" THEN {left, left + 1} ELSE {}
<1>7. DrawnLefts \in SUBSET Lefts /\ left \notin DrawnLefts
      /\ BlankLefts \in SUBSET Lefts /\ left \notin BlankLefts
  BY <1>6 DEF DrawnLefts, BlankLefts
<1>8. /\ \A l \in Lefts' : l \in DrawnLefts' <=> connect'[l + 2]
      /\ \A l \in Lefts' : l \in BlankLefts' <=> ~connect'[l + 2] /\ l \notin PendingLefts'
      /\ \A l \in Lefts : l \in DrawnLefts <=> connect[l + 2]
      /\ \A l \in Lefts : l \in BlankLefts <=> ~connect[l + 2] /\ l \notin PendingLefts
      /\ DrawnLefts' \subseteq Lefts' /\ BlankLefts' \subseteq Lefts'
  BY DEF DrawnLefts, BlankLefts
<1>9. /\ PendingLefts \in SUBSET Lefts /\ PendingLefts \ {left} \in SUBSET Lefts
      /\ PendingLefts' = Behind(PendingLefts \ {left}, left) \cup S
  <2>1. PendingLefts \in SUBSET Lefts
    BY EntryTyped DEF PendingLefts
  <2> QED
    BY <2>1, ProbedPending
<1>10. ASSUME NEW l \in Lefts, l < left
       PROVE  l \in Lefts' /\ connect'[l + 2] = connect[l + 2] /\ (l \in PendingLefts' <=> l \in PendingLefts)
  <2>1. l \in Behind(PendingLefts \ {left}, left) <=> l \in PendingLefts \ {left}
    BY <1>5, <1>9, <1>10, CutBounds
  <2>2. l # left /\ l # left + 1
    BY <1>6, <1>10
  <2> QED
    BY <1>5, <1>9, <1>10, <2>1, <2>2 DEF Cut
<1>11. ASSUME NEW l \in Lefts, l > left
       PROVE  /\ l + 1 \in Lefts' /\ connect'[l + 3] = connect[l + 2] /\ l + 1 + 2 = l + 3
              /\ l + 1 \in PendingLefts' <=> l \in PendingLefts
  <2>1. l + 1 \in Behind(PendingLefts \ {left}, left) <=> l \in PendingLefts \ {left}
    BY <1>5, <1>9, <1>11, CutBounds
  <2>2. l # left /\ l + 1 # left /\ l + 1 # left + 1 /\ l + 1 + 2 = l + 3
    BY <1>6, <1>11, CutBounds, <1>5
  <2> QED
    BY <1>5, <1>9, <1>11, <2>1, <2>2 DEF Cut
<1>12. /\ left \in Lefts' /\ left + 1 \in Lefts' /\ left + 1 + 2 = left + 3
       /\ connect'[left + 2] = accepted /\ connect'[left + 3] = accepted
       /\ left \in PendingLefts' <=> decision = "SPLIT"
       /\ left + 1 \in PendingLefts' <=> decision = "SPLIT"
  <2>1. /\ left \notin Behind(PendingLefts \ {left}, left)
        /\ left + 1 \notin Behind(PendingLefts \ {left}, left)
    BY <1>5, <1>9, CutBounds
  <2>2. (left \in PendingLefts' <=> left \in S) /\ (left + 1 \in PendingLefts' <=> left + 1 \in S)
    BY <1>9, <2>1
  <2>3. (left \in S <=> decision = "SPLIT") /\ (left + 1 \in S <=> decision = "SPLIT")
    OBVIOUS
  <2>4. left + 1 + 2 = left + 3
    BY <1>6
  <2>5. /\ left \in Lefts' /\ left + 1 \in Lefts'
        /\ connect'[left + 2] = accepted /\ connect'[left + 3] = accepted
    BY <1>5, Zenon DEF Cut
  <2> HIDE DEF S
  <2> QED
    BY <2>2, <2>3, <2>4, <2>5, Zenon
<1>13. DrawnLefts' = Behind(DrawnLefts, left) \cup Q
  <2>1. /\ \A l \in Lefts : l < left => (l \in DrawnLefts' <=> l \in DrawnLefts)
        /\ \A l \in Lefts : l > left => (l + 1 \in DrawnLefts' <=> l \in DrawnLefts)
    BY <1>8, <1>10, <1>11
  <2>2. (left \in DrawnLefts' <=> left \in Q) /\ (left + 1 \in DrawnLefts' <=> left + 1 \in Q)
    BY <1>8, <1>12
  <2>3. Q \in SUBSET {left, left + 1}
    OBVIOUS
  <2> HIDE DEF Q
  <2> QED
    BY <1>5, <1>7, <1>8, <2>1, <2>2, <2>3, CutSet
<1>14. BlankLefts' = Behind(BlankLefts, left) \cup B
  <2>1. /\ \A l \in Lefts : l < left => (l \in BlankLefts' <=> l \in BlankLefts)
        /\ \A l \in Lefts : l > left => (l + 1 \in BlankLefts' <=> l \in BlankLefts)
    BY <1>8, <1>10, <1>11
  <2>2. (left \in BlankLefts' <=> left \in B) /\ (left + 1 \in BlankLefts' <=> left + 1 \in B)
    BY <1>8, <1>12 DEF accepted
  <2>3. B \in SUBSET {left, left + 1}
    OBVIOUS
  <2> HIDE DEF B
  <2> QED
    BY <1>5, <1>7, <1>8, <2>1, <2>2, <2>3, CutSet
<1>15. ASSUME NEW P \in SUBSET Lefts, left \notin P
       PROVE  /\ {Axis'[l] : l \in Behind(P, left)} = {Axis[l] : l \in P}
              /\ {Axis'[l] : l \in Behind(P, left) \cup {left, left + 1}} = {Axis[l] : l \in P} \cup Cuts
  BY <1>5, <1>15, CutKeeps, CutImage DEF Cuts
<1>16. Drawn' = {Axis'[l] : l \in DrawnLefts'} /\ Blank' = {Axis'[l] : l \in BlankLefts'}
  BY DEF Drawn, Blank
<1>17. Drawn' = IF decision = "ACCEPT" THEN Drawn \cup Cuts ELSE Drawn
  <2>1. CASE decision = "ACCEPT"
    <3>1. DrawnLefts' = Behind(DrawnLefts, left) \cup {left, left + 1}
      BY <1>13, <2>1 DEF accepted
    <3> QED
      BY <1>7, <1>15, <1>16, <2>1, <3>1, Zenon DEF Drawn
  <2>2. CASE decision # "ACCEPT"
    <3>1. DrawnLefts' = Behind(DrawnLefts, left)
      BY <1>13, <2>2 DEF accepted
    <3> QED
      BY <1>7, <1>15, <1>16, <2>2, <3>1, Zenon DEF Drawn
  <2> QED
    BY <2>1, <2>2
<1>18. Blank' = IF decision = "SKIP" THEN Blank \cup Cuts ELSE Blank
  <2>1. CASE decision = "SKIP"
    <3>1. BlankLefts' = Behind(BlankLefts, left) \cup {left, left + 1}
      BY <1>14, <2>1
    <3> QED
      BY <1>7, <1>15, <1>16, <2>1, <3>1, Zenon DEF Blank
  <2>2. CASE decision # "SKIP"
    <3>1. BlankLefts' = Behind(BlankLefts, left)
      BY <1>14, <2>2, SMTT(60)
    <3> QED
      BY <1>7, <1>15, <1>16, <2>2, <3>1, Zenon DEF Blank
  <2> QED
    BY <2>1, <2>2
<1> QED
  BY <1>3, <1>5, <1>17, <1>18 DEF x, accepted


(* The line after a probe: the head has left it, and the halves of a split edge
   are its end. *)
LEMMA ProbedWaiting ==
  ASSUME IInv, IInv', Sorted, NEW decision \in {"SPLIT", "ACCEPT", "SKIP"}, Probe(decision),
         NEW left \in Lefts, left = queue[head].left, NEW e, e = Axis[left],
         NEW depth, depth = queue[head].depth, NEW x, x = (e.from + e.to) \div 2
  PROVE  /\ WaitingEdges # <<>>
         /\ Head(WaitingEdges) = [from |-> e.from, to |-> e.to, depth |-> depth]
         /\ decision # "SPLIT" => WaitingEdges' = Tail(WaitingEdges)
         /\ decision = "SPLIT" =>
              WaitingEdges' = Tail(WaitingEdges) \o <<[from |-> e.from, to |-> x, depth |-> depth + 1],
                                                     [from |-> x, to |-> e.to, depth |-> depth + 1]>>
<1> DEFINE W == WaitingEdges
           a == [from |-> e.from, to |-> x, depth |-> depth + 1]
           b == [from |-> x, to |-> e.to, depth |-> depth + 1]
<1>1. /\ pending \in Nat /\ pending > 0 /\ 0 \in 0 .. pending - 1
      /\ Entry(0).left = left /\ Entry(0).depth = depth /\ depth \in Nat
  BY HeadIsEdge DEF Probe, Takes, Refining
<1>2. WaitingNamed /\ WaitingNamed'
  BY WaitingProperties, WaitingPropertiesNext
<1>3. W \in Seq(WaitingEdge) /\ Len(W) = pending /\ W # <<>>
  BY <1>1, <1>2 DEF WaitingNamed
<1>4. W' \in Seq(WaitingEdge) /\ Len(W') = pending'
  BY <1>2 DEF WaitingNamed
<1>5. Head(W) = [from |-> e.from, to |-> e.to, depth |-> depth]
  <2>1. Head(W) = W[1] /\ 1 \in 1 .. pending /\ 1 - 1 = 0
    BY <1>1, <1>3
  <2>2. W[1] = [from |-> Axis[Entry(1 - 1).left].from, to |-> Axis[Entry(1 - 1).left].to,
                depth |-> Entry(1 - 1).depth]
    BY <1>2, <2>1, Zenon DEF WaitingNamed
  <2> QED
    BY <1>1, <2>1, <2>2, Zenon
<1>6. Tail(W) \in Seq(WaitingEdge) /\ Len(Tail(W)) = pending - 1
      /\ \A i \in 1 .. pending - 1 : Tail(W)[i] = W[i + 1]
  BY <1>1, <1>3, HeadTailProperties
<1>7. Cut(left, x, decision = "ACCEPT")
  BY ProbedEdges
<1>8. /\ pending' = IF decision = "SPLIT" THEN pending + 1 ELSE pending - 1
      /\ \A i \in 0 .. pending - 2 :
           /\ Entry(i)'.left = IF Entry(i + 1).left > left THEN Entry(i + 1).left + 1
                               ELSE Entry(i + 1).left
           /\ Entry(i)'.depth = Entry(i + 1).depth
      /\ decision = "SPLIT" =>
           \A i \in Nat :
             /\ i = pending - 1 => Entry(i)'.left = left /\ Entry(i)'.depth = depth + 1
             /\ i = pending => Entry(i)'.left = left + 1 /\ Entry(i)'.depth = depth + 1
  BY ProbedEntries
<1>9. \A i \in 1 .. pending' :
        W'[i] = [from |-> Axis'[Entry(i - 1)'.left].from, to |-> Axis'[Entry(i - 1)'.left].to,
                 depth |-> Entry(i - 1)'.depth]
  BY <1>2 DEF WaitingNamed
<1>10. ASSUME NEW i \in 1 .. pending - 1 PROVE W'[i] = W[i + 1]
  <2>1. PICK k : k = i - 1
    OBVIOUS
  <2>2. /\ k \in 0 .. pending - 2 /\ k + 1 \in 0 .. pending - 1 /\ k + 1 = i /\ k + 1 # 0
        /\ i \in 1 .. pending' /\ i + 1 \in 1 .. pending /\ i + 1 - 1 = k + 1
    BY <1>1, <1>8, <2>1
  <2>3. PICK l : l = Entry(k + 1).left
    OBVIOUS
  <2>4. l \in Lefts /\ l # left /\ l \in Int /\ left \in Int
    BY <1>1, <2>2, <2>3, EntryTyped DEF IInv, ActiveEdgesDisjoint, Lefts
  <2>5. W[i + 1] = [from |-> Axis[l].from, to |-> Axis[l].to, depth |-> Entry(k + 1).depth]
    <3>1. PICK m : m = i + 1
      OBVIOUS
    <3>2. m \in 1 .. pending /\ m - 1 = k + 1
      BY <2>2, <3>1
    <3>3. W[m] = [from |-> Axis[Entry(m - 1).left].from, to |-> Axis[Entry(m - 1).left].to,
                  depth |-> Entry(m - 1).depth]
      BY <1>2, <3>2, Zenon DEF WaitingNamed
    <3> QED
      BY <2>3, <3>1, <3>2, <3>3, Zenon
  <2>6. /\ Entry(k)'.left = IF l > left THEN l + 1 ELSE l
        /\ Entry(k)'.depth = Entry(k + 1).depth
    BY <1>8, <2>2, <2>3
  <2>7. Axis'[IF l > left THEN l + 1 ELSE l] = Axis[l]
    <3>1. CASE l > left
      BY <1>7, <2>4, <3>1 DEF Cut
    <3>2. CASE ~(l > left)
      <4>1. l < left
        BY <2>4, <3>2
      <4> QED
        BY <1>7, <2>4, <3>2, <4>1 DEF Cut
    <3> QED
      BY <3>1, <3>2
  <2>8. W'[i] = [from |-> Axis'[Entry(k)'.left].from, to |-> Axis'[Entry(k)'.left].to,
                 depth |-> Entry(k)'.depth]
    BY <1>9, <2>1, <2>2, Zenon
  <2> QED
    BY <2>5, <2>6, <2>7, <2>8, Zenon
<1>11. CASE decision # "SPLIT"
  <2>1. pending' = pending - 1
    BY <1>8, <1>11
  <2>2. \A i \in 1 .. pending - 1 : W'[i] = Tail(W)[i]
    BY <1>6, <1>10
  <2> HIDE DEF W
  <2>3. W' = Tail(W)
    BY <1>4, <1>6, <2>1, <2>2, SeqEqual
  <2> QED
    BY <1>3, <1>5, <1>11, <2>3 DEF W
<1>12. CASE decision = "SPLIT"
  <2>1. pending' = pending + 1
    BY <1>8, <1>12
  <2>2. W'[pending] = a /\ W'[pending + 1] = b
    <3>1. PICK k, m, n : k = pending - 1 /\ m = pending /\ n = pending + 1
      OBVIOUS
    <3>2. /\ k \in Nat /\ m \in Nat /\ pending \in 1 .. pending' /\ n \in 1 .. pending'
          /\ n - 1 = m
      BY <1>1, <2>1, <3>1
    <3>3. /\ Entry(k)'.left = left /\ Entry(k)'.depth = depth + 1
          /\ Entry(m)'.left = left + 1 /\ Entry(m)'.depth = depth + 1
      BY <1>8, <1>12, <3>1, <3>2
    <3>4. Axis'[left] = [from |-> e.from, to |-> x] /\ Axis'[left + 1] = [from |-> x, to |-> e.to]
      BY <1>7, Zenon DEF Cut
    <3>5. W'[pending] = [from |-> Axis'[Entry(k)'.left].from, to |-> Axis'[Entry(k)'.left].to,
                         depth |-> Entry(k)'.depth]
      BY <1>9, <3>1, <3>2, Zenon
    <3>6. W'[n] = [from |-> Axis'[Entry(m)'.left].from, to |-> Axis'[Entry(m)'.left].to,
                   depth |-> Entry(m)'.depth]
      BY <1>9, <3>2, Zenon
    <3>7. W'[pending] = a
      BY <3>3, <3>4, <3>5
    <3>8. W'[n] = b
      BY <3>3, <3>4, <3>6
    <3> QED
      BY <3>1, <3>7, <3>8, Zenon
  <2>3. a \in WaitingEdge /\ b \in WaitingEdge
    <3>1. pending \in 1 .. Len(W') /\ pending + 1 \in 1 .. Len(W')
      BY <1>1, <1>4, <2>1
    <3> QED
      BY <1>4, <2>2, <3>1, ElementOfSeq
  <2> HIDE DEF W, a, b
  <2>4. <<a, b>> \in Seq(WaitingEdge) /\ Len(<<a, b>>) = 2 /\ <<a, b>>[1] = a /\ <<a, b>>[2] = b
    BY <2>3
  <2>5. PICK t, u : t = Tail(W) /\ u = <<a, b>>
    OBVIOUS
  <2>6. /\ t \o u \in Seq(WaitingEdge) /\ Len(t \o u) = pending - 1 + 2
        /\ \A i \in 1 .. pending - 1 + 2 :
             (t \o u)[i] = IF i <= pending - 1 THEN t[i] ELSE u[i - (pending - 1)]
    BY <1>6, <2>4, <2>5, ConcatProperties
  <2>7. Len(t \o u) = pending' /\ pending' = pending + 1
    BY <1>1, <2>1, <2>6
  <2>8. ASSUME NEW i \in 1 .. pending' PROVE W'[i] = (t \o u)[i]
    <3>1. i \in 1 .. pending - 1 + 2
      BY <1>1, <2>1
    <3>2. CASE i <= pending - 1
      <4>1. i \in 1 .. pending - 1
        BY <1>1, <3>1, <3>2
      <4>2. (t \o u)[i] = t[i]
        BY <2>6, <3>1, <3>2
      <4> QED
        BY <1>6, <1>10, <2>5, <4>1, <4>2
    <3>3. CASE i = pending
      <4>1. ~(i <= pending - 1) /\ i - (pending - 1) = 1
        BY <1>1, <3>3
      <4>2. (t \o u)[i] = u[i - (pending - 1)]
        BY <2>6, <3>1, <4>1, Zenon
      <4> QED
        BY <2>2, <2>4, <2>5, <3>3, <4>1, <4>2, Zenon
    <3>4. CASE i = pending + 1
      <4>1. ~(i <= pending - 1) /\ i - (pending - 1) = 2
        BY <1>1, <3>4
      <4>2. (t \o u)[i] = u[i - (pending - 1)]
        BY <2>6, <3>1, <4>1, Zenon
      <4> QED
        BY <2>2, <2>4, <2>5, <3>4, <4>1, <4>2, Zenon
    <3>5. i <= pending - 1 \/ i = pending \/ i = pending + 1
      BY <1>1, <2>1
    <3> QED
      BY <3>2, <3>3, <3>4, <3>5, Zenon
  <2>9. W' = t \o u
    BY <1>4, <2>6, <2>7, <2>8, SeqEqual
  <2> QED
    BY <1>3, <1>5, <1>12, <2>5, <2>9 DEF W, a, b
<1> QED
  BY <1>11, <1>12

(* A probe is a judgement of the oldest edge. *)
LEMMA ProbeIsJudge ==
  ASSUME IInv, IInv', Sorted, NEW decision \in {"SPLIT", "ACCEPT", "SKIP"}, Probe(decision)
  PROVE  Curve!Judge
<1>1. PICK left, depth : left = queue[head].left /\ depth = queue[head].depth
  OBVIOUS
<1>2. left \in Lefts /\ depth < MaxDepth
  BY <1>1, HeadIsEdge DEF Probe
<1>3. PICK e : e = Axis[left]
  OBVIOUS
<1>4. PICK x : x = (e.from + e.to) \div 2
  OBVIOUS
<1>5. PICK h : h = Head(WaitingEdges)
  OBVIOUS
<1>6. /\ WaitingEdges # <<>> /\ h = [from |-> e.from, to |-> e.to, depth |-> depth]
      /\ decision # "SPLIT" => WaitingEdges' = Tail(WaitingEdges)
      /\ decision = "SPLIT" =>
           WaitingEdges' = Tail(WaitingEdges) \o <<[from |-> e.from, to |-> x, depth |-> depth + 1],
                                                  [from |-> x, to |-> e.to, depth |-> depth + 1]>>
  BY <1>1, <1>2, <1>3, <1>4, <1>5, ProbedWaiting
<1>7. /\ Drawn' = IF decision = "ACCEPT" THEN Drawn \cup Curve!Halves(e) ELSE Drawn
      /\ Blank' = IF decision = "SKIP" THEN Blank \cup Curve!Halves(e) ELSE Blank
  BY <1>1, <1>2, <1>3, ProbedEdges
<1>8. /\ h.from = e.from /\ h.to = e.to /\ h.depth = depth
  BY <1>6
<1>9. Curve!Halves(h) = Curve!Halves(e) /\ Curve!Middle(h) = x
  BY <1>4, <1>8, Zenon DEF Curve!Halves, Curve!Edge, Curve!Middle
<1>10. /\ Curve!Waiting(Curve!Edge(h.from, x), h.depth + 1) = [from |-> e.from, to |-> x, depth |-> depth + 1]
       /\ Curve!Waiting(Curve!Edge(x, h.to), h.depth + 1) = [from |-> x, to |-> e.to, depth |-> depth + 1]
  BY <1>8 DEF Curve!Waiting, Curve!Edge
<1>11. unresolved' = unresolved /\ limited' = limited /\ limits' = limits
  BY DEF Probe
<1>12. CASE decision = "ACCEPT"
  <2>1. Drawn' = Drawn \cup Curve!Halves(h) /\ Blank' = Blank /\ WaitingEdges' = Tail(WaitingEdges)
    BY <1>6, <1>7, <1>9, <1>12
  <2> QED
    BY <1>2, <1>5, <1>6, <1>8, <1>11, <2>1, Mapped, MappedNext, Zenon DEF Curve!Judge
<1>13. CASE decision = "SKIP"
  <2>1. Blank' = Blank \cup Curve!Halves(h) /\ Drawn' = Drawn /\ WaitingEdges' = Tail(WaitingEdges)
    BY <1>6, <1>7, <1>9, <1>13
  <2> QED
    BY <1>2, <1>5, <1>6, <1>8, <1>11, <2>1, Mapped, MappedNext, Zenon DEF Curve!Judge
<1>14. CASE decision = "SPLIT"
  <2>1. /\ Blank' = Blank /\ Drawn' = Drawn
        /\ WaitingEdges' = Tail(WaitingEdges)
             \o <<Curve!Waiting(Curve!Edge(h.from, x), h.depth + 1),
                  Curve!Waiting(Curve!Edge(x, h.to), h.depth + 1)>>
    BY <1>6, <1>7, <1>10, <1>14
  <2> QED
    BY <1>2, <1>5, <1>6, <1>8, <1>9, <1>11, <2>1, Mapped, MappedNext, Zenon DEF Curve!Judge
<1> QED
  BY <1>12, <1>13, <1>14


-----------------------------------------------------------------------------
(* Steps that leave the arrays alone.                                      *)

(* What the arrays tell stays; only what waits may differ. *)
LEMMA SameArrays ==
  ASSUME UNCHANGED <<coordinates, connect>>
  PROVE  /\ Lefts' = Lefts /\ Axis' = Axis /\ Drawn' = Drawn
         /\ Blank' = {Axis[l] : l \in {m \in Lefts : ~connect[m + 2] /\ m \notin PendingLefts'}}
BY DEF Lefts, Axis, Drawn, Blank, DrawnLefts, BlankLefts

(* Nothing waits. *)
LEMMA NoneWaits ==
  ASSUME IInv, pending = 0
  PROVE  WaitingEdges = <<>> /\ PendingLefts = {}
<1>1. WaitingEdges \in Seq(WaitingEdge) /\ Len(WaitingEdges) = 0
  BY WaitingProperties DEF WaitingNamed
<1>2. 0 .. 0 - 1 = {}
  OBVIOUS
<1> QED
  BY <1>1, <1>2 DEF PendingLefts

(* The same after a step. *)
LEMMA NoneWaitsNext ==
  ASSUME IInv', pending' = 0
  PROVE  WaitingEdges' = <<>> /\ PendingLefts' = {}
<1>1. WaitingEdges' \in Seq(WaitingEdge) /\ Len(WaitingEdges') = 0
  BY WaitingPropertiesNext DEF WaitingNamed
<1>2. 0 .. pending' - 1 = {}
  OBVIOUS
<1> QED
  BY <1>1, <1>2 DEF PendingLefts

(* An edge that is as deep as allowed is reported and left out. *)
LEMMA SetAsideIsTooDeep == ASSUME IInv, IInv', SetAside PROVE Curve!TooDeep
<1>1. PICK left, depth : left = queue[head].left /\ depth = queue[head].depth
  OBVIOUS
<1>2. /\ pending \in Nat /\ pending > 0 /\ 0 \in 0 .. pending - 1 /\ queue # NoQueue
      /\ Entry(0).left = left /\ Entry(0).depth = depth /\ left \in Lefts
      /\ ~connect[left + 2] /\ depth >= MaxDepth /\ head \in Slots
      /\ pending < points /\ points < PointLimit /\ points \in Nat /\ PointLimit \in Nat
  BY <1>1, HeadIsEdge, GraphAssumption DEF IInv, TypeOK, QueueFits, SetAside, Takes, Refining
<1>3. /\ UNCHANGED <<coordinates, connect, queue, limited>> /\ head' = Slot(1)
      /\ pending' = pending - 1 /\ limits' = limits \cup {"depth"} /\ unresolved' = unresolved + 1
  BY DEF SetAside
<1>4. \A i \in 0 .. PointLimit - 1 : Slot(i)' = Slot(i + 1)
  BY <1>2, <1>3, NextSlot
<1>5. ASSUME NEW i \in 0 .. pending - 2 PROVE Entry(i)' = Entry(i + 1) /\ i + 1 \in 0 .. pending - 1
  <2>1. i \in 0 .. PointLimit - 1 /\ i + 1 \in 0 .. pending - 1
    BY <1>2
  <2> QED
    BY <1>2, <1>3, <1>4, <2>1 DEF Entry
<1>6. /\ Lefts' = Lefts /\ Axis' = Axis /\ Drawn' = Drawn
      /\ Blank' = {Axis[l] : l \in {m \in Lefts : ~connect[m + 2] /\ m \notin PendingLefts'}}
  BY <1>3, SameArrays
<1>7. PendingLefts' = PendingLefts \ {left} /\ left \in PendingLefts
  <2>1. PendingLefts' = {Entry(i)'.left : i \in 0 .. pending - 2}
    <3>1. 0 .. pending' - 1 = 0 .. pending - 2
      BY <1>2, <1>3
    <3> QED
      BY <3>1 DEF PendingLefts
  <2>2. \A i, j \in 0 .. pending - 1 : Entry(i).left = Entry(j).left => i = j
    BY DEF IInv, ActiveEdgesDisjoint
  <2>3. ASSUME NEW i \in 0 .. pending - 2
        PROVE  Entry(i)'.left \in PendingLefts /\ Entry(i)'.left # left
    <3>1. Entry(i)'.left = Entry(i + 1).left /\ i + 1 \in 0 .. pending - 1 /\ i + 1 # 0
      BY <1>2, <1>5
    <3> QED
      BY <1>2, <2>2, <3>1 DEF PendingLefts
  <2>4. ASSUME NEW i \in 0 .. pending - 1, Entry(i).left # left
        PROVE  Entry(i).left \in PendingLefts'
    <3>1. PICK k : k = i - 1
      OBVIOUS
    <3>2. i # 0
      BY <1>2, <2>4
    <3>3. k \in 0 .. pending - 2 /\ k + 1 = i
      BY <1>2, <3>1, <3>2
    <3>4. Entry(k)'.left = Entry(i).left
      BY <1>5, <3>3
    <3> QED
      BY <2>1, <3>3, <3>4
  <2>5. left \in PendingLefts
    BY <1>2 DEF PendingLefts
  <2> QED
    BY <2>1, <2>3, <2>4, <2>5 DEF PendingLefts
<1>8. Blank' = Blank \cup {Axis[left]}
  BY <1>2, <1>6, <1>7, Zenon DEF Blank, BlankLefts
<1>9. WaitingNamed /\ WaitingNamed'
  BY WaitingProperties, WaitingPropertiesNext
<1> DEFINE W == WaitingEdges
<1>10. /\ W \in Seq(WaitingEdge) /\ Len(W) = pending /\ W # <<>>
       /\ W' \in Seq(WaitingEdge) /\ Len(W') = pending - 1
  BY <1>2, <1>3, <1>9 DEF WaitingNamed
<1>11. Tail(W) \in Seq(WaitingEdge) /\ Len(Tail(W)) = pending - 1
       /\ \A i \in 1 .. pending - 1 : Tail(W)[i] = W[i + 1]
  BY <1>2, <1>10, HeadTailProperties
<1>12. ASSUME NEW i \in 1 .. pending - 1 PROVE W'[i] = W[i + 1]
  <2>1. PICK k, m : k = i - 1 /\ m = i + 1
    OBVIOUS
  <2>2. /\ k \in 0 .. pending - 2 /\ i \in 1 .. pending' /\ m \in 1 .. pending /\ m - 1 = k + 1
    BY <1>2, <1>3, <2>1
  <2>3. W[m] = [from |-> Axis[Entry(m - 1).left].from, to |-> Axis[Entry(m - 1).left].to,
                depth |-> Entry(m - 1).depth]
    BY <1>9, <2>2, Zenon DEF WaitingNamed
  <2>4. W'[i] = [from |-> Axis'[Entry(i - 1)'.left].from, to |-> Axis'[Entry(i - 1)'.left].to,
                 depth |-> Entry(i - 1)'.depth]
    BY <1>9, <2>2, Zenon DEF WaitingNamed
  <2>5. Entry(k)' = Entry(k + 1)
    BY <1>5, <2>2
  <2> QED
    BY <1>6, <2>1, <2>2, <2>3, <2>4, <2>5, Zenon
<1>13. W' = Tail(W)
  <2>1. \A i \in 1 .. pending - 1 : W'[i] = Tail(W)[i]
    BY <1>11, <1>12
  <2> HIDE DEF W
  <2> QED
    BY <1>10, <1>11, <2>1, SeqEqual
<1>14. PICK h : h = Head(W)
  OBVIOUS
<1>15. h = [from |-> Axis[left].from, to |-> Axis[left].to, depth |-> depth]
  <2>1. h = W[1] /\ 1 \in 1 .. pending /\ 1 - 1 = 0
    BY <1>2, <1>10, <1>14
  <2>2. W[1] = [from |-> Axis[Entry(1 - 1).left].from, to |-> Axis[Entry(1 - 1).left].to,
                depth |-> Entry(1 - 1).depth]
    BY <1>9, <2>1, Zenon DEF WaitingNamed
  <2> QED
    BY <1>2, <2>1, <2>2, Zenon
<1>16. Curve!Unmarked(h) = Axis[left] /\ h.depth = depth
  <2>1. Axis[left] \in [from : Int, to : Int]
    BY <1>2, AxisTyped
  <2> QED
    BY <1>15, <2>1 DEF Curve!Unmarked, Curve!Edge
<1>17. limits' # {}
  BY <1>3
<1> QED
  BY <1>2, <1>3, <1>6, <1>8, <1>10, <1>13, <1>14, <1>16, <1>17, Mapped, MappedNext, Zenon
  DEF Curve!TooDeep

(* The end of the refinement: what still waits is given up and reported; if
   nothing does, nothing changes. *)
LEMMA ConcludeRefines ==
  ASSUME IInv, IInv', Reported, unresolved \in Nat, stage = "refine",
         NEW reached, Conclude(reached),
         pending > 0 => reached # {}, pending = 0 => reached = limits
  PROVE  Curve!GiveUp \/ UNCHANGED Curve!vars
<1>1. /\ UNCHANGED <<coordinates, connect>> /\ unresolved' = unresolved + pending
      /\ limits' = reached /\ limited' = (reached # {}) /\ pending' = 0 /\ pending \in Nat
      /\ ~limited
  BY DEF Conclude, Reported, IInv, TypeOK
<1>2. /\ Drawn' = Drawn
      /\ Blank' = {Axis[l] : l \in {m \in Lefts : ~connect[m + 2] /\ m \notin PendingLefts'}}
  BY <1>1, SameArrays
<1>3. WaitingEdges' = <<>> /\ PendingLefts' = {}
  BY <1>1, NoneWaitsNext
<1>4. Blank' = {Axis[l] : l \in {m \in Lefts : ~connect[m + 2]}}
  BY <1>2, <1>3
<1>5. CASE pending = 0
  <2>1. WaitingEdges = <<>> /\ PendingLefts = {}
    BY <1>5, NoneWaits
  <2>2. Blank' = Blank
    BY <1>4, <2>1 DEF Blank, BlankLefts
  <2>3. unresolved' = unresolved
    <3>1. unresolved' = unresolved + 0
      BY <1>1, <1>5
    <3> QED
      BY <3>1
  <2>4. Told' = Told
    BY <1>1, <1>5 DEF Told
  <2> QED
    BY <1>2, <1>3, <2>1, <2>2, <2>3, <2>4, SameCurve
<1>6. CASE pending > 0
  <2>1. WaitingNamed
    BY WaitingProperties
  <2>2. Len(WaitingEdges) = pending /\ WaitingEdges # <<>> /\ DOMAIN WaitingEdges = 1 .. pending
    BY <1>6, <2>1 DEF WaitingNamed
  <2>3. ASSUME NEW i \in 1 .. pending
        PROVE  \E l \in PendingLefts : Curve!Unmarked(WaitingEdges[i]) = Axis[l]
    <3>1. PICK k : k = i - 1
      OBVIOUS
    <3>2. k \in 0 .. pending - 1
      BY <1>1, <3>1
    <3>3. PICK l : l = Entry(k).left
      OBVIOUS
    <3>4. l \in PendingLefts /\ l \in Lefts
      BY <3>2, <3>3, EntryTyped DEF PendingLefts
    <3>5. WaitingEdges[i] = [from |-> Axis[l].from, to |-> Axis[l].to, depth |-> Entry(k).depth]
      BY <2>1, <3>1, <3>3, Zenon DEF WaitingNamed
    <3>6. Axis[l] \in [from : Int, to : Int]
      BY <3>4, AxisTyped
    <3>7. Curve!Unmarked(WaitingEdges[i]) = Axis[l]
      BY <3>5, <3>6 DEF Curve!Unmarked, Curve!Edge
    <3> QED
      BY <3>4, <3>7
  <2>4. ASSUME NEW l \in PendingLefts
        PROVE  \E i \in 1 .. pending : Axis[l] = Curve!Unmarked(WaitingEdges[i])
    <3>1. PICK k \in 0 .. pending - 1 : l = Entry(k).left
      BY DEF PendingLefts
    <3>2. PICK i : i = k + 1
      OBVIOUS
    <3>3. i \in 1 .. pending /\ i - 1 = k
      BY <1>1, <3>1, <3>2
    <3>4. WaitingEdges[i] = [from |-> Axis[l].from, to |-> Axis[l].to, depth |-> Entry(k).depth]
      <4>1. WaitingEdges[i] = [from |-> Axis[Entry(i - 1).left].from,
                               to |-> Axis[Entry(i - 1).left].to, depth |-> Entry(i - 1).depth]
        BY <2>1, <3>3, Zenon DEF WaitingNamed
      <4> QED
        BY <3>1, <3>3, <4>1, Zenon
    <3>5. Axis[l] \in [from : Int, to : Int]
      BY <3>1, EntryTyped, AxisTyped
    <3>6. Axis[l] = Curve!Unmarked(WaitingEdges[i])
      BY <3>4, <3>5 DEF Curve!Unmarked, Curve!Edge
    <3> QED
      BY <3>3, <3>6
  <2>5. {Curve!Unmarked(WaitingEdges[i]) : i \in DOMAIN WaitingEdges} = {Axis[l] : l \in PendingLefts}
    BY <2>2, <2>3, <2>4, SMTT(60)
  <2>6. \A l \in PendingLefts : l \in Lefts /\ ~connect[l + 2]
    BY EntryTyped DEF PendingLefts
  <2>7. Blank' = Blank \cup {Axis[l] : l \in PendingLefts}
    BY <1>4, <2>6, Zenon DEF Blank, BlankLefts
  <2>8. unresolved' = unresolved + Len(WaitingEdges) /\ limited' = TRUE
    BY <1>1, <1>6, <2>2
  <2> QED
    BY <1>2, <1>3, <2>2, <2>5, <2>7, <2>8, Mapped, MappedNext, Zenon DEF Curve!GiveUp
<1> QED
  BY <1>1, <1>5, <1>6


(* The ring takes the edges over in their order. *)
LEMMA AllocateStutters == ASSUME IInv, IInv', AllocateQueue PROVE UNCHANGED Curve!vars
<1>1. /\ stage = "refine" /\ queue = NoQueue /\ head = 0 /\ pending = points - 1
      /\ points < PointLimit /\ points \in Nat /\ points >= 2
  BY DEF IInv, RingFollowsStage, TypeOK, AllocateQueue, Refining
<1>2. /\ UNCHANGED <<coordinates, connect, head, pending, unresolved, limits, limited>>
      /\ queue' = [s \in Slots |-> [left |-> IF s < pending THEN s ELSE 0, depth |-> 0]]
  BY DEF AllocateQueue
<1>3. queue' # NoQueue
  <2>1. queue' \in [Slots -> [left : Nat, depth : Nat]]
    BY <1>2 DEF Slots
  <2> QED
    BY <2>1, RingIsThere
<1>4. ASSUME NEW i \in 0 .. pending - 1 PROVE Entry(i)' = Entry(i)
  <2>1. head' = 0 /\ i \in 0 .. PointLimit - 1 /\ i < pending
    BY <1>1, <1>2, GraphAssumption
  <2>2. Slot(i)' = i
    BY <2>1, GraphAssumption, Wraps DEF Slot, Wrapped
  <2>3. queue'[i] = [left |-> i, depth |-> 0]
    BY <1>2, <2>1 DEF Slots
  <2>4. Entry(i)' = queue'[i]
    BY <1>3, <2>2 DEF Entry
  <2>5. Entry(i) = [left |-> i, depth |-> 0]
    BY <1>1 DEF Entry
  <2> QED
    BY <2>3, <2>4, <2>5
<1>5. /\ Lefts' = Lefts /\ Axis' = Axis /\ Drawn' = Drawn
      /\ Blank' = {Axis[l] : l \in {m \in Lefts : ~connect[m + 2] /\ m \notin PendingLefts'}}
  BY <1>2, SameArrays
<1>6. PendingLefts' = PendingLefts
  <2>1. PendingLefts' = {Entry(i)'.left : i \in 0 .. pending - 1}
    BY <1>2 DEF PendingLefts
  <2>2. {Entry(i)'.left : i \in 0 .. pending - 1} = {Entry(i).left : i \in 0 .. pending - 1}
    BY <1>4
  <2> QED
    BY <2>1, <2>2 DEF PendingLefts
<1>7. Blank' = Blank
  BY <1>5, <1>6 DEF Blank, BlankLefts
<1>8. WaitingEdges' = WaitingEdges
  <2>1. WaitingNamed /\ WaitingNamed'
    BY WaitingProperties, WaitingPropertiesNext
  <2>2. /\ WaitingEdges \in Seq(WaitingEdge) /\ Len(WaitingEdges) = pending
        /\ WaitingEdges' \in Seq(WaitingEdge) /\ Len(WaitingEdges') = pending
    BY <1>2, <2>1 DEF WaitingNamed
  <2>3. ASSUME NEW i \in 1 .. pending PROVE WaitingEdges'[i] = WaitingEdges[i]
    <3>1. PICK k : k = i - 1
      OBVIOUS
    <3>2. k \in 0 .. pending - 1 /\ i \in 1 .. pending'
      BY <1>1, <1>2, <3>1
    <3>3. WaitingEdges[i] = [from |-> Axis[Entry(i - 1).left].from,
                             to |-> Axis[Entry(i - 1).left].to, depth |-> Entry(i - 1).depth]
      BY <2>1, Zenon DEF WaitingNamed
    <3>4. WaitingEdges'[i] = [from |-> Axis'[Entry(i - 1)'.left].from,
                              to |-> Axis'[Entry(i - 1)'.left].to, depth |-> Entry(i - 1)'.depth]
      BY <2>1, <3>2, Zenon DEF WaitingNamed
    <3>5. Entry(k)' = Entry(k)
      BY <1>4, <3>2
    <3> QED
      BY <1>5, <3>1, <3>3, <3>4, <3>5, Zenon
  <2> QED
    BY <2>2, <2>3, SeqEqual
<1> QED
  BY <1>2, <1>5, <1>7, <1>8, SameCurve DEF Told

(* The search for peaks between two anchors. *)
LEMMA PeaksStutter ==
  ASSUME IInv, IInv', pending = 0,
         UNCHANGED <<coordinates, connect, pending, unresolved, limits>>
  PROVE  /\ WaitingEdges = <<>> /\ WaitingEdges' = <<>>
         /\ Drawn' = Drawn /\ Blank' = Blank
<1>1. /\ WaitingEdges = <<>> /\ WaitingEdges' = <<>> /\ PendingLefts = {} /\ PendingLefts' = {}
  BY NoneWaits, NoneWaitsNext
<1>2. /\ Drawn' = Drawn
      /\ Blank' = {Axis[l] : l \in {m \in Lefts : ~connect[m + 2] /\ m \notin PendingLefts'}}
  BY SameArrays
<1> QED
  BY <1>1, <1>2 DEF Blank, BlankLefts

(* No two edges with a point between their ends are the same. *)
LEMMA EdgesDiffer ==
  ASSUME IInv, Sorted, NEW k \in Lefts, NEW l \in Lefts, Axis[k] = Axis[l], Axis[k].from < Axis[k].to
  PROVE  k = l
<1>1. /\ coordinates \in Seq(Int) /\ k \in Int /\ l \in Int
      /\ k + 1 \in 1 .. Len(coordinates) /\ k + 2 \in 1 .. Len(coordinates)
      /\ l + 1 \in 1 .. Len(coordinates) /\ l + 2 \in 1 .. Len(coordinates)
  BY LenProperties DEF IInv, TypeOK, Lefts
<1>2. /\ coordinates[k + 1] \in Int /\ coordinates[k + 2] \in Int
      /\ coordinates[l + 1] \in Int /\ coordinates[l + 2] \in Int
  BY <1>1, ElementOfSeq
<1>3. /\ Axis[k] = [from |-> coordinates[k + 1], to |-> coordinates[k + 2]]
      /\ Axis[l] = [from |-> coordinates[l + 1], to |-> coordinates[l + 2]]
  BY DEF Axis
<1>4. /\ coordinates[k + 1] = coordinates[l + 1] /\ coordinates[k + 2] = coordinates[l + 2]
      /\ coordinates[k + 1] < coordinates[k + 2]
  <2>1. Axis[k].from = coordinates[k + 1] /\ Axis[k].to = coordinates[k + 2]
    BY <1>3
  <2>2. Axis[l].from = coordinates[l + 1] /\ Axis[l].to = coordinates[l + 2]
    BY Zenon DEF Axis
  <2> QED
    BY <2>1, <2>2, Zenon
<1>5. ~(k < l)
  <2>1. ASSUME k < l PROVE coordinates[k + 2] <= coordinates[l + 1]
    <3>1. k + 2 <= l + 1
      BY <1>1, <2>1
    <3> QED
      BY <1>1, <3>1, Zenon DEF Sorted
  <2> QED
    BY <1>2, <1>4, <2>1
<1>6. ~(l < k)
  <2>1. ASSUME l < k PROVE coordinates[l + 2] <= coordinates[k + 1]
    <3>1. l + 2 <= k + 1
      BY <1>1, <2>1
    <3> QED
      BY <1>1, <3>1, Zenon DEF Sorted
  <2> QED
    BY <1>2, <1>4, <2>1
<1> QED
  BY <1>1, <1>5, <1>6

(* An anchor cuts the edge it is found in, and only that. *)
LEMMA AnchorCuts ==
  ASSUME IInv, NEW x \in Int, Anchor(x), NEW left, left = edge - 1
  PROVE  /\ left \in Lefts /\ left \in Int /\ connect[left + 2]
         /\ Cut(left, x, TRUE) /\ Axis[left].from < x /\ x < Axis[left].to
<1>1. /\ connect \in Seq(BOOLEAN) /\ Len(connect) = Len(coordinates) /\ Len(coordinates) \in Nat
      /\ edge \in Nat \ {0} /\ edge < Len(coordinates) /\ connect[edge + 1]
      /\ coordinates[edge] < x /\ x < coordinates[edge + 1]
      /\ coordinates' = Inserted(coordinates, edge, x)
      /\ connect' = Inserted(connect, edge, TRUE)
  BY LenProperties DEF IInv, TypeOK, QueueFits, Anchor, Examines, Anchoring
<1>2. /\ left \in Lefts /\ left \in Int /\ left + 1 = edge /\ left + 2 = edge + 1
      /\ left + 3 = edge + 1 + 1
  BY <1>1 DEF Lefts
<1>3. connect[left + 2] = TRUE
  <2>1. left + 2 \in 1 .. Len(connect)
    BY <1>1, <1>2
  <2>2. connect[left + 2] \in BOOLEAN
    BY <1>1, <2>1, ElementOfSeq
  <2> QED
    BY <1>1, <1>2, <2>2
<1>4. /\ \A k \in 1 .. edge : connect'[k] = connect[k]
      /\ connect'[edge + 1] = TRUE
      /\ \A k \in edge + 1 .. Len(connect) : connect'[k + 1] = connect[k]
  <2>1. PICK flag \in BOOLEAN : flag = TRUE
    OBVIOUS
  <2>2. edge \in 0 .. Len(connect)
    BY <1>1
  <2>3. /\ \A k \in 1 .. edge : Inserted(connect, edge, flag)[k] = connect[k]
        /\ Inserted(connect, edge, flag)[edge + 1] = flag
        /\ \A k \in edge + 1 .. Len(connect) : Inserted(connect, edge, flag)[k + 1] = connect[k]
    BY <1>1, <2>2, InsertedElements
  <2> QED
    BY <1>1, <2>1, <2>3, Zenon
<1>5. connect'[left + 2] = TRUE /\ connect'[left + 3] = TRUE
  <2>1. edge + 1 \in edge + 1 .. Len(connect)
    BY <1>1
  <2>2. connect'[edge + 1 + 1] = connect[edge + 1]
    BY <1>4, <2>1, Zenon
  <2> QED
    BY <1>2, <1>3, <1>4, <2>2, Zenon
<1>6. ASSUME NEW l \in Lefts, l < left PROVE connect'[l + 2] = connect[l + 2]
  <2>1. l + 2 \in 1 .. edge
    BY <1>1, <1>2, <1>6 DEF Lefts
  <2> QED
    BY <1>4, <2>1
<1>7. ASSUME NEW l \in Lefts, l > left PROVE connect'[l + 3] = connect[l + 2]
  <2>1. PICK k : k = l + 2
    OBVIOUS
  <2>2. k \in edge + 1 .. Len(connect) /\ k + 1 = l + 3
    BY <1>1, <1>2, <1>7, <2>1 DEF Lefts
  <2>3. connect'[k + 1] = connect[k]
    BY <1>4, <2>2, Zenon
  <2> QED
    BY <2>1, <2>2, <2>3, Zenon
<1>8. coordinates' = Inserted(coordinates, left + 1, x)
  BY <1>1, <1>2
<1>9. Cut(left, x, TRUE)
  BY <1>2, <1>5, <1>6, <1>7, <1>8, InsertedCuts
<1>10. Axis[left].from = coordinates[edge] /\ Axis[left].to = coordinates[edge + 1]
  BY <1>2 DEF Axis
<1> QED
  BY <1>1, <1>2, <1>3, <1>9, <1>10

(* An anchor is one of CurveEdges: no other drawn edge is the one it cuts. *)
LEMMA AnchorRefines == ASSUME IInv, IInv', Sorted, NEW x \in Int, Anchor(x) PROVE Curve!Anchor
<1>1. /\ pending = 0 /\ pending' = 0
      /\ UNCHANGED <<unresolved, limits, limited>>
  BY DEF IInv, RingFollowsStage, Anchor, Examines, Anchoring, ring
<1>2. /\ WaitingEdges = <<>> /\ WaitingEdges' = <<>> /\ PendingLefts = {} /\ PendingLefts' = {}
  BY <1>1, NoneWaits, NoneWaitsNext
<1>3. PICK left : left = edge - 1
  OBVIOUS
<1>4. PICK e : e = Axis[left]
  OBVIOUS
<1>5. /\ left \in Lefts /\ left \in Int /\ connect[left + 2]
      /\ Cut(left, x, TRUE) /\ e.from < x /\ x < e.to
  BY <1>3, <1>4, AnchorCuts
<1>6. e.from \in Int /\ e.to \in Int
  BY <1>4, <1>5, AxisTyped
<1> DEFINE P == DrawnLefts \ {left}
           Cuts == {[from |-> e.from, to |-> x], [from |-> x, to |-> e.to]}
<1>7. P \in SUBSET Lefts /\ left \notin P /\ left \in DrawnLefts
      /\ BlankLefts \in SUBSET Lefts /\ left \notin BlankLefts
  BY <1>5 DEF DrawnLefts, BlankLefts
<1>8. /\ \A l \in Lefts' : l \in DrawnLefts' <=> connect'[l + 2]
      /\ \A l \in Lefts' : l \in BlankLefts' <=> ~connect'[l + 2]
      /\ \A l \in Lefts : l \in DrawnLefts <=> connect[l + 2]
      /\ \A l \in Lefts : l \in BlankLefts <=> ~connect[l + 2]
      /\ DrawnLefts' \subseteq Lefts' /\ BlankLefts' \subseteq Lefts'
  BY <1>2 DEF DrawnLefts, BlankLefts
<1>9. /\ \A l \in Lefts : l < left =>
           l \in Lefts' /\ connect'[l + 2] = connect[l + 2] /\ l # left
      /\ \A l \in Lefts : l > left =>
           l + 1 \in Lefts' /\ connect'[l + 1 + 2] = connect[l + 2] /\ l # left
      /\ left \in Lefts' /\ connect'[left + 2]
      /\ left + 1 \in Lefts' /\ connect'[left + 1 + 2]
  <2>1. left + 1 + 2 = left + 3 /\ \A l \in Lefts : l + 1 + 2 = l + 3
    BY <1>5, CutBounds
  <2>2. \A l \in Lefts : (l < left => l # left) /\ (l > left => l # left)
    BY <1>5, CutBounds
  <2>3. \A l \in Lefts : l < left => l \in Lefts' /\ connect'[l + 2] = connect[l + 2]
    BY <1>5 DEF Cut
  <2>4. \A l \in Lefts : l > left => l + 1 \in Lefts' /\ connect'[l + 3] = connect[l + 2]
    BY <1>5 DEF Cut
  <2>5. left \in Lefts' /\ connect'[left + 2] /\ left + 1 \in Lefts' /\ connect'[left + 3]
    BY <1>5 DEF Cut
  <2>6. \A l \in Lefts : l > left =>
          l + 1 \in Lefts' /\ connect'[l + 1 + 2] = connect[l + 2] /\ l # left
    BY <2>1, <2>2, <2>4
  <2>7. connect'[left + 1 + 2]
    BY <2>1, <2>5
  <2> QED
    BY <2>2, <2>3, <2>5, <2>6, <2>7
<1>10. DrawnLefts' = Behind(P, left) \cup {left, left + 1}
  <2>1. /\ \A l \in Lefts : l < left => (l \in DrawnLefts' <=> l \in P)
        /\ \A l \in Lefts : l > left => (l + 1 \in DrawnLefts' <=> l \in P)
    BY <1>8, <1>9
  <2>2. left \in DrawnLefts' /\ left + 1 \in DrawnLefts'
    BY <1>8, <1>9
  <2>3. PICK Q, flag : Q = {left, left + 1} /\ flag = TRUE
    OBVIOUS
  <2>4. Q \in SUBSET {left, left + 1} /\ left \in Q /\ left + 1 \in Q
    BY <2>3
  <2>5. Cut(left, x, flag)
    BY <1>5, <2>3, Zenon
  <2>6. PICK R : R = DrawnLefts'
    OBVIOUS
  <2> HIDE DEF P
  <2>7. /\ R \subseteq Lefts' /\ P \in SUBSET Lefts /\ left \notin P
        /\ \A l \in Lefts : l < left => (l \in R <=> l \in P)
        /\ \A l \in Lefts : l > left => (l + 1 \in R <=> l \in P)
        /\ (left \in R <=> left \in Q) /\ (left + 1 \in R <=> left + 1 \in Q)
    BY <1>7, <1>8, <2>1, <2>2, <2>4, <2>6, Zenon
  <2>8. R = Behind(P, left) \cup Q
    BY <1>5, <2>4, <2>5, <2>7, CutSet
  <2> QED
    BY <2>3, <2>6, <2>8, Zenon
<1>11. BlankLefts' = Behind(BlankLefts, left)
  <2>1. /\ \A l \in Lefts : l < left => (l \in BlankLefts' <=> l \in BlankLefts)
        /\ \A l \in Lefts : l > left => (l + 1 \in BlankLefts' <=> l \in BlankLefts)
    BY <1>8, <1>9
  <2>2. left \notin BlankLefts' /\ left + 1 \notin BlankLefts'
    BY <1>8, <1>9
  <2>3. PICK Q, flag : Q = {} /\ flag = TRUE
    OBVIOUS
  <2>4. Q \in SUBSET {left, left + 1} /\ left \notin Q /\ left + 1 \notin Q
    BY <2>3
  <2>5. Cut(left, x, flag)
    BY <1>5, <2>3, Zenon
  <2>6. BlankLefts' = Behind(BlankLefts, left) \cup Q
    BY <1>5, <1>7, <1>8, <2>1, <2>2, <2>4, <2>5, CutSet
  <2> QED
    BY <2>3, <2>6
<1>12. Drawn' = {Axis'[l] : l \in DrawnLefts'} /\ Blank' = {Axis'[l] : l \in BlankLefts'}
  BY DEF Drawn, Blank
<1>13. Drawn' = {Axis[l] : l \in P} \cup Cuts
  <2> HIDE DEF P
  <2> QED
    BY <1>4, <1>5, <1>7, <1>10, <1>12, CutImage
<1>14. Blank' = Blank
  BY <1>5, <1>7, <1>11, <1>12, CutKeeps DEF Blank
<1>15. {Axis[l] : l \in P} = Drawn \ {e}
  <2>1. ASSUME NEW l \in P PROVE Axis[l] # e
    <3>1. l \in Lefts /\ l # left
      BY <1>7
    <3>2. Axis[left].from < Axis[left].to
      BY <1>4, <1>5, <1>6
    <3> QED
      BY <1>4, <1>5, <3>1, <3>2, EdgesDiffer
  <2>2. Drawn = {Axis[l] : l \in P} \cup {e}
    BY <1>4, <1>7, Zenon DEF Drawn
  <2> HIDE DEF P
  <2> QED
    BY <2>1, <2>2
<1>16. e \in Drawn /\ x \in e.from + 1 .. e.to - 1
  <2>1. e \in Drawn
    BY <1>4, <1>7 DEF Drawn
  <2> QED
    BY <1>5, <1>6, <2>1
<1>17. {Curve!Edge(e.from, x), Curve!Edge(x, e.to)} = Cuts
  BY DEF Curve!Edge
<1>18. Drawn' = (Drawn \ {e}) \cup {Curve!Edge(e.from, x), Curve!Edge(x, e.to)}
  BY <1>13, <1>15, <1>17, Zenon
<1> HIDE DEF P, Cuts
<1> QED
  BY <1>1, <1>2, <1>14, <1>16, <1>18, Mapped, MappedNext, Zenon DEF Curve!Anchor

(* The first samples are the ends of the first edges. *)
LEMMA BeginRefines ==
  ASSUME IInv, IInv', Reported, NEW n \in 2 .. PointLimit, Begin(n)
  PROVE  Curve!Begin(n)
<1>1. /\ stage = "idle" /\ coordinates' = [i \in 1 .. n |-> (i - 1) * Spacing]
      /\ connect' = [i \in 1 .. n |-> FALSE] /\ pending' = n - 1
      /\ UNCHANGED <<queue, head, unresolved, limits, limited>>
  BY DEF Begin
<1>2. unresolved = 0 /\ limits = {} /\ limited = FALSE /\ queue = NoQueue
  BY <1>1 DEF Reported, Empty
<1>3. n \in Nat /\ n >= 2 /\ Spacing \in Int
  BY GraphAssumption
<1>4. Len(coordinates') = n
  BY <1>1, <1>3
<1>5. Lefts' = 0 .. n - 2
  BY <1>4 DEF Lefts
<1>6. ASSUME NEW i \in 0 .. n - 2 PROVE Entry(i)' = [left |-> i, depth |-> 0]
  BY <1>1, <1>2 DEF Entry
<1>7. Drawn' = {}
  <2>1. \A l \in Lefts' : ~connect'[l + 2]
    BY <1>1, <1>3, <1>5
  <2> QED
    BY <2>1 DEF Drawn, DrawnLefts
<1>8. Blank' = {}
  <2>1. PendingLefts' = {Entry(i)'.left : i \in 0 .. n - 2}
    <3>1. pending' - 1 = n - 2
      BY <1>1, <1>3
    <3> QED
      BY <3>1 DEF PendingLefts
  <2>2. \A l \in Lefts' : l \in PendingLefts'
    BY <1>5, <1>6, <2>1
  <2> QED
    BY <2>2 DEF Blank, BlankLefts
<1> DEFINE S == [i \in 1 .. n - 1 |-> Curve!Waiting(Curve!Edge((i - 1) * Spacing, i * Spacing), 0)]
<1>9. WaitingNamed'
  BY WaitingPropertiesNext
<1>10. ASSUME NEW i \in 1 .. n - 1 PROVE WaitingEdges'[i] = S[i]
  <2>1. PICK k : k = i - 1
    OBVIOUS
  <2>2. /\ k \in 0 .. n - 2 /\ k \in Lefts' /\ i \in 1 .. pending'
        /\ k + 1 = i /\ k + 2 = i + 1 /\ i \in 1 .. n /\ i + 1 \in 1 .. n /\ i + 1 - 1 = i
    BY <1>1, <1>3, <1>5, <2>1
  <2>3. coordinates'[i] = (i - 1) * Spacing /\ coordinates'[i + 1] = i * Spacing
    <3>1. coordinates'[i + 1] = i * Spacing
      <4>1. PICK m : m = i + 1
        OBVIOUS
      <4>2. m \in 1 .. n /\ m - 1 = i
        BY <2>2, <4>1
      <4>3. coordinates'[m] = (m - 1) * Spacing
        BY <1>1, <4>2, Zenon
      <4> QED
        BY <4>1, <4>2, <4>3, Zenon
    <3>2. coordinates'[i] = (i - 1) * Spacing
      BY <1>1, <2>2, Zenon
    <3> QED
      BY <2>2, <3>1, <3>2, Zenon
  <2>4. Axis'[k] = [from |-> coordinates'[k + 1], to |-> coordinates'[k + 2]]
    BY <2>2 DEF Axis
  <2>5. WaitingEdges'[i] = [from |-> Axis'[Entry(i - 1)'.left].from,
                            to |-> Axis'[Entry(i - 1)'.left].to, depth |-> Entry(i - 1)'.depth]
    BY <1>9, <2>2, Zenon DEF WaitingNamed
  <2>6. Entry(k)'.left = k /\ Entry(k)'.depth = 0
    BY <1>6, <2>2
  <2>7. WaitingEdges'[i] = [from |-> Axis'[k].from, to |-> Axis'[k].to, depth |-> 0]
    BY <2>1, <2>5, <2>6, Zenon
  <2>8. Axis'[k].from = (i - 1) * Spacing /\ Axis'[k].to = i * Spacing
    BY <2>2, <2>3, <2>4
  <2>9. S[i] = [from |-> (i - 1) * Spacing, to |-> i * Spacing, depth |-> 0]
    BY Zenon DEF Curve!Waiting, Curve!Edge
  <2> QED
    BY <2>7, <2>8, <2>9, Zenon
<1>11. WaitingEdges' = S
  <2>1. WaitingEdges' \in Seq(WaitingEdge) /\ Len(WaitingEdges') = n - 1
    BY <1>1, <1>9 DEF WaitingNamed
  <2>2. WaitingEdges' \in [1 .. n - 1 -> WaitingEdge]
    BY <2>1
  <2>3. WaitingEdges' = [i \in 1 .. n - 1 |-> WaitingEdges'[i]]
    BY <2>2
  <2>4. [i \in 1 .. n - 1 |-> WaitingEdges'[i]] = [i \in 1 .. n - 1 |-> S[i]]
    BY <1>10
  <2>5. S = [i \in 1 .. n - 1 |-> S[i]]
    OBVIOUS
  <2> HIDE DEF S
  <2> QED
    BY <2>3, <2>4, <2>5, Zenon
<1>12. (limited \/ limits # {})' = FALSE /\ unresolved' = 0
  BY <1>1, <1>2
<1> QED
  BY <1>7, <1>8, <1>11, <1>12, MappedNext, Zenon DEF Curve!Begin, Curve!Cleared

(* A graph that is destroyed or delivered leaves no edge behind. *)
LEMMA EmptiedRefines == ASSUME IInv', Emptied PROVE Curve!Deliver
<1>1. /\ coordinates' = <<>> /\ pending' = 0 /\ unresolved' = 0 /\ limits' = {} /\ limited' = FALSE
  BY DEF Emptied
<1>2. WaitingEdges' = <<>>
  BY <1>1, NoneWaitsNext
<1>3. Lefts' = {}
  <2>1. Len(coordinates') = 0
    BY <1>1
  <2> QED
    BY <2>1 DEF Lefts
<1>4. Drawn' = {} /\ Blank' = {}
  BY <1>3 DEF Drawn, Blank, DrawnLefts, BlankLefts
<1>5. (limited \/ limits # {})' = FALSE
  BY <1>1
<1> QED
  BY <1>1, <1>2, <1>4, <1>5, MappedNext, Zenon DEF Curve!Deliver, Curve!Cleared

(* Where no more anchors fit, the caller is told. *)
LEMMA StopAnchoringRefines == ASSUME IInv, IInv', StopAnchoring PROVE Curve!StopAnchoring
<1>1. /\ pending = 0 /\ UNCHANGED <<coordinates, connect, pending, unresolved, limits>>
      /\ limited' = TRUE /\ connect[edge + 1]
      /\ edge \in Nat \ {0} /\ edge < Len(coordinates) /\ Len(coordinates) \in Nat
  BY LenProperties
  DEF IInv, TypeOK, RingFollowsStage, StopAnchoring, Examines, Anchoring, ring
<1>2. /\ WaitingEdges = <<>> /\ WaitingEdges' = <<>> /\ Drawn' = Drawn /\ Blank' = Blank
  BY <1>1, PeaksStutter
<1>3. PICK left : left = edge - 1
  OBVIOUS
<1>4. left \in Lefts /\ left + 2 = edge + 1
  BY <1>1, <1>3 DEF Lefts
<1>5. left \in DrawnLefts
  BY <1>1, <1>4 DEF DrawnLefts
<1>6. Drawn # {}
  BY <1>5 DEF Drawn
<1> QED
  BY <1>1, <1>2, <1>6, Mapped, MappedNext, Zenon DEF Curve!StopAnchoring

(* Before the first request there is no edge. *)
LEMMA InitCurve == Init => Curve!Init
<1> SUFFICES ASSUME Init PROVE Curve!Init
  OBVIOUS
<1>1. coordinates = <<>> /\ pending = 0 /\ unresolved = 0 /\ limits = {} /\ limited = FALSE
  BY DEF Init, Empty
<1>2. IInv
  BY InitHolds
<1>3. WaitingEdges = <<>>
  BY <1>1, <1>2, NoneWaits
<1>4. Lefts = {}
  <2>1. Len(coordinates) = 0
    BY <1>1
  <2> QED
    BY <2>1 DEF Lefts
<1>5. Drawn = {} /\ Blank = {}
  BY <1>4 DEF Drawn, Blank, DrawnLefts, BlankLefts
<1>6. (limited \/ limits # {}) = FALSE
  BY <1>1
<1> QED
  BY <1>1, <1>3, <1>5, <1>6, Mapped, Zenon DEF Curve!Init

(* Every step is one of CurveEdges, or changes nothing there. *)
LEMMA StepRefines == RInv /\ RInv' /\ [Next]_vars => [Curve!Next]_(Curve!vars)
<1> SUFFICES ASSUME RInv, RInv', [Next]_vars PROVE Curve!Next \/ UNCHANGED Curve!vars
  OBVIOUS
<1> USE DEF RInv
<1>1. ASSUME NEW n \in 2 .. PointLimit, Begin(n) PROVE Curve!Next
  BY <1>1, BeginRefines DEF Curve!Next
<1>2. pending \in Nat
  BY DEF IInv, TypeOK
<1>3. CASE Finish
  BY <1>2, <1>3, ConcludeRefines DEF Finish, Curve!Next
<1>4. CASE StopAtPoints
  <2>1. stage = "refine" /\ pending > 0 /\ Conclude(limits \cup {"points"})
    BY <1>4 DEF StopAtPoints, Refining
  <2> QED
    BY <1>2, <2>1, ConcludeRefines DEF Curve!Next
<1>5. CASE StopForResources
  <2>1. stage = "refine" /\ pending > 0 /\ Conclude(limits \cup {"resources"})
    BY <1>5 DEF StopForResources, Refining
  <2> QED
    BY <1>2, <2>1, ConcludeRefines DEF Curve!Next
<1>6. CASE AllocateQueue
  BY <1>6, AllocateStutters
<1>7. CASE SetAside
  BY <1>7, SetAsideIsTooDeep DEF Curve!Next
<1>8. ASSUME NEW decision \in {"SPLIT", "ACCEPT", "SKIP"}, Probe(decision) PROVE Curve!Next
  BY <1>8, ProbeIsJudge DEF Curve!Next
<1>9. ASSUME pending = 0, UNCHANGED <<coordinates, connect, pending, unresolved, limits, limited>>
      PROVE  UNCHANGED Curve!vars
  BY <1>9, PeaksStutter, SameCurve DEF Told
<1>10. CASE NextEdge \/ NoPeak
  BY <1>9, <1>10 DEF NextEdge, NoPeak, Examines, Anchoring, ring, IInv, RingFollowsStage
<1>11. CASE StopAnchoring
  BY <1>11, StopAnchoringRefines DEF Curve!Next
<1>12. CASE FinishPeaks
  BY <1>9, <1>12 DEF FinishPeaks, ring, IInv, RingFollowsStage
<1>13. ASSUME NEW i \in DOMAIN coordinates,
              Anchor(coordinates[i] + 1) \/ Anchor(coordinates[i] - 1)
       PROVE  Curve!Next
  <2>1. coordinates[i] \in Int
    BY <1>13, ElementOfSeq, LenProperties DEF IInv, TypeOK
  <2>2. coordinates[i] + 1 \in Int /\ coordinates[i] - 1 \in Int
    BY <2>1
  <2> QED
    BY <1>13, <2>2, AnchorRefines DEF Curve!Next
<1>14. CASE Fail \/ Deliver
  BY <1>14, EmptiedRefines DEF Fail, Deliver, Curve!Next
<1>15. CASE UNCHANGED vars
  <2>1. UNCHANGED <<coordinates, connect, queue, head, pending, unresolved, limits, limited>>
    BY <1>15 DEF vars, ring
  <2>2. WaitingEdges' = WaitingEdges /\ PendingLefts' = PendingLefts
    BY <2>1 DEF WaitingEdges, PendingLefts, EdgeAt, Entry, Slot
  <2>3. /\ Drawn' = Drawn
        /\ Blank' = {Axis[l] : l \in {m \in Lefts : ~connect[m + 2] /\ m \notin PendingLefts'}}
    BY <2>1, SameArrays
  <2>4. Blank' = Blank
    BY <2>2, <2>3 DEF Blank, BlankLefts
  <2> QED
    BY <2>1, <2>2, <2>3, <2>4, SameCurve DEF Told
<1> QED
  BY <1>1, <1>3, <1>4, <1>5, <1>6, <1>7, <1>8, <1>10, <1>11, <1>12, <1>13, <1>14, <1>15
  DEF Next

(* Whatever the limits on samples and depth, the ring of indices and the arrays
   that grow under it implement the queue of edges of CurveEdges: each edge is
   judged once and oldest first, is drawn exactly if it was accepted, and what
   was not judged is counted and reported; and the ring and the arrays fit. *)
THEOREM RingRefinesCurve == Spec => CurveIsRefined
<1>1. Init => Curve!Init
  BY InitCurve
<1>2. RInv /\ RInv' /\ [Next]_vars => [Curve!Next]_(Curve!vars)
  BY StepRefines
<1>3. RInv' => [QueueFits' /\ ActiveEdgesDisjoint']_vars
  BY DEF RInv, IInv
<1> QED
  BY <1>1, <1>2, <1>3, RInvariance, PTL DEF Spec, CurveIsRefined, Curve!Spec

-----------------------------------------------------------------------------
(* RootSearch: what its records are, and what they hold. *)
Kinds == {"ITERATION_LIMIT", "FOUND", "DOMAIN_GAP", "DOMAIN_UNVERIFIED", "PRECISION_LIMIT", "NOT_BRACKETED"}
Stops == {"FINISHED", "ROOT_LIMIT", "EVALUATION_LIMIT"}
Bracket == [lower : Int, upper : Int]
Root == [x : Int, exact : BOOLEAN, lower : Int, upper : Int]
SearchRecord ==
  [kind : Kinds, stage : {"bounds", "halving", "done"}, lower : Int, upper : Int,
   left : Int, right : Int, initial : Nat, iterations : Nat, evaluations : Nat,
   strategy : BOOLEAN, x : Int, exact : BOOLEAN]
ScanRecord ==
  [stage : {"grid", "middle", "vertex", "brackets", "advance", "done"}, i : Nat,
   brackets : Seq(Bracket), tried : SUBSET Bracket, roots : Seq(Root),
   evaluations : Nat, stop : Stops]

(* Every sample that was taken is one that can be. *)
Drawable(g) == \A p \in DOMAIN g : g[p] \in Samples

RootsTyped ==
  /\ Drawable(f)
  /\ search \in {NoSearch} \cup SearchRecord
  /\ scan \in {NoScan} \cup ScanRecord

(* What a search holds, in any of its stages. *)
Bounded ==
  search # NoSearch =>
    /\ search.evaluations <= MaxEvaluations
    /\ search.stage = "bounds" =>
         /\ search.evaluations = 0 /\ search.iterations = 0
         /\ search.upper - search.lower >= Room[MaxIterations]
    /\ search.stage = "halving" =>
         /\ SignChange(search.lower, search.upper)
         /\ search.left = SignOf(f[search.lower]) /\ search.right = SignOf(f[search.upper])
         /\ search.iterations <= MaxIterations
         /\ search.upper - search.lower >= Room[MaxIterations - search.iterations]
    /\ search.kind = "FOUND" => search.stage = "done" /\ IsRoot(search)

(* The samples of the grid that the scan has taken. *)
Reached == IF scan.stage = "grid" THEN scan.i - 1 ELSE scan.i

InOrder(s) == \A k \in 2 .. Len(s) : s[k - 1].x < s[k].x
Wide(b) == b.upper - b.lower >= Room[MaxIterations]

Crossing(i, j) ==
  /\ SignChange(Grid(i), Grid(j))
  /\ \/ j = i + 1
     \/ j = i + 2 /\ Known(Grid(i + 1), FALSE) /\ SignOf(f[Grid(i + 1)]) = 0
Over(i, j) == [lower |-> Grid(i), upper |-> Grid(j)]

Thorough ==
  scan.stop = "FINISHED" =>
    \A i \in 0 .. Segments, j \in 0 .. Reached :
      Crossing(i, j) => \/ Over(i, j) \in scan.tried
                        \/ /\ scan.stage = "brackets"
                           /\ \E k \in 1 .. Len(scan.brackets) : scan.brackets[k] = Over(i, j)

ScanHolds ==
  scan # NoScan =>
    /\ scan.i <= Segments
    /\ scan.stage \in {"middle", "vertex"} => scan.i > 0
    /\ scan.evaluations <= MaxTotal
    /\ search # NoSearch => scan.stage = "brackets" /\ scan.evaluations + MaxEvaluations <= MaxTotal
    /\ Len(scan.roots) <= MaxRoots /\ InOrder(scan.roots)
    /\ \A k \in 1 .. Len(scan.roots) : IsRoot(scan.roots[k])
    /\ \A k \in 1 .. Len(scan.brackets) : Wide(scan.brackets[k])
    /\ scan.stage # "done" \/ scan.stop = "FINISHED" => \A k \in 0 .. Reached : Grid(k) \in DOMAIN f
    /\ scan.stage = "done" /\ scan.stop = "FINISHED" => scan.i = Segments
    /\ Thorough

RootsInv == RootsTyped /\ Bounded /\ ScanHolds

-----------------------------------------------------------------------------
(* A set of natural numbers has a least one. *)
LEMMA LeastNumber ==
  ASSUME NEW S, S \subseteq Nat, S # {}
  PROVE  \E n \in S : \A m \in S : n <= m
<1>1. PICK n \in S : \A m \in S : ~ (<<m, n>> \in OpToRel(<, Nat))
  BY WFMin, NatLessThanWellFounded
<1>2. ASSUME NEW m \in S PROVE n <= m
  <2>1. m \in Nat /\ n \in Nat
    BY <1>1
  <2>2. ~ (<<m, n>> \in OpToRel(<, Nat))
    BY <1>1
  <2>3. m < n => <<m, n>> \in OpToRel(<, Nat)
    BY <2>1 DEF OpToRel
  <2>4. ~ (m < n)
    BY <2>2, <2>3, Zenon
  <2> QED
    BY <2>1, <2>4
<1> QED
  BY <1>2

(* What a sample is. *)
LEMMA SampleFacts ==
  ASSUME NEW s \in Samples
  PROVE  /\ s.real \in BOOLEAN /\ s.exact \in BOOLEAN /\ s.value \in Int
         /\ s.exact => s.real /\ s.value = 0
         /\ ~s.real => s.value = 0
         /\ SignOf(s) \in {-1, 0, 1}
         /\ SignOf(s) = 0 <=> s.value = 0
<1>1. Values \subseteq Int
  BY RootAssumption
<1>2. CASE s = Gap
  BY <1>2 DEF Gap, SignOf, Sign
<1>3. CASE s = ExactZero
  BY <1>3 DEF ExactZero, SignOf, Sign
<1>4. CASE s \in [real : {TRUE}, exact : {FALSE}, value : Values]
  <2>1. s.real = TRUE /\ s.exact = FALSE /\ s.value \in Int
    BY <1>1, <1>4
  <2>2. SignOf(s) \in {-1, 0, 1} /\ (SignOf(s) = 0 <=> s.value = 0)
    BY <2>1 DEF SignOf, Sign
  <2> QED
    BY <2>1, <2>2
<1> QED
  BY <1>2, <1>3, <1>4 DEF Samples

(* What was sampled before is as it was. *)
Kept(g, h) == \A p \in DOMAIN g : p \in DOMAIN h /\ h[p] = g[p]

(* A sample that does not contradict those before it. *)
Fits(g, x, s) == x \in DOMAIN g => g[x] = s

(* Remembering a sample keeps all others. *)
LEMMA RememberedKeeps ==
  ASSUME NEW g, Drawable(g), NEW x, NEW s \in Samples, Fits(g, x, s)
  PROVE  LET h == Remembered(g, x, s)
         IN  /\ Drawable(h) /\ Kept(g, h)
             /\ x \in DOMAIN h /\ h[x] = s
             /\ \A y, r : y # x /\ Fits(g, y, r) => Fits(h, y, r)
BY DEF Drawable, Kept, Remembered, Fits

(* What is drawn for a position is what was drawn for it before. *)
LEMMA SampledFacts ==
  ASSUME Drawable(f), NEW x, NEW s \in Sampled(x)
  PROVE  s \in Samples /\ Fits(f, x, s)
BY DEF Drawable, Sampled, Fits

(* What is known stays known. *)
LEMMA KnownStays ==
  ASSUME Kept(f, f')
  PROVE  /\ \A x, e : Known(x, e) => Known(x, e)'
         /\ \A a, b : SignChange(a, b) => SignChange(a, b)'
         /\ \A r : IsRoot(r) => IsRoot(r)'
         /\ \A x, e : x \in DOMAIN f => (Known(x, e)' <=> Known(x, e))
         /\ \A a, b : a \in DOMAIN f /\ b \in DOMAIN f => (SignChange(a, b)' <=> SignChange(a, b))
<1>1. \A x, e : Known(x, e) => Known(x, e)'
  BY DEF Kept, Known
<1>2. \A x, e : x \in DOMAIN f => (Known(x, e)' <=> Known(x, e))
  BY DEF Kept, Known
<1>3. \A a, b : SignChange(a, b) => SignChange(a, b)'
  BY DEF Kept, Known, SignChange, Opposite, SignOf
<1>4. \A a, b : a \in DOMAIN f /\ b \in DOMAIN f => (SignChange(a, b)' <=> SignChange(a, b))
  BY DEF Kept, Known, SignChange, Opposite, SignOf
<1>5. \A r : IsRoot(r) => IsRoot(r)'
  BY <1>1, <1>3 DEF IsRoot
<1> QED
  BY <1>1, <1>2, <1>3, <1>4, <1>5

(* There is always room for a point and its neighbours. *)
LEMMA RoomEnough ==
  ASSUME NEW n \in 0 .. MaxIterations
  PROVE  Room[n] \in Nat /\ Room[n] >= 2
<1> DEFINE S == {k \in Nat : k \in 0 .. MaxIterations /\ Room[k] < 2}
<1>1. ASSUME S # {} PROVE FALSE
  <2>1. PICK k \in S : \A j \in S : k <= j
    BY <1>1, LeastNumber
  <2>2. k # 0
    BY <2>1, RootAssumption
  <2>3. k - 1 \in 0 .. MaxIterations /\ k \in 1 .. MaxIterations /\ Room[k - 1] \in Nat /\ Room[k] \in Nat
    BY <2>1, <2>2, RootAssumption
  <2>4. Room[k - 1] < 2
    BY <2>1, <2>3, RootAssumption
  <2> QED
    BY <2>1, <2>3, <2>4
<1>2. Room[n] \in Nat
  BY RootAssumption
<1>3. n \notin S
  BY <1>1
<1> QED
  BY <1>2, <1>3

(* Between bounds with room for another n steps lies every point that may be
   proposed, and what it leaves has room for n - 1. *)
LEMMA RoomLeft ==
  ASSUME NEW n \in 1 .. MaxIterations, NEW l \in Int, NEW u \in Int, u - l >= Room[n],
         NEW x \in {Middle(l, u), Middle(l, Middle(l, u)), Middle(Middle(l, u), u)}
  PROVE  /\ x \in Int /\ l < x /\ x < u
         /\ x - l >= Room[n - 1] /\ u - x >= Room[n - 1]
         /\ Middle(l, x) \in Int /\ Middle(x, u) \in Int
         /\ l < Middle(l, x) /\ Middle(l, x) < x /\ x < Middle(x, u) /\ Middle(x, u) < u
         /\ Middle(x, u) - Middle(l, x) >= Room[n - 1]
<1>1. PICK r \in Nat : r = Room[n - 1] /\ r >= 2 /\ u - l >= 4 * r
  <2>1. n - 1 \in 0 .. MaxIterations /\ Room[n - 1] \in Nat /\ Room[n] \in Nat /\ Room[n] >= 4 * Room[n - 1]
    BY RootAssumption
  <2> QED
    BY <2>1, RoomEnough
<1>2. PICK m \in Int : m = Middle(l, u) /\ m - l >= 2 * r /\ u - m >= 2 * r
  BY <1>1 DEF Middle
<1>3. x \in Int /\ x - l >= r /\ u - x >= r /\ (x - l >= 2 * r \/ u - x >= 2 * r)
  BY <1>1, <1>2 DEF Middle
<1>4. PICK a \in Int : a = Middle(l, x) /\ l < a /\ a < x /\ 2 * (x - a) >= x - l
  BY <1>1, <1>3 DEF Middle
<1>5. PICK b \in Int : b = Middle(x, u) /\ x < b /\ b < u /\ 2 * (b - x) >= u - x - 1
  BY <1>1, <1>3 DEF Middle
<1>6. b - a >= r
  BY <1>1, <1>3, <1>4, <1>5
<1> QED
  BY <1>1, <1>3, <1>4, <1>5, <1>6

-----------------------------------------------------------------------------
(* A search is not the absence of one, and neither is a scan. *)
LEMMA RecordsAreSome ==
  /\ \A s \in SearchRecord : s # NoSearch
  /\ \A s \in ScanRecord : s # NoScan
<1>1. ASSUME NEW s \in SearchRecord PROVE s # NoSearch
  <2>1. s.kind # "NONE"
    BY DEF SearchRecord, Kinds
  <2>2. NoSearch.kind = "NONE"
    BY DEF NoSearch
  <2> QED
    BY <2>1, <2>2
<1>2. ASSUME NEW s \in ScanRecord PROVE s # NoScan
  <2>1. s.stage # "none"
    BY DEF ScanRecord
  <2>2. NoScan.stage = "none"
    BY DEF NoScan
  <2> QED
    BY <2>1, <2>2
<1> QED
  BY <1>1, <1>2

(* A search that ends without a root ... *)
LEMMA EndedFacts ==
  ASSUME NEW s \in SearchRecord, NEW kind \in Kinds, NEW r, r = Ended(s, kind)
  PROVE  /\ r \in SearchRecord /\ r.stage = "done" /\ r.kind = kind
         /\ r.evaluations = s.evaluations /\ r.lower = s.lower /\ r.upper = s.upper
BY DEF Ended, SearchRecord

(* ... and one that may have found one. *)
LEMMA FoundFacts ==
  ASSUME NEW s \in SearchRecord, s.evaluations <= MaxEvaluations, NEW x \in Int,
         NEW sample \in Samples, NEW r \in Found(s, x, sample)
  PROVE  /\ r \in SearchRecord /\ r.stage = "done" /\ r.evaluations <= MaxEvaluations
         /\ r.lower = s.lower /\ r.upper = s.upper
         /\ r.kind = "FOUND" => r.x = x /\ r.exact = sample.exact
<1>1. MaxEvaluations \in Nat
  BY RootAssumption
<1>2. ASSUME NEW q \in SearchRecord, q.evaluations <= MaxEvaluations, q.lower = s.lower,
             q.upper = s.upper, NEW e \in BOOLEAN, e = sample.exact, r = At(q, x, e)
      PROVE  /\ r \in SearchRecord /\ r.stage = "done" /\ r.evaluations <= MaxEvaluations
             /\ r.lower = s.lower /\ r.upper = s.upper
             /\ r.x = x /\ r.exact = sample.exact
  BY <1>2 DEF At, Ended, SearchRecord, Kinds
<1>3. ASSUME NEW q \in SearchRecord, q.evaluations <= MaxEvaluations, q.lower = s.lower,
             q.upper = s.upper, NEW kind \in Kinds \ {"FOUND"}, r = Ended(q, kind)
      PROVE  /\ r \in SearchRecord /\ r.stage = "done" /\ r.evaluations <= MaxEvaluations
             /\ r.lower = s.lower /\ r.upper = s.upper /\ r.kind # "FOUND"
  BY <1>3, EndedFacts
<1>4. CASE sample.exact
  BY <1>2, <1>4 DEF Found
<1>5. CASE ~sample.exact
  <2>1. sample.exact = FALSE
    BY <1>5, SampleFacts
  <2>2. CASE r = Ended(s, "DOMAIN_UNVERIFIED") \/ r = Ended(s, "ITERATION_LIMIT")
    BY <1>3, <2>2 DEF Kinds
  <2>3. CASE ~(r = Ended(s, "DOMAIN_UNVERIFIED") \/ r = Ended(s, "ITERATION_LIMIT"))
    <3>1. PICK checked : checked = [s EXCEPT !.evaluations = @ + 1]
      OBVIOUS
    <3>2. s.evaluations < MaxEvaluations
      <4>1. ~(s.evaluations >= MaxEvaluations)
        BY <1>5, <2>3 DEF Found
      <4> QED
        BY <1>1, <4>1 DEF SearchRecord
    <3>3. /\ checked \in SearchRecord /\ checked.evaluations <= MaxEvaluations
          /\ checked.lower = s.lower /\ checked.upper = s.upper
      BY <1>1, <3>1, <3>2 DEF SearchRecord
    <3>4. \/ r = Ended(checked, "DOMAIN_GAP")
          \/ r = At(checked, x, FALSE)
          \/ r = Ended(checked, "PRECISION_LIMIT")
      BY <1>5, <2>3, <3>1, <3>2 DEF Found
    <3> QED
      BY <1>2, <1>3, <2>1, <3>3, <3>4 DEF Kinds
  <2> QED
    BY <2>2, <2>3
<1> QED
  BY <1>4, <1>5

(* A search that is done is within its allowance, and right about its root. *)
LEMMA DoneIsBounded ==
  ASSUME search' \in SearchRecord, search'.stage = "done",
         search'.evaluations <= MaxEvaluations, search'.kind = "FOUND" => IsRoot(search)'
  PROVE  Bounded'
BY DEF Bounded

(* Crossings between samples of the grid do not come or go. *)
LEMMA CrossingStays ==
  ASSUME Kept(f, f'), NEW i, NEW j,
         Grid(i) \in DOMAIN f, Grid(j) \in DOMAIN f, Grid(i + 1) \in DOMAIN f
  PROVE  Crossing(i, j)' <=> Crossing(i, j)
<1>1. f'[Grid(i + 1)] = f[Grid(i + 1)]
  BY DEF Kept
<1>2. SignChange(Grid(i), Grid(j))' <=> SignChange(Grid(i), Grid(j))
  BY KnownStays
<1>3. Known(Grid(i + 1), FALSE)' <=> Known(Grid(i + 1), FALSE)
  BY KnownStays
<1> QED
  BY <1>1, <1>2, <1>3 DEF Crossing

(* What a search samples changes nothing for the scan. *)
LEMMA ScanStays ==
  ASSUME RootsInv, Kept(f, f'), scan' = scan, search' # NoSearch => search # NoSearch
  PROVE  ScanHolds'
<1> SUFFICES ASSUME scan # NoScan PROVE ScanHolds'
  BY DEF ScanHolds
<1>1. scan \in ScanRecord /\ ScanHolds
  BY DEF RootsInv, RootsTyped
<1>2. \A k \in 1 .. Len(scan.roots) : IsRoot(scan.roots[k])'
  BY <1>1, KnownStays DEF ScanHolds
<1>3. Reached' = Reached
  BY DEF Reached
<1>4. scan.stage # "done" \/ scan.stop = "FINISHED" => \A k \in 0 .. Reached : Grid(k) \in DOMAIN f'
  BY <1>1 DEF ScanHolds, Kept
<1>5. Thorough'
  <2> SUFFICES ASSUME scan.stop = "FINISHED", NEW i \in 0 .. Segments, NEW j \in 0 .. Reached,
                      Crossing(i, j)'
               PROVE  \/ Over(i, j) \in scan.tried
                      \/ /\ scan.stage = "brackets"
                         /\ \E k \in 1 .. Len(scan.brackets) : scan.brackets[k] = Over(i, j)
    BY <1>3 DEF Thorough, Over, Grid
  <2>1. Reached \in Int
    BY <1>1 DEF Reached, ScanRecord
  <2>2. i \in 0 .. Reached /\ i + 1 \in 0 .. Reached
    <3>1. Segments \in Nat
      BY RootAssumption
    <3>2. i \in Nat /\ j \in Nat
      BY <2>1, <3>1
    <3>3. j = i + 1 \/ j = i + 2
      BY DEF Crossing
    <3> QED
      BY <2>1, <3>2, <3>3
  <2>3. Crossing(i, j)
    BY <1>1, <2>2, CrossingStays DEF ScanHolds
  <2> QED
    BY <1>1, <2>3 DEF ScanHolds, Thorough
<1> QED
  BY <1>1, <1>2, <1>3, <1>4, <1>5 DEF ScanHolds, InOrder, Wide

(* A step of a search keeps the invariant if it keeps what it holds itself. *)
LEMMA SearchStep ==
  ASSUME RootsInv, search # NoSearch, scan' = scan, Drawable(f'), Kept(f, f'),
         search' \in SearchRecord, Bounded'
  PROVE  RootsInv'
<1>1. ScanHolds'
  BY ScanStays
<1> QED
  BY <1>1 DEF RootsInv, RootsTyped, Drawable

(* The bounds of a search, and the constants it goes by. *)
LEMMA SearchFacts ==
  ASSUME RootsInv, search # NoSearch
  PROVE  /\ search \in SearchRecord /\ Drawable(f)
         /\ search.evaluations <= MaxEvaluations
         /\ MaxEvaluations \in Nat /\ MaxEvaluations >= 4 /\ MaxIterations \in Nat
BY RootAssumption DEF RootsInv, RootsTyped, Bounded

(* The first samples: the bounds have opposite signs, or the search is over. *)
LEMMA SampleBoundsStep ==
  ASSUME RootsInv, SampleBounds
  PROVE  RootsInv'
<1>0. PICK l, u : l = search.lower /\ u = search.upper
  OBVIOUS
<1>1. /\ search # NoSearch /\ search.stage = "bounds" /\ scan' = scan
      /\ search \in SearchRecord /\ Drawable(f)
      /\ MaxEvaluations \in Nat /\ MaxEvaluations >= 4 /\ MaxIterations \in Nat
  BY SearchFacts DEF SampleBounds, Searching
<1>2. /\ search.evaluations = 0 /\ search.iterations = 0 /\ search.kind # "FOUND"
      /\ u - l >= Room[MaxIterations]
  BY <1>0, <1>1 DEF RootsInv, Bounded
<1>3. l \in Int /\ u \in Int /\ l < u
  BY <1>0, <1>1, <1>2, RoomEnough, SMTT(60) DEF SearchRecord
<1>4. PICK a \in Sampled(search.lower) :
        LET once == [search EXCEPT !.evaluations = 1, !.left = SignOf(a)]
        IN  IF ~a.real \/ a.exact
            THEN /\ f' = Remembered(f, search.lower, a)
                 /\ search' \in IF a.real THEN Found(once, search.lower, a) ELSE {Ended(once, "DOMAIN_GAP")}
            ELSE \E b \in Sampled(search.upper) :
                   LET both == [once EXCEPT !.evaluations = 2, !.right = SignOf(b),
                                            !.initial = IF Magnitude(b.value) < Magnitude(a.value)
                                                        THEN Magnitude(b.value) ELSE Magnitude(a.value)]
                       bracketed == both.left # 0 /\ both.right # 0 /\ both.left # both.right
                   IN  /\ f' = Remembered(Remembered(f, search.lower, a), search.upper, b)
                       /\ search' \in IF ~b.real THEN {Ended(both, "DOMAIN_GAP")}
                                      ELSE IF b.exact THEN Found(both, search.upper, b)
                                      ELSE IF bracketed THEN {[both EXCEPT !.stage = "halving"]}
                                      ELSE {Ended(both, "NOT_BRACKETED")}
  BY ZenonT(60) DEF SampleBounds
<1>5. a \in Samples /\ Fits(f, l, a)
  BY <1>0, <1>1, <1>4, SampledFacts
<1>6. PICK once : once = [search EXCEPT !.evaluations = 1, !.left = SignOf(a)]
  OBVIOUS
<1>7. /\ once \in SearchRecord /\ once.evaluations = 1 /\ once.left = SignOf(a)
      /\ once.lower = l /\ once.upper = u /\ once.iterations = 0 /\ once.kind = search.kind
  <2>1. PICK m \in Int : m = SignOf(a)
    BY <1>5, SampleFacts
  <2>2. once = [search EXCEPT !.evaluations = 1, !.left = m]
    BY <1>6, <2>1
  <2> QED
    BY <1>0, <1>1, <1>2, <2>1, <2>2 DEF SearchRecord
<1>8. CASE ~a.real \/ a.exact
  <2>1. f' = Remembered(f, l, a) /\ search' \in IF a.real THEN Found(once, l, a) ELSE {Ended(once, "DOMAIN_GAP")}
    BY <1>0, <1>4, <1>6, <1>8
  <2>2. Drawable(f') /\ Kept(f, f') /\ l \in DOMAIN f' /\ f'[l] = a
    BY <1>1, <1>5, <2>1, RememberedKeeps
  <2>3. CASE a.real
    <3>1. /\ search' \in SearchRecord /\ search'.stage = "done" /\ search'.evaluations <= MaxEvaluations
          /\ search'.kind = "FOUND" => search'.x = l /\ search'.exact = a.exact
      BY <1>1, <1>3, <1>5, <1>7, <2>1, <2>3, FoundFacts
    <3>2. search'.kind = "FOUND" => IsRoot(search)'
      BY <1>5, <1>8, <2>2, <2>3, <3>1, SampleFacts DEF IsRoot, Known
    <3> QED
      BY <1>1, <2>2, <3>1, <3>2, DoneIsBounded, SearchStep
  <2>4. CASE ~a.real
    <3>1. /\ search' \in SearchRecord /\ search'.stage = "done" /\ search'.evaluations <= MaxEvaluations
          /\ search'.kind # "FOUND"
      BY <1>1, <1>7, <2>1, <2>4, EndedFacts DEF Kinds
    <3> QED
      BY <1>1, <2>2, <3>1, DoneIsBounded, SearchStep
  <2> QED
    BY <2>3, <2>4
<1>9. CASE ~(~a.real \/ a.exact)
  <2>1. PICK b \in Sampled(u) :
          LET both == [once EXCEPT !.evaluations = 2, !.right = SignOf(b),
                                   !.initial = IF Magnitude(b.value) < Magnitude(a.value)
                                               THEN Magnitude(b.value) ELSE Magnitude(a.value)]
              bracketed == both.left # 0 /\ both.right # 0 /\ both.left # both.right
          IN  /\ f' = Remembered(Remembered(f, l, a), u, b)
              /\ search' \in IF ~b.real THEN {Ended(both, "DOMAIN_GAP")}
                             ELSE IF b.exact THEN Found(both, u, b)
                             ELSE IF bracketed THEN {[both EXCEPT !.stage = "halving"]}
                             ELSE {Ended(both, "NOT_BRACKETED")}
    BY <1>0, <1>4, <1>6, <1>9, ZenonT(60)
  <2>2. b \in Samples /\ Fits(f, u, b)
    BY <1>1, SampledFacts
  <2>3. PICK both : both = [once EXCEPT !.evaluations = 2, !.right = SignOf(b),
                                   !.initial = IF Magnitude(b.value) < Magnitude(a.value)
                                               THEN Magnitude(b.value) ELSE Magnitude(a.value)]
    OBVIOUS
  <2>4. /\ both \in SearchRecord /\ both.evaluations = 2 /\ both.lower = l /\ both.upper = u
        /\ both.left = SignOf(a) /\ both.right = SignOf(b) /\ both.iterations = 0
        /\ both.kind = search.kind
    <3>1. PICK n \in Int : a.value \in Int /\ b.value \in Int /\ n = SignOf(b)
      BY <1>5, <2>2, SampleFacts
    <3>2. PICK m \in Nat : m = IF Magnitude(b.value) < Magnitude(a.value) THEN Magnitude(b.value)
                               ELSE Magnitude(a.value)
      BY <3>1 DEF Magnitude
    <3>3. both = [once EXCEPT !.evaluations = 2, !.right = n, !.initial = m]
      BY <2>3, <3>1, <3>2
    <3> QED
      BY <1>7, <3>1, <3>3 DEF SearchRecord
  <2>5. PICK g : g = Remembered(f, l, a)
    OBVIOUS
  <2>6. Drawable(g) /\ Kept(f, g) /\ l \in DOMAIN g /\ g[l] = a /\ Fits(g, u, b)
    BY <1>1, <1>3, <1>5, <2>2, <2>5, RememberedKeeps
  <2>7. f' = Remembered(g, u, b)
    BY <2>1, <2>5
  <2>9. Drawable(f') /\ Kept(g, f') /\ u \in DOMAIN f' /\ f'[u] = b
    BY <2>2, <2>6, <2>7, RememberedKeeps
  <2>10. Kept(f, f') /\ l \in DOMAIN f' /\ f'[l] = a
    BY <2>6, <2>9 DEF Kept
  <2>11. \/ ~b.real /\ search' = Ended(both, "DOMAIN_GAP")
         \/ b.real /\ b.exact /\ search' \in Found(both, u, b)
         \/ /\ b.real /\ ~b.exact /\ both.left # 0 /\ both.right # 0 /\ both.left # both.right
            /\ search' = [both EXCEPT !.stage = "halving"]
         \/ b.real /\ search' = Ended(both, "NOT_BRACKETED")
    BY <2>1, <2>3
  <2>12. CASE search' = Ended(both, "DOMAIN_GAP") \/ search' = Ended(both, "NOT_BRACKETED")
    <3>1. /\ search' \in SearchRecord /\ search'.stage = "done" /\ search'.evaluations <= MaxEvaluations
          /\ search'.kind # "FOUND"
      BY <1>1, <2>4, <2>12, EndedFacts DEF Kinds
    <3> QED
      BY <1>1, <2>9, <2>10, <3>1, DoneIsBounded, SearchStep
  <2>13. CASE b.real /\ b.exact /\ search' \in Found(both, u, b)
    <3>1. /\ search' \in SearchRecord /\ search'.stage = "done" /\ search'.evaluations <= MaxEvaluations
          /\ search'.kind = "FOUND" => search'.x = u /\ search'.exact = b.exact
      <4>1. both.evaluations <= MaxEvaluations /\ search' \in Found(both, u, b)
        BY <1>1, <2>4, <2>13
      <4> QED
        BY <1>3, <2>2, <2>4, <4>1, FoundFacts
    <3>2. search'.kind = "FOUND" => IsRoot(search)'
      BY <2>2, <2>9, <2>13, <3>1, SampleFacts DEF IsRoot, Known
    <3> QED
      BY <1>1, <2>9, <2>10, <3>1, <3>2, DoneIsBounded, SearchStep
  <2>14. CASE /\ b.real /\ ~b.exact /\ both.left # 0 /\ both.right # 0 /\ both.left # both.right
              /\ search' = [both EXCEPT !.stage = "halving"]
    <3>1. /\ search' \in SearchRecord /\ search'.stage = "halving" /\ search'.evaluations = 2
          /\ search'.iterations = 0 /\ search'.lower = l /\ search'.upper = u
          /\ search'.left = SignOf(a) /\ search'.right = SignOf(b) /\ search'.kind # "FOUND"
      BY <1>2, <2>4, <2>14 DEF SearchRecord
    <3>2. SignChange(l, u)'
      BY <1>3, <1>5, <1>9, <2>2, <2>4, <2>9, <2>10, <2>14, SampleFacts
        DEF SignChange, Known, Opposite, SignOf
    <3>3. Bounded'
      BY <1>1, <1>2, <2>9, <2>10, <3>1, <3>2 DEF Bounded, SignChange, Known, Opposite, SignOf
    <3> QED
      BY <1>1, <2>9, <2>10, <3>1, <3>3, SearchStep
  <2> QED
    BY <2>11, <2>12, <2>13, <2>14, SMTT(60)
<1> QED
  BY <1>8, <1>9

(* An allowance that is used up. *)
LEMMA ExhaustedStep ==
  ASSUME RootsInv, Exhausted
  PROVE  RootsInv'
<1>1. /\ search # NoSearch /\ search \in SearchRecord /\ Drawable(f)
      /\ search.evaluations <= MaxEvaluations
      /\ f' = f /\ scan' = scan /\ search' = Ended(search, "ITERATION_LIMIT")
  BY SearchFacts DEF Exhausted, Searching
<1>2. /\ search' \in SearchRecord /\ search'.stage = "done" /\ search'.evaluations <= MaxEvaluations
      /\ search'.kind # "FOUND"
  BY <1>1, EndedFacts DEF Kinds
<1>3. Kept(f, f') /\ Drawable(f')
  BY <1>1 DEF Kept
<1> QED
  BY <1>1, <1>2, <1>3, DoneIsBounded, SearchStep

(* What a step from bounds of opposite signs starts from. *)
LEMMA HalvingFacts ==
  ASSUME RootsInv, Searching("halving"), MayIterate
  PROVE  /\ search # NoSearch /\ search \in SearchRecord /\ Drawable(f)
         /\ search.stage = "halving" /\ search.kind # "FOUND"
         /\ search.lower \in Int /\ search.upper \in Int
         /\ search.evaluations \in Nat /\ search.evaluations < MaxEvaluations - 3
         /\ MaxEvaluations \in Nat /\ MaxIterations \in Nat
         /\ search.iterations \in Nat /\ search.iterations < MaxIterations
         /\ SignChange(search.lower, search.upper)
         /\ search.left = SignOf(f[search.lower]) /\ search.right = SignOf(f[search.upper])
         /\ search.upper - search.lower >= Room[MaxIterations - search.iterations]
<1>1. search # NoSearch /\ search.stage = "halving"
  BY DEF Searching
<1>2. search \in SearchRecord /\ Drawable(f) /\ MaxEvaluations \in Nat /\ MaxIterations \in Nat
  BY <1>1, SearchFacts
<1>3. /\ search.iterations <= MaxIterations
      /\ SignChange(search.lower, search.upper)
      /\ search.left = SignOf(f[search.lower]) /\ search.right = SignOf(f[search.upper])
      /\ search.upper - search.lower >= Room[MaxIterations - search.iterations]
      /\ search.kind # "FOUND"
  BY <1>1 DEF RootsInv, Bounded
<1> QED
  BY <1>1, <1>2, <1>3 DEF MayIterate, SearchRecord

(* Every point that is proposed lies between the bounds, with points on both
   sides of it, and leaves room for the iterations to come. *)
LEMMA ProposedFacts ==
  ASSUME RootsInv, Searching("halving"), MayIterate, NEW x \in Proposed
  PROVE  /\ x \in Int /\ search.lower < x /\ x < search.upper
         /\ x - search.lower >= Room[MaxIterations - (search.iterations + 1)]
         /\ search.upper - x >= Room[MaxIterations - (search.iterations + 1)]
         /\ Middle(search.lower, x) \in Int /\ Middle(x, search.upper) \in Int
         /\ search.lower < Middle(search.lower, x) /\ Middle(search.lower, x) < x
         /\ x < Middle(x, search.upper) /\ Middle(x, search.upper) < search.upper
         /\ Middle(x, search.upper) - Middle(search.lower, x)
              >= Room[MaxIterations - (search.iterations + 1)]
<1>1. PICK n \in Int : n = MaxIterations - search.iterations
  BY HalvingFacts
<1>2. /\ n \in 1 .. MaxIterations /\ n - 1 = MaxIterations - (search.iterations + 1)
      /\ search.upper - search.lower >= Room[n]
      /\ search.lower \in Int /\ search.upper \in Int
  BY <1>1, HalvingFacts
<1>3. x \in {Middle(search.lower, search.upper),
             Middle(search.lower, Middle(search.lower, search.upper)),
             Middle(Middle(search.lower, search.upper), search.upper)}
  BY DEF Proposed
<1>4. /\ x \in Int /\ search.lower < x /\ x < search.upper
      /\ x - search.lower >= Room[n - 1] /\ search.upper - x >= Room[n - 1]
      /\ Middle(search.lower, x) \in Int /\ Middle(x, search.upper) \in Int
      /\ search.lower < Middle(search.lower, x) /\ Middle(search.lower, x) < x
      /\ x < Middle(x, search.upper) /\ Middle(x, search.upper) < search.upper
      /\ Middle(x, search.upper) - Middle(search.lower, x) >= Room[n - 1]
  BY <1>2, <1>3, RoomLeft
<1> QED
  BY <1>2, <1>4

(* A bracket that has become smaller is one. *)
LEMMA NarrowedIsBounded ==
  ASSUME NEW l, NEW u, NEW left, NEW right,
         search' \in SearchRecord, search'.stage = "halving", search'.kind # "FOUND",
         search'.evaluations <= MaxEvaluations, search'.iterations <= MaxIterations,
         search'.lower = l, search'.upper = u, search'.left = left, search'.right = right,
         SignChange(l, u)', left = SignOf(f'[l]), right = SignOf(f'[u]),
         u - l >= Room[MaxIterations - search'.iterations]
  PROVE  Bounded'
BY DEF Bounded, SignChange, Known, Opposite, SignOf

(* The sign of a sample that is no exact zero tells which bound it replaces. *)
LEMMA HalveStep ==
  ASSUME RootsInv, Halve
  PROVE  RootsInv'
<1>1. Searching("halving") /\ MayIterate /\ scan' = scan
  BY DEF Halve
<1>2. PICK x \in Proposed : \E s \in Sampled(x) :
        LET probed == [search EXCEPT !.iterations = @ + 1, !.evaluations = @ + 1]
            left == SignOf(s) = search.left
        IN  /\ s.real => s.exact \/ s.value # 0
            /\ f' = Remembered(f, x, s)
            /\ search' \in IF ~s.real THEN {Ended(probed, "DOMAIN_GAP")}
                           ELSE IF s.exact \/ Acceptable(s) THEN Found(probed, x, s)
                           ELSE IF left THEN {[probed EXCEPT !.lower = x, !.left = SignOf(s)]}
                           ELSE {[probed EXCEPT !.upper = x, !.right = SignOf(s)]}
  BY DEF Halve
<1>16. PICK p : p = [search EXCEPT !.iterations = @ + 1, !.evaluations = @ + 1]
  OBVIOUS
<1>3. PICK s \in Sampled(x) :
        /\ p = [search EXCEPT !.iterations = @ + 1, !.evaluations = @ + 1]
        /\ s.real => s.exact \/ s.value # 0
        /\ f' = Remembered(f, x, s)
        /\ \/ ~s.real /\ search' = Ended(p, "DOMAIN_GAP")
           \/ s.real /\ search' \in Found(p, x, s)
           \/ /\ s.real /\ ~s.exact /\ SignOf(s) = search.left
              /\ search' = [p EXCEPT !.lower = x, !.left = SignOf(s)]
           \/ /\ s.real /\ ~s.exact /\ SignOf(s) # search.left
              /\ search' = [p EXCEPT !.upper = x, !.right = SignOf(s)]
  BY <1>2, <1>16
<1>4. PICK l, u : l = search.lower /\ u = search.upper
  OBVIOUS
<1>5. /\ search # NoSearch /\ search \in SearchRecord /\ Drawable(f)
      /\ l \in Int /\ u \in Int
      /\ SignChange(l, u) /\ search.left = SignOf(f[l]) /\ search.right = SignOf(f[u])
  BY <1>1, <1>4, HalvingFacts
<1>6. /\ x \in Int /\ l < x /\ x < u
      /\ x - l >= Room[MaxIterations - (search.iterations + 1)]
      /\ u - x >= Room[MaxIterations - (search.iterations + 1)]
  <2>1. x \in Proposed
    BY <1>2
  <2>2. /\ x \in Int /\ search.lower < x /\ x < search.upper
        /\ x - search.lower >= Room[MaxIterations - (search.iterations + 1)]
        /\ search.upper - x >= Room[MaxIterations - (search.iterations + 1)]
    BY <1>1, <2>1, ProposedFacts
  <2> QED
    BY <1>4, <2>2
<1>7. s \in Samples /\ Fits(f, x, s)
  BY <1>5, SampledFacts
<1>8. /\ p \in SearchRecord /\ p.stage = "halving" /\ p.kind # "FOUND"
      /\ p.lower = l /\ p.upper = u /\ p.left = search.left /\ p.right = search.right
      /\ p.iterations = search.iterations + 1 /\ p.iterations <= MaxIterations
      /\ p.evaluations <= MaxEvaluations
  <2>1. p = [search EXCEPT !.iterations = @ + 1, !.evaluations = @ + 1]
    BY <1>3
  <2>2. /\ search.evaluations \in Nat /\ search.evaluations < MaxEvaluations - 3
        /\ MaxEvaluations \in Nat /\ MaxIterations \in Nat
        /\ search.iterations \in Nat /\ search.iterations < MaxIterations
        /\ search.stage = "halving" /\ search.kind # "FOUND"
    BY <1>1, HalvingFacts
  <2>3. PICK i \in Nat, e \in Nat : /\ i = search.iterations + 1 /\ e = search.evaluations + 1
                                    /\ i <= MaxIterations /\ e <= MaxEvaluations
    BY <2>2
  <2>4. p = [search EXCEPT !.iterations = i, !.evaluations = e]
    BY <2>1, <2>3
  <2> QED
    BY <1>4, <1>5, <2>2, <2>3, <2>4 DEF SearchRecord
<1>9. Drawable(f') /\ Kept(f, f') /\ x \in DOMAIN f' /\ f'[x] = s
  BY <1>3, <1>5, <1>7, RememberedKeeps
<1>10. SignChange(l, u)' /\ f'[l] = f[l] /\ f'[u] = f[u]
  BY <1>5, <1>9, KnownStays DEF SignChange, Known, Kept
<1>11. CASE ~s.real /\ search' = Ended(p, "DOMAIN_GAP")
  <2>1. /\ search' \in SearchRecord /\ search'.stage = "done" /\ search'.evaluations <= MaxEvaluations
        /\ search'.kind # "FOUND"
    BY <1>8, <1>11, EndedFacts DEF Kinds
  <2> QED
    BY <1>1, <1>5, <1>9, <2>1, DoneIsBounded, SearchStep
<1>12. CASE s.real /\ search' \in Found(p, x, s)
  <2>1. /\ search' \in SearchRecord /\ search'.stage = "done" /\ search'.evaluations <= MaxEvaluations
        /\ search'.lower = l /\ search'.upper = u
        /\ search'.kind = "FOUND" => search'.x = x /\ search'.exact = s.exact
    BY <1>6, <1>7, <1>8, <1>12, FoundFacts
  <2>2. search'.kind = "FOUND" => IsRoot(search)'
    BY <1>6, <1>9, <1>10, <1>12, <2>1 DEF IsRoot, Known, SignChange, Opposite, SignOf
  <2> QED
    BY <1>1, <1>5, <1>9, <2>1, <2>2, DoneIsBounded, SearchStep
<1>13. ASSUME s.real, ~s.exact
       PROVE  /\ Known(x, FALSE)'
              /\ SignOf(s) = search.left => SignChange(x, u)'
              /\ SignOf(s) # search.left => SignChange(l, x)'
  <2>1. s.exact = FALSE /\ SignOf(s) \in {-1, 1}
    BY <1>3, <1>7, <1>13, SampleFacts
  <2>2. SignOf(f[l]) \in {-1, 1} /\ SignOf(f[u]) \in {-1, 1} /\ SignOf(f[l]) # SignOf(f[u])
    <3>1. f[l] \in Samples /\ f[u] \in Samples
      BY <1>5 DEF Drawable, SignChange, Known
    <3>2. SignOf(f[l]) # 0 /\ SignOf(f[u]) # 0 /\ SignOf(f[l]) # SignOf(f[u])
      BY <1>5 DEF SignChange, Opposite
    <3> QED
      BY <3>1, <3>2, SampleFacts
  <2>3. Known(x, FALSE)' /\ Known(l, FALSE)' /\ Known(u, FALSE)'
    BY <1>9, <1>10, <1>13, <2>1 DEF Known, SignChange
  <2>4. f'[x].real /\ f'[l].real /\ f'[u].real
    BY <2>3 DEF Known
  <2>5. SignOf(s) = search.left => Opposite(f'[x], f'[u])
    BY <1>5, <1>9, <1>10, <2>1, <2>2, <2>4 DEF Opposite
  <2>6. SignOf(s) # search.left => Opposite(f'[l], f'[x])
    BY <1>5, <1>9, <1>10, <2>1, <2>2, <2>4 DEF Opposite
  <2> QED
    BY <1>6, <2>3, <2>5, <2>6 DEF SignChange, Opposite, SignOf
<1>14. CASE /\ s.real /\ ~s.exact /\ SignOf(s) = search.left
            /\ search' = [p EXCEPT !.lower = x, !.left = SignOf(s)]
  <2>1. PICK n \in Int : n = SignOf(s)
    BY <1>7, SampleFacts
  <2>2. search' = [p EXCEPT !.lower = x, !.left = n]
    BY <1>14, <2>1
  <2>3. /\ search' \in SearchRecord /\ search'.stage = "halving" /\ search'.kind # "FOUND"
        /\ search'.lower = x /\ search'.upper = u /\ search'.left = n /\ search'.right = search.right
        /\ search'.iterations = p.iterations /\ search'.evaluations = p.evaluations
    BY <1>6, <1>8, <2>1, <2>2 DEF SearchRecord
  <2>4. Bounded'
    BY <1>5, <1>6, <1>8, <1>9, <1>10, <1>13, <1>14, <2>1, <2>3, NarrowedIsBounded
  <2> QED
    BY <1>1, <1>5, <1>9, <2>3, <2>4, SearchStep
<1>15. CASE /\ s.real /\ ~s.exact /\ SignOf(s) # search.left
            /\ search' = [p EXCEPT !.upper = x, !.right = SignOf(s)]
  <2>1. PICK n \in Int : n = SignOf(s)
    BY <1>7, SampleFacts
  <2>2. search' = [p EXCEPT !.upper = x, !.right = n]
    BY <1>15, <2>1
  <2>3. /\ search' \in SearchRecord /\ search'.stage = "halving" /\ search'.kind # "FOUND"
        /\ search'.lower = l /\ search'.upper = x /\ search'.left = search.left /\ search'.right = n
        /\ search'.iterations = p.iterations /\ search'.evaluations = p.evaluations
    BY <1>6, <1>8, <2>1, <2>2 DEF SearchRecord
  <2>4. Bounded'
    BY <1>5, <1>6, <1>8, <1>9, <1>10, <1>13, <1>15, <2>1, <2>3, NarrowedIsBounded
  <2> QED
    BY <1>1, <1>5, <1>9, <2>3, <2>4, SearchStep
<1> QED
  BY <1>3, <1>11, <1>12, <1>14, <1>15

(* Two known samples of opposite signs are a change of sign. *)
LEMMA SignChangeNext ==
  ASSUME NEW a, NEW b, a < b, Known(a, FALSE)', Known(b, FALSE)', Opposite(f'[a], f'[b])
  PROVE  SignChange(a, b)'
BY DEF SignChange, Opposite, SignOf

(* The points around one whose sample tells nothing replace both bounds. *)
LEMMA QuarterStep ==
  ASSUME RootsInv, Quarter
  PROVE  RootsInv'
<1>1. Searching("halving") /\ MayIterate /\ scan' = scan
  BY DEF Quarter
<1>2. PICK x \in Proposed : \E s \in Sampled(x) :
        LET low == Middle(search.lower, x)
            high == Middle(x, search.upper)
            probed == [search EXCEPT !.iterations = @ + 1, !.evaluations = @ + 3]
        IN  /\ s.real /\ ~s.exact /\ s.value = 0
            /\ \E a \in Sampled(low), b \in Sampled(high) :
                 LET apart == SignOf(a) # 0 /\ SignOf(b) # 0 /\ SignOf(a) # SignOf(b)
                 IN  /\ f' = Remembered(Remembered(Remembered(f, x, s), low, a), high, b)
                     /\ search' \in IF ~a.real \/ ~b.real THEN {Ended(probed, "DOMAIN_GAP")}
                                    ELSE IF ~apart THEN {Ended(probed, "PRECISION_LIMIT")}
                                    ELSE IF Acceptable(s) THEN Found(probed, x, s)
                                    ELSE {[probed EXCEPT !.lower = low, !.left = SignOf(a),
                                                         !.upper = high, !.right = SignOf(b)]}
  BY DEF Quarter
<1>3. PICK low, high, l, u : /\ low = Middle(search.lower, x) /\ high = Middle(x, search.upper)
                             /\ l = search.lower /\ u = search.upper
  OBVIOUS
<1>16. PICK p : p = [search EXCEPT !.iterations = @ + 1, !.evaluations = @ + 3]
  OBVIOUS
<1>4. PICK s \in Sampled(x) :
         /\ p = [search EXCEPT !.iterations = @ + 1, !.evaluations = @ + 3]
         /\ s.real /\ ~s.exact
         /\ \E a \in Sampled(low), b \in Sampled(high) :
              LET apart == SignOf(a) # 0 /\ SignOf(b) # 0 /\ SignOf(a) # SignOf(b)
              IN  /\ f' = Remembered(Remembered(Remembered(f, x, s), low, a), high, b)
                  /\ search' \in IF ~a.real \/ ~b.real THEN {Ended(p, "DOMAIN_GAP")}
                                 ELSE IF ~apart THEN {Ended(p, "PRECISION_LIMIT")}
                                 ELSE IF Acceptable(s) THEN Found(p, x, s)
                                 ELSE {[p EXCEPT !.lower = low, !.left = SignOf(a),
                                                 !.upper = high, !.right = SignOf(b)]}
  BY <1>2, <1>3, <1>16, ZenonT(60)
<1>5. s.real /\ ~s.exact
  BY <1>4
<1>6. PICK a \in Sampled(low), b \in Sampled(high) :
        /\ f' = Remembered(Remembered(Remembered(f, x, s), low, a), high, b)
        /\ \/ search' = Ended(p, "DOMAIN_GAP")
           \/ search' = Ended(p, "PRECISION_LIMIT")
           \/ search' \in Found(p, x, s)
           \/ /\ a.real /\ b.real /\ SignOf(a) # 0 /\ SignOf(b) # 0 /\ SignOf(a) # SignOf(b)
              /\ search' = [p EXCEPT !.lower = low, !.left = SignOf(a),
                                     !.upper = high, !.right = SignOf(b)]
  BY <1>4
<1>7. /\ search # NoSearch /\ search \in SearchRecord /\ Drawable(f)
      /\ l \in Int /\ u \in Int /\ SignChange(l, u)
  BY <1>1, <1>3, HalvingFacts
<1>8. /\ x \in Int /\ low \in Int /\ high \in Int
      /\ l < low /\ low < x /\ x < high /\ high < u
      /\ high - low >= Room[MaxIterations - (search.iterations + 1)]
  <2>1. x \in Proposed
    BY <1>2
  <2> QED
    BY <1>1, <1>3, <2>1, ProposedFacts
<1>9. /\ s \in Samples /\ a \in Samples /\ b \in Samples
      /\ Fits(f, x, s) /\ Fits(f, low, a) /\ Fits(f, high, b)
  BY <1>7, SampledFacts
<1>10. /\ p \in SearchRecord /\ p.stage = "halving" /\ p.kind # "FOUND"
      /\ p.lower = l /\ p.upper = u
      /\ p.iterations = search.iterations + 1 /\ p.iterations <= MaxIterations
      /\ p.evaluations <= MaxEvaluations
  <2>1. p = [search EXCEPT !.iterations = @ + 1, !.evaluations = @ + 3]
    BY <1>4
  <2>2. /\ search.evaluations \in Nat /\ search.evaluations < MaxEvaluations - 3
        /\ MaxEvaluations \in Nat /\ MaxIterations \in Nat
        /\ search.iterations \in Nat /\ search.iterations < MaxIterations
        /\ search.stage = "halving" /\ search.kind # "FOUND"
    BY <1>1, HalvingFacts
  <2>3. PICK i \in Nat, e \in Nat : /\ i = search.iterations + 1 /\ e = search.evaluations + 3
                                    /\ i <= MaxIterations /\ e <= MaxEvaluations
    BY <2>2
  <2>4. p = [search EXCEPT !.iterations = i, !.evaluations = e]
    BY <2>1, <2>3
  <2> QED
    BY <1>3, <1>7, <2>2, <2>3, <2>4 DEF SearchRecord
<1>11. /\ Drawable(f') /\ Kept(f, f')
      /\ low \in DOMAIN f' /\ f'[low] = a /\ high \in DOMAIN f' /\ f'[high] = b
  <2>1. PICK g, h : g = Remembered(f, x, s) /\ h = Remembered(g, low, a) /\ f' = Remembered(h, high, b)
    BY <1>6
  <2>2. low # x /\ high # x /\ high # low
    BY <1>8
  <2>3. Drawable(g) /\ Kept(f, g) /\ Fits(g, low, a) /\ Fits(g, high, b)
    BY <1>7, <1>9, <2>1, <2>2, RememberedKeeps
  <2>4. Drawable(h) /\ Kept(g, h) /\ low \in DOMAIN h /\ h[low] = a /\ Fits(h, high, b)
    BY <1>9, <2>1, <2>2, <2>3, RememberedKeeps
  <2>5. Drawable(f') /\ Kept(h, f') /\ high \in DOMAIN f' /\ f'[high] = b
    BY <1>9, <2>1, <2>4, RememberedKeeps
  <2> QED
    BY <2>3, <2>4, <2>5 DEF Kept
<1>12. SignChange(l, u)'
  BY <1>7, <1>11, KnownStays
<1>13. CASE search' = Ended(p, "DOMAIN_GAP") \/ search' = Ended(p, "PRECISION_LIMIT")
  <2>1. /\ search' \in SearchRecord /\ search'.stage = "done" /\ search'.evaluations <= MaxEvaluations
        /\ search'.kind # "FOUND"
    BY <1>10, <1>13, EndedFacts DEF Kinds
  <2> QED
    BY <1>1, <1>7, <1>11, <2>1, DoneIsBounded, SearchStep
<1>14. CASE search' \in Found(p, x, s)
  <2>1. /\ search' \in SearchRecord /\ search'.stage = "done" /\ search'.evaluations <= MaxEvaluations
        /\ search'.lower = l /\ search'.upper = u
        /\ search'.kind = "FOUND" => search'.x = x /\ search'.exact = s.exact
    BY <1>8, <1>9, <1>10, <1>14, FoundFacts
  <2>2. search'.kind = "FOUND" => IsRoot(search)'
    <3>1. l < x /\ x < u
      BY <1>7, <1>8
    <3> QED
      BY <1>5, <1>12, <2>1, <3>1 DEF IsRoot, Known, SignChange, Opposite, SignOf
  <2> QED
    BY <1>1, <1>7, <1>11, <2>1, <2>2, DoneIsBounded, SearchStep
<1>15. CASE /\ a.real /\ b.real /\ SignOf(a) # 0 /\ SignOf(b) # 0 /\ SignOf(a) # SignOf(b)
            /\ search' = [p EXCEPT !.lower = low, !.left = SignOf(a),
                                   !.upper = high, !.right = SignOf(b)]
  <2>1. PICK m \in Int, n \in Int : m = SignOf(a) /\ n = SignOf(b)
    BY <1>9, SampleFacts
  <2>2. search' = [p EXCEPT !.lower = low, !.left = m, !.upper = high, !.right = n]
    BY <1>15, <2>1
  <2>3. /\ search' \in SearchRecord /\ search'.stage = "halving" /\ search'.kind # "FOUND"
        /\ search'.lower = low /\ search'.upper = high /\ search'.left = m /\ search'.right = n
        /\ search'.iterations = p.iterations /\ search'.evaluations = p.evaluations
    BY <1>8, <1>10, <2>1, <2>2 DEF SearchRecord
  <2>4. a.exact = FALSE /\ b.exact = FALSE
    BY <1>9, <1>15, SampleFacts
  <2>5. Known(low, FALSE)' /\ Known(high, FALSE)'
    BY <1>11, <1>15, <2>4 DEF Known
  <2>6. Opposite(f'[low], f'[high])
    BY <1>11, <1>15 DEF Opposite
  <2>7. SignChange(low, high)'
    <3>1. low < high
      BY <1>8
    <3>2. Known(low, FALSE)' /\ Known(high, FALSE)'
      BY <2>5
    <3>3. Opposite(f'[low], f'[high])
      BY <2>6
    <3> QED
      BY <3>1, <3>2, <3>3, SignChangeNext
  <2>8. Bounded'
    BY <1>8, <1>10, <1>11, <2>1, <2>3, <2>7, NarrowedIsBounded
  <2> QED
    BY <1>1, <1>7, <1>11, <2>3, <2>8, SearchStep
<1> QED
  BY <1>6, <1>13, <1>14, <1>15

-----------------------------------------------------------------------------
(* A set of numbers up to n has a greatest one. *)
LEMMA GreatestNumber ==
  ASSUME NEW n \in Nat, NEW S, S \subseteq 1 .. n, S # {}
  PROVE  \E m \in S : \A k \in S : k <= m
<1> DEFINE T == {n - k : k \in S}
<1>1. T \subseteq Nat /\ T # {}
  <2>1. \A k \in S : n - k \in Nat
    OBVIOUS
  <2> QED
    BY <2>1
<1>2. PICK t \in T : \A u \in T : t <= u
  BY <1>1, LeastNumber
<1>3. PICK m \in S : t = n - m
  OBVIOUS
<1>4. ASSUME NEW k \in S PROVE k <= m
  <2>1. n - k \in T
    OBVIOUS
  <2>2. n - m <= n - k
    BY <1>2, <1>3, <2>1
  <2> QED
    BY <2>2
<1> QED
  BY <1>4

(* The roots that are not beyond one, and the last of them. *)
NotBeyond(q, root) == {k \in DOMAIN q : q[k].x <= root.x}
LastIn(b) == IF b = {} THEN 0 ELSE CHOOSE k \in b : \A j \in b : j <= k

(* The place of a root: behind all that are not beyond it. *)
LEMMA PlaceFacts ==
  ASSUME NEW q \in Seq(Root), NEW root \in Root, NEW p, p = LastIn(NotBeyond(q, root))
  PROVE  /\ p \in 0 .. Len(q)
         /\ p # 0 => q[p].x <= root.x
         /\ p < Len(q) => root.x < q[p + 1].x
<1>1. Len(q) \in Nat /\ DOMAIN q = 1 .. Len(q)
  OBVIOUS
<1>2. root.x \in Int /\ \A k \in 1 .. Len(q) : q[k].x \in Int
  <2>1. \A k \in 1 .. Len(q) : q[k] \in Root
    BY ElementOfSeq
  <2> QED
    BY <2>1 DEF Root
<1>6. PICK before : before = NotBeyond(q, root)
  OBVIOUS
<1>3. before \subseteq 1 .. Len(q) /\ \A k \in 1 .. Len(q) : k \in before <=> q[k].x <= root.x
  BY <1>1, <1>6 DEF NotBeyond
<1>4. CASE before = {}
  <2>1. p = 0
    BY <1>4, <1>6 DEF LastIn
  <2>2. 1 \in 1 .. Len(q) => ~(q[1].x <= root.x)
    BY <1>3, <1>4
  <2>3. ASSUME p < Len(q) PROVE root.x < q[p + 1].x
    <3>1. 1 \in 1 .. Len(q) /\ p + 1 = 1
      BY <1>1, <2>1, <2>3
    <3>2. q[1].x \in Int /\ ~(q[1].x <= root.x)
      BY <1>2, <2>2, <3>1
    <3> QED
      BY <1>2, <3>1, <3>2
  <2> QED
    BY <1>1, <2>1, <2>3
<1>5. CASE before # {}
  <2>1. \E m \in before : \A k \in before : k <= m
    BY <1>1, <1>3, <1>5, GreatestNumber
  <2>2. p \in before /\ \A j \in before : j <= p
    BY <1>5, <1>6, <2>1 DEF LastIn
  <2>3. p \in 1 .. Len(q) /\ q[p].x <= root.x
    BY <1>3, <2>2
  <2>4. p + 1 \notin before
    BY <2>2, <2>3
  <2>5. p < Len(q) => ~(q[p + 1].x <= root.x) /\ p + 1 \in 1 .. Len(q)
    BY <1>1, <1>3, <2>3, <2>4
  <2> QED
    BY <1>1, <1>2, <2>3, <2>5
<1> QED
  BY <1>4, <1>5

(* There the list stays in order. *)
LEMMA InsertedInOrder ==
  ASSUME NEW q \in Seq(Root), InOrder(q), NEW root \in Root, NEW p \in 0 .. Len(q),
         p # 0 => q[p].x < root.x, p < Len(q) => root.x < q[p + 1].x,
         NEW g, g = Inserted(q, p, root)
  PROVE  /\ g \in Seq(Root) /\ Len(g) = Len(q) + 1 /\ InOrder(g)
         /\ \A k \in 1 .. Len(g) : g[k] = root \/ \E j \in 1 .. Len(q) : g[k] = q[j]
<1>1. Len(q) \in Nat
  OBVIOUS
<1>2. /\ g \in Seq(Root) /\ Len(g) = Len(q) + 1
      /\ \A k \in 1 .. Len(q) + 1 :
           g[k] = IF k <= p THEN q[k] ELSE IF k = p + 1 THEN root ELSE q[k - 1]
  <2>1. g \in Seq(Root) /\ Len(g) = Len(q) + 1
    BY InsertedLength
  <2>2. /\ \A k \in 1 .. p : g[k] = q[k]
        /\ g[p + 1] = root
        /\ \A k \in p + 1 .. Len(q) : g[k + 1] = q[k]
    BY InsertedElements
  <2>3. ASSUME NEW k \in 1 .. Len(q) + 1
        PROVE  g[k] = IF k <= p THEN q[k] ELSE IF k = p + 1 THEN root ELSE q[k - 1]
    <3>1. CASE k <= p
      BY <1>1, <2>2, <3>1
    <3>2. CASE k = p + 1
      BY <1>1, <2>2, <3>2
    <3>3. CASE k > p + 1
      <4>1. k - 1 \in p + 1 .. Len(q) /\ (k - 1) + 1 = k
        BY <1>1, <3>3
      <4> QED
        BY <1>1, <2>2, <3>3, <4>1
    <3> QED
      BY <1>1, <3>1, <3>2, <3>3
  <2> QED
    BY <2>1, <2>3
<1>3. ASSUME NEW k \in 2 .. Len(g) PROVE g[k - 1].x < g[k].x
  <2>1. k \in 2 .. Len(q) + 1 /\ k - 1 \in 1 .. Len(q) + 1 /\ k \in 1 .. Len(q) + 1
    BY <1>1, <1>2
  <2>2. \A j \in 2 .. Len(q) : q[j - 1].x < q[j].x
    BY DEF InOrder
  <2>3. CASE k <= p
    <3>1. g[k - 1] = q[k - 1] /\ g[k] = q[k] /\ k \in 2 .. Len(q)
      BY <1>1, <1>2, <2>1, <2>3
    <3> QED
      BY <2>2, <3>1
  <2>4. CASE k = p + 1
    <3>1. g[k] = root /\ g[k - 1] = q[p] /\ p # 0
      BY <1>1, <1>2, <2>1, <2>4
    <3> QED
      BY <3>1
  <2>5. CASE k = p + 2
    <3>1. g[k - 1] = root /\ g[k] = q[p + 1] /\ p < Len(q)
      BY <1>1, <1>2, <2>1, <2>5
    <3> QED
      BY <3>1
  <2>6. CASE k > p + 2
    <3>1. g[k - 1] = q[k - 2] /\ g[k] = q[k - 1] /\ k - 1 \in 2 .. Len(q) /\ (k - 1) - 1 = k - 2
      BY <1>1, <1>2, <2>1, <2>6
    <3> QED
      BY <2>2, <3>1
  <2> QED
    BY <2>1, <2>3, <2>4, <2>5, <2>6
<1>4. ASSUME NEW k \in 1 .. Len(g) PROVE g[k] = root \/ \E j \in 1 .. Len(q) : g[k] = q[j]
  <2>1. k <= p => k \in 1 .. Len(q)
    BY <1>1, <1>2
  <2>2. k > p + 1 => k - 1 \in 1 .. Len(q)
    BY <1>1, <1>2
  <2> QED
    BY <1>1, <1>2, <2>1, <2>2
<1> QED
  BY <1>2, <1>3, <1>4 DEF InOrder

(* A root is listed in its place, once, if there is room for it. *)
LEMMA ListedFacts ==
  ASSUME NEW s \in ScanRecord, Len(s.roots) <= MaxRoots, InOrder(s.roots), NEW root \in Root,
         NEW t, t = Listed(s, root)
  PROVE  /\ t \in ScanRecord /\ t.stage = s.stage /\ t.i = s.i /\ t.brackets = s.brackets
         /\ t.tried = s.tried /\ t.evaluations = s.evaluations
         /\ t.stop = s.stop \/ t.stop = "ROOT_LIMIT"
         /\ Len(t.roots) <= MaxRoots /\ InOrder(t.roots)
         /\ \A k \in 1 .. Len(t.roots) :
              t.roots[k] = root \/ \E j \in 1 .. Len(s.roots) : t.roots[k] = s.roots[j]
<1>1. MaxRoots \in Nat
  BY RootAssumption
<1>2. s.roots \in Seq(Root)
  BY DEF ScanRecord
<1>3. CASE Len(s.roots) >= MaxRoots
  <2>1. t = [s EXCEPT !.stop = "ROOT_LIMIT"]
    BY <1>3 DEF Listed
  <2> QED
    BY <2>1, SMTT(60) DEF ScanRecord, Stops
<1>4. CASE ~(Len(s.roots) >= MaxRoots)
  <2>1. PICK p : p = LastIn(NotBeyond(s.roots, root))
    OBVIOUS
  <2>2. /\ p \in 0 .. Len(s.roots)
        /\ p # 0 => s.roots[p].x <= root.x
        /\ p < Len(s.roots) => root.x < s.roots[p + 1].x
    BY <1>2, <2>1, PlaceFacts
  <2>3. t = IF LastIn(NotBeyond(s.roots, root)) # 0 /\ s.roots[LastIn(NotBeyond(s.roots, root))].x = root.x
            THEN s
            ELSE [s EXCEPT !.roots = Inserted(s.roots, LastIn(NotBeyond(s.roots, root)), root),
                           !.stop = IF Len(Inserted(s.roots, LastIn(NotBeyond(s.roots, root)), root)) = MaxRoots
                                    THEN "ROOT_LIMIT" ELSE @]
    BY <1>4, Zenon DEF Listed, Inserted, LastIn, NotBeyond
  <2>4. t = IF p # 0 /\ s.roots[p].x = root.x THEN s
            ELSE [s EXCEPT !.roots = Inserted(s.roots, p, root),
                           !.stop = IF Len(Inserted(s.roots, p, root)) = MaxRoots THEN "ROOT_LIMIT" ELSE @]
    BY <2>1, <2>3, Zenon
  <2>5. CASE p # 0 /\ s.roots[p].x = root.x
    <3>1. t = s
      BY <2>4, <2>5
    <3> QED
      BY <3>1
  <2>6. CASE ~(p # 0 /\ s.roots[p].x = root.x)
    <3>1. PICK g : g = Inserted(s.roots, p, root)
      OBVIOUS
    <3>2. p # 0 => s.roots[p].x < root.x
      <4>1. p # 0 => s.roots[p] \in Root
        BY <1>2, <2>2, ElementOfSeq
      <4> QED
        BY <2>2, <2>6, <4>1 DEF Root
    <3>3. /\ g \in Seq(Root) /\ Len(g) = Len(s.roots) + 1 /\ InOrder(g)
          /\ \A k \in 1 .. Len(g) : g[k] = root \/ \E j \in 1 .. Len(s.roots) : g[k] = s.roots[j]
      BY <1>2, <2>2, <3>1, <3>2, InsertedInOrder
    <3>4. PICK stop \in Stops : /\ stop = s.stop \/ stop = "ROOT_LIMIT"
                                /\ stop = IF Len(g) = MaxRoots THEN "ROOT_LIMIT" ELSE s.stop
      BY DEF ScanRecord, Stops
    <3>5. t = [s EXCEPT !.roots = g, !.stop = stop]
      BY <2>4, <2>6, <3>1, <3>4
    <3>6. Len(g) <= MaxRoots
      BY <1>1, <1>2, <1>4, <3>3
    <3>7. /\ t \in ScanRecord /\ t.roots = g /\ t.stop = stop /\ t.stage = s.stage /\ t.i = s.i
          /\ t.brackets = s.brackets /\ t.tried = s.tried /\ t.evaluations = s.evaluations
      BY <3>3, <3>4, <3>5 DEF ScanRecord
    <3> QED
      BY <3>3, <3>4, <3>6, <3>7
  <2> QED
    BY <2>5, <2>6
<1> QED
  BY <1>3, <1>4

-----------------------------------------------------------------------------
(* The records and the constants of a scan. *)
LEMMA ScanFacts ==
  ASSUME RootsInv, scan # NoScan
  PROVE  /\ scan \in ScanRecord /\ ScanHolds /\ Drawable(f)
         /\ scan.i \in Nat /\ scan.i <= Segments /\ Segments \in Nat
         /\ scan.evaluations \in Nat /\ scan.evaluations <= MaxTotal /\ MaxTotal \in Nat
         /\ MaxEvaluations \in Nat /\ MaxRoots \in Nat
         /\ scan.roots \in Seq(Root) /\ Len(scan.roots) <= MaxRoots /\ InOrder(scan.roots)
         /\ \A k \in 1 .. Len(scan.roots) : IsRoot(scan.roots[k])
         /\ scan.brackets \in Seq(Bracket)
         /\ Reached \in Int
         /\ scan.stage # "grid" => Reached = scan.i
<1>1. scan \in ScanRecord /\ ScanHolds /\ Drawable(f)
  BY DEF RootsInv, RootsTyped
<1>2. Segments \in Nat /\ MaxTotal \in Nat /\ MaxEvaluations \in Nat /\ MaxRoots \in Nat
  BY RootAssumption
<1>3. Reached \in Int /\ (scan.stage # "grid" => Reached = scan.i)
  BY <1>1 DEF Reached, ScanRecord
<1> QED
  BY <1>1, <1>2, <1>3 DEF ScanHolds, ScanRecord

(* The distance of two samples of the grid. *)
LEMMA GridFacts ==
  /\ Step \in Nat /\ Room[MaxIterations] \in Nat /\ Room[MaxIterations] >= 2
  /\ Step >= 4 * Room[MaxIterations]
  /\ \A i \in Int : Grid(i) \in Int /\ Grid(i + 1) = Grid(i) + Step /\ Grid(i - 1) = Grid(i) - Step
<1>1. Step \in Nat /\ MaxIterations \in Nat /\ Step >= 4 * Room[MaxIterations]
  BY RootAssumption
<1>2. Room[MaxIterations] \in Nat /\ Room[MaxIterations] >= 2
  BY <1>1, RoomEnough
<1>3. ASSUME NEW i \in Int
      PROVE  Grid(i) \in Int /\ Grid(i + 1) = Grid(i) + Step /\ Grid(i - 1) = Grid(i) - Step
  BY <1>1 DEF Grid
<1> QED
  BY <1>1, <1>2, <1>3

(* A crossing that there is between old samples was dealt with before. *)
LEMMA OldCrossings ==
  ASSUME RootsInv, scan # NoScan, Kept(f, f'), scan.stop = "FINISHED",
         NEW i \in 0 .. Segments, NEW j \in 0 .. Reached, Crossing(i, j)'
  PROVE  \/ Over(i, j) \in scan.tried
         \/ /\ scan.stage = "brackets"
            /\ \E k \in 1 .. Len(scan.brackets) : scan.brackets[k] = Over(i, j)
<1>1. Segments \in Nat /\ Reached \in Int /\ ScanHolds
  BY ScanFacts
<1>2. i \in 0 .. Reached /\ i + 1 \in 0 .. Reached
  <2>1. i \in Nat /\ j \in Nat
    BY <1>1
  <2>2. j = i + 1 \/ j = i + 2
    BY DEF Crossing
  <2> QED
    BY <1>1, <2>1, <2>2
<1>3. Crossing(i, j)
  BY <1>1, <1>2, CrossingStays DEF ScanHolds
<1> QED
  BY <1>1, <1>3 DEF ScanHolds, Thorough

(* The scan has not reached the sample it takes, and all before it. *)
LEMMA ReachedFacts ==
  ASSUME RootsInv, scan # NoScan, NEW k \in 0 .. scan.i
  PROVE  k \in 0 .. Reached \/ (scan.stage = "grid" /\ k = scan.i)
<1>1. PICK n \in Nat : n = scan.i
  BY ScanFacts
<1>2. CASE scan.stage = "grid"
  <2>1. Reached = n - 1
    BY <1>1, <1>2 DEF Reached
  <2>2. k \in 0 .. n - 1 \/ k = n
    BY <1>1
  <2> QED
    BY <1>1, <1>2, <2>1, <2>2
<1>3. CASE scan.stage # "grid"
  BY <1>3 DEF Reached
<1> QED
  BY <1>2, <1>3

(* A scan that has run out of samples stops, and says so. *)
LEMMA StoppedStep ==
  ASSUME RootsInv, scan # NoScan, search = NoSearch, search' = search, f' = f,
         scan' = Stopped(scan, "EVALUATION_LIMIT")
  PROVE  RootsInv'
<1>1. scan' \in ScanRecord /\ scan'.stage = "done" /\ scan'.stop # "FINISHED" /\ scan'.i = scan.i
      /\ scan'.roots = scan.roots /\ scan'.brackets = scan.brackets /\ scan'.evaluations = scan.evaluations
  BY ScanFacts DEF Stopped, ScanRecord, Stops
<1>2. \A k \in 1 .. Len(scan.roots) : IsRoot(scan.roots[k])'
  <2>1. Kept(f, f')
    BY DEF Kept
  <2> QED
    BY <1>1, <2>1, KnownStays, ScanFacts
<1>3. ScanHolds'
  BY <1>1, <1>2, ScanFacts DEF ScanHolds, Thorough, InOrder, Wide
<1> QED
  BY <1>1, <1>3, ScanFacts DEF RootsInv, RootsTyped, Bounded, Drawable

(* A scan that has taken one sample more, and is not done with this cell. *)
LEMMA GrownStep ==
  ASSUME RootsInv, scan # NoScan, search = NoSearch, search' = search,
         Drawable(f'), Kept(f, f'), scan.stage \in {"grid", "middle", "vertex"},
         scan' \in ScanRecord, scan'.i = scan.i, scan'.tried = scan.tried,
         scan'.stage \in {"middle", "vertex", "brackets", "advance"},
         scan'.stage \in {"middle", "vertex"} => scan.i > 0,
         scan'.evaluations <= MaxTotal,
         scan'.stop = scan.stop \/ scan'.stop = "ROOT_LIMIT",
         Len(scan'.roots) <= MaxRoots, InOrder(scan'.roots),
         \A k \in 1 .. Len(scan'.roots) : IsRoot(scan.roots[k])',
         \A k \in 1 .. Len(scan'.brackets) : Wide(scan'.brackets[k]),
         Grid(scan.i) \in DOMAIN f',
         scan.stage = "grid" =>
           \A i \in 0 .. Segments : Crossing(i, scan.i)' =>
             /\ scan'.stage = "brackets"
             /\ \E k \in 1 .. Len(scan'.brackets) : scan'.brackets[k] = Over(i, scan.i)
  PROVE  RootsInv'
<1>1. Reached' = scan.i
  BY DEF Reached
<1>5. \A k \in 0 .. scan.i : k \in 0 .. Reached \/ (scan.stage = "grid" /\ k = scan.i)
  BY ReachedFacts
<1>2. \A k \in 0 .. scan.i : Grid(k) \in DOMAIN f'
  <2>1. \A k \in 0 .. Reached : Grid(k) \in DOMAIN f'
    BY ScanFacts DEF ScanHolds, Kept
  <2> QED
    BY <1>5, <2>1
<1>3. Thorough'
  <2> SUFFICES ASSUME scan'.stop = "FINISHED", NEW i \in 0 .. Segments, NEW j \in 0 .. scan.i,
                      Crossing(i, j)'
               PROVE  \/ Over(i, j) \in scan'.tried
                      \/ /\ scan'.stage = "brackets"
                         /\ \E k \in 1 .. Len(scan'.brackets) : scan'.brackets[k] = Over(i, j)
    BY <1>1 DEF Thorough, Over, Grid
  <2>1. scan.stop = "FINISHED"
    OBVIOUS
  <2>2. j \in 0 .. Reached \/ (scan.stage = "grid" /\ j = scan.i)
    BY <1>5
  <2>3. CASE j \in 0 .. Reached
    BY <2>1, <2>3, OldCrossings
  <2>4. CASE scan.stage = "grid" /\ j = scan.i
    BY <2>4
  <2> QED
    BY <2>2, <2>3, <2>4
<1>4. ScanHolds'
  BY <1>1, <1>2, <1>3, ScanFacts DEF ScanHolds, Wide, InOrder
<1> QED
  BY <1>4, ScanFacts DEF RootsInv, RootsTyped, Bounded, Drawable

(* The scan with n samples more, and with a root if the sample x is one. *)
Counted(s, n) == s = [scan EXCEPT !.evaluations = @ + n]
Taken(s, t, x, sample) == t = s \/ (sample.exact /\ t = Listed(s, Exactly(x)))

(* A scan that counts more samples is otherwise as it was. *)
LEMMA CountedFacts ==
  ASSUME RootsInv, scan # NoScan, NEW n \in Nat, scan.evaluations + n <= MaxTotal,
         NEW s, Counted(s, n)
  PROVE  /\ s \in ScanRecord /\ s.stage = scan.stage /\ s.i = scan.i /\ s.brackets = scan.brackets
         /\ s.tried = scan.tried /\ s.evaluations <= MaxTotal /\ s.stop = scan.stop
         /\ s.roots = scan.roots
<1>1. PICK m \in Nat : m = scan.evaluations + n /\ m <= MaxTotal
  BY ScanFacts
<1>2. s = [scan EXCEPT !.evaluations = m] /\ scan \in ScanRecord
  BY <1>1, ScanFacts DEF Counted
<1> QED
  BY <1>1, <1>2 DEF ScanRecord

(* A list of roots and one more root. *)
LEMMA ListedRoots ==
  ASSUME NEW s \in ScanRecord, Len(s.roots) <= MaxRoots, InOrder(s.roots), NEW root \in Root,
         \A k \in 1 .. Len(s.roots) : IsRoot(s.roots[k])', IsRoot(root)',
         NEW t, t = Listed(s, root)
  PROVE  /\ t \in ScanRecord /\ t.stage = s.stage /\ t.i = s.i /\ t.brackets = s.brackets
         /\ t.tried = s.tried /\ t.evaluations = s.evaluations
         /\ t.stop = s.stop \/ t.stop = "ROOT_LIMIT"
         /\ Len(t.roots) <= MaxRoots /\ InOrder(t.roots)
         /\ \A k \in 1 .. Len(t.roots) : IsRoot(t.roots[k])'
<1>1. /\ t \in ScanRecord /\ t.stage = s.stage /\ t.i = s.i /\ t.brackets = s.brackets
      /\ t.tried = s.tried /\ t.evaluations = s.evaluations
      /\ t.stop = s.stop \/ t.stop = "ROOT_LIMIT"
      /\ Len(t.roots) <= MaxRoots /\ InOrder(t.roots)
      /\ \A k \in 1 .. Len(t.roots) :
           t.roots[k] = root \/ \E j \in 1 .. Len(s.roots) : t.roots[k] = s.roots[j]
  BY ListedFacts
<1>2. \A k \in 1 .. Len(t.roots) : IsRoot(t.roots[k])'
  BY <1>1
<1> QED
  BY <1>1, <1>2

(* One sample more, of which a root is listed if it is an exact zero. *)
LEMMA TakenFacts ==
  ASSUME RootsInv, scan # NoScan, NEW x \in Int, NEW sample \in Sampled(x),
         scan.evaluations < MaxTotal, f' = Remembered(f, x, sample),
         NEW s, Counted(s, 1), NEW t, Taken(s, t, x, sample)
  PROVE  /\ sample \in Samples /\ Drawable(f') /\ Kept(f, f') /\ x \in DOMAIN f' /\ f'[x] = sample
         /\ s \in ScanRecord /\ s.i = scan.i /\ s.roots = scan.roots
         /\ t \in ScanRecord /\ t.stage = scan.stage /\ t.i = scan.i /\ t.brackets = scan.brackets
         /\ t.tried = scan.tried /\ t.evaluations <= MaxTotal
         /\ t.stop = scan.stop \/ t.stop = "ROOT_LIMIT"
         /\ Len(t.roots) <= MaxRoots /\ InOrder(t.roots)
         /\ \A k \in 1 .. Len(t.roots) : IsRoot(t.roots[k])'
<1>1. sample \in Samples /\ Drawable(f') /\ Kept(f, f') /\ x \in DOMAIN f' /\ f'[x] = sample
  BY ScanFacts, SampledFacts, RememberedKeeps
<1>2. /\ s \in ScanRecord /\ s.stage = scan.stage /\ s.i = scan.i /\ s.brackets = scan.brackets
      /\ s.tried = scan.tried /\ s.evaluations <= MaxTotal /\ s.stop = scan.stop /\ s.roots = scan.roots
  <2>1. scan.evaluations + 1 <= MaxTotal
    BY ScanFacts
  <2> QED
    BY <2>1, CountedFacts
<1>3. \A k \in 1 .. Len(s.roots) : IsRoot(s.roots[k])'
  <2>1. \A r : IsRoot(r) => IsRoot(r)'
    BY <1>1, KnownStays
  <2> QED
    BY <1>2, <2>1, ScanFacts
<1>4. Len(s.roots) <= MaxRoots /\ InOrder(s.roots)
  BY <1>2, ScanFacts
<1>5. CASE t = s
  BY <1>1, <1>2, <1>3, <1>4, <1>5
<1>6. CASE sample.exact /\ t = Listed(s, Exactly(x))
  <2>1. PICK root : root = Exactly(x)
    OBVIOUS
  <2>2. root \in Root /\ root.x = x /\ root.exact
    BY <2>1 DEF Exactly, Root
  <2>3. IsRoot(root)'
    BY <1>1, <1>6, <2>2, SampleFacts DEF IsRoot, Known
  <2>4. /\ t \in ScanRecord /\ t.stage = s.stage /\ t.i = s.i /\ t.brackets = s.brackets
        /\ t.tried = s.tried /\ t.evaluations = s.evaluations
        /\ t.stop = s.stop \/ t.stop = "ROOT_LIMIT"
        /\ Len(t.roots) <= MaxRoots /\ InOrder(t.roots)
        /\ \A k \in 1 .. Len(t.roots) : IsRoot(t.roots[k])'
    <3>1. t = Listed(s, root) /\ s \in ScanRecord /\ root \in Root
      BY <1>2, <1>6, <2>1, <2>2
    <3> QED
      BY <1>3, <1>4, <2>3, <3>1, ListedRoots
  <2> QED
    BY <1>1, <1>2, <2>4
<1> QED
  BY <1>5, <1>6 DEF Taken

(* The bracket before a sample of the grid is as wide as the grid. *)
LEMMA BracketBeforeFacts ==
  ASSUME NEW i \in Nat, NEW sample, NEW b, b = BracketBefore(i, sample)
  PROVE  /\ b \in Seq(Bracket)
         /\ \A k \in 1 .. Len(b) : Wide(b[k])
         /\ b = <<>> \/ (b = <<Over(i - 1, i)>> /\ i # 0) \/ (b = <<Over(i - 2, i)>> /\ i >= 2)
<1>1. b = <<>> \/ (b = <<Over(i - 1, i)>> /\ i # 0) \/ (b = <<Over(i - 2, i)>> /\ i >= 2)
  BY DEF BracketBefore, Over
<1>2. PICK step \in Nat, w \in Nat : step = Step /\ w = Room[MaxIterations] /\ step >= 4 * w
  BY GridFacts
<1>3. PICK x \in Int, y \in Int, z \in Int : /\ x = Grid(i) /\ y = Grid(i - 1) /\ z = Grid(i - 2)
                                             /\ y = x - step /\ z = y - step
  <2>1. i \in Int /\ i - 1 \in Int /\ (i - 1) - 1 = i - 2
    OBVIOUS
  <2>2. Grid(i) \in Int /\ Grid(i - 1) = Grid(i) - step
    BY <1>2, <2>1, GridFacts
  <2>3. Grid(i - 1) \in Int /\ Grid(i - 2) = Grid(i - 1) - step
    BY <1>2, <2>1, GridFacts
  <2> QED
    BY <1>2, <2>2, <2>3
<1>4. /\ Over(i - 1, i) \in Bracket /\ Wide(Over(i - 1, i))
      /\ Over(i - 2, i) \in Bracket /\ Wide(Over(i - 2, i))
  BY <1>2, <1>3 DEF Over, Bracket, Wide
<1>5. CASE b = <<>>
  BY <1>5
<1>6. ASSUME NEW c \in Bracket, Wide(c), b = <<c>>
      PROVE  b \in Seq(Bracket) /\ \A k \in 1 .. Len(b) : Wide(b[k])
  BY <1>6
<1> QED
  BY <1>1, <1>4, <1>5, <1>6

(* A sample of the grid that ends a crossing gives its bracket. *)
LEMMA CrossingFound ==
  ASSUME NEW i \in Nat, NEW j \in Nat, Kept(f, f'), \A k \in 0 .. j - 1 : Grid(k) \in DOMAIN f,
         Crossing(i, j)', Grid(j) \in DOMAIN f', NEW sample, f'[Grid(j)] = sample
  PROVE  ~sample.exact /\ BracketBefore(j, sample) = <<Over(i, j)>>
<1>1. SignChange(Grid(i), Grid(j))'
  BY DEF Crossing, Grid
<1>2. Known(Grid(j), FALSE)' /\ Opposite(f'[Grid(i)], sample)
  BY <1>1 DEF SignChange, Grid, Opposite, SignOf
<1>3. ~sample.exact
  BY <1>2 DEF Known, Grid
<1>4. CASE j = i + 1
  <2>1. j - 1 = i /\ j # 0 /\ i \in 0 .. j - 1
    BY <1>4
  <2>2. Opposite(f[Grid(j - 1)], sample)
    BY <1>2, <2>1 DEF Kept
  <2> QED
    BY <1>3, <2>1, <2>2 DEF BracketBefore, Over
<1>5. CASE j = i + 2 /\ Known(Grid(i + 1), FALSE)' /\ SignOf(f'[Grid(i + 1)]) = 0
  <2>1. j - 1 = i + 1 /\ j - 2 = i /\ j # 0 /\ j >= 2 /\ i \in 0 .. j - 1 /\ i + 1 \in 0 .. j - 1
    BY <1>5
  <2>2. Opposite(f[Grid(j - 2)], sample)
    BY <1>2, <2>1 DEF Kept
  <2>3. f[Grid(j - 1)] = f'[Grid(i + 1)]
    BY <2>1 DEF Kept
  <2>4. f[Grid(j - 1)].real /\ ~f[Grid(j - 1)].exact /\ SignOf(f[Grid(j - 1)]) = 0
    BY <1>5, <2>3 DEF Known
  <2>5. ~Opposite(f[Grid(j - 1)], sample)
    BY <2>4 DEF Opposite
  <2> QED
    BY <1>3, <2>1, <2>2, <2>4, <2>5 DEF BracketBefore, Over
<1> QED
  BY <1>4, <1>5 DEF Crossing, Grid, Known, SignOf

(* A scan in another stage, and with other brackets. *)
Staged(t, r, to) == r = [t EXCEPT !.stage = to]
Handed(t, r, b) == r = [t EXCEPT !.stage = "brackets", !.brackets = b]

(* What that changes in it. *)
LEMMA StagedFacts ==
  ASSUME NEW t \in ScanRecord, NEW to \in {"grid", "middle", "vertex", "brackets", "advance", "done"},
         NEW b \in Seq(Bracket), NEW r, Staged(t, r, to) \/ (to = "brackets" /\ Handed(t, r, b))
  PROVE  /\ r \in ScanRecord /\ r.stage = to /\ r.i = t.i /\ r.tried = t.tried
         /\ r.evaluations = t.evaluations /\ r.stop = t.stop /\ r.roots = t.roots
         /\ r.brackets = t.brackets \/ r.brackets = b
         /\ Handed(t, r, b) => r.brackets = b
BY DEF ScanRecord, Staged, Handed

(* The next sample of the grid. *)
LEMMA SampleGridStep ==
  ASSUME RootsInv, SampleGrid
  PROVE  RootsInv'
<1>1. scan # NoScan /\ scan.stage = "grid" /\ search = NoSearch /\ search' = search
  BY DEF SampleGrid, Scanning
<1>2. CASE scan.evaluations >= MaxTotal
  BY <1>1, <1>2, StoppedStep DEF SampleGrid, Take
<1>3. CASE ~(scan.evaluations >= MaxTotal)
  <2>1. PICK sample \in Sampled(Grid(scan.i)) :
          /\ f' = Remembered(f, Grid(scan.i), sample)
          /\ scan' = AfterGrid([scan EXCEPT !.evaluations = @ + 1], sample)
    BY <1>3 DEF SampleGrid, Take
  <2>2. PICK s : s = [scan EXCEPT !.evaluations = @ + 1]
    OBVIOUS
  <2>3. scan' = AfterGrid(s, sample) /\ Counted(s, 1)
    BY <2>1, <2>2 DEF Counted
  <2>4. PICK t : t = IF sample.exact THEN Listed(s, Exactly(Grid(scan.i))) ELSE s
    OBVIOUS
  <2>5. Taken(s, t, Grid(scan.i), sample)
    BY <2>4 DEF Taken
  <2>6. PICK n \in Nat : n = scan.i /\ Grid(n) \in Int /\ scan.evaluations < MaxTotal
    <3>1. scan.i \in Nat /\ scan.i \in Int /\ scan.evaluations < MaxTotal
      BY <1>1, <1>3, ScanFacts
    <3> QED
      BY <3>1, GridFacts
  <2>7. /\ sample \in Samples /\ Drawable(f') /\ Kept(f, f') /\ Grid(n) \in DOMAIN f' /\ f'[Grid(n)] = sample
        /\ s \in ScanRecord /\ s.i = n
        /\ t \in ScanRecord /\ t.i = n /\ t.brackets = scan.brackets
        /\ t.tried = scan.tried /\ t.evaluations <= MaxTotal
        /\ t.stop = scan.stop \/ t.stop = "ROOT_LIMIT"
        /\ Len(t.roots) <= MaxRoots /\ InOrder(t.roots)
        /\ \A k \in 1 .. Len(t.roots) : IsRoot(t.roots[k])'
    BY <1>1, <2>1, <2>3, <2>5, <2>6, TakenFacts
  <2>8. PICK b : b = BracketBefore(n, sample)
    OBVIOUS
  <2>9. b \in Seq(Bracket) /\ \A k \in 1 .. Len(b) : Wide(b[k])
    BY <2>6, <2>8, BracketBeforeFacts
  <2>10. \A k \in 1 .. Len(scan.brackets) : Wide(scan.brackets[k])
    BY <1>1, ScanFacts DEF ScanHolds
  <2>11. \A i \in 0 .. Segments : Crossing(i, n)' => ~sample.exact /\ b = <<Over(i, n)>>
    <3>1. \A k \in 0 .. n - 1 : Grid(k) \in DOMAIN f
      BY <1>1, <2>6, ScanFacts DEF ScanHolds, Reached
    <3>2. \A i \in 0 .. Segments : i \in Nat
      BY <1>1, ScanFacts
    <3> QED
      BY <2>6, <2>7, <2>8, <3>1, <3>2, CrossingFound
  <2>12. PICK to \in {"advance", "brackets", "middle"} :
           /\ Staged(t, scan', to) \/ (to = "brackets" /\ Handed(t, scan', b))
           /\ ~sample.exact /\ b # <<>> => to = "brackets" /\ Handed(t, scan', b)
           /\ to = "middle" => n > 0
    <3>1. CASE sample.exact
      BY <2>3, <2>4, <2>6, <2>7, <3>1 DEF AfterGrid, Staged, Handed
    <3>2. CASE ~sample.exact /\ b # <<>>
      BY <2>3, <2>4, <2>7, <2>8, <3>2 DEF AfterGrid, Staged, Handed
    <3>3. CASE ~sample.exact /\ b = <<>>
      BY <2>3, <2>4, <2>7, <2>8, <3>3 DEF AfterGrid, Staged, Handed
    <3> QED
      BY <3>1, <3>2, <3>3
  <2>13. /\ scan' \in ScanRecord /\ scan'.stage = to /\ scan'.i = n /\ scan'.tried = scan.tried
         /\ scan'.evaluations <= MaxTotal /\ scan'.roots = t.roots
         /\ scan'.stop = scan.stop \/ scan'.stop = "ROOT_LIMIT"
         /\ scan'.brackets = scan.brackets \/ scan'.brackets = b
         /\ Handed(t, scan', b) => scan'.brackets = b
    BY <2>7, <2>9, <2>12, StagedFacts
  <2>14. \A i \in 0 .. Segments : Crossing(i, n)' =>
           /\ scan'.stage = "brackets"
           /\ \E k \in 1 .. Len(scan'.brackets) : scan'.brackets[k] = Over(i, n)
    <3>1. ASSUME NEW i \in 0 .. Segments, Crossing(i, n)', NEW o, o = Over(i, n)
          PROVE  /\ scan'.stage = "brackets"
                 /\ \E k \in 1 .. Len(scan'.brackets) : scan'.brackets[k] = o
      <4>1. ~sample.exact /\ b = <<o>>
        BY <2>11, <3>1
      <4>2. b # <<>> /\ 1 \in 1 .. Len(b) /\ b[1] = o
        BY <4>1
      <4>3. to = "brackets" /\ scan'.brackets = b
        BY <2>12, <2>13, <4>1, <4>2
      <4> QED
        BY <2>13, <4>2, <4>3
    <3> QED
      BY <3>1
  <2>15. \A k \in 1 .. Len(scan'.roots) : IsRoot(scan.roots[k])'
    BY <2>7, <2>13
  <2>16. \A k \in 1 .. Len(scan'.brackets) : Wide(scan'.brackets[k])
    BY <2>9, <2>10, <2>13
  <2> QED
    BY <1>1, <2>6, <2>7, <2>12, <2>13, <2>14, <2>15, <2>16, GrownStep
<1> QED
  BY <1>2, <1>3

(* A sample inside a cell, from which a search has room on both sides. *)
LEMMA ExtraStep ==
  ASSUME RootsInv, scan # NoScan, scan.stage \in {"middle", "vertex"},
         search = NoSearch, search' = search, scan.evaluations < MaxTotal,
         NEW x \in Int, x - Grid(scan.i - 1) >= Room[MaxIterations],
         Grid(scan.i) - x >= Room[MaxIterations],
         NEW next \in {"vertex", "advance"}, NEW sample \in Sampled(x), f' = Remembered(f, x, sample),
         NEW s, Counted(s, 1), scan' = AfterExtra(x, next, s, sample)
  PROVE  RootsInv'
<1>1. PICK t : t = IF sample.exact THEN Listed(s, Exactly(x)) ELSE s
  OBVIOUS
<1>2. Taken(s, t, x, sample)
  BY <1>1 DEF Taken
<1>3. PICK n \in Nat : n = scan.i /\ n > 0 /\ Grid(n) \in Int /\ Grid(n - 1) \in Int
  <2>1. scan.i \in Nat /\ scan.i > 0
    BY ScanFacts DEF ScanHolds
  <2>2. scan.i \in Int /\ scan.i - 1 \in Int
    BY <2>1
  <2> QED
    BY <2>1, <2>2, GridFacts
<1>4. /\ sample \in Samples /\ Drawable(f') /\ Kept(f, f')
      /\ s \in ScanRecord /\ s.i = n
      /\ t \in ScanRecord /\ t.i = n /\ t.brackets = scan.brackets
      /\ t.tried = scan.tried /\ t.evaluations <= MaxTotal
      /\ t.stop = scan.stop \/ t.stop = "ROOT_LIMIT"
      /\ Len(t.roots) <= MaxRoots /\ InOrder(t.roots)
      /\ \A k \in 1 .. Len(t.roots) : IsRoot(t.roots[k])'
  BY <1>2, <1>3, TakenFacts
<1>5. PICK b : b = Around(x)
  OBVIOUS
<1>6. b \in Seq(Bracket) /\ \A k \in 1 .. Len(b) : Wide(b[k])
  <2>1. PICK c, d : c = [lower |-> Grid(n - 1), upper |-> x] /\ d = [lower |-> x, upper |-> Grid(n)]
    OBVIOUS
  <2>2. c \in Bracket /\ d \in Bracket /\ Wide(c) /\ Wide(d)
    BY <1>3, <2>1 DEF Bracket, Wide
  <2>3. b = <<c, d>>
    BY <1>3, <1>5, <2>1 DEF Around
  <2> QED
    BY <2>2, <2>3
<1>7. PICK to \in {"advance", "brackets", "vertex"} :
        Staged(t, scan', to) \/ (to = "brackets" /\ Handed(t, scan', b))
  <2>1. sample.exact => sample.real
    BY <1>4, SampleFacts
  <2>2. CASE sample.exact
    BY <1>1, <2>1, <2>2 DEF AfterExtra, Staged
  <2>3. CASE ~sample.exact
    BY <1>1, <1>5, <2>3 DEF AfterExtra, Staged, Handed
  <2> QED
    BY <2>2, <2>3
<1>8. /\ scan' \in ScanRecord /\ scan'.stage = to /\ scan'.i = n /\ scan'.tried = scan.tried
      /\ scan'.evaluations <= MaxTotal /\ scan'.roots = t.roots
      /\ scan'.stop = scan.stop \/ scan'.stop = "ROOT_LIMIT"
      /\ scan'.brackets = scan.brackets \/ scan'.brackets = b
  BY <1>4, <1>6, <1>7, StagedFacts
<1>9. \A k \in 1 .. Len(scan'.roots) : IsRoot(scan.roots[k])'
  BY <1>4, <1>8
<1>10. \A k \in 1 .. Len(scan'.brackets) : Wide(scan'.brackets[k])
  <2>1. \A k \in 1 .. Len(scan.brackets) : Wide(scan.brackets[k])
    BY ScanFacts DEF ScanHolds
  <2> QED
    BY <1>6, <1>8, <2>1
<1>11. Grid(n) \in DOMAIN f'
  <2>1. Reached = n /\ n \in 0 .. n
    BY <1>3, ScanFacts
  <2>2. Grid(n) \in DOMAIN f
    BY <2>1, ScanFacts DEF ScanHolds
  <2> QED
    BY <1>4, <2>2 DEF Kept
<1> QED
  BY <1>3, <1>4, <1>7, <1>8, <1>9, <1>10, <1>11, GrownStep

(* The points that are sampled inside a cell. *)
LEMMA CellFacts ==
  ASSUME RootsInv, scan # NoScan
  PROVE  \A x \in {CellMiddle, Middle(Grid(scan.i - 1), CellMiddle), Middle(CellMiddle, Grid(scan.i))} :
           /\ x \in Int
           /\ x - Grid(scan.i - 1) >= Room[MaxIterations]
           /\ Grid(scan.i) - x >= Room[MaxIterations]
<1>1. PICK step \in Nat, w \in Nat : step = Step /\ w = Room[MaxIterations] /\ step >= 4 * w /\ w >= 2
  BY GridFacts
<1>2. PICK a \in Int, b \in Int : a = Grid(scan.i - 1) /\ b = Grid(scan.i) /\ a = b - step
  <2>1. scan.i \in Int
    BY ScanFacts
  <2> QED
    BY <1>1, <2>1, GridFacts
<1>3. PICK m \in Int : m = CellMiddle /\ m - a >= 2 * w /\ b - m >= 2 * w
  BY <1>1, <1>2 DEF CellMiddle, Middle
<1>4. PICK c \in Int : c = Middle(a, m) /\ c - a >= w /\ b - c >= w
  BY <1>1, <1>2, <1>3 DEF Middle
<1>5. PICK d \in Int : d = Middle(m, b) /\ d - a >= w /\ b - d >= w
  BY <1>1, <1>2, <1>3 DEF Middle
<1>6. m - a >= w /\ b - m >= w
  BY <1>1, <1>3
<1> QED
  BY <1>1, <1>2, <1>3, <1>4, <1>5, <1>6

(* The middle of a cell. *)
LEMMA SampleMiddleStep ==
  ASSUME RootsInv, SampleMiddle
  PROVE  RootsInv'
<1>1. scan # NoScan /\ scan.stage = "middle" /\ search = NoSearch /\ search' = search
  BY DEF SampleMiddle, Scanning
<1>2. CASE scan.evaluations >= MaxTotal
  BY <1>1, <1>2, StoppedStep DEF SampleMiddle, Take
<1>3. CASE ~(scan.evaluations >= MaxTotal)
  <2>1. PICK next \in {"vertex", "advance"}, sample \in Sampled(CellMiddle) :
          /\ f' = Remembered(f, CellMiddle, sample)
          /\ scan' = AfterExtra(CellMiddle, next, [scan EXCEPT !.evaluations = @ + 1], sample)
    BY <1>3 DEF SampleMiddle, Take
  <2>2. PICK s : s = [scan EXCEPT !.evaluations = @ + 1]
    OBVIOUS
  <2>3. scan' = AfterExtra(CellMiddle, next, s, sample) /\ Counted(s, 1)
    BY <2>1, <2>2 DEF Counted
  <2>4. scan.evaluations < MaxTotal
    BY <1>1, <1>3, ScanFacts
  <2>5. /\ CellMiddle \in Int
        /\ CellMiddle - Grid(scan.i - 1) >= Room[MaxIterations]
        /\ Grid(scan.i) - CellMiddle >= Room[MaxIterations]
    BY <1>1, CellFacts
  <2> QED
    BY <1>1, <2>1, <2>3, <2>4, <2>5, ExtraStep
<1> QED
  BY <1>2, <1>3

(* The vertex of a parabola through three samples of a cell. *)
LEMMA SampleVertexStep ==
  ASSUME RootsInv, SampleVertex
  PROVE  RootsInv'
<1>1. scan # NoScan /\ scan.stage = "vertex" /\ search = NoSearch /\ search' = search
  BY DEF SampleVertex, Scanning
<1>2. CASE scan.evaluations >= MaxTotal
  BY <1>1, <1>2, StoppedStep DEF SampleVertex, Take
<1>3. CASE ~(scan.evaluations >= MaxTotal)
  <2>1. PICK x \in {Middle(Grid(scan.i - 1), CellMiddle), Middle(CellMiddle, Grid(scan.i))} :
          \E sample \in Sampled(x) :
            /\ f' = Remembered(f, x, sample)
            /\ scan' = AfterExtra(x, "advance", [scan EXCEPT !.evaluations = @ + 1], sample)
    BY <1>3 DEF SampleVertex, Take
  <2>2. PICK s : s = [scan EXCEPT !.evaluations = @ + 1]
    OBVIOUS
  <2>3. PICK sample \in Sampled(x) :
          f' = Remembered(f, x, sample) /\ scan' = AfterExtra(x, "advance", s, sample)
    BY <2>1, <2>2
  <2>4. scan.evaluations < MaxTotal /\ Counted(s, 1)
    BY <1>1, <1>3, <2>2, ScanFacts DEF Counted
  <2>5. /\ x \in Int
        /\ x - Grid(scan.i - 1) >= Room[MaxIterations]
        /\ Grid(scan.i) - x >= Room[MaxIterations]
    BY <1>1, <2>1, CellFacts
  <2> QED
    BY <1>1, <2>3, <2>4, <2>5, ExtraStep
<1> QED
  BY <1>2, <1>3

(* A search at its start. *)
LEMMA NewSearchFacts ==
  ASSUME NEW l \in Int, NEW u \in Int, u - l >= Room[MaxIterations], NEW strategy \in BOOLEAN,
         search' = NewSearch(l, u, strategy)
  PROVE  search' \in SearchRecord /\ Bounded'
<1>1. PICK s : s = NewSearch(l, u, strategy)
  OBVIOUS
<1>2. /\ s \in SearchRecord /\ s.stage = "bounds" /\ s.kind # "FOUND" /\ s.evaluations = 0
      /\ s.iterations = 0 /\ s.lower = l /\ s.upper = u
  BY <1>1 DEF NewSearch, SearchRecord, Kinds
<1>3. MaxEvaluations \in Nat
  BY RootAssumption
<1> QED
  BY <1>1, <1>2, <1>3 DEF Bounded

(* A search that nobody scans for. *)
LEMMA SolveStep ==
  ASSUME RootsInv, Solve
  PROVE  RootsInv'
<1>1. PICK strategy \in BOOLEAN : search' = NewSearch(0, Width, strategy)
  BY DEF Solve
<1>2. scan = NoScan /\ scan' = scan /\ f' = f
  BY DEF Solve
<1>3. Width \in Int /\ 0 \in Int /\ Width - 0 >= Room[MaxIterations]
  <2>1. Width \in Nat /\ Width >= Room[MaxIterations]
    BY RootAssumption
  <2> QED
    BY <2>1
<1>4. search' \in SearchRecord /\ Bounded'
  BY <1>1, <1>3, NewSearchFacts
<1> QED
  BY <1>2, <1>4 DEF RootsInv, RootsTyped, ScanHolds, Drawable

(* A scan at its start. *)
LEMMA StartScanStep ==
  ASSUME RootsInv, StartScan
  PROVE  RootsInv'
<1>1. search = NoSearch /\ search' = search /\ f' = f
  BY DEF StartScan
<1>2. PICK s : s = scan'
  OBVIOUS
<1>3. s = [stage |-> "grid", i |-> 0, brackets |-> <<>>, tried |-> {}, roots |-> <<>>,
           evaluations |-> 0, stop |-> "FINISHED"]
  BY <1>2 DEF StartScan
<1>4. <<>> \in Seq(Bracket) /\ <<>> \in Seq(Root) /\ Len(<<>>) = 0
  OBVIOUS
<1>5. /\ s \in ScanRecord /\ s.stage = "grid" /\ s.i = 0 /\ s.brackets = <<>> /\ s.roots = <<>>
      /\ s.evaluations = 0 /\ s.stop = "FINISHED"
  BY <1>3, <1>4 DEF ScanRecord, Stops
<1>6. Segments \in Nat /\ MaxRoots \in Nat /\ MaxTotal \in Nat
  BY RootAssumption
<1>7. Reached' = -1
  BY <1>2, <1>5 DEF Reached
<1>8. Thorough'
  BY <1>7 DEF Thorough
<1>9. ScanHolds'
  BY <1>1, <1>2, <1>5, <1>6, <1>7, <1>8 DEF ScanHolds, InOrder
<1> QED
  BY <1>1, <1>2, <1>5, <1>9 DEF RootsInv, RootsTyped, Bounded, Drawable

(* The brackets of a cell that a search was tried in, or will be. *)
Handled(t, b) ==
  \/ b \in t.tried
  \/ t.stage = "brackets" /\ \E k \in 1 .. Len(t.brackets) : t.brackets[k] = b

(* A scan that stays with its brackets. *)
LEMMA SameCellStep ==
  ASSUME RootsInv, scan # NoScan, scan.stage = "brackets", f' = f,
         NEW t, t = scan', t \in ScanRecord, t.stage \in {"brackets", "advance"}, t.i = scan.i,
         t.evaluations <= MaxTotal, t.stop = scan.stop \/ t.stop # "FINISHED",
         search' # NoSearch => t.stage = "brackets" /\ t.evaluations + MaxEvaluations <= MaxTotal,
         Len(t.roots) <= MaxRoots, InOrder(t.roots), \A k \in 1 .. Len(t.roots) : IsRoot(t.roots[k]),
         \A k \in 1 .. Len(t.brackets) : Wide(t.brackets[k]),
         t.stop = "FINISHED" => \A b : Handled(scan, b) => Handled(t, b)
  PROVE  ScanHolds'
<1>1. PICK n \in Nat : n = scan.i /\ n <= Segments /\ Segments \in Nat /\ Reached = n
  BY ScanFacts
<1>2. Reached' = n
  BY <1>1 DEF Reached
<1>3. Kept(f, f')
  BY DEF Kept
<1>4. \A k \in 1 .. Len(t.roots) : IsRoot(t.roots[k])'
  BY <1>3, KnownStays
<1>5. \A k \in 0 .. n : Grid(k) \in DOMAIN f
  BY <1>1 DEF RootsInv, ScanHolds
<1>6. Thorough'
  <2> SUFFICES ASSUME scan'.stop = "FINISHED", NEW i \in 0 .. Segments, NEW j \in 0 .. n, Crossing(i, j)'
               PROVE  Handled(scan', Over(i, j))
    BY <1>2 DEF Thorough, Over, Grid, Handled
  <2>1. scan.stop = "FINISHED" /\ j \in 0 .. Reached
    BY <1>1
  <2>2. Handled(scan, Over(i, j))
    BY <1>3, <2>1, OldCrossings DEF Handled
  <2> QED
    BY <2>2
<1> QED
  BY <1>1, <1>2, <1>4, <1>5, <1>6 DEF ScanHolds, Wide, InOrder, Grid

(* The next bracket: a search for it, if the scan has samples for one. *)
LEMMA StartSearchStep ==
  ASSUME RootsInv, StartSearch
  PROVE  RootsInv'
<1>1. scan # NoScan /\ scan.stage = "brackets" /\ search = NoSearch /\ f' = f /\ scan \in ScanRecord
  BY ScanFacts DEF StartSearch, Scanning
<1>2. \A k \in 1 .. Len(scan.brackets) : Wide(scan.brackets[k])
  BY <1>1 DEF RootsInv, ScanHolds
<1>3. PICK t : t = scan'
  OBVIOUS
<1>4. /\ scan.brackets \in Seq(Bracket) /\ scan.evaluations \in Nat /\ MaxTotal \in Nat /\ MaxEvaluations \in Nat
      /\ scan.evaluations <= MaxTotal
      /\ Len(scan.roots) <= MaxRoots /\ InOrder(scan.roots)
      /\ \A k \in 1 .. Len(scan.roots) : IsRoot(scan.roots[k])
  BY <1>1, ScanFacts
<1>5. CASE scan.brackets = <<>>
  <2>1. t = [scan EXCEPT !.stage = "advance"] /\ search' = search
    BY <1>3, <1>5 DEF StartSearch
  <2>2. /\ t \in ScanRecord /\ t.stage = "advance" /\ t.i = scan.i /\ t.evaluations = scan.evaluations
        /\ t.stop = scan.stop /\ t.roots = scan.roots /\ t.tried = scan.tried /\ t.brackets = scan.brackets
    BY <1>1, <2>1 DEF ScanRecord
  <2>3. \A b : Handled(scan, b) => Handled(t, b)
    BY <1>5, <2>2 DEF Handled
  <2>4. ScanHolds'
    BY <1>1, <1>2, <1>3, <1>4, <2>1, <2>2, <2>3, SameCellStep
  <2> QED
    BY <1>1, <1>3, <2>1, <2>2, <2>4 DEF RootsInv, RootsTyped, Bounded, Drawable
<1>6. CASE scan.brackets # <<>>
  <2>1. PICK bracket, tail : bracket = Head(scan.brackets) /\ tail = Tail(scan.brackets)
    OBVIOUS
  <2>2. /\ bracket \in Bracket /\ tail \in Seq(Bracket) /\ Wide(bracket)
        /\ \A k \in 1 .. Len(tail) : Wide(tail[k])
        /\ \A k \in 1 .. Len(scan.brackets) :
             scan.brackets[k] = bracket \/ \E m \in 1 .. Len(tail) : tail[m] = scan.brackets[k]
    <3>1. PICK q : q = scan.brackets /\ q \in Seq(Bracket) /\ q # <<>>
      BY <1>4, <1>6
    <3>2. /\ Len(q) \in Nat /\ Len(tail) = Len(q) - 1 /\ Len(q) >= 1
          /\ tail \in Seq(Bracket) /\ bracket = q[1]
          /\ \A m \in 1 .. Len(tail) : tail[m] = q[m + 1]
      BY <2>1, <3>1, HeadTailProperties
    <3>3. bracket \in Bracket /\ Wide(bracket)
      BY <1>2, <3>1, <3>2, ElementOfSeq
    <3>4. \A m \in 1 .. Len(tail) : m + 1 \in 1 .. Len(q)
      BY <3>2
    <3>5. \A k \in 1 .. Len(q) : k = 1 \/ (k - 1 \in 1 .. Len(tail) /\ tail[k - 1] = q[k])
      BY <3>2
    <3> QED
      BY <1>2, <3>1, <3>2, <3>3, <3>4, <3>5
  <2>3. PICK rest : rest = [scan EXCEPT !.brackets = tail]
    OBVIOUS
  <2>4. /\ rest \in ScanRecord /\ rest.stage = "brackets" /\ rest.i = scan.i
        /\ rest.evaluations = scan.evaluations /\ rest.stop = scan.stop /\ rest.roots = scan.roots
        /\ rest.tried = scan.tried /\ rest.brackets = tail
    BY <1>1, <2>2, <2>3 DEF ScanRecord
  <2>5. \/ t = rest /\ search' = search /\ scan.stop # "FINISHED"
        \/ t = [rest EXCEPT !.stop = "EVALUATION_LIMIT"] /\ search' = search
        \/ /\ t = [rest EXCEPT !.tried = @ \cup {bracket}]
           /\ search' = NewSearch(bracket.lower, bracket.upper, FALSE)
           /\ ~(MaxEvaluations > MaxTotal - scan.evaluations)
    BY <1>3, <1>6, <2>1, <2>3 DEF StartSearch
  <2>6. CASE t = rest /\ search' = search /\ scan.stop # "FINISHED"
    <3>1. ScanHolds'
      BY <1>1, <1>3, <1>4, <2>2, <2>4, <2>6, SameCellStep
    <3> QED
      BY <1>1, <1>3, <2>4, <2>6, <3>1 DEF RootsInv, RootsTyped, Bounded, Drawable
  <2>7. CASE t = [rest EXCEPT !.stop = "EVALUATION_LIMIT"] /\ search' = search
    <3>1. /\ t \in ScanRecord /\ t.stage = "brackets" /\ t.i = scan.i
          /\ t.evaluations = scan.evaluations /\ t.stop = "EVALUATION_LIMIT" /\ t.roots = scan.roots
          /\ t.brackets = tail
      BY <2>4, <2>7 DEF ScanRecord, Stops
    <3>2. ScanHolds'
      BY <1>1, <1>3, <1>4, <2>2, <2>7, <3>1, SameCellStep
    <3> QED
      BY <1>1, <1>3, <2>7, <3>1, <3>2 DEF RootsInv, RootsTyped, Bounded, Drawable
  <2>8. CASE /\ t = [rest EXCEPT !.tried = @ \cup {bracket}]
             /\ search' = NewSearch(bracket.lower, bracket.upper, FALSE)
             /\ ~(MaxEvaluations > MaxTotal - scan.evaluations)
    <3>1. /\ t \in ScanRecord /\ t.stage = "brackets" /\ t.i = scan.i
          /\ t.evaluations = scan.evaluations /\ t.stop = scan.stop /\ t.roots = scan.roots
          /\ t.brackets = tail /\ t.tried = scan.tried \cup {bracket}
      BY <2>2, <2>4, <2>8 DEF ScanRecord
    <3>2. ASSUME NEW b, Handled(scan, b) PROVE Handled(t, b)
      BY <2>2, <3>1, <3>2 DEF Handled
    <3>3. t.evaluations + MaxEvaluations <= MaxTotal
      BY <1>4, <2>8, <3>1
    <3>4. ScanHolds'
      BY <1>1, <1>3, <1>4, <2>2, <3>1, <3>2, <3>3, SameCellStep
    <3>5. search' \in SearchRecord /\ Bounded'
      <4>1. bracket.lower \in Int /\ bracket.upper \in Int /\ bracket.upper - bracket.lower >= Room[MaxIterations]
        BY <2>2 DEF Bracket, Wide
      <4> QED
        BY <2>8, <4>1, NewSearchFacts
    <3> QED
      BY <1>1, <1>3, <3>1, <3>4, <3>5 DEF RootsInv, RootsTyped, Drawable
  <2> QED
    BY <2>5, <2>6, <2>7, <2>8
<1> QED
  BY <1>5, <1>6

(* What a search found is listed, and its samples are counted. *)
LEMMA EndSearchStep ==
  ASSUME RootsInv, EndSearch
  PROVE  RootsInv'
<1>1. /\ scan # NoScan /\ search # NoSearch /\ search.stage = "done" /\ search' = NoSearch /\ f' = f
      /\ scan \in ScanRecord
  BY ScanFacts DEF EndSearch, Searching
<1>2. /\ search \in SearchRecord /\ search.evaluations <= MaxEvaluations
      /\ search.kind = "FOUND" => IsRoot(search)
  BY <1>1, SearchFacts DEF RootsInv, Bounded
<1>3. /\ scan.stage = "brackets" /\ scan.evaluations + MaxEvaluations <= MaxTotal
      /\ \A k \in 1 .. Len(scan.brackets) : Wide(scan.brackets[k])
  BY <1>1 DEF RootsInv, ScanHolds
<1>4. PICK t, s, n : t = scan' /\ s = [scan EXCEPT !.evaluations = @ + search.evaluations]
                     /\ n = search.evaluations
  OBVIOUS
<1>5. n \in Nat /\ scan.evaluations + n <= MaxTotal /\ Counted(s, n)
  <2>1. scan.evaluations \in Nat /\ MaxTotal \in Nat /\ MaxEvaluations \in Nat
    BY <1>1, ScanFacts
  <2>2. n \in Nat
    BY <1>2, <1>4 DEF SearchRecord
  <2> QED
    BY <1>2, <1>3, <1>4, <2>1, <2>2 DEF Counted
<1>6. /\ s \in ScanRecord /\ s.stage = "brackets" /\ s.i = scan.i /\ s.brackets = scan.brackets
      /\ s.tried = scan.tried /\ s.evaluations <= MaxTotal /\ s.stop = scan.stop
      /\ s.roots = scan.roots
  BY <1>1, <1>3, <1>5, CountedFacts
<1>7. Len(s.roots) <= MaxRoots /\ InOrder(s.roots) /\ \A k \in 1 .. Len(s.roots) : IsRoot(s.roots[k])
  BY <1>1, <1>6, ScanFacts
<1>8. /\ t \in ScanRecord /\ t.stage = "brackets" /\ t.i = scan.i /\ t.brackets = scan.brackets
      /\ t.tried = scan.tried /\ t.evaluations <= MaxTotal
      /\ t.stop = scan.stop \/ t.stop = "ROOT_LIMIT"
      /\ Len(t.roots) <= MaxRoots /\ InOrder(t.roots)
      /\ \A k \in 1 .. Len(t.roots) : IsRoot(t.roots[k])
  <2>1. CASE search.kind = "FOUND"
    <3>1. PICK root : root = [x |-> search.x, exact |-> search.exact,
                              lower |-> search.lower, upper |-> search.upper]
      OBVIOUS
    <3>2. root \in Root
      BY <1>2, <3>1 DEF SearchRecord, Root
    <3>3. IsRoot(root)
      BY <1>2, <2>1, <3>1 DEF IsRoot
    <3>4. t = Listed(s, root)
      BY <1>4, <2>1, <3>1 DEF EndSearch
    <3>5. /\ t \in ScanRecord /\ t.stage = s.stage /\ t.i = s.i /\ t.brackets = s.brackets
          /\ t.tried = s.tried /\ t.evaluations = s.evaluations
          /\ t.stop = s.stop \/ t.stop = "ROOT_LIMIT"
          /\ Len(t.roots) <= MaxRoots /\ InOrder(t.roots)
          /\ \A k \in 1 .. Len(t.roots) :
               t.roots[k] = root \/ \E j \in 1 .. Len(s.roots) : t.roots[k] = s.roots[j]
      BY <1>6, <1>7, <3>2, <3>4, ListedFacts
    <3>6. \A k \in 1 .. Len(t.roots) : IsRoot(t.roots[k])
      BY <1>7, <3>3, <3>5
    <3> QED
      BY <1>6, <3>5, <3>6
  <2>2. CASE search.kind # "FOUND"
    <3>1. t = s
      BY <1>4, <2>2 DEF EndSearch
    <3> QED
      BY <1>6, <1>7, <3>1
  <2> QED
    BY <2>1, <2>2
<1>9. \A b : Handled(scan, b) => Handled(t, b)
  BY <1>3, <1>8 DEF Handled
<1>10. t.stop = scan.stop \/ t.stop # "FINISHED"
  BY <1>8
<1>11. \A k \in 1 .. Len(t.brackets) : Wide(t.brackets[k])
  BY <1>3, <1>8
<1>12. ScanHolds'
  <2>1. t = scan' /\ scan # NoScan /\ scan.stage = "brackets" /\ f' = f /\ search' = NoSearch
    BY <1>1, <1>3, <1>4
  <2> QED
    BY <1>8, <1>9, <1>10, <1>11, <2>1, SameCellStep
<1> QED
  BY <1>1, <1>4, <1>8, <1>12 DEF RootsInv, RootsTyped, Bounded, Drawable

(* The next sample of the grid, or the end. *)
LEMMA AdvanceStep ==
  ASSUME RootsInv, Advance
  PROVE  RootsInv'
<1>1. scan # NoScan /\ scan.stage = "advance" /\ search = NoSearch /\ search' = search /\ f' = f
  BY DEF Advance, Scanning
<1>2. PICK n \in Nat : n = scan.i /\ n <= Segments /\ Segments \in Nat /\ Reached = n
  BY <1>1, ScanFacts
<1>3. Kept(f, f')
  BY <1>1 DEF Kept
<1>4. PICK t : t = scan'
  OBVIOUS
<1>5. /\ t \in ScanRecord /\ t.roots = scan.roots /\ t.brackets = scan.brackets /\ t.tried = scan.tried
      /\ t.evaluations = scan.evaluations /\ t.stop = scan.stop
      /\ \/ t.stage = "grid" /\ t.i = n + 1 /\ n < Segments
         \/ t.stage = "done" /\ t.i = n /\ (t.stop = "FINISHED" => n = Segments)
  <2>1. CASE scan.stop = "FINISHED" /\ scan.i < Segments
    <3>1. t = [scan EXCEPT !.stage = "grid", !.i = n + 1] /\ scan \in ScanRecord /\ n + 1 \in Nat
      BY <1>1, <1>2, <1>4, <2>1, ScanFacts DEF Advance
    <3> QED
      BY <1>2, <2>1, <3>1 DEF ScanRecord
  <2>2. CASE ~(scan.stop = "FINISHED" /\ scan.i < Segments)
    <3>1. t = [scan EXCEPT !.stage = "done"] /\ scan \in ScanRecord
      BY <1>1, <1>4, <2>2, ScanFacts DEF Advance
    <3>2. t.stop = "FINISHED" => n = Segments
      BY <1>2, <2>2, <3>1 DEF ScanRecord
    <3> QED
      BY <1>2, <3>1, <3>2 DEF ScanRecord
  <2> QED
    BY <2>1, <2>2
<1>6. Reached' = n
  BY <1>2, <1>4, <1>5 DEF Reached
<1>7. \A k \in 1 .. Len(t.roots) : IsRoot(t.roots[k])'
  <2>1. \A r : IsRoot(r) => IsRoot(r)'
    BY <1>3, KnownStays
  <2> QED
    BY <1>1, <1>5, <2>1, ScanFacts
<1>8. \A k \in 0 .. n : Grid(k) \in DOMAIN f
  BY <1>1, <1>2 DEF RootsInv, ScanHolds
<1>9. Thorough'
  <2> SUFFICES ASSUME scan'.stop = "FINISHED", NEW i \in 0 .. Segments, NEW j \in 0 .. n, Crossing(i, j)'
               PROVE  Over(i, j) \in scan'.tried
    BY <1>6 DEF Thorough, Over, Grid
  <2>1. scan.stop = "FINISHED" /\ j \in 0 .. Reached
    BY <1>2, <1>4, <1>5
  <2> QED
    BY <1>1, <1>3, <1>4, <1>5, <2>1, OldCrossings
<1>10. \A k \in 1 .. Len(t.brackets) : Wide(t.brackets[k])
  BY <1>1, <1>5 DEF RootsInv, ScanHolds
<1>11. ScanHolds'
  <2>1. t.i <= Segments /\ t.evaluations <= MaxTotal /\ Len(t.roots) <= MaxRoots /\ InOrder(t.roots)
    BY <1>1, <1>2, <1>5, ScanFacts, SMTT(60)
  <2> QED
    BY <1>1, <1>2, <1>4, <1>5, <1>6, <1>7, <1>8, <1>9, <1>10, <2>1 DEF ScanHolds, Wide, InOrder, Grid
<1> QED
  BY <1>1, <1>4, <1>5, <1>11 DEF RootsInv, RootsTyped, Bounded, Drawable

(* The program answers, and forgets. *)
LEMMA AnswerStep ==
  ASSUME Answer
  PROVE  RootsInv'
BY DEF Answer, RootsInv, RootsTyped, Bounded, ScanHolds, Drawable

(* Nothing has been sampled at first. *)
LEMMA RootsStart ==
  ASSUME RootsInit
  PROVE  RootsInv
BY DEF RootsInit, RootsInv, RootsTyped, Bounded, ScanHolds, Drawable

(* Every step keeps the invariant. *)
LEMMA RootsStep ==
  ASSUME RootsInv, [RootsNext]_roots
  PROVE  RootsInv'
<1>1. CASE UNCHANGED roots
  <2>1. f' = f /\ search' = search /\ scan' = scan
    BY <1>1 DEF roots
  <2>2. RootsTyped'
    BY <2>1 DEF RootsInv, RootsTyped, Drawable
  <2>3. Bounded'
    BY <2>1 DEF RootsInv, Bounded, SignChange, Known, Opposite, SignOf, IsRoot
  <2>4. Thorough => Thorough'
    BY <2>1 DEF Thorough, Reached, Crossing, SignChange, Known, Opposite, SignOf
  <2>5. ScanHolds'
    BY <2>1, <2>4 DEF RootsInv, ScanHolds, Reached, SignChange, Known, Opposite, SignOf, IsRoot
  <2> QED
    BY <2>2, <2>3, <2>5 DEF RootsInv
<1> QED
  BY <1>1, SolveStep, SampleBoundsStep, ExhaustedStep, HalveStep, QuarterStep, StartScanStep,
     SampleGridStep, SampleMiddleStep, SampleVertexStep, StartSearchStep, EndSearchStep,
     AdvanceStep, AnswerStep DEF RootsNext

(* What the invariant says of the roots that are reported. *)
LEMMA RootsInvIsEnough ==
  ASSUME RootsInv
  PROVE  RootsBracketed
<1>1. SearchKeepsBracket
  BY DEF SearchKeepsBracket, RootsInv, Bounded
<1>2. ScanIsThorough
  <2> SUFFICES ASSUME scan # NoScan PROVE ScanIsThorough
    BY DEF ScanIsThorough
  <2>1. scan \in ScanRecord /\ ScanHolds
    BY ScanFacts
  <2>2. Len(scan.roots) <= MaxRoots /\ scan.evaluations <= MaxTotal /\ DOMAIN scan.roots = 1 .. Len(scan.roots)
    BY ScanFacts
  <2>3. ASSUME NEW k \in DOMAIN scan.roots
        PROVE  IsRoot(scan.roots[k]) /\ (k > 1 => scan.roots[k - 1].x < scan.roots[k].x)
    <3>1. k \in 1 .. Len(scan.roots) /\ (k > 1 => k \in 2 .. Len(scan.roots))
      BY <2>2, <2>3, ScanFacts
    <3> QED
      BY <3>1, ScanFacts DEF InOrder
  <2>4. ASSUME scan.stage = "done", scan.stop = "FINISHED", NEW i \in 0 .. Segments, NEW j \in 0 .. Segments,
               Crossing(i, j)
        PROVE  Over(i, j) \in scan.tried
    <3>1. Reached = Segments
      BY <2>1, <2>4, ScanFacts DEF ScanHolds
    <3> QED
      BY <2>1, <2>4, <3>1 DEF ScanHolds, Thorough
  <2> QED
    BY <2>2, <2>3, <2>4 DEF ScanIsThorough, Crossing, Over
<1> QED
  BY <1>1, <1>2 DEF RootsBracketed

(* The roots that a search or a scan reports are exact zeros or lie between
   samples of opposite signs, a scan lists different ones in their order, and
   it hands every change of sign of its grid to a search unless it says that
   it was stopped, all within the allowances (root.c, scan.c). *)
THEOREM RootsAreBracketed == RootsSpec => []RootsBracketed
<1>1. RootsInit => RootsInv
  BY RootsStart
<1>2. RootsInv /\ [RootsNext]_roots => RootsInv'
  BY RootsStep
<1>3. RootsInv => RootsBracketed
  BY RootsInvIsEnough
<1> QED
  BY <1>1, <1>2, <1>3, PTL DEF RootsSpec
================================================================================
