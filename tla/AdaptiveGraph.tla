----------------------------- MODULE AdaptiveGraph -----------------------------
(***************************************************************************)
(* The samples of a curve (graph.c: adaptive_interval, adaptive_peaks) and *)
(* the scheduler that decides where to take them                           *)
(* (numforge_refine_intervals in refinement.c).  The two share nothing but *)
(* indices: the scheduler keeps a ring of left indices, the callback       *)
(* inserts a sample into three arrays, and every index behind it moves.    *)
(*                                                                         *)
(* Arrays are sequences, index i of the code is element i + 1.  A          *)
(* coordinate is an integer; Spacing is wide enough for every midpoint to  *)
(* be one.  How a curve is judged, how an anchor is found and when the     *)
(* allowance runs short are choices.  A request that fails gives nothing.  *)
(***************************************************************************)
EXTENDS Integers, Sequences

(* What a curve is given (adaptive_request, NumForgeRefinementOptions). *)
CONSTANTS
  PointLimit,  \* samples there is room for (point_limit, max_points)
  MaxDepth,    \* halvings of an edge (max_depth)
  Spacing,     \* distance of the seed samples
  Channels     \* phases of the expression

ASSUME GraphAssumption ==
  /\ PointLimit \in Nat /\ PointLimit >= 2
  /\ MaxDepth \in Nat
  /\ Spacing \in Nat /\ Spacing > 0
  /\ Channels \in Nat

VARIABLES
  stage,        \* "idle", "refine", "peaks", "done" or "failed"
  coordinates,  \* graph->coordinates (samples has the same indices)
  connect,      \* connect[i + 1]: the edge that ends at sample i is drawn
  queue, head, pending,        \* the ring: left index and depth of edges
  points, unresolved, limits,  \* stats of the scheduler
  edge, channel,               \* loop variables of adaptive_peaks
  limited                      \* graph->limited

ring == <<queue, head, pending>>
cursor == <<edge, channel>>
vars == <<stage, coordinates, connect, ring, points, unresolved, limits, cursor, limited>>

NoQueue == <<>>
Slots == 0 .. PointLimit - 1
Slot(i) == (head + i) % PointLimit

Inserted(s, i, x) == SubSeq(s, 1, i) \o <<x>> \o SubSeq(s, i + 1, Len(s))

Empty ==
  /\ coordinates = <<>> /\ connect = <<>>
  /\ queue = NoQueue /\ head = 0 /\ pending = 0
  /\ points = 0 /\ unresolved = 0 /\ limits = {}
  /\ edge = 1 /\ channel = 0 /\ limited = FALSE

Emptied ==
  /\ coordinates' = <<>> /\ connect' = <<>>
  /\ queue' = NoQueue /\ head' = 0 /\ pending' = 0
  /\ points' = 0 /\ unresolved' = 0 /\ limits' = {}
  /\ edge' = 1 /\ channel' = 0 /\ limited' = FALSE

Init == stage = "idle" /\ Empty

(* adaptive_request: the seeds; none of their edges is drawn yet.  The ring
   exists once the scheduler allocated it. *)
Begin(n) ==
  /\ stage = "idle"
  /\ stage' = "refine"
  /\ coordinates' = [i \in 1 .. n |-> (i - 1) * Spacing]
  /\ connect' = [i \in 1 .. n |-> FALSE]
  /\ points' = n
  /\ pending' = n - 1
  /\ UNCHANGED <<queue, head, unresolved, limits, cursor, limited>>

-----------------------------------------------------------------------------
(* numforge_refine_intervals.                                              *)

Refining == stage = "refine" /\ pending > 0

(* The loop ends; adaptive_refine takes the limits over, and adaptive_peaks
   returns at once unless the expression is smooth and has phases. *)
Conclude(reached) ==
  /\ stage' \in {"peaks", "done"}
  /\ unresolved' = unresolved + pending
  /\ limits' = reached
  /\ limited' = (reached # {})
  /\ queue' = NoQueue /\ head' = 0 /\ pending' = 0
  /\ UNCHANGED <<coordinates, connect, points, cursor>>

Finish == stage = "refine" /\ pending = 0 /\ Conclude(limits)

StopAtPoints == Refining /\ points >= PointLimit /\ Conclude(limits \cup {"points"})

StopForResources == Refining /\ points < PointLimit /\ Conclude(limits \cup {"resources"})

AllocateQueue ==
  /\ Refining
  /\ points < PointLimit
  /\ queue = NoQueue
  /\ queue' = [s \in Slots |-> [left |-> IF s < pending THEN s ELSE 0, depth |-> 0]]
  /\ UNCHANGED <<stage, coordinates, connect, head, pending, points, unresolved, limits,
                 cursor, limited>>

Takes == Refining /\ points < PointLimit /\ queue # NoQueue

SetAside ==
  /\ Takes
  /\ queue[head].depth >= MaxDepth
  /\ head' = Slot(1)
  /\ pending' = pending - 1
  /\ limits' = limits \cup {"depth"}
  /\ unresolved' = unresolved + 1
  /\ UNCHANGED <<stage, coordinates, connect, queue, points, cursor, limited>>

(* adaptive_interval, the callback: a sample in the middle of the edge.  Both
   its halves are drawn if the curve is straight there, and only then. *)
Sample(left, accepted) ==
  LET middle == (coordinates[left + 1] + coordinates[left + 2]) \div 2
  IN  /\ coordinates' = Inserted(coordinates, left + 1, middle)
      /\ connect' = [Inserted(connect, left + 1, accepted) EXCEPT ![left + 3] = accepted]

(* Mutant: nothing wraps the index that runs over the ring. *)
Moved_Unwrapped(left) ==
  {s \in Slots : \E i \in 1 .. pending - 1 : s = head + i /\ queue[s].left > left}

(* Slots of the remaining edges whose left index moved with the sample. *)
Moved(left) == {s \in Slots : \E i \in 1 .. pending - 1 : s = Slot(i) /\ queue[s].left > left}
Shifted(left) == [s \in Slots |-> IF s \in Moved(left) THEN [queue[s] EXCEPT !.left = @ + 1] ELSE queue[s]]

Probe(decision) ==
  /\ Takes
  /\ queue[head].depth < MaxDepth
  /\ LET current == queue[head]
         half(left) == [left |-> left, depth |-> current.depth + 1]
     IN  /\ Sample(current.left, decision = "ACCEPT")
         /\ IF decision = "SPLIT"
            THEN /\ queue' = [Shifted(current.left) EXCEPT
                                ![Slot(pending)] = half(current.left),
                                ![Slot(pending + 1)] = half(current.left + 1)]
                 /\ pending' = pending + 1
            ELSE /\ queue' = Shifted(current.left)
                 /\ pending' = pending - 1
  /\ head' = Slot(1)
  /\ points' = points + 1
  /\ UNCHANGED <<stage, unresolved, limits, cursor, limited>>

-----------------------------------------------------------------------------
(* adaptive_peaks: an anchor where a phase of a drawn edge has its peak.    *)

Anchoring == stage = "peaks" /\ edge < Len(coordinates)
Examines == Anchoring /\ connect[edge + 1] /\ channel < Channels

NextEdge ==
  /\ Anchoring
  /\ ~Examines
  /\ edge' = edge + 1
  /\ channel' = 0
  /\ UNCHANGED <<stage, coordinates, connect, ring, points, unresolved, limits, limited>>

NoPeak ==
  /\ Examines
  /\ channel' = channel + 1
  /\ UNCHANGED <<stage, coordinates, connect, ring, points, unresolved, limits, edge, limited>>

(* numforge_phase_locate: the position is strictly inside the edge.  The next
   phase is looked for behind the anchor. *)
Anchor(x) ==
  /\ Examines
  /\ Len(coordinates) < PointLimit
  /\ coordinates[edge] < x /\ x < coordinates[edge + 1]
  /\ coordinates' = Inserted(coordinates, edge, x)
  /\ connect' = Inserted(connect, edge, TRUE)
  /\ edge' = edge + 1
  /\ channel' = channel + 1
  /\ UNCHANGED <<stage, ring, points, unresolved, limits, limited>>

StopAnchoring ==
  /\ Examines
  /\ stage' = "done"
  /\ limited' = TRUE
  /\ UNCHANGED <<coordinates, connect, ring, points, unresolved, limits, cursor>>

FinishPeaks ==
  /\ stage = "peaks"
  /\ edge >= Len(coordinates)
  /\ stage' = "done"
  /\ UNCHANGED <<coordinates, connect, ring, points, unresolved, limits, cursor, limited>>

-----------------------------------------------------------------------------
(* An allocation, a sample or the budget fails, and the graph is destroyed. *)
Fail ==
  /\ stage \in {"refine", "peaks"}
  /\ stage' = "failed"
  /\ Emptied

Deliver ==
  /\ stage \in {"done", "failed"}
  /\ stage' = "idle"
  /\ Emptied

Next ==
  \/ \E n \in 2 .. PointLimit : Begin(n)
  \/ Finish \/ StopAtPoints \/ StopForResources
  \/ AllocateQueue \/ SetAside
  \/ \E decision \in {"SPLIT", "ACCEPT", "SKIP"} : Probe(decision)
  \/ NextEdge \/ NoPeak \/ StopAnchoring \/ FinishPeaks
  \/ \E i \in DOMAIN coordinates : Anchor(coordinates[i] + 1) \/ Anchor(coordinates[i] - 1)
  \/ Fail \/ Deliver

Spec == Init /\ [][Next]_vars

-----------------------------------------------------------------------------
(* The arrays as a set of edges. *)

EdgeAt(left) == [from |-> coordinates[left + 1], to |-> coordinates[left + 2]]
Entry(i) == IF queue = NoQueue THEN [left |-> i, depth |-> 0] ELSE queue[Slot(i)]

WaitingEdges ==
  [i \in 1 .. pending |->
     [from |-> EdgeAt(Entry(i - 1).left).from,
      to |-> EdgeAt(Entry(i - 1).left).to,
      depth |-> Entry(i - 1).depth]]
PendingLefts == {Entry(i).left : i \in 0 .. pending - 1}
Lefts == 0 .. Len(coordinates) - 2

Curve == INSTANCE CurveEdges WITH
  waiting <- WaitingEdges,
  drawn <- {EdgeAt(left) : left \in {l \in Lefts : connect[l + 2]}},
  blank <- {EdgeAt(left) : left \in {l \in Lefts : ~connect[l + 2] /\ l \notin PendingLefts}},
  limited <- limited \/ limits # {}

(* The ring never overflows (refinement.c:69 "Disjoint active edges guarantee
   pending <= points-1 < max_points"), and neither do the arrays, which
   the callback fills without looking at their size (graph.c:178-184): the
   scheduler counts the samples in its place. *)
QueueFits ==
  /\ stage = "refine" => pending < points /\ points = Len(coordinates)
  /\ points <= PointLimit
  /\ Len(coordinates) <= PointLimit
  /\ Len(connect) = Len(coordinates)

(* The slots between head and the end of the ring name different edges of the
   array, none of which is drawn yet. *)
ActiveEdgesDisjoint ==
  \A i \in 0 .. pending - 1 :
    /\ Entry(i).left \in Lefts
    /\ ~connect[Entry(i).left + 2]
    /\ \A j \in 0 .. pending - 1 : Entry(i).left = Entry(j).left => i = j

(* Ring and arrays fit, and describe one partition of the axis, whose edges are
   judged once, oldest first, and are drawn exactly if they were accepted,
   although every sample moves the indices that the ring and the flags are kept
   by; what was not judged is counted and reported (refinement.c:49-75,
   graph.c:178-201, numerical.h:86 "Pending/depth-limited intervals, excluding
   callback SKIP"). *)
CurveIsRefined == Curve!Spec /\ [][QueueFits' /\ ActiveEdgesDisjoint']_vars
================================================================================
