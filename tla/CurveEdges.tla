------------------------------ MODULE CurveEdges ------------------------------
(***************************************************************************)
(* What the drawing of a curve promises, without arrays, indices or a      *)
(* ring: the plane is cut into adjoining edges, each edge is judged once,  *)
(* breadth first, by a sample in its middle, and is then drawn, left out,  *)
(* or cut into two edges that wait in turn.  Anchors cut drawn edges only. *)
(***************************************************************************)
EXTENDS Integers, Sequences

CONSTANTS
  PointLimit, \* most samples, and most to begin with
  Spacing,    \* distance of the first samples
  MaxDepth    \* cuts an edge may come from

VARIABLES
  waiting,     \* edges to be judged, with their depths, in their order
  drawn,       \* edges that are drawn
  blank,       \* edges that are not, and no longer wait
  unresolved,  \* how many of these were never judged
  limited      \* the caller is told that the curve is not complete

vars == <<waiting, drawn, blank, unresolved, limited>>

Edge(a, b) == [from |-> a, to |-> b]
Middle(e) == (e.from + e.to) \div 2
Halves(e) == {Edge(e.from, Middle(e)), Edge(Middle(e), e.to)}
Unmarked(e) == Edge(e.from, e.to)
Waiting(e, depth) == [from |-> e.from, to |-> e.to, depth |-> depth]

Cleared(w) ==
  /\ waiting' = w
  /\ drawn' = {} /\ blank' = {} /\ unresolved' = 0 /\ limited' = FALSE

Init == waiting = <<>> /\ drawn = {} /\ blank = {} /\ unresolved = 0 /\ limited = FALSE

Begin(n) ==
  Cleared([i \in 1 .. n - 1 |-> Waiting(Edge((i - 1) * Spacing, i * Spacing), 0)])

Deliver == Cleared(<<>>)

Judge ==
  /\ waiting # <<>>
  /\ Head(waiting).depth < MaxDepth
  /\ LET e == Head(waiting)
         left == Edge(e.from, Middle(e))
         right == Edge(Middle(e), e.to)
     IN \/ /\ drawn' = drawn \cup Halves(e)
           /\ waiting' = Tail(waiting)
           /\ UNCHANGED blank
        \/ /\ blank' = blank \cup Halves(e)
           /\ waiting' = Tail(waiting)
           /\ UNCHANGED drawn
        \/ /\ waiting' = Tail(waiting) \o <<Waiting(left, e.depth + 1), Waiting(right, e.depth + 1)>>
           /\ UNCHANGED <<drawn, blank>>
  /\ UNCHANGED <<unresolved, limited>>

TooDeep ==
  /\ waiting # <<>>
  /\ Head(waiting).depth >= MaxDepth
  /\ waiting' = Tail(waiting)
  /\ blank' = blank \cup {Unmarked(Head(waiting))}
  /\ unresolved' = unresolved + 1
  /\ limited' = TRUE
  /\ UNCHANGED drawn

GiveUp ==
  /\ waiting # <<>>
  /\ blank' = blank \cup {Unmarked(waiting[i]) : i \in DOMAIN waiting}
  /\ unresolved' = unresolved + Len(waiting)
  /\ waiting' = <<>>
  /\ limited' = TRUE
  /\ UNCHANGED drawn

Anchor ==
  /\ waiting = <<>>
  /\ \E e \in drawn : \E x \in e.from + 1 .. e.to - 1 :
       drawn' = (drawn \ {e}) \cup {Edge(e.from, x), Edge(x, e.to)}
  /\ UNCHANGED <<waiting, blank, unresolved, limited>>

StopAnchoring ==
  /\ waiting = <<>>
  /\ drawn # {}
  /\ limited' = TRUE
  /\ UNCHANGED <<waiting, drawn, blank, unresolved>>

Next ==
  \/ \E n \in 2 .. PointLimit : Begin(n)
  \/ Deliver \/ Judge \/ TooDeep \/ GiveUp \/ Anchor \/ StopAnchoring

Spec == Init /\ [][Next]_vars
================================================================================
