---------------------------- MODULE ConnectionLine ----------------------------
(***************************************************************************)
(* What the worker pool promises about connections, without a ring, worker *)
(* threads or condition variables: a bounded first-in first-out line whose *)
(* members leave it once, from its front, into the hands of one owner who  *)
(* closes them, and a gate that, once shut, lets nobody in or be served.   *)
(***************************************************************************)
EXTENDS Integers, Sequences

CONSTANTS Connections, Capacity

VARIABLES
  line,     \* the connections that wait, oldest first
  stage,    \* per connection: "new", "waiting", "owned" or "gone"
  shut

vars == <<line, stage, shut>>

Init ==
  /\ line = <<>>
  /\ stage = [c \in Connections |-> "new"]
  /\ shut = FALSE

Arrive(c) ==
  /\ ~shut
  /\ stage[c] = "new"
  /\ stage' = [stage EXCEPT ![c] = "owned"]
  /\ UNCHANGED <<line, shut>>

Admit(c) ==
  /\ ~shut
  /\ stage[c] = "owned"
  /\ Len(line) < Capacity
  /\ line' = Append(line, c)
  /\ stage' = [stage EXCEPT ![c] = "waiting"]
  /\ UNCHANGED shut

(* The n oldest leave: one to a worker, or all that waited too long. *)
Leave(n) ==
  /\ ~shut
  /\ line' = SubSeq(line, n + 1, Len(line))
  /\ stage' = [c \in Connections |->
                 IF \E k \in 1 .. n : line[k] = c THEN "owned" ELSE stage[c]]
  /\ UNCHANGED shut

Shut ==
  /\ ~shut
  /\ shut' = TRUE
  /\ line' = <<>>
  /\ stage' = [c \in Connections |->
                 IF stage[c] = "waiting" THEN "owned" ELSE stage[c]]

Close(c) ==
  /\ stage[c] = "owned"
  /\ stage' = [stage EXCEPT ![c] = "gone"]
  /\ UNCHANGED <<line, shut>>

Next ==
  \/ \E c \in Connections : Arrive(c) \/ Admit(c) \/ Close(c)
  \/ \E n \in 1 .. Len(line) : Leave(n)
  \/ Shut

Spec == Init /\ [][Next]_vars
================================================================================
