------------------------------ MODULE ClientLocks ------------------------------
(***************************************************************************)
(* What the client store promises to each client, without entries, slots,  *)
(* cursors, counters, clocks or wake-ups: every client owns a payload and  *)
(* a reader-writer lock with a FIFO line.  The payload is "live", "absent" *)
(* (never started, or forgotten) or "retired" (ended, and remembered so    *)
(* that it is not started again).  Only the payload of a client whose lock *)
(* nobody holds or waits for may decay on its own, from live to retired or *)
(* absent, and from retired to absent.                                     *)
(***************************************************************************)
EXTENDS Integers, Sequences, FiniteSets

CONSTANTS Threads, Ids

VARIABLES
  payload,   \* per client: "absent", "live" or "retired"
  holders,   \* per client: the leases in existence
  line       \* per client: the calls that wait, oldest first

vars == <<payload, holders, line>>

Request == [thread : Threads, read : BOOLEAN]

Init ==
  /\ payload = [i \in Ids |-> "absent"]
  /\ holders = [i \in Ids |-> {}]
  /\ line = [i \in Ids |-> <<>>]

Free(i) == holders[i] = {} /\ line[i] = <<>>

(* What time and replacement may do to the payload of a free client. *)
Decays(i) ==
  \/ payload'[i] = payload[i]
  \/ Free(i) /\ payload'[i] = "absent"
  \/ Free(i) /\ payload[i] = "live" /\ payload'[i] = "retired"

OthersDecay(i) == \A j \in Ids \ {i} : Decays(j)

Compatible(i, read) == \A h \in holders[i] : read /\ h.read
ReadersOnly(s) == \A k \in 1 .. Len(s) : s[k].read

Idle(t) ==
  \A i \in Ids :
    /\ \A h \in holders[i] : h.thread # t
    /\ \A k \in 1 .. Len(line[i]) : line[i][k].thread # t

(* The payload a lease may be granted on: a read needs a live one, a free
   client's may be retired first or started when there is none. *)
Granted(i, read) ==
  /\ payload'[i] \in IF read THEN {"live"} ELSE {"live", "retired"}
  /\ \/ payload'[i] = payload[i]
     \/ Free(i) /\ payload[i] = "live"
     \/ payload[i] = "absent" /\ payload'[i] = "live" /\ ~read

Serve(i, t, read) ==
  /\ Idle(t)
  /\ Compatible(i, read)
  /\ line[i] # <<>> => read /\ ReadersOnly(line[i])
  /\ Granted(i, read)
  /\ holders' = [holders EXCEPT ![i] = @ \cup {[thread |-> t, read |-> read]}]
  /\ OthersDecay(i)
  /\ UNCHANGED line

Wait(i, t, read) ==
  /\ Idle(t)
  /\ ~Free(i)
  /\ line' = [line EXCEPT ![i] = Append(@, [thread |-> t, read |-> read])]
  /\ payload'[i] = payload[i]
  /\ OthersDecay(i)
  /\ UNCHANGED holders

Removed(s, k) == SubSeq(s, 1, k - 1) \o SubSeq(s, k + 1, Len(s))

Grant(i, k) ==
  LET r == line[i][k]
  IN /\ Compatible(i, r.read)
     /\ k > 1 => r.read /\ ReadersOnly(SubSeq(line[i], 1, k - 1))
     /\ Granted(i, r.read)
     /\ holders' = [holders EXCEPT ![i] = @ \cup {r}]
     /\ line' = [line EXCEPT ![i] = Removed(@, k)]
     /\ OthersDecay(i)

Leave(i, k) ==
  /\ line' = [line EXCEPT ![i] = Removed(@, k)]
  /\ payload'[i] = payload[i]
  /\ OthersDecay(i)
  /\ UNCHANGED holders

Unlock(i, h) ==
  /\ holders' = [holders EXCEPT ![i] = @ \ {h}]
  /\ UNCHANGED <<payload, line>>

(* The holder of an exclusive lease ends the session. *)
Retire(i) ==
  /\ \E h \in holders[i] : ~h.read
  /\ payload[i] = "live"
  /\ payload' = [payload EXCEPT ![i] = "retired"]
  /\ UNCHANGED <<holders, line>>

Decay ==
  /\ payload' \in [Ids -> {"absent", "live", "retired"}]
  /\ \A i \in Ids : Decays(i)
  /\ UNCHANGED <<holders, line>>

Next ==
  \/ \E i \in Ids, t \in Threads, read \in BOOLEAN :
       Serve(i, t, read) \/ Wait(i, t, read)
  \/ \E i \in Ids : \E k \in 1 .. Len(line[i]) : Grant(i, k) \/ Leave(i, k)
  \/ \E i \in Ids : \E h \in holders[i] : Unlock(i, h)
  \/ \E i \in Ids : Retire(i)
  \/ Decay

Spec == Init /\ [][Next]_vars
================================================================================
