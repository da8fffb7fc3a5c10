--------------------------- MODULE WebTrafficProofs ---------------------------
(***************************************************************************)
(* Theorems about WebTraffic for any number of connections, any requests   *)
(* and any deadlines.                                                      *)
(*                                                                         *)
(* Whatever a worker does is a move of its own connection (Moves), so what *)
(* holds of one connection is proved of one move: its time and its lease   *)
(* end (Timed, Served).  Leases that meet are compatible (Exclusive), and  *)
(* only the holder of an exclusive one changes the session; so every step  *)
(* is a step of Session, or an expiry, and what SessionProofs proves holds *)
(* behind the server.  A page is a copy of the list it was read from for   *)
(* as long as its revision is the list's (Current), and afterwards pages   *)
(* of one revision agree because they did then (Agreed).                   *)
(***************************************************************************)
EXTENDS WebTraffic, SessionProofs

-----------------------------------------------------------------------------
(* Connections one by one *)

Phases == {"idle", "reading", "waiting", "serving", "listing", "sending", "draining"}
Leases == {"none"} \cup {Leased[q].value : q \in Requests}

(* What was chosen of a list is an interval of its places. *)
Pages ==
  {p \in [at : Nat, total : Nat, chosen : SUBSET Nat, items : Seq(Entries \cup {None})] :
     \E a \in Nat \ {0}, b \in Nat : p.chosen = a .. b}

States ==
  [pc : Phases, request : Requests \cup {None}, arrived : Nat, left : Nat, age : Nat,
   lease : Leases, held : Nat, page : Pages \cup {None}, code : Nat]

(* What a worker may have spent once its phase has had its deadline. *)
AgeLimit(s) ==
  CASE s.pc = "idle" -> 0
    [] s.pc = "reading" -> ReadTicks
    [] s.pc = "waiting" -> ReadTicks + WaitTicks
    [] s.pc = "serving" -> ReadTicks + WaitTicks + ServeTicks
    [] s.pc = "listing" -> ReadTicks + WaitTicks + ServeTicks
    [] s.pc = "sending" -> ReadTicks + SendTicks
                             + (IF s.code = 413 THEN 0 ELSE WaitTicks + ServeTicks)
    [] OTHER -> ReadTicks + SendTicks + DrainTicks

Timed(s) ==
  /\ s.age + s.left <= AgeLimit(s)
  /\ s.lease # "none" =>
       s.held + s.left <= ServeTicks + (IF s.pc = "sending" THEN SendTicks ELSE 0)

(* How far a request has come says which lease its connection has. *)
Served(s) ==
  /\ s.pc = "idle" => s = Closed
  /\ s.pc # "idle" => s.request \in Requests
  /\ s.pc \in {"reading", "waiting", "draining"} => s.lease = "none"
  /\ s.pc \in {"waiting", "serving", "listing"} => Leased[s.request].status = "OK"
  /\ s.pc = "waiting" => Leased[s.request].value # "none"
  /\ s.pc \in {"serving", "listing"} => s.lease = Leased[s.request].value
  /\ s.pc = "listing" => HandlerOf(s.request) = "session" /\ s.lease = "READ"
  /\ s.pc = "sending" /\ s.lease # "none" => HandlerOf(s.request) = "evaluate" /\ s.code # 413
  /\ s.lease = "none" => s.held = 0

Complete(s) == Len(s.page.items) = Cardinality(s.page.chosen)

(* A page is read to its end before it is sent. *)
Paged(s) ==
  /\ s.pc \notin {"listing", "sending"} => s.page = None
  /\ s.pc = "listing" => s.page \in Pages
  /\ s.pc = "sending" /\ s.code = 413 => s.page = None
  /\ s.pc = "sending" /\ s.code = 200 /\ s.page # None => Complete(s)

Sound(s) == s \in States /\ Timed(s) /\ Served(s) /\ Paged(s)

(* What a step may do to the connection it works on. *)
Reads(s, t) ==
  \/ /\ s.pc = "idle"
     /\ \E q \in Requests :
          t = [Closed EXCEPT !.pc = "reading", !.request = q, !.left = ReadTicks]
  \/ s.pc = "reading" /\ t = Received(s)

Routes(s, t) ==
  /\ s.pc = "reading"
  /\ \/ \E code \in Nat : t = Replying(s, code)
     \/ /\ Leased[s.request].status = "OK"
        /\ t = IF Leased[s.request].value = "none"
               THEN [s EXCEPT !.pc = "serving", !.left = ServeTicks]
               ELSE [s EXCEPT !.pc = "waiting", !.left = WaitTicks]

Acquires(s, t) ==
  /\ s.pc = "waiting"
  /\ \/ t = [s EXCEPT !.pc = "serving", !.left = ServeTicks,
                      !.lease = Leased[s.request].value]
     \/ \E code \in Nat \ {413} : t = Replying(s, code)

Finishes(s, t) ==
  /\ s.pc \in {"serving", "listing"}
  /\ \E code \in Nat \ {413} :
       /\ t = Delivered(s.request, Replying(s, code))
       /\ s.pc = "listing" /\ code = 200 => Complete(s)

Lists(s, t) ==
  \/ /\ s.pc = "serving" /\ s.lease = "READ" /\ HandlerOf(s.request) = "session"
     /\ \E p \in Pages : t = [s EXCEPT !.pc = "listing", !.page = p]
  \/ /\ s.pc = "listing"
     /\ \E p \in Pages : t = [s EXCEPT !.page = p]

Ends(s, t) ==
  \/ /\ s.pc = "sending"
     /\ t = IF s.code = 413 THEN [s EXCEPT !.pc = "draining", !.left = DrainTicks] ELSE Closed
  \/ s.pc = "draining" /\ t = Closed

Moves(s, t) ==
  Reads(s, t) \/ Routes(s, t) \/ Acquires(s, t) \/ Finishes(s, t) \/ Lists(s, t) \/ Ends(s, t)

Aged(s) ==
  IF s.pc = "idle" THEN s
  ELSE [s EXCEPT !.left = @ - 1, !.age = @ + 1,
                 !.held = IF s.lease = "none" THEN 0 ELSE @ + 1]

(* Every deadline is a number of ticks. *)
LEMMA Ticks ==
  /\ ReadTicks \in Nat /\ WaitTicks \in Nat /\ ServeTicks \in Nat /\ SendTicks \in Nat
  /\ DrainTicks \in Nat
  BY TrafficAssumption DEF TrafficAssumption

(* A connection that reads a page is told from one that reads none. *)
LEMMA PageIsNotNone == None \notin Pages
<1>1. DOMAIN None = {"none"}
  BY DEF None
<1>2. ASSUME NEW p \in Pages PROVE p # None
  <2>1. DOMAIN p = {"at", "total", "chosen", "items"}
    BY DEF Pages
  <2>2. "at" \notin {"none"}
    OBVIOUS
  <2> QED
    BY <1>1, <2>1, <2>2
<1> QED
  BY <1>2

(* What each field of a connection may hold. *)
LEMMA StateFields ==
  ASSUME NEW s \in States
  PROVE  /\ s.pc \in Phases /\ s.request \in Requests \cup {None}
         /\ s.arrived \in Nat /\ s.left \in Nat /\ s.age \in Nat /\ s.held \in Nat
         /\ s.code \in Nat /\ s.lease \in Leases /\ s.page \in Pages \cup {None}
  BY DEF States

(* A connection may hold no lease. *)
LEMMA NoLease == "none" \in Leases
  BY DEF Leases

(* A worker that waits for a connection is sound. *)
LEMMA ClosedSound == Sound(Closed)
<1>1. Closed \in States
  BY NoLease DEF Closed, States, Phases
<1>2. AgeLimit(Closed) = 0
  BY DEF AgeLimit, Closed
<1>3. Timed(Closed)
  BY <1>2 DEF Timed, Closed
<1> QED
  BY <1>1, <1>3 DEF Closed, Sound, Served, Paged

(* A connection is sound if its parts are. *)
LEMMA SoundParts ==
  ASSUME NEW s, Sound(s)
  PROVE  /\ s \in States /\ s.left \in Nat /\ s.age \in Nat /\ s.held \in Nat
         /\ Timed(s) /\ Served(s) /\ Paged(s)
  BY StateFields DEF Sound

(* Accepting a connection and reading its request keep it sound. *)
LEMMA ReadsSound ==
  ASSUME NEW s, NEW t, Sound(s), Reads(s, t)
  PROVE  Sound(t)
<1>1. Closed \in States /\ s \in States
  BY ClosedSound DEF Sound
<1>2. ASSUME NEW q \in Requests,
             t = [Closed EXCEPT !.pc = "reading", !.request = q, !.left = ReadTicks]
      PROVE  Sound(t)
  <2>1. t \in States
    BY <1>1, <1>2, Ticks DEF States, Phases
  <2>2. /\ t.pc = "reading" /\ t.request = q /\ t.left = ReadTicks /\ t.age = 0
        /\ t.lease = "none" /\ t.held = 0 /\ t.page = None
    BY <1>1, <1>2 DEF States, Closed
  <2>3. AgeLimit(t) = ReadTicks
    BY <2>2 DEF AgeLimit
  <2>4. Timed(t)
    BY <2>2, <2>3, Ticks DEF Timed
  <2>5. Served(t) /\ Paged(t)
    BY <2>2 DEF Served, Paged
  <2> QED
    BY <2>1, <2>4, <2>5 DEF Sound
<1>3. ASSUME s.pc = "reading", t = Received(s)
      PROVE  Sound(t)
  <2>1. t \in States
    BY <1>1, <1>3 DEF States, Received
  <2>2. /\ t.pc = "reading" /\ t.request = s.request /\ t.left = s.left /\ t.age = s.age
        /\ t.lease = s.lease /\ t.held = s.held /\ t.page = s.page
    BY <1>1, <1>3 DEF States, Received
  <2>3. AgeLimit(t) = AgeLimit(s)
    BY <1>3, <2>2 DEF AgeLimit
  <2>4. Timed(t)
    BY <1>3, <2>2, <2>3 DEF Sound, Timed
  <2>5. Served(t) /\ Paged(t)
    BY <1>3, <2>2 DEF Sound, Served, Paged
  <2> QED
    BY <2>1, <2>4, <2>5 DEF Sound
<1> QED
  BY <1>2, <1>3 DEF Reads

(* A reply sets the phase, its deadline and the code and nothing else. *)
LEMMA ReplyFields ==
  ASSUME NEW s \in States, NEW code \in Nat
  PROVE  /\ Replying(s, code) \in States
         /\ Replying(s, code).pc = "sending" /\ Replying(s, code).left = SendTicks
         /\ Replying(s, code).code = code
         /\ Replying(s, code).age = s.age /\ Replying(s, code).held = s.held
         /\ Replying(s, code).lease = s.lease /\ Replying(s, code).page = s.page
         /\ Replying(s, code).request = s.request
  BY Ticks DEF Replying, States, Phases

(* Giving a lease back ends the time it was held and changes nothing else. *)
LEMMA ReleasedFields ==
  ASSUME NEW s \in States
  PROVE  /\ Released(s) \in States
         /\ Released(s).pc = s.pc /\ Released(s).left = s.left /\ Released(s).code = s.code
         /\ Released(s).age = s.age /\ Released(s).held = 0 /\ Released(s).lease = "none"
         /\ Released(s).page = s.page /\ Released(s).request = s.request
  BY NoLease DEF Released, States

(* A reply without a lease and without a page, in time. *)
LEMMA RefusalSound ==
  ASSUME NEW s \in States, NEW code \in Nat, s.request \in Requests,
         s.lease = "none", s.held = 0, s.page = None,
         s.age <= IF code = 413 THEN ReadTicks ELSE ReadTicks + WaitTicks + ServeTicks
  PROVE  Sound(Replying(s, code))
<1> DEFINE t == Replying(s, code)
<1>1. t \in States
  BY ReplyFields
<1>2. /\ t.pc = "sending" /\ t.left = SendTicks /\ t.code = code /\ t.age = s.age
      /\ t.held = 0 /\ t.lease = "none" /\ t.page = None /\ t.request = s.request
  BY ReplyFields
<1> HIDE DEF t
<1>3. AgeLimit(t) = ReadTicks + SendTicks + (IF code = 413 THEN 0 ELSE WaitTicks + ServeTicks)
  BY <1>2 DEF AgeLimit
<1>4. s.age \in Nat
  BY StateFields
<1>5. Timed(t)
  BY <1>2, <1>3, <1>4, Ticks DEF Timed
<1>6. Served(t) /\ Paged(t)
  BY <1>2 DEF Served, Paged
<1> QED
  BY <1>1, <1>5, <1>6 DEF Sound, t

(* A routed request is answered, served or waits for its lease, each in time. *)
LEMMA RoutesSound ==
  ASSUME NEW s, NEW t, Sound(s), Routes(s, t)
  PROVE  Sound(t)
<1>1. s.pc = "reading"
  BY DEF Routes
<1>2. s \in States /\ s.age \in Nat /\ s.left \in Nat
  BY SoundParts
<1>3. s.request \in Requests /\ s.lease = "none" /\ s.held = 0 /\ s.page = None
  BY <1>1 DEF Sound, Served, Paged
<1>4. s.age <= ReadTicks
  <2>1. AgeLimit(s) = ReadTicks
    BY <1>1 DEF AgeLimit
  <2> QED
    BY <1>2, <2>1, Ticks DEF Sound, Timed
<1>5. ASSUME NEW code \in Nat, t = Replying(s, code)
      PROVE  Sound(t)
  <2>1. s.age <= IF code = 413 THEN ReadTicks ELSE ReadTicks + WaitTicks + ServeTicks
    BY <1>2, <1>4, Ticks
  <2> QED
    BY <1>2, <1>3, <1>5, <2>1, RefusalSound
<1>6. ASSUME Leased[s.request].status = "OK", Leased[s.request].value = "none",
             t = [s EXCEPT !.pc = "serving", !.left = ServeTicks]
      PROVE  Sound(t)
  <2>1. t \in States
    BY <1>2, <1>6, Ticks DEF States, Phases
  <2>2. /\ t.pc = "serving" /\ t.request = s.request /\ t.left = ServeTicks /\ t.age = s.age
        /\ t.lease = s.lease /\ t.held = s.held /\ t.page = s.page
    BY <1>2, <1>6 DEF States
  <2>3. AgeLimit(t) = ReadTicks + WaitTicks + ServeTicks
    BY <2>2 DEF AgeLimit
  <2>4. Timed(t)
    BY <1>2, <1>3, <1>4, <2>2, <2>3, Ticks DEF Timed
  <2>5. Served(t) /\ Paged(t)
    BY <1>3, <1>6, <2>2 DEF Served, Paged
  <2> QED
    BY <2>1, <2>4, <2>5 DEF Sound
<1>7. ASSUME Leased[s.request].status = "OK", Leased[s.request].value # "none",
             t = [s EXCEPT !.pc = "waiting", !.left = WaitTicks]
      PROVE  Sound(t)
  <2>1. t \in States
    BY <1>2, <1>7, Ticks DEF States, Phases
  <2>2. /\ t.pc = "waiting" /\ t.request = s.request /\ t.left = WaitTicks /\ t.age = s.age
        /\ t.lease = s.lease /\ t.held = s.held /\ t.page = s.page
    BY <1>2, <1>7 DEF States
  <2>3. AgeLimit(t) = ReadTicks + WaitTicks
    BY <2>2 DEF AgeLimit
  <2>4. Timed(t)
    BY <1>2, <1>3, <1>4, <2>2, <2>3, Ticks DEF Timed
  <2>5. Served(t) /\ Paged(t)
    BY <1>3, <1>7, <2>2 DEF Served, Paged
  <2> QED
    BY <2>1, <2>4, <2>5 DEF Sound
<1> QED
  BY <1>5, <1>6, <1>7 DEF Routes

(* A worker that was waiting is served with its lease or answered without. *)
LEMMA AcquiresSound ==
  ASSUME NEW s, NEW t, Sound(s), Acquires(s, t)
  PROVE  Sound(t)
<1>1. s.pc = "waiting"
  BY DEF Acquires
<1>2. s \in States /\ s.age \in Nat /\ s.left \in Nat
  BY SoundParts
<1>3. /\ s.request \in Requests /\ s.lease = "none" /\ s.held = 0 /\ s.page = None
      /\ Leased[s.request].status = "OK"
  BY <1>1 DEF Sound, Served, Paged
<1>4. s.age <= ReadTicks + WaitTicks
  <2>1. AgeLimit(s) = ReadTicks + WaitTicks
    BY <1>1 DEF AgeLimit
  <2> QED
    BY <1>2, <2>1, Ticks DEF Sound, Timed
<1>5. ASSUME NEW code \in Nat \ {413}, t = Replying(s, code)
      PROVE  Sound(t)
  <2>1. s.age <= IF code = 413 THEN ReadTicks ELSE ReadTicks + WaitTicks + ServeTicks
    BY <1>2, <1>4, Ticks
  <2> QED
    BY <1>2, <1>3, <1>5, <2>1, RefusalSound
<1>6. ASSUME t = [s EXCEPT !.pc = "serving", !.left = ServeTicks,
                           !.lease = Leased[s.request].value]
      PROVE  Sound(t)
  <2>1. Leased[s.request].value \in Leases
    BY <1>3 DEF Leases
  <2>2. t \in States
    BY <1>2, <1>6, <2>1, Ticks DEF States, Phases
  <2>3. /\ t.pc = "serving" /\ t.request = s.request /\ t.left = ServeTicks /\ t.age = s.age
        /\ t.lease = Leased[s.request].value /\ t.held = s.held /\ t.page = s.page
    BY <1>2, <1>6 DEF States
  <2>4. AgeLimit(t) = ReadTicks + WaitTicks + ServeTicks
    BY <2>3 DEF AgeLimit
  <2>5. Timed(t)
    BY <1>2, <1>3, <1>4, <2>3, <2>4, Ticks DEF Timed
  <2>6. Served(t) /\ Paged(t)
    BY <1>3, <2>3 DEF Served, Paged
  <2> QED
    BY <2>2, <2>5, <2>6 DEF Sound
<1> QED
  BY <1>5, <1>6 DEF Acquires

(* An answer keeps the lease only where sending is part of what it guards. *)
LEMMA FinishesSound ==
  ASSUME NEW s, NEW t, Sound(s), Finishes(s, t)
  PROVE  Sound(t)
<1>1. s.pc \in {"serving", "listing"}
  BY DEF Finishes
<1>2. s \in States /\ s.age \in Nat /\ s.left \in Nat /\ s.held \in Nat
  BY SoundParts
<1>3. /\ s.request \in Requests
      /\ s.pc = "serving" => s.page = None
      /\ s.lease = "none" => s.held = 0
  BY <1>1 DEF Sound, Served, Paged
<1>4. s.age <= ReadTicks + WaitTicks + ServeTicks
  <2>1. AgeLimit(s) = ReadTicks + WaitTicks + ServeTicks
    BY <1>1 DEF AgeLimit
  <2> QED
    BY <1>2, <2>1, Ticks DEF Sound, Timed
<1>5. s.lease # "none" => s.held <= ServeTicks
  BY <1>1, <1>2, Ticks DEF Sound, Timed
<1>6. PICK code \in Nat \ {413} :
        /\ t = Delivered(s.request, Replying(s, code))
        /\ s.pc = "listing" /\ code = 200 => Complete(s)
  BY DEF Finishes
<1> DEFINE u == Replying(s, code)
<1>7. /\ u \in States /\ u.pc = "sending" /\ u.left = SendTicks /\ u.code = code
      /\ u.age = s.age /\ u.held = s.held /\ u.lease = s.lease /\ u.page = s.page
      /\ u.request = s.request
  BY <1>2, <1>6, ReplyFields
<1> HIDE DEF u
<1>8. PICK lease, held :
        /\ t \in States /\ t.pc = "sending" /\ t.left = SendTicks /\ t.code = code
        /\ t.age = s.age /\ t.held = held /\ t.lease = lease /\ t.page = s.page
        /\ t.request = s.request
        /\ \/ lease = "none" /\ held = 0
           \/ lease = s.lease /\ held = s.held /\ HandlerOf(s.request) = "evaluate"
  <2>1. CASE HandlerOf(s.request) = "evaluate"
    <3>1. t = u
      BY <1>6, <2>1 DEF Delivered, u
    <3> QED
      BY <1>7, <2>1, <3>1
  <2>2. CASE HandlerOf(s.request) # "evaluate"
    <3>1. t = Released(u)
      BY <1>6, <2>2 DEF Delivered, u
    <3> QED
      BY <1>7, <3>1, ReleasedFields
  <2> QED
    BY <2>1, <2>2
<1>9. AgeLimit(t) = ReadTicks + SendTicks + (WaitTicks + ServeTicks)
  BY <1>6, <1>8 DEF AgeLimit
<1>10. Timed(t)
  BY <1>2, <1>3, <1>4, <1>5, <1>8, <1>9, Ticks DEF Timed
<1>11. Served(t)
  BY <1>3, <1>6, <1>8 DEF Served
<1>12. Paged(t)
  BY <1>1, <1>3, <1>6, <1>8 DEF Paged, Complete
<1> QED
  BY <1>8, <1>10, <1>11, <1>12 DEF Sound

(* Reading a list takes no time of its own: its deadline is the lease's. *)
LEMMA ListsSound ==
  ASSUME NEW s, NEW t, Sound(s), Lists(s, t)
  PROVE  Sound(t)
<1>1. s.pc \in {"serving", "listing"}
  BY DEF Lists
<1>2. s \in States
  BY SoundParts
<1>3. /\ s.request \in Requests /\ s.lease = "READ" /\ HandlerOf(s.request) = "session"
      /\ Leased[s.request].status = "OK" /\ s.lease = Leased[s.request].value
  BY <1>1 DEF Sound, Lists, Served
<1>4. PICK p \in Pages : t = [s EXCEPT !.pc = "listing", !.page = p]
  <2>1. ASSUME NEW p \in Pages, s.pc = "listing", t = [s EXCEPT !.page = p]
        PROVE  t = [s EXCEPT !.pc = "listing", !.page = p]
    BY <1>2, <2>1 DEF States
  <2> QED
    BY <2>1 DEF Lists
<1>5. t \in States
  BY <1>2, <1>4 DEF States, Phases
<1>6. /\ t.pc = "listing" /\ t.request = s.request /\ t.left = s.left /\ t.age = s.age
      /\ t.lease = s.lease /\ t.held = s.held /\ t.page = p
  BY <1>2, <1>4 DEF States
<1>7. AgeLimit(t) = AgeLimit(s)
  BY <1>1, <1>6 DEF AgeLimit
<1>8. Timed(t)
  BY <1>1, <1>6, <1>7 DEF Sound, Timed
<1>9. Served(t)
  BY <1>3, <1>6 DEF Served
<1>10. Paged(t)
  BY <1>4, <1>6 DEF Paged
<1> QED
  BY <1>5, <1>8, <1>9, <1>10 DEF Sound

(* A sent reply ends the connection, or drains it when its body was refused. *)
LEMMA EndsSound ==
  ASSUME NEW s, NEW t, Sound(s), Ends(s, t)
  PROVE  Sound(t)
<1>1. CASE t = Closed
  BY <1>1, ClosedSound
<1>2. ASSUME s.pc = "sending", s.code = 413, t = [s EXCEPT !.pc = "draining", !.left = DrainTicks]
      PROVE  Sound(t)
  <2>1. s \in States /\ s.left \in Nat /\ s.age \in Nat
    BY SoundParts
  <2>2. s.request \in Requests /\ s.lease = "none" /\ s.held = 0 /\ s.page = None
    BY <1>2 DEF Sound, Served, Paged
  <2>3. AgeLimit(s) = ReadTicks + SendTicks
    BY <1>2, Ticks DEF AgeLimit
  <2>4. s.age <= ReadTicks + SendTicks
    BY <2>1, <2>3, Ticks DEF Sound, Timed
  <2>5. t \in States
    BY <1>2, <2>1, Ticks DEF States, Phases
  <2>6. /\ t.pc = "draining" /\ t.request = s.request /\ t.left = DrainTicks /\ t.age = s.age
        /\ t.lease = s.lease /\ t.held = s.held /\ t.page = s.page
    BY <1>2, <2>1 DEF States
  <2>7. AgeLimit(t) = ReadTicks + SendTicks + DrainTicks
    BY <2>6 DEF AgeLimit
  <2>8. Timed(t)
    BY <2>1, <2>2, <2>4, <2>6, <2>7, Ticks DEF Timed
  <2>9. Served(t)
    BY <2>2, <2>6 DEF Served
  <2> QED
    BY <2>2, <2>5, <2>6, <2>8, <2>9 DEF Sound, Paged
<1> QED
  BY <1>1, <1>2 DEF Ends

(* Whatever a worker does keeps its connection sound. *)
LEMMA MovesSound ==
  ASSUME NEW s, NEW t, Sound(s), Moves(s, t)
  PROVE  Sound(t)
BY ReadsSound, RoutesSound, AcquiresSound, FinishesSound, ListsSound, EndsSound DEF Moves

(* A tick passes from what is left of a deadline to what was spent of it. *)
LEMMA AgedSound ==
  ASSUME NEW s, Sound(s), s.pc # "idle" => s.left > 0
  PROVE  Sound(Aged(s))
<1>1. CASE s.pc = "idle"
  BY <1>1 DEF Aged
<1>2. CASE s.pc # "idle"
  <2> DEFINE t == Aged(s)
  <2>1. s \in States /\ s.age \in Nat /\ s.left \in Nat /\ s.held \in Nat /\ s.left - 1 \in Nat
        /\ s.age + 1 \in Nat /\ s.held + 1 \in Nat
    BY <1>2 DEF Sound, States
  <2>2. t \in States
    BY <1>2, <2>1 DEF Aged, States
  <2>3. t.pc = s.pc /\ t.request = s.request /\ t.left = s.left - 1 /\ t.age = s.age + 1
        /\ t.lease = s.lease /\ t.page = s.page /\ t.code = s.code
        /\ t.held = IF s.lease = "none" THEN 0 ELSE s.held + 1
    BY <1>2, <2>1 DEF Aged, States
  <2> HIDE DEF t
  <2>4. Served(t) /\ Paged(t)
    BY <1>2, <2>3 DEF Sound, Served, Paged, Complete
  <2>5. AgeLimit(t) = AgeLimit(s)
    BY <2>3 DEF AgeLimit
  <2>6. Timed(t)
    BY <1>2, <2>1, <2>3, <2>5, Ticks DEF Sound, Timed, Served
  <2> QED
    BY <2>2, <2>4, <2>6 DEF Sound, t
<1> QED
  BY <1>1, <1>2

-----------------------------------------------------------------------------
(* Codes, routes and leases *)

(* No handler answers 413, which only reading does, and 200 says that it succeeded. *)
LEMMA Codes ==
  ASSUME NEW h, NEW status
  PROVE  /\ Targets!Code(h, status) \in Nat \ {413}
         /\ Targets!Code(h, status) = 200 => status = "OK"
  BY DEF Targets!Code

(* A request for no handler is answered with a number. *)
LEMMA RoutedCode ==
  ASSUME NEW q \in Requests, HandlerOf(q) = "none"
  PROVE  Routed[q].code \in Nat
  BY DEF HandlerOf, Routed, Targets!Route, Targets!RouteGet, Targets!RoutePost,
         Targets!Answer, Targets!Handler

(* What the evaluator handles was sent to its target. *)
LEMMA EvaluationRouted ==
  ASSUME NEW q \in Requests, HandlerOf(q) = "evaluate"
  PROVE  Targets!IsEvaluationTarget(q.fields)
  BY DEF HandlerOf, Routed, Targets!Route, Targets!RouteGet, Targets!RoutePost,
         Targets!Answer, Targets!Handler

FieldRecord == [key : STRING, value : STRING, number : Int]
OptionKeys == {"action", "client", "revision", "form", "scale", "angle", "notation"}
IsOptions(o) == \E W : o \in [OptionKeys -> W]

Put(o, key, v) == [o EXCEPT ![key] = v]

(* Setting an option leaves the others, so the action, as they were. *)
LEMMA OptionSet ==
  ASSUME NEW o, IsOptions(o), NEW key \in OptionKeys, NEW v
  PROVE  /\ IsOptions(Put(o, key, v))
         /\ Put(o, key, v)[key] = v
         /\ key # "action" => Put(o, key, v).action = o.action
<1>1. PICK W : o \in [OptionKeys -> W]
  BY DEF IsOptions
<1>2. [o EXCEPT ![key] = v] \in [OptionKeys -> W \cup {v}]
  BY <1>1
<1>3. "action" \in OptionKeys
  BY DEF OptionKeys
<1> QED
  BY <1>1, <1>2, <1>3 DEF IsOptions, Put

(* A set of numbers that is not empty has a least one. *)
LEMMA LeastNumber ==
  ASSUME NEW S, S \subseteq Nat, S # {}
  PROVE  \E n \in S : \A m \in S : n <= m
<1>1. PICK n \in S : \A m \in S : ~ (<<m, n>> \in OpToRel(<, Nat))
  BY WFMin, NatLessThanWellFounded
<1>2. ASSUME NEW m \in S PROVE n <= m
  <2>1. m \in Nat /\ n \in Nat
    OBVIOUS
  <2>2. ~ (<<m, n>> \in OpToRel(<, Nat))
    BY <1>1
  <2>3. m < n => <<m, n>> \in OpToRel(<, Nat)
    BY <2>1 DEF OpToRel
  <2>4. ~ (m < n)
    BY <2>2, <2>3, Zenon
  <2> QED
    BY <2>1, <2>4
<1> QED
  BY <1>2

(* A place that is found is the first of its key. *)
LEMMA AtFirst ==
  ASSUME NEW fields \in Seq(FieldRecord), NEW key, Targets!Found(fields, key)
  PROVE  /\ Targets!At(fields, key) \in 2 .. Len(fields)
         /\ fields[Targets!At(fields, key)].key = key
         /\ \A k \in 2 .. Targets!At(fields, key) - 1 : fields[k].key # key
         /\ fields[Targets!At(fields, key)] \in FieldRecord
<1>1. PICK j \in 2 .. Len(fields) : fields[j].key = key
  BY DEF Targets!Found
<1> DEFINE S == {k \in Nat : k \in 2 .. Len(fields) /\ fields[k].key = key}
<1>2. S # {} /\ S \subseteq Nat
  BY <1>1
<1>3. PICK k \in S : \A m \in S : k <= m
  BY <1>2, LeastNumber
<1>4. k \in 2 .. Len(fields) /\ fields[k].key = key /\ \A m \in 2 .. k - 1 : fields[m].key # key
  BY <1>3
<1> HIDE DEF S
<1>5. /\ Targets!At(fields, key) \in 2 .. Len(fields)
      /\ fields[Targets!At(fields, key)].key = key
      /\ \A m \in 2 .. Targets!At(fields, key) - 1 : fields[m].key # key
  BY <1>4 DEF Targets!At
<1>6. PICK n \in 1 .. Len(fields) : n = Targets!At(fields, key)
  BY <1>5
<1> QED
  BY <1>5, <1>6

(* An option that is found is the last field, and is taken off the fields. *)
LEMMA SuffixFound ==
  ASSUME NEW options, NEW fields \in Seq(FieldRecord), NEW key, NEW allowed,
         Targets!Suffix(options, fields, key, allowed).status = "OK",
         Targets!Found(fields, key)
  PROVE  /\ Targets!At(fields, key) = Len(fields)
         /\ Targets!Suffix(options, fields, key, allowed).value =
               [options |-> Put(options, key, fields[Targets!At(fields, key)].value),
                fields |-> SubSeq(fields, 1, Targets!At(fields, key) - 1)]
<1>1. Targets!At(fields, key) \in 2 .. Len(fields)
  BY AtFirst
<1>2. Targets!At(fields, key) >= Len(fields)
  BY <1>1 DEF Targets!Suffix, Targets!Ok, Targets!Refused
<1>3. Targets!Suffix(options, fields, key, allowed).value =
        [options |-> Put(options, key, fields[Targets!At(fields, key)].value),
         fields |-> SubSeq(fields, 1, Targets!At(fields, key) - 1)]
  BY DEF Targets!Suffix, Targets!Ok, Targets!Refused, Put
<1> QED
  BY <1>1, <1>2, <1>3

(* Reading a target starts from options that name no action. *)
LEMMA OptionsAtFirst == IsOptions(Targets!NoOptions) /\ Targets!NoOptions.action = "none"
<1>1. Targets!NoOptions \in [OptionKeys -> {"none", 0, "cartesian", 10, "rad", "auto"}]
  BY DEF Targets!NoOptions, OptionKeys
<1> QED
  BY <1>1 DEF Targets!NoOptions, IsOptions

(* Options of the cache do not change which action a target asks for. *)
LEMMA CacheOptionsKeep ==
  ASSUME NEW options, IsOptions(options), NEW fields \in Seq(FieldRecord), NEW parsed,
         parsed = [options |-> options, fields |-> fields],
         Targets!ParseCacheOptions(parsed).status = "OK"
  PROVE  /\ IsOptions(Targets!ParseCacheOptions(parsed).value.options)
         /\ Targets!ParseCacheOptions(parsed).value.fields \in Seq(FieldRecord)
         /\ Targets!ParseCacheOptions(parsed).value.options.action = options.action
<1>1. parsed.options = options /\ parsed.fields = fields
  OBVIOUS
<1>2. CASE ~Targets!Found(fields, "client")
  BY <1>1, <1>2 DEF Targets!ParseCacheOptions, Targets!Ok
<1>3. CASE Targets!Found(fields, "client")
  <2>1. PICK i \in 2 .. Len(fields) : i = Targets!At(fields, "client")
    BY <1>3, AtFirst
  <2>2. ~ (i + 1 # Len(fields) \/ fields[i].value # Targets!Client
             \/ fields[i + 1].key # "revision" \/ fields[i + 1].number < 1)
    BY <1>1, <1>3, <2>1 DEF Targets!ParseCacheOptions, Targets!Refused
  <2>3. Targets!ParseCacheOptions(parsed).value =
          [options |-> Put(Put(options, "client", Targets!Client), "revision", fields[i + 1].number),
           fields |-> SubSeq(fields, 1, i - 1)]
    BY <1>1, <1>3, <2>1, <2>2 DEF Targets!ParseCacheOptions, Targets!Ok, Put
  <2>6. PICK v : v = fields[i + 1].number
    OBVIOUS
  <2>7. PICK n \in Nat : n = i - 1 /\ n <= Len(fields)
    BY <2>1
  <2>8. PICK w : w = Targets!Client
    OBVIOUS
  <2>9. SubSeq(fields, 1, i - 1) \in Seq(FieldRecord)
    BY <2>7
  <2> DEFINE o == Put(options, "client", w)
  <2>10. IsOptions(o) /\ o.action = options.action
    BY OptionSet DEF OptionKeys
  <2>11. IsOptions(Put(o, "revision", v)) /\ Put(o, "revision", v).action = o.action
    <3> HIDE DEF o
    <3> QED
      BY <2>10, OptionSet DEF OptionKeys
  <2>12. PICK new, rest :
           /\ Targets!ParseCacheOptions(parsed).value = [options |-> new, fields |-> rest]
           /\ IsOptions(new) /\ new.action = options.action
           /\ rest \in Seq(FieldRecord)
    BY <2>3, <2>6, <2>8, <2>9, <2>10, <2>11
  <2> QED
    BY <2>12
<1> QED
  BY <1>2, <1>3

(* Options of the evaluation do not change which action a target asks for. *)
LEMMA SuffixKeeps ==
  ASSUME NEW options, IsOptions(options), NEW fields \in Seq(FieldRecord),
         NEW key \in {"form", "notation", "angle"}, NEW allowed,
         Targets!Suffix(options, fields, key, allowed).status = "OK"
  PROVE  /\ IsOptions(Targets!Suffix(options, fields, key, allowed).value.options)
         /\ Targets!Suffix(options, fields, key, allowed).value.fields \in Seq(FieldRecord)
         /\ Targets!Suffix(options, fields, key, allowed).value.options.action = options.action
<1>1. CASE ~Targets!Found(fields, key)
  BY <1>1 DEF Targets!Suffix, Targets!Ok
<1>2. CASE Targets!Found(fields, key)
  <2> DEFINE i == Targets!At(fields, key)
  <2>1. i \in 2 .. Len(fields) /\ fields[i] \in FieldRecord
    BY <1>2, AtFirst
  <2>3. PICK n \in Nat : n = i - 1 /\ n <= Len(fields)
    BY <2>1
  <2>4. Targets!Suffix(options, fields, key, allowed).value =
          [options |-> Put(options, key, fields[i].value), fields |-> SubSeq(fields, 1, i - 1)]
    BY <1>2, SuffixFound
  <2>5. SubSeq(fields, 1, i - 1) \in Seq(FieldRecord)
    BY <2>3
  <2>6. /\ IsOptions(Put(options, key, fields[i].value))
        /\ Put(options, key, fields[i].value).action = options.action
    <3>1. key \in OptionKeys /\ key # "action"
      BY DEF OptionKeys
    <3> HIDE DEF i
    <3> QED
      BY <3>1, OptionSet
  <2> HIDE DEF i
  <2> QED
    BY <2>4, <2>5, <2>6
<1> QED
  BY <1>1, <1>2

(* What an evaluation is routed with is what its query says. *)
LEMMA EvaluationAction ==
  ASSUME NEW fields \in Seq(FieldRecord), Targets!IsEvaluationTarget(fields),
         Targets!EvaluationTarget(fields).status = "OK"
  PROVE  Targets!EvaluationTarget(fields).value.action = Targets!ValueOf(fields, "action", "none")
<1> DEFINE action == Targets!ParseSessionAction(fields)
           cache == Targets!ParseCacheOptions(action.value)
           form == Targets!ParseForm(cache.value)
           notation == Targets!ParseNotation(form.value)
           angle == Targets!ParseAngle(notation.value)
           options == Targets!ParsePrecision(angle.value)
<1>1. /\ action.status = "OK" /\ cache.status = "OK" /\ form.status = "OK"
      /\ notation.status = "OK" /\ angle.status = "OK" /\ options.status = "OK"
      /\ Targets!EvaluationTarget(fields).value = options.value
  BY DEF Targets!EvaluationTarget, Targets!ParseEvaluationOptions, Targets!Then, Targets!Ok,
         Targets!Refused
<1>2. /\ IsOptions(action.value.options) /\ action.value.fields \in Seq(FieldRecord)
      /\ action.value.options.action = Targets!ValueOf(fields, "action", "none")
  <2>1. IsOptions(Targets!NoOptions) /\ Targets!NoOptions.action = "none"
    BY OptionsAtFirst
  <2>2. CASE ~Targets!Found(fields, "action")
    <3>1. action.value = [options |-> Targets!NoOptions, fields |-> fields]
      BY <2>2 DEF Targets!ParseSessionAction, Targets!Suffix, Targets!Ok
    <3>2. "action" \notin Targets!Keys(fields)
      <4>1. Len(fields) \in Nat
        OBVIOUS
      <4>2. ASSUME NEW i \in 1 .. Len(fields), fields[i].key = "action" PROVE FALSE
        <5>1. i = 1 \/ i \in 2 .. Len(fields)
          BY <4>1
        <5>2. i # 1
          BY <4>1, <4>2 DEF Targets!IsEvaluationTarget
        <5> QED
          BY <2>2, <4>2, <5>1, <5>2 DEF Targets!Found
      <4> QED
        BY <4>2 DEF Targets!Keys
    <3> QED
      BY <2>1, <3>1, <3>2 DEF Targets!ValueOf
  <2>3. CASE Targets!Found(fields, "action")
    <3> DEFINE i == Targets!At(fields, "action")
    <3>1. /\ i \in 2 .. Len(fields) /\ fields[i] \in FieldRecord /\ fields[i].key = "action"
          /\ \A k \in 2 .. i - 1 : fields[k].key # "action"
      BY <2>3, AtFirst
    <3>2. /\ i = Len(fields)
          /\ action.value = [options |-> Put(Targets!NoOptions, "action", fields[i].value),
                             fields |-> SubSeq(fields, 1, i - 1)]
      <4>1. action = Targets!Suffix(Targets!NoOptions, fields, "action", Targets!Actions)
        BY DEF Targets!ParseSessionAction
      <4> HIDE DEF action
      <4>2. Targets!Suffix(Targets!NoOptions, fields, "action", Targets!Actions).status = "OK"
        BY <1>1, <4>1
      <4>3. Targets!At(fields, "action") = Len(fields)
        BY <2>3, <4>2, SuffixFound
      <4>4. Targets!Suffix(Targets!NoOptions, fields, "action", Targets!Actions).value =
              [options |-> Put(Targets!NoOptions, "action", fields[i].value),
               fields |-> SubSeq(fields, 1, i - 1)]
        BY <2>3, <4>2, SuffixFound
      <4> QED
        BY <4>1, <4>3, <4>4
    <3> HIDE DEF i
    <3>3. PICK v : v = fields[i].value
      OBVIOUS
    <3>4. PICK n \in Nat : n = i - 1 /\ n <= Len(fields)
      BY <3>1
    <3>5. action.value.fields \in Seq(FieldRecord)
      BY <3>2, <3>4
    <3>6. IsOptions(action.value.options) /\ action.value.options.action = v
      <4>1. "action" \in OptionKeys
        BY DEF OptionKeys
      <4>2. action.value.options = Put(Targets!NoOptions, "action", v)
        BY <3>2, <3>3
      <4> QED
        BY <2>1, <4>1, <4>2, OptionSet
    <3>7. \A k \in 1 .. Len(fields) : fields[k].key = "action" <=> k = i
      <4>1. ASSUME NEW k \in 1 .. Len(fields), fields[k].key = "action" PROVE k = i
        <5>1. k # 1
          BY <3>1, <4>1 DEF Targets!IsEvaluationTarget
        <5>2. k \notin 2 .. i - 1
          BY <3>1, <4>1
        <5> QED
          BY <3>1, <3>2, <5>1, <5>2
      <4> QED
        BY <3>1, <4>1
    <3>8. "action" \in Targets!Keys(fields)
      BY <3>1 DEF Targets!Keys
    <3>9. (CHOOSE k \in 1 .. Len(fields) : fields[k].key = "action") = i
      BY <3>1, <3>7
    <3> QED
      BY <3>3, <3>5, <3>6, <3>8, <3>9 DEF Targets!ValueOf
  <2> QED
    BY <2>2, <2>3
<1>3. /\ IsOptions(cache.value.options) /\ cache.value.fields \in Seq(FieldRecord)
      /\ cache.value.options.action = action.value.options.action
  <2>1. PICK o, f : action.value = [options |-> o, fields |-> f]
    <3>1. action = Targets!Suffix(Targets!NoOptions, fields, "action", Targets!Actions)
      BY DEF Targets!ParseSessionAction
    <3> HIDE DEF action
    <3>2. CASE Targets!Found(fields, "action")
      <4>1. Targets!Suffix(Targets!NoOptions, fields, "action", Targets!Actions).status = "OK"
        BY <1>1, <3>1
      <4> QED
        BY <3>1, <3>2, <4>1, SuffixFound, ZenonT(60)
    <3>3. CASE ~Targets!Found(fields, "action")
      BY <3>1, <3>3 DEF Targets!Suffix, Targets!Ok
    <3> QED
      BY <3>2, <3>3
  <2> HIDE DEF action
  <2> QED
    BY <1>1, <1>2, <2>1, CacheOptionsKeep
<1> HIDE DEF action
<1> HIDE DEF cache
<1>4. /\ IsOptions(form.value.options) /\ form.value.fields \in Seq(FieldRecord)
      /\ form.value.options.action = cache.value.options.action
  BY <1>1, <1>3, SuffixKeeps DEF Targets!ParseForm
<1> HIDE DEF form
<1>5. /\ IsOptions(notation.value.options) /\ notation.value.fields \in Seq(FieldRecord)
      /\ notation.value.options.action = form.value.options.action
  BY <1>1, <1>4, SuffixKeeps DEF Targets!ParseNotation
<1> HIDE DEF notation
<1>6. /\ IsOptions(angle.value.options) /\ angle.value.fields \in Seq(FieldRecord)
      /\ angle.value.options.action = notation.value.options.action
  BY <1>1, <1>5, SuffixKeeps DEF Targets!ParseAngle
<1> HIDE DEF angle
<1>7. options.value.action = angle.value.options.action
  <2> DEFINE f == angle.value.fields
  <2>1. CASE f = <<>>
    BY <2>1 DEF Targets!ParsePrecision, Targets!Ok
  <2>2. CASE f # <<>>
    <3>1. options.value = Put(angle.value.options, "scale", f[1].number)
      BY <1>1, <2>2 DEF Targets!ParsePrecision, Targets!Ok, Targets!Refused, Put
    <3> QED
      BY <1>6, <3>1, OptionSet DEF OptionKeys
  <2> QED
    BY <2>1, <2>2
<1> QED
  BY <1>1, <1>2, <1>3, <1>4, <1>5, <1>6, <1>7, SMTT(60)

(* What the requests are made of, and that their revisions are numbers Session knows. *)
LEMMA RequestFields ==
  ASSUME NEW q \in Requests
  PROVE  /\ q.fields \in Seq(FieldRecord) /\ q.text \in Inputs /\ q.name \in Names
         /\ \A i \in 1 .. Len(q.fields) :
              q.fields[i].key = "revision" =>
                /\ q.fields[i].number <= MaxRevision
                /\ q.path = "/api/conversions" /\ q.fields[i].number > 0
                     => q.fields[i].number \in ConversionRevisions
<1>1. q \in [method : STRING, path : STRING, body : STRING, text : Inputs, name : Names,
             fields : Seq(FieldRecord)]
  BY RequestsAssumption DEF RequestsAssumption, FieldRecord
<1>2. DOMAIN q.fields = 1 .. Len(q.fields)
  BY <1>1
<1> QED
  BY <1>1, <1>2, RequestsAssumption DEF RequestsAssumption

(* An evaluation that continues, confirms or cancels is lent the lease LIVE. *)
LEMMA EvaluationLease ==
  ASSUME NEW q \in Requests, HandlerOf(q) = "evaluate", Leased[q].status = "OK",
         WordOf(q, "action") \notin {"none", "start"}
  PROVE  Leased[q].value = "LIVE"
<1>1. Targets!IsEvaluationTarget(q.fields)
  BY EvaluationRouted
<1>2. Leased[q] = Targets!LeaseOf("evaluate", q.method, q.path, q.fields, q.body)
  BY DEF Leased, HandlerOf
<1>3. Targets!EvaluationTarget(q.fields).status = "OK"
  BY <1>2 DEF Targets!LeaseOf, Targets!Then
<1>4. Targets!EvaluationTarget(q.fields).value.action = WordOf(q, "action")
  BY <1>1, <1>3, RequestFields, EvaluationAction DEF WordOf
<1> QED
  BY <1>2, <1>3, <1>4 DEF Targets!LeaseOf, Targets!Then, Targets!Ok

(* The revision a request names is one that Session can be asked for. *)
LEMMA RevisionAsked ==
  ASSUME NEW q \in Requests
  PROVE  /\ FieldOf(q, "revision") \in Int /\ FieldOf(q, "revision") <= MaxRevision
         /\ q.path = "/api/conversions" /\ FieldOf(q, "revision") > 0
              => FieldOf(q, "revision") \in ConversionRevisions
<1>1. MaxRevision \in Nat
  BY SessionAssumption DEF SessionAssumption
<1>2. CASE "revision" \notin Targets!Keys(q.fields)
  BY <1>1, <1>2 DEF FieldOf, Targets!NumberIn
<1>3. CASE "revision" \in Targets!Keys(q.fields)
  <2>1. \E i \in 1 .. Len(q.fields) : q.fields[i].key = "revision"
    BY <1>3 DEF Targets!Keys
  <2>2. PICK i \in 1 .. Len(q.fields) :
          q.fields[i].key = "revision" /\ FieldOf(q, "revision") = q.fields[i].number
    BY <1>3, <2>1 DEF FieldOf, Targets!NumberIn
  <2>3. q.fields[i] \in FieldRecord
    BY RequestFields
  <2>4. q.fields[i].number \in Int
    BY <2>3 DEF FieldRecord
  <2> QED
    BY <2>2, <2>4, RequestFields
<1> QED
  BY <1>2, <1>3

(* A request of the session is lent what ApiAccess says of it. *)
LEMMA SessionLease ==
  ASSUME NEW q \in Requests, HandlerOf(q) = "session", Leased[q].status = "OK"
  PROVE  Targets!ApiAccess(q.method, q.path, q.fields, q.body) = Leased[q]
  BY DEF Leased, HandlerOf, Targets!LeaseOf, Targets!Refused

Listed == Targets!Listings \cup {"/api/session", "/api/session/value"}

(* A page that was routed starts within a list and is of 1 to 32 items. *)
LEMMA ReadRouted ==
  ASSUME NEW q \in Requests, HandlerOf(q) = "session", Leased[q].status = "OK",
         q.path \in Listed
  PROVE  /\ FieldOf(q, "offset") \in 0 .. 32
         /\ Targets!NumberIn(q.fields, "limit", 8) \in 1 .. 32
<1>1. Targets!SessionAccess(q.method, q.path, q.fields, q.body).status = "OK"
  BY SessionLease DEF Targets!ApiAccess, Listed, Targets!Listings
<1>2. Targets!SessionNumbers(q.fields)
  BY <1>1 DEF Targets!SessionAccess, Targets!Refused
<1> QED
  BY <1>2 DEF Targets!SessionNumbers, Targets!Within, FieldOf

(* The word a mutation was routed by is the action it asks for. *)
LEMMA MutationRouted ==
  ASSUME NEW q \in Requests, HandlerOf(q) = "session", Leased[q].status = "OK",
         Leased[q].value = "RETAINED", Mutation(q).status = "OK"
  PROVE  /\ Mutation(q).value \in {"clear", "convert"} => q.path = "/api/conversions"
         /\ Mutation(q).value \in {"reset", "clear-history", "release"}
              => WordOf(q, "action") = Mutation(q).value
<1>1. q.path \in {"/api/session", "/api/conversions"}
  <2>1. Targets!ApiAccess(q.method, q.path, q.fields, q.body) = Leased[q]
    BY SessionLease
  <2>2. q.path \notin {"/api/equations/solve", "/api/graph/verify", "/api/graph/sample",
                       "/api/graph/plot"}
    <3>1. ASSUME NEW keys, NEW needed, NEW low, NEW high
          PROVE  Targets!Stateless(q.method, q.fields, keys, needed, low, high) # Leased[q]
      BY DEF Targets!Stateless, Targets!Ok, Targets!Refused
    <3>2. Targets!EquationAccess(q.method, q.fields) # Leased[q]
      BY <3>1 DEF Targets!EquationAccess, Targets!Refused
    <3>3. \A adaptive \in BOOLEAN : Targets!GraphAccess(q.method, q.fields, adaptive) # Leased[q]
      BY DEF Targets!GraphAccess, Targets!Ok, Targets!Refused
    <3> QED
      BY <2>1, <3>1, <3>2, <3>3 DEF Targets!ApiAccess
  <2>3. Targets!SessionAccess(q.method, q.path, q.fields, q.body) = Leased[q]
    BY <2>1, <2>2 DEF Targets!ApiAccess
  <2> QED
    BY <2>3 DEF Targets!SessionAccess, Targets!Ok, Targets!Refused
<1> QED
  BY <1>1 DEF Mutation, Targets!SessionMutation, WordOf, Targets!Ok, Targets!Refused

-----------------------------------------------------------------------------
(* The session behind the server *)

(* A list is in the order of its revisions, none of them later than top. *)
Ordered(s, top) ==
  /\ \A j, k \in 1 .. Len(s) : j < k => s[j].revision < s[k].revision
  /\ \A k \in 1 .. Len(s) : s[k].revision <= top

Dated == Ordered(history, revision) /\ Ordered(conversions, conversionRevision)

SessionSound == IInv /\ Dated

(* What is listed only changes when its revision does; at the top of its range
   the mark of the conversions cannot. *)
ListsMarked ==
  /\ revision' >= revision /\ conversionRevision' >= conversionRevision
  /\ history' # history \/ variables' # variables => revision' > revision
  /\ conversions' # conversions =>
       conversionRevision' > conversionRevision \/ conversionRevision = MaxRevision
  /\ released => UNCHANGED vars

(* An empty list is in order. *)
LEMMA OrderedNone ==
  ASSUME NEW top
  PROVE  Ordered(<<>>, top)
<1>1. Len(<<>>) = 0
  OBVIOUS
<1> QED
  BY <1>1 DEF Ordered

(* A list in order is in order below any later revision. *)
LEMMA OrderedLater ==
  ASSUME NEW s \in Seq(Entries), NEW top \in Nat, NEW later \in Nat, top <= later,
         Ordered(s, top)
  PROVE  Ordered(s, later)
<1>1. \A k \in 1 .. Len(s) : s[k].revision \in Nat
  BY EntryKnown
<1> QED
  BY <1>1 DEF Ordered

(* What is appended is later than all there was. *)
LEMMA OrderedAppended ==
  ASSUME NEW s \in Seq(Entries), NEW n \in Nat \ {0}, Len(s) <= n, NEW top \in Nat,
         Ordered(s, top), NEW e \in Entries, e.revision > top
  PROVE  Ordered(Appended(s, n, e), e.revision)
<1> DEFINE d == IF Len(s) = n THEN 1 ELSE 0
<1>1. PICK a : a = Appended(s, n, e)
  OBVIOUS
<1>2. /\ a \in Seq(Entries) /\ a # <<>> /\ Last(a) = e /\ Len(a) = Len(s) + 1 - d
      /\ \A k \in 1 .. Len(a) - 1 : a[k] = s[k + d]
  BY <1>1, AppendedHolds
<1>3. d \in {0, 1} /\ Len(s) \in Nat
  OBVIOUS
<1> HIDE DEF d
<1>4. PICK m \in Nat \ {0} : m = Len(a) /\ a[m] = e
  BY <1>2 DEF Last
<1>5. \A k \in 1 .. m - 1 : k + d \in 1 .. Len(s) /\ a[k] = s[k + d]
  BY <1>2, <1>3, <1>4
<1>6. \A k \in 1 .. Len(s) : s[k].revision \in Nat /\ s[k].revision <= top
  BY EntryKnown DEF Ordered
<1>7. e.revision \in Nat
  BY EntryKnown
<1>8. \A k \in 1 .. m - 1 : a[k].revision \in Nat /\ a[k].revision < e.revision
  BY <1>5, <1>6, <1>7
<1>9. ASSUME NEW j \in 1 .. m, NEW k \in 1 .. m, j < k
      PROVE  a[j].revision < a[k].revision
  <2>1. CASE k = m
    BY <1>4, <1>8, <1>9, <2>1
  <2>2. CASE k # m
    <3>1. j \in 1 .. m - 1 /\ k \in 1 .. m - 1
      BY <1>4, <1>9, <2>2
    <3>2. j + d \in 1 .. Len(s) /\ k + d \in 1 .. Len(s) /\ j + d < k + d
      BY <1>3, <1>5, <1>9, <3>1
    <3> QED
      BY <1>5, <3>1, <3>2 DEF Ordered
  <2> QED
    BY <2>1, <2>2
<1>10. \A k \in 1 .. m : a[k].revision <= e.revision
  <2>1. \A k \in 1 .. m : k = m \/ k \in 1 .. m - 1
    BY <1>4
  <2> QED
    BY <1>4, <1>7, <1>8, <2>1
<1> QED
  BY <1>1, <1>4, <1>9, <1>10 DEF Ordered

(* Every call of the session keeps its lists in order and marks a change. *)
LEMMA SessionMarked ==
  ASSUME SessionSound, [Next]_vars
  PROVE  Dated' /\ ListsMarked
<1>1. /\ revision \in Nat /\ conversionRevision \in Nat /\ revision <= MaxRevision
      /\ conversionRevision <= MaxRevision /\ MaxRevision \in Nat
      /\ Revisions \subseteq Nat /\ ConversionRevisions \subseteq Nat
  BY SessionAssumption DEF SessionSound, IInv, Typed, SessionAssumption, Revisions
<1>2. /\ history \in Seq(Entries) /\ Len(history) <= HistoryCapacity
      /\ conversions \in Seq(Entries) /\ Len(conversions) <= ConversionCapacity
      /\ HistoryCapacity \in Nat \ {0} /\ ConversionCapacity \in Nat \ {0}
  BY SessionAssumption DEF SessionSound, IInv, Held, SessionAssumption
<1>3. Ordered(history, revision) /\ Ordered(conversions, conversionRevision)
  BY DEF SessionSound, Dated
<1>4. ASSUME NEW r \in Nat, r >= revision, revision' = r,
             UNCHANGED <<history, variables, conversions, conversionRevision>>,
             released => UNCHANGED vars
      PROVE  Dated' /\ ListsMarked
  <2>1. Ordered(history, r)
    BY <1>1, <1>2, <1>3, <1>4, OrderedLater
  <2>2. Dated'
    BY <1>3, <1>4, <2>1 DEF Dated, Ordered
  <2> QED
    BY <1>1, <1>4, <2>2 DEF ListsMarked
<1>5. ASSUME NEW r \in Revisions, NEW in \in Inputs, NEW ctx \in Contexts, NEW seed \in Seeds,
             ShowCached(r, in, ctx, seed) \/ Preview(r, in, ctx, seed)
      PROVE  Dated' /\ ListsMarked
  <2>1. /\ ~released /\ r > revision /\ revision' = r
        /\ UNCHANGED <<history, variables, conversions, conversionRevision>>
    BY <1>5 DEF ShowCached, Preview, Fresh, conversion
  <2> QED
    BY <1>1, <1>4, <2>1
<1>6. ASSUME NEW r \in Revisions, NEW in \in Inputs, NEW ctx \in Contexts, NEW seed \in Seeds,
             Confirm(r, in, ctx, seed)
      PROVE  Dated' /\ ListsMarked
  <2>1. PICK e : e = [expression |-> in, value |-> Computed(in, ctx, seed), context |-> ctx,
                      revision |-> r]
    OBVIOUS
  <2>2. /\ ~released /\ r > revision /\ revision' = r
        /\ history' = Appended(history, HistoryCapacity, e)
        /\ UNCHANGED <<conversions, conversionRevision>>
    BY <1>6, <2>1 DEF Confirm, Fresh, conversion
  <2>3. e \in Entries
    <3>1. Computed(in, ctx, seed) = Value(in, ctx, Base(seed)) /\ Base(seed) \in Nat
      BY ComputedIsValue, BaseTyped DEF SessionSound, IInv
    <3>2. PICK v : v = Computed(in, ctx, seed)
      OBVIOUS
    <3>3. v \in Results(in, ctx) /\ v \in AnyResult
      BY <3>1, <3>2, ValueTyped DEF SessionSound, IInv
    <3> QED
      BY <2>1, <3>2, <3>3 DEF Entries
  <2>4. e.revision = r
    BY <2>1
  <2>5. Ordered(history', revision')
    BY <1>1, <1>2, <1>3, <2>2, <2>3, <2>4, OrderedAppended
  <2>6. Dated'
    BY <1>3, <2>2, <2>5 DEF Dated, Ordered
  <2> QED
    BY <1>1, <2>2, <2>6 DEF ListsMarked
<1>7. ASSUME NEW r \in Revisions, ComputeRejected(r) \/ \E seed \in Seeds : ComputeFails(r, seed)
      PROVE  Dated' /\ ListsMarked
  <2>1. /\ ~released /\ r > revision /\ revision' = r
        /\ UNCHANGED <<history, variables, conversions, conversionRevision>>
    BY <1>7 DEF ComputeRejected, ComputeFails, Fresh, calculation, conversion
  <2> QED
    BY <1>1, <1>4, <2>1
<1>8. ASSUME NEW r \in Revisions, NEW n \in Names, DeleteVariable(r, n)
      PROVE  Dated' /\ ListsMarked
  <2>1. /\ ~released /\ r > revision /\ revision' = r
        /\ UNCHANGED <<history, conversions, conversionRevision>>
    BY <1>8 DEF DeleteVariable, Fresh, conversion
  <2>2. Ordered(history, r)
    BY <1>1, <1>2, <1>3, <2>1, OrderedLater
  <2>3. Dated'
    BY <1>3, <2>1, <2>2 DEF Dated, Ordered
  <2> QED
    BY <1>1, <2>1, <2>3 DEF ListsMarked
<1>9. ASSUME NEW r \in Revisions, ClearHistory(r)
      PROVE  Dated' /\ ListsMarked
  <2>1. /\ ~released /\ r > revision /\ revision' = r /\ history' = <<>>
        /\ UNCHANGED <<variables, conversions, conversionRevision>>
    BY <1>9 DEF ClearHistory, Fresh, conversion
  <2>2. Dated'
    BY <1>3, <2>1, OrderedNone DEF Dated, Ordered
  <2> QED
    BY <1>1, <2>1, <2>2 DEF ListsMarked
<1>10. ASSUME NEW r \in Revisions, NEW action, Restart(r, action)
       PROVE  Dated' /\ ListsMarked
  <2>1. /\ ~released /\ r > revision /\ revision' = r /\ history' = <<>> /\ conversions' = <<>>
        /\ conversionRevision' = RestartMark
    BY <1>10 DEF Restart, Fresh
  <2>2. Dated'
    BY <2>1, OrderedNone DEF Dated
  <2> QED
    BY <1>1, <2>1, <2>2 DEF ListsMarked, RestartMark
<1>11. ASSUME NEW r \in ConversionRevisions, NEW in \in Inputs, NEW ctx \in Contexts,
              ConfirmConversion(r, in, ctx)
       PROVE  Dated' /\ ListsMarked
  <2>1. PICK e : e = [expression |-> in, value |-> Value(in, ctx, 0), context |-> ctx,
                      revision |-> r]
    OBVIOUS
  <2>2. /\ ~released /\ r > conversionRevision /\ conversionRevision' = r
        /\ conversions' = Appended(conversions, ConversionCapacity, e)
        /\ UNCHANGED <<revision, history, variables>>
    BY <1>11, <2>1 DEF ConfirmConversion, ConversionFresh, calculation
  <2>3. e \in Entries
    <3>1. r \in Revisions
      BY SessionAssumption DEF SessionAssumption
    <3>2. PICK v : v = Value(in, ctx, 0)
      OBVIOUS
    <3>3. v \in Results(in, ctx) /\ v \in AnyResult
      BY <3>2, ValueTyped DEF SessionSound, IInv
    <3> QED
      BY <2>1, <3>1, <3>2, <3>3 DEF Entries
  <2>4. e.revision = r
    BY <2>1
  <2>5. Ordered(conversions', conversionRevision')
    BY <1>1, <1>2, <1>3, <2>2, <2>3, <2>4, OrderedAppended
  <2>6. Dated'
    BY <1>3, <2>2, <2>5 DEF Dated, Ordered
  <2> QED
    BY <1>1, <2>2, <2>6 DEF ListsMarked
<1>12. ASSUME NEW r \in ConversionRevisions, ClearConversions(r)
       PROVE  Dated' /\ ListsMarked
  <2>1. /\ ~released /\ r > conversionRevision /\ conversionRevision' = r /\ conversions' = <<>>
        /\ UNCHANGED <<revision, history, variables>>
    BY <1>12 DEF ClearConversions, ConversionFresh, calculation
  <2>2. Dated'
    BY <1>3, <2>1, OrderedNone DEF Dated, Ordered
  <2> QED
    BY <1>1, <2>1, <2>2 DEF ListsMarked
<1>13. CASE UNCHANGED vars
  BY <1>1, <1>4, <1>13 DEF vars, calculation, conversion
<1>14. CASE Evaluations
  BY <1>5, <1>6, <1>14 DEF Evaluations
<1>15. CASE Failures
  BY <1>7, <1>15 DEF Failures
<1>16. CASE Mutations
  BY <1>8, <1>9, <1>10, <1>16 DEF Mutations
<1>17. CASE Conversions
  BY <1>11, <1>12, <1>17 DEF Conversions
<1> QED
  BY <1>13, <1>14, <1>15, <1>16, <1>17 DEF Next

(* An expiry empties the session as a release does. *)
LEMMA ExpirySound ==
  ASSUME SessionSound, Expire
  PROVE  SessionSound'
<1>1. /\ released' = TRUE /\ history' = <<>> /\ detached' = None /\ preview' = None
      /\ conversions' = <<>> /\ variables' = [n \in Names |-> None]
      /\ random' = 0 /\ seeded' = FALSE
      /\ revision' = 0 /\ conversionRevision' = 0 /\ conversionClear' = 0 /\ reserved' = 0
      /\ lifecycle' = [revision |-> 0, action |-> "none"]
      /\ deletion' = [revision |-> 0, name |-> NoName]
      /\ latest' = None
  BY DEF Expire
<1>2. Typed'
  <2>1. 0 \in 0 .. MaxRevision /\ 0 \in 0 .. 0
    BY SessionAssumption DEF SessionAssumption
  <2> QED
    BY <1>1, <2>1 DEF Typed
<1>3. Held'
  <2>1. <<>> \in Seq(Entries) /\ Len(<<>>) = 0
    BY EmptySeq
  <2>2. history' \in Seq(Entries) /\ Len(history') = 0
    BY <1>1, <2>1, Zenon
  <2>3. conversions' \in Seq(Entries) /\ Len(conversions') = 0
    BY <1>1, <2>1, Zenon
  <2>4. 0 <= HistoryCapacity /\ 0 <= ConversionCapacity
    BY SessionAssumption DEF SessionAssumption
  <2> QED
    BY <1>1, <2>2, <2>3, <2>4 DEF Held
<1>4. Seeded' /\ PreviewCurrent' /\ DrawsOnce'
  <2>1. Len(history') = 0
    BY <1>1
  <2> QED
    BY <1>1, <2>1 DEF Seeded, PreviewCurrent, DrawsOnce
<1>5. LatestKnown'
  <2>1. ~Confirmed'
    BY <1>1 DEF Confirmed
  <2>2. revision' = 0 /\ latest' = None
    BY <1>1
  <2> QED
    BY <2>1, <2>2 DEF LatestKnown
<1>6. ReservedIsOwned' /\ WithinLimit'
  <2>1. /\ ValueBytes(preview') = 0 /\ ValueBytes(detached') = 0
    BY <1>1 DEF ValueBytes
  <2>2. BytesOf(history') = 0 /\ BytesOf(conversions') = 0 /\ VariableBytes(variables') = 0
    BY <1>1, BytesNone, VariablesNone, Zenon
  <2>3. StorageBytes' = 0 + 0 + 0 + 0 + 0
    BY <2>1, <2>2, StorageSplit
  <2> QED
    BY <1>1, <2>3, SessionAssumption DEF ReservedIsOwned, WithinLimit, SessionAssumption
<1>7. Dated'
  BY <1>1, OrderedNone DEF Dated
<1> QED
  BY <1>2, <1>3, <1>4, <1>5, <1>6, <1>7 DEF SessionSound, IInv

(* A new session has listed nothing. *)
LEMMA SessionSoundAtFirst == Init => SessionSound
<1>1. Init => Dated
  BY OrderedNone DEF Init, Dated
<1> QED
  BY <1>1, InitHolds DEF SessionSound

(* A step of Session keeps its invariants. *)
LEMMA SessionSoundNext ==
  ASSUME SessionSound, [Next]_vars
  PROVE  SessionSound'
BY StepHolds, SessionMarked DEF SessionSound

-----------------------------------------------------------------------------
(* Every step of the server *)

TrafficSound == conn \in [Connections -> States] /\ \A c \in Connections : Sound(conn[c])

ItemAt(listed, n) == IF n <= Len(listed) THEN listed[n] ELSE None

(* A lease is kept, given back or newly lent. *)
Relends(c, t) ==
  \/ t.lease = "none"
  \/ t.lease = conn[c].lease
  \/ /\ conn[c].pc = "waiting" /\ Available(c) /\ Lent(t.lease)
     /\ t.lease = Leased[conn[c].request].value

(* A step that leaves the session and its pages as they are. *)
Works(c, t) ==
  /\ UNCHANGED vars
  /\ t.pc # "listing"
  /\ t.page = None \/ (t.page = conn[c].page /\ t.request = conn[c].request)
  /\ Relends(c, t)
  /\ \/ seen' = seen
     \/ /\ conn[c].pc = "sending" /\ IsPage(conn[c])
        /\ seen' = [path |-> conn[c].request.path, page |-> conn[c].page]

Opens(c, t) ==
  /\ UNCHANGED <<vars, seen>>
  /\ conn[c].lease = "READ" /\ t.lease = "READ"
  /\ t.pc = "listing" /\ t.request = conn[c].request
  /\ t.page.at = PinnedTo(t.request.path)
  /\ t.page.total = Len(Listing(t.request.path))
  /\ t.page.items = <<>>

Continues(c, t) ==
  /\ UNCHANGED <<vars, seen>>
  /\ conn[c].pc = "listing" /\ t.pc = "listing"
  /\ t.request = conn[c].request /\ t.lease = conn[c].lease
  /\ conn[c].page.chosen # {}
  /\ t.page = [conn[c].page EXCEPT !.items =
                 Append(@, ItemAt(Listing(t.request.path), Min(conn[c].page.chosen) + Len(@)))]

(* Only the holder of an exclusive lease calls the session. *)
Calls(c, t) ==
  /\ [Next]_vars /\ seen' = seen
  /\ conn[c].pc = "serving" /\ conn[c].lease \in {"LIVE", "RETAINED"}
  /\ t.pc = "sending" /\ t.page = None /\ t.lease \in {conn[c].lease, "none"}

Steps(c, t) ==
  /\ conn' = [conn EXCEPT ![c] = t]
  /\ Moves(conn[c], t)
  /\ Works(c, t) \/ Opens(c, t) \/ Continues(c, t) \/ Calls(c, t)

Ages ==
  /\ UNCHANGED <<vars, seen>>
  /\ conn' = [c \in Connections |-> Aged(conn[c])]
  /\ \A c \in Connections : conn[c].pc # "idle" => conn[c].left > 0

(* The end of a request is a reply with the lease it had or none. *)
LEMMA FinishStep ==
  ASSUME NEW c \in Connections, Sound(conn[c]), NEW status, Finish(c, status),
         conn[c].pc \in {"serving", "listing"},
         conn[c].pc = "listing" => status # "OK" \/ Complete(conn[c])
  PROVE  \E t : /\ conn' = [conn EXCEPT ![c] = t]
                /\ Moves(conn[c], t) /\ seen' = seen
                /\ t.pc = "sending" /\ t.lease \in {conn[c].lease, "none"}
                /\ t.request = conn[c].request /\ t.page = conn[c].page
<1>1. PICK s : s = conn[c]
  OBVIOUS
<1>2. PICK code \in Nat \ {413} :
        /\ code = Code(s.request, status)
        /\ code = 200 => status = "OK"
  BY Codes DEF Code
<1>3. PICK t : t = Delivered(s.request, Replying(s, code))
  OBVIOUS
<1>4. conn' = [conn EXCEPT ![c] = t] /\ seen' = seen
  BY <1>1, <1>2, <1>3 DEF Finish, Changed, Unaltered
<1>5. Finishes(s, t)
  BY <1>1, <1>2, <1>3 DEF Finishes
<1>6. s \in States
  BY <1>1, SoundParts
<1>7. PICK u : /\ u = Replying(s, code) /\ u \in States /\ u.pc = "sending"
               /\ u.lease = s.lease /\ u.page = s.page /\ u.request = s.request
  BY <1>2, <1>6, ReplyFields
<1>8. t = u \/ t = Released(u)
  BY <1>3, <1>7 DEF Delivered
<1>9. t.pc = "sending" /\ t.lease \in {s.lease, "none"} /\ t.request = s.request /\ t.page = s.page
  BY <1>7, <1>8, ReleasedFields
<1> QED
  BY <1>1, <1>4, <1>5, <1>9, ZenonT(60) DEF Moves

(* A request served without touching the session. *)
LEMMA ServedQuietly ==
  ASSUME NEW c \in Connections, Sound(conn[c]), NEW status, Finish(c, status),
         conn[c].pc \in {"serving", "listing"},
         conn[c].pc = "listing" => status # "OK" \/ Complete(conn[c]),
         UNCHANGED vars
  PROVE  \E t : Steps(c, t)
<1>1. PICK t : /\ conn' = [conn EXCEPT ![c] = t]
               /\ Moves(conn[c], t) /\ seen' = seen
               /\ t.pc = "sending" /\ t.lease \in {conn[c].lease, "none"}
               /\ t.request = conn[c].request /\ t.page = conn[c].page
  BY FinishStep
<1> QED
  BY <1>1 DEF Steps, Works, Relends

(* A request served by a call of the session. *)
LEMMA ServedByCall ==
  ASSUME NEW c \in Connections, Sound(conn[c]), NEW status, Finish(c, status),
         conn[c].pc = "serving", conn[c].lease \in {"LIVE", "RETAINED"}, [Next]_vars
  PROVE  \E t : Steps(c, t)
<1>1. PICK t : /\ conn' = [conn EXCEPT ![c] = t]
               /\ Moves(conn[c], t) /\ seen' = seen
               /\ t.pc = "sending" /\ t.lease \in {conn[c].lease, "none"}
               /\ t.request = conn[c].request /\ t.page = conn[c].page
  BY FinishStep
<1>2. conn[c].page = None
  BY DEF Sound, Paged
<1> QED
  BY <1>1, <1>2 DEF Steps, Calls

(* What a worker knows of the request it serves. *)
LEMMA Serving ==
  ASSUME NEW c \in Connections, Sound(conn[c]), conn[c].pc \in {"serving", "listing"}
  PROVE  /\ conn[c].request \in Requests
         /\ Leased[conn[c].request].status = "OK"
         /\ conn[c].lease = Leased[conn[c].request].value
BY DEF Sound, Served

(* A revision that the session finds fresh is one of its revisions. *)
LEMMA FreshAsked ==
  ASSUME SessionSound, NEW q \in Requests
  PROVE  /\ Fresh(FieldOf(q, "revision")) => FieldOf(q, "revision") \in Revisions
         /\ q.path = "/api/conversions" /\ ConversionFresh(FieldOf(q, "revision"))
              => FieldOf(q, "revision") \in ConversionRevisions
<1>1. revision \in Nat /\ conversionRevision \in Nat
  BY SessionAssumption DEF SessionSound, IInv, Typed, SessionAssumption
<1>2. PICK r : r = FieldOf(q, "revision")
  OBVIOUS
<1>3. /\ r \in Int /\ r <= MaxRevision
      /\ q.path = "/api/conversions" /\ r > 0 => r \in ConversionRevisions
  BY <1>2, RevisionAsked
<1>4. Fresh(r) => r \in Revisions
  BY <1>1, <1>3, SessionAssumption DEF Fresh, Revisions, SessionAssumption
<1>5. q.path = "/api/conversions" /\ ConversionFresh(r) => r \in ConversionRevisions
  BY <1>1, <1>3 DEF ConversionFresh
<1> QED
  BY <1>2, <1>4, <1>5

(* An evaluation calls the session once, or reads an answer, and replies. *)
LEMMA EvaluateStep ==
  ASSUME SessionSound, NEW c \in Connections, Sound(conn[c]), Evaluate(c)
  PROVE  \E t : Steps(c, t)
<1>1. PICK q : q = conn[c].request
  OBVIOUS
<1>2. PICK r : r = FieldOf(q, "revision")
  OBVIOUS
<1>3. /\ conn[c].pc = "serving" /\ HandlerOf(q) = "evaluate"
      /\ WordOf(q, "action") \notin {"none", "start"}
  BY <1>1 DEF Evaluate, Serves
<1>4. q \in Requests /\ conn[c].lease = "LIVE" /\ q.text \in Inputs
  BY <1>1, <1>3, Serving, EvaluationLease, RequestFields
<1>5. Fresh(r) => r \in Revisions
  BY <1>2, <1>4, FreshAsked
<1>6. PICK ctx \in Contexts, seed \in Seeds :
        \/ /\ \/ Confirm(r, q.text, ctx, seed)
              \/ UNCHANGED vars
              \/ ShowCached(r, q.text, ctx, seed)
              \/ Preview(r, q.text, ctx, seed)
           /\ Finish(c, "OK")
        \/ /\ ComputeRejected(r) \/ ComputeFails(r, seed)
           /\ Finish(c, "TIME_LIMIT")
        \/ /\ UNCHANGED vars
           /\ Finish(c, IF Fresh(r) THEN "SESSION_MEMORY_LIMIT" ELSE "STALE_REQUEST")
  BY <1>1, <1>2 DEF Evaluate
<1>7. [Next]_vars
  <2>1. CASE UNCHANGED vars
    BY <2>1
  <2>2. CASE Confirm(r, q.text, ctx, seed) \/ ShowCached(r, q.text, ctx, seed)
               \/ Preview(r, q.text, ctx, seed)
    <3>1. r \in Revisions
      BY <1>5, <2>2 DEF Confirm, ShowCached, Preview
    <3> QED
      BY <1>4, <2>2, <3>1 DEF Next, Evaluations
  <2>3. CASE ComputeRejected(r) \/ ComputeFails(r, seed)
    <3>1. r \in Revisions
      BY <1>5, <2>3 DEF ComputeRejected, ComputeFails
    <3> QED
      BY <2>3, <3>1 DEF Next, Failures
  <2> QED
    BY <1>6, <2>1, <2>2, <2>3
<1>8. PICK status : Finish(c, status)
  BY <1>6
<1> QED
  BY <1>3, <1>4, <1>7, <1>8, ServedByCall

(* A deletion calls the session once and replies. *)
LEMMA DeleteStep ==
  ASSUME SessionSound, NEW c \in Connections, Sound(conn[c]), Delete(c)
  PROVE  \E t : Steps(c, t)
<1>1. PICK q : q = conn[c].request
  OBVIOUS
<1>2. PICK r : r = FieldOf(q, "revision")
  OBVIOUS
<1>3. /\ conn[c].pc = "serving" /\ HandlerOf(q) = "evaluate"
      /\ WordOf(q, "action") \notin {"none", "start"}
  BY <1>1 DEF Delete, Serves
<1>4. q \in Requests /\ conn[c].lease = "LIVE" /\ q.name \in Names
  BY <1>1, <1>3, Serving, EvaluationLease, RequestFields
<1>5. Fresh(r) => r \in Revisions
  BY <1>2, <1>4, FreshAsked
<1>6. PICK status : Finish(c, status) /\ (DeleteVariable(r, q.name) \/ UNCHANGED vars)
  BY <1>1, <1>2 DEF Delete
<1>7. [Next]_vars
  BY <1>4, <1>5, <1>6 DEF Next, Mutations, DeleteVariable
<1> QED
  BY <1>3, <1>4, <1>6, <1>7, ServedByCall

(* A mutation calls the session once and replies. *)
LEMMA MutateStep ==
  ASSUME SessionSound, NEW c \in Connections, Sound(conn[c]), Mutate(c)
  PROVE  \E t : Steps(c, t)
<1>1. PICK q : q = conn[c].request
  OBVIOUS
<1>2. PICK r : r = FieldOf(q, "revision")
  OBVIOUS
<1>3. /\ conn[c].pc = "serving" /\ HandlerOf(q) = "session" /\ conn[c].lease = "RETAINED"
      /\ Mutation(q).status = "OK" /\ Mutation(q).value \in {"reset", "clear-history", "release"}
  BY <1>1 DEF Mutate, Mutates, Holds, Serves
<1>4. q \in Requests /\ WordOf(q, "action") = Mutation(q).value
  BY <1>1, <1>3, Serving, MutationRouted
<1>5. Fresh(r) => r \in Revisions
  BY <1>2, <1>4, FreshAsked
<1>6. PICK action : action = IF WordOf(q, "action") = "clear-history" THEN "clear"
                             ELSE WordOf(q, "action")
  OBVIOUS
<1>7. action \in {"clear", "reset", "release"}
  BY <1>3, <1>4, <1>6
<1>8. PICK status : /\ Finish(c, status)
                    /\ \/ IF action = "clear" THEN ClearHistory(r) ELSE Restart(r, action)
                       \/ UNCHANGED vars
  BY <1>1, <1>2, <1>6 DEF Mutate
<1>9. [Next]_vars
  <2>1. CASE UNCHANGED vars
    BY <2>1
  <2>2. CASE action = "clear" /\ ClearHistory(r)
    BY <1>5, <2>2 DEF Next, Mutations, ClearHistory
  <2>3. CASE action # "clear" /\ Restart(r, action)
    <3>1. r \in Revisions
      BY <1>5, <2>3 DEF Restart
    <3> QED
      BY <1>7, <2>3, <3>1 DEF Next, Mutations
  <2> QED
    BY <1>8, <2>1, <2>2, <2>3
<1> QED
  BY <1>3, <1>8, <1>9, ServedByCall

(* A change of the conversions calls the session once and replies. *)
LEMMA ChangeConversionsStep ==
  ASSUME SessionSound, NEW c \in Connections, Sound(conn[c]), ChangeConversions(c)
  PROVE  \E t : Steps(c, t)
<1>1. PICK q : q = conn[c].request
  OBVIOUS
<1>2. PICK r : r = FieldOf(q, "revision")
  OBVIOUS
<1>3. /\ conn[c].pc = "serving" /\ HandlerOf(q) = "session" /\ conn[c].lease = "RETAINED"
      /\ Mutation(q).status = "OK" /\ Mutation(q).value \in {"clear", "convert"}
  BY <1>1 DEF ChangeConversions, Mutates, Holds, Serves
<1>4. q \in Requests /\ q.path = "/api/conversions" /\ q.text \in Inputs
  BY <1>1, <1>3, Serving, MutationRouted, RequestFields
<1>5. ConversionFresh(r) => r \in ConversionRevisions
  BY <1>2, <1>4, FreshAsked
<1>6. PICK status : /\ Finish(c, status)
                    /\ \/ ClearConversions(r)
                       \/ \E ctx \in Contexts : ConfirmConversion(r, q.text, ctx)
                       \/ UNCHANGED vars
  BY <1>1, <1>2 DEF ChangeConversions
<1>7. [Next]_vars
  BY <1>4, <1>5, <1>6 DEF Next, Conversions, ClearConversions, ConfirmConversion
<1> QED
  BY <1>3, <1>6, <1>7, ServedByCall

(* What needs no session replies without calling it. *)
LEMMA ComputeStep ==
  ASSUME NEW c \in Connections, Sound(conn[c]), Compute(c) \/ Graph(c) \/ Solve(c) \/ Refuse(c)
  PROVE  \E t : Steps(c, t)
<1>1. PICK status : conn[c].pc = "serving" /\ UNCHANGED vars /\ Finish(c, status)
  BY DEF Compute, Graph, Solve, Refuse, Holds, Serves
<1> QED
  BY <1>1, ServedQuietly

(* A listing that fails or is complete replies and gives its lease back. *)
LEMMA ReadStep ==
  ASSUME NEW c \in Connections, Sound(conn[c]), ReadFailsLate(c) \/ ReadEnds(c)
  PROVE  \E t : Steps(c, t)
<1>1. CASE ReadFailsLate(c)
  BY <1>1, ServedQuietly DEF ReadFailsLate
<1>2. CASE ReadEnds(c)
  <2>1. Complete(conn[c])
    BY <1>2 DEF ReadEnds, Complete
  <2> QED
    BY <1>2, <2>1, ServedQuietly DEF ReadEnds
<1> QED
  BY <1>1, <1>2

(* What is listed are entries. *)
LEMMA ListingTyped ==
  ASSUME SessionSound, NEW path
  PROVE  Listing(path) \in Seq(Entries) /\ PinnedTo(path) \in Nat
<1>1. PinnedTo(path) \in Nat
  BY SessionAssumption DEF SessionSound, IInv, Typed, PinnedTo, SessionAssumption
<1>2. history \in Seq(Entries) /\ conversions \in Seq(Entries)
  BY DEF SessionSound, IInv, Held
<1>3. <<>> \in Seq(Entries)
  BY EmptySeq
<1> DEFINE defined == {n \in Names : variables[n] # None}
<1>4. defined # {} => <<variables[CHOOSE n \in defined : TRUE]>> \in Seq(Entries)
  <2> SUFFICES ASSUME defined # {} PROVE <<variables[CHOOSE n \in defined : TRUE]>> \in Seq(Entries)
    OBVIOUS
  <2>1. PICK n \in defined : n = CHOOSE m \in defined : TRUE
    OBVIOUS
  <2>2. variables[n] \in Entries
    BY DEF SessionSound, IInv, Held
  <2> QED
    BY <2>1, <2>2
<1>5. Listing("/api/session/variables") = IF defined = {} THEN <<>>
                                          ELSE <<variables[CHOOSE n \in defined : TRUE]>>
  BY DEF Listing
<1> HIDE DEF defined
<1>6. Listing("/api/session/variables") \in Seq(Entries)
  BY <1>3, <1>4, <1>5
<1>7. path # "/api/session/variables" => Listing(path) \in Seq(Entries)
  BY <1>2, <1>3 DEF Listing
<1> QED
  BY <1>1, <1>6, <1>7

(* A list names a revision once. *)
LEMMA ListedOnce ==
  ASSUME SessionSound, NEW path, NEW j \in 1 .. Len(Listing(path)),
         NEW k \in 1 .. Len(Listing(path)),
         Listing(path)[j].revision = Listing(path)[k].revision
  PROVE  j = k
<1>1. PICK s : s = Listing(path)
  OBVIOUS
<1>2. s \in Seq(Entries)
  BY <1>1, ListingTyped
<1>3. \A i \in 1 .. Len(s) : s[i].revision \in Nat
  BY <1>2, EntryKnown
<1>4. Len(s) <= 1 \/ \A i, m \in 1 .. Len(s) : i < m => s[i].revision < s[m].revision
  <2>1. CASE path \in {"/api/conversions", "/api/session/history"}
    BY <1>1, <2>1 DEF Listing, SessionSound, Dated, Ordered
  <2>2. CASE path \notin {"/api/conversions", "/api/session/history"}
    BY <1>1, <2>2 DEF Listing
  <2> QED
    BY <2>1, <2>2
<1>5. j \in Nat /\ k \in Nat /\ Len(s) \in Nat /\ j \in 1 .. Len(s) /\ k \in 1 .. Len(s)
  BY <1>1, <1>2
<1>6. CASE Len(s) <= 1
  BY <1>5, <1>6
<1>7. CASE \A i, m \in 1 .. Len(s) : i < m => s[i].revision < s[m].revision
  <2>1. s[j].revision = s[k].revision
    BY <1>1
  <2>2. ~ (j < k) /\ ~ (k < j)
    BY <1>3, <1>5, <1>7, <2>1
  <2> QED
    BY <1>5, <2>2
<1> QED
  BY <1>4, <1>6, <1>7

(* What a query asks for is an interval of the list. *)
LEMMA ChosenInterval ==
  ASSUME SessionSound, NEW q \in Requests, HandlerOf(q) = "session", Leased[q].status = "OK",
         q.path \in Listed
  PROVE  \E a \in Nat \ {0}, b \in Nat : Chosen(q) = a .. b
<1>1. PICK s : s = Listing(q.path)
  OBVIOUS
<1>2. PICK n \in Nat : n = Len(s)
  BY <1>1, ListingTyped
<1>3. CASE Has(q, "id")
  <2>1. PICK id : id = FieldOf(q, "id")
    OBVIOUS
  <2>2. Chosen(q) = {i \in 1 .. n : s[i].revision = id}
    BY <1>1, <1>2, <1>3, <2>1 DEF Chosen
  <2>3. CASE \E i \in 1 .. n : s[i].revision = id
    <3>1. PICK i \in 1 .. n : s[i].revision = id
      BY <2>3
    <3>2. \A j \in 1 .. n : s[j].revision = id => j = i
      BY <1>1, <1>2, <3>1, ListedOnce
    <3>3. Chosen(q) = {i}
      BY <2>2, <3>1, <3>2
    <3>4. i \in Nat \ {0} /\ i .. i = {i}
      BY <1>2, <3>1
    <3> QED
      BY <3>3, <3>4
  <2>4. CASE ~ \E i \in 1 .. n : s[i].revision = id
    <3>1. Chosen(q) = 1 .. 0
      BY <2>2, <2>4
    <3> QED
      BY <3>1
  <2> QED
    BY <2>3, <2>4
<1>4. CASE ~Has(q, "id")
  <2>1. PICK from \in Nat, limit \in Nat :
          from = FieldOf(q, "offset") /\ limit = Targets!NumberIn(q.fields, "limit", 8)
    <3>1. PICK from, limit :
            from = FieldOf(q, "offset") /\ limit = Targets!NumberIn(q.fields, "limit", 8)
      OBVIOUS
    <3>2. from \in 0 .. 32 /\ limit \in 1 .. 32
      BY <3>1, ReadRouted
    <3> QED
      BY <3>1, <3>2
  <2>2. Chosen(q) = from + 1 .. (IF from + limit > n THEN n ELSE from + limit)
    BY <1>1, <1>2, <1>4, <2>1 DEF Chosen
  <2>3. from + 1 \in Nat \ {0} /\ (IF from + limit > n THEN n ELSE from + limit) \in Nat
    BY <1>2, <2>1
  <2> QED
    BY <2>2, <2>3
<1> QED
  BY <1>3, <1>4

(* A listing opens with the places it chose of the list as it is now. *)
LEMMA StartReadingStep ==
  ASSUME SessionSound, NEW c \in Connections, Sound(conn[c]), StartReading(c)
  PROVE  \E t : Steps(c, t)
<1>1. PICK q : q = conn[c].request
  OBVIOUS
<1>2. /\ conn[c].pc = "serving" /\ HandlerOf(q) = "session" /\ conn[c].lease = "READ"
      /\ q.path \in Listed /\ UNCHANGED vars
  BY <1>1 DEF StartReading, Holds, Serves, Listed
<1>3. q \in Requests /\ Leased[q].status = "OK"
  BY <1>1, <1>2, Serving
<1>4. CASE \E status : Finish(c, status)
  BY <1>2, <1>4, ServedQuietly
<1>5. CASE ~ \E status : Finish(c, status)
  <2>1. PICK at, total, chosen :
          at = PinnedTo(q.path) /\ total = Len(Listing(q.path)) /\ chosen = Chosen(q)
    OBVIOUS
  <2>2. PICK page : page = [at |-> at, total |-> total, chosen |-> chosen, items |-> <<>>]
    OBVIOUS
  <2>3. PICK t : t = [conn[c] EXCEPT !.pc = "listing", !.page = page]
    OBVIOUS
  <2>4. conn' = [conn EXCEPT ![c] = t] /\ seen' = seen
    BY <1>1, <1>5, <2>1, <2>2, <2>3 DEF StartReading, Changed, Unaltered
  <2>5. page \in Pages
    <3>1. at \in Nat /\ Listing(q.path) \in Seq(Entries)
      BY <2>1, ListingTyped
    <3>2. total \in Nat
      BY <2>1, <3>1
    <3>3. PICK a \in Nat \ {0}, b \in Nat : chosen = a .. b
      BY <1>2, <1>3, <2>1, ChosenInterval
    <3>4. chosen \in SUBSET Nat
      BY <3>3
    <3>5. <<>> \in Seq(Entries \cup {None})
      BY EmptySeq
    <3> QED
      BY <2>2, <3>1, <3>2, <3>3, <3>4, <3>5 DEF Pages
  <2>6. conn[c] \in States
    BY SoundParts
  <2>7. /\ t.pc = "listing" /\ t.page = page /\ t.request = q /\ t.lease = "READ"
    BY <1>1, <1>2, <2>3, <2>6 DEF States
  <2>8. Lists(conn[c], t)
    BY <1>1, <1>2, <2>3, <2>5 DEF Lists
  <2>9. Opens(c, t)
    BY <1>1, <1>2, <2>1, <2>2, <2>4, <2>7 DEF Opens
  <2> QED
    BY <2>4, <2>8, <2>9 DEF Steps, Moves
<1> QED
  BY <1>4, <1>5

(* The first of an interval. *)
LEMMA FirstChosen ==
  ASSUME NEW p \in Pages, p.chosen # {}
  PROVE  \E a \in Nat \ {0}, b \in Nat :
           a <= b /\ p.chosen = a .. b /\ Min(p.chosen) = a /\ Cardinality(p.chosen) = b - a + 1
<1>1. PICK a \in Nat \ {0}, b \in Nat : p.chosen = a .. b
  BY DEF Pages
<1>2. a <= b
  BY <1>1
<1>3. Min(a .. b) = a
  BY <1>2 DEF Min
<1>4. Cardinality(a .. b) = b - a + 1
  BY <1>2, FS_Interval
<1> QED
  BY <1>1, <1>2, <1>3, <1>4

(* A listing continues with the next of the places it chose. *)
LEMMA ReadItemStep ==
  ASSUME SessionSound, NEW c \in Connections, Sound(conn[c]), ReadItem(c)
  PROVE  \E t : Steps(c, t)
<1>1. PICK s : s = conn[c]
  OBVIOUS
<1>2. PICK p : p = s.page
  OBVIOUS
<1>3. PICK listed : listed = Listing(s.request.path)
  OBVIOUS
<1>4. /\ s.pc = "listing" /\ s \in States /\ p \in Pages
      /\ Len(p.items) < Cardinality(p.chosen)
      /\ UNCHANGED <<vars, seen>>
  BY <1>1, <1>2, SoundParts DEF ReadItem, Quiet, Unaltered, Paged
<1>5. p.items \in Seq(Entries \cup {None}) /\ Len(p.items) \in Nat
  BY <1>4 DEF Pages
<1>6. p.chosen # {}
  <2> SUFFICES ASSUME p.chosen = {} PROVE FALSE
    OBVIOUS
  <2>1. Cardinality({}) = 0
    BY FS_EmptySet
  <2>2. Cardinality(p.chosen) = 0
    BY <2>1, Zenon
  <2> QED
    BY <1>4, <1>5, <2>2
<1>7. PICK a \in Nat \ {0} : Min(p.chosen) = a
  BY <1>4, <1>6, FirstChosen
<1>8. PICK item : item = ItemAt(listed, a + Len(p.items))
  OBVIOUS
<1>9. item \in Entries \cup {None}
  <2>1. listed \in Seq(Entries)
    BY <1>3, ListingTyped
  <2> QED
    BY <1>5, <1>7, <1>8, <2>1 DEF ItemAt
<1>10. PICK new : new = [p EXCEPT !.items = Append(@, item)]
  OBVIOUS
<1>11. new \in Pages
  <2>1. Append(p.items, item) \in Seq(Entries \cup {None})
    BY <1>5, <1>9
  <2> QED
    BY <1>4, <1>10, <2>1 DEF Pages
<1>12. PICK t : t = [s EXCEPT !.page = new]
  OBVIOUS
<1>13. conn' = [conn EXCEPT ![c] = t]
  <2>1. conn' = [conn EXCEPT ![c] = [s EXCEPT !.page.items = Append(@, item)]]
    BY <1>1, <1>2, <1>3, <1>7, <1>8 DEF ReadItem, Changed, ItemAt
  <2>2. [s EXCEPT !.page.items = Append(@, item)] = t
    BY <1>2, <1>10, <1>12
  <2> QED
    BY <2>1, <2>2
<1>14. t.pc = "listing" /\ t.page = new /\ t.request = s.request /\ t.lease = s.lease
  BY <1>4, <1>12 DEF States
<1>15. Lists(s, t)
  BY <1>4, <1>11, <1>12 DEF Lists
<1>16. Continues(c, t)
  BY <1>1, <1>2, <1>3, <1>4, <1>6, <1>7, <1>8, <1>10, <1>14 DEF Continues
<1> QED
  BY <1>1, <1>13, <1>15, <1>16 DEF Steps, Moves

(* A request that was read is answered or routed. *)
LEMMA RoutingStep ==
  ASSUME NEW c \in Connections, Sound(conn[c]), ReadFails(c) \/ Dispatch(c) \/ Receive(c)
  PROVE  \E t : Steps(c, t)
<1>1. PICK s : s = conn[c]
  OBVIOUS
<1>2. /\ s.pc = "reading" /\ s \in States /\ s.page = None
      /\ s.request \in Requests /\ UNCHANGED <<vars, seen>>
  BY <1>1, SoundParts DEF ReadFails, Dispatch, Receive, Quiet, Unaltered, Paged, Served
<1>3. ASSUME NEW t, conn' = [conn EXCEPT ![c] = t], t.pc # "listing",
             t.page = s.page, t.lease = s.lease, Reads(s, t) \/ Routes(s, t)
      PROVE  \E u : Steps(c, u)
  BY <1>1, <1>2, <1>3 DEF Steps, Moves, Works, Relends
<1>4. ASSUME NEW code \in Nat, conn' = [conn EXCEPT ![c] = Replying(s, code)]
      PROVE  \E u : Steps(c, u)
  <2>1. PICK t : t = Replying(s, code)
    OBVIOUS
  <2>2. t.pc = "sending" /\ t.page = s.page /\ t.lease = s.lease
    BY <1>2, <2>1, ReplyFields
  <2>3. Routes(s, t)
    BY <1>2, <2>1 DEF Routes
  <2> QED
    BY <1>3, <1>4, <2>1, <2>2, <2>3
<1>5. CASE Receive(c)
  <2>1. PICK t : t = Received(s)
    OBVIOUS
  <2>2. t.pc = s.pc /\ t.page = s.page /\ t.lease = s.lease
    BY <1>2, <2>1 DEF Received, States
  <2>3. conn' = [conn EXCEPT ![c] = t] /\ Reads(s, t)
    BY <1>1, <1>2, <1>5, <2>1 DEF Receive, Changed, Reads
  <2> QED
    BY <1>2, <1>3, <2>2, <2>3
<1>6. CASE ReadFails(c)
  <2>1. PICK code \in {400, 413} \cup (IF s.left = 0 THEN {408} ELSE {}) :
          Changed(c, Replying(s, code))
    BY <1>1, <1>6 DEF ReadFails
  <2>2. code \in Nat
    BY <2>1
  <2>3. conn' = [conn EXCEPT ![c] = Replying(s, code)]
    BY <2>1 DEF Changed
  <2> QED
    BY <1>4, <2>2, <2>3, ZenonT(60)
<1>7. CASE Dispatch(c)
  <2>1. PICK q : q = s.request
    OBVIOUS
  <2>2. conn' = [conn EXCEPT ![c] =
           IF HandlerOf(q) = "none" THEN Replying(s, Routed[q].code)
           ELSE IF Leased[q].status # "OK" THEN Replying(s, Code(q, Leased[q].status))
           ELSE IF Leased[q].value = "none"
           THEN [s EXCEPT !.pc = "serving", !.left = ServeTicks]
           ELSE [s EXCEPT !.pc = "waiting", !.left = WaitTicks]]
    BY <1>1, <1>7, <2>1 DEF Dispatch, Changed
  <2>3. CASE HandlerOf(q) = "none"
    <3>1. Routed[q].code \in Nat
      BY <1>2, <2>1, <2>3, RoutedCode
    <3> QED
      BY <1>4, <2>2, <2>3, <3>1
  <2>4. CASE HandlerOf(q) # "none" /\ Leased[q].status # "OK"
    <3>1. Code(q, Leased[q].status) \in Nat
      BY Codes DEF Code
    <3> QED
      BY <1>4, <2>2, <2>4, <3>1
  <2>5. CASE HandlerOf(q) # "none" /\ Leased[q].status = "OK"
    <3>1. PICK t : t = IF Leased[q].value = "none"
                       THEN [s EXCEPT !.pc = "serving", !.left = ServeTicks]
                       ELSE [s EXCEPT !.pc = "waiting", !.left = WaitTicks]
      OBVIOUS
    <3>2. conn' = [conn EXCEPT ![c] = t]
      BY <2>2, <2>5, <3>1
    <3>3. t.pc \in {"serving", "waiting"} /\ t.page = s.page /\ t.lease = s.lease
      BY <1>2, <3>1 DEF States
    <3>4. Routes(s, t)
      <4>1. Leased[s.request].status = "OK"
        BY <2>1, <2>5
      <4>2. t = IF Leased[s.request].value = "none"
                THEN [s EXCEPT !.pc = "serving", !.left = ServeTicks]
                ELSE [s EXCEPT !.pc = "waiting", !.left = WaitTicks]
        BY <2>1, <3>1
      <4> QED
        BY <1>2, <4>1, <4>2 DEF Routes
    <3> QED
      BY <1>3, <3>2, <3>3, <3>4
  <2> QED
    BY <2>3, <2>4, <2>5
<1> QED
  BY <1>5, <1>6, <1>7

(* An idle worker takes a connection. *)
LEMMA AcceptStep ==
  ASSUME NEW c \in Connections, Sound(conn[c]), NEW q \in Requests, Accept(c, q)
  PROVE  \E t : Steps(c, t)
<1>1. PICK t : t = [Closed EXCEPT !.pc = "reading", !.request = q, !.left = ReadTicks]
  OBVIOUS
<1>2. t.pc = "reading" /\ t.page = None /\ t.lease = "none"
  BY <1>1 DEF Closed
<1>3. conn' = [conn EXCEPT ![c] = t] /\ UNCHANGED <<vars, seen>> /\ Reads(conn[c], t)
  BY <1>1 DEF Accept, Changed, Reads
<1> QED
  BY <1>2, <1>3 DEF Steps, Moves, Works, Relends

(* A worker that waits for a lease takes it or gives up. *)
LEMMA WaitingStep ==
  ASSUME NEW c \in Connections, Sound(conn[c]), Acquire(c) \/ AcquireFails(c)
  PROVE  \E t : Steps(c, t)
<1>1. PICK s : s = conn[c]
  OBVIOUS
<1>2. /\ s.pc = "waiting" /\ s \in States /\ s.page = None
      /\ s.lease = "none" /\ UNCHANGED <<vars, seen>>
  BY <1>1, SoundParts DEF Acquire, AcquireFails, Quiet, Unaltered, Paged, Served
<1>3. CASE AcquireFails(c)
  <2>1. PICK status : conn' = [conn EXCEPT ![c] = Replying(s, Code(s.request, status))]
    BY <1>1, <1>3 DEF AcquireFails, Changed
  <2>2. PICK code \in Nat \ {413} : code = Code(s.request, status)
    BY Codes DEF Code
  <2>3. PICK t : t = Replying(s, code)
    OBVIOUS
  <2>4. t.pc = "sending" /\ t.page = s.page /\ t.lease = s.lease
    BY <1>2, <2>3, ReplyFields
  <2>5. Acquires(s, t)
    BY <1>2, <2>3 DEF Acquires
  <2> QED
    BY <1>1, <1>2, <2>1, <2>2, <2>3, <2>4, <2>5 DEF Steps, Moves, Works, Relends
<1>4. CASE Acquire(c)
  <2>1. PICK access : access = Leased[s.request].value
    OBVIOUS
  <2>2. PICK t : t = [s EXCEPT !.pc = "serving", !.left = ServeTicks, !.lease = access]
    OBVIOUS
  <2>3. conn' = [conn EXCEPT ![c] = t] /\ Available(c) /\ Lent(access)
    BY <1>1, <1>4, <2>1, <2>2 DEF Acquire, Changed
  <2>4. t.pc = "serving" /\ t.page = s.page /\ t.lease = access
    BY <1>2, <2>2 DEF States
  <2>5. Acquires(s, t)
    BY <1>2, <2>1, <2>2 DEF Acquires
  <2>6. Relends(c, t)
    BY <1>1, <1>2, <2>1, <2>3, <2>4 DEF Relends
  <2> QED
    BY <1>1, <1>2, <2>3, <2>4, <2>5, <2>6 DEF Steps, Moves, Works
<1> QED
  BY <1>3, <1>4

(* A worker that sends or drains ends. *)
LEMMA EndingStep ==
  ASSUME NEW c \in Connections, Sound(conn[c]), Sent(c) \/ SendFails(c) \/ Drained(c)
  PROVE  \E t : Steps(c, t)
<1>1. PICK s : s = conn[c]
  OBVIOUS
<1>2. s \in States /\ UNCHANGED vars
  BY <1>1, SoundParts DEF Sent, SendFails, Drained, Quiet
<1>3. PICK t : conn' = [conn EXCEPT ![c] = t] /\ Ends(s, t)
  BY <1>1 DEF Sent, SendFails, Drained, Closes, Changed, Ends
<1>4. t.pc # "listing" /\ t.page = None /\ (t.lease = "none" \/ t.lease = s.lease)
  <2>1. CASE t = Closed
    BY <2>1 DEF Closed
  <2>2. CASE s.pc = "sending" /\ s.code = 413 /\ t = [s EXCEPT !.pc = "draining", !.left = DrainTicks]
    <3>1. s.page = None
      BY <1>1, <2>2, SoundParts DEF Paged
    <3> QED
      BY <1>2, <2>2, <3>1 DEF States
  <2> QED
    BY <1>3, <2>1, <2>2 DEF Ends
<1>5. \/ seen' = seen
      \/ s.pc = "sending" /\ IsPage(s) /\ seen' = [path |-> s.request.path, page |-> s.page]
  BY <1>1 DEF Sent, SendFails, Drained, Quiet, Unaltered
<1>6. Works(c, t)
  BY <1>1, <1>2, <1>4, <1>5 DEF Works, Relends
<1> QED
  BY <1>1, <1>3, <1>6 DEF Steps, Moves

(* Whatever happens is an expiry, the passing of time or a step of one
   connection. *)
LEMMA NextIsStep ==
  ASSUME TrafficSound, SessionSound, NextTraffic
  PROVE  Expire \/ Ages \/ \E c \in Connections : \E t : Steps(c, t)
<1>1. \A c \in Connections : Sound(conn[c])
  BY DEF TrafficSound
<1>2. CASE Tick
  <2>1. UNCHANGED <<vars, seen>> /\ \A c \in Connections : conn[c].pc # "idle" => conn[c].left > 0
    BY <1>2 DEF Tick, Quiet, Unaltered
  <2>2. conn' = [c \in Connections |-> Aged(conn[c])]
    BY <1>2 DEF Tick, Aged
  <2> QED
    BY <2>1, <2>2 DEF Ages
<1>3. ASSUME NEW c \in Connections, Peer(c) PROVE \E t : Steps(c, t)
  BY <1>1, <1>3, AcceptStep, RoutingStep, EndingStep DEF Peer
<1>4. ASSUME NEW c \in Connections, Worker(c) PROVE \E t : Steps(c, t)
  BY <1>1, <1>4, RoutingStep, WaitingStep, EvaluateStep, DeleteStep, ComputeStep, MutateStep,
     ChangeConversionsStep, StartReadingStep, ReadItemStep, ReadStep, EndingStep
  DEF Worker
<1> QED
  BY <1>2, <1>3, <1>4 DEF NextTraffic

-----------------------------------------------------------------------------
(* Time, and the session behind the server *)

TrafficInv == TrafficSound /\ SessionSound

(* The server starts with every worker idle and a new session. *)
LEMMA TrafficSoundAtFirst == InitTraffic => TrafficInv
<1> SUFFICES ASSUME InitTraffic PROVE TrafficInv
  OBVIOUS
<1>1. Closed \in States /\ Sound(Closed)
  BY ClosedSound DEF Sound
<1>2. conn = [c \in Connections |-> Closed]
  BY DEF InitTraffic
<1>3. TrafficSound
  BY <1>1, <1>2 DEF TrafficSound
<1> QED
  BY <1>3, SessionSoundAtFirst DEF InitTraffic, TrafficInv

(* A worker's step keeps every connection sound and touches its own only. *)
LEMMA StepSound ==
  ASSUME TrafficSound, NEW c \in Connections, NEW t, Steps(c, t)
  PROVE  /\ TrafficSound'
         /\ conn' \in [Connections -> States] /\ conn'[c] = t /\ t \in States /\ Sound(t)
         /\ \A d \in Connections \ {c} : conn'[d] = conn[d]
<1>1. conn' = [conn EXCEPT ![c] = t] /\ conn \in [Connections -> States]
  BY DEF Steps, TrafficSound
<1>2. Sound(conn[c]) /\ Moves(conn[c], t)
  BY DEF Steps, TrafficSound
<1>3. Sound(t)
  BY <1>2, MovesSound
<1>4. t \in States
  BY <1>3 DEF Sound
<1>5. /\ conn' \in [Connections -> States] /\ conn'[c] = t
      /\ \A d \in Connections \ {c} : conn'[d] = conn[d]
  BY <1>1, <1>4
<1>6. \A d \in Connections : Sound(conn'[d])
  <2>1. ASSUME NEW d \in Connections PROVE Sound(conn'[d])
    <3>1. CASE d = c
      BY <1>3, <1>5, <3>1
    <3>2. CASE d # c
      BY <1>5, <3>2 DEF TrafficSound
    <3> QED
      BY <3>1, <3>2
  <2> QED
    BY <2>1
<1>7. TrafficSound'
  BY <1>5, <1>6 DEF TrafficSound, Sound, Timed, Served, Paged, AgeLimit, Complete
<1> QED
  BY <1>3, <1>4, <1>5, <1>7

(* A tick keeps every connection sound and changes neither leases nor pages. *)
LEMMA AgesSound ==
  ASSUME TrafficSound, Ages
  PROVE  /\ TrafficSound'
         /\ \A c \in Connections :
              /\ conn'[c].pc = conn[c].pc /\ conn'[c].request = conn[c].request
              /\ conn'[c].lease = conn[c].lease /\ conn'[c].page = conn[c].page
<1>1. conn' = [c \in Connections |-> Aged(conn[c])]
  BY DEF Ages
<1>2. ASSUME NEW c \in Connections
      PROVE  /\ Sound(conn'[c])
             /\ conn'[c].pc = conn[c].pc /\ conn'[c].request = conn[c].request
             /\ conn'[c].lease = conn[c].lease /\ conn'[c].page = conn[c].page
  <2>1. PICK s : s = conn[c]
    OBVIOUS
  <2>2. Sound(s) /\ (s.pc # "idle" => s.left > 0) /\ conn'[c] = Aged(s)
    BY <1>1, <2>1 DEF TrafficSound, Ages
  <2>3. Sound(Aged(s))
    BY <2>2, AgedSound
  <2>4. s \in States
    BY <2>2 DEF Sound
  <2>5. /\ Aged(s).pc = s.pc /\ Aged(s).request = s.request
        /\ Aged(s).lease = s.lease /\ Aged(s).page = s.page
    BY <2>4 DEF Aged, States
  <2> QED
    BY <2>1, <2>2, <2>3, <2>5
<1>3. \A c \in Connections : conn'[c] \in States
  BY <1>2 DEF Sound
<1>4. conn' \in [Connections -> States]
  BY <1>1, <1>3
<1>5. TrafficSound'
  BY <1>2, <1>4 DEF TrafficSound, Sound, Timed, Served, Paged, AgeLimit, Complete
<1> QED
  BY <1>2, <1>5

(* A worker's step is a step of Session or leaves the session alone. *)
LEMMA StepCallsSession ==
  ASSUME NEW c \in Connections, NEW t, Steps(c, t)
  PROVE  [Next]_vars
BY DEF Steps, Works, Opens, Continues, Calls

(* Every step of the server keeps its invariant, and is one of Session or an expiry. *)
LEMMA TrafficSoundNext ==
  ASSUME TrafficInv, [NextTraffic]_allVars
  PROVE  TrafficInv' /\ [Next \/ Expire]_vars
<1>1. TrafficSound /\ SessionSound
  BY DEF TrafficInv
<1>2. CASE UNCHANGED allVars
  <2>1. UNCHANGED vars /\ UNCHANGED conn
    BY <1>2 DEF allVars, traffic
  <2>2. SessionSound'
    BY <1>1, <2>1, SessionSoundNext
  <2>3. TrafficSound'
    BY <1>1, <2>1 DEF TrafficSound, Sound, Timed, Served, Paged, AgeLimit, Complete
  <2> QED
    BY <2>1, <2>2, <2>3 DEF TrafficInv
<1>3. CASE Expire
  <2>1. UNCHANGED conn
    BY <1>3 DEF Expire, traffic
  <2>2. TrafficSound'
    BY <1>1, <2>1 DEF TrafficSound, Sound, Timed, Served, Paged, AgeLimit, Complete
  <2> QED
    BY <1>1, <1>3, <2>2, ExpirySound DEF TrafficInv
<1>4. CASE Ages
  <2>1. UNCHANGED vars
    BY <1>4 DEF Ages
  <2>2. SessionSound'
    BY <1>1, <2>1, SessionSoundNext
  <2> QED
    BY <1>1, <1>4, <2>1, <2>2, AgesSound DEF TrafficInv
<1>5. ASSUME NEW c \in Connections, NEW t, Steps(c, t)
      PROVE  TrafficInv' /\ [Next \/ Expire]_vars
  <2>1. [Next]_vars
    BY <1>5, StepCallsSession
  <2>2. SessionSound'
    BY <1>1, <2>1, SessionSoundNext
  <2> QED
    BY <1>1, <1>5, <2>1, <2>2, StepSound DEF TrafficInv
<1> QED
  BY <1>1, <1>2, <1>3, <1>4, <1>5, NextIsStep

(* Connections and session stay sound. *)
LEMMA TrafficInvariance == SpecTraffic => []TrafficInv
<1>1. TrafficInv /\ [NextTraffic]_allVars => TrafficInv'
  BY TrafficSoundNext
<1> QED
  BY TrafficSoundAtFirst, <1>1, PTL DEF SpecTraffic

(* The larger of two numbers of ticks. *)
LEMMA MaxOfTwo ==
  ASSUME NEW m \in Nat, NEW n \in Nat
  PROVE  Max({m, n}) \in Nat /\ m <= Max({m, n}) /\ n <= Max({m, n})
<1>1. \E x \in {m, n} : \A y \in {m, n} : x >= y
  OBVIOUS
<1>2. PICK x : x = Max({m, n})
  OBVIOUS
<1>3. x \in {m, n} /\ \A y \in {m, n} : x >= y
  BY <1>1, <1>2 DEF Max
<1> QED
  BY <1>2, <1>3

(* A worker is free again once each phase of its request has had its deadline:
   peers that stall, leases that are held and requests that are drained add no
   more (web_server.c:52, 140 and 224). *)
THEOREM WorkersAreFreed == SpecTraffic => []EndsByDeadline
<1>1. TrafficInv => EndsByDeadline
  <2> SUFFICES ASSUME TrafficInv, NEW c \in Connections
               PROVE  conn[c].age <= ReadTicks + SendTicks + Max({WaitTicks + ServeTicks, DrainTicks})
    BY DEF EndsByDeadline
  <2>1. PICK s : s = conn[c]
    OBVIOUS
  <2>2. Sound(s)
    BY <2>1 DEF TrafficInv, TrafficSound
  <2>3. s.age \in Nat /\ s.left \in Nat /\ Timed(s) /\ s.pc \in Phases
    BY <2>2, SoundParts, StateFields
  <2>4. PICK top \in Nat : /\ top = Max({WaitTicks + ServeTicks, DrainTicks})
                           /\ WaitTicks + ServeTicks <= top /\ DrainTicks <= top
    <3>1. WaitTicks + ServeTicks \in Nat /\ DrainTicks \in Nat
      BY Ticks
    <3> QED
      BY <3>1, MaxOfTwo
  <2>5. AgeLimit(s) <= ReadTicks + SendTicks + top /\ AgeLimit(s) \in Nat
    BY <2>3, <2>4, Ticks DEF AgeLimit, Phases
  <2>6. s.age <= ReadTicks + SendTicks + top
    BY <2>3, <2>5, Ticks DEF Timed
  <2> QED
    BY <2>1, <2>4, <2>6
<1> QED
  BY <1>1, TrafficInvariance, PTL

(* A lease ends with the work it was for; only the reply of the evaluation
   endpoint keeps it, for one send at most (session_api.c:795, web_server.c:760). *)
THEOREM LeasesAreReturned == SpecTraffic => []LeasesEnd
<1>1. TrafficInv => LeasesEnd
  <2> SUFFICES ASSUME TrafficInv, NEW c \in Connections, conn[c].lease # "none"
               PROVE  conn[c].held <= ServeTicks +
                        (IF HandlerOf(conn[c].request) = "evaluate" THEN SendTicks ELSE 0)
    BY DEF LeasesEnd
  <2>1. PICK s : s = conn[c]
    OBVIOUS
  <2>2. Sound(s) /\ s.lease # "none"
    BY <2>1 DEF TrafficInv, TrafficSound
  <2>3. s.held \in Nat /\ s.left \in Nat /\ Timed(s) /\ Served(s)
    BY <2>2, SoundParts
  <2>4. s.held <= ServeTicks + (IF s.pc = "sending" THEN SendTicks ELSE 0)
    BY <2>2, <2>3, Ticks DEF Timed
  <2>5. s.pc = "sending" => HandlerOf(s.request) = "evaluate"
    BY <2>2, <2>3 DEF Served
  <2> QED
    BY <2>1, <2>3, <2>4, <2>5, Ticks
<1> QED
  BY <1>1, TrafficInvariance, PTL

(* However connections interleave, stall and end, what they do to the session
   is one call of it after another, or its expiry. *)
THEOREM CallsAreSerial == SpecTraffic => Init /\ [][Next \/ Expire]_vars
<1>1. InitTraffic => Init
  BY DEF InitTraffic
<1>2. TrafficInv /\ [NextTraffic]_allVars => [Next \/ Expire]_vars
  BY TrafficSoundNext
<1> QED
  BY <1>1, <1>2, TrafficInvariance, PTL DEF SpecTraffic

(* The session keeps its types and capacities behind the server. *)
THEOREM TypeCorrectServed == SpecTraffic => []TypeOK
<1>1. TrafficInv => TypeOK
  BY TypedByInvariant DEF TrafficInv, SessionSound
<1> QED
  BY <1>1, TrafficInvariance, PTL

(* No position of the random stream is drawn twice behind the server. *)
THEOREM DrawsAreOnceServed == SpecTraffic => []DrawsOnce
<1>1. TrafficInv => DrawsOnce
  BY DEF TrafficInv, SessionSound, IInv
<1> QED
  BY <1>1, TrafficInvariance, PTL

(* What the policy granted is what the session owns, also after it expired. *)
THEOREM ReservationExactServed == SpecTraffic => []ReservedIsOwned
<1>1. TrafficInv => ReservedIsOwned
  BY DEF TrafficInv, SessionSound, IInv
<1> QED
  BY <1>1, TrafficInvariance, PTL

(* A repeated request is recognised behind the server exactly if it is the
   latest mutation of the session. *)
THEOREM RetriesAreRecognisedServed == SpecTraffic => []RetriesRecognised
<1>1. TrafficInv => RetriesRecognised
  BY RecognisedByInvariant DEF TrafficInv, SessionSound
<1> QED
  BY <1>1, TrafficInvariance, PTL

-----------------------------------------------------------------------------
(* Leases *)

(* Leases that are held at the same time are compatible, and nobody reads a
   session that was released. *)
Exclusive ==
  \A c, d \in Connections :
    c # d /\ conn[d].lease # "none" => Compatible(conn[c].lease, conn[d].lease)

ReadingLive == \A c \in Connections : conn[c].lease = "READ" => ~released

LeaseInv == Exclusive /\ ReadingLive

(* The session is changed under an exclusive lease or expires. *)
OnlyHoldersChange ==
  [][vars' # vars =>
       \/ Expire
       \/ \E c \in Connections :
            conn[c].pc = "serving" /\ conn[c].lease \in {"LIVE", "RETAINED"}]_allVars

(* No lease is lent at first. *)
LEMMA LeasesAtFirst == InitTraffic => LeaseInv
BY DEF InitTraffic, LeaseInv, Exclusive, ReadingLive, Closed

(* Leases as they were or given back are still compatible. *)
LEMMA FewerLeases ==
  ASSUME Exclusive, \A c \in Connections : conn'[c].lease \in {conn[c].lease, "none"}
  PROVE  Exclusive'
BY DEF Exclusive, Compatible

(* A worker is lent a lease only when it is compatible with those of the others. *)
LEMMA LeaseInvStep ==
  ASSUME TrafficSound, LeaseInv, NEW c \in Connections, NEW t, Steps(c, t)
  PROVE  LeaseInv'
<1>1. conn'[c] = t /\ \A d \in Connections \ {c} : conn'[d] = conn[d]
  BY StepSound
<1>2. CASE /\ Lent(t.lease) /\ Available(c) /\ t.lease = Leased[conn[c].request].value
           /\ UNCHANGED vars
  <2>1. \A d \in Connections \ {c} : Compatible(conn[d].lease, t.lease)
    BY <1>2 DEF Available
  <2>2. ASSUME NEW a \in Connections, NEW b \in Connections, a # b, conn'[b].lease # "none"
        PROVE  Compatible(conn'[a].lease, conn'[b].lease)
    <3>1. CASE b = c
      BY <1>1, <2>1, <2>2, <3>1
    <3>2. CASE a = c
      <4>1. Compatible(conn[b].lease, t.lease) /\ conn[b].lease # "none"
        BY <1>1, <2>1, <2>2, <3>2
      <4> QED
        BY <1>1, <2>2, <3>2, <4>1 DEF Compatible
    <3>3. CASE a # c /\ b # c
      BY <1>1, <2>2, <3>3 DEF LeaseInv, Exclusive
    <3> QED
      BY <3>1, <3>2, <3>3
  <2>3. Exclusive'
    BY <2>2 DEF Exclusive, Compatible
  <2>4. t.lease = "READ" => ~released
    BY <1>2 DEF Lent
  <2>5. released' = released
    BY <1>2 DEF vars
  <2>6. ReadingLive'
    BY <1>1, <2>4, <2>5 DEF LeaseInv, ReadingLive
  <2> QED
    BY <2>3, <2>6 DEF LeaseInv
<1>3. CASE t.lease \in {conn[c].lease, "none"} /\ UNCHANGED vars
  <2>1. \A d \in Connections : conn'[d].lease \in {conn[d].lease, "none"}
    BY <1>1, <1>3
  <2>2. released' = released
    BY <1>3 DEF vars
  <2>3. ReadingLive'
    BY <2>1, <2>2 DEF LeaseInv, ReadingLive
  <2> QED
    BY <2>1, <2>3, FewerLeases DEF LeaseInv
<1>4. CASE Calls(c, t)
  <2>1. conn[c].lease \in {"LIVE", "RETAINED"} /\ t.lease \in {conn[c].lease, "none"}
    BY <1>4 DEF Calls
  <2>2. \A d \in Connections : conn'[d].lease \in {conn[d].lease, "none"}
    BY <1>1, <2>1
  <2>3. \A d \in Connections : conn[d].lease # "READ"
    BY <2>1 DEF LeaseInv, Exclusive, Compatible
  <2>4. ReadingLive'
    BY <2>2, <2>3 DEF ReadingLive
  <2> QED
    BY <2>2, <2>4, FewerLeases DEF LeaseInv
<1> QED
  BY <1>2, <1>3, <1>4 DEF Steps, Works, Opens, Continues, Relends

(* Every step of the server keeps the leases compatible. *)
LEMMA LeaseInvNext ==
  ASSUME TrafficInv, LeaseInv, [NextTraffic]_allVars
  PROVE  LeaseInv'
<1>1. TrafficSound /\ SessionSound
  BY DEF TrafficInv
<1>2. CASE UNCHANGED allVars
  BY <1>2 DEF allVars, traffic, vars, LeaseInv, Exclusive, ReadingLive, Compatible
<1>3. CASE Expire
  <2>1. UNCHANGED conn /\ \A c \in Connections : conn[c].lease \in {"none", "CACHE"}
    BY <1>3 DEF Expire, traffic
  <2> QED
    BY <2>1 DEF LeaseInv, Exclusive, ReadingLive, Compatible
<1>4. CASE Ages
  <2>1. \A c \in Connections : conn'[c].lease = conn[c].lease
    BY <1>1, <1>4, AgesSound
  <2>2. released' = released
    BY <1>4 DEF Ages, vars
  <2> QED
    BY <2>1, <2>2 DEF LeaseInv, Exclusive, ReadingLive, Compatible
<1>5. CASE \E c \in Connections : \E t : Steps(c, t)
  BY <1>1, <1>5, LeaseInvStep
<1> QED
  BY <1>1, <1>2, <1>3, <1>4, <1>5, NextIsStep

(* Leases stay compatible, and listings hold theirs. *)
LEMMA LeaseInvariance == SpecTraffic => []LeaseInv
<1>1. TrafficInv /\ LeaseInv /\ [NextTraffic]_allVars => LeaseInv'
  BY LeaseInvNext
<1> QED
  BY LeasesAtFirst, <1>1, TrafficInvariance, PTL DEF SpecTraffic

(* An exclusive lease of the session excludes every other lease of it, however
   requests wait, time out and hold theirs while they reply (session_api.c:795,
   web_server.c:883). *)
THEOREM LeasesAreExclusive == SpecTraffic => []Exclusive
<1>1. LeaseInv => Exclusive
  BY DEF LeaseInv
<1> QED
  BY <1>1, LeaseInvariance, PTL

(* Nothing but the call of a worker with an exclusive lease, or the expiry of a
   session nobody holds, changes the session. *)
THEOREM ChangesAreExclusive == SpecTraffic => OnlyHoldersChange
<1>1. ASSUME TrafficInv, [NextTraffic]_allVars
      PROVE  vars' # vars =>
               \/ Expire
               \/ \E c \in Connections :
                    conn[c].pc = "serving" /\ conn[c].lease \in {"LIVE", "RETAINED"}
  <2>1. CASE UNCHANGED allVars
    BY <2>1 DEF allVars
  <2>2. CASE NextTraffic
    BY <1>1, <2>2, NextIsStep
    DEF TrafficInv, Ages, Steps, Works, Opens, Continues, Calls
  <2> QED
    BY <1>1, <2>1, <2>2
<1>2. TrafficInv /\ [NextTraffic]_allVars =>
        [vars' # vars =>
           \/ Expire
           \/ \E c \in Connections :
                conn[c].pc = "serving" /\ conn[c].lease \in {"LIVE", "RETAINED"}]_allVars
  BY <1>1
<1> QED
  BY <1>2, TrafficInvariance, PTL DEF SpecTraffic, OnlyHoldersChange

-----------------------------------------------------------------------------
(* Pages *)

View(s) == [path |-> s.request.path, page |-> s.page]

(* The pages that workers read or send, and the one a peer has received. *)
Views ==
  {View(conn[c]) : c \in {d \in Connections : conn[d].page # None}} \cup ({seen} \ {None})

Pinned(x) == x.path = "/api/conversions" => x.page.at < MaxRevision

Copies(p, listed) ==
  /\ p.total = Len(listed)
  /\ \A k \in 1 .. Len(p.items) : p.items[k] = ItemAt(listed, (Min(p.chosen) + k) - 1)

Agree(p, o) ==
  /\ p.total = o.total
  /\ \A j \in 1 .. Len(p.items), k \in 1 .. Len(o.items) :
       Min(p.chosen) + j = Min(o.chosen) + k => p.items[j] = o.items[k]

(* Pages of one revision agree. *)
Consistent(x, y) ==
  x.path = y.path /\ x.page.at = y.page.at /\ Pinned(x) => Agree(x.page, y.page)
Agreed == \A x, y \in Views : Consistent(x, y)

(* A page is of no later revision than its list has, and a copy of the list
   while the list has its revision. *)
UpToDate(x) ==
  /\ x.page.at <= PinnedTo(x.path)
  /\ x.page.at = PinnedTo(x.path) /\ Pinned(x) => Copies(x.page, Listing(x.path))
Current == ~released => \A x \in Views : UpToDate(x)

(* What is being read has the revision of its list. *)
ReadsNow ==
  \A c \in Connections :
    conn[c].pc = "listing" => conn[c].page.at = PinnedTo(conn[c].request.path)

(* A peer receives whole pages. *)
SeenWhole == seen # None => seen.page \in Pages /\ Complete(seen)

PageInv == Agreed /\ Current /\ ReadsNow /\ SeenWhole

(* No page is read at first. *)
LEMMA PagesAtFirst == InitTraffic => PageInv
<1> SUFFICES ASSUME InitTraffic PROVE PageInv
  OBVIOUS
<1>1. \A c \in Connections : conn[c] = Closed
  BY DEF InitTraffic
<1>2. \A c \in Connections : conn[c].page = None
  BY <1>1 DEF Closed
<1>3. Views = {}
  BY <1>2 DEF InitTraffic, Views
<1>4. Agreed /\ Current
  BY <1>3, Zenon DEF Agreed, Current
<1>5. ReadsNow /\ SeenWhole
  BY <1>1 DEF InitTraffic, ReadsNow, SeenWhole, Closed
<1> QED
  BY <1>4, <1>5 DEF PageInv

(* Copies of one list agree. *)
LEMMA CopiesAgree ==
  ASSUME NEW p, NEW o, NEW listed, Copies(p, listed), Copies(o, listed)
  PROVE  Agree(p, o)
<1>1. p.total = o.total
  BY DEF Copies
<1>2. ASSUME NEW j \in 1 .. Len(p.items), NEW k \in 1 .. Len(o.items),
             Min(p.chosen) + j = Min(o.chosen) + k
      PROVE  p.items[j] = o.items[k]
  BY <1>2, Zenon DEF Copies
<1> QED
  BY <1>1, <1>2 DEF Agree

(* Pages that were there before agree as they did. *)
LEMMA AgreedStays ==
  ASSUME Agreed, Views' \subseteq Views
  PROVE  Agreed'
<1>1. PICK V, W : V = Views /\ W = Views'
  OBVIOUS
<1>2. \A x, y \in V : Consistent(x, y)
  BY <1>1 DEF Agreed
<1>3. \A x, y \in W : Consistent(x, y)
  BY <1>1, <1>2
<1> QED
  BY <1>1, <1>3 DEF Agreed, Consistent, Agree, Pinned

(* The pages after a step are those before it and the one it works on. *)
LEMMA ViewsOfStep ==
  ASSUME TrafficSound, NEW c \in Connections, NEW t, Steps(c, t), NEW x \in Views'
  PROVE  x \in Views \/ (t.page # None /\ x = View(t))
<1>1. conn'[c] = t /\ \A d \in Connections \ {c} : conn'[d] = conn[d]
  BY StepSound
<1>2. \/ seen' = seen
      \/ seen' = View(conn[c]) /\ conn[c].page # None
  BY DEF Steps, Works, Opens, Continues, Calls, View, IsPage
<1>3. CASE \E d \in Connections : conn'[d].page # None /\ x = View(conn'[d])
  <2>1. PICK d \in Connections : conn'[d].page # None /\ x = View(conn'[d])
    BY <1>3
  <2>2. CASE d = c
    BY <1>1, <2>1, <2>2
  <2>3. CASE d # c
    BY <1>1, <2>1, <2>3 DEF Views
  <2> QED
    BY <2>2, <2>3
<1>4. CASE x = seen' /\ x # None
  BY <1>2, <1>4 DEF Views
<1> QED
  BY <1>3, <1>4 DEF Views, View

(* A step that leaves pages as they are adds none. *)
LEMMA ViewsOfWork ==
  ASSUME TrafficSound, NEW c \in Connections, NEW t, Steps(c, t), Works(c, t) \/ Calls(c, t)
  PROVE  Views' \subseteq Views
<1> SUFFICES ASSUME NEW x \in Views' PROVE x \in Views
  OBVIOUS
<1>1. t.page # None => conn[c].page # None /\ View(t) = View(conn[c])
  BY DEF Works, Calls, View
<1>2. t.page # None => View(t) \in Views
  BY <1>1 DEF Views
<1> QED
  BY <1>2, ViewsOfStep

(* A copy of the list joins pages that are up to date. *)
LEMMA NewPageAgrees ==
  ASSUME Agreed, \A x \in Views : UpToDate(x), NEW V, NEW new,
         \A x \in V : x \in Views \/ x = new,
         new.page.at = PinnedTo(new.path),
         Pinned(new) => Copies(new.page, Listing(new.path))
  PROVE  (\A x, y \in V : Consistent(x, y)) /\ \A x \in V : UpToDate(x) \/ x = new
<1>1. ASSUME NEW x \in Views, x.path = new.path, x.page.at = new.page.at,
             Pinned(x) \/ Pinned(new)
      PROVE  Copies(x.page, Listing(new.path)) /\ Copies(new.page, Listing(new.path))
  <2>1. Pinned(x) /\ Pinned(new)
    BY <1>1 DEF Pinned
  <2>2. UpToDate(x) /\ x.page.at = PinnedTo(x.path)
    BY <1>1
  <2> QED
    BY <1>1, <2>1, <2>2 DEF UpToDate
<1>2. \A x \in Views : Consistent(x, new) /\ Consistent(new, x)
  <2>1. ASSUME NEW x \in Views PROVE Consistent(x, new)
    BY <1>1, CopiesAgree DEF Consistent
  <2>2. ASSUME NEW x \in Views PROVE Consistent(new, x)
    BY <1>1, CopiesAgree DEF Consistent
  <2> QED
    BY <2>1, <2>2
<1>3. Consistent(new, new)
  BY CopiesAgree DEF Consistent
<1>4. \A x, y \in V : Consistent(x, y)
  BY <1>2, <1>3 DEF Agreed
<1> QED
  BY <1>4

(* Lists and revisions stay while the session does. *)
LEMMA ListsStay ==
  ASSUME UNCHANGED vars
  PROVE  /\ released' = released
         /\ \A path : PinnedTo(path)' = PinnedTo(path) /\ Listing(path)' = Listing(path)
         /\ \A x : UpToDate(x)' <=> UpToDate(x)
<1>1. UNCHANGED <<released, revision, history, variables, conversions, conversionRevision>>
  BY DEF vars, calculation, conversion
<1>2. \A path : PinnedTo(path)' = PinnedTo(path)
  BY <1>1 DEF PinnedTo
<1>3. \A path : Listing(path)' = Listing(path)
  BY <1>1 DEF Listing
<1>4. ASSUME NEW x PROVE UpToDate(x)' <=> UpToDate(x)
  BY <1>2, <1>3 DEF UpToDate, Pinned, Copies, ItemAt
<1> QED
  BY <1>1, <1>2, <1>3, <1>4

(* What a peer has received is a whole page after every step. *)
LEMMA SeenStaysWhole ==
  ASSUME TrafficSound, SeenWhole, NEW c \in Connections, NEW t, Steps(c, t)
  PROVE  SeenWhole'
<1>1. PICK s : s = conn[c] /\ Sound(s)
  BY DEF TrafficSound
<1>2. CASE seen' = seen
  BY <1>2 DEF SeenWhole, Complete
<1>3. CASE s.pc = "sending" /\ IsPage(s) /\ seen' = View(s)
  <2>1. s.page # None /\ s.code = 200
    BY <1>3 DEF IsPage
  <2>2. s.page \in Pages /\ Complete(s)
    BY <1>1, <1>3, <2>1, SoundParts, StateFields DEF Paged
  <2>3. seen'.page = s.page
    BY <1>3 DEF View
  <2> QED
    BY <2>2, <2>3 DEF SeenWhole, Complete
<1> QED
  BY <1>1, <1>2, <1>3 DEF Steps, Works, Opens, Continues, Calls, View

(* A step that reads no list and calls no session keeps what is said of pages. *)
LEMMA PagesOfWork ==
  ASSUME TrafficSound, PageInv, NEW c \in Connections, NEW t, Steps(c, t), Works(c, t)
  PROVE  Agreed' /\ Current' /\ ReadsNow'
<1>1. UNCHANGED vars /\ t.pc # "listing"
  BY DEF Works
<1>2. conn'[c] = t /\ \A d \in Connections \ {c} : conn'[d] = conn[d]
  BY StepSound
<1>3. Views' \subseteq Views
  BY ViewsOfWork
<1>4. Agreed'
  BY <1>3, AgreedStays DEF PageInv
<1>5. Current'
  BY <1>1, <1>3, ListsStay DEF PageInv, Current
<1>6. ReadsNow'
  <2>1. ASSUME NEW d \in Connections, conn'[d].pc = "listing"
        PROVE  conn'[d].page.at = PinnedTo(conn'[d].request.path)
    <3>1. conn'[d] = conn[d]
      BY <1>1, <1>2, <2>1
    <3>2. conn[d].page.at = PinnedTo(conn[d].request.path)
      BY <2>1, <3>1 DEF PageInv, ReadsNow
    <3> QED
      BY <3>1, <3>2
  <2>2. UNCHANGED <<revision, conversionRevision>>
    BY <1>1 DEF vars, conversion
  <2> QED
    BY <2>1, <2>2 DEF ReadsNow, PinnedTo
<1> QED
  BY <1>4, <1>5, <1>6

(* The page that is being read is a copy of its list. *)
LEMMA PagesOfReading ==
  ASSUME TrafficSound, SessionSound, LeaseInv, PageInv, NEW c \in Connections, NEW t, Steps(c, t),
         UNCHANGED vars, conn[c].lease = "READ",
         t.page.at = PinnedTo(t.request.path),
         Pinned(View(t)) => Copies(t.page, Listing(t.request.path))
  PROVE  Agreed' /\ Current' /\ ReadsNow'
<1>1. ~released
  BY DEF LeaseInv, ReadingLive
<1>2. conn'[c] = t /\ \A d \in Connections \ {c} : conn'[d] = conn[d]
  BY StepSound
<1>3. PICK new : new = View(t) /\ new.path = t.request.path /\ new.page = t.page
  BY DEF View
<1>4. PICK V : V = Views'
  OBVIOUS
<1>5. \A x \in V : x \in Views \/ x = new
  BY <1>3, <1>4, ViewsOfStep
<1>6. Agreed /\ \A x \in Views : UpToDate(x)
  BY <1>1 DEF PageInv, Current
<1>7. new.page.at = PinnedTo(new.path) /\ (Pinned(new) => Copies(new.page, Listing(new.path)))
  BY <1>3
<1>8. (\A x, y \in V : Consistent(x, y)) /\ \A x \in V : UpToDate(x) \/ x = new
  BY <1>5, <1>6, <1>7, NewPageAgrees
<1>9. UpToDate(new)
  BY <1>7, ListingTyped DEF UpToDate
<1>10. Agreed'
  BY <1>4, <1>8 DEF Agreed, Consistent, Agree, Pinned
<1>11. Current'
  BY <1>4, <1>8, <1>9, ListsStay DEF Current
<1>12. ReadsNow'
  <2>1. ASSUME NEW d \in Connections, conn'[d].pc = "listing"
        PROVE  conn'[d].page.at = PinnedTo(conn'[d].request.path)
    <3>1. CASE d = c
      BY <1>2, <3>1
    <3>2. CASE d # c
      <4>1. conn'[d] = conn[d]
        BY <1>2, <3>2
      <4>2. conn[d].page.at = PinnedTo(conn[d].request.path)
        BY <2>1, <4>1 DEF PageInv, ReadsNow
      <4> QED
        BY <4>1, <4>2
    <3> QED
      BY <3>1, <3>2
  <2>2. UNCHANGED <<revision, conversionRevision>>
    BY DEF vars, conversion
  <2> QED
    BY <2>1, <2>2 DEF ReadsNow, PinnedTo
<1> QED
  BY <1>10, <1>11, <1>12

(* A page that opens copies nothing yet, and is of the revision the list has now. *)
LEMMA PagesOfOpening ==
  ASSUME TrafficSound, SessionSound, LeaseInv, PageInv, NEW c \in Connections, NEW t, Steps(c, t),
         Opens(c, t)
  PROVE  Agreed' /\ Current' /\ ReadsNow'
<1>1. /\ UNCHANGED vars /\ conn[c].lease = "READ"
      /\ t.page.at = PinnedTo(t.request.path)
      /\ t.page.total = Len(Listing(t.request.path)) /\ t.page.items = <<>>
  BY DEF Opens
<1>2. Len(t.page.items) = 0
  BY <1>1
<1>3. Copies(t.page, Listing(t.request.path))
  BY <1>1, <1>2 DEF Copies
<1> QED
  BY <1>1, <1>3, PagesOfReading

(* The item a listing adds is the one at its place, since no one has changed the list. *)
LEMMA PagesOfContinuing ==
  ASSUME TrafficSound, SessionSound, LeaseInv, PageInv, NEW c \in Connections, NEW t, Steps(c, t),
         Continues(c, t)
  PROVE  Agreed' /\ Current' /\ ReadsNow'
<1>1. PICK s, p : s = conn[c] /\ p = s.page
  OBVIOUS
<1>2. PICK listed : listed = Listing(t.request.path)
  OBVIOUS
<1>3. /\ UNCHANGED vars /\ s.pc = "listing" /\ t.request = s.request /\ p.chosen # {}
      /\ t.page = [p EXCEPT !.items = Append(@, ItemAt(listed, Min(p.chosen) + Len(@)))]
  BY <1>1, <1>2 DEF Continues
<1>4. Sound(s) /\ p \in Pages /\ s.lease = "READ"
  BY <1>1, <1>3 DEF TrafficSound, Sound, Paged, Served
<1>5. p.items \in Seq(Entries \cup {None}) /\ Len(p.items) \in Nat
  BY <1>4 DEF Pages
<1>6. PICK a \in Nat \ {0} : Min(p.chosen) = a
  BY <1>3, <1>4, FirstChosen
<1>7. PICK items : items = Append(p.items, ItemAt(listed, a + Len(p.items)))
  OBVIOUS
<1>8. t.page.at = p.at /\ t.page.total = p.total /\ t.page.chosen = p.chosen /\ t.page.items = items
  BY <1>3, <1>4, <1>6, <1>7 DEF Pages
<1>9. p.at = PinnedTo(t.request.path)
  BY <1>1, <1>3 DEF PageInv, ReadsNow
<1>10. ~released
  BY <1>1, <1>4 DEF LeaseInv, ReadingLive
<1>11. View(s) \in Views /\ View(s).path = s.request.path /\ View(s).page = p
  BY <1>1, <1>4, PageIsNotNone DEF Views, View
<1>12. UpToDate(View(s))
  BY <1>10, <1>11 DEF PageInv, Current
<1>13. Pinned(View(t)) => Copies(p, listed)
  <2>1. Pinned(View(t)) => Pinned(View(s))
    BY <1>3, <1>8, <1>11 DEF Pinned, View
  <2> QED
    BY <1>2, <1>3, <1>9, <1>11, <1>12, <2>1 DEF UpToDate
<1>14. ASSUME Copies(p, listed) PROVE Copies(t.page, listed)
  <2>1. Len(items) = Len(p.items) + 1
    BY <1>5, <1>7
  <2>2. ASSUME NEW k \in 1 .. Len(items) PROVE items[k] = ItemAt(listed, (a + k) - 1)
    <3>1. CASE k = Len(p.items) + 1
      <4>1. items[k] = ItemAt(listed, a + Len(p.items))
        BY <1>5, <1>7, <3>1
      <4>2. (a + k) - 1 = a + Len(p.items)
        BY <1>5, <3>1
      <4> QED
        BY <4>1, <4>2
    <3>2. CASE k # Len(p.items) + 1
      <4>1. k \in 1 .. Len(p.items)
        BY <1>5, <2>1, <3>2
      <4>2. items[k] = p.items[k]
        BY <1>5, <1>7, <4>1
      <4>3. p.items[k] = ItemAt(listed, (Min(p.chosen) + k) - 1)
        BY <1>14, <4>1, Zenon DEF Copies
      <4> QED
        BY <1>6, <4>2, <4>3
    <3> QED
      BY <3>1, <3>2
  <2>3. t.page.total = Len(listed)
    BY <1>8, <1>14 DEF Copies
  <2> QED
    BY <1>6, <1>8, <2>2, <2>3, Zenon DEF Copies
<1> QED
  BY <1>1, <1>2, <1>3, <1>4, <1>8, <1>9, <1>13, <1>14, PagesOfReading

(* A call may change the lists: pages of an earlier revision agree as before,
   and what the call left alone has its revision still. *)
LEMMA PagesOfCalling ==
  ASSUME TrafficSound, SessionSound, LeaseInv, PageInv, NEW c \in Connections, NEW t, Steps(c, t),
         Calls(c, t)
  PROVE  Agreed' /\ Current' /\ ReadsNow'
<1>1. /\ [Next]_vars /\ conn[c].lease \in {"LIVE", "RETAINED"} /\ t.pc = "sending"
  BY DEF Calls
<1>2. conn'[c] = t /\ \A d \in Connections \ {c} : conn'[d] = conn[d]
  BY StepSound
<1>3. Views' \subseteq Views
  BY ViewsOfWork
<1>4. Agreed'
  BY <1>3, AgreedStays DEF PageInv
<1>5. ReadsNow'
  <2>1. ASSUME NEW d \in Connections PROVE conn'[d].pc # "listing"
    <3>1. CASE d = c
      BY <1>1, <1>2, <3>1
    <3>2. CASE d # c
      <4>1. conn[d].lease # "READ"
        BY <1>1, <3>2 DEF LeaseInv, Exclusive, Compatible
      <4>2. conn[d].pc # "listing"
        BY <4>1 DEF TrafficSound, Sound, Served
      <4> QED
        BY <1>2, <3>2, <4>2
    <3> QED
      BY <3>1, <3>2
  <2> QED
    BY <2>1 DEF ReadsNow
<1>6. ListsMarked
  BY <1>1, SessionMarked
<1>7. /\ revision \in Nat /\ conversionRevision \in Nat
      /\ revision' \in Nat /\ conversionRevision' \in Nat
  <2>1. SessionSound'
    BY <1>1, SessionSoundNext
  <2> QED
    BY <2>1, SessionAssumption DEF SessionSound, IInv, Typed, SessionAssumption
<1>8. ASSUME ~released', NEW x \in Views, UpToDate(x), x.page \in Pages
      PROVE  UpToDate(x)'
  <2>1. PICK at \in Nat : at = x.page.at
    BY <1>8 DEF Pages
  <2>2. PinnedTo(x.path) <= PinnedTo(x.path)' /\ PinnedTo(x.path) \in Nat /\ PinnedTo(x.path)' \in Nat
    BY <1>6, <1>7 DEF ListsMarked, PinnedTo
  <2>3. at <= PinnedTo(x.path)
    BY <1>8, <2>1 DEF UpToDate
  <2>4. at <= PinnedTo(x.path)'
    BY <2>2, <2>3
  <2>5. ASSUME at = PinnedTo(x.path)', Pinned(x)
        PROVE  Copies(x.page, Listing(x.path)')
    <3>1. at = PinnedTo(x.path) /\ PinnedTo(x.path)' = PinnedTo(x.path)
      BY <2>2, <2>3, <2>5
    <3>2. Copies(x.page, Listing(x.path))
      BY <1>8, <2>1, <2>5, <3>1 DEF UpToDate
    <3>3. Listing(x.path)' = Listing(x.path)
      <4>1. CASE x.path = "/api/conversions"
        <5>1. conversionRevision' = conversionRevision /\ at < MaxRevision /\ at = conversionRevision
          BY <2>1, <2>5, <3>1, <4>1 DEF PinnedTo, Pinned
        <5>2. conversions' = conversions
          BY <1>6, <1>7, <5>1 DEF ListsMarked
        <5> QED
          BY <4>1, <5>2 DEF Listing
      <4>2. CASE x.path # "/api/conversions"
        <5>1. revision' = revision
          BY <3>1, <4>2 DEF PinnedTo
        <5>2. history' = history /\ variables' = variables
          BY <1>6, <1>7, <5>1 DEF ListsMarked
        <5> QED
          BY <4>2, <5>2 DEF Listing
      <4> QED
        BY <4>1, <4>2
    <3> QED
      BY <3>2, <3>3
  <2> QED
    BY <2>1, <2>4, <2>5 DEF UpToDate, Pinned, Copies, ItemAt
<1>9. \A x \in Views : x.page \in Pages
  <2>1. ASSUME NEW d \in Connections, conn[d].page # None PROVE View(conn[d]).page \in Pages
    BY <2>1, SoundParts, StateFields DEF TrafficSound, View
  <2> QED
    BY <2>1 DEF Views, PageInv, SeenWhole
<1>10. Current'
  <2> SUFFICES ASSUME ~released' PROVE \A x \in Views' : UpToDate(x)'
    BY DEF Current
  <2>1. ~released
    BY <1>6 DEF ListsMarked, vars
  <2>2. \A x \in Views : UpToDate(x)
    BY <2>1 DEF PageInv, Current
  <2> QED
    BY <1>3, <1>8, <1>9, <2>2
<1> QED
  BY <1>4, <1>5, <1>10

(* A worker's step keeps what is said of pages. *)
LEMMA PageInvStep ==
  ASSUME TrafficSound, SessionSound, LeaseInv, PageInv, NEW c \in Connections, NEW t, Steps(c, t)
  PROVE  PageInv'
<1>1. Agreed' /\ Current' /\ ReadsNow'
  BY PagesOfWork, PagesOfOpening, PagesOfContinuing, PagesOfCalling DEF Steps
<1>2. SeenWhole'
  BY SeenStaysWhole DEF PageInv
<1> QED
  BY <1>1, <1>2 DEF PageInv

(* Every step of the server keeps what is said of pages. *)
LEMMA PageInvNext ==
  ASSUME TrafficInv, LeaseInv, PageInv, [NextTraffic]_allVars
  PROVE  PageInv'
<1>1. TrafficSound /\ SessionSound
  BY DEF TrafficInv
<1>2. CASE UNCHANGED vars /\ UNCHANGED seen /\
           \A c \in Connections : /\ conn'[c].pc = conn[c].pc /\ conn'[c].page = conn[c].page
                                  /\ conn'[c].request = conn[c].request
  <2>1. Views' = Views
    BY <1>2 DEF Views, View
  <2>2. Agreed'
    BY <2>1, AgreedStays DEF PageInv
  <2>3. Current'
    BY <1>2, <2>1, ListsStay DEF PageInv, Current
  <2>4. ReadsNow'
    BY <1>2 DEF PageInv, ReadsNow, PinnedTo, vars, conversion
  <2>5. SeenWhole'
    BY <1>2 DEF PageInv, SeenWhole, Complete
  <2> QED
    BY <2>2, <2>3, <2>4, <2>5 DEF PageInv
<1>3. CASE UNCHANGED allVars
  BY <1>2, <1>3 DEF allVars, traffic
<1>4. CASE Ages
  BY <1>1, <1>2, <1>4, AgesSound DEF Ages
<1>5. CASE Expire
  <2>1. UNCHANGED <<conn, seen>> /\ released' = TRUE
    BY <1>5 DEF Expire, traffic
  <2>2. Views' = Views
    BY <2>1 DEF Views, View
  <2>3. Agreed'
    BY <2>2, AgreedStays DEF PageInv
  <2>4. \A c \in Connections : conn[c].pc # "listing"
    <3>1. \A c \in Connections : conn[c].lease # "READ"
      BY <1>5 DEF Expire
    <3> QED
      BY <1>1, <3>1 DEF TrafficSound, Sound, Served
  <2>5. Current' /\ ReadsNow'
    BY <2>1, <2>4 DEF Current, ReadsNow
  <2>6. SeenWhole'
    BY <2>1 DEF PageInv, SeenWhole, Complete
  <2> QED
    BY <2>3, <2>5, <2>6 DEF PageInv
<1>6. CASE \E c \in Connections : \E t : Steps(c, t)
  BY <1>1, <1>6, PageInvStep
<1> QED
  BY <1>1, <1>3, <1>4, <1>5, <1>6, NextIsStep

(* What was said of pages stays true. *)
LEMMA PageInvariance == SpecTraffic => [](TrafficInv /\ PageInv)
<1>1. TrafficInv /\ LeaseInv /\ PageInv /\ [NextTraffic]_allVars => PageInv'
  BY PageInvNext
<1> QED
  BY PagesAtFirst, <1>1, TrafficInvariance, LeaseInvariance, PTL DEF SpecTraffic

(* Pages of one list that report the same revision are of the same list,
   whatever other connections did in between (session_api.c:672 and 712). *)
THEOREM PagesOfOneRevisionAgree == SpecTraffic => []PagesAgree
<1>1. TrafficInv /\ PageInv => PagesAgree
  <2> SUFFICES ASSUME TrafficInv, PageInv, NEW c \in Connections,
                      conn[c].pc = "sending", IsPage(conn[c]), seen # None,
                      seen.path = conn[c].request.path, seen.page.at = conn[c].page.at,
                      seen.path = "/api/conversions" => conn[c].page.at < MaxRevision
               PROVE  /\ conn[c].page.total = seen.page.total
                      /\ \A i \in conn[c].page.chosen \cap seen.page.chosen :
                           conn[c].page.items[i - Min(conn[c].page.chosen) + 1]
                             = seen.page.items[i - Min(seen.page.chosen) + 1]
    BY DEF PagesAgree
  <2>1. PICK one, other : one = conn[c].page /\ other = seen.page
    OBVIOUS
  <2>2. one \in Pages /\ Len(one.items) = Cardinality(one.chosen)
    <3>1. Sound(conn[c]) /\ conn[c].page # None /\ conn[c].code = 200
      BY DEF TrafficInv, TrafficSound, IsPage
    <3> QED
      BY <2>1, <3>1, SoundParts, StateFields DEF Paged, Complete
  <2>3. other \in Pages /\ Len(other.items) = Cardinality(other.chosen)
    BY <2>1 DEF PageInv, SeenWhole, Complete
  <2>4. Agree(one, other)
    <3>1. View(conn[c]) \in Views /\ seen \in Views
      BY DEF Views, IsPage
    <3>2. Consistent(View(conn[c]), seen)
      BY <3>1 DEF PageInv, Agreed
    <3>3. View(conn[c]).path = conn[c].request.path /\ View(conn[c]).page = one
      BY <2>1 DEF View
    <3> QED
      BY <2>1, <3>2, <3>3 DEF Consistent, Pinned
  <2>5. ASSUME NEW i \in one.chosen \cap other.chosen
        PROVE  one.items[i - Min(one.chosen) + 1] = other.items[i - Min(other.chosen) + 1]
    <3>1. PICK a \in Nat \ {0}, b \in Nat :
            a <= b /\ one.chosen = a .. b /\ Min(one.chosen) = a /\ Cardinality(one.chosen) = b - a + 1
      BY <2>2, <2>5, FirstChosen
    <3>2. PICK e \in Nat \ {0}, f \in Nat :
            e <= f /\ other.chosen = e .. f /\ Min(other.chosen) = e
              /\ Cardinality(other.chosen) = f - e + 1
      BY <2>3, <2>5, FirstChosen
    <3>3. i \in a .. b /\ i \in e .. f
      BY <2>5, <3>1, <3>2
    <3>4. PICK j, k : j = i - a + 1 /\ k = i - e + 1
      OBVIOUS
    <3>5. j \in 1 .. Len(one.items) /\ k \in 1 .. Len(other.items) /\ a + j = e + k
      BY <2>2, <2>3, <3>1, <3>2, <3>3, <3>4
    <3>6. one.items[j] = other.items[k]
      BY <2>4, <3>1, <3>2, <3>5, Zenon DEF Agree
    <3> QED
      BY <3>1, <3>2, <3>4, <3>6
  <2> QED
    BY <2>1, <2>4, <2>5 DEF Agree
<1> QED
  BY <1>1, PageInvariance, PTL
=============================================================================
