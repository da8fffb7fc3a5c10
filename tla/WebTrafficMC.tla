---------------------------- MODULE WebTrafficMC ----------------------------
(* Two workers, one client with one expression, and what its pages ask for.   *)
EXTENDS WebTraffic, TLC

Sum ==
  [name |-> "1/3", ans |-> FALSE, random |-> FALSE, exact |-> FALSE,
   reads |-> NoName, assigns |-> NoName, size |-> 1]
OneInput == {Sum}

Asks(method, path, fields) ==
  [method |-> method, path |-> path, fields |-> fields, body |-> "empty", text |-> Sum, name |-> "x"]
With(word, value) == Targets!Field(word, value)
Of(word, n) == Targets!Numeric(word, n)
Ours == With("client", Targets!Client)

Evaluating(r, action) ==
  [Asks("POST", "/api/evaluate",
        <<Of("precision", 10), Ours, Of("revision", r), With("action", action)>>)
     EXCEPT !.body = "text"]
Restarting(r, action) ==
  Asks("POST", "/api/session", <<Ours, With("action", action), Of("revision", r)>>)
Converting(r) ==
  [Asks("POST", "/api/conversions",
        <<Ours, With("action", "commit"), Of("revision", r), With("from", "m"), With("to", "km")>>)
     EXCEPT !.body = "text"]
Clearing(r) == Asks("POST", "/api/conversions", <<Ours, With("action", "clear"), Of("revision", r)>>)
Paging(path, at, offset) ==
  Asks("GET", path, <<Ours, Of("at", at), Of("offset", offset), Of("limit", 1)>>)
Reading(path) == Asks("GET", path, <<Ours>>)

Starting == [Evaluating(1, "start") EXCEPT !.body = "empty"]
Deleting == [Evaluating(3, "delete-variable") EXCEPT !.body = "text"]

Plotting == Asks("POST", "/api/graph/plot",
                 <<Ours, Of("at", 2), Of("min", 0), Of("max", 1), With("mode", "fast")>>)

TrafficRequests ==
  {Asks("POST", "/api/matrix", <<>>), Asks("GET", "/api/functions", <<>>), Plotting,
   Evaluating(3, "preview"), Evaluating(3, "commit"), Restarting(3, "clear-history"),
   Restarting(4, "release"), Converting(2), Clearing(2), Deleting, Starting,
   Reading("/api/conversions"), Reading("/api/session/history"),
   Paging("/api/session/history", 2, 0), Paging("/api/session/history", 2, 1)}

Alike == Permutations(Connections)

(* A new session, or one with two calculations and a conversion. *)
Entry(r, value) ==
  [expression |-> Sum, value |-> value, context |-> [scale |-> 1, notation |-> "auto"],
   revision |-> r]
Third == [of |-> Sum, answer |-> 0, variable |-> 0, draw |-> 0, scale |-> 1]

InitUsed ==
  /\ revision = 2 /\ released = FALSE /\ alive = TRUE
  /\ lifecycle = [revision |-> 0, action |-> "none"]
  /\ deletion = [revision |-> 0, name |-> NoName]
  /\ history = <<Entry(1, Third), Entry(2, Third)>>
  /\ detached = None /\ preview = None
  /\ random = 7 /\ seeded = TRUE
  /\ variables = [n \in Names |-> None]
  /\ conversions = <<Entry(1, Third)>> /\ conversionRevision = 1 /\ conversionClear = 0
  /\ reserved = 6
  /\ latest = [op |-> "confirm", revision |-> 2, input |-> Sum,
               context |-> [scale |-> 1, notation |-> "auto"]]
  /\ conn = [c \in Connections |-> Closed]
  /\ requests = 0
  /\ seen = None

SpecOpen == (InitTraffic \/ InitUsed) /\ [][NextTraffic]_allVars
=============================================================================
