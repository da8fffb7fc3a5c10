---------------------------- MODULE HttpRequests ----------------------------
(***************************************************************************)
(* A server reads and routes one request after the other; each answer is   *)
(* compared with what the bytes of the request mean.                       *)
(***************************************************************************)
EXTENDS HttpRequest, HttpTargets

VARIABLE call   \* the answer that was given last, with its inputs

Idle == [op |-> "none"]
InitHttp == call = Idle

Ask(op, in, answer) == call' = [op |-> op, in |-> in, answer |-> answer]

-----------------------------------------------------------------------------
(* What the server may be sent, and what it was started with. *)

DigitLists == Seq(0 .. 9)
Origins == [scheme : STRING, host : STRING, port : Nat, lower : BOOLEAN]
HeaderLines == [name : STRING, digits : DigitLists, origin : Origins]
RequestLines == [method : STRING, target : STRING, version : STRING, fits : BOOLEAN]
Wires == [line : RequestLines, headers : Seq(HeaderLines), header : Nat, nul : Nat]
Servers == [port : Nat, publicOrigin : Origins, maxNumber : Nat, maxBody : Nat]
Pieces == Seq((Nat \ {0}) \cup {Retryable})
QueryFields == Seq([key : STRING, value : STRING, number : Int])
Frames == [allowed : BOOLEAN, hasLength : BOOLEAN]

-----------------------------------------------------------------------------
(* Its calls. *)

Sent(pieces) == Loop(Len(pieces), 0, LAMBDA n, i : n + Larger(pieces[i], 0))

Read(wire, pieces, ending, capacity, server) ==
  Ask("read", [wire |-> wire, sent |-> Sent(pieces), ending |-> ending,
               capacity |-> capacity, server |-> server],
      ReadRequest(wire, capacity, server, Append(pieces, ending)))

ReadDecimal(digits, max) ==
  Ask("number", [digits |-> digits, max |-> max], DecimalNumber(digits, max))

ReadText(text, capacity) == Ask("component", text, DecodeQuery(text, capacity))

ReadOrigin(scheme, host, colon, digits) ==
  Ask("origin", [scheme |-> scheme, host |-> host, colon |-> colon, digits |-> digits],
      ValidOrigin(scheme, host, colon, digits))

ParseTarget(fields) == Ask("target", fields, EvaluationTarget(fields))

(* The route, the lease its handler asks for and what it is then told to do. *)
RouteRequest(method, path, fields, body, frame) ==
  LET route == Route(method, path, fields, body, frame)
      lease == LeaseOf(route.handler, method, path, fields, body)
  IN  Ask("route", [method |-> method, path |-> path, fields |-> fields, body |-> body,
                    frame |-> frame],
          [route |-> route, lease |-> lease,
           mutation |-> IF lease = Ok("RETAINED") THEN SessionMutation(path, fields, body)
                        ELSE Refused("none")])

(* Numbers, targets and streams of any length, cut in any way. *)
NextHttp ==
  \/ \E wire \in Wires, pieces \in Pieces, ending \in {Closed, Late}, capacity \in Nat \ {0},
        server \in Servers : Read(wire, pieces, ending, capacity, server)
  \/ \E digits \in DigitLists, max \in Nat : ReadDecimal(digits, max)
  \/ \E text \in Seq(Seq(Int)), capacity \in Nat : ReadText(text, capacity)
  \/ \E scheme \in STRING, host \in Seq(STRING), colon \in BOOLEAN, digits \in DigitLists :
       ReadOrigin(scheme, host, colon, digits)
  \/ \E fields \in QueryFields : ParseTarget(fields)
  \/ \E method \in STRING, path \in STRING, fields \in QueryFields,
        body \in {"empty", "text", "nul"}, frame \in Frames :
       RouteRequest(method, path, fields, body, frame)

SpecHttp == InitHttp /\ [][NextHttp]_call

-----------------------------------------------------------------------------
(* What the bytes of a request mean, without an order in which they come.    *)

Spelled(digits) == Loop(Len(digits), 0, LAMBDA n, i : 10 * n + digits[i])

LinesNamed(wire, name) == {i \in 1 .. Len(wire.headers) : wire.headers[i].name = name}
Once(wire, name) == \A i, j \in LinesNamed(wire, name) : i = j
Lengths(wire) == {wire.headers[i].digits : i \in LinesNamed(wire, "content-length")}
OriginsOf(wire) == {wire.headers[i].origin : i \in LinesNamed(wire, "origin")}

Acceptable(wire, server) ==
  /\ wire.line.fits
  /\ wire.line.method # "" /\ wire.line.target # ""
  /\ wire.line.version \in {"1.0", "1.1"}
  /\ LinesNamed(wire, "") \cup LinesNamed(wire, "transfer-encoding") = {}
  /\ Once(wire, "content-length") /\ Once(wire, "origin")
  /\ \A d \in Lengths(wire) : d # <<>> /\ Spelled(d) <= server.maxNumber

BodyLength(wire) ==
  IF Lengths(wire) = {} THEN 0 ELSE Spelled(CHOOSE d \in Lengths(wire) : TRUE)

(* A page of the server itself, by any of its names; the name it was given is
   compared letter by letter. *)
Local(origin, server) ==
  /\ origin.scheme = "http" /\ origin.host \in {"localhost", "127.0.0.1"}
  /\ origin.port = server.port \/ (origin.port = 0 /\ server.port = 80)

FrameOf(wire, server) ==
  [length |-> wire.header + BodyLength(wire),
   hasLength |-> Lengths(wire) # {},
   allowed |-> \A o \in OriginsOf(wire) : o = server.publicOrigin \/ Local(o, server)]

(* The response to sent bytes of a stream that then ends or stalls. *)
Meaning(wire, sent, ending, capacity, server) ==
  LET arrived == IF sent < capacity THEN sent ELSE capacity - 1
      complete == wire.nul = 0 /\ wire.header <= arrived
      hopeless == arrived = capacity - 1 \/ (wire.nul # 0 /\ wire.nul <= arrived)
      stopped == Refused(IF ending = Late THEN "408" ELSE "400")
  IN  IF ~complete THEN (IF hopeless THEN Refused("400") ELSE stopped)
      ELSE IF ~Acceptable(wire, server) THEN Refused("400")
      ELSE IF \/ BodyLength(wire) > server.maxBody
              \/ wire.header + BodyLength(wire) >= capacity
      THEN Refused("413")
      ELSE IF sent < wire.header + BodyLength(wire) THEN stopped
      ELSE Ok(FrameOf(wire, server))

-----------------------------------------------------------------------------
(* However a stream is cut into recv calls, and whichever of them are retried,
   a handler gets exactly the header and the body the header announces, or the
   peer gets the error its bytes deserve: what is refused, and what follows the
   body, never depends on what happened to arrive together.  A number of a
   header or of a query is read exactly or refused, at the limit of its type
   too: no digit wraps the accumulator (http_request.c:160-169 and 303-345,
   web_server.c:224-283 and 537-545, session_api.c:131-135). *)
ReadsWhatWasSent ==
  /\ call.op = "read" =>
       call.answer = Meaning(call.in.wire, call.in.sent, call.in.ending, call.in.capacity,
                             call.in.server)
  /\ call.op = "number" =>
       call.answer = IF Spelled(call.in.digits) > call.in.max THEN Refused("OVERFLOW")
                     ELSE Ok(Spelled(call.in.digits))

(* An evaluation target is cut up from its end, suffix by suffix.  What comes
   out is what the text says when it is read from its beginning: a precision,
   then at most one each of an angle, a notation, a form, a client with its
   revision and an action, in this order; any other text is refused, and no
   option is taken from inside another one (web_server.c:285-412, 487-555). *)
Order == <<"precision", "angle", "notation", "form", "client", "revision", "action">>
Place(key) == CHOOSE p \in 1 .. 7 : Order[p] = key

Admits(f) ==
  CASE f.key = "precision" -> f.number # BadNumber
    [] f.key = "angle" -> f.value \in {"rad", "deg"}
    [] f.key = "notation" -> f.value \in {"auto", "plain", "scientific", "math", "fraction"}
    [] f.key = "form" -> f.value \in {"cartesian", "trig", "exp"}
    [] f.key = "client" -> f.value = Client
    [] f.key = "revision" -> f.number >= 1
    [] f.key = "action" -> f.value \in {"start", "preview", "commit", "delete-variable"}
    [] OTHER -> FALSE

Says(fields) ==
  /\ \A i \in 1 .. Len(fields) : Admits(fields[i])
  /\ \A i, j \in 1 .. Len(fields) : i < j => Place(fields[i].key) < Place(fields[j].key)
  /\ "client" \in Keys(fields) <=> "revision" \in Keys(fields)
  /\ "action" \in Keys(fields) => "client" \in Keys(fields)

TargetsUnderstood ==
  call.op = "target" /\ IsEvaluationTarget(call.in) =>
    LET says(key, default) == ValueOf(call.in, key, default)
        counts(key, default) == NumberIn(call.in, key, default)
    IN  call.answer =
          IF ~Says(call.in) THEN Refused("BAD")
          ELSE Ok([action |-> says("action", "none"), client |-> says("client", "none"),
                   revision |-> counts("revision", 0), form |-> says("form", "cartesian"),
                   scale |-> counts("precision", 10), angle |-> says("angle", "rad"),
                   notation |-> says("notation", "auto")])

(* A page of another origin may read what it can name and change nothing: a
   request with a foreign Origin header, like one by GET, is never given a
   lease under which a session or a cached value can change, whichever of the
   overlapping prefixes its target has (web_server.c:948-1130). *)
ForeignOriginsOnlyRead ==
  call.op = "route" /\ (~call.in.frame.allowed \/ call.in.method = "GET") =>
    /\ call.answer.lease.status = "OK" => call.answer.lease.value \in {"none", "READ"}
    /\ call.answer.mutation.status # "OK"
=============================================================================
