---------------------------- MODULE HttpRequest ----------------------------
(***************************************************************************)
(* The framing of requests: src/apps/web/http/http_request.c and           *)
(* numforge_read_request of src/apps/web/server/web_server.c.              *)
(*                                                                         *)
(* A request on the wire is a record of what its bytes say: the words of   *)
(* the request line, the header lines, and where in the stream the header  *)
(* ends, where it has a NUL byte (0 if nowhere) and where the peer stops   *)
(* sending.  How the stream is cut into pieces is not part of it.          *)
(***************************************************************************)
EXTENDS Calls

(* A decimal number, digit by digit, that must not exceed max: the loops over
   Content-Length, over a cache revision and over the numbers of a query. *)
DecimalNumber(digits, max) ==
  LoopWhileOk(Len(digits), 0, LAMBDA n, i :
    IF n > (max - digits[i]) \div 10 THEN Refused("OVERFLOW")
    ELSE Ok(10 * n + digits[i]))

(* A query component is a sequence of characters: <<code>>, or an escape
   <<37, high, low>> with two hex digits, of which the text may end too early
   and of which -1 is none. *)
Decoded(c) ==
  IF c[1] = 37 THEN
    IF Len(c) < 3 \/ -1 \in {c[2], c[3]} THEN Refused("BAD") ELSE Ok(16 * c[2] + c[3])
  ELSE Ok(IF c[1] = 43 THEN 32 ELSE c[1])

DecodeQuery(text, capacity) ==
  LET decoded ==
        LoopWhileOk(Len(text), <<>>, LAMBDA out, i :
          Then(Decoded(text[i]), LAMBDA c :
            IF c < 32 \/ c >= 127 \/ Len(out) + 1 >= capacity THEN Refused("BAD")
            ELSE Ok(Append(out, c))))
  IN  IF decoded = Ok(<<>>) THEN Refused("BAD") ELSE decoded

-----------------------------------------------------------------------------
(* Origins: [scheme, host, port], port 0 if none is written, and whether the
   spelling is all lower case. *)

AsciiEquals(origin, expected) ==
  [origin EXCEPT !.lower = TRUE] = [expected EXCEPT !.lower = TRUE]

OriginMatches(origin, host, port) ==
  LET expected(p) == [scheme |-> "http", host |-> host, port |-> p, lower |-> TRUE]
  IN  \/ port = 80 /\ AsciiEquals(origin, expected(0))
      \/ AsciiEquals(origin, expected(port))

(* A public origin, as given at start-up: its host is a sequence of letters
   and of other marks, its port a sequence of digits or <<>> without a colon.
   What no browser sends back is refused. *)
HostMarks == {"a", "0", "-", "."}
ValidOrigin(scheme, host, colon, digits) ==
  LET port == DecimalNumber(digits, 65535)
  IN  /\ scheme \in {"http", "https"}
      /\ host # <<>>
      /\ \A i \in 1 .. Len(host) : host[i] \in HostMarks
      /\ {host[1], host[Len(host)]} \cap {"-", "."} = {}
      /\ IF ~colon THEN digits = <<>>
         ELSE /\ digits # <<>>
              /\ digits[1] # 0
              /\ port.status = "OK"
              /\ port.value # (IF scheme = "http" THEN 80 ELSE 443)

-----------------------------------------------------------------------------
(* Header lines: [name, digits, origin], the last two being the value of a
   Content-Length and of an Origin.  A line without a colon has the name "". *)

NoHeaders == [length |-> 0, hasLength |-> FALSE, origin |-> FALSE, allowed |-> TRUE]

Allowed(origin, server) ==
  \/ OriginMatches(origin, "127.0.0.1", server.port)
  \/ OriginMatches(origin, "localhost", server.port)
  \/ origin = server.publicOrigin

(* The digits are <<>> if the value has none or has more than digits. *)
HeaderLine(found, line, server) ==
  CASE line.name = "content-length" ->
         IF found.hasLength \/ line.digits = <<>> THEN Refused("BAD")
         ELSE Then(DecimalNumber(line.digits, server.maxNumber), LAMBDA n :
                Ok([found EXCEPT !.length = n, !.hasLength = TRUE]))
    [] line.name = "origin" ->
         IF found.origin THEN Refused("BAD")
         ELSE Ok([found EXCEPT !.origin = TRUE, !.allowed = Allowed(line.origin, server)])
    [] line.name \in {"", "transfer-encoding"} -> Refused("BAD")
    [] OTHER -> Ok(found)

ParseHeaders(lines, server) ==
  LoopWhileOk(Len(lines), NoHeaders,
    LAMBDA found, i : HeaderLine(found, lines[i], server))

(* The request line; `fits' if method and target are below their capacities. *)
RequestTarget(line) ==
  IF line.method # "" /\ line.target # "" /\ line.fits /\ line.version \in {"1.0", "1.1"}
  THEN Ok([method |-> line.method, target |-> line.target])
  ELSE Refused("BAD")

-----------------------------------------------------------------------------
(* strstr stops at a NUL, so a header with a NUL in it never ends. *)
HeaderEnds(wire, used) == wire.nul = 0 /\ wire.header <= used
NulArrived(wire, used) == wire.nul # 0 /\ wire.nul <= used

(* A frame from which the body is as long as the header says it is. *)
Framed_Early(wire, used, capacity, server, found) ==
  IF found.length > server.maxBody \/ found.length > (capacity - wire.header) - 1
  THEN Refused("LARGE")
  ELSE IF used < wire.header THEN Refused("MORE")
  ELSE Ok([length |-> wire.header + found.length,
           hasLength |-> found.hasLength, allowed |-> found.allowed])
Framed(wire, used, capacity, server, found) ==
  IF found.length > server.maxBody \/ found.length > (capacity - wire.header) - 1
  THEN Refused("LARGE")
  ELSE IF used < wire.header + found.length THEN Refused("MORE")
  ELSE Ok([length |-> wire.header + found.length,
           hasLength |-> found.hasLength, allowed |-> found.allowed])

Probe(wire, used, capacity, server) ==
  IF used >= capacity THEN Refused("BAD")
  ELSE IF ~HeaderEnds(wire, used) THEN
    IF NulArrived(wire, used) \/ used + 1 = capacity THEN Refused("BAD")
    ELSE Refused("MORE")
  ELSE Then(RequestTarget(wire.line), LAMBDA words :
         Then(ParseHeaders(wire.headers, server), LAMBDA found :
           Framed(wire, used, capacity, server, found)))

(* numforge_read_request.  The i-th recv returns pieces[i] bytes, cut to the
   space left in the buffer; Retryable is an error to try again after, Closed
   the end of the stream and Late a wait that reached the deadline.  The
   number of bytes used, or the HTTP error. *)
Closed == 0
Retryable == -1
Late == -2

ReadStep(wire, capacity, server, used, piece) ==
  LET probe == Probe(wire, used, capacity, server)
  IN  IF probe.status = "LARGE" THEN Refused("413")
      ELSE IF probe.status \in {"BAD", "OVERFLOW"} THEN Refused("400")
      ELSE IF probe.status = "OK" THEN Ok(used)
      ELSE IF piece = Late THEN Refused("408")
      ELSE IF piece = Closed THEN Refused("400")
      ELSE IF piece = Retryable THEN Ok(used)
      ELSE Ok(used + Smaller(piece, (capacity - used) - 1))

ReadRequest(wire, capacity, server, pieces) ==
  Then(LoopWhileOk(Len(pieces), 0,
         LAMBDA used, i : ReadStep(wire, capacity, server, used, pieces[i])),
       LAMBDA used : Probe(wire, used, capacity, server))
=============================================================================
