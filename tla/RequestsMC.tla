----------------------------- MODULE RequestsMC -----------------------------
(***************************************************************************)
(* A request from its bytes to the value of the expression in it: calls of *)
(* module HttpRequests on small inputs, and what module ExpressionsMC      *)
(* evaluates, one call after the other; or the requests that one           *)
(* evaluation cache answers.  The two share no state, so each of them      *)
(* begins when the other is at rest.                                       *)
(***************************************************************************)
EXTENDS ExpressionsMC, EvaluationCache

Seqs == INSTANCE SequencesExt

-----------------------------------------------------------------------------
(* Reading.  A buffer of eight bytes, a body limit of three, and a header    *)
(* that ends before, at and after the end of the buffer.                     *)

Capacity == 8
Public == [scheme |-> "https", host |-> "calc", port |-> 0, lower |-> TRUE]
Server == [port |-> 80, publicOrigin |-> Public, maxNumber |-> 25, maxBody |-> 3]

SomeOrigins ==
  {[Public EXCEPT !.lower = l] : l \in BOOLEAN}
    \cup {[scheme |-> "http", host |-> h, port |-> p, lower |-> l] :
            h \in {"localhost", "127.0.0.1", "calc"}, p \in {0, 80, 443}, l \in BOOLEAN}

HeaderNamed(name) == [name |-> name, digits |-> <<>>, origin |-> Public]
LengthLine(digits) == [HeaderNamed("content-length") EXCEPT !.digits = digits]
OriginLine(origin) == [HeaderNamed("origin") EXCEPT !.origin = origin]

Headers ==
  {<<>>, <<HeaderNamed("host")>>, <<HeaderNamed("")>>, <<HeaderNamed("transfer-encoding")>>,
   <<LengthLine(<<2>>), LengthLine(<<0>>)>>, <<LengthLine(<<1>>), HeaderNamed("transfer-encoding")>>}
    \cup {<<LengthLine(d)>> : d \in {<<>>, <<0>>, <<0, 2>>, <<3>>, <<4>>, <<2, 5>>, <<2, 6>>}}
    \cup {<<OriginLine(o), LengthLine(<<1>>)>> : o \in SomeOrigins}
    \cup {<<OriginLine(Public), OriginLine(Public)>>}

Lines == {[method |-> "POST", target |-> "/", version |-> v, fits |-> f] :
            v \in {"1.0", "1.1", "2.0"}, f \in BOOLEAN}
         \cup {[method |-> m, target |-> t, version |-> "1.0", fits |-> TRUE] :
                 m \in {"", "GET"}, t \in {"", "/"}}

Plain == [method |-> "POST", target |-> "/", version |-> "1.1", fits |-> TRUE]

SomeWires ==
  {[line |-> Plain, headers |-> h, header |-> n, nul |-> 0] : h \in Headers, n \in {3, 5, 7, 9}}
    \cup {[line |-> l, headers |-> <<LengthLine(<<2>>)>>, header |-> 4, nul |-> k] :
            l \in Lines, k \in {0, 2}}

\* Every way to cut n bytes into recv calls.
RECURSIVE Cuts(_)
Cuts(n) == IF n = 0 THEN {<<>>}
           ELSE UNION {{<<k>> \o rest : rest \in Cuts(n - k)} : k \in 1 .. n}

SomePieces ==
  UNION {{r \o cut : r \in {<<>>, <<Retryable>>}, cut \in Cuts(sent)} : sent \in {0, 2, 4, 5, 7, 8}}

ReadAnyCut ==
  \E wire \in SomeWires, pieces \in SomePieces, ending \in {Closed, Late} :
    Read(wire, pieces, ending, Capacity, Server)

-----------------------------------------------------------------------------
(* Numbers and components of a query. *)

ReadANumber ==
  \E n \in 0 .. 3, max \in {0, 9, 10, 25, 99} : \E digits \in [1 .. n -> {0, 1, 2, 5, 6, 9}] :
    ReadDecimal(digits, max)

ReadAComponent ==
  \E n \in 0 .. 3 :
    \E text \in [1 .. n -> {<<43>>, <<65>>, <<31>>, <<127>>, <<37>>, <<37, 4>>, <<37, 2, 11>>,
                            <<37, -1, 5>>, <<37, 7, 15>>, <<37, 0, 0>>}] :
      ReadText(text, 3)

ReadAnOrigin ==
  \E scheme \in {"http", "https", "ftp"}, colon \in BOOLEAN,
     host \in {<<>>, <<"a">>, <<"a", ".", "0">>, <<"-", "a">>, <<"a", ".">>, <<"a", "A">>},
     digits \in {<<>>, <<8, 0>>, <<4, 4, 3>>, <<0, 1>>, <<6, 5, 5, 3, 5>>, <<6, 5, 5, 3, 6>>} :
    ReadOrigin(scheme, host, colon, digits)

-----------------------------------------------------------------------------
(* Targets. *)

F(key, value) == Field(key, value)
N(key, n) == Numeric(key, n)
Options ==
  {N("precision", 5), N("precision", Full), N("precision", BadNumber),
   F("angle", "deg"), F("notation", "plain"), F("form", "exp"), F("client", Client),
   N("revision", 7), N("revision", 0), F("action", "commit"), F("action", "destroy"), F("", "x")}

Longest == <<N("precision", 5), F("angle", "deg"), F("notation", "plain"), F("form", "exp"),
             F("client", Client), N("revision", 7), F("action", "commit")>>

\* All short targets, and what one mistake makes of the longest.
EvaluationFields ==
  Seqs!BoundedSeq(Options, 3)
    \cup {SelectSeq(Longest, LAMBDA f : f.key \notin gone) :
            gone \in SUBSET {"precision", "angle", "notation", "form", "client", "revision", "action"}}
    \cup {[Longest EXCEPT ![i] = o] : i \in 1 .. 7, o \in Options}
    \cup {Seqs!InsertAt(Longest, i, o) : i \in 1 .. 8, o \in Options}
    \cup {[Longest EXCEPT ![i] = Longest[i + 1], ![i + 1] = Longest[i]] : i \in 1 .. 6}

ParseATarget == \E fields \in EvaluationFields : ParseTarget(fields)

Queries ==
  LET client == F("client", Client)
      page == <<client, N("offset", 8), N("limit", 8), N("at", 3)>>
      view == <<N("min", 0), N("max", 1), F("mode", "fast"), N("ymin", 0), N("ymax", 2),
                F("interpolation", "hermite"), client, N("at", 1)>>
      mutation == <<client, F("action", "reset"), N("revision", 4)>>
      commit == <<client, F("action", "commit"), N("revision", 4), F("from", "m"), F("to", "km"),
                  N("precision", 5)>>
      shortened(fields) == {Seqs!RemoveAt(fields, i) : i \in 1 .. Len(fields)} \cup {fields}
  IN  shortened(page) \cup shortened(view) \cup shortened(mutation) \cup shortened(commit)
        \cup {Append(page, N("id", 2)), Append(page, N("limit", 8)), <<F("lang", "en")>>,
              <<F("section", "units"), F("lang", "sk")>>, <<client, F("name", "ans")>>,
              <<client, N("limit", 0)>>, <<client, N("full", 2)>>, <<F("mode", "numeric")>>,
              <<F("mode", "expression"), N("precision", 20)>>, <<N("precision", 50)>>,
              <<F("from", "m"), F("to", "km"), N("snapshot", 1)>>, Longest}

Paths == Assets \cup Pages \cup Listings
         \cup {"/api", "/api/units", "/api/functions", "/api/session", "/api/sessions",
               "/api/session/value", "/api/graph/sample", "/api/graph/plot", "/api/graph/verify",
               "/api/equations/solve", "/api/convert", "/api/currency/convert", "/api/matrix",
               "/api/evaluate", "/unknown"}

RouteARequest ==
  \E method \in {"GET", "POST", "PUT"}, path \in Paths, fields \in Queries,
     body \in {"empty", "text", "nul"}, frame \in Frames :
    RouteRequest(method, path, fields, body, frame)

-----------------------------------------------------------------------------
(* Requests for one cache: texts whose value depends on everything, on the   *)
(* angle, on the scale, on a draw, or on nothing, and one that is too large. *)

ExactText == [name |-> "1/3+i", random |-> FALSE, angular |-> FALSE, exact |-> TRUE, size |-> 1]
RootText == [ExactText EXCEPT !.name = "sqrt(-2)", !.exact = FALSE, !.size = 2]
SineText == [RootText EXCEPT !.name = "complex(sin(90);1)", !.angular = TRUE, !.size = 3]
DiceText == [RootText EXCEPT !.name = "complex(rand();1)", !.random = TRUE]
LongText == [RootText EXCEPT !.name = "complex(100!;1)/7", !.exact = TRUE, !.size = 4]

CacheTexts == {ExactText, RootText, SineText, DiceText, LongText}

-----------------------------------------------------------------------------
HttpNext ==
  /\ call = Idle
  /\ ReadAnyCut \/ ReadANumber \/ ReadAComponent \/ ReadAnOrigin \/ ParseATarget \/ RouteARequest

RequestsInit == InitHttp /\ Init
CacheRests == Init

RequestsNext ==
  \/ CacheRests /\ HttpNext /\ UNCHANGED vars
  \/ CacheRests /\ ExpressionsNext /\ UNCHANGED vars
  \/ call = Idle /\ Next /\ UNCHANGED call

RequestsSpec == RequestsInit /\ [][RequestsNext]_<<call, vars>>
=============================================================================
