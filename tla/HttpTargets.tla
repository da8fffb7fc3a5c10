---------------------------- MODULE HttpTargets ----------------------------
(***************************************************************************)
(* What a request asks for: the target parsers and the routing of          *)
(* src/apps/web/server/web_server.c, and the validation of queries in      *)
(* src/apps/web/http/session_api.c and unit_web.c.                         *)
(*                                                                         *)
(* A target is a path and the fields of its query, in the order of the     *)
(* text: a key, "" if it is none, with a word or with a number.  A number  *)
(* is what its digits say, BadNumber if they say none within the bound of  *)
(* the parser, and Full for the word "full".                               *)
(***************************************************************************)
EXTENDS Calls, FiniteSets

Full == -2
BadNumber == -1
Client == "client"       \* 32 lower-case hexadecimal digits
Field(key, word) == [key |-> key, value |-> word, number |-> BadNumber]
Numeric(key, n) == [key |-> key, value |-> "number", number |-> n]

Keys(fields) == {fields[i].key : i \in 1 .. Len(fields)}

\* strstr(target, "&key="): the first such field that is not the first field.
Found(fields, key) == \E i \in 2 .. Len(fields) : fields[i].key = key
At(fields, key) ==
  CHOOSE i \in 2 .. Len(fields) :
    fields[i].key = key /\ \A j \in 2 .. i - 1 : fields[j].key # key

-----------------------------------------------------------------------------
(* /api/evaluate: the options are cut off from the end of the text. *)

IsEvaluationTarget(fields) == fields = <<>> \/ fields[1].key = "precision"

Actions == {"start", "preview", "commit", "delete-variable"}

NoOptions == [action |-> "none", client |-> "none", revision |-> 0, form |-> "cartesian",
              scale |-> 10, angle |-> "rad", notation |-> "auto"]

(* A suffix is one field to the end of the text, with an allowed value. *)
Suffix(options, fields, key, allowed) ==
  IF ~Found(fields, key) THEN Ok([options |-> options, fields |-> fields])
  ELSE LET i == At(fields, key)
       IN  IF i < Len(fields) \/ fields[i].value \notin allowed THEN Refused("BAD")
           ELSE Ok([options |-> [options EXCEPT ![key] = fields[i].value],
                    fields |-> SubSeq(fields, 1, i - 1)])

ParseSessionAction(fields) == Suffix(NoOptions, fields, "action", Actions)

ParseCacheOptions_AnyRevision(parsed) ==
  LET fields == parsed.fields
      i == At(fields, "client")
  IN  IF ~Found(fields, "client") THEN Ok(parsed)
      ELSE IF i + 1 # Len(fields) \/ fields[i].value # Client
                \/ fields[i + 1].key # "revision" THEN Refused("BAD")
      ELSE Ok([options |-> [parsed.options EXCEPT !.client = Client,
                              !.revision = fields[i + 1].number],
               fields |-> SubSeq(fields, 1, i - 1)])
ParseCacheOptions(parsed) ==
  LET fields == parsed.fields
      i == At(fields, "client")
  IN  IF ~Found(fields, "client") THEN Ok(parsed)
      ELSE IF i + 1 # Len(fields) \/ fields[i].value # Client
                \/ fields[i + 1].key # "revision" \/ fields[i + 1].number < 1 THEN Refused("BAD")
      ELSE Ok([options |-> [parsed.options EXCEPT !.client = Client,
                              !.revision = fields[i + 1].number],
               fields |-> SubSeq(fields, 1, i - 1)])

ParseForm(parsed) ==
  Suffix(parsed.options, parsed.fields, "form", {"cartesian", "trig", "exp"})

(* The angle ends where the notation begins. *)
ParseAngle(parsed) ==
  Suffix(parsed.options, parsed.fields, "angle", {"rad", "deg"})
ParseNotation(parsed) ==
  Suffix(parsed.options, parsed.fields, "notation",
         {"auto", "plain", "scientific", "math", "fraction"})

ParsePrecision(parsed) ==
  IF parsed.fields = <<>> THEN Ok(parsed.options)
  ELSE IF Len(parsed.fields) # 1 \/ parsed.fields[1].number = BadNumber THEN Refused("BAD")
  ELSE Ok([parsed.options EXCEPT !.scale = parsed.fields[1].number])

ParseEvaluationOptions(parsed) ==
  Then(ParseForm(parsed), LAMBDA form :
    Then(ParseNotation(form), LAMBDA notation :
      Then(ParseAngle(notation), ParsePrecision)))

EvaluationTarget(fields) ==
  Then(ParseSessionAction(fields), LAMBDA action :
    Then(ParseCacheOptions(action), LAMBDA cache :
      Then(ParseEvaluationOptions(cache), LAMBDA options :
        IF options.action # "none" /\ options.client = "none" THEN Refused("BAD")
        ELSE Ok(options))))

-----------------------------------------------------------------------------
(* Pages: ?lang= only, and for the guide also ?section=, in any order. *)

Languages == {"sk", "en"}
PageLanguage(fields) ==
  fields \in {<<>>} \cup {<<Field("lang", l)>> : l \in Languages}

Sections == {"calculator", "units", "graphs", "equations", "matrices", "api"}
GuidePage(fields) ==
  /\ Cardinality(Keys(fields)) = Len(fields)
  /\ \A i \in 1 .. Len(fields) :
       fields[i].value \in IF fields[i].key = "lang" THEN Languages
                          ELSE IF fields[i].key = "section" THEN Sections ELSE {}

-----------------------------------------------------------------------------
(* Queries of the session routes: every known key at most once, then what   *)
(* the route allows.                                                        *)

QueryKeys ==
  {"client", "action", "revision", "offset", "limit", "at", "id", "name", "full", "from", "to",
   "precision", "places", "rounding", "angle", "notation", "min", "max", "points", "parameter",
   "mode", "width", "height", "quality", "ymin", "ymax", "interpolation", "dense", "render"}

WellFormed(fields) ==
  Keys(fields) \subseteq QueryKeys /\ Cardinality(Keys(fields)) = Len(fields)

ValueOf(fields, key, fallback) ==
  IF key \notin Keys(fields) THEN fallback
  ELSE fields[CHOOSE i \in 1 .. Len(fields) : fields[i].key = key].value

NumberIn(fields, key, fallback) ==
  IF key \notin Keys(fields) THEN fallback
  ELSE fields[CHOOSE i \in 1 .. Len(fields) : fields[i].key = key].number

Within(fields, key, low, high, fallback) == NumberIn(fields, key, fallback) \in low .. high

Listings == {"/api/session/variables", "/api/session/history", "/api/conversions"}
Converting == {"from", "to", "precision", "places", "rounding", "angle", "notation"}

AllowedKeys(method, path) ==
  IF path = "/api/functions" THEN {}
  ELSE {"client"} \cup
       CASE method = "GET" /\ path \in Listings ->
              {"offset", "limit", "at", "full"}
                \cup (IF path = "/api/session/variables" THEN {} ELSE {"id"})
         [] method = "GET" /\ path = "/api/session/value" -> {"name", "at", "full"}
         [] method = "POST" /\ path = "/api/session" -> {"action", "revision"}
         [] method = "POST" /\ path = "/api/conversions" -> {"action", "revision"} \cup Converting
         [] OTHER -> {}

\* numforge_web_parse_conversion_options
ConversionOptions(fields) ==
  /\ Cardinality(Keys(fields)) = Len(fields)
  /\ {"from", "to"} \subseteq Keys(fields)
  /\ Keys(fields) \subseteq Converting \cup {"client", "snapshot"}
  /\ ValueOf(fields, "client", Client) = Client
  /\ NumberIn(fields, "snapshot", 1) = 1
  /\ NumberIn(fields, "precision", 1) >= 1
  /\ NumberIn(fields, "places", 0) # BadNumber
  /\ ValueOf(fields, "angle", "rad") \in {"rad", "deg"}
  /\ ValueOf(fields, "notation", "auto") \in {"auto", "plain", "scientific", "math", "fraction"}
  /\ ValueOf(fields, "rounding", "floor") \in
       {"toward_zero", "away_from_zero", "floor", "ceiling", "half_up", "half_even"}

(* The numbers session_request reads before it asks for a lease; a lookup by
   id excludes a page. *)
SessionNumbers(fields) ==
  /\ "id" \in Keys(fields) => Keys(fields) \cap {"offset", "limit"} = {}
  /\ Within(fields, "offset", 0, 32, 0)
  /\ Within(fields, "limit", 1, 32, 8)
  /\ Within(fields, "full", 0, 1, 0)
  /\ \A key \in {"at", "id", "revision"} : NumberIn(fields, key, 0) # BadNumber

(* The lease a session route asks for, or the refusal before it asks. *)
SessionAccess(method, path, fields, body) ==
  IF \/ ~WellFormed(fields) \/ method \notin {"GET", "POST"}
     \/ path \notin Listings \cup {"/api/functions", "/api/session", "/api/session/value"}
     \/ ~(Keys(fields) \subseteq AllowedKeys(method, path))
     \/ method # "GET" /\ path \notin {"/api/session", "/api/conversions"}
     \/ method = "GET" /\ body # "empty"
     \/ path = "/api/session/value" /\ ValueOf(fields, "name", "bad") = "bad"
     \/ ~SessionNumbers(fields)
  THEN Refused("INVALID_ARGUMENT")
  ELSE IF path = "/api/functions" THEN Ok("none")
  ELSE IF ValueOf(fields, "client", "none") # Client THEN Refused("INVALID_ARGUMENT")
  ELSE Ok(IF method = "GET" THEN "READ" ELSE "RETAINED")

(* What a POST does once it has its lease and its budget. *)
SessionMutation(path, fields, body) ==
  LET action == ValueOf(fields, "action", "none")
  IN  IF NumberIn(fields, "revision", 0) = 0 THEN Refused("INVALID_ARGUMENT")
      ELSE IF path = "/api/session" THEN
        IF body = "empty" /\ action \in {"reset", "clear-history", "release"} THEN Ok(action)
        ELSE Refused("INVALID_ARGUMENT")
      ELSE IF action = "clear" THEN
        IF body = "empty" /\ Keys(fields) = {"client", "action", "revision"} THEN Ok("clear")
        ELSE Refused("INVALID_ARGUMENT")
      ELSE IF action = "commit" /\ ConversionOptions(
                SelectSeq(fields, LAMBDA f : f.key \notin {"client", "action", "revision"}))
      THEN Ok("convert")
      ELSE Refused("INVALID_ARGUMENT")

-----------------------------------------------------------------------------
(* Graphs and equations have the same queries and routes of their own.  A    *)
(* bound of the camera is a number, or "bad" if it is not written as one.    *)

MaxOutputPlaces == 10000        \* CALCULATOR_MAX_OUTPUT_SCALE
DefaultPlaces == 34       \* CALCULATOR_DEFAULT_DIVISION_SCALE
MaxSamples == 1024        \* APPLICATION_EXPRESSION_MAX_SAMPLES
ViewKeys == {"width", "height", "quality", "ymin", "ymax", "interpolation", "dense"}

GraphKeys(adaptive) ==
  {"client", "at", "min", "max", "parameter", "precision", "angle"}
    \cup (IF adaptive THEN ViewKeys \cup {"mode", "render"} ELSE {"points"})

(* A fast view may be refined; only it has a camera, and what is drawn into a
   band or along a tangent needs both vertical bounds. *)
FastView(fields) ==
  LET given == Keys(fields)
      camera == given \cap {"ymin", "ymax"}
  IN  /\ ValueOf(fields, "mode", "fast") = "fast"
      /\ "mode" \notin given => given \cap (ViewKeys \cup {"render"}) = {}
      /\ ValueOf(fields, "render", "curve") \in {"points", "auto", "curve"}
      /\ ValueOf(fields, "interpolation", "linear") \in {"linear", "hermite", "hermite-subpixel"}
      /\ ValueOf(fields, "dense", "band") = "band"
      /\ ValueOf(fields, "quality", "refined") \in {"coarse", "refined"}
      /\ (\/ "dense" \in given
          \/ ValueOf(fields, "interpolation", "linear") # "linear"
          \/ camera # {})
         => /\ camera = {"ymin", "ymax"}
            /\ NumberIn(fields, "ymin", 0) < NumberIn(fields, "ymax", 0)
      /\ Within(fields, "width", 320, 2048, 800)
      /\ Within(fields, "height", 160, 1200, 440)

(* The lease of a graph: none without a client. *)
GraphAccess(method, fields, adaptive) ==
  IF /\ method = "POST"
     /\ WellFormed(fields)
     /\ Keys(fields) \subseteq GraphKeys(adaptive)
     /\ {"min", "max"} \subseteq Keys(fields)
     /\ Within(fields, "points", 2, MaxSamples, 129)
     /\ Within(fields, "precision", 1, MaxOutputPlaces, DefaultPlaces)
     /\ "at" \in Keys(fields) =>
          "client" \in Keys(fields) /\ NumberIn(fields, "at", 0) # BadNumber
     /\ FastView(fields)
     /\ ValueOf(fields, "angle", "rad") \in {"rad", "deg"}
     /\ ValueOf(fields, "client", Client) = Client
  THEN Ok(IF "client" \in Keys(fields) THEN "READ" ELSE "none")
  ELSE Refused("INVALID_ARGUMENT")

\* An option or more of a stateless POST, and its precision.
Stateless(method, fields, keys, needed, low, high) ==
  IF /\ method = "POST"
     /\ WellFormed(fields)
     /\ Keys(fields) \subseteq keys \cup {"precision"}
     /\ needed \subseteq Keys(fields)
     /\ Within(fields, "precision", low, high, DefaultPlaces)
  THEN Ok("none") ELSE Refused("INVALID_ARGUMENT")

EquationAccess(method, fields) ==
  LET mode == ValueOf(fields, "mode", "coefficients")
  IN  IF mode \in {"numeric", "numeric_scan"}
      THEN Stateless(method, fields, {"mode", "min", "max"}, {"min", "max"}, 16, 100)
      ELSE IF mode \in {"expression", "coefficients"}
      THEN Stateless(method, fields, {"mode"}, {}, 1, MaxOutputPlaces)
      ELSE Refused("INVALID_ARGUMENT")

\* session_request, up to the lease.
ApiAccess(method, path, fields, body) ==
  CASE path = "/api/equations/solve" -> EquationAccess(method, fields)
    [] path = "/api/graph/verify" -> Stateless(method, fields, {}, {}, 34, 100)
    [] path = "/api/graph/sample" -> GraphAccess(method, fields, FALSE)
    [] path = "/api/graph/plot" -> GraphAccess(method, fields, TRUE)
    [] OTHER -> SessionAccess(method, path, fields, body)

-----------------------------------------------------------------------------
(* Routing: the handler of a request, or the code it is refused with.        *)

Assets == {"/assets/calculator.js", "/assets/logo.png", "/LICENSE"}  \* among others
Pages == {"/", "/matrices", "/units", "/graph", "/solve", "/login", "/register"}

(* A prefix is enough: numforge_web_is_session_target. *)
IsSessionTarget(path) ==
  path \in Listings \cup
    {"/api/session", "/api/session/value", "/api/sessions", "/api/functions", "/api/graph/sample",
     "/api/graph/plot", "/api/graph/verify", "/api/equations/solve"}

Handler(h) == [handler |-> h]
Answer(code) == [handler |-> "none", code |-> code]

RouteGet(path, fields) ==
  IF IsSessionTarget(path) THEN Handler("session")
  ELSE IF path = "/api/units" /\ fields = <<>> THEN Handler("units")
  ELSE IF \/ path \in Pages /\ PageLanguage(fields)
          \/ path = "/api" /\ GuidePage(fields)
          \/ path \in Assets /\ fields = <<>>
  THEN Answer(200)
  ELSE Answer(404)

RoutePost(path, fields, body) ==
  CASE path = "/api/currency/convert" -> Handler("currency")
    [] path = "/api/matrix" -> Handler("matrix")
    [] IsSessionTarget(path) -> Handler("session")
    [] path = "/api/convert" -> Handler("convert")
    [] path = "/api/evaluate" /\ IsEvaluationTarget(fields) ->
         IF body = "nul" \/ EvaluationTarget(fields).status # "OK" THEN Answer(400)
         ELSE Handler("evaluate")
    [] OTHER -> Answer(404)

Route_SessionFirst(method, path, fields, body, frame) ==
  IF method = "GET" THEN RouteGet(path, fields)
  ELSE IF method # "POST" THEN Answer(404)
  ELSE IF IsSessionTarget(path) THEN Handler("session")
  ELSE IF ~frame.allowed THEN Answer(403)
  ELSE IF ~frame.hasLength THEN Answer(411)
  ELSE RoutePost(path, fields, body)
Route(method, path, fields, body, frame) ==
  IF method = "GET" THEN RouteGet(path, fields)
  ELSE IF method # "POST" THEN Answer(404)
  ELSE IF ~frame.allowed THEN Answer(403)
  ELSE IF ~frame.hasLength THEN Answer(411)
  ELSE RoutePost(path, fields, body)

(* What a handler asks of the client store before it does anything; RETAINED,
   START and LIVE leases may change a session, CACHE one's cached value. *)
LeaseOf(handler, method, path, fields, body) ==
  CASE handler = "session" ->
         IF body = "nul" THEN Refused("INVALID_ARGUMENT")
         ELSE ApiAccess(method, path, fields, body)
    [] handler = "convert" ->
         IF body = "nul" \/ ~ConversionOptions(fields) THEN Refused("INVALID_ARGUMENT")
         ELSE Ok(IF "client" \in Keys(fields) THEN "LIVE" ELSE "none")
    [] handler = "evaluate" ->
         Then(EvaluationTarget(fields), LAMBDA options :
           Ok(IF options.action = "start" THEN "START"
              ELSE IF options.action # "none" THEN "LIVE"
              ELSE IF options.client # "none" THEN "CACHE" ELSE "none"))
    [] OTHER -> Ok("none")

\* The response code of a status, by handler.
Code(handler, status) ==
  CASE status = "OK" -> 200
    [] status = "SESSION_BUSY" -> 503
    [] status = "STALE_REQUEST" /\ handler = "session" -> 409
    [] status = "OUT_OF_MEMORY" /\ handler \in {"evaluate", "convert", "currency", "units"} -> 500
    [] OTHER -> 400
=============================================================================
