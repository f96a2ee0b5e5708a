--------------------------------- MODULE Cors ---------------------------------
(* roa::cors: a middleware is configured by a builder, answers preflight      *)
(* requests itself and adds headers to the responses of the endpoint behind   *)
(* it, whether the endpoint returns or throws.                                *)
EXTENDS Naturals, Sequences, FiniteSets

CONSTANTS Origins,        \* origins, of requests and of configurations
          Methods,        \* methods besides OPTIONS
          Headers,        \* header names
          MaxSettings     \* bound on the calls of the builder

\* "bad" is an origin that cannot be decoded, "own" one that the endpoint sets.
OriginsAssumption == {"bad", "own"} \cap Origins = {}

VARIABLES builder,        \* the Builder
          cors,           \* the Cors it built, or NoCors
          request,        \* the request, or NoRequest
          at,             \* where the request is
          resp,           \* the headers and the status of the response
          error,          \* the status the layer thrown through was given, or 0
          given,          \* history: the settings, in order
          calls           \* history: how often the endpoint ran

vars == <<builder, cors, request, at, resp, error, given, calls>>

\* Options are sets with at most one element.
None == {}
Some(x) == {x}
OrElse(option, other) == IF option = None THEN other ELSE option

NoCors == [built |-> FALSE]
NoRequest == [method |-> "none"]
Unset == [vary |-> FALSE, origin |-> None, credentials |-> FALSE, exposed |-> None,
          methods |-> None, headers |-> None, max_age |-> FALSE, status |-> 200]

Init == /\ builder = [credentials |-> FALSE, allowed_headers |-> {}, exposed_headers |-> {},
                      max_age |-> FALSE, methods |-> {}, origins |-> None]
        /\ cors = NoCors
        /\ request = NoRequest
        /\ at = "building"
        /\ resp = Unset
        /\ error = 0
        /\ given = <<>>
        /\ calls = 0

-----------------------------------------------------------------------------
\* The builder. The methods that take several values call for each of them.
Settings == [setting : {"origin"}, value : Origins]
            \cup [setting : {"method"}, value : Methods]
            \cup [setting : {"header", "expose"}, value : Headers]
            \cup [setting : {"credentials", "max_age"}, value : {TRUE}]

With(b, s) ==
    CASE s.setting = "origin" -> [b EXCEPT !.origins = Some(s.value)]
      [] s.setting = "method" -> [b EXCEPT !.methods = @ \cup {s.value}]
      [] s.setting = "header" -> [b EXCEPT !.allowed_headers = @ \cup {s.value}]
      [] s.setting = "expose" -> [b EXCEPT !.exposed_headers = @ \cup {s.value}]
      [] s.setting = "credentials" -> [b EXCEPT !.credentials = TRUE]
      [] s.setting = "max_age" -> [b EXCEPT !.max_age = TRUE]

Set(s) ==
    /\ at = "building"
    /\ Len(given) < MaxSettings
    /\ builder' = With(builder, s)
    /\ given' = Append(given, s)
    /\ UNCHANGED <<cors, request, at, resp, error, calls>>

\* An empty list is no list: None.
Listed(set) == IF set = {} THEN None ELSE Some(set)

build ==
    /\ at = "building"
    /\ at' = "built"
    /\ cors' = [built |-> TRUE, allow_origin |-> builder.origins,
                allow_methods |-> Listed(builder.methods),
                expose_headers |-> Listed(builder.exposed_headers),
                allow_headers |-> Listed(builder.allowed_headers),
                max_age |-> builder.max_age, credentials |-> builder.credentials]
    /\ UNCHANGED <<builder, request, resp, error, given, calls>>

-----------------------------------------------------------------------------
\* Cors::handle. An origin that cannot be decoded is "bad".
Requests == [method : Methods \cup {"OPTIONS"},
             origin : {Some(o) : o \in Origins \cup {"bad"}} \cup {None},
             request_method : {Some(m) : m \in Methods} \cup {None},
             request_headers : {Some(H) : H \in SUBSET Headers \ {{}}} \cup {None}]

IsCrossOrigin(q) == q.origin \notin {None, Some("bad")}

IsPreflight(q) == IsCrossOrigin(q) /\ q.method = "OPTIONS" /\ q.request_method # None

\* insert_origin_and_credentials.
Granted(r, q) == [r EXCEPT !.origin = OrElse(cors.allow_origin, q.origin),
                           !.credentials = cors.credentials]

Simple(r, q) == [Granted(r, q) EXCEPT !.exposed = cors.expose_headers]

Preflight_Echo(r, q) ==                                 \* mutant: the request decides
    [Granted(r, q) EXCEPT !.methods = Some(q.request_method), !.headers = q.request_headers,
                          !.max_age = cors.max_age, !.status = 204]

Preflight(r, q) ==
    [Granted(r, q) EXCEPT !.methods = OrElse(cors.allow_methods, Some(q.request_method)),
                          !.headers = OrElse(cors.allow_headers, q.request_headers),
                          !.max_age = cors.max_age,
                          !.status = 204]

\* What handle does before next or instead of it. Vary is always set.
Handle(q, where, to, status) ==
    /\ at = "built"
    /\ request' = q
    /\ at' = where
    /\ resp' = [to EXCEPT !.vary = TRUE]
    /\ error' = status
    /\ UNCHANGED <<builder, cors, given, calls>>

Skip(q) == /\ ~IsPreflight(q)
           /\ q.origin = None \/ (IsCrossOrigin(q) /\ q.method = "OPTIONS")
           /\ Handle(q, "next", resp, 0)

BadOrigin(q) == q.origin = Some("bad") /\ Handle(q, "thrown", resp, 400)

SimpleRequest(q) == /\ IsCrossOrigin(q) /\ q.method # "OPTIONS"
                    /\ Handle(q, "next", Simple(resp, q), 0)

PreflightRequest(q) == IsPreflight(q) /\ Handle(q, "done", Preflight(resp, q), 0)

\* The endpoint: it may answer, throw, or set the origin header itself.
Endpoint ==
    /\ at = "next"
    /\ calls' = calls + 1
    /\ \/ at' = "done" /\ UNCHANGED <<resp, error>>
       \/ at' = "done" /\ resp' = [resp EXCEPT !.origin = Some("own")] /\ UNCHANGED error
       \/ at' = "thrown" /\ error' = 500 /\ UNCHANGED resp
    /\ UNCHANGED <<builder, cors, request, given>>

\* HttpService::serve gives the response the status thrown and keeps its headers.
Kept(r) == r

Thrown == /\ at = "thrown"
          /\ at' = "done"
          /\ resp' = [Kept(resp) EXCEPT !.status = error]
          /\ UNCHANGED <<builder, cors, request, error, given, calls>>

Next == \/ \E s \in Settings : Set(s)
        \/ build
        \/ \E q \in Requests : Skip(q) \/ BadOrigin(q) \/ SimpleRequest(q) \/ PreflightRequest(q)
        \/ Endpoint
        \/ Thrown

Spec == Init /\ [][Next]_vars

-----------------------------------------------------------------------------
Given(setting) == {given[i].value : i \in {j \in DOMAIN given : given[j].setting = setting}}

Answered == at = "done"

\* A response to a cross-origin request names the origin that was configured, or
\* the origin of the request if none was, also when the endpoint throws after the
\* headers were set, unless the endpoint sets the header itself. Of a builder that
\* was given several origins nothing is said: the last one replaces the others,
\* though the doc of allow_origin has it added to a list.
OneOrigin == \A o, p \in Given("origin") : o = p

ThrownKeepsGrant ==
    (Answered /\ IsCrossOrigin(request) /\ (request.method # "OPTIONS" \/ IsPreflight(request)))
        => /\ resp.vary
           /\ resp.origin = Some("own") => calls = 1
           /\ OneOrigin =>
                 resp.origin \in {OrElse(Given("origin"), request.origin), Some("own")}

\* Without an origin nothing is granted: only the endpoint sets headers.
SameOriginUntouched ==
    (Answered /\ ~IsCrossOrigin(request)) =>
        /\ resp.vary
        /\ resp.origin \in {None, Some("own")}
        /\ [resp EXCEPT !.vary = FALSE, !.origin = None, !.status = 200] = Unset

\* A preflight is answered without the endpoint and grants the lists that were
\* configured and no more; what the request asks for counts only where no list
\* was configured.
PreflightGrantsConfigured ==
    (Answered /\ IsPreflight(request)) =>
        /\ calls = 0 /\ resp.status = 204
        /\ resp.methods = Some(IF Given("method") = {} THEN request.request_method
                               ELSE Given("method"))
        /\ resp.headers = IF Given("header") = {} THEN request.request_headers
                          ELSE Some(Given("header"))

\* Every other request reaches the endpoint once, unless its origin is invalid.
OthersReachEndpoint ==
    (Answered /\ ~IsPreflight(request)) =>
        calls = (IF request.origin = Some("bad") THEN 0 ELSE 1)

\* Every response grants what was configured, as far as the doc of the builder and
\* its code agree, and every request but a preflight is served.
GrantsAsConfigured ==
    ThrownKeepsGrant /\ SameOriginUntouched /\ PreflightGrantsConfigured /\ OthersReachEndpoint
=============================================================================
