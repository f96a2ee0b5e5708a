------------------------------ MODULE Extensions ------------------------------
(* The context extensions of roa that look a value up in the request: the     *)
(* parsers of cookies and queries, which fill the storage, the getters behind *)
(* them, headers and the X-Forwarded-* headers. Any chain of layers may call  *)
(* them in any order; a layer outside may recover from what they throw.       *)
EXTENDS Naturals, Filter

CONSTANTS Requests,       \* the requests, see below
          Names,          \* decoded names of cookies, query pairs and path parameters
          MaxCalls        \* bound on the calls of handlers

VARIABLES request,        \* the request
          store,          \* the storage: for each scope a map from names to values
          resp,           \* WWW-Authenticate and Set-Cookie of the response
          status,         \* "ok", or what travels outwards
          answer,         \* history: the last lookup
          calls           \* history: the calls so far, by their results

vars == <<request, store, resp, status, answer, calls>>

None == {}
Some(x) == {x}
OrElse(option, other) == IF option = None THEN other ELSE option

\* A header of a request is None or Some sequence of its entries, Opaque when it
\* is no visible ASCII. The entries of a cookie and a query are pairs of a raw,
\* that is still percent-encoded, name and a value; a cookie without "=" is "bad".
Opaque == <<>>
Pairs == [raw : STRING, value : STRING]

RequestsAssumption ==
    /\ "bad" \notin Names
    /\ \A r \in Requests :
        /\ r.query \in Seq(Pairs)
        /\ \A pairs \in r.cookie : pairs \in Seq(Pairs) /\ r.cookie = Some(pairs)
        /\ \A ips \in r.xfor : ips \in Seq(STRING) /\ r.xfor = Some(ips)

Decoded(raw) == IF raw = "%61" THEN "a" ELSE raw

Scopes == {"cookie", "query", "router"}
NoAnswer == [call |-> "none"]

Init == /\ request \in Requests
        /\ store = [s \in Scopes |-> [n \in Names |-> None]]
        /\ resp = [challenge |-> None, cookies |-> <<>>]
        /\ status = "ok"
        /\ answer = NoAnswer
        /\ calls = <<>>

-----------------------------------------------------------------------------
\* Context::get sees one header of a name and only if it is a text.
Text(option) == option \ {Opaque}
get(name) == Text(request[name])

\* store_scoped: each scope has names of its own, and the last value stays.
Insert(map, scope, name, value) == [map EXCEPT ![scope][name] = Some(value)]

Usable_AllOrNone(pairs) ==                              \* mutant: collect::<Result<Vec<_>>>()
    IF \E i \in DOMAIN pairs : pairs[i].raw = "bad" THEN <<>> ELSE pairs

\* Cookies that cannot be parsed are left out.
Usable(pairs) == Only(pairs, {p \in ToSet(pairs) : p.raw # "bad"})

StoreAll(scope, pairs) ==
    FoldLeft(LAMBDA map, p : Insert(map, scope, Decoded(p.raw), p.value), store, pairs)

\* The history gets a call that fills a scope or sets a cookie.
Called(op, name) == Append(calls, [op |-> op, name |-> name])

MayCall == status = "ok" /\ Len(calls) < MaxCalls

\* cookie_parser.
cookie_parser ==
    /\ MayCall
    /\ store' = (IF request.cookie \in {None, Some(Opaque)} THEN store
                 ELSE StoreAll("cookie", Usable(CHOOSE pairs \in request.cookie : TRUE)))
    /\ calls' = Called("fill", "cookie")
    /\ answer' = NoAnswer
    /\ UNCHANGED <<request, resp, status>>

\* query_parser.
query_parser ==
    /\ MayCall
    /\ store' = StoreAll("query", request.query)
    /\ calls' = Called("fill", "query")
    /\ answer' = NoAnswer
    /\ UNCHANGED <<request, resp, status>>

\* RouteEndpoint::call stores the parameters of the path.
Route == /\ MayCall
         /\ \A n \in Names : store["router"][n] = None
         /\ \E n \in Names : store' = Insert(store, "router", n, "param")
         /\ calls' = Called("fill", "router")
         /\ answer' = NoAnswer
         /\ UNCHANGED <<request, resp, status>>

-----------------------------------------------------------------------------
Answer(call, name, value) ==
    /\ answer' = [call |-> call, name |-> name, value |-> value, after |-> calls]
    /\ UNCHANGED <<request, store, calls>>

Throw(code) == status' = code /\ UNCHANGED resp

\* must_cookie. The challenge names the cookie.
Challenge(name) == Some(name)

must_cookie(name) ==
    /\ MayCall
    /\ Answer("cookie", name, store["cookie"][name])
    /\ \/ store["cookie"][name] # None /\ UNCHANGED <<status, resp>>
       \/ /\ store["cookie"][name] = None
          /\ resp' = [resp EXCEPT !.challenge = Challenge(name)]
          /\ status' = "401"

must_query(name) ==
    /\ MayCall
    /\ Answer("query", name, store["query"][name])
    /\ IF store["query"][name] = None THEN Throw("400") ELSE UNCHANGED <<status, resp>>

\* cookie, query and the lookup of a path parameter.
load(scope, name) ==
    /\ MayCall
    /\ Answer(scope, name, store[scope][name])
    /\ UNCHANGED <<status, resp>>

\* Variable::parse of what query found.
parse == /\ MayCall
         /\ answer # NoAnswer /\ answer.call = "query" /\ answer.value = Some("text")
         /\ Throw("400")
         /\ UNCHANGED <<request, store, answer, calls>>

\* must_get.
must_get(name) ==
    /\ MayCall
    /\ Answer("header", name, get(name))
    /\ IF get(name) = None THEN Throw("400") ELSE UNCHANGED <<status, resp>>

-----------------------------------------------------------------------------
\* The forwarded addresses are those entries of X-Forwarded-For that parse.
forwarded_ips ==
    IF get("xfor") = None THEN <<>>
    ELSE LET ips == CHOOSE v \in get("xfor") : TRUE
         IN  Only(ips, ToSet(ips) \ {"bad"})

client_ip == IF forwarded_ips = <<>> THEN request.remote ELSE forwarded_ips[1]

host == OrElse(get("xhost"), get("host"))

Forward ==
    /\ MayCall
    /\ \/ Answer("host", "host", host)
       \/ Answer("client_ip", "client_ip", Some(client_ip))
    /\ UNCHANGED <<status, resp>>

\* set_cookie.
Cookies(cookie) == Append(resp.cookies, cookie)

set_cookie(cookie) ==
    /\ MayCall
    /\ resp' = [resp EXCEPT !.cookies = Cookies(cookie)]
    /\ calls' = Called("set_cookie", cookie)
    /\ answer' = NoAnswer
    /\ UNCHANGED <<request, store, status>>

Recover == /\ status # "ok"
           /\ status' = "ok"
           /\ UNCHANGED <<request, store, resp, answer, calls>>

Next == \/ cookie_parser
        \/ query_parser
        \/ Route
        \/ \E n \in Names : must_cookie(n)
        \/ \E n \in Names : must_query(n)
        \/ \E s \in Scopes, n \in Names : load(s, n)
        \/ parse
        \/ \E h \in {"host", "xhost"} : must_get(h)
        \/ Forward
        \/ \E n \in Names : set_cookie(n)
        \/ Recover

Spec == Init /\ [][Next]_vars

-----------------------------------------------------------------------------
\* The pairs of the request that a scope is filled from, when it has been.
PairsOf(scope) ==
    IF scope = "query" THEN request.query
    ELSE IF request.cookie \in {None, Some(Opaque)} THEN <<>>
    ELSE CHOOSE pairs \in request.cookie : TRUE

Ran(parser) == \E i \in DOMAIN answer.after : answer.after[i] = [op |-> "fill", name |-> parser]

\* A cookie or a query variable is the last valid pair of its decoded name,
\* whatever the other parser and the router stored under that name, and absent
\* until its own parser has run.
LastPairOfItsScope ==
    (answer # NoAnswer /\ answer.call \in {"cookie", "query"}) =>
        LET pairs == PairsOf(answer.call)
            hits  == {i \in DOMAIN pairs : Decoded(pairs[i].raw) = answer.name}
        IN  answer.value =
                IF Ran(answer.call)
                THEN {pairs[i].value : i \in {j \in hits : \A k \in hits : k <= j}}
                ELSE None

\* A 401 names the cookie that was missing now, also when an outer layer has
\* recovered from another one before.
ChallengeNamesCookie ==
    status = "401" => resp.challenge = Some(answer.name) /\ answer.value = None

\* The client address is the first address of X-Forwarded-For, entries that are
\* no address skipped, or that of the peer.
ClientIpIsAddress ==
    (answer # NoAnswer /\ answer.call = "client_ip") =>
        LET ips == IF request.xfor \in {None, Some(Opaque)} THEN <<>>
                   ELSE CHOOSE v \in request.xfor : TRUE
            valid == {i \in DOMAIN ips : ips[i] # "bad"}
        IN  IF valid = {} THEN answer.value = Some(request.remote)
            ELSE \E i \in valid : answer.value = Some(ips[i]) /\ \A k \in valid : i <= k

\* A forwarded host that is no text does not hide the host header.
HostFallsBack ==
    (answer # NoAnswer /\ answer.call = "host" /\ answer.value = None) =>
        request.host \in {None, Some(Opaque)}

\* Every cookie that was set is sent, in order, also with an error.
CookiesKept ==
    LET set == Only(calls, [op : {"set_cookie"}, name : Names])
    IN  resp.cookies = [i \in DOMAIN set |-> set[i].name]

\* What a handler looks up is what the request says, and what it sets is sent.
LookupsAsSent ==
    /\ LastPairOfItsScope /\ ClientIpIsAddress /\ HostFallsBack
    /\ ChallengeNamesCookie /\ CookiesKept
=============================================================================
