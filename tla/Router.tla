-------------------------------- MODULE Router --------------------------------
(* roa::router: routers are built by on, include and gate, turned into a      *)
(* route table, and the table routes requests to endpoints, which are chains  *)
(* of gates around a handler, perhaps guarded or dispatched by http method.   *)
EXTENDS RoutePath, Endpoints

CONSTANTS Routers,        \* routers a program builds
          Gates,          \* middlewares given to gate, each at most once
          Ends,           \* endpoints given to on
          RoutePaths,     \* paths given to on
          Scopes,         \* prefixes given to include and routes
          Requests,       \* requests: [method, path]
          Needs,          \* the parameter a handler asks must_param for, if any
          MaxOps          \* bound on the operations that build the routers

PathsAssumption == RoutePaths \cup Scopes \subseteq Seq(Pieces)

VARIABLES routers,        \* every router, or Moved
          table,          \* the route table, or an error
          reply,          \* the outcome of the last request
          ops             \* operations so far

vars == <<routers, table, reply, ops>>

-----------------------------------------------------------------------------
\* Building. An entry of a router is its path and its endpoint with the gates
\* around it, outermost first; moves is history: the routers the entry came to,
\* each with the time and the prefix.

Moved == [gates |-> <<>>, entries |-> <<>>, moved |-> TRUE]

New == [gates |-> <<>>, entries |-> <<>>, moved |-> FALSE]

Entry(path, gates, end, moves) ==
    [path |-> path, gates |-> gates, end |-> end, moves |-> moves]

NoTable == [state |-> "none", static |-> <<>>, dynamic |-> <<>>, entries |-> <<>>]

NoReply == [status |-> 0, request |-> <<>>, entry |-> <<>>, params |-> <<>>,
            handler |-> <<>>]

Init == /\ routers = [r \in Routers |-> New]
        /\ table = NoTable
        /\ reply = NoReply
        /\ ops = 0

\* Router::register puts the gates the router has now around an endpoint.
Registered_InnerOutside(router, gates) == gates \o router.gates   \* mutant
Registered(router, gates) == router.gates \o gates

Building == table = NoTable /\ ops < MaxOps /\ ops' = ops + 1

on(r, path, end) ==
    LET move == [router |-> r, time |-> ops, prefix |-> path]
    IN  /\ Building
        /\ ~routers[r].moved
        /\ routers' = [routers EXCEPT ![r].entries =
              Append(@, Entry(path, Registered(routers[r], <<>>), end, <<move>>))]
        /\ UNCHANGED <<table, reply>>

include(r, prefix, s) ==
    LET move == [router |-> r, time |-> ops, prefix |-> prefix]
        included(e) == Entry(Joined(prefix, e.path), Registered(routers[r], e.gates),
                             e.end, <<move>> \o e.moves)
        entries == routers[s].entries
    IN  /\ Building
        /\ r # s
        /\ ~routers[r].moved /\ ~routers[s].moved
        /\ routers' = [routers EXCEPT
              ![r].entries = @ \o [i \in DOMAIN entries |-> included(entries[i])],
              ![s] = Moved]
        /\ UNCHANGED <<table, reply>>

Fresh(g) == \A r \in Routers :
               /\ \A i \in DOMAIN routers[r].gates : routers[r].gates[i].gate # g
               /\ \A i \in DOMAIN routers[r].entries :
                    \A j \in DOMAIN routers[r].entries[i].gates :
                        routers[r].entries[i].gates[j].gate # g

\* Router::gate. The time and the router of the gate are history.
gate(r, g) ==
    /\ Building
    /\ ~routers[r].moved
    /\ Fresh(g)
    /\ routers' = [routers EXCEPT ![r].gates =
          Append(@, [gate |-> g, router |-> r, time |-> ops])]
    /\ UNCHANGED <<table, reply>>

-----------------------------------------------------------------------------
\* Router::routes inserts the entries one by one; the first error ends it.

Parse(prefix, e) == FromStr(Joined(prefix, e.path))

\* RouteTable::insert.
Conflicts(static, path) == path \in DOMAIN static

WithStatic(static, path, i) ==
    [p \in DOMAIN static \cup {path} |-> IF p = path THEN i ELSE static[p]]

Inserted(t, parsed, i) ==
    IF t.state # "ok" THEN t
    ELSE CASE parsed.kind \in {"missing", "conflict", "panic"} ->
                [t EXCEPT !.state = parsed.kind]
           [] parsed.kind = "static" ->
                IF Conflicts(t.static, Text(parsed.path))
                THEN [t EXCEPT !.state = "conflict"]
                ELSE [t EXCEPT !.static = WithStatic(@, Text(parsed.path), i)]
           [] parsed.kind = "dynamic" ->
                [t EXCEPT !.dynamic = Append(@, [route |-> parsed, entry |-> i])]

Table(prefix, entries) ==
    FoldLeft(LAMBDA t, i : Inserted(t, Parse(prefix, entries[i]), i),
             [NoTable EXCEPT !.state = "ok", !.entries = entries],
             [i \in DOMAIN entries |-> i])

routes(r, prefix) ==
    LET move == [router |-> "table", time |-> ops, prefix |-> prefix]
        entries == routers[r].entries
    IN  /\ table = NoTable
        /\ ~routers[r].moved
        /\ table' = Table(prefix, [i \in DOMAIN entries |->
                                      [entries[i] EXCEPT !.moves = <<move>> \o @]])
        /\ routers' = [s \in Routers |-> Moved]
        /\ UNCHANGED <<reply, ops>>

-----------------------------------------------------------------------------
\* RouteTable::call.

\* percent_decode_str: an encoded character counts as the character itself.
Decoded(raw) == [i \in DOMAIN raw |-> CASE raw[i] = "%2F" -> "/"
                                         [] raw[i] = "%20" -> " "
                                         [] OTHER -> raw[i]]

ValidUtf8(raw) == "%FF" \notin ToSet(raw)

\* The index of the dynamic route that takes the path: the first that matches.
Taking_Last(matching) == Max(matching)                    \* mutant: iter().rev()
Taking(matching) == Min(matching)

Failed(status, request) == [NoReply EXCEPT !.status = status, !.request = request]

\* Context::must_param fails with 500 for a parameter that is not stored.
Handled(h, params) == IF ToSet(Needs[h]) \subseteq DOMAIN params THEN 200 ELSE 500

\* Endpoint::call of an entry: its gates, then its handler unless the method is
\* not served.
Called(i, request, params) ==
    LET end == table.entries[i].end
        called == [Failed(405, request) EXCEPT !.entry = <<i>>, !.params = params]
    IN  IF request.method \notin DOMAIN end THEN called
        ELSE [called EXCEPT !.status = Handled(end[request.method], params),
                            !.handler = <<end[request.method]>>]

Routed(request) ==
    LET text == Standardized(Decoded(request.path), "/")
        matching == {i \in DOMAIN table.dynamic :
                        IsMatch(table.dynamic[i].route.pattern, text)}
        taking == table.dynamic[Taking(matching)]
    IN  CASE ~ValidUtf8(request.path) -> Failed(400, request)
          [] ValidUtf8(request.path) /\ text \in DOMAIN table.static ->
               Called(table.static[text], request, <<>>)
          [] ValidUtf8(request.path) /\ text \notin DOMAIN table.static /\ matching # {} ->
               Called(taking.entry, request, Captures(taking.route.pattern, text))
          [] OTHER -> Failed(404, request)

call(request) ==
    /\ table.state = "ok"
    /\ reply = NoReply
    /\ reply' = Routed(request)
    /\ UNCHANGED <<routers, table, ops>>

Next ==
    \/ \E r \in Routers, p \in RoutePaths, e \in Ends : on(r, p, e)
    \/ \E r, s \in Routers, p \in Scopes : include(r, p, s)
    \/ \E r \in Routers, g \in Gates : gate(r, g)
    \/ \E r \in Routers, p \in Scopes : routes(r, p)
    \/ \E request \in Requests : call(request)

Spec == Init /\ [][Next]_vars

-----------------------------------------------------------------------------
AllGates ==
    (UNION {ToSet(routers[r].gates) : r \in Routers})
    \cup (UNION {UNION {ToSet(e.gates) : e \in ToSet(routers[r].entries)} : r \in Routers})

Hop(e, g) == CHOOSE k \in DOMAIN e.moves : e.moves[k].router = g.router

\* Around an endpoint are the gates its routers had when it came to them, and
\* no gate added later: those of the outer router first, and of one router in
\* the order they were added.
GatesWrapRegistered ==
    \A r \in Routers : \A e \in ToSet(routers[r].entries) :
        /\ ToSet(e.gates) = {g \in AllGates : \E k \in DOMAIN e.moves :
                                /\ e.moves[k].router = g.router
                                /\ g.time < e.moves[k].time}
        /\ \A i, j \in DOMAIN e.gates : i < j =>
              LET g == e.gates[i]
                  h == e.gates[j]
              IN  \/ Hop(e, g) < Hop(e, h)
                  \/ g.router = h.router /\ g.time < h.time

\* A table that is built has every endpoint of its router once: none replaces
\* another.
NoEndpointReplaced ==
    table.state = "ok" =>
        LET placed == [i \in DOMAIN table.dynamic |-> table.dynamic[i].entry]
            statics == [p \in DOMAIN table.static |-> table.static[p]]
        IN  /\ IsInjective(placed) /\ IsInjective(statics)
            /\ ToSet(placed) \cap Range(statics) = {}
            /\ ToSet(placed) \cup Range(statics) = DOMAIN table.entries

\* The path of an entry: every prefix it got on the way and its own path, without
\* the slashes around them, and one slash between those that are left.
Segment(raw) == LET s == Trimmed(raw, Slash) IN IF s = <<>> THEN <<>> ELSE <<Slash>> \o s

FullPath(e) ==
    Trimmed(Flattened([k \in DOMAIN e.moves |-> Segment(e.moves[k].prefix)]), Slash)

\* Including a router in a router gives its endpoints the paths they would have
\* had if they had been registered with the whole path at once.
NestedPathsFlat ==
    \A i \in DOMAIN table.dynamic :
        Trimmed(table.dynamic[i].route.path, Slash)
            = FullPath(table.entries[table.dynamic[i].entry])

Matches(e, text) ==
    LET route == FromStr(FullPath(e))
    IN  IF route.kind = "dynamic" THEN IsMatch(route.pattern, text)
        ELSE Text(route.path) = text

IsStatic(e) == FromStr(FullPath(e)).kind = "static"

\* A request is answered by the endpoint registered for exactly its path, else
\* by the first registered whose path matches; it is not found only when no
\* registered path matches.
FirstRouteServes ==
    reply.status \in {200, 404, 405, 500} =>
        LET text == Standardized(Decoded(reply.request.path), "/")
            matching == {i \in DOMAIN table.entries : Matches(table.entries[i], text)}
            statics == {i \in matching : IsStatic(table.entries[i])}
        IN  CASE statics # {} -> ToSet(reply.entry) = statics
              [] statics = {} /\ matching # {} -> reply.entry = <<Min(matching)>>
              [] OTHER -> reply.status = 404

\* A handler misses a parameter exactly when the path of its endpoint does not
\* declare one that it needs.
MissingParamNotDeclared ==
    \A i \in ToSet(reply.entry), h \in ToSet(reply.handler) :
        LET path == <<Slash>> \o FullPath(table.entries[i]) \o <<Slash>>
        IN  reply.status = 500 <=> ~ (ToSet(Needs[h]) \subseteq Declared(path))

\* Requests are routed as the paths were registered, all of them and in order.
RoutedAsRegistered ==
    NoEndpointReplaced /\ NestedPathsFlat /\ FirstRouteServes /\ MissingParamNotDeclared
=============================================================================
