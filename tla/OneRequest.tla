------------------------------- MODULE OneRequest ------------------------------
(* What a request meets on its way through roa: the routing of its path, its  *)
(* context, the middlewares, the extensions and the upgrade to a websocket.   *)
(* The parts have no state in common; they stand side by side, and part says  *)
(* which of them a behaviour is about.                                        *)
EXTENDS Naturals, Sequences, FiniteSets

CONSTANTS Conns, Ctxs, StorageScopes, Keys, Types, MaxWrites,         \* of the contexts
          InvalidStart, Paths, Texts,                                 \* of the paths
          Routers, Gates, Ends, RoutePaths, RouteScopes, Asked, Needs, MaxOps,   \* of the routers
          Origins, HttpMethods, Headers, MaxSettings,                 \* of cors
          MaxLayers, MaxAccept, Encodings, QVals,                     \* of compress
          Secrets, MaxNow, MaxTokenCalls,                             \* of the tokens
          Sent, LookupNames, MaxLookups,                              \* of the extensions
          Chunks, Files, Missing, Nameless, Odd, MaxBodyCalls,        \* of the bodies
          Upgrades, Codes                                             \* of the websockets

VARIABLES part,
          app, services, ctxs, log,
          path, parsed, text, found,
          routers, table, reply, ops,
          builder, cors, request, at, resp, error, given, calls,
          layers, accept, running, way, result, body, content, done,
          now, header, store, status, challenge, passed, answer,
          sent, cached, added, fate, got, lookups,
          upload, incoming, op, written, thrown, wrote, seen, used,
          stage, valid, upgrade, returned, handshake, task

Contexts == INSTANCE Context WITH Scopes <- StorageScopes

Matcher == INSTANCE Matching

Routing == INSTANCE Router WITH Scopes <- RouteScopes, Requests <- Asked

CrossOrigin == INSTANCE Cors WITH Methods <- HttpMethods

Compression == INSTANCE Compress WITH Names <- Encodings, at <- running

Tokens == INSTANCE Jwt WITH MaxCalls <- MaxTokenCalls

Lookups == INSTANCE Extensions WITH
    Requests <- Sent, Names <- LookupNames, MaxCalls <- MaxLookups,
    request <- sent, store <- cached, resp <- added, status <- fate, answer <- got,
    calls <- lookups

Bodies == INSTANCE PowerBody WITH
    MaxCalls <- MaxBodyCalls,
    request <- upload, body <- incoming, resp <- written, status <- thrown, calls <- used

Upgrade == INSTANCE Websocket WITH
    Requests <- Upgrades, at <- stage, result <- returned, resp <- handshake

ASSUME Assumptions ==
    /\ Contexts!ContextAssumption /\ CrossOrigin!OriginsAssumption
    /\ Matcher!PathsAssumption /\ Routing!PathsAssumption
    /\ Compression!LayersAssumption /\ Tokens!TimeAssumption
    /\ Lookups!RequestsAssumption /\ Bodies!BodyAssumption /\ Upgrade!WebsocketAssumption

-----------------------------------------------------------------------------
\* The variables of every part, and what they are while a behaviour is about
\* another one.
context == <<app, services, ctxs, log>>
paths == <<path, parsed, text, found>>
router == <<routers, table, reply, ops>>
cross == <<builder, cors, request, at, resp, error, given, calls>>
compress == <<layers, accept, running, way, result, body, content, done>>
jwt == <<now, header, store, status, challenge, passed, answer>>
extensions == <<sent, cached, added, fate, got, lookups>>
power_body == <<upload, incoming, op, written, thrown, wrote, seen, used>>
websocket == <<stage, valid, upgrade, returned, handshake, task>>

\* Before the layers, in the layers, and behind them.
entry == <<context, paths, router>>
middlewares == <<cross, compress, jwt>>
handlers == <<extensions, power_body, websocket>>

vars == <<part, entry, middlewares, handlers>>

NoContext == app = 0 /\ services = 0 /\ ctxs = 0 /\ log = 0
NoPath == path = 0 /\ parsed = 0 /\ text = 0 /\ found = 0
NoRouter == routers = 0 /\ table = 0 /\ reply = 0 /\ ops = 0
NoCors == /\ builder = 0 /\ cors = 0 /\ request = 0 /\ at = 0
          /\ resp = 0 /\ error = 0 /\ given = 0 /\ calls = 0
NoCompress == /\ layers = 0 /\ accept = 0 /\ running = 0 /\ way = 0
              /\ result = 0 /\ body = 0 /\ content = 0 /\ done = 0
NoJwt == /\ now = 0 /\ header = 0 /\ store = 0 /\ status = 0 /\ challenge = 0
         /\ passed = 0 /\ answer = 0
NoLookup == sent = 0 /\ cached = 0 /\ added = 0 /\ fate = 0 /\ got = 0 /\ lookups = 0
NoBody == /\ upload = 0 /\ incoming = 0 /\ op = 0 /\ written = 0
          /\ thrown = 0 /\ wrote = 0 /\ seen = 0 /\ used = 0
NoUpgrade == /\ stage = 0 /\ valid = 0 /\ upgrade = 0 /\ returned = 0
             /\ handshake = 0 /\ task = 0

NoEntry == NoContext /\ NoPath /\ NoRouter
NoMiddleware == NoCors /\ NoCompress /\ NoJwt
NoHandler == NoLookup /\ NoBody /\ NoUpgrade

Init ==
    \/ /\ part = "context" /\ Contexts!Init /\ NoPath /\ NoRouter
       /\ NoMiddleware /\ NoHandler
    \/ /\ part = "path" /\ Matcher!Init /\ NoContext /\ NoRouter
       /\ NoMiddleware /\ NoHandler
    \/ /\ part = "router" /\ Routing!Init /\ NoContext /\ NoPath
       /\ NoMiddleware /\ NoHandler
    \/ /\ part = "cors" /\ CrossOrigin!Init /\ NoCompress /\ NoJwt
       /\ NoEntry /\ NoHandler
    \/ /\ part = "compress" /\ Compression!Init /\ NoCors /\ NoJwt
       /\ NoEntry /\ NoHandler
    \/ /\ part = "jwt" /\ Tokens!Init /\ NoCors /\ NoCompress
       /\ NoEntry /\ NoHandler
    \/ /\ part = "extensions" /\ Lookups!Init /\ NoBody /\ NoUpgrade
       /\ NoEntry /\ NoMiddleware
    \/ /\ part = "power_body" /\ Bodies!Init /\ NoLookup /\ NoUpgrade
       /\ NoEntry /\ NoMiddleware
    \/ /\ part = "websocket" /\ Upgrade!Init /\ NoLookup /\ NoBody
       /\ NoEntry /\ NoMiddleware

Next ==
    \/ /\ part = "context" /\ Contexts!Next
       /\ UNCHANGED <<part, paths, router, middlewares, handlers>>
    \/ /\ part = "path" /\ Matcher!Next
       /\ UNCHANGED <<part, context, router, middlewares, handlers>>
    \/ /\ part = "router" /\ Routing!Next
       /\ UNCHANGED <<part, context, paths, middlewares, handlers>>
    \/ /\ part = "cors" /\ CrossOrigin!Next
       /\ UNCHANGED <<part, compress, jwt, entry, handlers>>
    \/ /\ part = "compress" /\ Compression!Next
       /\ UNCHANGED <<part, cross, jwt, entry, handlers>>
    \/ /\ part = "jwt" /\ Tokens!Next
       /\ UNCHANGED <<part, cross, compress, entry, handlers>>
    \/ /\ part = "extensions" /\ Lookups!Next
       /\ UNCHANGED <<part, power_body, websocket, entry, middlewares>>
    \/ /\ part = "power_body" /\ Bodies!Next
       /\ UNCHANGED <<part, extensions, websocket, entry, middlewares>>
    \/ /\ part = "websocket" /\ Upgrade!Next
       /\ UNCHANGED <<part, extensions, power_body, entry, middlewares>>

Spec == Init /\ [][Next]_vars

-----------------------------------------------------------------------------
\* A context sees its own writes and those it was cloned with, and nothing that
\* another request or clone does.
ContextsKeepApart == part = "context" => Contexts!ContextsKeepApart

\* The values captured from a path are the ones that make the path of the
\* request out of the path of the route.
MatchedAsWritten == part = "path" => Matcher!MatchedAsWritten

\* Nested routers route as if every path had been registered at once, and the
\* first registered route that matches serves the request.
RoutedAsRegistered == part = "router" => Routing!RoutedAsRegistered

\* The gates around an endpoint are those its routers had when it came to them.
GatesWrapRegistered == part = "router" => Routing!GatesWrapRegistered

\* Cors grants what was configured, also on responses that are thrown, and lets
\* every request pass that is no preflight.
GrantsAsConfigured == part = "cors" => CrossOrigin!GrantsAsConfigured

\* Content-Encoding says how the body was encoded, whatever layers wrote to it,
\* threw or recovered, and a client that accepts encodings gets the one that it
\* likes best.
EncodedAsNegotiated == part = "compress" => Compression!EncodedAsNegotiated

\* An error that leaves through Compress is not encoded.
ErrorsNotEncoded == [][part = "compress" => Compression!ErrorPasses]_vars

\* What claims and verify tell of a token is what the guard before them checked.
TokensChecked == part = "jwt" => Tokens!TokensChecked

\* Lookups of cookies, queries, headers and addresses find what was sent.
LookupsAsSent == part = "extensions" => Lookups!LookupsAsSent

\* Nobody gets a part of a request body, and the headers of the response
\* describe what was written to it last.
BodiesWhole == part = "power_body" => Bodies!BodiesWhole

\* The task of a websocket gets a socket only of a client that asked for one and
\* that every layer let through.
RefusedNeverServed == part = "websocket" => Upgrade!RefusedNeverServed
=============================================================================
