------------------------------ MODULE Endpoints ------------------------------
(* roa::router::endpoints: handlers, the guards and dispatchers around them,  *)
(* and the http methods they serve.                                           *)
EXTENDS TLC

\* Endpoints. An endpoint is a function from the methods it serves to handlers;
\* the rest is answered by method_not_allowed.

ALL_METHODS == {"GET", "POST", "PUT", "PATCH", "OPTIONS", "DELETE", "HEAD",
                "TRACE", "CONNECT"}

Methods == ALL_METHODS \cup {"PURGE"}     \* and one extension method

Handler(h) == [m \in Methods |-> h]

Guard(endpoint, white_list) == [m \in DOMAIN endpoint \cap white_list |-> endpoint[m]]

allow(methods, endpoint) == Guard(endpoint, methods)

deny(methods, endpoint) ==
    LET black_list == ALL_METHODS \cap methods
    IN  Guard(endpoint, ALL_METHODS \ black_list)

\* Dispatcher: an endpoint per method, the last one given for a method stays.
Dispatcher == [m \in {} |-> {}]

Insert(dispatcher, method, endpoint) ==
    Guard(endpoint, {method}) @@ Guard(dispatcher, Methods \ {method})
=============================================================================
