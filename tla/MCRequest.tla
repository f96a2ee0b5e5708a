------------------------------- MODULE MCRequest ------------------------------
(* Instances of OneRequest for TLC: three contexts, two nested routers, every *)
(* request that CORS tells apart, three layers of Compress, three calls on a  *)
(* token, and requests with everything the extensions look up.                *)
EXTENDS OneRequest, TLC

Alike == Permutations(Ctxs)

-----------------------------------------------------------------------------
\* The paths, the endpoint and the requests of the routers.
P == INSTANCE MCPaths
E == INSTANCE Endpoints

X == P!Char("x")
Id == P!Colon(<<"a">>)

GetAndPut == E!Insert(E!Insert(E!Dispatcher, "GET", E!Handler("h")), "PUT",
                      E!deny({"DELETE"}, E!allow({"PUT", "DELETE"}, E!Handler("k"))))

MatchedPaths == P!ManyPaths
MatchedTexts == P!ManyTexts

OneEnd == {GetAndPut}
ThreePaths == {<<P!Slash>>, <<X, P!Slash>>, <<P!Slash, Id>>}
TwoPrefixes == {<<P!Slash, X>>, <<Id>>}

EightRequests ==
    {[method |-> "GET", path |-> p] :
        p \in {<<"/">>, <<"/", "x">>, <<"/", "x", "/", "y">>,
               <<"/", "x", "%2F", "x", "/">>, <<"/", "%20">>, <<"/", "%FF">>}}
    \cup {[method |-> m, path |-> <<"/", "x", "/", "x">>] : m \in {"PUT", "DELETE"}}

OneNeed == [h |-> <<>>, k |-> <<<<"a">>>>]

-----------------------------------------------------------------------------
\* Requests with up to two pairs, two of which decode to the same name, and
\* requests with every mixture of host and forwarded headers.
None == {}
Some(x) == {x}
Opaque == <<>>

Plain == [cookie |-> None, query |-> <<>>, host |-> Some(<<"h">>), xhost |-> None,
          xfor |-> None, remote |-> "peer"]

Pairs == UNION {[1 .. n -> [raw : {"a", "%61", "bad"}, value : {"1", "text"}]] : n \in 1 .. 2}

PairsAndHosts ==
    {[Plain EXCEPT !.cookie = c, !.query = q] :
        c \in {None, Some(Opaque)} \cup {Some(p) : p \in Pairs},
        q \in {<<>>, <<[raw |-> "a", value |-> "2"]>>,
               <<[raw |-> "%61", value |-> "2"], [raw |-> "a", value |-> "text"]>>}}
    \cup
    {[Plain EXCEPT !.host = h, !.xhost = x, !.xfor = f] :
        h \in {None, Some(<<"h">>), Some(Opaque)},
        x \in {None, Some(<<"x">>), Some(Opaque)},
        f \in {None, Some(Opaque)} \cup {Some(ips) : ips \in [1 .. 2 -> {"ip1", "ip2", "bad"}]}}
=============================================================================
