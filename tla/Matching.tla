------------------------------- MODULE Matching -------------------------------
(* Paths of routes are parsed and matched against the paths of requests, and  *)
(* compared with what substituting the captured values gives.                 *)
EXTENDS RoutePath

CONSTANTS Paths,     \* paths of routes
          Texts      \* paths of requests

PathsAssumption == Paths \subseteq Seq(Pieces) /\ Texts \subseteq Seq(STRING)

VARIABLES path,      \* the path of a route
          parsed,    \* what Path::from_str makes of it
          text,      \* the path of a request, standardized
          found      \* the captures: {} when it does not match

vars == <<path, parsed, text, found>>

Unparsed == Parsed("unparsed", <<>>, <<>>, {})

Init == /\ path \in Paths
        /\ parsed = Unparsed
        /\ text = <<>>
        /\ found = {}

Parse == /\ parsed = Unparsed
         /\ parsed' = FromStr(path)
         /\ UNCHANGED <<path, text, found>>

Match == /\ parsed.kind = "dynamic"
         /\ text = <<>>
         /\ \E t \in Texts :
              LET s == Standardized(t, "/")
              IN  /\ text' = s
                  /\ found' = IF IsMatch(parsed.pattern, s)
                              THEN {Captures(parsed.pattern, s)} ELSE {}
         /\ UNCHANGED <<path, parsed>>

Next == Parse \/ Match

Spec == Init /\ [][Next]_vars

-----------------------------------------------------------------------------
\* The path with the values in the place of its variables.
Substituted(values) ==
    LET p == parsed.path
        value(i) == CASE p[i].kind = "char" -> p[i].name
                      [] i \in Holes(p) -> values[p[i].name]
                      [] p[i].kind = "colon" /\ i \notin Holes(p) -> <<":">> \o p[i].name
    IN  Flattened([i \in DOMAIN p |-> value(i)])

Substrings == {SubSeq(text, i, j) : i, j \in DOMAIN text} \ {<<>>}

Allowed(values) ==
    \A i \in Holes(parsed.path) :
        LET chars == ToSet(values[parsed.path[i].name])
        IN  /\ " " \notin chars
            /\ parsed.path[i].kind = "colon" => "/" \notin chars

\* The values captured are the ones that were put into the path: each variable
\* has one that is allowed in its place, and writing them there gives the path
\* that was requested.
CapturesRebuildRequest ==
    \A values \in found :
        /\ values \in [Declared(parsed.path) -> Substrings] /\ Allowed(values)
        /\ Substituted(values) = text

\* A request misses a dynamic route only when no values for its variables make
\* the path of the route the path requested.
MissesOnlyOthers ==
    (text # <<>> /\ found = {}) =>
        \A values \in [Declared(parsed.path) -> Substrings] :
            Allowed(values) => Substituted(values) # text

\* Names that occur twice or not at all are reported as errors: the regular
\* expression is invalid only for a name that begins with a digit or a name
\* that begins another one's text.
PanicsOnlyOnPrefixes ==
    parsed.kind = "panic" =>
        \E i \in DOMAIN parsed.path :
            LET name == parsed.path[i].name
            IN  /\ i \in Holes(parsed.path)
                /\ \/ name[1] \in InvalidStart
                   \/ \E j \in DOMAIN parsed.path \ {i} :
                        /\ parsed.path[j].kind = "colon"
                        /\ IsPrefix(name, parsed.path[j].name)
                        /\ j \in Holes(parsed.path) => name # parsed.path[j].name

\* path.rs:36 calls an invalid pattern "a bug of roa::router::path": no path
\* that passes the checks of path_to_regexp panics.
NeverPanics == parsed.kind # "panic"

\* Path::from_str and the regular expression do what the path says.
MatchedAsWritten == CapturesRebuildRequest /\ MissesOnlyOthers /\ PanicsOnlyOnPrefixes
=============================================================================
