------------------------------ MODULE RoutePath ------------------------------
(* roa::router::path: how the path of a route becomes a regular expression   *)
(* and how a request path is matched against it.                             *)
(*                                                                           *)
(* The path of a route is a sequence of pieces: one character, ":name" with  *)
(* the longest run of word characters as its name, or "*{name}". A request   *)
(* path is a sequence of characters.                                         *)
EXTENDS Naturals, Filter, FiniteSetsExt

CONSTANT InvalidStart    \* word characters that cannot begin the name of a group

Piece(kind, name) == [kind |-> kind, name |-> name]
Char(c) == Piece("char", <<c>>)
Colon(name) == Piece("colon", name)
Star(name) == Piece("star", name)
Slash == Char("/")

Pieces == [kind : {"char", "colon", "star"}, name : Seq(STRING)]

\* standardize_path: one separator at each end, whatever stood there before.
Trimmed(s, slash) ==
    LET kept == {i \in DOMAIN s : s[i] # slash}
    IN  IF kept = {} THEN <<>> ELSE SubSeq(s, Min(kept), Max(kept))

Standardized(s, slash) == <<slash>> \o Trimmed(s, slash) \o <<slash>>

\* join_path for the two paths every caller gives it.
Joined(prefix, path) ==
    LET p == Trimmed(prefix, Slash)
        q == Trimmed(path, Slash)
    IN  IF p = <<>> \/ q = <<>> THEN p \o q ELSE p \o <<Slash>> \o q

\* The matches of WILDCARD, and those of VARIABLE in the path with its slashes
\* doubled: a whole segment ":name". Both as the names, in the order of the path.
NamesAt(s, places) ==
    LET order == Only([i \in DOMAIN s |-> i], places)
    IN  [k \in DOMAIN order |-> s[order[k]].name]

Wildcards(path) == NamesAt(path, {i \in DOMAIN path : path[i].kind = "star"})

IsVariable_SlashUsedOnce(path, i) ==      \* mutant: the slashes are not doubled
    /\ path[i].kind = "colon"
    /\ i - 1 \in DOMAIN path /\ path[i - 1] = Slash
    /\ i + 1 \in DOMAIN path /\ path[i + 1] = Slash
    /\ \A j \in DOMAIN path : j = i - 2 => path[j].kind # "colon"

IsVariable(path, i) ==
    /\ path[i].kind = "colon"
    /\ i - 1 \in DOMAIN path /\ path[i - 1] = Slash
    /\ i + 1 \in DOMAIN path /\ path[i + 1] = Slash

Variables(path) == NamesAt(path, {i \in DOMAIN path : IsVariable(path, i)})

\* The characters of a path without wildcards.
Spelled(piece) ==
    IF piece.kind = "colon" THEN <<":">> \o piece.name ELSE piece.name

Text(path) == Flattened([i \in DOMAIN path |-> Spelled(path[i])])

\* The pattern: every piece of the path becomes a group, or none, and the
\* characters after it. A wildcard becomes a group, and so does ":" with the
\* name of a variable, the first of them that stands there, wherever it stands
\* and whatever follows the name.
Part(group, name, rest) == [group |-> group, name |-> name, rest |-> rest]

Rewritten(piece, variables) ==
    LET hits == {i \in DOMAIN variables : IsPrefix(variables[i], piece.name)}
        name == variables[Min(hits)]
    IN  CASE piece.kind = "star" -> Part("any", piece.name, <<>>)
          [] piece.kind = "colon" /\ hits # {} ->
               Part("segment", name, SubSeq(piece.name, Len(name) + 1, Len(piece.name)))
          [] OTHER -> Part("none", <<>>, Spelled(piece))

Pattern(path) ==
    LET variables == Variables(path)
    IN  [i \in DOMAIN path |-> Rewritten(path[i], variables)]

Groups(pattern) ==
    NamesAt(pattern, {i \in DOMAIN pattern : pattern[i].group \in {"segment", "any"}})

\* What Regex::new accepts: distinct group names that begin with no digit.
Builds(pattern) ==
    LET groups == Groups(pattern)
    IN  /\ IsInjective(groups)
        /\ \A i \in DOMAIN groups : groups[i][1] \notin InvalidStart

\* path_to_regexp adds the names one by one; the first one that is missing or
\* that is already there decides the error.
NameError(names) ==
    LET missing == {i \in DOMAIN names : names[i] = <<>>}
        twice == {i \in DOMAIN names : \E j \in 1..(i - 1) : names[j] = names[i]}
    IN  CASE missing \cup twice = {} -> "none"
          [] missing \cup twice # {} ->
               IF Min(missing \cup twice) \in missing THEN "missing" ELSE "conflict"

Parsed(kind, path, pattern, vars) ==
    [kind |-> kind, path |-> path, pattern |-> pattern, vars |-> vars]

End == Part("end", <<>>, <<>>)

Anchored(pattern) == pattern \o <<End>>

\* Path::from_str.
FromStr(raw) ==
    LET path == Standardized(raw, Slash)
        names == Wildcards(path) \o Variables(path)
        pattern == Pattern(path)
    IN  CASE names = <<>> -> Parsed("static", path, <<>>, {})
          [] names # <<>> /\ NameError(names) # "none" ->
               Parsed(NameError(names), path, <<>>, {})
          [] names # <<>> /\ NameError(names) = "none" /\ ~Builds(pattern) ->
               Parsed("panic", path, <<>>, {})
          [] OTHER -> Parsed("dynamic", path, Anchored(pattern), ToSet(names))

\* The characters a group never takes.
Refused(group) == IF group = "segment" THEN {" ", "/"} ELSE {" "}

\* A way to match the first parts of a pattern: how much of the text they take,
\* and the values of their groups, in order. Extended: the ways to go on.
Way(taken, values) == [taken |-> taken, values |-> values]

Reads(text, k, rest) ==
    k + Len(rest) <= Len(text) /\ SubSeq(text, k + 1, k + Len(rest)) = rest

Extended(way, part, text) ==
    LET ends == {k \in way.taken + 1 .. Len(text) :
                    /\ \A m \in way.taken + 1 .. k : text[m] \notin Refused(part.group)
                    /\ Reads(text, k, part.rest)}
    IN  CASE part.group = "end" -> {w \in {way} : w.taken = Len(text)}
          [] part.group = "none" ->
               {Way(k + Len(part.rest), way.values) :
                  k \in {j \in {way.taken} : Reads(text, j, part.rest)}}
          [] OTHER ->
               {Way(k + Len(part.rest), Append(way.values, SubSeq(text, way.taken + 1, k))) :
                  k \in ends}

\* The values of the groups for every way to match the whole pattern.
Splits(pattern, text) ==
    {w.values : w \in FoldLeft(LAMBDA ways, part : UNION {Extended(w, part, text) : w \in ways},
                               {Way(0, <<>>)}, pattern)}

\* Among the ways to match, every group in turn takes as much as it can.
Greedier(s, t) ==
    \E i \in DOMAIN s : /\ Len(s[i]) > Len(t[i])
                        /\ \A j \in 1..(i - 1) : s[j] = t[j]

IsMatch(pattern, text) == Splits(pattern, text) # {}

\* Regex::captures as a function from the names of the groups to their values.
Captures(pattern, text) ==
    LET all == Splits(pattern, text)
        best == CHOOSE s \in all : \A t \in all : s = t \/ Greedier(s, t)
        names == Groups(pattern)
    IN  [n \in ToSet(names) |-> best[CHOOSE i \in DOMAIN names : names[i] = n]]

-----------------------------------------------------------------------------
\* The variables of a standardized path, read off the way the documentation writes
\* them: *{name} anywhere and :name as a whole segment.
Holes(path) ==
    {i \in DOMAIN path :
        \/ path[i].kind = "star"
        \/ /\ path[i].kind = "colon"
           /\ SubSeq(path, i - 1, i + 1) = <<Slash, path[i], Slash>>}

Declared(path) == {path[i].name : i \in Holes(path)}
=============================================================================
