------------------------------- MODULE MCPaths -------------------------------
(* Paths of up to three segments, and requests for them.                      *)
EXTENDS RoutePath

Names == {<<>>, <<"a">>, <<"b">>, <<"a", "b">>, <<"1">>}

Segments ==
    {<<Char("a")>>} \cup {<<Colon(n)>> : n \in Names}
    \cup {<<Char("x"), Colon(n)>> : n \in {<<"a">>, <<"a", "b">>}}
    \cup {<<Colon(<<"b">>), Char("-")>>, <<Star(<<>>)>>,
          <<Star(<<"a">>)>>, <<Char("x"), Star(<<"b">>)>>}

Pairs == {s \o <<Slash>> \o t : s, t \in Segments}
Triples == {<<Colon(<<"a">>), Slash>> \o p : p \in Pairs}
ManyPaths == {<<>>, <<Slash>>} \cup Segments \cup {<<Slash, Slash>> \o s : s \in Segments}
         \cup Pairs \cup Triples

TextChars == {"a", "x", " ", "/"}
ManyTexts == UNION {[1..n -> TextChars] : n \in 0..4}
         \cup {<<"a", "/", "x", "/", "a">>, <<"x", ":", "a", "/", "x", "a">>,
               <<"a", "/", "x", "a", "/", "x">>}
=============================================================================
