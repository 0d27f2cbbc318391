------------------------------ MODULE MCTextPane ------------------------------
EXTENDS TextPane

MCLetters == {"a", "A", "b"}

S(kind, text, wrap, steps, does) ==
    [kind |-> kind, text |-> text, wrap |-> wrap, width |-> 2, steps |-> steps, does |-> does]

MCSessions == {
    S("request", <<"a", "sp", "b">>, FALSE, 5, {"type", "erase", "history"}),
    S("request", <<"(", "a", "nl", "b">>, TRUE, 3, {"break", "erase", "move", "resize"}),
    S("request", <<"(", "a", "A", ")">>, TRUE, 3, {"mouse", "clip", "history"}),
    S("request", <<"a", "b", "e1", "e2">>, FALSE, 3, {"ime", "type", "focus"}),
    S("request", <<"a", "A", "nl", "a">>, FALSE, 4, {"search", "type", "load"}),
    S("request", <<"a", "nl", "b", "nl", "a">>, TRUE, 4, {"scroll", "resize", "move"}),
    S("response", <<"(", "a", "nl", "a">>, TRUE, 5, {"search", "arrive", "resize"}),
    S("response", <<"a", "b", "a", "b", "a">>, TRUE, 4, {"arrive", "scroll", "mouse"}),
    S("inspector", <<>>, TRUE, 6, {"inspect", "search"})}

MCTyped == {<<"a">>, <<"(">>, <<"e1", "e2">>}
MCLoads == {<<"a", "b">>, <<"nl", "A", "a", "b", "a">>}
MCQueries == {<<>>, <<"a">>, <<"a", "b">>}
MCDocs == [d1 |-> <<"a", "sp", "a">>, d2 |-> <<>>, d3 |-> <<"A", "a", "b">>]
===============================================================================
