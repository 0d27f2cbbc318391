--------------------------------- MODULE MCFlow ---------------------------------
(***************************************************************************)
(* Flow for TLC: four small scenarios to run, as the first ones of the     *)
(* program, and one to draw on.                                            *)
(***************************************************************************)
EXTENDS Flow

Box(id, kind0, x, y, w, h, f) ==
    [id |-> id, kind |-> kind0, x |-> x, y |-> y, w |-> w, h |-> h, f |-> f]
Node(id, kind0, x, y) == Box(id, kind0, x, y, 0, 0, DefaultFields(kind0))
Arrow(id, a, b, c) == [NewEdge(id, a, b) EXCEPT !.cond = c]
Scene(ns, es) == [id |-> 1, name |-> "A", nodes |-> ns, edges |-> es, view |-> <<>>]

\* A request and a condition with a way on for each outcome, one of them back; the arrow to the
\* note can only come from a file.
Circle ==
    Scene(<<Node(2, "start", 0, 0), Node(3, "request", 200, 0), Node(4, "condition", 400, 0),
            Node(5, "delay", 600, 0), Node(6, "note", 600, 100)>>,
          <<Arrow(10, 2, 3, "always"), Arrow(11, 3, 4, "always"), Arrow(12, 4, 5, "noresponse"),
            Arrow(13, 4, 3, "content"), Arrow(14, 5, 6, "always")>>)

\* A loop of two rounds over two members, with a loop in it that no arrow leads to.
Nested ==
    Scene(<<Node(2, "start", 0, 0), Box(3, "loop", 0, 300, 800, 500, [count |-> "2"]),
            Box(4, "loop", 300, 400, 300, 300, Unset), Node(5, "request", 20, 400),
            Node(6, "setvar", 320, 500)>>,
          <<Arrow(10, 2, 3, "always"), Arrow(11, 5, 6, "response")>>)

\* A loop over the array in a response, of two members with no arrow between them.
ForEach ==
    Scene(<<Node(2, "start", 0, 0), Node(3, "request", 200, 0),
            Box(4, "loop", 0, 300, 800, 500, [loop_src |-> "items"]),
            Node(5, "delay", 20, 400), Node(6, "delay", 20, 500)>>,
          <<Arrow(10, 2, 3, "always"), Arrow(11, 3, 4, "always")>>)

\* A socket that is kept open, and two messages into it, the second of which closes it.
Socket ==
    Scene(<<Node(2, "start", 0, 0), Box(3, "ws", 200, 0, 0, 0, [keep_open |-> "on"]),
            Node(4, "wssend", 400, 0), Box(5, "wssend", 600, 0, 0, 0, [ws_close |-> "on"])>>,
          <<Arrow(10, 2, 3, "always"), Arrow(11, 3, 4, "response"), Arrow(12, 4, 5, "always")>>)

\* A request and a loop with room for it.
Sketch ==
    Scene(<<Node(2, "start", 0, 0), Box(3, "loop", 200, 200, 0, 0, DefaultFields("loop")),
            Node(4, "request", 300, 100)>>,
          <<Arrow(10, 2, 3, "always"), Arrow(11, 3, 4, "content")>>)

Other == [Scene(<<Node(21, "start", 0, 0), Node(22, "note", 0, 100)>>, <<>>)
             EXCEPT !.id = 20, !.name = "B", !.view = <<"v1">>]

None == [d \in Doings |-> 0]

Runs(s) ==
    [files |-> 1 :> s, mods |-> <<1>>, order |-> <<>>, blocks |-> Unset,
     left |-> [None EXCEPT !.run = 2, !.step = 1]]

Block == [nodes |-> <<Node(31, "request", 0, 0), Node(32, "delay", 200, 0)>>,
          edges |-> <<Arrow(33, 31, 32, "content")>>]

Draws(l) ==
    [files |-> (1 :> Sketch) @@ (20 :> Other), mods |-> <<OrderFile, 20, 1>>, order |-> <<<<20>>>>,
     blocks |-> 30 :> Block, left |-> l @@ None]

First == [files |-> Unset, mods |-> <<>>, order |-> <<>>, blocks |-> Unset,
          left |-> [None EXCEPT !.panel = 1, !.save = 1, !.list = 1, !.restart = 1]]

MCSessions ==
    {Runs(s) : s \in {Circle, Nested, ForEach, Socket}} \cup {First} \cup
    {Draws(l) : l \in {
       [press |-> 2, drag |-> 1, undo |-> 1], [press |-> 1, key |-> 2, undo |-> 1],
       [panel |-> 2, undo |-> 1, save |-> 1], [list |-> 2, view |-> 1, save |-> 1],
       [list |-> 1, undo |-> 2, save |-> 1, restart |-> 1], [tab |-> 1, panel |-> 1, save |-> 1, restart |-> 1],
       [press |-> 1, drag |-> 1, run |-> 1], [press |-> 1, drag |-> 1, save |-> 1, undo |-> 1],
       [press |-> 1, panel |-> 1, undo |-> 1, save |-> 1], [press |-> 2, drag |-> 1, key |-> 1],
       [press |-> 2, undo |-> 2], [press |-> 1, drag |-> 2, undo |-> 1], [list |-> 2, panel |-> 1, save |-> 1],
       [panel |-> 1, press |-> 1, drag |-> 1, undo |-> 1]}}

MCScenarios == {PlanOf(s) : s \in {Circle, Nested, ForEach, Socket, Sketch}}
MCNumberOf == [n \in {"0", "2", "3"} |-> IF n = "0" THEN 0 ELSE IF n = "2" THEN 2 ELSE 3]
MCPoints == {<<300, 350>>}
MCOffsets == {<<0, 250>>, <<-150, 0>>}
MCViews == {"v1", "fit"}
MCNodeTexts == [name |-> {""}, url |-> {"u"}, count |-> {"0"}, delay_ms |-> {""}, wait_ms |-> {""}]
MCNodeChips == [method |-> {"POST"}, ws_close |-> {"on"}, env_id |-> {"e"}]
MCEdgeConds == {"always", "content"}
MCEdgeOps == {"="}
MCEdgeTexts == [value |-> {"200"}, count |-> {""}]
MCNames == {"B", "C"}
Tab(method, name) == [method |-> method, name |-> name, f |-> [url |-> "u"]]
MCDropped == {<<>>, <<Tab("GET", "R")>>, <<Tab("WS", ""), Tab("GET", "R"), Tab("WS", "S")>>}
MCMethods == <<"GET", "WS">>
MCImports == {[Other EXCEPT !.name = "I"]}
MCAddedKinds == {"loop", "wssend"}
MCTabRequests == {Tab("GRAPHQL", "R")}
=============================================================================
