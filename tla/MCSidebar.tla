------------------------------- MODULE MCSidebar -------------------------------
(***************************************************************************)
(* Sidebar for TLC: two collections, two environments, sessions that give  *)
(* the most to one part of the sidebar.                                    *)
(***************************************************************************)
EXTENDS Sidebar

MCNone == <<>>
MCHeaderOrder == <<"h">>
MCColIds == <<"c1", "c2", "c3">>
MCSepIds == <<"s1">>
MCEnvIds == <<"e1", "e2", "e3">>
MCEnvSepIds == <<"t1">>

Request(method, url, more) ==
    CF!Object([method |-> CF!Str(method), url |-> CF!Str(url)] @@ more)

Item(name, content) == CF!Object([name |-> CF!Str(name)] @@ content)

\* A folder with a request of rows, one of them off, and a request of text with a header.
File1 ==
    CF!Object(
      [info |-> CF!Object([name |-> CF!Str("C"), _postman_id |-> CF!Str("1")]),
       item |-> CF!Arr(<<
         Item("F", [item |-> CF!Arr(<<
           Item("P", [request |-> Request("POST", "u1",
             [body |-> CF!Object([mode |-> CF!Str("urlencoded"), urlencoded |-> CF!Arr(<<
                CF!Object([key |-> CF!Str("k"), value |-> CF!Str("v"),
                           disabled |-> CF!Bool(TRUE)])>>)])])])>>)]),
         Item("Q", [request |-> Request("GET", "u2",
           [header |-> CF!Arr(<<CF!MarshalRow("h", "1")>>),
            body |-> CF!Object([mode |-> CF!Str("raw"), raw |-> CF!Str("b")])])])>>)])

File2 ==
    CF!Object([info |-> CF!Object([name |-> CF!Str("D")]),
               item |-> CF!Arr(<<Item("R", [request |-> CF!Str("u1")])>>)])

MCColFiles0 == [c1 |-> File1, c2 |-> File2]

Var(k, v) == [key |-> k, value |-> v]

MCEnvFiles0 ==
    [e1 |-> EnvironmentBytes([name |-> "A", color |-> "#1", vars |-> <<Var("x", "1")>>]),
     e2 |-> EnvironmentBytes([name |-> "B", color |-> "", vars |-> <<>>])]

LinkedState ==
    SF!EncodeState(
      [SF!NoState EXCEPT
         !.tabs = <<[SF!NoTab EXCEPT !.title = "Q", !.method = "GET", !.url = "u2", !.body = "b",
                                     !.body_type = "raw", !.headers = <<Var("h", "1")>>,
                                     !.collection_id = "c1", !.node_path = <<1>>]>>,
         !.active_env_id = "e1", !.collection_ids_order = <<"c2", "c1">>,
         !.env_ids_order = <<"e2", "e1">>,
         !.collection_expanded = [c1 |-> <<<<>>, <<0>>>>]])

MCState0 == {LinkedState}
MCRenameTexts == {"N"}
MCEdits == {[url |-> "u2"], [url |-> "u1"], [body |-> ""],
            [headers |-> <<HeaderItem("h", "1"), HeaderItem("", "2")>>]}
MCLayoutEdits == {[split_ratio |-> 30]}
MCImports == {File2}
MCEnvNames == {"", "B"}
MCColors == {"#1", "#2"}
MCEnvColors == {"", "#2"}
MCEnvRows == {Var("x", "1"), Var("x", "2")}
MCEnvImports == {EnvironmentBytes([name |-> "", color |-> "", vars |-> <<Var("y", "1")>>])}
MCVarTexts == {"2"}
MCVarNames == {"x"}

Session(tree, tab, env, edit, pop) ==
    [tree |-> tree, tab |-> tab, env |-> env, edit |-> edit, popup |-> pop]

Then(first, second) == first @@ [after |-> second @@ [after |-> <<>>]]

Nothing == Session(0, 0, 0, 0, 0)
MCSessions ==
    {Then(Session(2, 0, 0, 0, 0), Nothing), Then(Session(1, 2, 0, 0, 0), Nothing),
     Then(Session(0, 3, 0, 0, 0), Nothing), Then(Session(0, 0, 2, 1, 1), Nothing),
     Then(Session(0, 0, 1, 2, 0), Nothing), Then(Session(0, 0, 1, 0, 3), Nothing),
     Then(Session(1, 0, 0, 0, 0), Session(0, 1, 0, 0, 0)),
     Then(Session(0, 1, 0, 0, 0), Session(1, 0, 0, 0, 0))}
=============================================================================
