------------------------------ MODULE FlowScenario ------------------------------
(***************************************************************************)
(* Scenarios as the canvas of the flows section holds them and as their    *)
(* files do (internal/ui/flow/model.go).                                   *)
(*                                                                         *)
(* Ids are numbers: 0 is none, a separator of the list has a negative one. *)
(* The texts, choices and switches of a node or an arrow are a function    *)
(* from the names of the members to what is not empty; what stands in the  *)
(* file is the same record, since empty members are left out there.  Sides *)
(* of ports are left out, a view is one value.                             *)
(***************************************************************************)
EXTENDS Integers, Sequences, FiniteSets, SequencesExt, FiniteSetsExt, TLC

NoId == 0
IsSeparatorID(id) == id < 0

NodeKinds ==
    {"start", "request", "condition", "loop", "delay", "setvar", "note", "ws", "gql", "wssend"}
IsRequestKind(kind) == kind \in {"request", "ws", "gql", "wssend"}
HasPorts(node) == node.kind # "note"
HasBodyBox(node) == IsRequestKind(node.kind)

Unset == <<>>
Only(f, keys) == [k \in DOMAIN f \cap keys |-> f[k]]
WithDefaults(f, g) == [k \in DOMAIN f \cup DOMAIN g |-> IF k \in DOMAIN f THEN f[k] ELSE g[k]]

\* The name of a new node is the title of its kind.
DefaultFields(kind) ==
    WithDefaults([name |-> kind],
        CASE kind = "request"          -> [method |-> "GET", body_type |-> "raw"]
          [] kind \in {"ws", "wssend"} -> [ws_opcode |-> "TEXT", wait_ms |-> "1000"]
          [] kind = "loop"             -> [count |-> "3", delay_ms |-> "0"]
          [] kind = "delay"            -> [delay_ms |-> "1000"]
          [] OTHER                     -> Unset)

NewNode(id, kind, x, y) ==
    [id |-> id, kind |-> kind, x |-> x, y |-> y, w |-> 0, h |-> 0, f |-> DefaultFields(kind)]

NewEdge(id, from, to) ==
    [id |-> id, from |-> from, to |-> to, cond |-> "always", f |-> [op |-> ">", count |-> "0"]]

\* The scenario has an id and takes the next one for its start node.
NewScenario(id) ==
    [id |-> id, name |-> "", nodes |-> <<NewNode(id + 1, "start", 80, 200)>>, edges |-> <<>>, view |-> <<>>]

\* What lists of nodes and of arrows, parts of a scenario, and scenarios are made of.
IsList(q) == q \in Seq(ToSet(q))
IsNode(n) == n = [id |-> n.id, kind |-> n.kind, x |-> n.x, y |-> n.y, w |-> n.w, h |-> n.h, f |-> n.f]
IsEdge(e) == e = [id |-> e.id, from |-> e.from, to |-> e.to, cond |-> e.cond, f |-> e.f]
NodeList(q) == IsList(q) /\ \A n \in ToSet(q) : IsNode(n)
EdgeList(q) == IsList(q) /\ \A e \in ToSet(q) : IsEdge(e)
IsPart(p) == p = [nodes |-> p.nodes, edges |-> p.edges] /\ NodeList(p.nodes) /\ EdgeList(p.edges)
IsScene(s) ==
    /\ s = [id |-> s.id, name |-> s.name, nodes |-> s.nodes, edges |-> s.edges, view |-> s.view]
    /\ NodeList(s.nodes) /\ EdgeList(s.edges)
IsNumbered(s) == {s.id} \cup {n.id : n \in ToSet(s.nodes)} \cup {e.id : e \in ToSet(s.edges)} \subseteq Nat

-----------------------------------------------------------------------------
(* Places on the canvas.                                                   *)

NodeW == 176
NodeH == 56
BodyBoxH == 24

NodeWidth(node) ==
    IF node.w > 0 THEN node.w ELSE IF node.kind = "loop" THEN 422 ELSE NodeW
NodeHeight(node) ==
    IF node.h > 0 THEN node.h
    ELSE IF node.kind = "loop" THEN 4 * NodeH
    ELSE IF HasBodyBox(node) THEN NodeH + BodyBoxH ELSE NodeH

MinWidth(node) == IF node.kind = "loop" THEN 211 ELSE NodeW \div 2
MinHeight(node) ==
    IF node.kind = "loop" THEN 2 * NodeH ELSE IF HasBodyBox(node) THEN NodeH + BodyBoxH ELSE NodeH

\* A loop contains what has its centre below the header.
LoopContains(loop, node) ==
    /\ loop.kind = "loop" /\ node.id # loop.id
    /\ 2 * node.x + NodeWidth(node) \in (2 * loop.x)..(2 * (loop.x + NodeWidth(loop)))
    /\ 2 * node.y + NodeHeight(node) \in (2 * (loop.y + NodeH))..(2 * (loop.y + NodeHeight(loop)))

Moved(node, dx, dy) == [node EXCEPT !.x = @ + dx, !.y = @ + dy]

-----------------------------------------------------------------------------
(* Parts of a scenario.                                                    *)

IdsOf(s) == {s[i].id : i \in DOMAIN s}

\* The first one with this id.
IndexOf(s, id) == CHOOSE i \in DOMAIN s : s[i].id = id /\ \A j \in 1..(i - 1) : s[j].id # id
ById(s, id) == s[IndexOf(s, id)]

\* The elements of a sequence that are in a set, in their order.
Selected(s, S) ==
    LET upTo[n \in 0..Len(s)] ==
            IF n = 0 THEN <<>> ELSE IF s[n] \in S THEN Append(upTo[n - 1], s[n]) ELSE upTo[n - 1]
    IN  upTo[Len(s)]

\* The elements at these places, in their order.
Picked(s, places) ==
    LET kept == Selected([i \in DOMAIN s |-> i], places) IN [k \in DOMAIN kept |-> s[kept[k]]]

Joining(edges, nodeIds) == {e \in ToSet(edges) : {e.from, e.to} \subseteq nodeIds}

HasEdge(edges, from, to) == \E i \in DOMAIN edges : edges[i].from = from /\ edges[i].to = to
HasOut(edges, id) == \E i \in DOMAIN edges : edges[i].from = id

IsStart(s, id) == id \in IdsOf(s.nodes) /\ ById(s.nodes, id).kind = "start"

\* The start node stays, and of two nodes with the same id the second.
RemoveNodes(s, ids) ==
    LET gone == {id \in ids : ~IsStart(s, id)}
        first == {IndexOf(s.nodes, id) : id \in gone \cap IdsOf(s.nodes)}
    IN  [s EXCEPT !.nodes = Picked(@, DOMAIN @ \ first),
                  !.edges = Selected(@, {e \in ToSet(@) : {e.from, e.to} \cap gone = {}})]

RemoveEdge(s, id) ==
    IF id \notin IdsOf(s.edges) THEN s ELSE [s EXCEPT !.edges = RemoveAt(@, IndexOf(@, id))]

WithNode(s, id, node) == [s EXCEPT !.nodes = [@ EXCEPT ![IndexOf(@, id)] = node]]
WithEdge(s, id, edge) == [s EXCEPT !.edges = [@ EXCEPT ![IndexOf(@, id)] = edge]]

Put(f, key, value) == [k \in DOMAIN f \cup {key} |-> IF k = key THEN value ELSE f[k]]

\* A member that is emptied is gone.
WithField(f, key, text) == IF text = "" THEN Only(f, DOMAIN f \ {key}) ELSE Put(f, key, text)

\* The largest id in use, by the scenario or before it.
Taken(ids, s) == Max({ids, s.id} \cup IdsOf(s.nodes) \cup IdsOf(s.edges))

-----------------------------------------------------------------------------
(* Files.                                                                  *)

\* Members that keep their default when the file does not have them.
KeptDefaults == {"method", "body_type", "ws_opcode", "wait_ms"}

NodeFromDTO(node, new) ==
    [node EXCEPT !.id = IF @ = NoId THEN new ELSE @,
                 !.f = WithDefaults(@, Only(DefaultFields(node.kind), KeptDefaults))]

EdgeFromDTO(edge, new) ==
    [edge EXCEPT !.id = IF @ = NoId THEN new ELSE @, !.f = WithDefaults(@, [op |-> ">", count |-> "0"])]

NodesFromDTO(nodes, new) == [i \in DOMAIN nodes |-> NodeFromDTO(nodes[i], new + i)]

EdgesFromDTO(edges, known, new) ==
    LET joined == Selected(edges, Joining(edges, known))
    IN  [i \in DOMAIN joined |-> EdgeFromDTO(joined[i], new + i)]

WithStart(nodes, new) ==
    IF \E i \in DOMAIN nodes : nodes[i].kind = "start" THEN nodes
    ELSE <<NewNode(new, "start", 80, 200)>> \o nodes

\* Ids that are missing are taken from new on.
ScenarioFromDTO(dto, new) ==
    LET nodes == NodesFromDTO(dto.nodes, new + 1)
    IN  [id    |-> IF dto.id = NoId THEN new ELSE dto.id,
         name  |-> dto.name,
         nodes |-> WithStart(nodes, new + 1),
         edges |-> EdgesFromDTO(dto.edges, IdsOf(nodes), new + 1 + Len(nodes)),
         view  |-> dto.view]

\* What the history and the test for changes look at.
Encode(s) == [s EXCEPT !.view = <<>>]

\* The chosen nodes with the arrows among them.
PartOf(s, ids) ==
    LET nodes == Selected(s.nodes, {n \in ToSet(s.nodes) : n.id \in ids /\ n.kind # "start"})
    IN  [nodes |-> nodes,
         edges |-> Selected(s.edges, Joining(s.edges, IdsOf(nodes)))]

\* Copies with ids of their own.
Inserted(dto, new, dx, dy) ==
    LET nodes == Selected(dto.nodes, {n \in ToSet(dto.nodes) : n.kind # "start"})
        joined == Selected(dto.edges, Joining(dto.edges, IdsOf(nodes)))
        copy(id) == new + CHOOSE i \in DOMAIN nodes : nodes[i].id = id
    IN  [nodes |-> [i \in DOMAIN nodes |->
                      [Moved(NodeFromDTO(nodes[i], NoId), dx, dy) EXCEPT !.id = new + i]],
         edges |-> [i \in DOMAIN joined |->
                      [EdgeFromDTO(joined[i], NoId) EXCEPT !.id = new + Len(nodes) + i,
                                                           !.from = copy(@), !.to = copy(@)]]]
=============================================================================
