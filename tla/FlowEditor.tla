------------------------------- MODULE FlowEditor -------------------------------
(***************************************************************************)
(* The editor of scenarios (internal/ui/flow editor.go, panel.go,          *)
(* tabreq.go): the canvas with its gestures, the panel beside it, the      *)
(* history of undo and redo, the saving of the scenario and its view, the  *)
(* files, blocks and the list of scenarios of the sidebar.                 *)
(*                                                                         *)
(* Everything runs on the UI thread.  A gesture of the pointer takes       *)
(* several frames, between which keys arrive and the editor saves itself.  *)
(* What lies under the pointer is a choice; so is the part of the canvas   *)
(* that is shown, except where the code sets it.                           *)
(***************************************************************************)
EXTENDS FlowScenario

CONSTANTS
    HistoryLimit,
    Points, Offsets,    \* where things are dropped, and how far they are dragged
    Views,              \* pan and zoom
    NodeTexts,          \* what is typed on a node: for each member the texts
    NodeChips,          \* and what is picked from a row of chips
    EdgeConds, EdgeOps, EdgeTexts,
    Names,              \* of scenarios
    Dropped,            \* folders of requests that are dropped on the canvas
    Methods,            \* the methods in their order
    Imports             \* scenario files from elsewhere

ASSUME EditorAssumption ==
    /\ HistoryLimit \in Nat \ {0}
    /\ \A requests \in Dropped : IsList(requests)
    /\ \A dto \in Imports : IsScene(dto) /\ IsNumbered(dto)
    \* A choice has a text, and the operator of an arrow is a choice.
    /\ \A key \in KeptDefaults \cap DOMAIN NodeChips : "" \notin NodeChips[key]
    /\ "" \notin EdgeOps /\ "op" \notin DOMAIN EdgeTexts

VARIABLES
    sc,                 \* the scenario
    undoStack, redoStack,
    snap,               \* pendingSnap: what a press may become an undo step for
    clip,               \* the clipboard
    sel,                \* the selection
    act,                \* the gesture under way
    view, pendingFit, lastView,
    lastSaved,          \* what the test for changes compares with
    laidOut,            \* the editor was shown (nextAutosave)
    files, mods,        \* scenario files, and the names of files from old to new
    order,              \* order.json
    blocks,
    ids                 \* the ids given out
\* of the history
VARIABLES
    began,              \* the canvas before the gesture
    torn                \* the gestures during which a key has changed the canvas

history == <<undoStack, redoStack, snap>>
viewVars == <<view, pendingFit, lastView>>
saveVars == <<lastSaved, laidOut>>
diskVars == <<files, mods, order, blocks>>
editorVars == <<sc, history, clip, sel, act, viewVars, saveVars, diskVars, ids, began, torn>>

OrderFile == 0

-----------------------------------------------------------------------------
(* Selection, history.                                                     *)

NoSelection == [node |-> NoId, edge |-> NoId, nodes |-> {}]
OnlyNode(id) == [node |-> id, edge |-> NoId, nodes |-> {id}]
OnlyEdge(id) == [NoSelection EXCEPT !.edge = id]

Idle == [mode |-> "idle", id |-> NoId, edge |-> <<>>, members |-> {}, moved |-> FALSE, from |-> <<>>]
Free == laidOut /\ act = Idle

NodeIds == IdsOf(sc.nodes)
NodeOf(id) == ById(sc.nodes, id)

Recent(stack) == IF Len(stack) > HistoryLimit THEN Tail(stack) ELSE stack

\* pushSnapshot
Push(canvas) ==
    IF undoStack # <<>> /\ Last(undoStack) = canvas THEN UNCHANGED <<undoStack, redoStack>>
    ELSE undoStack' = Recent(Append(undoStack, canvas)) /\ redoStack' = <<>>

PushHistory == Push(Encode(sc)) /\ UNCHANGED snap

\* commitPending
CommitPending ==
    IF snap = <<>> THEN UNCHANGED history
    ELSE Push(snap[1]) /\ snap' = <<>>

Pruned(s, chosen) ==
    [node  |-> IF chosen.node \in IdsOf(s.nodes) THEN chosen.node ELSE NoId,
     edge  |-> IF chosen.edge \in IdsOf(s.edges) THEN chosen.edge ELSE NoId,
     nodes |-> chosen.nodes \cap IdsOf(s.nodes)]

Restore(canvas) ==
    /\ sc' = ScenarioFromDTO(canvas, ids)
    /\ sel' = Pruned(sc', sel)

Torn == IF act = Idle THEN torn ELSE torn \cup {act.mode}

\* The last canvas of the history that is not the one on the screen.
UndoStep(stack) ==
    LET other == {i \in DOMAIN stack : stack[i] # Encode(sc)}
    IN  IF other = {} THEN 0 ELSE Max(other)

Undo ==
    /\ laidOut /\ undoStack # <<>>
    /\ LET step == UndoStep(undoStack)
       IN  IF step = 0 THEN undoStack' = <<>> /\ UNCHANGED <<redoStack, sc, sel>>
           ELSE /\ undoStack' = SubSeq(undoStack, 1, step - 1)
                /\ redoStack' = Append(redoStack, Encode(sc))
                /\ Restore(undoStack[step])
    /\ torn' = Torn
    /\ UNCHANGED <<snap, clip, act, viewVars, saveVars, diskVars, ids, began>>

Redo ==
    /\ laidOut /\ redoStack # <<>>
    /\ redoStack' = SubSeq(redoStack, 1, Len(redoStack) - 1)
    /\ undoStack' = Append(undoStack, Encode(sc))
    /\ Restore(Last(redoStack))
    /\ torn' = Torn
    /\ UNCHANGED <<snap, clip, act, viewVars, saveVars, diskVars, ids, began>>

\* What an action that changes the canvas leaves alone.
Began == began' = IF act = Idle THEN Encode(sc) ELSE began
Elsewhere == UNCHANGED <<clip, viewVars, saveVars, diskVars>>

-----------------------------------------------------------------------------
(* Gestures of the pointer.                                                *)

Press(gesture) == act' = gesture /\ Began /\ UNCHANGED <<redoStack, undoStack, clip, viewVars, saveVars, diskVars, ids, torn>>

\* A loop takes along what it contains and what is not selected itself.
DragMembers(loop, chosen) ==
    {o \in NodeIds : /\ NodeOf(o).kind # "loop" /\ o \notin chosen.nodes
                     /\ LoopContains(loop, NodeOf(o))}

OnTop(id) == Append(RemoveAt(sc.nodes, IndexOf(sc.nodes, id)), NodeOf(id))

Selecting(id) == IF id \in sel.nodes THEN [sel EXCEPT !.node = id, !.edge = NoId] ELSE OnlyNode(id)

\* trySelectNode; a node that is no loop comes to the top.
PressNode(id) ==
    /\ Free /\ id \in NodeIds
    /\ sel' = Selecting(id)
    /\ snap' = <<Encode(sc)>>
    /\ sc' = IF NodeOf(id).kind = "loop" THEN sc ELSE [sc EXCEPT !.nodes = OnTop(id)]
    /\ Press([Idle EXCEPT !.mode = "drag", !.id = id, !.members = DragMembers(NodeOf(id), sel')])

\* With shift, or on the box for the body: a choice only.
PressToSelect(id) ==
    /\ Free /\ id \in NodeIds
    /\ \/ sel' = IF id \in sel.nodes
                 THEN [sel EXCEPT !.nodes = @ \ {id}, !.node = IF @ = id THEN NoId ELSE @]
                 ELSE [node |-> id, edge |-> NoId, nodes |-> sel.nodes \cup {id}]
       \/ HasBodyBox(NodeOf(id)) /\ sel' = Selecting(id)
    /\ UNCHANGED <<sc, snap>>
    /\ Press(Idle)

PressEdge(id) ==
    /\ Free /\ id \in IdsOf(sc.edges)
    /\ sel' = OnlyEdge(id)
    /\ UNCHANGED <<sc, snap>>
    /\ Press(Idle)

\* A node other than a condition lets out one arrow.
CanStartOut(node) == HasPorts(node) /\ (node.kind = "condition" \/ ~HasOut(sc.edges, node.id))

PressPort(id) ==
    /\ Free /\ id \in NodeIds
    /\ CanStartOut(NodeOf(id))
    /\ UNCHANGED <<sc, sel, snap>>
    /\ Press([Idle EXCEPT !.mode = "out", !.id = id])

\* An arrow is taken off at one of its ends.
GrabEdge(id, freeTarget) ==
    /\ Free /\ id \in IdsOf(sc.edges)
    /\ LET e == ById(sc.edges, id)
       IN  /\ {e.from, e.to} \subseteq NodeIds
           /\ sc' = RemoveEdge(sc, id)
           /\ act' = [Idle EXCEPT !.mode = IF freeTarget THEN "out" ELSE "in",
                                  !.id = IF freeTarget THEN e.from ELSE e.to, !.edge = <<e>>]
    /\ sel' = [sel EXCEPT !.edge = IF @ = id THEN NoId ELSE @]
    /\ PushHistory
    /\ Began
    /\ UNCHANGED <<ids, torn>> /\ Elsewhere

PressResize(id) ==
    /\ Free /\ id \in NodeIds
    /\ snap' = <<Encode(sc)>>
    /\ sel' = OnlyNode(id)
    /\ UNCHANGED sc
    /\ \E left, above \in BOOLEAN :
           LET n == NodeOf(id)
           IN  Press([Idle EXCEPT !.mode = "resize", !.id = id,
                                  !.from = <<n.x, n.y, NodeWidth(n), NodeHeight(n), left, above>>])

PressCanvas ==
    /\ Free
    /\ \E mode \in {"marquee", "pan"} : Press([Idle EXCEPT !.mode = mode])
    /\ UNCHANGED <<sc, sel, snap>>

\* How often a step of the drag moves a node: a selected one that is a member, too, twice.
Shifts(id) ==
    IF id = act.id THEN 1
    ELSE (IF act.id \in sel.nodes /\ id \in sel.nodes THEN 1 ELSE 0)
         + (IF id \in act.members THEN 1 ELSE 0)

\* Mutant: the history gets the canvas that has moved already.
Drag_Late(by) ==
    /\ act.mode = "drag" /\ act.id \in NodeIds
    /\ act' = [act EXCEPT !.moved = TRUE]
    /\ sc' = [sc EXCEPT !.nodes =
                [i \in DOMAIN @ |-> Moved(@[i], by[1] * Shifts(@[i].id), by[2] * Shifts(@[i].id))]]
    /\ IF act.moved THEN UNCHANGED history ELSE Push(Encode(sc')) /\ snap' = <<>>
    /\ UNCHANGED <<sel, ids, began, torn>> /\ Elsewhere

\* The first movement makes the press a step of the history.
Drag(by) ==
    /\ act.mode = "drag" /\ act.id \in NodeIds
    /\ IF act.moved THEN UNCHANGED history ELSE CommitPending
    /\ act' = [act EXCEPT !.moved = TRUE]
    /\ sc' = [sc EXCEPT !.nodes =
                [i \in DOMAIN @ |-> Moved(@[i], by[1] * Shifts(@[i].id), by[2] * Shifts(@[i].id))]]
    /\ UNCHANGED <<sel, ids, began, torn>> /\ Elsewhere

\* One direction of a resize: where the node begins and how far it goes, at least this far.
Span(start, length, by, low, least) ==
    IF low THEN LET long == Max({length - by, least}) IN <<start + length - long, long>>
    ELSE <<start, Max({length + by, least})>>

Resized(node, by) ==
    LET across == Span(act.from[1], act.from[3], by[1], act.from[5], MinWidth(node))
        down == Span(act.from[2], act.from[4], by[2], act.from[6], MinHeight(node))
    IN  [node EXCEPT !.x = across[1], !.w = across[2], !.y = down[1], !.h = down[2]]

DragResize(by) ==
    /\ act.mode = "resize" /\ act.id \in NodeIds
    /\ Resized(NodeOf(act.id), by) # NodeOf(act.id)
    /\ IF act.moved THEN UNCHANGED history ELSE CommitPending
    /\ act' = [act EXCEPT !.moved = TRUE]
    /\ sc' = WithNode(sc, act.id, Resized(NodeOf(act.id), by))
    /\ UNCHANGED <<sel, ids, began, torn>> /\ Elsewhere

DragView(v) ==
    /\ act.mode = "pan" /\ view # v
    /\ view' = v
    /\ UNCHANGED <<sc, history, clip, sel, act, pendingFit, lastView, saveVars, diskVars, ids, began, torn>>

\* The frame is too small, or touches some nodes.
Marked(nodes) ==
    IF nodes = {} THEN NoSelection
    ELSE [node |-> sc.nodes[Max({i \in DOMAIN sc.nodes : sc.nodes[i].id \in nodes})].id,
          edge |-> NoId, nodes |-> nodes]

DragMarquee(nodes) ==
    /\ act.mode = "marquee" /\ nodes \subseteq NodeIds
    /\ sel' = Marked(nodes)
    /\ UNCHANGED <<sc, history, act, ids, began, torn>> /\ Elsewhere

-----------------------------------------------------------------------------
(* The pointer is let go.                                                  *)

Attached(s, e) == [s EXCEPT !.edges = Append(@, e)]
Released == act' = Idle /\ snap' = <<>>

CanEnd(target) == target.id # act.id /\ HasPorts(target)

\* Mutant: a node may let out a second arrow when one is moved to it.
Refused_Uncapped(source, target) == HasEdge(sc.edges, source.id, target.id)

Refused(source, target) ==
    \/ source.kind # "condition" /\ HasOut(sc.edges, source.id)
    \/ HasEdge(sc.edges, source.id, target.id)

\* Nothing was hit, or the node at the fixed end is gone: the arrow that was taken is gone.
FinishNowhere ==
    /\ act.mode \in {"out", "in"}
    /\ Released
    /\ UNCHANGED <<sc, sel, undoStack, redoStack, ids, began, torn>> /\ Elsewhere

\* A new arrow, or an end of one, reaches this node, which may be refused.
FinishOut(id) ==
    /\ act.mode = "out" /\ {act.id, id} \subseteq NodeIds
    /\ LET source == NodeOf(act.id)
           target == NodeOf(id)
           refused == IF act.edge = <<>> THEN Refused(source, target)
                      ELSE HasEdge(sc.edges, source.id, target.id)
       IN  /\ CanEnd(target) /\ target.kind # "start"
           /\ IF refused THEN /\ sc' = IF act.edge = <<>> THEN sc ELSE Attached(sc, act.edge[1])
                              /\ UNCHANGED <<sel, undoStack, redoStack, ids>>
              ELSE /\ sc' = Attached(sc, IF act.edge = <<>> THEN NewEdge(ids + 1, act.id, id)
                                         ELSE [act.edge[1] EXCEPT !.to = id])
                   /\ sel' = OnlyEdge(Last(sc'.edges).id)
                   /\ ids' = Taken(ids, sc')
                   /\ IF act.edge = <<>> THEN Push(Encode(sc)) ELSE UNCHANGED <<undoStack, redoStack>>
    /\ Released
    /\ UNCHANGED <<began, torn>> /\ Elsewhere

FinishIn(id) ==
    /\ act.mode = "in" /\ {act.id, id} \subseteq NodeIds
    /\ LET e == act.edge[1]
       IN  /\ CanEnd(NodeOf(id))
           /\ IF Refused(NodeOf(id), NodeOf(act.id)) THEN sc' = Attached(sc, e) /\ UNCHANGED sel
              ELSE sc' = Attached(sc, [e EXCEPT !.from = id]) /\ sel' = OnlyEdge(e.id)
    /\ Released
    /\ UNCHANGED <<undoStack, redoStack, ids, began, torn>> /\ Elsewhere

Release ==
    /\ act.mode \in {"drag", "resize", "pan", "marquee"}
    /\ Released
    /\ UNCHANGED <<sc, sel, undoStack, redoStack, ids, began, torn>> /\ Elsewhere

-----------------------------------------------------------------------------
(* Keys; they also work while the pointer is held.                         *)

Changing(s, chosen) ==
    /\ sc' = s
    /\ sel' = chosen
    /\ PushHistory
    /\ Began
    /\ torn' = Torn
    /\ ids' = Taken(ids, s)

DeleteSelection ==
    /\ laidOut
    /\ sel.nodes # {} \/ sel.edge # NoId
    /\ Changing(RemoveEdge(RemoveNodes(sc, sel.nodes), sel.edge), NoSelection)
    /\ UNCHANGED act /\ Elsewhere

\* An arrow that was taken is put back; a list that is open is closed and the selection stays.
Escape ==
    /\ laidOut
    /\ sc' = IF act.edge # <<>> THEN Attached(sc, act.edge[1]) ELSE sc
    /\ act' = IF act.mode \in {"out", "in"} THEN Idle ELSE act
    /\ sel' \in {sel, NoSelection}
    /\ UNCHANGED <<history, ids, began, torn>> /\ Elsewhere

SelectAll ==
    /\ laidOut
    /\ sel' = [node |-> Last(sc.nodes).id, edge |-> NoId, nodes |-> NodeIds]
    /\ torn' = Torn
    /\ UNCHANGED <<sc, history, act, ids, began>> /\ Elsewhere

Copied == IF PartOf(sc, sel.nodes).nodes = <<>> THEN clip ELSE PartOf(sc, sel.nodes)

Copy ==
    /\ laidOut
    /\ clip' = Copied
    /\ UNCHANGED <<sc, history, sel, act, viewVars, saveVars, diskVars, ids, began, torn>>

WithPart(s, part) == [s EXCEPT !.nodes = @ \o part.nodes, !.edges = @ \o part.edges]

\* The inserted nodes are the selection.
Insert(part) ==
    Changing(WithPart(sc, part),
             [node |-> IF part.nodes = <<>> THEN sel.node ELSE Last(part.nodes).id,
              edge |-> NoId, nodes |-> IdsOf(part.nodes)])

Paste(from) ==
    /\ laidOut
    /\ from.nodes # <<>>
    /\ Insert(Inserted(from, ids, 28, 28))
    /\ clip' = from
    /\ UNCHANGED <<act, viewVars, saveVars, diskVars>>

-----------------------------------------------------------------------------
(* Nodes and arrows that come from elsewhere, the panel.                   *)

\* The bounding box of the corners of a part, its centre put to this point.
Centred(dto, at) ==
    LET xs == {dto.nodes[i].x : i \in DOMAIN dto.nodes}
        ys == {dto.nodes[i].y : i \in DOMAIN dto.nodes}
    IN  Inserted(dto, ids, at[1] - (Min(xs) + Max(xs) + NodeW) \div 2,
                           at[2] - (Min(ys) + Max(ys) + NodeH) \div 2)

Placed(node) == IF node.kind = "loop" THEN [node EXCEPT !.w = 422, !.h = 4 * NodeH] ELSE node

WithNew(nodes) == [sc EXCEPT !.nodes = @ \o nodes]

\* addNode, dropKindAtWindow
AddNode(kind, at) ==
    /\ Free
    /\ LET n == Placed(NewNode(ids + 1, kind, at[1] - NodeW \div 2, at[2] - NodeH \div 2))
       IN  Changing(WithNew(<<n>>), OnlyNode(n.id))
    /\ UNCHANGED act /\ Elsewhere

\* addBlock, dropBlockAtWindow
AddBlock(id, at) ==
    /\ Free
    /\ id \in DOMAIN blocks
    /\ Insert(Centred(blocks[id], at))
    /\ UNCHANGED act /\ Elsewhere

SaveSelectionAsBlock ==
    /\ Free /\ sel.node \in NodeIds /\ NodeOf(sel.node).kind # "start"
    /\ LET part == PartOf(sc, sel.nodes)
       IN  /\ part.nodes # <<>>
           /\ blocks' = Put(blocks, ids + 1, part)
    /\ ids' = ids + 1
    /\ UNCHANGED <<sc, history, clip, sel, act, viewVars, saveVars, files, mods, order, began, torn>>

DeleteBlock(id) ==
    /\ Free /\ id \in DOMAIN blocks
    /\ blocks' = [b \in DOMAIN blocks \ {id} |-> blocks[b]]
    /\ UNCHANGED <<sc, history, clip, sel, act, viewVars, saveVars, files, mods, order, ids, began, torn>>

\* nodeFromRequest: a request of a collection has a method, a name and what it sends.
KindOf(method) ==
    IF method = "WS" THEN "ws" ELSE IF method = "GRAPHQL" THEN "gql" ELSE "request"

NodeFromRequest(id, r, x, y) ==
    LET n == NewNode(id, KindOf(r.method), x, y)
        name == [name |-> IF r.name = "" THEN "Request" ELSE r.name]
        method == IF n.kind = "request" /\ r.method # "" THEN [method |-> r.method] ELSE Unset
    IN  [n EXCEPT !.f = WithDefaults(WithDefaults(WithDefaults(name, method), r.f), @)]

\* In columns by the method.
InColumns(requests, at) ==
    LET used == Selected(Methods, {requests[i].method : i \in DOMAIN requests})
        column(i) == CHOOSE c \in DOMAIN used : used[c] = requests[i].method
        row(i) == Cardinality({j \in 1..(i - 1) : requests[j].method = requests[i].method})
        before(i) == Cardinality({j \in DOMAIN requests : column(j) < column(i)}) + row(i)
        node(id, i) == NodeFromRequest(id, requests[i],
                                       at[1] + (column(i) - 1) * (NodeW + 60),
                                       at[2] + row(i) * (NodeH + BodyBoxH + 36))
    IN  [k \in DOMAIN requests |-> node(ids + k, CHOOSE i \in DOMAIN requests : before(i) = k - 1)]

\* A folder without requests is taken and changes nothing.
DropCollectionNode(requests, at) ==
    /\ Free
    /\ requests # <<>>
    /\ LET nodes == IF Len(requests) = 1
                    THEN <<NodeFromRequest(ids + 1, requests[1], at[1] - NodeW \div 2, at[2] - NodeH \div 2)>>
                    ELSE InColumns(requests, at)
       IN  Changing(WithNew(nodes), [node |-> Last(nodes).id, edge |-> NoId, nodes |-> IdsOf(nodes)])
    /\ UNCHANGED act /\ Elsewhere

TextKeys(kind) ==
    {"name"} \cup
    CASE kind = "request" -> {"url", "headers", "body", "bin_path", "auth_token", "auth_user", "auth_pass", "cookies"}
      [] kind = "ws"      -> {"url", "headers", "body", "subprotos", "wait_ms", "auth_token", "auth_user", "auth_pass", "cookies"}
      [] kind = "wssend"  -> {"body", "wait_ms"}
      [] kind = "gql"     -> {"url", "headers", "body", "vars", "auth_token", "auth_user", "auth_pass", "cookies"}
      [] kind = "loop"    -> {"count", "loop_src", "delay_ms"}
      [] kind = "delay"   -> {"delay_ms"}
      [] kind = "setvar"  -> {"var_name", "var_value"}
      [] kind = "note"    -> {"body"}
      [] OTHER            -> {}

ChipKeys(kind) ==
    CASE kind = "request" -> {"method", "body_type", "auth_type", "env_id"}
      [] kind = "ws"      -> {"ws_opcode", "insecure_tls", "keep_open", "auth_type", "env_id"}
      [] kind = "wssend"  -> {"ws_opcode", "ws_close"}
      [] kind = "gql"     -> {"auth_type", "env_id"}
      [] OTHER            -> {}

WithNodeField(id, key, text) ==
    WithNode(sc, id, [NodeOf(id) EXCEPT !.f = WithField(@, key, text)])

\* Texts go straight into the scenario, without a step of the history.
TypeOnNode(key, text) ==
    /\ Free /\ sel.node \in NodeIds
    /\ NodeOf(sel.node).kind # "start" /\ key \in TextKeys(NodeOf(sel.node).kind)
    /\ sc' = WithNodeField(sel.node, key, text)
    /\ sc' # sc
    /\ UNCHANGED <<history, sel, act, ids, began, torn>> /\ Elsewhere

\* A chip that is on already makes a step of the history, an environment does not.
PickOnNode(key, text) ==
    /\ Free /\ sel.node \in NodeIds
    /\ key \in ChipKeys(NodeOf(sel.node).kind)
    /\ key = "env_id" => WithNodeField(sel.node, key, text) # sc
    /\ Changing(WithNodeField(sel.node, key, text), sel)
    /\ UNCHANGED act /\ Elsewhere

DeleteOnPanel ==
    /\ Free
    /\ \/ /\ sel.node \in NodeIds /\ NodeOf(sel.node).kind # "start"
          /\ Changing(RemoveNodes(sc, IF Cardinality(sel.nodes) > 1 THEN sel.nodes ELSE {sel.node}), NoSelection)
       \/ /\ sel.edge \in IdsOf(sc.edges)
          /\ Changing(RemoveEdge(sc, sel.edge), [sel EXCEPT !.edge = NoId])
    /\ UNCHANGED act /\ Elsewhere

EdgeChosen == Free /\ sel.edge \in IdsOf(sc.edges)
ChosenEdge == ById(sc.edges, sel.edge)

PickCond(cond) ==
    /\ EdgeChosen /\ ChosenEdge.cond # cond
    /\ Changing(WithEdge(sc, sel.edge, [ChosenEdge EXCEPT !.cond = cond]), sel)
    /\ UNCHANGED act /\ Elsewhere

PickOp(op) ==
    /\ EdgeChosen /\ ChosenEdge.cond = "content"
    /\ Changing(WithEdge(sc, sel.edge, [ChosenEdge EXCEPT !.f = WithField(@, "op", op)]), sel)
    /\ UNCHANGED act /\ Elsewhere

TypeOnEdge(key, text) ==
    /\ EdgeChosen /\ ChosenEdge.cond = "content"
    /\ sc' = WithEdge(sc, sel.edge, [ChosenEdge EXCEPT !.f = WithField(@, key, text)])
    /\ sc' # sc
    /\ UNCHANGED <<history, sel, act, ids, began, torn>> /\ Elsewhere

TypeName(name) ==
    /\ Free /\ sc.name # name
    /\ sc' = [sc EXCEPT !.name = name]
    /\ UNCHANGED <<history, sel, act, ids, began, torn>> /\ Elsewhere

-----------------------------------------------------------------------------
(* Saving and the view.                                                    *)

Without(list, x) == Selected(list, ToSet(list) \ {x})
Touched(name) == Append(Without(mods, name), name)

ViewDirty == ~pendingFit /\ view # lastView
Synced(s) == IF pendingFit THEN s ELSE [s EXCEPT !.view = <<view>>]
SyncView == lastView' = IF pendingFit THEN lastView ELSE view

Written(s) == Put(files, s.id, s)
Write(s) == files' = Written(s) /\ mods' = Touched(s.id) /\ UNCHANGED <<order, blocks>>

SaveScenario ==
    /\ laidOut
    /\ sc' = Synced(sc)
    /\ SyncView
    /\ Write(sc')
    /\ lastSaved' = <<Encode(sc)>>
    /\ UNCHANGED <<history, clip, sel, act, view, pendingFit, laidOut, ids, began, torn>>

\* The first time the editor is shown, and every five seconds after.
FirstFrame ==
    /\ ~laidOut
    /\ laidOut' = TRUE
    /\ lastSaved' = <<Encode(sc)>>
    /\ view' = IF pendingFit THEN "fit" ELSE view
    /\ pendingFit' = FALSE
    /\ UNCHANGED <<sc, history, clip, sel, act, lastView, diskVars, ids, began, torn>>

\* Mutant: the scenario is not written when its view has changed as well.
Autosave_ViewFirst ==
    /\ laidOut
    /\ lastSaved # <<Encode(sc)>> \/ ViewDirty
    /\ sc' = Synced(sc)
    /\ SyncView
    /\ IF ViewDirty /\ sc.id \in DOMAIN files
       THEN Write([files[sc.id] EXCEPT !.view = <<view>>]) ELSE Write(sc')
    /\ lastSaved' = <<Encode(sc)>>
    /\ UNCHANGED <<history, clip, sel, act, view, pendingFit, laidOut, ids, began, torn>>

\* Without a change to save only the view is (FlushView), with the scenario it belongs to.
Autosave ==
    /\ laidOut
    /\ lastSaved # <<Encode(sc)>> \/ ViewDirty
    /\ sc' = Synced(sc)
    /\ SyncView
    /\ Write(sc')
    /\ lastSaved' = <<Encode(sc)>>
    /\ UNCHANGED <<history, clip, sel, act, view, pendingFit, laidOut, ids, began, torn>>

\* fitView when it was asked for, or by its badge; resetZoom; the wheel.
ShowView(v) ==
    /\ laidOut /\ view # v
    /\ pendingFit => v = "fit"
    /\ view' = v
    /\ pendingFit' = FALSE
    /\ UNCHANGED <<sc, history, clip, sel, act, lastView, saveVars, diskVars, ids, began, torn>>

\* From a tab, also before the editor was shown.
AddRequestNode(r, at) ==
    /\ act = Idle
    /\ LET n == NodeFromRequest(ids + 1, r, at[1] - NodeW \div 2, at[2] - NodeH \div 2)
       IN  Changing(WithNew(<<n>>), OnlyNode(n.id))
    /\ pendingFit' = TRUE
    /\ Write(sc')
    /\ lastSaved' = <<Encode(sc')>>
    /\ UNCHANGED <<clip, act, view, lastView, laidOut>>

-----------------------------------------------------------------------------
(* Scenarios and their list in the sidebar.                                *)

ApplyView(s) ==
    /\ view' = IF s.view # <<>> THEN s.view[1] ELSE view
    /\ pendingFit' = (s.view = <<>>)
    /\ lastView' = view'

\* The view of the scenario that is left is flushed, with the scenario.
OpenScenario(id) ==
    /\ act = Idle
    /\ id \in DOMAIN files /\ id # sc.id
    /\ IF ViewDirty THEN Write(Synced(sc)) ELSE UNCHANGED diskVars
    /\ sc' = ScenarioFromDTO(files[id], ids)
    /\ ids' = Taken(ids, sc')
    /\ sel' = NoSelection
    /\ PushHistory /\ Began
    /\ lastSaved' = <<Encode(sc')>>
    /\ ApplyView(sc')
    /\ UNCHANGED <<clip, act, laidOut, torn>>

CreateNew ==
    /\ act = Idle
    /\ sc' = NewScenario(ids + 1)
    /\ ids' = ids + 2
    /\ sel' = NoSelection
    /\ PushHistory /\ Began
    /\ view' = "origin" /\ pendingFit' = TRUE
    /\ Write(sc')
    /\ lastSaved' = <<Encode(sc')>>
    /\ UNCHANGED <<clip, act, lastView, laidOut, torn>>

\* The file gets the name, and the scenario when it is the open one.
RenameScenario(id, name) ==
    /\ act = Idle
    /\ id \in DOMAIN files /\ files[id].name # name
    /\ Write([files[id] EXCEPT !.name = name])
    /\ sc' = IF id = sc.id THEN [sc EXCEPT !.name = name] ELSE sc
    /\ UNCHANGED <<history, clip, sel, act, viewVars, saveVars, ids, began, torn>>

OnDisk(s) ==
    /\ Write(s)
    /\ ids' = Taken(ids, s)
    /\ UNCHANGED <<sc, history, clip, sel, act, viewVars, saveVars, began, torn>>

CopyName(name) == IF name = "" THEN "Untitled Copy" ELSE name \o " Copy"

DuplicateScenario(id) ==
    /\ act = Idle /\ id \in DOMAIN files
    /\ OnDisk([files[id] EXCEPT !.id = ids + 1, !.name = CopyName(@)])

ImportScenario(dto) ==
    /\ act = Idle /\ dto.nodes # <<>>
    /\ OnDisk([dto EXCEPT !.id = ids + 1])

Listed == UNCHANGED <<sc, history, clip, sel, act, viewVars, saveVars, blocks, ids, began, torn>>

SetOrder(new) == order' = <<new>> /\ mods' = Touched(OrderFile)
OrderNow == IF order = <<>> THEN <<>> ELSE order[1]

DropFromOrder(id, named) ==
    IF \E i \in DOMAIN OrderNow : OrderNow[i] = id
    THEN order' = <<Without(OrderNow, id)>> /\ mods' = Append(Without(named, OrderFile), OrderFile)
    ELSE mods' = named /\ UNCHANGED order

DeleteScenario(id) ==
    /\ act = Idle
    /\ \/ IsSeparatorID(id) /\ id \in ToSet(OrderNow) /\ DropFromOrder(id, mods) /\ UNCHANGED files
       \/ /\ id \in DOMAIN files
          /\ files' = [f \in DOMAIN files \ {id} |-> files[f]]
          /\ DropFromOrder(id, Without(mods, id))
    /\ Listed

\* What has no place in the order comes first, the latest on top.
ListScenarios ==
    LET ranked == Selected(OrderNow, {id \in ToSet(OrderNow) : IsSeparatorID(id) \/ id \in DOMAIN files})
    IN  Reverse(Selected(mods, DOMAIN files \ ToSet(ranked))) \o ranked

Relocated(list, from, to) == InsertAt(RemoveAt(list, from), to, list[from])

\* A row is dragged to another place (commitScriptDrop).
MoveScenario(from, to) ==
    /\ act = Idle
    /\ {from, to} \subseteq DOMAIN ListScenarios /\ from # to
    /\ SetOrder(Relocated(ListScenarios, from, to))
    /\ UNCHANGED files
    /\ Listed

\* The order with what it does not have yet at its end.
InOrder(list) == OrderNow \o Selected(list, ToSet(list) \ ToSet(OrderNow))

AddSeparator(after) ==
    /\ act = Idle
    /\ LET all == InOrder(ListScenarios)
           at == IF after \in ToSet(all) THEN (CHOOSE i \in DOMAIN all : all[i] = after) + 1 ELSE Len(all) + 1
       IN  SetOrder(InsertAt(all, at, -(ids + 1)))
    /\ ids' = ids + 1
    /\ UNCHANGED <<files, sc, history, clip, sel, act, viewVars, saveVars, blocks, began, torn>>
=============================================================================
