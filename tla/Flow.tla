---------------------------------- MODULE Flow ----------------------------------
(***************************************************************************)
(* The flows section: the editor and the runner, as the window puts them   *)
(* together (internal/ui/flow editor.go, internal/ui/app.go).  A run walks *)
(* a copy of the scenario; only opening or creating another one waits for  *)
(* its end.                                                                *)
(*                                                                         *)
(* A session says which files there are at the start and how often what    *)
(* kind of thing is done.                                                  *)
(***************************************************************************)
EXTENDS FlowEditor, FlowRunner

CONSTANTS
    Sessions,           \* bound: [files, mods, order, blocks, left]
    NumberOf,           \* the texts that are numbers, with their value
    AddedKinds,         \* kinds of nodes that are added from the palette
    TabRequests         \* requests that are sent here from their tabs

\* What there can be a limit to in a session.
Doings ==
    {"press", "drag", "undo", "key", "panel", "save", "view", "list", "tab", "run", "step", "restart"}

\* Files hold the scenarios they are named after, every file there is has its place in the
\* order of time, and the list has its separators from numbers that were given out.
ASSUME SessionsAssumption ==
    \A session \in Sessions :
        /\ \A f \in DOMAIN session.files :
              IsScene(session.files[f]) /\ IsNumbered(session.files[f]) /\ session.files[f].id = f
        /\ \A b \in DOMAIN session.blocks : IsPart(session.blocks[b])
        /\ IsList(session.mods) /\ IsInjective(session.mods)
        /\ ToSet(session.mods) \ {OrderFile} = DOMAIN session.files
        /\ session.order # <<>> =>
              /\ session.order = <<session.order[1]>>
              /\ IsList(session.order[1]) /\ IsInjective(session.order[1])
              /\ \A id \in ToSet(session.order[1]) : id \in Int /\ id > -100
        /\ session.left \in [Doings -> Nat]

ASSUME NumbersAssumption == \A text \in DOMAIN NumberOf : NumberOf[text] \in Int

VARIABLES
    left,               \* what may still be done
    foreign             \* of the history: something came to the canvas that cannot be drawn on it

flowVars == <<editorVars, vars, left, foreign>>

-----------------------------------------------------------------------------
(* What can be drawn.                                                      *)

\* Ids are there and differ.
Identified(q) ==
    /\ \A i \in DOMAIN q : q[i].id # NoId
    /\ \A i, j \in DOMAIN q : q[i].id = q[j].id => i = j

\* An arrow leads from a node to another one; none leads to a start node.
Joins(e, nodes) ==
    /\ e.from # e.to
    /\ \E a, b \in ToSet(nodes) :
          a.id = e.from /\ b.id = e.to /\ HasPorts(a) /\ HasPorts(b) /\ b.kind # "start"

\* No two arrows join the same nodes, and only a condition has two arrows out of it.
SoundDrawing(p) ==
    /\ Identified(p.nodes) /\ Identified(p.edges)
    /\ \A e \in ToSet(p.edges) : Joins(e, p.nodes)
    /\ \A e, o \in ToSet(p.edges) : e # o /\ e.from = o.from =>
          e.to # o.to /\ \E n \in ToSet(p.nodes) : n.id = e.from /\ n.kind = "condition"

SoundCanvas(s) == SoundDrawing(s) /\ \E n \in ToSet(s.nodes) : n.kind = "start"

\* From a file or a block of elsewhere; or a key was pressed while an arrow was held, whose
\* nodes may be gone when it is put back.
Watched ==
    foreign' = (\/ foreign \/ torn' \cap {"out", "in"} # {}
                \/ \E f \in DOMAIN files' \ DOMAIN files : ~SoundCanvas(files'[f]))

-----------------------------------------------------------------------------
(* What a run gets of a scenario.                                          *)

Set(node, key) == key \in DOMAIN node.f

\* A count below one, or none, is one.
Times(node) ==
    IF Set(node, "count") /\ node.f.count \in DOMAIN NumberOf
    THEN Max({1, NumberOf[node.f.count]}) ELSE 1

\* GraphQL requests are requests.
RunKind(node) == IF node.kind = "gql" THEN "request" ELSE node.kind

InsideOf(s, loop) == {o \in IdsOf(s.nodes) : LoopContains(loop, ById(s.nodes, o))}

FirstStart(s) ==
    LET starts == Selected(s.nodes, {n \in ToSet(s.nodes) : n.kind = "start"})
    IN  IF starts = <<>> THEN NoId ELSE starts[1].id

\* An arrow without a node at one of its ends is skipped.
PlanOf(s) ==
    LET known == IdsOf(s.nodes)
        of(id) == ById(s.nodes, id)
        joined == Selected(s.edges, Joining(s.edges, known))
    IN  [nodes     |-> known,
         kind      |-> [n \in known |-> RunKind(of(n))],
         start     |-> FirstStart(s),
         edges     |-> [i \in DOMAIN joined |->
                          [from |-> joined[i].from, to |-> joined[i].to, cond |-> joined[i].cond]],
         inside    |-> [n \in known |-> InsideOf(s, of(n))],
         rank      |-> [n \in known |-> of(n).y * 10000 + of(n).x],
         times     |-> [n \in known |-> Times(of(n))],
         overArray |-> [n \in known |-> Set(of(n), "loop_src")],
         keepOpen  |-> [n \in known |-> Set(of(n), "keep_open")],
         wsClose   |-> [n \in known |-> Set(of(n), "ws_close")]]

-----------------------------------------------------------------------------
(* Starting and leaving the program.                                       *)

\* LoadLatest: the newest file of the directory, whatever it is.
Latest(fs, named, taken) ==
    IF named = <<>> \/ Last(named) = OrderFile THEN NewScenario(taken + 1)
    ELSE ScenarioFromDTO(fs[Last(named)], taken)

\* The editor is made when the section is first shown or a tab is sent to it; nothing
\* changes the files before.
NewEditor(s) ==
    /\ sc = s
    /\ undoStack = <<>> /\ redoStack = <<>> /\ snap = <<>>
    /\ clip = [nodes |-> <<>>, edges |-> <<>>]
    /\ sel = NoSelection /\ act = Idle
    /\ view = IF s.view # <<>> THEN s.view[1] ELSE "origin"
    /\ pendingFit = (s.view = <<>>)
    /\ lastView = view
    /\ lastSaved = <<>> /\ laidOut = FALSE
    /\ began = Encode(s) /\ torn = {}

NewRunner(s) ==
    /\ running = FALSE /\ paused = FALSE /\ stepMode = FALSE /\ status = ""
    /\ token = 0 /\ cancelled = FALSE
    /\ plan \in BuildPlan(PlanOf(s))
    /\ nodeSt = NoStates(plan.scenario.nodes)
    /\ edgeSt = NoStates(DOMAIN plan.scenario.edges)
    /\ runs = <<>> /\ runSeq = 0
    /\ stack = <<>>
    /\ steps = 0 /\ anyFail = FALSE /\ limitHit = FALSE /\ okReq = 0 /\ failReq = 0
    /\ socks = 0 /\ closing = 0
    /\ ui = "idle"

\* Ids in a file: of the scenario, its nodes and its arrows.
TakenBy(s) == Taken(0, s)

FlowInit ==
    \E session \in Sessions :
       /\ files = session.files /\ mods = session.mods
       /\ order = session.order /\ blocks = session.blocks
       /\ left = session.left
       /\ foreign = ~(/\ \A f \in DOMAIN files : SoundCanvas(files[f])
                      /\ \A b \in DOMAIN blocks : SoundDrawing(blocks[b]))
       /\ LET taken == Max({100} \cup {TakenBy(files[f]) : f \in DOMAIN files})
              s == Latest(files, mods, taken)
          IN  NewEditor(s) /\ ids = Taken(taken, s) /\ NewRunner(s)

\* The view is flushed when the window is closed, not when the program is killed.
FilesLeft(flushed) == IF flushed /\ ViewDirty THEN Written(Synced(sc)) ELSE files
NamesLeft(flushed) == IF flushed /\ ViewDirty THEN Touched(sc.id) ELSE mods

ResetEditor ==
    /\ undoStack' = <<>> /\ redoStack' = <<>> /\ snap' = <<>>
    /\ clip' = [nodes |-> <<>>, edges |-> <<>>]
    /\ sel' = NoSelection /\ act' = Idle
    /\ view' = IF sc'.view # <<>> THEN sc'.view[1] ELSE "origin"
    /\ pendingFit' = (sc'.view = <<>>)
    /\ lastView' = view'
    /\ lastSaved' = <<>> /\ laidOut' = FALSE
    /\ began' = Encode(sc') /\ torn' = {}

ResetRunner ==
    /\ running' = FALSE /\ paused' = FALSE /\ stepMode' = FALSE /\ status' = ""
    /\ token' = 0 /\ cancelled' = FALSE
    /\ plan' \in BuildPlan(PlanOf(sc'))
    /\ nodeSt' = NoStates(plan'.scenario.nodes)
    /\ edgeSt' = NoStates(DOMAIN plan'.scenario.edges)
    /\ runs' = <<>> /\ runSeq' = 0
    /\ stack' = <<>>
    /\ steps' = 0 /\ anyFail' = FALSE /\ limitHit' = FALSE /\ okReq' = 0 /\ failReq' = 0
    /\ socks' = 0 /\ closing' = 0
    /\ ui' = "idle"

Restart(flushed) ==
    /\ files' = FilesLeft(flushed) /\ mods' = NamesLeft(flushed)
    /\ sc' = Latest(files', mods', ids)
    /\ ids' = Taken(ids, sc')
    /\ ResetEditor
    /\ ResetRunner
    /\ UNCHANGED <<order, blocks>>

-----------------------------------------------------------------------------
(* The window.                                                             *)

\* Every operation of a kind is one less of it.
Does(what) == left[what] > 0 /\ left' = [left EXCEPT ![what] = @ - 1]

Aside == UNCHANGED vars

GestureStep ==
    \/ Does("press") /\ \E id \in NodeIds :
           PressNode(id) \/ PressToSelect(id) \/ PressPort(id) \/ PressResize(id)
    \/ Does("press") /\ \E id \in IdsOf(sc.edges) :
           PressEdge(id) \/ \E freeTarget \in BOOLEAN : GrabEdge(id, freeTarget)
    \/ Does("press") /\ PressCanvas
    \/ Does("drag") /\ \E by \in Offsets : Drag(by) \/ DragResize(by)
    \/ Does("drag") /\ (\E v \in Views : DragView(v))
    \/ Does("drag") /\ (\E nodes \in SUBSET NodeIds : DragMarquee(nodes))
    \/ (FinishNowhere \/ Release \/ \E id \in NodeIds : FinishOut(id) \/ FinishIn(id)) /\ UNCHANGED left

KeyStep ==
    \/ Does("undo") /\ (Undo \/ Redo)
    \/ Does("key") /\ (DeleteSelection \/ Escape \/ SelectAll \/ Copy \/ Paste(clip) \/ Paste(Copied))

PanelStep ==
    \/ Does("panel") /\ \E at \in Points :
           \/ \E kind0 \in AddedKinds : AddNode(kind0, at)
           \/ \E id \in DOMAIN blocks : AddBlock(id, at)
           \/ \E requests \in Dropped : DropCollectionNode(requests, at)
    \/ Does("panel") /\ (SaveSelectionAsBlock \/ DeleteOnPanel \/ \E id \in DOMAIN blocks : DeleteBlock(id))
    \/ Does("panel") /\ \E key \in DOMAIN NodeTexts : \E text \in NodeTexts[key] : TypeOnNode(key, text)
    \/ Does("panel") /\ \E key \in DOMAIN NodeChips : \E text \in NodeChips[key] : PickOnNode(key, text)
    \/ Does("panel") /\ ((\E cond \in EdgeConds : PickCond(cond)) \/ \E op \in EdgeOps : PickOp(op))
    \/ Does("panel") /\ \E key \in DOMAIN EdgeTexts : \E text \in EdgeTexts[key] : TypeOnEdge(key, text)
    \/ Does("panel") /\ \E name \in Names : TypeName(name)

SaveStep ==
    \/ FirstFrame /\ UNCHANGED left
    \/ Does("save") /\ (SaveScenario \/ Autosave)
    \/ Does("view") /\ \E v \in Views : ShowView(v)
    \/ Does("tab") /\ \E r \in TabRequests, at \in Points : AddRequestNode(r, at)

ListStep ==
    Does("list") /\
    (\/ \E id \in DOMAIN files :
           DuplicateScenario(id) \/ \E name \in Names : RenameScenario(id, name)
     \/ \E dto \in Imports : ImportScenario(dto)
     \/ \E id \in DOMAIN files \cup ToSet(OrderNow) : DeleteScenario(id)
     \/ \E from, to \in DOMAIN ListScenarios : MoveScenario(from, to)
     \/ \E after \in DOMAIN files \cup {NoId} : AddSeparator(after))

EditorStep == (GestureStep \/ KeyStep \/ PanelStep \/ SaveStep \/ ListStep) /\ Aside

\* Another scenario comes onto the canvas when no run is under way, and clears the board.
SwitchStep ==
    Does("list") /\ (CreateNew \/ \E id \in DOMAIN files : OpenScenario(id)) /\ Reset

\* ToggleRun
RunnerStep ==
    /\ \/ Does("run") /\ Start(PlanOf(sc))
       \/ left.step > 0 /\ (SetStepMode \/ Step) /\ UNCHANGED left
       \/ (Stop \/ SendToken \/ WalkOn \/ Request \/ CloseSockets) /\ UNCHANGED left
    /\ UNCHANGED editorVars

FlowNext ==
    \/ EditorStep /\ Watched
    \/ SwitchStep /\ Watched
    \/ RunnerStep /\ UNCHANGED foreign
    \/ Does("restart") /\ (\E flushed \in BOOLEAN : Restart(flushed)) /\ UNCHANGED foreign

FlowSpec ==
    /\ FlowInit /\ [][FlowNext]_flowVars
    /\ WF_flowVars(WalkOn /\ UNCHANGED <<editorVars, left, foreign>>)
    /\ WF_flowVars(cancelled /\ Request /\ UNCHANGED <<editorVars, left, foreign>>)

-----------------------------------------------------------------------------
(* Properties.                                                             *)

\* The history keeps as many steps as it may, together with what was undone; the selection
\* is on the canvas; the list shows each scenario and each separator once.
FlowTypeOK ==
    /\ TypeOK
    /\ Len(undoStack) + Len(redoStack) <= HistoryLimit
    /\ sel.node \in NodeIds \cup {NoId} /\ sel.nodes \subseteq NodeIds
    /\ sel.edge \in IdsOf(sc.edges) \cup {NoId}
    /\ IsInjective(ListScenarios) /\ DOMAIN files \subseteq ToSet(ListScenarios)
    /\ IsInjective(mods) /\ ToSet(mods) \ {OrderFile} = DOMAIN files

\* What is seen of a scenario: no texts, and no order of the nodes.
Drawn(s) ==
    <<s.id, {[s.nodes[i] EXCEPT !.f = Only(@, ChipKeys(s.nodes[i].kind))] : i \in DOMAIN s.nodes},
      {[s.edges[i] EXCEPT !.f = Unset] : i \in DOMAIN s.edges}>>

\* Whatever changes the drawing leaves it in the history as it was, or as it was when the
\* gesture began, one undo or redo away (pushSnapshot, commitPending, grabEdge), unless a
\* key was pressed during a gesture.
ChangesUndoable ==
    [][Drawn(sc') # Drawn(sc) /\ torn' = {} /\ left'.restart = left.restart =>
          \/ undoStack' # <<>> /\ Last(undoStack') \in {began', Encode(sc)}
          \/ redoStack' # <<>> /\ Last(redoStack') = Encode(sc)]_flowVars

\* Without the texts that come back when they are emptied, and its name.
KeptNodes(q) == [i \in DOMAIN q |-> [q[i] EXCEPT !.f = Only(@, DOMAIN @ \ {"wait_ms"})]]
KeptEdges(q) == [i \in DOMAIN q |-> [q[i] EXCEPT !.f = Only(@, DOMAIN @ \ {"count"})]]
Kept(s) == [s EXCEPT !.name = "", !.view = <<>>, !.nodes = KeptNodes(@), !.edges = KeptEdges(@)]

\* What the editor takes for saved is saved: the file of the scenario on the canvas reads
\* back as the canvas (autosave, nodeToDTO, scenarioFromDTO).  The name may differ after the
\* scenario was renamed in the list.
Reads(s) == s.id \in DOMAIN files => Kept(ScenarioFromDTO(files[s.id], 0)) = Kept(s)

\* The canvas and its history have a start node, ids that differ, and arrows as they may be
\* drawn (finishConnect, RemoveNode, insertBlockAt, paste, restore), and the canvas can be
\* relied on when nothing is left to save, unless something came that cannot be drawn.
CanvasSound ==
    ~foreign =>
       /\ SoundCanvas(sc)
       /\ \A s \in ToSet(undoStack) \cup ToSet(redoStack) : SoundCanvas(s)
       /\ lastSaved = <<Encode(sc)>> => Reads(sc)
=============================================================================
