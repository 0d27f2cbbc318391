------------------------------ MODULE Collections ------------------------------
(***************************************************************************)
(* The collections in the sidebar and the tabs of requests: the tree and   *)
(* its rows, the operations of the sidebar on it, the tabs opened from its *)
(* requests, what is saved into them and asked before they are closed      *)
(* (internal/ui/sidebar, internal/ui/collections, internal/ui/tabbar and   *)
(* app.go, tabbar.go and closeconfirm.go of internal/ui).                  *)
(*                                                                         *)
(* A node is known by its number.  A handler that a click on a menu or a   *)
(* row runs first ends a rename under way with the text typed so far.      *)
(***************************************************************************)
EXTENDS SidebarState

CONSTANTS ColIds,       \* the names of the files of collections, as a directory lists them
          SepIds,       \* the names of separators
          RenameTexts,  \* what is typed as a name
          Edits,        \* what is typed into a tab: the fields it changes
          LayoutEdits,  \* how the panes of a tab are resized
          Imports       \* the files that are imported

VARIABLES nodes,        \* the nodes by number
          cols,         \* the collections and separators in order
          visible,      \* VisibleCols, the rows
          renaming,     \* RenamingNode, or NoNode
          loadedCols,   \* ColLoadedChan
          tabs, active, \* the tabs; the index of the active one from 0, -1 without tabs
          layoutPrefs,  \* LayoutPrefs
          confirm,      \* the tabs the question before closing is about
          dirtyCols, deletedCols,
          colFiles      \* the files of the collections

treeVars == <<nodes, cols, visible, renaming, loadedCols>>
tabVars == <<tabs, active, layoutPrefs, confirm>>
fileVars == <<dirtyCols, deletedCols, colFiles>>
colVars == <<treeVars, tabVars, fileVars>>

-----------------------------------------------------------------------------
(* The tree.                                                               *)

\* The first k numbers that are free, in order.
FreshIds(ns, k) ==
    LET free == SetToSortSeq((1..(Cardinality(DOMAIN ns) + k)) \ DOMAIN ns, <)
    IN  SubSeq(free, 1, k)

FreshId(ns) == FreshIds(ns, 1)[1]

IndexOf(s, x) == SelectInSeq(s, LAMBDA e : e = x)

RECURSIVE Preorder(_, _)
Preorder(ns, n) ==
    <<n>> \o FlattenSeq([i \in DOMAIN ns[n].kids |-> Preorder(ns, ns[n].kids[i])])

CollectSubtree(ns, n) == ToSet(Preorder(ns, n))

\* Only folders and the roots show what they hold.
RECURSIVE RowsOf(_, _)
RowsOf(ns, n) ==
    LET below == [i \in DOMAIN ns[n].kids |-> RowsOf(ns, ns[n].kids[i])]
    IN  <<n>> \o (IF ns[n].expanded /\ (ns[n].folder \/ ns[n].depth = 0) THEN FlattenSeq(below)
                  ELSE <<>>)

VisibleCols(cs, ns) == FlattenSeq([i \in DOMAIN cs |-> RowsOf(ns, cs[i].root)])

SiblingIndex(ns, n) == IndexOf(ns[ns[n].parent].kids, n)

RECURSIVE RecalcDepth(_, _, _)
RecalcDepth(ns, n, depth) ==
    FoldLeft(LAMBDA acc, k : RecalcDepth(acc, k, depth + 1),
             [ns EXCEPT ![n].depth = depth], ns[n].kids)

RECURSIVE AssignParents(_, _, _, _)
AssignParents(ns, n, parent, col) ==
    FoldLeft(LAMBDA acc, k : AssignParents(acc, k, n, col),
             [ns EXCEPT ![n].parent = parent, ![n].col = col], ns[n].kids)

RECURSIVE Ancestors(_, _)
Ancestors(ns, n) == IF n = NoNode THEN {} ELSE {n} \cup Ancestors(ns, ns[n].parent)

IsAncestorOrSelf(ns, a, n) == a \in Ancestors(ns, n)

\* Indexes in a path are from 0.  Without a collection above it a node has no path.
RECURSIVE NodePathFrom(_, _)
NodePathFrom(ns, n) ==
    IF ns[n].parent = NoNode THEN <<>>
    ELSE Append(NodePathFrom(ns, ns[n].parent), SiblingIndex(ns, n) - 1)

NodeAtPath(ns, root, path) ==
    FoldLeft(LAMBDA n, i : IF n # NoNode /\ i >= 0 /\ i < Len(ns[n].kids) THEN ns[n].kids[i + 1]
                           ELSE NoNode,
             root, path)

\* The copy shares no node with what it is made of; only its first node has another name.
CloneNode(ns, n, parent) ==
    LET old == Preorder(ns, n)
        ids == FreshIds(ns, Len(old))
        copy(m) == ids[IndexOf(old, m)]
        name(m) == IF m = n THEN ns[m].name \o " Copy" ELSE ns[m].name
        clone(m) ==
            [ns[m] EXCEPT !.name = name(m),
                          !.parent = IF m = n THEN parent ELSE copy(@),
                          !.kids = [i \in DOMAIN @ |-> copy(@[i])],
                          !.request = IF @ = CF!NoRequest THEN @ ELSE [@ EXCEPT !.name = name(m)]]
    IN  [root |-> ids[1], nodes |-> [i \in ToSet(ids) |-> clone(old[IndexOf(ids, i)])] @@ ns]

NewNode(name, folder, request, parent, depth, col) ==
    [name |-> name, folder |-> folder, sep |-> FALSE, request |-> request, kids |-> <<>>,
     skipped |-> <<>>, extras |-> <<>>, expanded |-> FALSE, depth |-> depth, parent |-> parent,
     col |-> col]

NewCol(id, name, root) ==
    [id |-> id, sep |-> FALSE, name |-> name, root |-> root, infoExtras |-> <<>>,
     topExtras |-> <<>>]

\* The nodes of what was read.
RECURSIVE Plant(_, _, _, _, _)
Plant(ns, item, parent, depth, col) ==
    LET id == FreshId(ns)
        node == [NewNode(item.name, item.folder, item.request, parent, depth, col) EXCEPT
                    !.expanded = depth = 0, !.skipped = item.skipped, !.extras = item.extras]
        grow(acc, kid) == LET sub == Plant(acc.nodes, kid, id, depth + 1, col)
                          IN  [nodes |-> sub.nodes, kids |-> Append(acc.kids, sub.root)]
        grown == FoldLeft(grow, [nodes |-> (id :> node) @@ ns, kids |-> <<>>], item.kids)
    IN  [root |-> id, nodes |-> [grown.nodes EXCEPT ![id].kids = grown.kids]]

\* w: the nodes and the collections so far.
AppendPlanted(w, id, read, planted) ==
    [nodes |-> planted.nodes,
     cols |-> Append(w.cols, [NewCol(id, read.name, planted.root) EXCEPT
                                 !.infoExtras = read.infoExtras, !.topExtras = read.topExtras])]

AppendRead(w, id, read) == AppendPlanted(w, id, read, Plant(w.nodes, read.root, NoNode, 0, id))
AppendCollection(w, id, file) == AppendRead(w, id, CF!ParseCollection(file))

InsertSeparator(w, id, at) ==
    LET root == FreshId(w.nodes)
        node == [NewNode("", FALSE, CF!NoRequest, NoNode, 0, id) EXCEPT !.sep = TRUE]
    IN  [nodes |-> (root :> node) @@ w.nodes,
         cols |-> InsertAt(w.cols, at, [NewCol(id, "", root) EXCEPT !.sep = TRUE])]


ColIndex(cs, id) == SelectInSeq(cs, LAMBDA c : c.id = id)

-----------------------------------------------------------------------------
(* The tabs.                                                               *)

ReqOf(ns, tab) == IF tab.linked = NoNode THEN CF!NoRequest ELSE ns[tab.linked].request

\* The tabs that wait for a collection are linked to the request at their path.
RelinkTabs(ts, cs, ns) ==
    LET target(tab) ==
            LET i == ColIndex(cs, tab.collection_id)
            IN  IF i = 0 THEN NoNode ELSE NodeAtPath(ns, cs[i].root, tab.node_path)
        relinked(tab) ==
            IF tab.linked # NoNode \/ tab.collection_id = "" \/ target(tab) = NoNode
               \/ ns[target(tab)].request = CF!NoRequest
            THEN tab
            ELSE [tab EXCEPT !.linked = target(tab), !.collection_id = "", !.node_path = <<>>]
    IN  [i \in DOMAIN ts |-> relinked(ts[i])]

\* t: the tabs and the index of the active one; i is from 0.
CloseTabAt(t, i) ==
    LET left == RemoveAt(t.tabs, i + 1)
        moved == CASE t.active >= i /\ t.active > 0 -> t.active - 1
                   [] t.active >= Len(left) -> Len(left) - 1
                   [] OTHER -> t.active
    IN  [tabs |-> left, active |-> IF left = <<>> THEN -1 ELSE IF moved < 0 THEN 0 ELSE moved]

Tabs == [tabs |-> tabs, active |-> active]

\* From the last to the first.
CloseEach(t, S) == FoldLeft(CloseTabAt, t, SetToSortSeq(S, >))

\* A tab that stays open stays the active one.
CloseTabsNow(t, S) ==
    LET closed == CloseEach(t, S)
        before == Cardinality({i \in S : i < t.active})
    IN  IF t.active \in (0..(Len(t.tabs) - 1)) \ S THEN [closed EXCEPT !.active = t.active - before]
        ELSE closed

SyncLayoutPrefs(ts, a, prefs) ==
    LET next == MergeLayoutPrefs(ts[a + 1], prefs)
    IN  IF a \notin 0..(Len(ts) - 1) THEN [tabs |-> ts, prefs |-> prefs]
        ELSE IF next = prefs THEN [tabs |-> ts, prefs |-> prefs]
        ELSE [tabs |-> [i \in DOMAIN ts |-> IF i = a + 1 THEN ts[i] ELSE ApplyLayoutPrefs(ts[i], next)],
              prefs |-> next]

\* A tab is opened with the layout of the others and is the active one.
AppendTab(tab) ==
    LET synced == SyncLayoutPrefs(tabs, active, layoutPrefs)
    IN  /\ tabs' = Append(synced.tabs, ApplyLayoutPrefs(tab, synced.prefs))
        /\ layoutPrefs' = synced.prefs
        /\ active' = Len(tabs)

OpenRequestInTab(ns, n) ==
    LET at == SelectInSeq(tabs, LAMBDA t : t.linked = n)
    IN  /\ popup' = ClosedPopup
        /\ IF at # 0
           THEN active' = at - 1 /\ UNCHANGED <<tabs, layoutPrefs, saveNeeded>>
           ELSE AppendTab(OpenedTab(ns[n].name, n, ns[n].request)) /\ SaveState

\* Mutant: only the tab of the removed node itself is closed, not those of its folder.
CloseTabsOf_First(removed) ==
    LET S == {i \in 0..(Len(tabs) - 1) : removed = {tabs[i + 1].linked}}
        closed == CloseEach(Tabs, S)
    IN  /\ tabs' = closed.tabs /\ active' = closed.active
        /\ popup' = ClosedPopup

\* The tabs of what is removed are closed without a question.
CloseTabsOf(removed) ==
    LET S == {i \in 0..(Len(tabs) - 1) : tabs[i + 1].linked \in removed}
        closed == CloseEach(Tabs, S)
    IN  /\ tabs' = closed.tabs /\ active' = closed.active
        /\ popup' = IF S = {} THEN popup ELSE ClosedPopup

-----------------------------------------------------------------------------
(* Renaming.                                                               *)

Typed == IF renaming = NoNode THEN {""} ELSE RenameTexts

\* A blank name ends the rename and changes nothing.
CommitRename(text) ==
    LET n == renaming
        name == CF!TrimSpace(text)
        node == nodes[n]
        named == [node EXCEPT !.name = name,
                              !.request = IF @ = CF!NoRequest THEN @ ELSE [@ EXCEPT !.name = name]]
    IN  IF n = NoNode \/ name = "" THEN [nodes |-> nodes, cols |-> cols, dirty |-> dirtyCols]
        ELSE [nodes |-> [nodes EXCEPT ![n] = named],
              cols |-> IF node.parent # NoNode THEN cols
                       ELSE [cols EXCEPT ![ColIndex(cols, node.col)].name = name],
              dirty |-> dirtyCols \cup {node.col}]

\* The row of another node ends the rename; the row being renamed keeps it.
CommitOther(n, text) ==
    IF renaming = n THEN [nodes |-> nodes, cols |-> cols, dirty |-> dirtyCols]
    ELSE CommitRename(text)

Shown(n) == n \in ToSet(visible)

\* w: the nodes, collections and marks of the step.
TreeStep(w) ==
    /\ nodes' = w.nodes /\ cols' = w.cols /\ dirtyCols' = w.dirty
    /\ visible' = VisibleCols(w.cols, w.nodes)
    /\ UNCHANGED loadedCols

Mark(w, id) == [w EXCEPT !.dirty = @ \cup {id}]
SidebarReady == On /\ confirm = <<>> /\ tabs # <<>>
TabBarReady == SidebarReady /\ RequestsShown   \* and the bar with the tabs is laid out

\* Enter, Ctrl+S or the focus lost; Escape.
EndRename(text) ==
    /\ SidebarReady /\ renaming # NoNode /\ Shown(renaming)
    /\ TreeStep(CommitRename(text))
    /\ renaming' = NoNode
    /\ UNCHANGED <<tabVars, deletedCols, colFiles, section, saveNeeded, popup>>

CancelRename ==
    /\ SidebarReady /\ renaming # NoNode /\ Shown(renaming)
    /\ renaming' = NoNode
    /\ UNCHANGED <<nodes, cols, visible, loadedCols, tabVars, fileVars, section, saveNeeded,
                   popup>>

-----------------------------------------------------------------------------
(* A click on a row.                                                       *)

ClickFolder(n, text) ==
    LET w == CommitRename(text)
    IN  /\ SidebarReady /\ section \in {"requests", "flows"} /\ Shown(n) /\ renaming # n
        /\ nodes[n].folder
        /\ TreeStep([w EXCEPT !.nodes[n].expanded = ~@])
        /\ renaming' = NoNode
        /\ UNCHANGED <<tabVars, deletedCols, colFiles, section, saveNeeded, popup>>

ClickRequest(n, text) ==
    LET w == CommitRename(text)
    IN  /\ SidebarReady /\ section = "requests" /\ Shown(n) /\ renaming # n
        /\ nodes[n].request # CF!NoRequest
        /\ TreeStep(w)
        /\ renaming' = NoNode
        /\ OpenRequestInTab(w.nodes, n)
        /\ UNCHANGED <<confirm, deletedCols, colFiles, section>>

\* In the flows section a double click goes to the requests.
DoubleClickInFlows(n, text) ==
    LET w == CommitRename(text)
    IN  /\ SidebarReady /\ section = "flows" /\ Shown(n) /\ renaming # n /\ ~nodes[n].sep
        /\ TreeStep(IF nodes[n].folder THEN [w EXCEPT !.nodes[n].expanded = TRUE] ELSE w)
        /\ renaming' = NoNode
        /\ section' = "requests"
        /\ IF nodes[n].request # CF!NoRequest THEN OpenRequestInTab(w.nodes, n)
           ELSE UNCHANGED <<tabs, active, layoutPrefs, popup, saveNeeded>>
        /\ UNCHANGED <<confirm, deletedCols, colFiles>>

\* A double click on the text, or "Rename" of the menu.
StartRename(n, text) ==
    /\ SidebarReady /\ section = "requests" /\ Shown(n) /\ ~nodes[n].sep
    /\ TreeStep(CommitRename(text))
    /\ renaming' = n
    /\ UNCHANGED <<tabVars, deletedCols, colFiles, section, saveNeeded, popup>>

\* The folders that stay in sight above the rows are collapsed there.
CollapseSticky(n) ==
    /\ SidebarReady /\ Shown(n) /\ nodes[n].expanded /\ nodes[n].kids # <<>>
    /\ TreeStep([nodes |-> [nodes EXCEPT ![n].expanded = FALSE], cols |-> cols, dirty |-> dirtyCols])
    /\ UNCHANGED <<renaming, tabVars, deletedCols, colFiles, section, saveNeeded, popup>>

-----------------------------------------------------------------------------
(* The menu of a row.                                                      *)

AddTo(w, n, name, folder, request) ==
    LET id == FreshId(w.nodes)
        new == NewNode(name, folder, request, n, w.nodes[n].depth + 1, w.nodes[n].col)
    IN  [w EXCEPT !.nodes = (id :> new) @@
                            [@ EXCEPT ![n].kids = Append(@, id), ![n].expanded = TRUE]]

MenuOf(n) == SidebarReady /\ Shown(n)

Added(n, text, name, folder, request) ==
    LET w == CommitRename(text)
    IN  /\ MenuOf(n) /\ ~nodes[n].sep /\ (nodes[n].folder \/ nodes[n].depth = 0)
        /\ TreeStep(Mark(AddTo(w, n, name, folder, request), nodes[n].col))
        /\ renaming' = FreshId(nodes)
        /\ UNCHANGED <<tabVars, deletedCols, colFiles, section, saveNeeded, popup>>

AddRequest(n, text) == Added(n, text, "New Request", FALSE, CF!EmptyRequest(""))
AddFolder(n, text) == Added(n, text, "New Folder", TRUE, CF!NoRequest)

\* The copy of a node follows it; its name is edited at once.
DuplicateNode(n, text) ==
    LET w == CommitRename(text)
        parent == nodes[n].parent
        dup == CloneNode(w.nodes, n, parent)
        at == SiblingIndex(w.nodes, n) + 1
        nodes1 == [RecalcDepth(dup.nodes, dup.root, nodes[n].depth) EXCEPT
                      ![parent].kids = InsertAt(@, at, dup.root)]
    IN  /\ MenuOf(n) /\ parent # NoNode
        /\ TreeStep(Mark([w EXCEPT !.nodes = nodes1], nodes[n].col))
        /\ renaming' = dup.root
        /\ UNCHANGED <<tabVars, deletedCols, colFiles, section, saveNeeded, popup>>

DuplicateCollection(n, text) ==
    LET w == CommitRename(text)
        at == ColIndex(cols, nodes[n].col)
        id == NewId(ColIds)
        dup == CloneNode(w.nodes, n, NoNode)
        new == [NewCol(id, w.nodes[n].name \o " Copy", dup.root) EXCEPT
                   !.infoExtras = CF!Without(cols[at].infoExtras, {"_postman_id"}),
                   !.topExtras = cols[at].topExtras]
        nodes1 == RecalcDepth(AssignParents(dup.nodes, dup.root, NoNode, id), dup.root, 0)
    IN  /\ MenuOf(n) /\ nodes[n].parent = NoNode /\ ~nodes[n].sep /\ IdsLeft(ColIds)
        /\ TreeStep(Mark([w EXCEPT !.nodes = nodes1, !.cols = InsertAt(@, at + 1, new)], id))
        /\ renaming' = dup.root
        /\ SaveState
        /\ UNCHANGED <<tabVars, deletedCols, colFiles, section, popup>>

\* after: the collection it follows, or the end of the list.
AddSeparator(after, text) ==
    LET w == CommitRename(text)
        at == IF after = NoNode THEN Len(cols) + 1 ELSE ColIndex(cols, nodes[after].col) + 1
    IN  /\ SidebarReady /\ IdsLeft(SepIds)
        /\ after # NoNode => Shown(after) /\ nodes[after].depth = 0 /\ ~nodes[after].sep
        /\ IF after = NoNode
           THEN /\ TreeStep(InsertSeparator([nodes |-> nodes, cols |-> cols], NewId(SepIds), at) @@
                            [dirty |-> dirtyCols])
                /\ UNCHANGED renaming
           ELSE /\ TreeStep(InsertSeparator(w, NewId(SepIds), at) @@ [dirty |-> w.dirty])
                /\ renaming' = NoNode
        /\ SaveState
        /\ UNCHANGED <<tabVars, deletedCols, colFiles, section, popup>>

\* A rename below the node goes with it.
DeleteNode(n, text) ==
    LET w == CommitOther(n, text)
        parent == nodes[n].parent
        removed == CollectSubtree(w.nodes, n)
        detached == [w.nodes EXCEPT ![parent].kids = RemoveAt(@, SiblingIndex(w.nodes, n))]
    IN  /\ MenuOf(n) /\ parent # NoNode
        /\ TreeStep(Mark([w EXCEPT !.nodes = CF!Without(detached, removed)], nodes[n].col))
        /\ CloseTabsOf(removed)
        /\ renaming' = NoNode
        /\ saveNeeded' = (saveNeeded \/ Len(tabs') < Len(tabs))
        /\ UNCHANGED <<layoutPrefs, confirm, deletedCols, colFiles, section>>

DeleteCollection(n, text) ==
    LET w == CommitOther(n, text)
        id == nodes[n].col
        removed == CollectSubtree(w.nodes, n)
    IN  /\ MenuOf(n) /\ nodes[n].parent = NoNode
        /\ TreeStep([nodes |-> CF!Without(w.nodes, removed),
                     cols |-> RemoveAt(w.cols, ColIndex(cols, id)),
                     dirty |-> w.dirty \ {id}])
        /\ deletedCols' = deletedCols \cup {id}
        /\ colFiles' = CF!Without(colFiles, {id})
        /\ CloseTabsOf(removed)
        /\ renaming' = NoNode
        /\ SaveState
        /\ UNCHANGED <<layoutPrefs, confirm, section>>

-----------------------------------------------------------------------------
(* The header of the collections.                                          *)

AddCollection ==
    LET root == FreshId(nodes)
        id == NewId(ColIds)
        node == [NewNode("New Collection", TRUE, CF!NoRequest, NoNode, 0, id) EXCEPT !.expanded = TRUE]
    IN  /\ SidebarReady /\ IdsLeft(ColIds)
        /\ TreeStep([nodes |-> (root :> node) @@ nodes,
                     cols |-> Append(cols, NewCol(id, "New Collection", root)),
                     dirty |-> dirtyCols \cup {id}])
        /\ UNCHANGED <<renaming, tabVars, deletedCols, colFiles, section, saveNeeded, popup>>

SetAllExpanded(expanded) ==
    /\ SidebarReady
    /\ TreeStep([nodes |-> [n \in DOMAIN nodes |-> IF nodes[n].folder
                                                   THEN [nodes[n] EXCEPT !.expanded = expanded]
                                                   ELSE nodes[n]],
                 cols |-> cols, dirty |-> dirtyCols])
    /\ SaveState
    /\ UNCHANGED <<renaming, tabVars, deletedCols, colFiles, section, popup>>

\* A goroutine writes the file as it is and hands the collection over; the frame takes it.
ImportCollection(file) ==
    LET id == NewId(ColIds)
    IN  /\ On /\ IdsLeft(ColIds) /\ CF!IsCollection(file)
        /\ colFiles' = (id :> file) @@ colFiles
        /\ loadedCols' = Append(loadedCols, id)
        /\ UNCHANGED <<nodes, cols, visible, renaming, tabVars, dirtyCols, deletedCols, section,
                       saveNeeded, popup>>

TakeLoaded ==
    /\ On /\ loadedCols # <<>>
    /\ loadedCols' = Tail(loadedCols)
    /\ \E w \in {AppendCollection([nodes |-> nodes, cols |-> cols], Head(loadedCols),
                                 colFiles[Head(loadedCols)])} :
        /\ nodes' = w.nodes /\ cols' = w.cols
        /\ tabs' = RelinkTabs(tabs, w.cols, w.nodes)
        /\ visible' = VisibleCols(w.cols, w.nodes)
    /\ SaveState
    /\ UNCHANGED <<renaming, active, layoutPrefs, confirm, fileVars, section, popup>>

-----------------------------------------------------------------------------
(* Dragging a row: the pointer may be nearest to any of the slots.         *)

\* Before a row, into a folder, or behind the last row of its ancestors.
DropSlots(n) ==
    LET start == IndexOf(visible, n)
        below == {i \in DOMAIN visible : i > start /\ \A j \in (start + 1)..i :
                     nodes[visible[j]].depth > nodes[n].depth}
        rows == DOMAIN visible \ (below \cup {start})
        next(i) == IF i < Len(visible) THEN nodes[visible[i + 1]].depth ELSE 0
        inner == {i \in rows : nodes[visible[i]].parent # NoNode}
        before == {[parent |-> nodes[visible[i]].parent, at |-> SiblingIndex(nodes, visible[i]),
                    into |-> FALSE] : i \in inner}
        into == {[parent |-> visible[i], at |-> 1, into |-> TRUE] :
                    i \in {i \in rows : nodes[visible[i]].folder
                                        /\ ~IsAncestorOrSelf(nodes, n, visible[i])}}
        last(i) == {m \in Ancestors(nodes, visible[i]) :
                      nodes[m].parent # NoNode /\ nodes[m].depth > next(i)}
        after == UNION {{[parent |-> nodes[m].parent, at |-> SiblingIndex(nodes, m) + 1,
                          into |-> FALSE] : m \in last(i)} : i \in inner}
    IN  before \cup into \cup after

\* Mutant: what is moved to another collection still says it is of the old one.
MoveChild_KeepsOwner(n, slot) ==
    LET old == nodes[n].parent
        out == [nodes EXCEPT ![old].kids = RemoveAt(@, SiblingIndex(nodes, n))]
        at == IF old = slot.parent /\ slot.at > SiblingIndex(nodes, n) THEN slot.at - 1 ELSE slot.at
        in == [out EXCEPT ![slot.parent].kids = InsertAt(@, at, n), ![n].parent = slot.parent]
    IN  RecalcDepth(in, n, nodes[slot.parent].depth + 1)

\* The node leaves its parent first; its place among its own siblings shifts with it.
MoveChild(n, slot) ==
    LET old == nodes[n].parent
        from == SiblingIndex(nodes, n)
        new == slot.parent
        at == IF old = new /\ slot.at > from THEN slot.at - 1 ELSE slot.at
        out == [nodes EXCEPT ![old].kids = RemoveAt(@, from)]
        in == [out EXCEPT ![new].kids = InsertAt(@, at, n), ![n].parent = new]
        deep == RecalcDepth(in, n, nodes[new].depth + 1)
        own == IF nodes[n].col = nodes[new].col THEN deep
               ELSE AssignParents(deep, n, new, nodes[new].col)
    IN  IF old = new THEN in
        ELSE IF slot.into THEN [own EXCEPT ![new].expanded = TRUE] ELSE own

Stays(n, slot) ==
    \/ IsAncestorOrSelf(nodes, n, slot.parent)
    \/ nodes[n].parent = slot.parent /\ slot.at \in {SiblingIndex(nodes, n), SiblingIndex(nodes, n) + 1}

\* Mutant: only the collection that gets the node is marked.
DragNode_MarksOne(n) ==
    /\ SidebarReady /\ section = "requests" /\ Shown(n) /\ nodes[n].parent # NoNode
    /\ \E slot \in DropSlots(n) :
          /\ ~Stays(n, slot)
          /\ TreeStep([nodes |-> MoveChild(n, slot), cols |-> cols,
                       dirty |-> dirtyCols \cup {nodes[slot.parent].col}])
    /\ SaveState
    /\ UNCHANGED <<renaming, tabVars, deletedCols, colFiles, section, popup>>

DragNode(n) ==
    /\ SidebarReady /\ section = "requests" /\ Shown(n) /\ nodes[n].parent # NoNode
    /\ \E slot \in DropSlots(n) :
          /\ ~Stays(n, slot)
          /\ TreeStep([nodes |-> MoveChild(n, slot), cols |-> cols,
                       dirty |-> dirtyCols \cup {nodes[n].col, nodes[slot.parent].col}])
    /\ SaveState
    /\ UNCHANGED <<renaming, tabVars, deletedCols, colFiles, section, popup>>

DragCollection(n) ==
    LET from == ColIndex(cols, nodes[n].col)
    IN  /\ SidebarReady /\ section = "requests" /\ Shown(n) /\ nodes[n].parent = NoNode
        /\ \E at \in DOMAIN cols \ {from} :
              TreeStep([nodes |-> nodes, cols |-> InsertAt(RemoveAt(cols, from), at, cols[from]),
                        dirty |-> dirtyCols])
        /\ SaveState
        /\ UNCHANGED <<renaming, tabVars, deletedCols, colFiles, section, popup>>

-----------------------------------------------------------------------------
(* The tabs.                                                               *)

\* A click on a tab opens the folders above its request.
SelectTab(i) ==
    LET tab == tabs[i + 1]
        open == IF tab.linked = NoNode THEN {} ELSE Ancestors(nodes, nodes[tab.linked].parent)
        shown == [n \in DOMAIN nodes |-> IF n \in open THEN [nodes[n] EXCEPT !.expanded = TRUE]
                                         ELSE nodes[n]]
    IN  /\ TabBarReady /\ i \in 0..(Len(tabs) - 1)
        /\ active' = i
        /\ nodes' = shown
        /\ visible' = IF shown = nodes THEN visible ELSE VisibleCols(cols, shown)
        /\ UNCHANGED <<cols, renaming, loadedCols, tabs, layoutPrefs, confirm, fileVars, section,
                       saveNeeded, popup>>

DragTab(i, j) ==
    LET moved == InsertAt(RemoveAt(tabs, i + 1), j + 1, tabs[i + 1])
        at(k) == CASE k = i -> j
                   [] k > i /\ k <= j -> k - 1
                   [] k < i /\ k >= j -> k + 1
                   [] OTHER -> k
    IN  /\ TabBarReady /\ {i, j} \subseteq 0..(Len(tabs) - 1) /\ i # j
        /\ tabs' = moved /\ active' = at(active)
        /\ SaveState
        /\ UNCHANGED <<treeVars, layoutPrefs, confirm, fileVars, section, popup>>

AddTab ==
    /\ TabBarReady
    /\ AppendTab(NewRequestTab("New request"))
    /\ UNCHANGED <<treeVars, confirm, fileVars, section, saveNeeded, popup>>

\* There is always a tab: the next frame makes one.
NewTabForNone ==
    /\ On /\ tabs = <<>>
    /\ tabs' = <<NewRequestTab("New request")>> /\ active' = 0
    /\ UNCHANGED <<treeVars, layoutPrefs, confirm, fileVars, section, saveNeeded, popup>>

ClosedNow(t, S) ==
    LET closed == CloseTabsNow(t, S)
    IN  /\ tabs' = closed.tabs /\ active' = closed.active
        /\ popup' = ClosedPopup
        /\ SaveState

UnsavedTabs(S) == {i \in S : tabs[i + 1].isDirty /\ tabs[i + 1].linked # NoNode}

\* Tabs with a dot are asked about, all the others to be closed with them.
CloseTabs(S, a) ==
    /\ SidebarReady /\ S # {} /\ S \subseteq 0..(Len(tabs) - 1)
    /\ IF UnsavedTabs(S) = {}
       THEN ClosedNow([tabs |-> tabs, active |-> a], S) /\ UNCHANGED confirm
       ELSE /\ confirm' = [tabs |-> S, dirty |-> UnsavedTabs(S)]
            /\ active' = a /\ UNCHANGED <<tabs, popup, saveNeeded>>
    /\ UNCHANGED <<treeVars, layoutPrefs, fileVars, section>>

\* Ctrl+W closes the active one in every section.
CloseTab(i) == (i = active \/ TabBarReady) /\ CloseTabs({i}, active)
CloseOthers(i) ==
    TabBarReady /\ i \in 0..(Len(tabs) - 1) /\ CloseTabs((0..(Len(tabs) - 1)) \ {i}, i)
CloseAll == TabBarReady /\ CloseTabs(0..(Len(tabs) - 1), active)

\* Several nodes may get what their tabs hold.
Saved(S) ==
    LET of(n) == CHOOSE i \in S : tabs[i + 1].linked = n
        S1 == {i \in S : ReqOf(nodes, tabs[i + 1]) # CF!NoRequest}
        N == {tabs[i + 1].linked : i \in S1}
    IN  [nodes |-> [n \in DOMAIN nodes |->
                       IF n \in N THEN [nodes[n] EXCEPT !.request = SaveToCollection(tabs[of(n) + 1], @)]
                       ELSE nodes[n]],
         tabs |-> [i \in DOMAIN tabs |-> IF (i - 1) \in S1 THEN [tabs[i] EXCEPT !.isDirty = FALSE]
                                         ELSE tabs[i]],
         dirty |-> dirtyCols \cup {nodes[n].col : n \in N}]

ResolveClose(save) ==
    LET s == IF save THEN Saved(confirm.dirty) ELSE [nodes |-> nodes, tabs |-> tabs, dirty |-> dirtyCols]
    IN  /\ On /\ confirm # <<>>
        /\ nodes' = s.nodes /\ dirtyCols' = s.dirty
        /\ ClosedNow([tabs |-> s.tabs, active |-> active], confirm.tabs)
        /\ confirm' = <<>>
        /\ UNCHANGED <<cols, visible, renaming, loadedCols, layoutPrefs, deletedCols, colFiles,
                       section>>

CancelClose ==
    /\ On /\ confirm # <<>> /\ confirm' = <<>>
    /\ UNCHANGED <<treeVars, tabs, active, layoutPrefs, fileVars, section, saveNeeded, popup>>

TabShown == RequestsShown /\ active \in 0..(Len(tabs) - 1)

\* The active tab is laid out: a check of its dot that is due is made.
Checked(ts, a, ns) ==
    LET tab == ts[a + 1]
    IN  IF tab.due /\ tab.linked # NoNode
        THEN [ts EXCEPT ![a + 1].due = FALSE, ![a + 1].isDirty = CheckDirty(tab, ReqOf(ns, tab))]
        ELSE ts

CheckTab ==
    /\ TabShown /\ Checked(tabs, active, nodes) # tabs
    /\ tabs' = Checked(tabs, active, nodes)
    /\ UNCHANGED <<treeVars, active, layoutPrefs, confirm, fileVars, section, saveNeeded,
                   popup>>

EditTab(edit) ==
    LET typed == [edit @@ tabs[active + 1] EXCEPT !.due = TRUE]
    IN  /\ TabShown /\ confirm = <<>>
        /\ tabs' = [tabs EXCEPT ![active + 1] =
                       IF DOMAIN edit \cap {"body", "body_type"} # {} THEN UpdateSystemHeaders(typed)
                       ELSE typed]
        /\ UNCHANGED <<treeVars, active, layoutPrefs, confirm, fileVars, section, saveNeeded,
                       popup>>

ResizePanes(edit) ==
    LET synced == SyncLayoutPrefs([tabs EXCEPT ![active + 1] = edit @@ @], active, layoutPrefs)
    IN  /\ TabShown /\ confirm = <<>>
        /\ tabs' = synced.tabs /\ layoutPrefs' = synced.prefs
        /\ SaveState
        /\ UNCHANGED <<treeVars, active, confirm, fileVars, section, popup>>

\* Ctrl+S or the button of the tab.
SaveTab ==
    LET s == Saved({active})
    IN  /\ TabShown /\ ReqOf(nodes, tabs[active + 1]) # CF!NoRequest
        /\ nodes' = s.nodes /\ tabs' = s.tabs /\ dirtyCols' = s.dirty
        /\ UNCHANGED <<cols, visible, renaming, loadedCols, active, layoutPrefs, confirm,
                       deletedCols, colFiles, section, saveNeeded, popup>>

SwitchSection(s) ==
    /\ On /\ confirm = <<>> /\ section # s /\ section' = s
    /\ SaveState
    /\ UNCHANGED <<colVars, popup>>

-----------------------------------------------------------------------------
\* What a user does: a press on a row; on a menu, which may lie beside the sidebar; and
\* what takes no press on the sidebar.
RowOperation ==
    \/ \E text \in Typed, n \in DOMAIN nodes :
          ClickFolder(n, text) \/ ClickRequest(n, text) \/ DoubleClickInFlows(n, text)
    \/ \E n \in DOMAIN nodes : CollapseSticky(n) \/ DragNode(n) \/ DragCollection(n)
    \/ AddCollection

MenuOperation ==
    \/ \E text \in Typed, n \in DOMAIN nodes :
          \/ StartRename(n, text) \/ AddRequest(n, text) \/ AddFolder(n, text)
          \/ DuplicateNode(n, text) \/ DuplicateCollection(n, text) \/ AddSeparator(n, text)
          \/ DeleteNode(n, text) \/ DeleteCollection(n, text)
    \/ AddSeparator(NoNode, "")
    \/ \E expanded \in BOOLEAN : SetAllExpanded(expanded)
    \/ \E s \in {"requests", "flows"} : SwitchSection(s)

KeyOperation ==
    \/ \E text \in Typed : EndRename(text)
    \/ CancelRename
    \/ \E file \in Imports : ImportCollection(file)

TabOperation ==
    \/ \E i \in 0..(Len(tabs) - 1) : SelectTab(i) \/ CloseTab(i) \/ CloseOthers(i)
    \/ \E i, j \in 0..(Len(tabs) - 1) : DragTab(i, j)
    \/ CloseAll \/ AddTab
    \/ \E edit \in Edits : EditTab(edit)
    \/ \E edit \in LayoutEdits : ResizePanes(edit)
    \/ \E save \in BOOLEAN : ResolveClose(save)
    \/ CancelClose

\* Ctrl+W and Ctrl+S.
KeyOnTabs == CloseTab(active) \/ SaveTab

\* What the frames do by themselves.
CollectionsFrame == TakeLoaded \/ NewTabForNone \/ CheckTab
=============================================================================
