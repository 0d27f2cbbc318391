-------------------------------- MODULE Sidebar --------------------------------
(***************************************************************************)
(* The sidebar and the tabs with what they keep on disk: collections and   *)
(* environments composed, the state file that names them, and the program  *)
(* being closed, killed and started again (loadState, buildStateSnapshot   *)
(* and Run of internal/ui/app.go).                                         *)
(*                                                                         *)
(* A file is written as a whole (AppSave has the goroutines that write,    *)
(* FlowStore and Settings the other files).  A user who closes the program *)
(* leaves the memory as it was for the next start to be compared with.     *)
(***************************************************************************)
EXTENDS Collections, Environments

CONSTANTS RestoreTabs,   \* of the settings
          Sessions,      \* what a user does in a run: how often which kind of operation
          Starts,        \* how often the program is started again
          ColFiles0, EnvFiles0, State0   \* the disk before the first start

VARIABLES stateFile,
          left,   \* what the user may still do, now and after the next start
          again   \* how often the program may still be started

vars == <<phase, section, saveNeeded, popup, used, colVars, envVars, stateFile, left, again>>

-----------------------------------------------------------------------------
(* The state file.                                                         *)

\* An id that is listed twice counts once; one without a file is dropped.
InOrder(order, seps, loaded) ==
    LET held == SelectSeq(order, LAMBDA id : id \in seps \cup ToSet(loaded))
        first == [i \in {i \in DOMAIN held : \A j \in 1..(i - 1) : held[j] # held[i]} |-> held[i]]
        listed == [k \in 1..Cardinality(DOMAIN first) |-> first[SetToSortSeq(DOMAIN first, <)[k]]]
    IN  listed \o SelectSeq(loaded, LAMBDA id : id \notin ToSet(listed))

LinkedCol(tab) == IF tab.linked = NoNode THEN "" ELSE nodes[tab.linked].col
LinkedPath(tab) == IF tab.linked = NoNode THEN <<>> ELSE NodePathFrom(nodes, tab.linked)

\* Mutant: an open folder in a closed one is not remembered.
Opened_Shown(ns, root) ==
    SelectSeq(Preorder(ns, root),
              LAMBDA n : \A m \in Ancestors(ns, n) :
                            (ns[m].folder \/ ns[m].depth = 0) /\ ns[m].expanded)

Opened(ns, root) ==
    SelectSeq(Preorder(ns, root), LAMBDA n : (ns[n].folder \/ ns[n].depth = 0) /\ ns[n].expanded)

\* With data: the environments as the exit leaves them.
BuildStateSnapshot ==
    LET trees == {i \in DOMAIN cols : ~cols[i].sep}
        paths(i) == LET open == Opened(nodes, cols[i].root)
                    IN  [k \in DOMAIN open |-> NodePathFrom(nodes, open[k])]
        tabState(tab) == StateFromTab(tab, LinkedCol(tab), LinkedPath(tab))
    IN  [SF!NoState EXCEPT
            !.tabs = [i \in DOMAIN tabs |-> tabState(tabs[i])],
            !.active_idx = active, !.active_env_id = activeEnvID, !.sidebar_section = section,
            !.env_ids_order = envs,
            !.collection_ids_order = [i \in DOMAIN cols |-> cols[i].id],
            !.collection_expanded =
                [id \in {cols[i].id : i \in trees} |-> paths(ColIndex(cols, id))]]

FlushSaveState ==
    /\ On /\ saveNeeded
    /\ saveNeeded' = FALSE
    /\ stateFile' = SF!EncodeState(BuildStateSnapshot)
    /\ UNCHANGED <<phase, section, popup, colVars, envVars, left, again>>

Flushed(S) == [id \in S |-> CF!CollectionObject(nodes, cols[ColIndex(cols, id)])] @@ colFiles

\* Marks get old one by one.
FlushCollectionSaves ==
    /\ On
    /\ \E id \in dirtyCols :
          /\ colFiles' = Flushed({id} \ deletedCols)
          /\ dirtyCols' = dirtyCols \ {id}
    /\ UNCHANGED <<phase, section, saveNeeded, popup, treeVars, tabVars, deletedCols, envVars,
                   stateFile, left, again>>

-----------------------------------------------------------------------------
(* The program stops and starts.                                           *)

\* What is in the editor is saved before the goroutines that still write are waited for.
Exit ==
    LET w == Commit(Now)
        late == envWrites \cup
                {[id |-> id, file |-> EnvironmentBytes(w.data[id])] : id \in {colorSaveDirty} \ {NoEnv}}
    IN  /\ On /\ phase' = "off"
        /\ \E last \in SUBSET late :
              /\ \A id \in {x.id : x \in late} : Cardinality({x \in last : x.id = id}) = 1
              /\ envFiles' = [id \in {x.id : x \in last} |->
                                 (CHOOSE x \in last : x.id = id).file] @@ w.files
        /\ envData' = w.data /\ envWrites' = {} /\ colorSaveDirty' = NoEnv
        /\ colFiles' = Flushed(dirtyCols) /\ dirtyCols' = {}
        /\ stateFile' = SF!EncodeState(BuildStateSnapshot) /\ saveNeeded' = FALSE
        /\ UNCHANGED <<section, popup, treeVars, tabVars, deletedCols, envs, editing, draft,
                       envRenaming, activeEnvID, activeEnvDirty, activeEnvVars, picker, loadedEnvs,
                       left, again>>

\* Nothing is left of the memory.
Blank ==
    /\ section = "requests" /\ saveNeeded = FALSE /\ popup = NoPopup
    /\ nodes = <<>> /\ cols = <<>> /\ visible = <<>> /\ renaming = NoNode /\ loadedCols = <<>>
    /\ tabs = <<>> /\ active = 0 /\ layoutPrefs = NoLayout /\ confirm = <<>>
    /\ dirtyCols = {} /\ deletedCols = {}
    /\ envs = <<>> /\ envData = <<>> /\ editing = NoEnv /\ draft = NoDraft /\ envRenaming = {}
    /\ activeEnvID = "" /\ activeEnvDirty = FALSE /\ activeEnvVars = <<>>
    /\ picker = NoEnv /\ colorSaveDirty = NoEnv /\ loadedEnvs = <<>> /\ envWrites = {}

\* What a start makes anew whatever is on the disk.
Anew ==
    /\ saveNeeded' = FALSE /\ popup' = NoPopup /\ renaming' = NoNode /\ loadedCols' = <<>>
    /\ layoutPrefs' = NoLayout /\ confirm' = <<>> /\ dirtyCols' = {} /\ deletedCols' = {}
    /\ editing' = NoEnv /\ draft' = NoDraft /\ envRenaming' = {}
    /\ picker' = NoEnv /\ colorSaveDirty' = NoEnv /\ loadedEnvs' = <<>> /\ envWrites' = {}

Crash ==
    /\ On /\ phase' = "dead"
    /\ Anew
    /\ section' = "requests" /\ nodes' = <<>> /\ cols' = <<>> /\ visible' = <<>>
    /\ tabs' = <<>> /\ active' = 0 /\ envs' = <<>> /\ envData' = <<>>
    /\ activeEnvID' = "" /\ activeEnvDirty' = FALSE /\ activeEnvVars' = <<>>
    /\ UNCHANGED <<colFiles, envFiles, stateFile, left, again>>

\* A folder that was open is opened again, whatever the tree became.
Unfold(ns, root, paths) ==
    LET S == CollectSubtree(ns, root)
        open == {NodeAtPath(ns, root, paths[k]) : k \in DOMAIN paths}
    IN  [n \in DOMAIN ns |->
            IF n \in open THEN [ns[n] EXCEPT !.expanded = TRUE]
            ELSE IF n \in S /\ (ns[n].folder \/ ns[n].depth = 0)
                 THEN [ns[n] EXCEPT !.expanded = FALSE] ELSE ns[n]]

AppendLoaded(w, id) ==
    IF id \in ToSet(SepIds) THEN InsertSeparator(w, id, Len(w.cols) + 1)
    ELSE AppendCollection(w, id, colFiles[id])

Unfolded(w, open) ==
    [w EXCEPT !.nodes = FoldLeft(LAMBDA ns, c : IF c.id \in DOMAIN open
                                                THEN Unfold(ns, c.root, open[c.id]) ELSE ns,
                                 @, w.cols)]

LoadCollections(state) ==
    FoldLeft(AppendLoaded, [nodes |-> <<>>, cols |-> <<>>],
             InOrder(state.collection_ids_order, ToSet(SepIds),
                     SelectSeq(ColIds, LAMBDA id : id \in DOMAIN colFiles /\
                                                   CF!IsCollection(colFiles[id]))))

LoadTabs(state) ==
    IF ~RestoreTabs \/ state.tabs = <<>> THEN <<NewRequestTab("New request")>>
    ELSE [i \in DOMAIN state.tabs |-> TabFromState(state.tabs[i])]

LoadTree(state) ==
    \E read \in {LoadCollections(state)} : \E w \in {Unfolded(read, state.collection_expanded)} :
        /\ nodes' = w.nodes /\ cols' = w.cols /\ visible' = VisibleCols(w.cols, w.nodes)
        /\ \E ts \in {RelinkTabs(LoadTabs(state), w.cols, read.nodes)} :
              /\ active' = IF state.active_idx \in 0..(Len(ts) - 1) THEN state.active_idx ELSE 0
              /\ tabs' = IF section' = "requests" THEN Checked(ts, active', w.nodes) ELSE ts

LoadEnvironments(state) ==
    /\ envs' = InOrder(state.env_ids_order, ToSet(EnvSepIds),
                       SelectSeq(EnvSepIds \o EnvIds,
                                 LAMBDA id : id \in DOMAIN envFiles /\ IsEnvironment(envFiles[id])))
    /\ envData' = [id \in ToSet(envs') |-> IF id \in ToSet(EnvSepIds) THEN NoData
                                           ELSE ParseEnvironment(envFiles[id])]
    /\ activeEnvID' = state.active_env_id
    /\ activeEnvVars' = VarsIn(envs', envData', state.active_env_id)
    /\ activeEnvDirty' = FALSE

\* The first frame takes the variables and checks the tab it shows.
LoadState(state) ==
    /\ section' = IF state.sidebar_section = "flows" THEN "flows" ELSE "requests"
    /\ LoadTree(state)
    /\ LoadEnvironments(state)

Start ==
    /\ phase \in {"off", "dead"} /\ again > 0
    /\ again' = again - 1
    /\ left' = IF again = Starts + 1 THEN left ELSE left.after
    /\ phase' = "on"
    /\ \E state \in {SF!LoadWithRaw(stateFile, Null)} : LoadState(state)
    /\ stateFile' = SF!SetAside(stateFile)
    /\ Anew
    /\ UNCHANGED <<colFiles, envFiles>>

-----------------------------------------------------------------------------
Init ==
    /\ phase = "dead" /\ Blank
    /\ colFiles = ColFiles0 /\ envFiles = EnvFiles0 /\ stateFile \in State0
    /\ used = DOMAIN ColFiles0 \cup DOMAIN EnvFiles0
    /\ left \in Sessions /\ again = Starts + 1

\* Every operation of a kind is one less of it.
Does(kind) == left[kind] > 0 /\ left' = [left EXCEPT ![kind] = @ - 1]

Pressed == picker = NoEnv

CollectionsStep ==
    \/ Does("tree") /\ Pressed /\ RowOperation /\ CloseEditor
    \/ Does("tree") /\ Pressed /\ MenuOperation /\ (CloseEditor \/ UNCHANGED envVars)
    \/ Does("tree") /\ KeyOperation /\ UNCHANGED envVars
    \/ Does("tab") /\ Pressed /\ TabOperation /\ UNCHANGED envVars
    \/ Does("tab") /\ KeyOnTabs /\ UNCHANGED envVars
    \/ CollectionsFrame /\ UNCHANGED <<envVars, left>>

EnvironmentsStep ==
    /\ \/ Does("env") /\ confirm = <<>> /\ EnvOperation
       \/ Does("edit") /\ confirm = <<>> /\ EditorOperation
       \/ Does("popup") /\ confirm = <<>> /\ PopupOperation
       \/ EnvironmentsFrame /\ UNCHANGED left
    /\ UNCHANGED <<section, colVars>>

Step == (CollectionsStep \/ EnvironmentsStep) /\ UNCHANGED <<phase, stateFile, again>>

Names(cs, es) == {cs[i].id : i \in DOMAIN cs} \cup DOMAIN es

Next ==
    /\ Step \/ FlushSaveState \/ FlushCollectionSaves \/ Exit \/ Crash \/ Start
    /\ used' = used \cup Names(cols', envData') \cup DOMAIN colFiles' \cup DOMAIN envFiles'

Spec == Init /\ [][Next]_vars

-----------------------------------------------------------------------------
(* Properties.                                                             *)

Roots == {cols[i].root : i \in DOMAIN cols}
Trees == {i \in DOMAIN cols : ~cols[i].sep}

\* Every node hangs at one place: below its parent, one deeper, in the collection it says.
TreeOK ==
    /\ ToSet(FlattenSeq([i \in DOMAIN cols |-> Preorder(nodes, cols[i].root)])) = DOMAIN nodes
    /\ \A i, j \in DOMAIN cols : i # j => cols[i].id # cols[j].id
    /\ \A n \in DOMAIN nodes :
          /\ (nodes[n].parent = NoNode) = (n \in Roots)
          /\ nodes[n].kids # <<>> => nodes[n].folder
          /\ nodes[n].parent = NoNode => nodes[n].depth = 0
          /\ \A i \in DOMAIN nodes[n].kids :
                LET kid == nodes[nodes[n].kids[i]]
                IN  kid.parent = n /\ kid.depth = nodes[n].depth + 1 /\ kid.col = nodes[n].col
    /\ \A i \in DOMAIN cols : nodes[cols[i].root].col = cols[i].id

\* The tree of the sidebar stays a tree under every drag, copy, rename and removal, and what
\* is shown of it, renamed in it or marked in it is part of it.
TypeOK ==
    /\ phase \in {"on", "off", "dead"} /\ section \in {"requests", "flows"}
    /\ TreeOK
    /\ renaming \in DOMAIN nodes \cup {NoNode}
    /\ visible = VisibleCols(cols, nodes)
    /\ dirtyCols \subseteq {cols[i].id : i \in Trees}
    /\ deletedCols \cap {cols[i].id : i \in DOMAIN cols} = {}
    /\ \A i, j \in DOMAIN envs : i # j => envs[i] # envs[j]
    /\ ToSet(envs) \subseteq DOMAIN envData
    /\ editing \in ToSet(envs) \cup {NoEnv}
    /\ picker \in ToSet(envs) \cup {NoEnv}
    /\ envRenaming \subseteq ToSet(envs)
    /\ editing = NoEnv => draft = NoDraft

\* What is sent of a request: its body by its mode, and no row without a name.
Sent(r) ==
    [method |-> r.method, url |-> r.url, headers |-> r.headers, auth |-> r.auth,
     cookies |-> CF!Keyed(r.cookies), bodyType |-> r.bodyType,
     body |-> CASE r.bodyType = "raw" -> <<r.body>>
                [] r.bodyType = "formdata" -> CF!Keyed(r.form)
                [] r.bodyType = "urlencoded" -> CF!Keyed(r.urlencoded)
                [] r.bodyType = "file" -> <<r.binary>>
                [] OTHER -> <<>>]

\* A request is open in one tab at most, in a tab that is linked to a node of the tree; a
\* tab without a dot would change nothing of what is sent by being saved, and one with a dot
\* differs from its request; and the variables of the requests are those of the environment
\* that is active (relinkTabs, checkDirty, refreshActiveEnv).  A check that is due is made
\* when the tab is next laid out.
InStep ==
    On =>
    /\ tabs # <<>> => active \in 0..(Len(tabs) - 1)
    /\ confirm # <<>> => confirm.dirty \subseteq confirm.tabs /\ confirm.tabs \subseteq 0..(Len(tabs) - 1)
    /\ \A i \in DOMAIN tabs :
          LET tab == tabs[i]
              n == tab.linked
          IN  n # NoNode =>
                 /\ n \in DOMAIN nodes /\ nodes[n].request # CF!NoRequest
                 /\ \A j \in DOMAIN tabs \ {i} : tabs[j].linked # n
                 /\ ~tab.due => tab.isDirty = CheckDirty(tab, nodes[n].request)
                 /\ ~tab.due /\ ~tab.isDirty =>
                       Sent(SaveToCollection(tab, nodes[n].request)) = Sent(nodes[n].request)
    /\ ~activeEnvDirty => activeEnvVars = VarsOf(activeEnvID)

RECURSIVE ContentOf(_, _), ItemContent(_)

RequestContent(r) == IF r = CF!NoRequest THEN r ELSE Sent(r)

ContentOf(ns, n) ==
    [name |-> ns[n].name, folder |-> ns[n].folder, request |-> RequestContent(ns[n].request),
     kids |-> [i \in DOMAIN ns[n].kids |-> ContentOf(ns, ns[n].kids[i])]]

ItemContent(item) ==
    [name |-> item.name, folder |-> item.folder, request |-> RequestContent(item.request),
     kids |-> [i \in DOMAIN item.kids |-> ItemContent(item.kids[i])]]

\* A collection that is not marked is in its file, and reading the file gives the tree that
\* is shown: nothing changes a tree without a mark, and what is written can be read
\* (markCollectionDirty, CollectionObject, ParseCollection).
SavedReadsBack ==
    On => \A i \in Trees :
             LET id == cols[i].id
             IN  id \notin dirtyCols =>
                    /\ id \in DOMAIN colFiles /\ CF!IsCollection(colFiles[id])
                    /\ \E read \in {CF!ParseCollection(colFiles[id])} :
                          /\ read.name = cols[i].name
                          /\ ItemContent(read.root) = ContentOf(nodes, cols[i].root)

\* The tabs and variables follow the tree, and so do the files.
WindowFollows == InStep /\ SavedReadsBack

ReadEnv(file) == IF IsEnvironment(file) THEN ParseEnvironment(file) ELSE NoData

EnvSaved(data, files, id) ==
    id \in DOMAIN files /\ ReadEnv(files[id]) = ReadEnv(EnvironmentBytes(data[id]))

SameButColor(d, e) == [d EXCEPT !.color = ""] = [e EXCEPT !.color = ""]

\* A step that changes an environment or its file leaves the two alike.  It may only leave a
\* color behind, which the picker saves when it closes, and a goroutine that is late may put
\* an older color into the file.
EnvFilesFollow ==
    [][On /\ phase' = "on" =>
         \A id \in ToSet(envs') \ ToSet(EnvSepIds) :
            \/ id \in DOMAIN envData /\ envData'[id] = envData[id]
               /\ id \in DOMAIN envFiles /\ id \in DOMAIN envFiles' /\ envFiles'[id] = envFiles[id]
            \/ EnvSaved(envData', envFiles', id)
            \/ id \in DOMAIN envData /\ SameButColor(envData'[id], envData[id]) /\ envFiles' = envFiles
            \/ \E w \in envWrites : w.id = id /\ envFiles'[id] = w.file]_vars

Shape(ns, root) ==
    LET order == Preorder(ns, root)
    IN  <<ContentOf(ns, root),
          [i \in DOMAIN order |-> (ns[order[i]].folder \/ ns[order[i]].depth = 0) /\ ns[order[i]].expanded]>>

\* The switch of a row, a header the program made and a token without a type are not kept.
KeptOfTab(tab) ==
    LET unswitched(s) == [i \in DOMAIN s |-> [s[i] EXCEPT !.disabled = FALSE]]
    IN  [title |-> tab.title, method |-> tab.method, url |-> tab.url, body |-> tab.body,
         bodyType |-> tab.body_type, form |-> unswitched(tab.form_parts),
         urlencoded |-> unswitched(tab.url_encoded), binary |-> tab.binary_path,
         cookies |-> Keyed(tab.cookies), auth |-> IF tab.auth.type = "" THEN SF!NoAuth ELSE tab.auth,
         headers |-> [i \in DOMAIN Keyed(UserHeaders(tab)) |->
                         [Keyed(UserHeaders(tab))[i] EXCEPT !.auto = <<>>]]]

Ids(cs) == [i \in DOMAIN cs |-> cs[i].id]

\* After the program was closed and started again the collections, their order, the folders
\* that are open, the tabs with their requests, the environments whose files agree with them
\* and the one that is active are as they were (buildStateSnapshot, flushCollectionSavesSync,
\* loadState).
SurvivesRestart ==
    [][phase = "off" /\ phase' = "on" /\ stateFile # Missing /\ stateFile # Broken /\ tabs # <<>> =>
         /\ SelectSeq(Ids(cols'), LAMBDA id : id \notin ToSet(loadedCols)) = Ids(cols)
         /\ \A i \in Trees :
               Shape(nodes', cols'[ColIndex(cols', cols[i].id)].root) = Shape(nodes, cols[i].root)
         /\ RestoreTabs =>
               /\ Len(tabs') = Len(tabs) /\ active' = active
               /\ \A i \in DOMAIN tabs :
                     /\ KeptOfTab(tabs'[i]) = KeptOfTab(tabs[i])
                     /\ (tabs'[i].linked = NoNode) = (tabs[i].linked = NoNode)
                     /\ tabs[i].linked # NoNode =>
                           /\ LinkedCol(tabs[i]) = nodes'[tabs'[i].linked].col
                           /\ LinkedPath(tabs[i]) = NodePathFrom(nodes', tabs'[i].linked)
         /\ \A id \in ToSet(envs) \ ToSet(EnvSepIds) :
               EnvSaved(envData, envFiles, id) /\ IsEnvironment(envFiles[id]) =>
                  id \in ToSet(envs') /\ envData'[id] = ReadEnv(EnvironmentBytes(envData[id]))
         /\ SelectSeq(envs, LAMBDA id : id \in ToSet(envs')) =
               SelectSeq(envs', LAMBDA id : id \in ToSet(envs))
         /\ activeEnvID' = activeEnvID /\ section' = section]_vars
=============================================================================
