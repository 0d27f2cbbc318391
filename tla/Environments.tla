------------------------------ MODULE Environments ------------------------------
(***************************************************************************)
(* The environments in the sidebar: the list, the one that is active and   *)
(* its variables, the editor of an environment, the picker of its color    *)
(* and the popup of a variable, and what each of them writes to the files  *)
(* (internal/ui/environments, internal/ui/varpopup, env_editor.go and      *)
(* app.go of internal/ui, ops.go and sidebar.go of internal/ui/sidebar).   *)
(*                                                                         *)
(* An environment is known by its name in the directory.  What the editor  *)
(* of an environment holds matters only while it is shown; opening it      *)
(* fills it anew.  The backdrop of the picker takes every press outside.   *)
(***************************************************************************)
EXTENDS SidebarState

CONSTANTS EnvIds,       \* the names environments are given, in order
          EnvSepIds,    \* and separators
          EnvNames,     \* what is typed as a name
          Colors,       \* the texts that are a color
          EnvColors,    \* what is typed or picked as a color
          EnvRows,      \* what is typed into a row
          EnvImports,   \* the files that are imported
          VarTexts,     \* what is typed into the popup
          VarNames,     \* the variables of the requests on the screen
          SelectEnvOnEdit   \* of the settings

VARIABLES envs,            \* the environments and separators in order
          envData,         \* the data of every environment there was
          draft,           \* the editor: its texts, its rows and whether it shows "Save"
          envRenaming,     \* those that are renamed in the list
          activeEnvID, activeEnvDirty, activeEnvVars,
          picker,          \* EnvColorEnvID while the picker is open, or NoEnv
          colorSaveDirty,  \* envColorSaveDirty, or NoEnv
          loadedEnvs,      \* EnvLoadedChan
          envFiles,        \* the files
          envWrites        \* the writes of goroutines that have not happened

envVars ==
    <<envs, envData, editing, draft, envRenaming, activeEnvID, activeEnvDirty, activeEnvVars,
      picker, colorSaveDirty, loadedEnvs, envFiles, envWrites>>

-----------------------------------------------------------------------------
(* The file.                                                               *)

NoData == [name |-> "", color |-> "", vars |-> <<>>]

EnvironmentBytes(data) ==
    SF!Obj([name |-> data.name,
            values |-> IF data.vars = <<>> THEN Null ELSE SF!Pairs(data.vars)] @@
           SF!Kept([highlight_color |-> data.color], {"highlight_color"}, [highlight_color |-> ""]))

DecodeEnvironment(file) ==
    LET m == SF!Members(file)
        texts == SF!Scalars(m, {"name", "highlight_color"}, [name |-> "", highlight_color |-> ""])
    IN  [name |-> texts.name, color |-> texts.highlight_color,
         vars |-> SF!PairList(m, "values", <<>>)]

\* A file without a name and without variables is no environment.
IsEnvironment(file) ==
    file # Broken /\ LET d == DecodeEnvironment(file) IN d.name # "" \/ d.vars # <<>>

ParseEnvironment(file) ==
    [DecodeEnvironment(file) EXCEPT !.name = IF @ = "" THEN "Imported Environment" ELSE @]

-----------------------------------------------------------------------------
(* The editor.                                                             *)

EditedColor(d, data) ==
    LET hex == CF!TrimSpace(d.color)
    IN  IF hex \in Colors \/ hex = "" THEN hex ELSE data.color

EditedVars(d) ==
    SelectSeq([i \in DOMAIN d.rows |-> [d.rows[i] EXCEPT !.key = CF!TrimSpace(@)]],
              LAMBDA v : v.key # "")

ComputeDirty(d, data) ==
    d.name # data.name \/ EditedColor(d, data) # data.color \/ EditedVars(d) # data.vars

\* The frame compares the texts with the data whenever a text changed, and only then.
Compared(d, data) == [d EXCEPT !.dirty = ComputeDirty(d, data)]

NoDraft == [name |-> "", color |-> "", rows |-> <<>>, dirty |-> FALSE]

InitEditor(data) ==
    Compared([name |-> data.name, color |-> data.color, rows |-> data.vars, dirty |-> FALSE], data)

Committed(d, data) == [name |-> d.name, color |-> EditedColor(d, data), vars |-> EditedVars(d)]

\* w: what a step makes of the data, the files and the editor.
Now == [data |-> envData, files |-> envFiles, draft |-> draft, stale |-> activeEnvDirty]

Write(w, id, data) ==
    [w EXCEPT !.data = (id :> data) @@ @, !.files = (id :> EnvironmentBytes(data)) @@ @]

\* What the editor holds becomes the data and the file; without an editor nothing happens.
Commit(w) ==
    IF editing = NoEnv THEN w
    ELSE LET data == Committed(draft, w.data[editing])
         IN  [Write(w, editing, data) EXCEPT !.draft = Compared(draft, data), !.stale = TRUE]

Becomes(w) ==
    /\ envData' = w.data /\ envFiles' = w.files
    /\ draft' = w.draft
    /\ activeEnvDirty' = w.stale

Free == On /\ picker = NoEnv   \* a press reaches what is under the picker
Rest == <<envRenaming, activeEnvVars, picker, colorSaveDirty, loadedEnvs, envWrites>>

\* A click on the sidebar that no handler claims closes the editor, which saves.
CloseEditor ==
    /\ Becomes([Commit(Now) EXCEPT !.draft = NoDraft])
    /\ editing' = NoEnv
    /\ UNCHANGED <<envs, activeEnvID, Rest>>

\* "Back" of the editor does the same.
Back ==
    /\ Free /\ editing # NoEnv
    /\ CloseEditor
    /\ UNCHANGED <<saveNeeded, popup>>

\* "Save" is heeded when the editor shows that it differs; Ctrl+S and Ctrl+Enter always are.
SaveEditor(key) ==
    /\ IF key THEN On ELSE Free /\ draft.dirty
    /\ editing # NoEnv
    /\ Becomes(Commit(Now))
    /\ UNCHANGED <<envs, editing, activeEnvID, Rest, saveNeeded, popup>>

Edited(d) ==
    /\ Free /\ editing # NoEnv /\ d # draft
    /\ draft' = Compared(d, envData[editing])
    /\ UNCHANGED <<envs, envData, editing, activeEnvID, activeEnvDirty, envFiles, Rest,
                   saveNeeded, popup>>

EditEnvName(text) == Edited([draft EXCEPT !.name = text])
EditEnvColor(text) == Edited([draft EXCEPT !.color = text])
EditEnvRow(i, row) == i \in DOMAIN draft.rows /\ Edited([draft EXCEPT !.rows[i] = row])
AddEnvRow == Edited([draft EXCEPT !.rows = Append(@, SF!EmptyHeader)])
DeleteEnvRow(i) == i \in DOMAIN draft.rows /\ Edited([draft EXCEPT !.rows = RemoveAt(@, i)])

\* The color goes from the editor and from the data, not from the file.
ResetColor ==
    LET data == [envData[editing] EXCEPT !.color = ""]
    IN  /\ Free /\ editing # NoEnv
        /\ envData' = [envData EXCEPT ![editing] = data]
        /\ draft' = Compared([draft EXCEPT !.color = ""], data)
        /\ UNCHANGED <<envs, editing, activeEnvID, activeEnvDirty, envFiles, Rest, saveNeeded, popup>>

-----------------------------------------------------------------------------
(* The picker of a color.                                                  *)

OpenPicker(id) ==
    /\ Free /\ id \in ToSet(envs) \ ToSet(EnvSepIds)
    /\ picker' = id
    /\ UNCHANGED <<envs, envData, editing, draft, envRenaming, activeEnvID, activeEnvDirty,
                   activeEnvVars, colorSaveDirty, loadedEnvs, envFiles, envWrites, saveNeeded, popup>>

PickColor(color) ==
    LET data == [envData[picker] EXCEPT !.color = color]
    IN  /\ On /\ picker # NoEnv /\ data # envData[picker]
        /\ envData' = [envData EXCEPT ![picker] = data]
        /\ draft' = IF editing = picker /\ draft.color # color
                    THEN Compared([draft EXCEPT !.color = color], data) ELSE draft
        /\ colorSaveDirty' = picker
        /\ UNCHANGED <<envs, editing, envRenaming, activeEnvID, activeEnvDirty, activeEnvVars,
                       picker, loadedEnvs, envFiles, envWrites, saveNeeded, popup>>

\* A goroutine is given the bytes of this moment.
SaveEnvironmentAsync ==
    IF colorSaveDirty = NoEnv THEN envWrites
    ELSE envWrites \cup {[id |-> colorSaveDirty, file |-> EnvironmentBytes(envData[colorSaveDirty])]}

ClosePicker ==
    /\ On /\ picker # NoEnv
    /\ picker' = NoEnv /\ colorSaveDirty' = NoEnv
    /\ envWrites' = SaveEnvironmentAsync
    /\ UNCHANGED <<envs, envData, editing, draft, envRenaming, activeEnvID, activeEnvDirty,
                   activeEnvVars, loadedEnvs, envFiles, saveNeeded, popup>>

WriteEnvironment(w) ==
    /\ On /\ w \in envWrites
    /\ envWrites' = envWrites \ {w}
    /\ envFiles' = (w.id :> w.file) @@ envFiles
    /\ UNCHANGED <<envs, envData, editing, draft, envRenaming, activeEnvID, activeEnvDirty,
                   activeEnvVars, picker, colorSaveDirty, loadedEnvs, saveNeeded, popup>>

-----------------------------------------------------------------------------
(* The list.                                                               *)

Listed(id) == id \in ToSet(envs)
After(id) == SelectInSeq(envs, LAMBDA e : e = id) + 1

\* What the editor held of another environment is gone.
AddNewEnvironment ==
    LET id == NewId(EnvIds)
        data == [NoData EXCEPT !.name = "New Environment"]
    IN  /\ Free /\ IdsLeft(EnvIds)
        /\ envs' = Append(envs, id)
        /\ Becomes([Write(Now, id, data) EXCEPT !.draft = InitEditor(data)])
        /\ editing' = id
        /\ SaveState
        /\ UNCHANGED <<activeEnvID, Rest, popup>>

DuplicateEnvironment(src) ==
    LET id == NewId(EnvIds)
    IN  /\ Free /\ Listed(src) /\ src \notin ToSet(EnvSepIds) /\ IdsLeft(EnvIds)
        /\ envs' = InsertAt(envs, After(src), id)
        /\ Becomes(Write(Now, id, [envData[src] EXCEPT !.name = @ \o " (copy)"]))
        /\ SaveState
        /\ UNCHANGED <<editing, activeEnvID, Rest, popup>>

AddEnvSeparator(at) ==
    LET id == NewId(EnvSepIds)
    IN  /\ Free /\ at \in 1..(Len(envs) + 1) /\ (at = 1 => envs = <<>>) /\ IdsLeft(EnvSepIds)
        /\ envs' = InsertAt(envs, at, id)
        /\ envData' = (id :> NoData) @@ envData
        /\ SaveState
        /\ UNCHANGED <<editing, draft, activeEnvID, activeEnvDirty, envFiles, Rest, popup>>

DeleteEnvironment(id) ==
    /\ Free /\ Listed(id)
    /\ envs' = SelectSeq(envs, LAMBDA e : e # id)
    /\ envFiles' = CF!Without(envFiles, {id})
    /\ activeEnvID' = IF activeEnvID = id THEN "" ELSE activeEnvID
    /\ activeEnvDirty' = (activeEnvDirty \/ activeEnvID = id)
    /\ editing' = IF editing = id THEN NoEnv ELSE editing
    /\ draft' = IF editing = id THEN NoDraft ELSE draft
    /\ envRenaming' = envRenaming \ {id}
    /\ SaveState
    /\ UNCHANGED <<envData, activeEnvVars, picker, colorSaveDirty, loadedEnvs, envWrites, popup>>

DragEnv(i, j) ==
    /\ Free /\ {i, j} \subseteq DOMAIN envs /\ i # j
    /\ Becomes([Commit(Now) EXCEPT !.draft = NoDraft])
    /\ editing' = NoEnv
    /\ envs' = InsertAt(RemoveAt(envs, i), j, envs[i])
    /\ SaveState
    /\ UNCHANGED <<activeEnvID, Rest, popup>>

\* A click on a row makes its environment the active one, or none.
ClickEnv(id) ==
    /\ Free /\ Listed(id) /\ id \notin ToSet(EnvSepIds) \cup envRenaming
    /\ activeEnvID' = IF activeEnvID = id THEN "" ELSE id
    /\ Becomes([Commit(Now) EXCEPT !.draft = NoDraft, !.stale = TRUE])
    /\ editing' = NoEnv
    /\ SaveState
    /\ UNCHANGED <<envs, Rest, popup>>

\* "Rename" of the menu leaves the editor open; a double click closed it with its first click.
StartEnvRename(id) ==
    /\ Free /\ Listed(id) /\ id \notin ToSet(EnvSepIds) \cup envRenaming
    /\ envRenaming' = envRenaming \cup {id}
    /\ UNCHANGED <<envs, envData, editing, draft, activeEnvID, activeEnvDirty, activeEnvVars,
                   picker, colorSaveDirty, loadedEnvs, envFiles, envWrites, saveNeeded, popup>>

\* Mutant: the new name is only shown.
EndEnvRename_NotWritten(id, text) ==
    /\ On /\ id \in envRenaming
    /\ envRenaming' = envRenaming \ {id}
    /\ envData' = IF text = "" THEN envData ELSE [envData EXCEPT ![id].name = text]
    /\ UNCHANGED <<envs, editing, draft, activeEnvID, activeEnvDirty, activeEnvVars, picker,
                   colorSaveDirty, loadedEnvs, envFiles, envWrites, saveNeeded, popup>>

\* Enter, or the focus lost; the editor is not told.  Escape keeps the old name.
EndEnvRename(id, text) ==
    /\ On /\ id \in envRenaming
    /\ envRenaming' = envRenaming \ {id}
    /\ Becomes(IF text = "" THEN Now ELSE Write(Now, id, [envData[id] EXCEPT !.name = text]))
    /\ UNCHANGED <<envs, editing, activeEnvID, activeEnvVars, picker, colorSaveDirty, loadedEnvs,
                   envWrites, saveNeeded, popup>>

OpenEnvEditor(id) ==
    LET w == IF editing = id THEN Now ELSE Commit(Now)
        select == SelectEnvOnEdit /\ activeEnvID # id
    IN  /\ Free /\ Listed(id) /\ id \notin ToSet(EnvSepIds)
        /\ Becomes([w EXCEPT !.draft = InitEditor(w.data[id]), !.stale = @ \/ select])
        /\ editing' = id
        /\ activeEnvID' = IF select THEN id ELSE activeEnvID
        /\ saveNeeded' = (saveNeeded \/ select)
        /\ UNCHANGED <<envs, Rest, popup>>

\* The bytes of the file are kept as they are; the frame takes what was read of them.
ImportEnvironment(file) ==
    LET id == NewId(EnvIds)
    IN  /\ On /\ IdsLeft(EnvIds) /\ IsEnvironment(file)
        /\ envFiles' = (id :> file) @@ envFiles
        /\ loadedEnvs' = Append(loadedEnvs, id)
        /\ UNCHANGED <<envs, envData, editing, draft, envRenaming, activeEnvID, activeEnvDirty,
                       activeEnvVars, picker, colorSaveDirty, envWrites, saveNeeded, popup>>

TakeLoadedEnv ==
    LET id == Head(loadedEnvs)
    IN  /\ On /\ loadedEnvs # <<>>
        /\ loadedEnvs' = Tail(loadedEnvs)
        /\ envs' = Append(envs, id)
        /\ envData' = (id :> ParseEnvironment(envFiles[id])) @@ envData
        /\ activeEnvID' = IF activeEnvID = "" THEN id ELSE activeEnvID
        /\ activeEnvDirty' = (activeEnvDirty \/ activeEnvID = "")
        /\ SaveState
        /\ UNCHANGED <<editing, draft, envRenaming, activeEnvVars, picker, colorSaveDirty,
                       envFiles, envWrites, popup>>

-----------------------------------------------------------------------------
(* The active environment and the popup of a variable.                     *)

\* A variable without a value counts as none; of two with one name the last counts.
VarsIn(list, data, id) ==
    LET vars == IF id \in ToSet(list) THEN SelectSeq(data[id].vars, LAMBDA v : v.value # "") ELSE <<>>
    IN  [k \in {vars[i].key : i \in DOMAIN vars} |->
            vars[SelectLastInSeq(vars, LAMBDA v : v.key = k)].value]

VarsOf(id) == VarsIn(envs, envData, id)

RefreshActiveEnv ==
    /\ On /\ activeEnvDirty
    /\ activeEnvDirty' = FALSE
    /\ activeEnvVars' = VarsOf(activeEnvID)
    /\ UNCHANGED <<envs, envData, editing, draft, envRenaming, activeEnvID, picker,
                   colorSaveDirty, loadedEnvs, envFiles, envWrites, saveNeeded, popup>>

VarOf(vars, name) == IF name \in DOMAIN vars THEN vars[name] ELSE ""

\* The first variable of this name gets the value, or it is added.
SetVar(data, name, value) ==
    LET i == SelectInSeq(data.vars, LAMBDA v : v.key = name)
    IN  IF i = 0 THEN [data EXCEPT !.vars = Append(@, [key |-> name, value |-> value])]
        ELSE [data EXCEPT !.vars[i].value = value]

\* Without an active environment the value goes into the first of the list, or a new one.
SaveVarPopup ==
    LET none == popup.env = ""
        first == IF envs = <<>> THEN NewId(EnvIds) ELSE envs[1]
        id == IF none THEN first ELSE popup.env
        data == IF none /\ envs = <<>> THEN [NoData EXCEPT !.name = "Default"] ELSE envData[id]
        listed == IF none /\ envs = <<>> THEN <<id>> ELSE envs
    IN  IF popup.name = "" \/ (none /\ popup.text = "")
        THEN UNCHANGED <<envs, envData, draft, envFiles, activeEnvID, activeEnvDirty, saveNeeded>>
        ELSE /\ none /\ envs = <<>> => IdsLeft(EnvIds)
             /\ envs' = listed
             /\ activeEnvID' = IF none THEN id ELSE activeEnvID
             /\ saveNeeded' = (saveNeeded \/ none)
             /\ Becomes(IF id \in ToSet(listed)
                        THEN [Write(Now, id, SetVar(data, popup.name, popup.text)) EXCEPT !.stale = TRUE]
                        ELSE Now)

\* A variable under the pointer: a popup that was changed is saved first, and this one shows
\* the value of the last frame.
OpenVarPopup(name) ==
    LET value == VarOf(activeEnvVars, name)
        changed == popup.open /\ popup.text # popup.orig
    IN  /\ RequestsShown /\ picker = NoEnv
        /\ IF changed THEN SaveVarPopup
           ELSE UNCHANGED <<envs, envData, draft, envFiles, activeEnvID, activeEnvDirty, saveNeeded>>
        /\ popup' = [open |-> TRUE, name |-> name, text |-> value, orig |-> value, env |-> activeEnvID']
        /\ UNCHANGED <<editing, Rest>>

TypeVar(text) ==
    /\ On /\ popup.open /\ text # popup.text
    /\ popup' = [popup EXCEPT !.text = text]
    /\ UNCHANGED <<envVars, saveNeeded>>

\* Enter and Escape save; a popup the pointer left is saved when it was changed.
DismissVarPopup(key) ==
    /\ On /\ popup.open
    /\ IF key \/ popup.text # popup.orig THEN SaveVarPopup
       ELSE UNCHANGED <<envs, envData, draft, envFiles, activeEnvID, activeEnvDirty, saveNeeded>>
    /\ popup' = ClosedPopup
    /\ UNCHANGED <<editing, Rest>>

\* The list of the popup offers the separators, too.
SelectPopupEnv(id) ==
    LET vars == VarsOf(id)
        value == VarOf(vars, popup.name)
    IN  /\ Free /\ popup.open /\ id \in ToSet(envs) \cup {""}
        /\ activeEnvID' = id /\ activeEnvDirty' = FALSE /\ activeEnvVars' = vars
        /\ popup' = [popup EXCEPT !.text = value, !.orig = value, !.env = id]
        /\ SaveState
        /\ UNCHANGED <<envs, envData, editing, draft, envRenaming, picker, colorSaveDirty,
                       loadedEnvs, envFiles, envWrites>>

-----------------------------------------------------------------------------
\* With a press, where the picker lets one through, or without one.
EnvOperation ==
    \/ Back \/ AddNewEnvironment \/ ResetColor
    \/ \E id \in ToSet(envs) :
          \/ OpenEnvEditor(id) \/ ClickEnv(id) \/ StartEnvRename(id) \/ OpenPicker(id)
          \/ DuplicateEnvironment(id) \/ DeleteEnvironment(id)
    \/ \E at \in 1..(Len(envs) + 1) : AddEnvSeparator(at)
    \/ \E i, j \in DOMAIN envs : DragEnv(i, j)
    \/ \E key \in BOOLEAN : SaveEditor(key)
    \/ \E id \in envRenaming, text \in EnvNames : EndEnvRename(id, text)
    \/ \E file \in EnvImports : ImportEnvironment(file)

EditorOperation ==
    \/ \E text \in EnvNames : EditEnvName(text)
    \/ \E text \in EnvColors : EditEnvColor(text)
    \/ \E i \in DOMAIN draft.rows : DeleteEnvRow(i) \/ \E row \in EnvRows : EditEnvRow(i, row)
    \/ AddEnvRow
    \/ \E color \in EnvColors \cap Colors : PickColor(color)
    \/ ClosePicker

PopupOperation ==
    \/ \E name \in VarNames : OpenVarPopup(name)
    \/ \E text \in VarTexts : TypeVar(text)
    \/ \E key \in BOOLEAN : DismissVarPopup(key)
    \/ \E id \in ToSet(envs) \cup {""} : SelectPopupEnv(id)

\* What the frames and the goroutines do by themselves.
EnvironmentsFrame ==
    TakeLoadedEnv \/ RefreshActiveEnv \/ \E w \in envWrites : WriteEnvironment(w)
=============================================================================
