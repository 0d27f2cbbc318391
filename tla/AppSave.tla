-------------------------------- MODULE AppSave --------------------------------
(***************************************************************************)
(* How Rete gets its state to disk (internal/ui/app.go, internal/persist): *)
(* the UI thread marks what changed; a frame takes snapshots of what was   *)
(* marked long enough ago and hands them to goroutines, which write under  *)
(* a mutex per kind of file; leaving the program writes the rest.          *)
(*                                                                         *)
(* A file is replaced by a rename, so a write either happens in one step   *)
(* or fails and leaves the old content.  A file's content is the number of *)
(* the version it was taken from; Absent is no file.                       *)
(***************************************************************************)
EXTENDS Integers, FiniteSets, Functions

CONSTANTS State,      \* the file of the application state
          Cols,       \* the collections
          Envs,       \* the environments
          MaxEdits    \* bound: changes the user makes

ASSUME FilesAssumption ==
    /\ State \notin Cols \cup Envs
    /\ Cols \cap Envs = {}
    /\ MaxEdits \in Nat

VARIABLES
    ver,        \* the version in memory
    disk,       \* the version on disk
    marked,     \* saveNeeded, dirtyCollections, envColorSaveDirty
    deleted,    \* deletedCollections, and the environments removed
    due,        \* marks whose debounce has certainly elapsed
    timer,      \* per debounce: its flag, whether a timer runs, what is due when it fires
    wanted,     \* a frame was asked for
    savers,     \* the goroutines with their snapshots
    phase,      \* "running", or where leaving the program is
    how,        \* by closing the window or by restarting elevated
    overtaken,  \* history: files whose newest snapshot an older one may replace
    failed      \* history: files whose last write failed

uiVars == <<ver, marked, deleted, due, timer, wanted>>
exitVars == <<phase, how>>
vars == <<uiVars, disk, savers, exitVars, overtaken, failed>>

Files == {State} \cup Cols \cup Envs
Group(f) == IF f = State THEN "state" ELSE IF f \in Cols THEN "cols" ELSE "envs"
Absent == 0

Running == phase = "running"
MayEdit == Running /\ FoldFunction(+, 0, ver) - Cardinality(Files) < MaxEdits

NoTimers == [g \in {"state", "cols"} |-> [flag |-> FALSE, on |-> FALSE, covers |-> {}]]

\* A state file of an old format is read as a newer version, which loadState marks at
\* once; the window draws a first frame.
Init ==
    /\ disk = [f \in Files |-> 1]
    /\ marked \in {{}, {State}}
    /\ ver = [f \in Files |-> IF f \in marked THEN 2 ELSE 1]
    /\ deleted = {}
    /\ due = marked
    /\ timer = NoTimers
    /\ wanted = TRUE
    /\ savers = {}
    /\ phase = "running"
    /\ how = "none"
    /\ overtaken = {}
    /\ failed = {}

-----------------------------------------------------------------------------
(* Snapshots and files.                                                    *)

Carries(s, f) == \E x \in s.todo : x.file = f
Waiting(f) == \E s \in savers : ~s.holds /\ Carries(s, f)
Held(g) == \E s \in savers : s.holds /\ s.g = g

\* Mutant: a goroutine is started although there is nothing to write.
SaverAnyway(g, F) ==
    {[g |-> g, todo |-> {[file |-> f, ver |-> ver[f]] : f \in F}, holds |-> FALSE]}

\* The goroutine that saves F, if there is anything to write.
Saver(g, F) ==
    IF F = {} THEN {}
    ELSE {[g |-> g, todo |-> {[file |-> f, ver |-> ver[f]] : f \in F}, holds |-> FALSE]}

\* Whoever is started last for a file writes last, unless somebody still waits for the mutex.
Start(new) ==
    /\ savers' = savers \cup new
    /\ LET F == {f \in Files : \E s \in new : Carries(s, f)}
       IN  overtaken' = (overtaken \ F) \cup {f \in F : Waiting(f)}

\* persist.AtomicWriteFile.
Replace(f, v) ==
    \/ disk' = [disk EXCEPT ![f] = v] /\ failed' = failed \ {f}
    \/ UNCHANGED disk /\ failed' = failed \cup {f}

\* The UI thread writes or removes f without the mutex of its kind.
Unlocked(f) ==
    overtaken' = IF \E s \in savers : Carries(s, f) THEN overtaken \cup {f} ELSE overtaken \ {f}

-----------------------------------------------------------------------------
(* The user's changes.                                                     *)

Armed(F) == [flag |-> TRUE, on |-> TRUE, covers |-> F]
Forget(f) == [g \in DOMAIN timer |-> [timer[g] EXCEPT !.covers = @ \ {f}]]

SaveState ==
    /\ MayEdit
    /\ ver' = [ver EXCEPT ![State] = @ + 1]
    /\ marked' = marked \cup {State}
    /\ wanted' = TRUE
    /\ UNCHANGED <<disk, deleted, due, timer, savers, exitVars, overtaken, failed>>

\* Every change of a collection starts its debounce again.
MarkCollectionDirty(c) ==
    /\ MayEdit
    /\ c \notin deleted
    /\ ver' = [ver EXCEPT ![c] = @ + 1]
    /\ marked' = marked \cup {c}
    /\ due' = due \ {c}
    /\ timer' = IF timer["cols"].flag THEN Forget(c)
                ELSE [timer EXCEPT !["cols"] = Armed(marked' \cap Cols)]
    /\ wanted' = TRUE
    /\ UNCHANGED <<disk, deleted, savers, exitVars, overtaken, failed>>

\* Mutant: the deleted collection stays on the list of those to be saved.
DeleteKeepsMark(c) ==
    /\ MayEdit
    /\ c \notin deleted
    /\ ~Held("cols")
    /\ deleted' = deleted \cup {c}
    /\ Replace(c, Absent)
    /\ ver' = [ver EXCEPT ![State] = @ + 1]
    /\ marked' = marked \cup {State}
    /\ wanted' = TRUE
    /\ UNCHANGED <<due, timer, savers, exitVars, overtaken>>

\* The callback of the sidebar, and the saveState that follows it.  The UI thread
\* waits for the mutex.
DeleteCollection(c) ==
    /\ MayEdit
    /\ c \notin deleted
    /\ ~Held("cols")
    /\ deleted' = deleted \cup {c}
    /\ Replace(c, Absent)
    /\ ver' = [ver EXCEPT ![State] = @ + 1]
    /\ marked' = (marked \ {c}) \cup {State}
    /\ due' = due \ {c}
    /\ timer' = Forget(c)
    /\ wanted' = TRUE
    /\ UNCHANGED <<savers, exitVars, overtaken>>

\* A color chosen in the picker is saved when the picker closes; the picker covers
\* the window until then.
PickColor(e) ==
    /\ MayEdit
    /\ e \notin deleted
    /\ marked \cap Envs \subseteq {e}
    /\ ver' = [ver EXCEPT ![e] = @ + 1]
    /\ marked' = marked \cup {e}
    /\ UNCHANGED <<disk, deleted, due, timer, wanted, savers, exitVars, overtaken, failed>>

ClosePicker ==
    /\ Running
    /\ marked \cap Envs # {}
    /\ Start(Saver("envs", marked \cap Envs))
    /\ marked' = marked \ Envs
    /\ UNCHANGED <<ver, disk, deleted, due, timer, wanted, exitVars, failed>>

\* Committing an edited or renamed environment writes its file on the UI thread.
SaveEnvironment(e) ==
    /\ MayEdit
    /\ e \notin deleted
    /\ ver' = [ver EXCEPT ![e] = @ + 1]
    /\ Replace(e, ver'[e])
    /\ Unlocked(e)
    /\ UNCHANGED <<marked, deleted, due, timer, wanted, savers, exitVars>>

DeleteEnvironment(e) ==
    /\ MayEdit
    /\ e \notin deleted \cup marked
    /\ deleted' = deleted \cup {e}
    /\ Replace(e, Absent)
    /\ Unlocked(e)
    /\ ver' = [ver EXCEPT ![State] = @ + 1]
    /\ marked' = marked \cup {State}
    /\ wanted' = TRUE
    /\ UNCHANGED <<due, timer, savers, exitVars>>

-----------------------------------------------------------------------------
(* The end of a frame, when the marks in D are old enough.                 *)

\* Mutant: after a save the flag still says that a timer is running.
StateTimerKept(D) ==
    LET t == [timer["state"] EXCEPT !.covers = @ \ D]
    IN  IF State \in marked \ D /\ ~t.flag THEN Armed({State}) ELSE t

StateTimer(D) ==
    LET t == [timer["state"] EXCEPT !.covers = @ \ D]
    IN  IF State \in D THEN [t EXCEPT !.flag = FALSE]
        ELSE IF State \in marked /\ ~t.flag THEN Armed({State})
        ELSE t

ColsTimer(D) ==
    LET pending == (marked \cap Cols) \ D
    IN  IF pending = {} THEN [timer["cols"] EXCEPT !.flag = FALSE, !.covers = {}]
        ELSE Armed(pending)

\* flushSaveState and flushCollectionSaves.
Frame(D) ==
    /\ Running
    /\ due \subseteq D
    /\ Start(Saver("state", D \cap {State}) \cup Saver("cols", (D \cap Cols) \ deleted))
    /\ marked' = marked \ D
    /\ due' = {}
    /\ timer' = [timer EXCEPT !["state"] = StateTimer(D), !["cols"] = ColsTimer(D)]
    /\ wanted' = FALSE
    /\ UNCHANGED <<ver, disk, deleted, exitVars, failed>>

\* time.AfterFunc: the window is invalidated.
Fire(g) ==
    /\ Running
    /\ timer[g].on
    /\ timer' = [timer EXCEPT ![g].on = FALSE, ![g].covers = {}]
    /\ due' = due \cup timer[g].covers
    /\ wanted' = TRUE
    /\ UNCHANGED <<ver, disk, marked, deleted, savers, exitVars, overtaken, failed>>

-----------------------------------------------------------------------------
(* The goroutines.                                                         *)

\* The mutex goes to any of those who wait.
Lock(s) ==
    /\ phase # "left"
    /\ ~s.holds
    /\ ~Held(s.g)
    /\ savers' = (savers \ {s}) \cup {[s EXCEPT !.holds = TRUE]}
    /\ UNCHANGED <<uiVars, disk, exitVars, overtaken, failed>>

\* Writes the next snapshot unless its collection was deleted meanwhile.
Write(s) ==
    /\ phase # "left"
    /\ s.holds
    /\ \E x \in s.todo :
           /\ IF x.file \in deleted \cap Cols THEN UNCHANGED <<disk, failed>>
              ELSE Replace(x.file, x.ver)
           /\ savers' = (savers \ {s}) \cup
                        (IF s.todo = {x} THEN {} ELSE {[s EXCEPT !.todo = @ \ {x}]})
    /\ UNCHANGED <<uiVars, exitVars, overtaken>>

-----------------------------------------------------------------------------
(* Leaving the program.                                                    *)

\* The event loop handles no further event: frames and timers are over.
NoMoreFrames == due' = {} /\ timer' = NoTimers /\ wanted' = FALSE

\* The window is closed: DestroyEvent.  The commit of the environment being edited is
\* a SaveEnvironment before.
Destroy ==
    /\ Running
    /\ Start(Saver("envs", marked \cap Envs))
    /\ marked' = marked \ Envs
    /\ phase' = "waiting"
    /\ how' = "close"
    /\ NoMoreFrames
    /\ UNCHANGED <<ver, disk, deleted, failed>>

\* shutdownAndExit, once the elevated process has been started.
ShutdownAndExit ==
    /\ Running
    /\ phase' = "waiting"
    /\ how' = "restart"
    /\ NoMoreFrames
    /\ UNCHANGED <<ver, marked, disk, deleted, savers, overtaken, failed>>

\* Mutant: closing the window waits no more than the restart does.
WaitOverEarly == \A s \in savers : s.g # "state"

\* Closing waits for three groups of goroutines, the restart for one.
WaitOver == \A s \in savers : how = "restart" /\ s.g # "state"

EndWait ==
    /\ phase = "waiting"
    /\ WaitOver
    /\ phase' = "flushing"
    /\ UNCHANGED <<uiVars, disk, savers, how, overtaken, failed>>

\* flushCollectionSavesSync writes every collection that is marked, without the mutex.
FlushCollection(c) ==
    /\ phase = "flushing"
    /\ c \in marked
    /\ Replace(c, ver[c])
    /\ Unlocked(c)
    /\ marked' = marked \ {c}
    /\ UNCHANGED <<ver, deleted, due, timer, wanted, savers, exitVars>>

\* saveStateSync, and the process ends with whatever still runs in it.
Leave ==
    /\ phase = "flushing"
    /\ marked \cap Cols = {}
    /\ ~Held("state")
    /\ Replace(State, ver[State])
    /\ marked' = marked \ {State}
    /\ savers' = {}
    /\ phase' = "left"
    /\ UNCHANGED <<ver, deleted, due, timer, wanted, how, overtaken>>

-----------------------------------------------------------------------------

Edit ==
    \/ SaveState
    \/ \E c \in Cols : MarkCollectionDirty(c) \/ DeleteCollection(c)
    \/ \E e \in Envs : PickColor(e) \/ SaveEnvironment(e) \/ DeleteEnvironment(e)
    \/ ClosePicker

AnyFrame == \E D \in SUBSET (marked \ Envs) : Frame(D)
AnyTimer == \E g \in DOMAIN timer : Fire(g)
AnySaver == \E s \in savers : Lock(s) \/ Write(s)

Exit ==
    \/ Destroy
    \/ ShutdownAndExit
    \/ EndWait
    \/ \E c \in Cols : FlushCollection(c)
    \/ Leave

Next == Edit \/ AnyFrame \/ AnyTimer \/ AnySaver \/ Exit

Spec == Init /\ [][Next]_vars

\* The runtime fires its timers, runs the goroutines, and the window draws the frames it
\* was asked for; nobody has to do anything else.
FairSpec ==
    /\ Spec
    /\ WF_vars(wanted /\ AnyFrame)
    /\ WF_vars(AnyTimer)
    /\ WF_vars(AnySaver)

-----------------------------------------------------------------------------
(* Properties.                                                             *)

Groups == {"state", "cols", "envs"}
Snapshots == [file : Files, ver : Nat]

\* Types, what a timer covers is marked, no goroutine is without work.
TypeOK ==
    /\ ver \in [Files -> Nat]
    /\ disk \in [Files -> Nat]
    /\ marked \subseteq Files
    /\ deleted \subseteq Cols \cup Envs
    /\ due \subseteq marked \ Envs
    /\ timer \in [{"state", "cols"} -> [flag : BOOLEAN, on : BOOLEAN, covers : SUBSET (marked \ Envs)]]
    /\ wanted \in BOOLEAN
    /\ savers \subseteq [g : Groups, todo : (SUBSET Snapshots) \ {{}}, holds : BOOLEAN]
    /\ phase \in {"running", "waiting", "flushing", "left"}
    /\ how \in {"none", "close", "restart"}
    /\ overtaken \subseteq Files
    /\ failed \subseteq Files

\* The files of which no write failed, none was overtaken and that still exist.
Settled(f) == f \notin overtaken \cup failed \cup deleted

InFlight(f) == \E s \in savers : [file |-> f, ver |-> ver[f]] \in s.todo

\* No change is forgotten on its way: the newest version of a file is on disk, or in
\* the hands of a goroutine, or the file is still marked.  So a crash at any moment
\* loses no more than that.
PendingOrSaved ==
    phase # "left" =>
        \A f \in Files : Settled(f) => disk[f] = ver[f] \/ f \in marked \/ InFlight(f)

\* A collection that was deleted does not come back, although snapshots of it were
\* waiting to be written and the program is left with collections unsaved.
DeletedStaysDeleted == \A c \in deleted \cap Cols : disk[c] = Absent \/ c \in failed

\* The disk follows what was done, neither behind it with nothing left to catch up, nor
\* back to what was deleted.
DiskFollows == PendingOrSaved /\ DeletedStaysDeleted

\* Once the program has ended the newest state is on disk, and when the window was
\* closed so are the collections and the environments, whatever was under way.
ExitSaves ==
    phase = "left" =>
        \A f \in (IF how = "close" THEN Files ELSE {State}) : Settled(f) => disk[f] = ver[f]

Unsaved(f) == Running /\ Settled(f) /\ disk[f] # ver[f]

\* Changes reach the disk although the user does nothing any more: the timers, their
\* flags and the frames they ask for never leave a mark behind.
IdleSaves == \A f \in Files \ Envs : Unsaved(f) ~> ~Unsaved(f)
=============================================================================
