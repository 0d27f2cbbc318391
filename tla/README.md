# Rete in TLA+

A verification development for Rete (`src/`), a desktop API client with an intercepting proxy,
WebSocket tabs, a load runner, a flow editor and a traffic limiter, written in Go with one UI
thread (gio) and many goroutines. TLC checks the modules on small instances; TLAPS proves
theorems about them for every value of the constants. `PROJECT.json` lists the components, the
runs, the hazards and, definition by definition, the source lines each definition stands for.

## 1. The system

Everything the user sees is drawn by one UI thread, frame by frame: a frame handles the events
of the widgets and then lays them out. Network work runs in goroutines, which talk back through
fields under a mutex, atomics or channels and ask for another frame (`win.Invalidate`). The
hard behaviour is between a frame and the goroutines, in what the program keeps twice (a tree
and the tabs linked to it, settings and their page, a text and what is cached about it), and
between memory and the files a restart reads.

| component | state | operations | talks to | what is hard | what makes it correct |
|---|---|---|---|---|---|
| Interceptor (`mitm/manual_intercept.go`, `pipeline.go`) | switch, queue of held messages, a channel per message | Hold, Forward, Drop, SetOn/drainAll | proxy goroutines block in it, the frame decides | check-then-act on the switch; two ways to answer a message | one verdict per message, answers never block, oldest first, switching off releases |
| Flow store (`mitm/flow.go`) | flows, byte total, ID counter, revision, cached copies | Add, Update, Delete, Clear, SetAnnotation, MarkAllEnded, SnapshotMeta | filled by proxy goroutines, read by the frame | updates of flows that are no longer stored; eviction during updates | exact accounting, minimal eviction, capture order, caches never stale |
| Proxy (`mitm/proxy.go`, `ws.go`, `reverse.go`) | listener, tracked sockets, wait group | Start, Stop, serve, handleConn, handleConnect, interceptHTTPS, interceptWebSocket | the store, the interceptor, peers | Stop against accepting, dialing, hijacking | after Stop nothing is left; Stop can end every wait |
| Request tab (`workspace/http.go`, `preview.go`, `tab.go`) | request ID, three channels, temp file, preview counters | beginRequest, ExecuteRequest, sendResponse, Layout, loadMorePreview, examples | a goroutine per request, loaders | answers and batches of overtaken requests | the pane shows the current request only, no answer is lost, no file is removed in use |
| Load runner (`workspace/runner.go`) | counters, latencies, running flag | StartRun, stop, record | workers, a feed, a ticker, the tab's frames | cancellation of a feed; answers of an ended run | the table adds up, counts its own run only, everything ends |
| Text editors and search (`workspace/editor.go`, `textcore.go`, `response.go`, `search.go`) | text, lines, heights, wrapping, words, history, matches | edit, undo, click, scroll, lay out, search | the frame | caches patched by each edit, tokens late by a pause | undo and redo are exact, what is found is there, caches are about the text |
| WebSocket tab (`workspace/wstab*.go`) | state word, connection, cancel, messages | WSConnect, WSDisconnect, wsSend, readLoop, markClosed | a goroutine per session | sessions share one set of fields | one session at a time, all of them ended with the tab; neither is so when the user connects again while the last session is closing |
| WebSocket protocol (`ws`) | reassembly buffer, two compression histories, writers' lock | ReadMessage, WriteMessage, WriteClose, Close | readLoop, the UI thread, a server | fragments, control frames between them, two writers | messages and frames are exactly those that were meant |
| Flow runner (`flow/exec.go`) | node and edge states, run records, step channel | Start, Stop, Step, SetStepMode | one goroutine walks the graph | pause, stop and step tokens | nobody waits for nobody, records are honest, what is unreachable never runs |
| Flow editor (`flow/editor.go`, `panel.go`, `model.go`) | canvas, gesture, undo, files, list | press, drag, release, keys, panel, save, open, list | the runner, the window | keys in the middle of a gesture; autosave | the canvas can be drawn and read back, changes can be undone |
| Application state (`app.go`, `persist`) | marks, timers, save goroutines, files | saveState, markCollectionDirty, flushSaveState, flushCollectionSaves, DeleteCollection, shutdownAndExit, AtomicWriteFile | disk | order of saves, deletion against a save under way, leaving | no change is forgotten, deleted stays deleted, leaving saves, an idle program saves |
| Collections, sidebar, tabs (`sidebar`, `collections`, `tabbar`, `app.go`) | tree, rows, tabs, links, files | rename, drag, duplicate, delete, open, save, close | the state file, the tabs | one node known in four places | tabs, rows and files follow the tree, a restart shows what was saved |
| Environments (`environments`, `varpopup`) | list, editor, popup, picker, files | edit, activate, rename, recolor, delete | the variables of the requests | a file written from three places | a file is what the environment is, at most behind by a color |
| Settings (`settings`, `persist/state*.go`) | settings, draft of the page, HTTP client, file | change, apply, sanitize, save, load | the rest of the program, the title bar | copies, defaults of missing members | page, program and file agree, cookies survive |
| Traffic limiter (`netlimit`) | manager state, marker, system limit, speed history | Apply, Pause, Resume, Cancel, Close, ClearOrphan | operating system | a goroutine per button, crashes | it tells the truth between operations, and what it left is found again |
| Rules, transforms, scope, CA; WebSocket log; MITM overlays; binary view, drop zones; HAR | tables, bytes, lists | match, replace, sign, draw | the proxy, the frame | little | not modelled (section 6) |

`PROJECT.json` "components" names the sources of each and says which are modelled; "hazards"
lists the 40 places where this code is hard to test, each with the properties that cover it or,
for two of them, the reason why none does.

## 2. Modules

| module | what it is |
|---|---|
| `Interceptor`, `HeldMessages` | the queue, the goroutines in `Hold`, the UI frame; the abstract promise: one verdict per message, then it goes out with it |
| `FlowStore` | the store and the cached copies of the history |
| `MitmProxy` | the proxy's life: UI thread, accept loop, one goroutine per connection |
| `RequestTab`, `LoadRunner`, `SendingTab` | a tab sending once; sending many times over; the two composed |
| `TextCore`, `TextEdit`, `TextFrame`, `SearchBox`, `TextPane` | lines and wrapping; what each call does to an editor; a frame of it; the search box; the pane, frame by frame |
| `WSSession`, `WSFrames`, `WSChannel` | sessions from afar; frames and histories as operators; the connection from near, composed with the sessions |
| `FlowScenario`, `FlowEditor`, `FlowRunner`, `Flow` | scenarios and their files; the editor; the walk of a run; the two composed |
| `AppSave`, `Limiter`, `AppWindow` | who writes which file when; the limiter; both under the window that is closed |
| `StateFile`, `Settings` | the state file's coder; the settings page and what it acts on |
| `CollectionFile`, `TabState`, `SidebarState`, `Collections`, `Environments`, `Sidebar` | the collection file's coder; a tab as data; what the two halves of the sidebar share; each half; both with their files and restarts |
| `SeqFacts` | lemmas about sequences, least elements and sums used by the proofs |
| `MitmProofs` | theorems about `FlowStore`, about `MitmProxy` and about `Interceptor` |
| `FlowProofs`, `FlowCanvasProofs` | theorems about `FlowRunner` and `Flow`; about the canvas, its history and its files |
| the other `…Proofs` | theorems about the module of that name |
| `MC…` | the instance for TLC: sets of inputs, symmetry, sessions; `MCMitm` puts queue and store side by side, one of which is used |

Common conventions. A variable is a field of the source and keeps its name. A mutex-protected
method is one action; code that gives up a lock, or reads a field without one, is cut at that
point. The place where a thread is, is a program counter (`pc` or `at`, `ui` or `frame` for the UI thread); a
frame runs its phases in the order of the code and goroutines step between any two of them.
A component that runs on the UI thread alone is a set of actions, one per event a frame handles,
each with everything the handler calls. Some modules have a rigid variable (`session`, `user`,
`view`) that chooses, in the initial state, which part of the inputs a behaviour uses: it bounds
the instance and stands for no code. Variables marked "history" only record what happened
(`overtaken`, `overlapped`, `failed`, `muddled`, `loaded`, `cut`, `began`, `torn`, `foreign`); no guard of a step of the
code reads one, and the properties name them as what they exempt. Definitions under the
heading "Mutant:" are plausible bugs; each property is known to fail when its mutant takes the
place of the definition beside it.

### Interceptor

`at[m]` follows the goroutine that carries message `m`: "new" (first look at the switch, in
`processRequest`/`processResponse`), "hold" (second look, in `Hold`), "enqueue" (before the
lock), "parked" (`<-h.resume`), "done". `frame` follows the UI thread: the responses switch, the
intercept switch with `drainAll` (take the queue, then one send after the other), the decision
click (`head` is the message found at its start, `found` what `resolve` took out of the queue),
and the layout, which loads the editor for the message now at the head. `resume[m]` is the
channel of capacity one. `nextHeldID` is `Interceptor.nextID`; the store has a field of that name too. A text is named by the message it was loaded from.

`HeldMessages` knows only a verdict and an output per message. The refinement says a verdict is
reached when the message leaves the queue (`AbsVerdict`), which is before it is delivered.

### FlowStore

An object keeps the sizes of its two bodies, the flags and the annotation; `stored` is the
flag of the source, by which `Update` knows whether the bytes count. `Add` drops the smallest
number of oldest flows that `Enough` accepts. `Respond`, `End` and `CloseTunnel` are the calls
of `Update` the proxy makes; what they set, the handler that owns the flow decides, and the store
runs whatever it is given. That `FindByID` may share the bodies of a flow rests on the order of the
statements of that handler, which a model of the store could only repeat: no property is about it. `meta` is the cache of `SnapshotMeta` with its revision. The bytes
of the flows held are a fold over the sequence of them.

### MitmProxy

Each connection has two sockets; `open` is what this side holds open, `gone` what the peer has
ended, `conns` what is tracked. `pc[k]` follows the goroutine through reading a request, dialing,
answering, the relay of a blind tunnel, the TLS handshake, the requests of an intercepted tunnel
(held, sent, answered), an upgrade to WebSocket with its two pumps, and the deferred calls in
their order (`Exit`, `Leave`). Headers and bodies are left out. What a goroutine waits for is
classified: own steps and waits with a deadline (`Fair…`), waits for a peer (no fairness).

### RequestTab, LoadRunner, SendingTab

The frame is `ui`: clicks ("app", with `BeginRequest`, `BeginDrain`, `BeginClean`,
`StartSender` as one send), chunks, the answer, the preview, late clicks. The goroutine of
request `r` fetches, streams chunks (dropped when the channel is full), and answers under
`respMu` in two steps, because `beginRequest` changes the request ID without that lock. A loader
reads a batch of the file, adds to the count, sends the text and gives the flag back. A piece
of text is a response and a batch number, so "the preview holds the first n batches" is a
comparison of sequences. `overtaken` and `shown` only record what happened: a request was sent
while a loader was at work; an example was shown.

In `LoadRunner` a run is named by its number. `feeder[r]` is the goroutine of the run: it hands
numbers to the workers over a channel without room (`Feed` is a rendezvous), waits for the
workers, and then clears `running`, notes the time and cancels in three steps. A worker takes a
number, sends, and counts what comes back under the lock if the run is still the newest.
`SendingTab` is the tab of both: the button and the table of the runner belong to its frames, and
closing it cancels either. The variables of an iteration, the texts of the plan and the sorting
of the table are left out.

Reachable and left to the reader: `running` is cleared before the time of the end is written, so a
run started in between shows that of the last one; after a stop "Sent" stays ahead of what is
counted, by the answers that were dropped; the temp file of an answer dropped under the wrong
request ID stays until the next start; an example shown while a request is in flight receives its
chunks, and `TabSound` exempts the tab that shows one.

### TextPane and what it stands on

`TextCore` has the places of a text (bytes; one character has two), its lines, their heights and
the plan by which long lines are wrapped; `TextEdit` what each call of the source does to an editor,
which is a record with the caches beside the text; `TextFrame` the layout of a frame, in which the
anchor, the widths and the scrolling interact; `SearchBox` the box with its spans, its folded copy
of the text and the documents it remembers. `TextPane` is the state: a frame looks after the tab,
lays out, handles the mouse, the editing keys and the moving keys, in this order (`stage`). Glyphs
are external: a fixed width. The language of a text comes from its first byte; "again" stands for
key repeat and the time between clicks; `base` and `tip` are the ends of the history.

Reachable: a load from a file calls `SetText` in a goroutine without a lock (app.go:1706), taken as
atomic; `SetText` neither marks the search dirty nor invalidates it, so an open box steps over old
matches until the next change (`loaded` is the exemption in `SearchFollows`); a height that is
not known counts as one row, so a caret may stay out of sight.

### WSSession, WSFrames, WSChannel

Sessions are numbered as `sessionCount` numbers them; connection and cancel are named by their
session. What the UI thread does is cut wherever it looks at or changes something a goroutine has its
hand on: `WSConnect` between its look at the state and the store of Connecting (`ConnectCheck`,
`Connect`), `WSDisconnect` where it reads the state, stores it, takes the fields and closes,
`wsSend` after the connection it takes, after the state it reads, and at the write (`SendTake`,
`SendCheck`, `SendWrite`). The goroutine dials, checks its context, publishes the connection,
sets Open, reads the connection field again in `readLoop`, and leaves with the state first and
`Close` second.

`WSConnect` refuses Connecting and Open only (wstab_session.go:70). A user may therefore connect again
while the tab says "Closing" and a goroutine still has its last word on the state to say; `overlapped`
records that this happened. From there on two sessions write the same fields, and the run
`WSSession_closed` shows what comes of it. `SessionsSound` speaks of the time before, and of every
user: connecting again after Closed, while the older goroutine has its `Close` still to do, is not exempted.
The one message filed under another session than carried it is part of the property
(`Attributed`): `wsSend` took the connection of a session that was between its Closed and its
`Close`, and found the Open of the next.

`WSFrames` has no state: what `ReadFrame` refuses, `Reassembler.Step`, the histories of
permessage-deflate. A payload is a sequence of parts, each a number and the history its coder
had; a part is legible if the decoder has the same history. `WSChannel` sees one session of
`WSSession` from near: a server that keeps the rules until it breaks one (a continuation without a
message, data inside a message, RSV1 on a continuation, a fragmented control frame, a frame too
long, a masked one) or cuts the connection; `readLoop`, which reads, answers and logs; and the UI
thread, which writes beside it. A frame is two writes (head and body) under `writeMu`, with the
compressor's history between them. `view` chooses: the sessions from afar, or the frames of one
session. Compression is always negotiated from near and each frame compressed or not; one flag
`fresh` stands for both directions' no_context_takeover. The user's ping is written as readLoop
writes a pong, so only texts are sent.

Reachable, not checked: a text can follow the close frame on the wire; a pong is logged although
its write failed; the log may order a text and a pong other than the wire does; RSV bits nobody
negotiated and reserved opcodes are not refused; the close frame of `WSDisconnect` is written on the
UI thread before anything is closed, so a peer that does not read holds the window up (the fairness
assumes that a write ends). Left out: the handshake, the server side, which only tests use, and the
MessagePack protocol.

### FlowRunner

`flowExec.visit` recurses through `followOuts` and the rounds of a loop; the recursion is the
sequence `stack`, the innermost visit first, and `at` is the place a visit has reached. `plan` is
the copy `buildPlan` makes, with the entries of the loops in order (of two at the same place, the
map yields either first) and the set of arrows of each node, which are followed in the order of
their numbers; the kinds,
conditions and loops of a scenario come from the constant `Scenarios` or from the editor. A
response is two bits (there is one; it counts as failed), and what depends on more is a choice: a
condition on the content, the length of an array. `waitStep` is cut into the look at the mode under
the lock (`Gate`), the announcement (`Pause`) and the end of the wait (`Unpark`, which may take the
token or see the context); `SetStepMode` and `Step` change the mode or look at it under the lock and
send the token outside (`SendToken`). `Stop` cancels the context, which the walk sees only where
the code looks. `Finish` closes the record under the lock; the sockets of the run are closed by
the deferred calls after it (`CloseSockets`), when another run may have begun.

A record counts its entries in `good` and `bad`, next to the counters `ok` and `fail` the code
keeps apart from them. A GraphQL node counts as a request; a delay is a place where `Stop` may
come before the next step. Left out: variables, the texts of a node, the frames asked for, and
the context of the whole application, which ends like `Stop`.

### FlowScenario, FlowEditor, Flow

A scenario is nodes, arrows, loops and texts; its file is the same record, since empty members are
left out there. The editor is one gesture automaton (`act`) with a snapshot (`snap`) that a press
takes and a release turns into an undo step, between whose frames keys arrive and the autosave
runs. What lies under the pointer is a choice among what the code could hit. `ids` numbers what is
created; `order`, `files` and `mods` are the list of scenarios, their files and the order in time.
`Flow` adds the runner, which walks a copy; only opening or creating another scenario waits for
its end. `began` and `torn` record what a gesture began with and whether a key changed the canvas
during it; `foreign` records that something came which cannot be drawn on a canvas: a file or a
block of elsewhere, or a key pressed while an arrow was held, whose nodes may be gone when the
arrow is put back. `CanvasSound` promises nothing after that, as the code checks no file.
The editor is created with the first frame in the code, at the start in the model.

Reachable, not checked: the newest file is order.json after a reorder, so the next start opens an
empty scenario; opening another scenario does not save edits younger than the autosave unless the
view moved, and leaving the program does not either; undo across Open brings the other scenario
back, a deleted one included; keys in the middle of a gesture can duplicate an arrow's ID or leave
more arrows than a port has room for; a cleared wait comes back as 1000, a cleared count as "0".

### AppSave

Each file is a version number: `ver` in memory, `disk` on disk, 0 for no file. `marked` is
`saveNeeded`, `dirtyCollections` and `envColorSaveDirty`. A frame (`Frame(D)`) ends with
`flushSaveState` and `flushCollectionSaves`; `D` are the marks it finds old enough, which it
chooses, except that marks a fired timer has covered (`due`) are old enough for certain. A timer
has the flag of the source, whether one really runs, and the marks it covers: the two may differ
(the flag of the state is set while a frame finds the mark too young, and reset only by a save;
the flag of the collections is reset by every frame). A goroutine in `savers` carries its
snapshots, waits for the mutex of its kind, writes them one by one and leaves out collections
deleted meanwhile. `AtomicWriteFile` writes a temporary file and renames it, so `Replace` either
happens or fails. `Destroy` and `ShutdownAndExit` begin the two ways to leave, `EndWait` ends the
wait for the goroutines (three groups, or one), `FlushCollection` and `Leave` write the rest.

`overtaken` and `failed` only record what happened: a newer snapshot of a file was handed out or
written while an older one was still on its way; the last write failed. The properties exempt
these files, and what they exempt is real: a goroutine that waits for the mutex may win it after
one started later; an environment committed on the UI thread, or deleted, may be overwritten by
the goroutine of its color. The restart waits for the state's goroutines only, so `ExitSaves`
promises no more than the state there.

Simplifications: the commit of an edited environment at the end is a `SaveEnvironment` before
`Destroy`; every event of the user is followed by a frame; `MaxEdits` bounds the user, which
hides that somebody who never pauses postpones the save of a collection for ever.

### Limiter, AppWindow

Every button starts a goroutine (`ops`) that checks the manager's state, acts on the system, notes
the state and writes or removes the marker, in critical sections of their own; a click is judged
by the state at its time. `os` is the limit in force, `marker` the marker file by which the next
start finds a leftover. The sample loop keeps `sampled` and the ring `hist`. Modelled as built for
Unix, where limits outlive the process. The assumption is that a script that succeeds did what it
says. `AppWindow` composes it with `AppSave` under the event loop: closing the window closes the
limiter first and saves then.

`muddled` marks the states in which the limiter cannot be expected to tell the truth, and how they
arise is worth knowing: two operations at a time leave state and system apart; a refused elevation
is ignored by `Remove`, so the state says idle and the marker is gone although the limit stays;
`Apply` takes the old limit down first and may break half way; clearing leftovers removes an active
limit but not the state; a crash between applying and marking loses the marker.

### StateFile, Settings

`StateFile` is what the generated coder writes and what its decoder accepts, member by member: a
missing member, `null`, a member spelled in other letters, a value of the wrong type, and the
migrations of older files. `Settings` has one action per control of the page; a frame of the
open page works on a draft, puts it in place of the settings, applies it to the runtime
(variables, colors, HTTP client) and asks for a save. Files edited by hand and older files are
among the starts. The open page over which the title bar changes a switch is left out by name
(it writes the old value back). The random ID of a theme the user makes is `NewIDs` of the change
that makes it. The assumptions on constants are that names differ from `""` and from `Null`, and
`FilesAssumption`: what the decoder makes of a file has the types of `AppSettings`, as a decoder that
fills typed fields leaves them, and no theme of the user has an empty ID (none that was made here has; a
file edited by hand may, and then the rows of the page, which say `""` for "not yet filled", are
not filled for that theme).

Reachable: two hints of the page are not what the HTTP client does (0 redirects and 0 s for idle
connections mean the defaults of net/http, not "unlimited" and "never"); a width of 0 edited by
hand becomes 250; a color picker that stays open while its theme is deleted writes onto "dark".

### CollectionFile, TabState, Collections, Environments, Sidebar

`CollectionFile` parses and writes a collection as a JSON value, `TabState` is a tab as data: made,
restored, opened from a node, compared with it and saved into it. `Collections` has the tree, its
rows, the sidebar's operations and the tabs; a node is known by its number. `Environments` has the
list, the editor, the picker and the popup, with the writes of goroutines still to come
(`envWrites`). `Sidebar` composes both with the state file, closing, killing and starting again.

Reachable, not checked: a request dragged to another collection is saved as two files, so a crash
between loses or duplicates it; after a crash a tab can be linked to the wrong node when the state
and the collection are of different times; a restored tab with unsaved edits that was never shown
closes without asking; `Disabled` flags of form rows are not in the state file; the popup over a
variable, opened on another occurrence, shows and writes the value of the last one; committing an
environment in the editor overwrites what the popup saved after the editor was opened; an
environment with neither name nor variables is gone after a restart.

## 3. Runs

| run | instance | what it shows |
|---|---|---|
| `Mitm_safety` | 3 messages; or 3 flows, at most 2 kept; fair | `QueueTypeOK`, `AnsweredOnce` (one way out, answers never block), `OldestFirst`, refinement of `HeldMessages`, `DrainReleases`; `StoreTypeOK`, `StoreKept` (who is stored, in which order, how many), `EvictionExact` (the total is exact, eviction minimal), `HistoryFresh` |
| `Interceptor_text` | 2 messages | violated: `ForwardsWhatItShows` |
| `MitmProxy_safety` | 2 connections of any kind, fair | `TypeOK`, `StopIsClean` (the wait group is exact, Stop reaches what is waited for, afterwards nothing is left), `ClosedIsLeft` |
| `MitmProxy_held` | 1 plain connection, fair | violated: `StopReturnsWhileHeld` |
| `SendingTab_safety` | 2 requests with 1 or 2 loaders, or an example; or 2 runs of 2 workers; fair | `TabSound` (the pane, its file, the preview; the table of a run), `StopEnds` |
| `TextPane_safety` | 9 sessions on a screen of 2 rows | `EditsReversible`, `SearchFollows`, `EditorSound` |
| `WSChannel_safety` | 3 sessions from afar; 1 session with 3 frames from near; fair | `SessionsSound` (one reader, no leak, attribution, reachable), `FramesExact` (read, written, refused and answered exactly), `ClosedTabEnds` |
| `WSSession_closed` | 3 sessions | violated: `MarkClosedCancels` |
| `AppWindow_safety` | the state, 2 collections, 1 environment, 3 changes; or 4 clicks of the limiter; fair | `TypeOK`, `DiskFollows` (nothing forgotten, deleted stays deleted), `ExitSaves`, `IdleSaves`, `LimitsExact` |
| `Flow_safety` | sessions at the editor; 4 scenarios and 2 runs; fair | `FlowTypeOK`, `NeverStuck`, `HonestRecords`, `UnreachableNeverRuns`, `CanvasSound`, `ChangesUndoable`, `StopEnds` |
| `Settings_safety` | 2 changes of any control, 3 kinds of files | `TypeOK`, `InStep` (page, program and file agree, also over a restart), `JarKept` |
| `Sidebar_safety` | 2 collections, 2 environments, 1 to 3 operations, 1 restart | `TypeOK`, `WindowFollows`, `EnvFilesFollow`, `SurvivesRestart` |

Bounds. Three messages are one being decided, one being drained and one arriving. Queue and store
share nothing, so a behaviour of `MCMitm` uses one of them (`part`); flows are captured in the order
of their numbers (`InOrder`). Three flows
with room for two make every `Add` after the second evict; `MaxRev` stops the user's edits, not
the goroutines. Two connections are one that is served and one that is accepted, tracked or left
while Stop runs; a third would only repeat one of them, as connections share nothing but the
wait group and the list. Two requests are the current one and an overtaken one; two loaders are
one of each. `Batches` of 2 gives a first batch and one more, `ChanCap` of 2 makes the channel
overflow; two runs are the one whose answers are late and its successor, two workers compete for
the feed. Three sessions are needed: with two, no third party sees the fields the second left. No session is
started once two have overlapped (`FewOverlap`): the properties say no more of a third than of a second.
Three frames are a message of two parts with a ping between them, or a text between a ping and
its pong; the room on the wire is one frame because the server does not depend on the client, and
the proof is for any room. Three changes are enough for a file to be saved, changed while its
goroutine waits, and changed or deleted again; two collections share a timer and a goroutine,
which is where one could be lost with the other. Four clicks of the limiter are two operations
met by two others. Texts of at most eight bytes on two rows of four columns make lines wrap,
scroll and merge; two entries of history make old ones drop. The scenarios are a circle with
conditions, a loop in a loop, a loop over an array with a socket and one that cannot start; six
visits take the circle round twice, and with room for few records a second run pushes one out. Two
changes of the settings are one that sets and one that depends on it. The sessions of the text,
the editor of flows and the sidebar name, each, the operations whose meeting is of interest and
how often each may happen; together they fire every action.

`CHECK_DEADLOCK FALSE` stands where the system may stop: the proxy is stopped for good, the tab
is closed, the bounds on requests, sessions, clicks or revisions are used up.

Fairness. Goroutines and the frame that has begun are scheduled (weak fairness of their steps);
waits with a deadline in the code end; a read of a socket that this side closed ends, and so does
a write. No peer has to answer, no user has to click, no message has to arrive. In the request tab
frames follow one another, since every goroutine invalidates the window when it is done. In
`AppSave` timers fire, goroutines run, and a frame is drawn only if one was asked for (`wanted`):
`IdleSaves` fails if the code forgets to ask. The walk of a scenario is scheduled; a request ends
for certain only when its context is done, so `StopEnds` also speaks of servers that never answer.

### What the violated runs show

* `Interceptor_text`: the buttons act on the head of the queue at the start of the frame, with
  the text the last frame loaded. If interception is switched off and on within that frame, or
  two clicks arrive in one frame, message B goes out with the text of message A.
* `MitmProxy_held`: Stop runs on the UI thread and waits for the goroutine of a held message,
  which waits for the UI thread. The window is frozen.
* `WSSession_closed`: a session is disconnected while it dials, and the user connects again before its
  goroutine is over. That goroutine then sets Closed over the Connecting of the second session, the
  user connects a third time, and the cancel of the third replaces that of the second. Closing the tab
  cancels the third only; the second opens its connection and reads it for a tab that is gone.
  `workspace_test.go:13954` says "MarkClosed must cancel the WS session".

Sequences that are reachable and contradict what a reader would expect, but nothing the repository
says, are named with their modules in section 2 and in the notes of "hazards". Of the first
modules: a message parked after the drain of a switched-off interceptor, a byte total above its
limit until the next `Add`, the text pane cached under a revision read too late, a socket tracked
after Stop took the list, an intercepted round trip without a deadline, a step token that was sent
too late for one pause and ends the next.

## 4. Proofs

| module | theorem | states |
|---|---|---|
| `MitmProofs` | `QueueInvariance`, `QueueTypeCorrect`, `ExactlyOneWayOut`, `AnswersNeverBlock`, `HeldIsAnsweredOnce`, `QueueInOrder` | of the queue of held messages: the inductive invariant; `QueueTypeOK`; `OneWayOut`; `SendNeverBlocks`; `AnsweredOnce`; `OldestFirst` |
| | `Refinement` | `QueueSpec => ImplementsHeldMessages`: every behaviour is one of `HeldMessages` |
| | `StoreInvariance`, `StoreTypesKept`, `KeptWell`, `CacheFresh` | of the store: the inductive invariant; `StoreTypeOK`; `StoreKept`; `HistoryFresh` |
| | `TotalExact`, `EvictsExactly` | `BytesExact`; `EvictionExact` |
| | `Invariance`, `TypeCorrect`, `Clean` | of the proxy: the inductive invariant; `TypeOK`; `StopIsClean` |
| `AppWindowProofs` | `Invariance`, `TypeCorrect`, `NothingForgotten`, `NoResurrection`, `DiskIsFaithful`, `ExitKeeps` | the inductive invariant; `TypeOK`; `PendingOrSaved`; `DeletedStaysDeleted`; `DiskFollows`; `ExitSaves` |
| | `WindowTypes`, `WindowSaves`, `WindowExitSaves` | `TypeOK`, `DiskFollows` and `ExitSaves` of the files with the limiter beside them and new starts after them |
| | `LimitsTold` | `LimitsExact` |
| `SendingTabProofs` | `TabSoundAlways` | `TabSound`: types, the pane and its preview, the table of a run |
| `WSChannelProofs` | `SessionsNeverMix`, `ChannelSound` | `SessionsSound`, of the sessions and of the channel |
| | `ChannelImplementsSessions` | `ChannelSpec => Spec`: the frames take no step the sessions do not take |
| | `FramesNeverMix` | `FramesExact` |
| `FlowProofs` | `Invariance`, `NobodyStuck`, `RecordsHonest`, `UnreachableStays` | of the runner alone: the inductive invariant; `NeverStuck`; `HonestRecords`; `UnreachableNeverRuns` |
| | `SectionInvariance`, `SectionNeverStuck`, `SectionRecordsHonest`, `SectionUnreachable` | of the section (`FlowSpec`): the invariants of editor and runner; `NeverStuck`; `HonestRecords`; `UnreachableNeverRuns` |
| | `UndoReaches` | `ChangesUndoable` |
| `FlowCanvasProofs` | `FlowTypeInvariant` | `FlowTypeOK`: types of runner and section, limit of the history, selection, list and files |
| | `CanvasSoundInvariant` | `CanvasSound` |
| `SettingsProofs` | `Invariance`, `TypeCorrect`, `AllInStep`, `CookiesKept` | the inductive invariant; `TypeOK`; `InStep`; `JarKept` |

They hold for every value of the constants that the `ASSUME`s beside them allow; those only give
the constants their types, say that names differ, that what a bound counts is not zero, (of the
flows) that a session starts with files that hold scenarios, each with its place in the order of time,
and (of the settings) what was said of the files above. Those of the settings have
a hypothesis besides, `NullsApart`: that `Null` and
the values that stand for "no file" are no functions. TLC cannot evaluate that; model values are none.

**Interceptor.** Neither property is inductive alone. `OneWayOut` needs to know where the UI
thread may keep a message outside the queue: the drained list only while it drains, `found` only
between taking a message out and answering it, so that the two never hold a message at the same
time. `SendNeverBlocks` needs `OneWayOut`: a message that is queued was never answered.
`OldestFirst` needs the numbering: queued messages have IDs up to `nextHeldID`, different messages have
different IDs, a message without an ID is not queued. The invariant is the conjunction of these
named parts; the proof has one step per action, and under it one per part the action can disturb.
The refinement reads the verdict off the one place a message is in (`Reading`, which is where
`OneWayOut` is used); the steps of `Hold` become `Pass`, `Wait` and `Release`, taking a message or
the whole queue out becomes `Decide`, and every other step changes no verdict.

**Flow store.** The order needs `Numbering`: no flow is numbered above `nextID` and none is held
without a number, so that a flow added last is numbered last. The cache needs `MetaNotAhead`: it is
never of a revision still to come, so a call that moves the revision leaves it stale but never
wrongly fresh. All that a proxy goroutine does after `Add` changes neither the numbers nor who is
held; that is proved once (`ProxyTouches`). The running total is compared with a fold over the
flows held. A fold takes one element after the other out of a set in an order nobody knows, so
`SeqFacts` proves, by induction over the size of the set, that the recursion has a solution and
that the order does not matter; from there the total follows each call, and an eviction is minimal
because the total it goes by is exact. The library's induction theorems take an operator the
provers cannot instantiate; the induction is built on the least element of a set of naturals
instead, which needs none (`Least`, `Induction`, `SeqInduction`).

**Proxy.** `Counted` says that the wait group is the number of goroutines that are alive, by
cardinalities; every step of a goroutine is a step of one connection (`Frame`), and the invariant is
a property of each connection alone plus what the accept loop holds. `StopIsClean` then has three
parts: the count is exact, whoever waits while Stop waits is waiting for a socket that Stop
closed or its own deadline, and when the count is zero nothing is open or tracked.

**Saves.** The core is `Tracked`: a file that is neither marked, deleted nor overtaken is on disk
in its newest version (or its write failed) if no goroutine carries it, and otherwise one of them
carries the newest. A write could break it by putting down the older of two snapshots last;
`InTurn` excludes that: of a file that is not overtaken at most one snapshot waits for the mutex,
and it is no older than the one being written. `Loads` adds that one goroutine holds each mutex
and carries each file once, `Closing` what each way of leaving has waited for. The types need that
the timers and the marks agree (`Debounce`, `Rest`).

**Window.** What is proved of the saves holds under the window because each of its steps is one of
`AppSave` or leaves the files alone; a new start is neither, and keeps the invariant because a
program that crashes in this model had nothing unsaved (`Undisturbed`). The limiter is honest
*between* operations, which is no invariant to work with: what matters is how far an operation that
is alone has come. `Reached` says that, for each place of its goroutine: which of the system, the
state and the marker already agree. `muddled` is never taken back, so as long as it is false at
most one operation is under way (`Clear`) and each step of it turns one clause of `Reached` into
the next. Closing has its own such clauses (`Ending`). That a crash finds the limit again is then
`InForceIsMarked`: a limit in force has its marker, unless the operation is between the two. The
ring of samples holds number after number, the newest before its position; `RingJoined` puts its
two parts together.

**Request tab.** Which text the pane shows is decided in four places at once: the goroutine of each
request, the loaders, three channels and the frame. The invariant follows the files first: one that
was handed over is in exactly one place - shown, set aside for an example, or queued - and its
goroutine is over (`Held`, `Apart`), so no step of a goroutine can touch it; one that is still
being fetched belongs to its goroutine alone (`Fetched`). While an answer is being stored, no other
goroutine holds the lock and the request asked for is not over yet (`Senders`), which is why an
older answer that is taken out is never the one the tab waits for. That the preview is an exact
prefix needs `WillShow`: the batches in the pane and the chunks in the channel *together* are the
first `k` batches of the file, and `previewLoaded` is `k`, or `k + 1` while a loader has counted a
batch it has not yet put into the channel (`Counts`). A loader works alone until a request overtakes
it (`Alone`); the flag `previewLoading` and the channel of previews exclude each other's user, and
that is what makes the offset of the loader at work the number of batches loaded. Chunks of the
live preview cannot come after the answer, because the answer is the last thing a goroutine sends.

**Load runner.** The table is compared with folds over its rows (`Table`, by `SumGrows`: one weight
more, and the sum grows by it), and each row keeps its own mean between its extremes. Percentiles
are taken from a sequence in order, of which it has to be proved that there is one (`Inserted`, by
induction over the sequence), and stay between the extremes because these only move apart. What
makes the table of a run complete is `RunCounts`: every number fed to a run that was not cut is in
the hands of a worker or counted, and `RunOrder`: only the newest run is fed and worked on, and a
context that is done while it runs means that it was cut. The steps of a worker differ in where it
goes and what is counted on the way (`Tally`), and are proved once (`WorkerCore`).

**WebSocket.** For the sessions the invariant says that they follow each other (`InTurn`): who is
not the newest has at most its deferred Close to do, and therefore the shared fields belong to the
newest. A new session keeps that because whoever connects while all others are over (`Over`) finds
them there; connecting while one is not sets `overlapped`, and what is proved after that is only what
each goroutine does alone (`Begun`): a connection is published before it is read or sent on.
`MessagesAttributed` needs that who has left does not come back: a message filed under the
next session stays one of a session that had given way. For the
frames it remembers, by an existential, the state the server was in at each frame that is on the
wire (`Follows`, `Tracked`): the one at the first frame is what readLoop has come to, a frame
leads from each to the next, the one behind the last frame is the server's. Each step of the server
adds one at the end, each read drops the first, and then "what was read is what was sent" is a
statement about one frame (`Step` of the reassembler against the server's own). Writing is
exact because head and body of a frame are written in one turn of the lock and the history moves
between them (`Paired`, `Synchronous`).

**Flow runner.** `NeverStuck` and `HonestRecords` need `Stacked`: a visit below the innermost one is in its loop or
following its arrows, so a return never leads to a wait, a request or a judgement. `NeverStuck`
then follows from the order of the two halves of `SetStepMode` and of `waitStep`.
`HonestRecords` needs `Tally`, by which the entries of the open record are ahead of the counters
by exactly the request that is about to be judged, and `Board`, by which no node but the
innermost one is at work or failed as long as the run is neither stopped nor marked as failed.
`UnreachableNeverRuns` compares two programs: the editor's search (`Reachable`, the least set with
the start node that no arrow and no loop leads out of) and the walk. Its invariant says that the
plan is that of a scenario (`Charted`), that every visit under way is of a node in that set, and of
a loop if it is in its rounds (`Walked`); what a loop begins with are nodes within it that are no
loops, which the search takes too. The start node is the only visit that no other one called.
`NobodyStuck`, `RecordsHonest` and `UnreachableStays` are about the runner alone, for any plans; the theorems of the
section say the same of `FlowSpec`, where the plans are made of what is on the canvas. For that it
is enough that the canvas is a scenario (`PlansOfScenes`: an arrow without one of its ends is not
in the plan) and that a new start has run nothing (`ResetInvariant`, `ResetWalks`).

**Flow editor.** `ChangesUndoable` speaks of every step that changes the drawing, and a drawing is
changed by some thirty operations. Its invariant is small where one expects it large: `Held` says
that a gesture that has moved something, or holds an arrow off the canvas, has the canvas it began
with as the last step of the history, and that one that is about to move something holds that
canvas in its hand (`snap`), unless a key was pressed during it. The other parts are shapes:
canvas, history, clipboard, files and blocks are scenarios or parts of them (`Scenes`, `Stored`),
and `mods` names files there are, so that what is opened is a scenario. With that, each operation is of one of five kinds, each proved once:
it changes the canvas in one go and pushes it first (`ChangingStep`), leaves canvas and history
alone (`SameCanvasStep`), changes what is not drawn (`CalmStep`, from `SameDrawing`,
`LabelsUnseen`, `TextsUnseen`), begins a gesture (`PressStep`) or ends one (`EndStep`). Undo and redo need that
the step they take is the last canvas that is not the one on the screen, so the one that was drawn
goes to the other stack. The history may have any length from one on: dropping its oldest step never drops the newest.
`FlowTypeOK` says more of the editor than types, and needs `Fitting` for it, which is about what is kept anywhere: canvas,
history, gesture and files hold drawings whose ids are numbers, whose nodes have what they are given by default, and among
them a start node (`Proper`), so that reading a file or a step of the history gives the same ids again; the selection
is of the canvas (`OnCanvas`), which each kind of change is shown to keep (`…Fits`, one lemma per operation);
and each file has one place in `mods` under its own number, the stored order holds no name twice and no separator
with a number not given out yet (`Listing`). A separator that is added is therefore new, and the list shows each scenario
and each separator once whatever was moved, copied, imported or deleted (`ListIs`). Of the runner
it needs that the visits under way are counted by the steps taken (`Depth`).
`CanvasSound` is not inductive: an undo brings back what is only in the history, a release what a gesture holds, a paste
what was copied, and an autosave changes what is taken for saved. Its invariant, `Clean`, says the same of all of them.
`SoundPast`: the canvas, its history and the canvas a gesture began with can be drawn, and none of their numbers is above
`ids`, so that a node or an arrow created now has a number of its own in all of them. `SoundHand`: an arrow that was taken
off can be put back, and one that is being drawn comes from a node with ports. `SoundShelf`: each file, each block and
what was copied can be drawn. `SoundSaves`:
what is taken for saved is what its file reads back as. It is conditional on `~foreign`, and each of the steps that
set `foreign` is one the code does not check. What makes a drawing of a drawing is shown to keep this once
(`SoundDerived`, `SoundAttached`, `SoundInserted`, `SoundPart`, `SoundRead`); that a file reads back is
`KeptShape` and `KeptBack`, and rests on the ids being different.
Helpers that walk a sequence are recursive functions (`Selected`); that they select is proved by
induction over the length.

**Settings.** Three things have to be known of any settings, not of those a test writes. `RoundTrip`:
what `EncodeState` writes of them is what the decoder reads into the defaults, but for the two
numbers left out when zero; it is put together from the fields upward (`HeaderBack`, `OverrideBack`, `CustomThemeBack`,
`FrontWritten`, `BackWritten`), and needs that no value of a field is `Null`, which is why the invariant
carries `WellTyped`. `SanitizeSound` and `SanitizeSame`: what `Sanitize` returns is in order, whatever it is
given, and it leaves alone what is in order; so what a file gives back is not changed on the way in,
and `SurvivesRestart` follows from the round trip (`LoadedBack`; the width that is
left out comes back as its default, which is why the property is stated up to it). `JarApart`: what `Apply` makes depends on the
settings alone but for the cookies. The invariant then says of the editor more than `InStep` does: its
texts are texts, its rows are those of the theme they are said to be of (`RowsFit`), its picker is at a
color there is (`Workable`), and its draft is in order and current even while the page is closed,
but for the sidebar (`Current`). Each event makes of a workable editor a workable one (one lemma per action, `…Keeps`),
and what the frame does after it, in the same way for all of them, makes the editor current
(`ChangedKeeps`, `ShownKeeps`); that the texts of the page survive being gathered is `HeadersOfText` and `TextOfHeaders`. A
color put into a row and into the overrides of the draft leaves both the same (`ColorPut`, `Recolored`).

### What only TLC checks

* Liveness (`DrainReleases`, `ClosedIsLeft`, `StopEnds`, `ClosedTabEnds`, `IdleSaves`): the prover
  has no rule for fairness and ENABLED here.
* The text pane and the sidebar: `EditsReversible`, `SearchFollows`, `EditorSound`, `WindowFollows` and the types of the sidebar.
* What a recursive operator computes: `CollectionFile`, `Collections` and `Sidebar` recurse over trees.

## 5. Plan

1. Proofs of `EditorSound` and `EditsReversible` of the text pane; `WindowFollows` of the sidebar
   once its trees are written without recursive operators.

## 6. Left out

Drawing, layout and geometry; text shaping; the certificate installer, the launchers and the other
operating system calls; packet capture; the contents of headers, bodies and certificates; the
match and replace of rules and scope, tables replaced and read as a whole; the MITM WebSocket log,
which is a bounded list with a revision and a cache like the flow store; the HAR parser; the binary
view; the easyjson code of collections and scenarios that nothing calls. They have no state
another thread sees, or are outside what a model of states can say. The `note` of each component
in `PROJECT.json` says what of it is left out.
