------------------------------- MODULE WSSession -------------------------------
(***************************************************************************)
(* The WebSocket tab (internal/ui/workspace/wstab_session.go): the UI      *)
(* thread connects, disconnects, sends and closes the tab; each session    *)
(* has a goroutine that dials, publishes its connection and reads it.      *)
(* Sessions share one state word, one connection field and one cancel.     *)
(***************************************************************************)
EXTENDS Integers, Sequences

CONSTANTS MaxSess,     \* bound: sessions started
          MaxMsg       \* bound: messages in the log

ASSUME BoundsAssumption == MaxSess \in Nat \ {0} /\ MaxMsg \in Nat

VARIABLES
    state,       \* WSSession.state
    count,       \* WSSession.sessionCount
    conn,        \* WSSession.conn, named by the session that dialed it
    cancel,      \* WSSession.cancel, named by its session
    closed,      \* the tab was closed
    messages,    \* WSSession.Messages: session shown, connection used
    ui,          \* the UI thread inside WSConnect, WSDisconnect or wsSend
    took,        \* the conn and cancel it read
    cancelled,   \* the sessions whose context is cancelled
    pc,          \* the goroutine of each session
    reads,       \* the connection its readLoop reads
    sock,        \* the socket of each session
    overlapped   \* history: a session was started while an older one was not over

sess == <<count, cancel, closed>>
goVars == <<pc, reads>>
uiVars == <<ui, took>>
vars == <<state, conn, sess, messages, uiVars, cancelled, goVars, sock, overlapped>>

Sessions == 1..MaxSess
Closed(c) == [sock EXCEPT ![c] = IF c \in Sessions /\ @ = "open" THEN "closed" ELSE @]
CloseSock(c) == sock' = IF c = 0 THEN sock ELSE Closed(c)

Init ==
    /\ state = "idle"
    /\ count = 0
    /\ conn = 0
    /\ cancel = 0
    /\ closed = FALSE
    /\ messages = <<>>
    /\ ui = "idle"
    /\ took = [conn |-> 0, cancel |-> 0]
    /\ cancelled = {}
    /\ pc = [s \in Sessions |-> "none"]
    /\ reads = [s \in Sessions |-> 0]
    /\ sock = [s \in Sessions |-> "none"]
    /\ overlapped = FALSE

\* A goroutine that has set Closed for the last time, or was never started, writes none of
\* the shared fields any more.
Over(s) == pc[s] \in {"none", "left", "done"}

-----------------------------------------------------------------------------
(* The UI thread.                                                          *)

\* WSConnect reads the state, which only Connecting and Open let it refuse: Closing does
\* not, although the goroutine of the last session may still be at work.
ConnectCheck ==
    /\ ui = "idle" /\ ~closed
    /\ count < MaxSess
    /\ state \notin {"connecting", "open"}
    /\ ui' = "connect"
    /\ UNCHANGED <<state, conn, sess, messages, took, cancelled, goVars, sock, overlapped>>

\* Then it stores Connecting, whatever became of the state, and starts the goroutine.
Connect ==
    /\ ui = "connect"
    /\ count' = count + 1
    /\ state' = "connecting"
    /\ cancel' = count'
    /\ pc' = [pc EXCEPT ![count'] = "dial"]
    /\ overlapped' = (overlapped \/ \E s \in Sessions : ~Over(s))
    /\ ui' = "idle"
    /\ UNCHANGED <<conn, closed, messages, took, cancelled, reads, sock>>

\* WSDisconnect reads the state, stores Closing, and takes conn and cancel: a
\* goroutine may move between any two of these.
DisconnectCheck ==
    /\ ui = "idle" /\ ~closed
    /\ state \in {"open", "connecting"}
    /\ ui' = "closing"
    /\ UNCHANGED <<state, conn, sess, messages, took, cancelled, goVars, sock, overlapped>>

DisconnectState ==
    /\ ui = "closing"
    /\ state' = "closing"
    /\ ui' = "take"
    /\ UNCHANGED <<conn, sess, messages, took, cancelled, goVars, sock, overlapped>>

DisconnectTake ==
    /\ ui = "take"
    /\ took' = [conn |-> conn, cancel |-> cancel]
    /\ ui' = "close"
    /\ UNCHANGED <<state, conn, sess, messages, cancelled, goVars, sock, overlapped>>

\* The close frame, cancel, and Close.
DisconnectClose ==
    /\ ui = "close"
    /\ cancelled' = IF took.cancel = 0 THEN cancelled ELSE cancelled \cup {took.cancel}
    /\ CloseSock(took.conn)
    /\ ui' = "idle"
    /\ UNCHANGED <<state, conn, sess, messages, took, goVars, overlapped>>

\* wsSend and WSSendProto take the connection, then read the state: a goroutine may move
\* in between, and again before the frame is written.
SendTake ==
    /\ ui = "idle" /\ ~closed
    /\ took' = [took EXCEPT !.conn = conn]
    /\ ui' = "check"
    /\ UNCHANGED <<state, conn, sess, messages, cancelled, goVars, sock, overlapped>>

SendCheck ==
    /\ ui = "check"
    /\ ui' = IF state = "open" /\ took.conn # 0 THEN "send" ELSE "idle"
    /\ UNCHANGED <<state, conn, sess, messages, took, cancelled, goVars, sock, overlapped>>

Log(s, c, dir) == messages' = Append(messages, [session |-> s, conn |-> c, dir |-> dir])

\* A write to a closed connection is noted and not logged (nor is one beyond MaxMsg).
SendWrite ==
    /\ ui = "send"
    /\ IF sock[took.conn] = "open" /\ Len(messages) < MaxMsg
       THEN Log(count, took.conn, "out")
       ELSE UNCHANGED messages
    /\ ui' = "idle"
    /\ UNCHANGED <<state, conn, sess, took, cancelled, goVars, sock, overlapped>>

ClearMessages ==
    /\ ui = "idle" /\ ~closed
    /\ messages # <<>>
    /\ messages' = <<>>
    /\ UNCHANGED <<state, conn, sess, uiVars, cancelled, goVars, sock, overlapped>>

\* Mutant: the closed tab only closes the connection.
MarkClosedKeepsDial ==
    /\ ui = "idle" /\ ~closed
    /\ closed' = TRUE
    /\ CloseSock(conn)
    /\ UNCHANGED <<state, conn, count, cancel, messages, uiVars, cancelled, goVars, overlapped>>

\* The tab is closed.
MarkClosed ==
    /\ ui = "idle" /\ ~closed
    /\ closed' = TRUE
    /\ cancelled' = IF cancel = 0 THEN cancelled ELSE cancelled \cup {cancel}
    /\ CloseSock(conn)
    /\ UNCHANGED <<state, conn, count, cancel, messages, uiVars, goVars, overlapped>>

-----------------------------------------------------------------------------
(* The goroutine of session s.                                             *)

GoAt(s, from, to) ==
    /\ pc[s] = from
    /\ pc' = [pc EXCEPT ![s] = to]

DialFails(s) ==
    /\ GoAt(s, "dial", "done")
    /\ state' = "closed"
    /\ cancelled' = cancelled \cup {s}
    /\ UNCHANGED <<conn, sess, messages, uiVars, reads, sock, overlapped>>

DialSucceeds(s) ==
    /\ GoAt(s, "dial", "check")
    /\ sock' = [sock EXCEPT ![s] = "open"]
    /\ UNCHANGED <<state, conn, sess, messages, uiVars, cancelled, reads, overlapped>>

\* Cancelled while it was dialing.
CheckCancelled(s) ==
    /\ s \in cancelled
    /\ GoAt(s, "check", "done")
    /\ CloseSock(s)
    /\ state' = "closed"
    /\ UNCHANGED <<conn, sess, messages, uiVars, cancelled, reads, overlapped>>

CheckGoesOn(s) ==
    /\ s \notin cancelled
    /\ GoAt(s, "check", "publish")
    /\ UNCHANGED <<state, conn, sess, messages, uiVars, cancelled, reads, sock, overlapped>>

\* Mutant: the state becomes Open before the connection is published.
SetOpenEarly(s) ==
    /\ GoAt(s, "publish", "opened")
    /\ state' = "open"
    /\ UNCHANGED <<conn, sess, messages, uiVars, cancelled, reads, sock, overlapped>>

SetConnInfo(s) ==
    /\ GoAt(s, "publish", "opened")
    /\ conn' = s
    /\ UNCHANGED <<state, sess, messages, uiVars, cancelled, reads, sock, overlapped>>

SetOpen(s) ==
    /\ GoAt(s, "opened", "loop")
    /\ state' = "open"
    /\ UNCHANGED <<conn, sess, messages, uiVars, cancelled, reads, sock, overlapped>>

\* readLoop reads the connection field again.
ReadLoop(s) ==
    /\ GoAt(s, "loop", "read")
    /\ reads' = [reads EXCEPT ![s] = conn]
    /\ UNCHANGED <<state, conn, sess, messages, uiVars, cancelled, sock, overlapped>>

\* The watcher closes the connection of a cancelled session.
Watch(s) ==
    /\ pc[s] = "read"
    /\ s \in cancelled
    /\ sock[reads[s]] = "open"
    /\ CloseSock(reads[s])
    /\ UNCHANGED <<state, conn, sess, messages, uiVars, cancelled, goVars, overlapped>>

ReadMessage(s) ==
    /\ pc[s] = "read"
    /\ sock[reads[s]] = "open"
    /\ Len(messages) < MaxMsg
    /\ Log(s, reads[s], "in")
    /\ UNCHANGED <<state, conn, sess, uiVars, cancelled, goVars, sock, overlapped>>

ReadsClosed(s) == pc[s] = "read" /\ sock[reads[s]] = "closed"

\* The peer closes or sends garbage, or this side closed the connection.
ReadEnds(s) ==
    /\ GoAt(s, "read", "leave")
    /\ UNCHANGED <<state, conn, sess, messages, uiVars, cancelled, reads, sock, overlapped>>

\* Mutant: the deferred Close of readLoop is missing.
LeaveOpen(s) ==
    /\ GoAt(s, "leave", "done")
    /\ state' = "closed"
    /\ UNCHANGED <<conn, sess, messages, uiVars, cancelled, reads, sock, overlapped>>

\* The deferred calls of readLoop: the state, then Close.
LeaveState(s) ==
    /\ GoAt(s, "leave", "left")
    /\ state' = "closed"
    /\ UNCHANGED <<conn, sess, messages, uiVars, cancelled, reads, sock, overlapped>>

LeaveClose(s) ==
    /\ GoAt(s, "left", "done")
    /\ CloseSock(reads[s])
    /\ UNCHANGED <<state, conn, sess, messages, uiVars, cancelled, reads, overlapped>>

-----------------------------------------------------------------------------

\* The UI thread goes on with what it began.
UIStep ==
    \/ Connect
    \/ DisconnectState \/ DisconnectTake \/ DisconnectClose
    \/ SendCheck

UserStep ==
    \/ ConnectCheck
    \/ DisconnectCheck
    \/ SendTake
    \/ ClearMessages
    \/ MarkClosed

OwnStep(s) ==
    \/ DialFails(s)
    \/ CheckCancelled(s)
    \/ CheckGoesOn(s)
    \/ SetConnInfo(s)
    \/ SetOpen(s)
    \/ ReadLoop(s)
    \/ Watch(s)
    \/ LeaveState(s)
    \/ LeaveClose(s)

Next ==
    \/ UserStep
    \/ UIStep
    \/ SendWrite
    \/ \E s \in Sessions : OwnStep(s) \/ DialSucceeds(s) \/ ReadMessage(s) \/ ReadEnds(s)

Spec == Init /\ [][Next]_vars

\* The UI thread and the goroutines run; a dial ends within 15 s one way or the other;
\* a read of a connection this side closed ends.  Peers need not do anything.
Fairness ==
    /\ WF_vars(UIStep)
    /\ WF_vars(SendWrite)
    /\ \A s \in Sessions :
           /\ WF_vars(OwnStep(s))
           /\ WF_vars(ReadsClosed(s) /\ ReadEnds(s))

FairSpec == Spec /\ Fairness

-----------------------------------------------------------------------------
(* Properties.                                                             *)

Names == 0..MaxSess

TypeOK ==
    /\ state \in {"idle", "connecting", "open", "closing", "closed"}
    /\ count \in Names /\ conn \in Names /\ cancel \in Names
    /\ closed \in BOOLEAN
    /\ \A i \in DOMAIN messages :
           messages[i] \in [session : Sessions, conn : Sessions, dir : {"in", "out"}]
    /\ ui \in {"idle", "connect", "closing", "take", "close", "check", "send"}
    /\ overlapped \in BOOLEAN
    /\ took \in [conn : Names, cancel : Names]
    /\ cancelled \subseteq Sessions
    /\ pc \in [Sessions -> {"none", "dial", "check", "publish", "opened", "loop", "read", "leave",
                            "left", "done"}]
    /\ reads \in [Sessions -> Names]
    /\ sock \in [Sessions -> {"none", "open", "closed"}]

Alive(s) == pc[s] \notin {"none", "done"}

\* No two goroutines read the same connection: a frame would be torn between them.
OneReader ==
    \A s, t \in Sessions :
        s # t /\ pc[s] = "read" /\ pc[t] = "read" => reads[s] # reads[t]

\* An open connection is in the hands of the goroutine that dialed it, which closes it
\* when it leaves.
NoneLeaked ==
    \A s \in Sessions :
        sock[s] = "open" =>
            /\ Alive(s)
            /\ pc[s] \in {"read", "leave", "left"} => reads[s] = s

\* Every connection has one owner, who reads it alone and closes it.
ConnectionsOwned == OneReader /\ NoneLeaked

\* workspace_test.go:13717: "WSConnect must be a no-op" while a session connects or is
\* open: there is one session at a time.  What the user can disconnect is what runs:
\* while the state is Open the connection and the cancel a disconnect takes are those
\* of the goroutine that runs.
OpenIsReachable ==
    state = "open" =>
        /\ conn = count /\ cancel = count
        /\ Alive(count)

\* A message is logged under the session whose connection carried it; or else wsSend took
\* the connection of a session that had set Closed and not yet closed it, and found the
\* state Open because the next session had opened meanwhile.
Attributed(m) ==
    \/ m.conn = m.session
    \/ m.dir = "out" /\ m.conn < m.session /\ pc[m.conn] \in {"left", "done"}

MessagesAttributed == \A i \in DOMAIN messages : Attributed(messages[i])

\* What the tab shows is one session: the connection a disconnect would close and the
\* session the messages are filed under are those of the goroutine that reads them.
SessionIsCurrent == OpenIsReachable /\ MessagesAttributed

\* The sessions of a tab never tear, leak or mix up a connection, unless one was started
\* while the goroutine of an older one still had its last word on the state to say.
SessionsSound == TypeOK /\ (~overlapped => ConnectionsOwned /\ SessionIsCurrent)

\* After the tab is closed every goroutine ends and every connection is closed, whatever the
\* peers do; if sessions overlapped, the goroutine of the newest ends.
ClosedTabEnds ==
    closed ~> \A s \in Sessions :
                  /\ overlapped => s # count \/ ~Alive(s)
                  /\ ~overlapped => ~Alive(s) /\ sock[s] # "open"

\* workspace_test.go:13954: "MarkClosed must cancel the WS session".  When the tab is
\* closed no session is left at work that was not cancelled.
MarkClosedCancels ==
    closed => \A s \in Sessions : Over(s) \/ pc[s] = "leave" \/ s \in cancelled
=============================================================================
