--------------------------- MODULE WSChannelProofs ---------------------------
(***************************************************************************)
(* Proofs about the WebSocket tab, for any number of sessions and frames.  *)
(* The sessions follow each other: whoever is not the newest has at most   *)
(* its deferred Close to do, which is why a connection and a cancel belong *)
(* to the newest.  That ends where one is started over another that is not *)
(* over, and what is said then is only what every goroutine does alone.    *)
(* The channel seen from near takes no step that the sessions do not take. *)
(***************************************************************************)
EXTENDS WSChannel, SeqFacts

-----------------------------------------------------------------------------
(* The sessions.                                                           *)

\* Sessions start one after the other, and a connection is published before it is read or
\* sent on.
Begun ==
    /\ cancel = count
    /\ \A s \in Sessions : s > count <=> pc[s] = "none"
    /\ conn <= count /\ took.conn <= count
    /\ \A s \in Sessions : pc[s] \in {"opened", "loop"} => conn # 0
    /\ \A s \in Sessions : pc[s] \in {"read", "leave", "left"} => reads[s] # 0
    /\ ui = "send" => took.conn # 0
    /\ ui = "connect" => count < MaxSess

\* An older session has nothing left but to close.
InTurn == \A s \in Sessions : s < count => pc[s] \in {"left", "done"}

\* What the shared state word says about the newest.
StateTells ==
    /\ state = "idle" => count = 0
    /\ state # "idle" => count # 0
    /\ ui \in {"closing", "take", "close"} => count # 0
    /\ state = "connecting" => pc[count] \in {"dial", "check", "publish", "opened"}
    /\ state = "open" => pc[count] \in {"loop", "read", "leave"}
    /\ state = "closed" => pc[count] \in {"left", "done"}

\* The connection field is that of the newest once it was published, and the goroutine
\* reads its own.
Owned ==
    /\ count # 0 /\ pc[count] \in {"opened", "loop", "read", "leave"} => conn = count
    /\ \A s \in Sessions : pc[s] \in {"read", "leave", "left"} => reads[s] = s

\* A socket is opened by its dial and not left open.
SocketsClosed ==
    \A s \in Sessions :
        /\ pc[s] \in {"none", "dial"} => sock[s] = "none"
        /\ pc[s] = "done" => sock[s] # "open"

Typed ==
    /\ state \in {"idle", "connecting", "open", "closing", "closed"}
    /\ count \in Names /\ conn \in Names /\ cancel \in Names
    /\ closed \in BOOLEAN /\ overlapped \in BOOLEAN
    /\ ui \in {"idle", "connect", "closing", "take", "close", "check", "send"}
    /\ took \in [conn : Names, cancel : Names]
    /\ cancelled \subseteq Sessions
    /\ pc \in [Sessions -> {"none", "dial", "check", "publish", "opened", "loop", "read", "leave",
                            "left", "done"}]
    /\ reads \in [Sessions -> Names]
    /\ sock \in [Sessions -> {"none", "open", "closed"}]

Moves == Typed /\ Begun /\ (~overlapped => InTurn /\ StateTells /\ Owned /\ SocketsClosed)

\* The log.
Entries == [session : Sessions, conn : Sessions, dir : {"in", "out"}]

Filed ==
    /\ messages \in Seq(Entries)
    /\ \A i \in DOMAIN messages : messages[i] \in Entries
    /\ ~overlapped => MessagesAttributed

SInv == Moves /\ Filed

LEMMA SessionInit == Init => SInv
<1> SUFFICES ASSUME Init PROVE SInv
  OBVIOUS
<1>1. Filed
  BY DEF Init, Filed, MessagesAttributed
<1>2. Typed
  <2>1. 0 \in Names
    BY BoundsAssumption DEF Names
  <2> QED
    BY <2>1 DEF Init, Typed
<1>3. Begun /\ InTurn /\ StateTells /\ Owned /\ SocketsClosed
  BY BoundsAssumption DEF Init, Begun, InTurn, StateTells, Owned, SocketsClosed, Sessions
<1> QED
  BY <1>1, <1>2, <1>3 DEF SInv, Moves

\* Who has left does not come back.
Gone(s) == pc[s] \in {"left", "done"} => pc'[s] \in {"left", "done"}

LEMMA StaysAttributed ==
    ASSUME NEW m \in Entries, Attributed(m), \A s \in Sessions : Gone(s)
    PROVE  Attributed(m)'
<1>1. m.conn \in Sessions
  BY DEF Entries
<1> QED
  BY <1>1 DEF Attributed, Gone

\* A step that logs nothing, and one that logs a message.
LEMMA NothingLogged ==
    ASSUME Filed, messages' \in {messages, <<>>}, overlapped => overlapped',
           \A s \in Sessions : Gone(s)
    PROVE  Filed'
<1>1. CASE messages' = messages
  <2>1. messages' \in Seq(Entries) /\ \A i \in DOMAIN messages' : messages'[i] \in Entries
    BY <1>1 DEF Filed
  <2>2. ASSUME ~overlapped', NEW i \in DOMAIN messages' PROVE Attributed(messages[i])'
    <3>1. PICK m \in Entries : m = messages[i] /\ Attributed(m)
      BY <1>1, <2>2 DEF Filed, MessagesAttributed
    <3>2. Attributed(m)'
      BY <3>1, StaysAttributed
    <3> QED
      BY <1>1, <3>1, <3>2 DEF Attributed
  <2> QED
    BY <2>1, <2>2 DEF Filed, MessagesAttributed
<1>2. CASE messages' = <<>>
  BY <1>2 DEF Filed, MessagesAttributed
<1> QED
  BY <1>1, <1>2

LEMMA OneLogged ==
    ASSUME Filed, NEW s \in Sessions, NEW c \in Sessions, NEW dir \in {"in", "out"}, Log(s, c, dir),
           overlapped' = overlapped, pc' = pc,
           ~overlapped => Attributed([session |-> s, conn |-> c, dir |-> dir])
    PROVE  Filed'
<1>1. PICK e \in Entries : /\ messages' = Append(messages, e)
                           /\ e = [session |-> s, conn |-> c, dir |-> dir]
  BY DEF Log, Entries
<1>2. /\ messages \in Seq(Entries) /\ messages' \in Seq(Entries)
      /\ Len(messages') = Len(messages) + 1
      /\ \A i \in 1..Len(messages') : messages'[i] = IF i <= Len(messages) THEN messages[i] ELSE e
  BY <1>1 DEF Filed
<1>3. \A i \in DOMAIN messages' : messages'[i] = e \/ (i \in DOMAIN messages /\ messages'[i] = messages[i])
  BY <1>2
<1>4. ASSUME ~overlapped', NEW i \in DOMAIN messages' PROVE Attributed(messages[i])'
  <2>1. PICK m \in Entries : m = messages'[i] /\ Attributed(m)
    BY <1>1, <1>3, <1>4 DEF Filed, MessagesAttributed
  <2> QED
    BY <2>1 DEF Attributed
<1>5. \A i \in DOMAIN messages' : messages'[i] \in Entries
  BY <1>1, <1>3 DEF Filed
<1> QED
  BY <1>2, <1>4, <1>5 DEF Filed, MessagesAttributed

LEMMA UserSteps ==
    ASSUME SInv, UserStep \/ UIStep \/ SendWrite
    PROVE  SInv'
<1> USE BoundsAssumption DEF Moves, Typed, Begun, InTurn, StateTells, Owned, SocketsClosed,
     Sessions, Names, sess, uiVars, goVars
<1>0. Moves /\ Filed
  BY DEF SInv
<1>1. CASE ConnectCheck
  <2>1. Moves'
    BY <1>0, <1>1 DEF ConnectCheck
  <2> QED
    BY <1>0, <1>1, <2>1, NothingLogged DEF SInv, ConnectCheck, Gone
<1>2. CASE Connect
  <2>1. /\ count' = count + 1 /\ cancel' = count' /\ state' = "connecting" /\ ui' = "idle"
        /\ overlapped' = (overlapped \/ \E s \in Sessions : ~Over(s))
        /\ pc' = [pc EXCEPT ![count'] = "dial"]
        /\ UNCHANGED <<conn, took, closed, cancelled, reads, sock>>
    BY <1>2 DEF Connect
  <2>2. count' \in Sessions /\ pc[count'] = "none" /\ overlapped' \in BOOLEAN
    <3>1. ui = "connect"
      BY <1>2 DEF Connect
    <3>2. count' \in Sessions /\ pc[count'] = "none"
      BY <1>0, <2>1, <3>1
    <3>3. overlapped' \in BOOLEAN
      BY <2>1, Zenon
    <3> QED
      BY <3>2, <3>3
  <2>3. /\ pc'[count'] = "dial" /\ \A s \in Sessions : s # count' => pc'[s] = pc[s]
        /\ pc' \in [Sessions -> {"none", "dial", "check", "publish", "opened", "loop", "read", "leave",
                                  "left", "done"}]
    BY <1>0, <2>1, <2>2
  <2>4. Typed' /\ Begun'
    BY <1>0, <2>1, <2>2, <2>3
  <2>5. ~overlapped' => InTurn' /\ StateTells' /\ Owned' /\ SocketsClosed'
    <3> SUFFICES ASSUME ~overlapped' PROVE InTurn' /\ StateTells' /\ Owned' /\ SocketsClosed'
      OBVIOUS
    <3>1. ~overlapped /\ \A s \in Sessions : Over(s)
      BY <2>1
    <3> QED
      BY <1>0, <2>1, <2>2, <2>3, <3>1 DEF Over
  <2>6. Filed'
    BY <1>0, <1>2, <2>1, NothingLogged DEF Connect, Gone
  <2> QED
    BY <2>4, <2>5, <2>6 DEF SInv
<1>3. CASE DisconnectCheck
  <2>1. Moves'
    BY <1>0, <1>3 DEF DisconnectCheck
  <2> QED
    BY <1>0, <1>3, <2>1, NothingLogged DEF SInv, DisconnectCheck, Gone
<1>4. CASE SendTake
  <2>1. Moves'
    BY <1>0, <1>4 DEF SendTake
  <2> QED
    BY <1>0, <1>4, <2>1, NothingLogged DEF SInv, SendTake, Gone
<1>5. CASE SendCheck
  <2>1. Moves'
    BY <1>0, <1>5 DEF SendCheck
  <2> QED
    BY <1>0, <1>5, <2>1, NothingLogged DEF SInv, SendCheck, Gone
<1>6. CASE ClearMessages
  <2>1. Moves'
    BY <1>0, <1>6 DEF ClearMessages
  <2> QED
    BY <1>0, <1>6, <2>1, NothingLogged DEF SInv, ClearMessages, Gone
<1>7. CASE MarkClosed
  <2>1. Moves'
    BY <1>0, <1>7 DEF MarkClosed, CloseSock, Closed
  <2> QED
    BY <1>0, <1>7, <2>1, NothingLogged DEF SInv, MarkClosed, Gone
<1>8. CASE DisconnectState
  <2>1. Moves'
    BY <1>0, <1>8 DEF DisconnectState
  <2> QED
    BY <1>0, <1>8, <2>1, NothingLogged DEF SInv, DisconnectState, Gone
<1>9. CASE DisconnectTake
  <2>1. Moves'
    BY <1>0, <1>9 DEF DisconnectTake
  <2> QED
    BY <1>0, <1>9, <2>1, NothingLogged DEF SInv, DisconnectTake, Gone
<1>10. CASE DisconnectClose
  <2>1. sock' = sock \/ (took.conn \in Sessions /\ sock[took.conn] = "open"
                           /\ sock' = [sock EXCEPT ![took.conn] = "closed"])
    BY <1>0, <1>10 DEF DisconnectClose, CloseSock, Closed
  <2>2. /\ sock' \in [Sessions -> {"none", "open", "closed"}]
        /\ \A s \in Sessions : sock'[s] = sock[s] \/ (sock[s] = "open" /\ sock'[s] = "closed")
    BY <1>0, <2>1
  <2>3. cancelled' \subseteq Sessions
    <3>1. took.cancel # 0 => took.cancel \in Sessions
      BY <1>0
    <3> QED
      BY <1>0, <1>10, <3>1 DEF DisconnectClose
  <2>4. Moves'
    BY <1>0, <1>10, <2>2, <2>3 DEF DisconnectClose
  <2> QED
    BY <1>0, <1>10, <2>4, NothingLogged DEF SInv, DisconnectClose, Gone
<1>11. CASE SendWrite
  <2>1. took.conn \in Sessions /\ count \in Sessions /\ overlapped' = overlapped /\ pc' = pc
    BY <1>0, <1>11 DEF SendWrite
  <2>2. Moves'
    BY <1>0, <1>11 DEF SendWrite
  <2>3. Filed'
    <3>1. CASE messages' = messages
      BY <1>0, <2>1, <3>1, NothingLogged DEF Gone
    <3>2. CASE Log(count, took.conn, "out")
      <4>1. ~overlapped => took.conn = count \/ (took.conn < count /\ pc[took.conn] \in {"left", "done"})
        BY <1>0, <2>1
      <4>2. ~overlapped => Attributed([session |-> count, conn |-> took.conn, dir |-> "out"])
        BY <4>1 DEF Attributed
      <4> QED
        BY <1>0, <2>1, <3>2, <4>2, OneLogged
    <3> QED
      BY <1>11, <3>1, <3>2 DEF SendWrite
  <2> QED
    BY <2>2, <2>3 DEF SInv
<1> QED
  BY <1>1, <1>2, <1>3, <1>4, <1>5, <1>6, <1>7, <1>8, <1>9, <1>10, <1>11 DEF UserStep, UIStep

LEMMA GoroutineSteps ==
    ASSUME SInv, NEW s \in Sessions, OwnStep(s) \/ DialSucceeds(s) \/ ReadMessage(s) \/ ReadEnds(s)
    PROVE  SInv'
<1> USE BoundsAssumption DEF Moves, Typed, Begun, InTurn, StateTells, Owned, SocketsClosed,
     Sessions, Names, sess, uiVars, goVars, GoAt
<1>0. Moves /\ Filed
  BY DEF SInv
<1>1. CASE DialFails(s)
  <2>1. Moves'
    BY <1>0, <1>1 DEF DialFails
  <2> QED
    BY <1>0, <1>1, <2>1, NothingLogged DEF SInv, DialFails, Gone
<1>2. CASE CheckCancelled(s)
  <2>1. Moves'
    <3>1. Typed' /\ Begun'
      BY <1>0, <1>2 DEF CheckCancelled, CloseSock, Closed
    <3>2. ~overlapped => InTurn' /\ StateTells'
      BY <1>0, <1>2 DEF CheckCancelled
    <3>3. ~overlapped => Owned' /\ SocketsClosed'
      BY <1>0, <1>2 DEF CheckCancelled, CloseSock, Closed
    <3>4. overlapped' = overlapped
      BY <1>2 DEF CheckCancelled
    <3> QED
      BY <3>1, <3>2, <3>3, <3>4
  <2> QED
    BY <1>0, <1>2, <2>1, NothingLogged DEF SInv, CheckCancelled, Gone
<1>3. CASE CheckGoesOn(s)
  <2>1. Moves'
    BY <1>0, <1>3 DEF CheckGoesOn
  <2> QED
    BY <1>0, <1>3, <2>1, NothingLogged DEF SInv, CheckGoesOn, Gone
<1>4. CASE SetConnInfo(s)
  <2>1. Moves'
    <3>1. Typed' /\ Begun'
      BY <1>0, <1>4 DEF SetConnInfo
    <3>2. ~overlapped => InTurn' /\ StateTells'
      BY <1>0, <1>4 DEF SetConnInfo
    <3>3. ~overlapped => Owned' /\ SocketsClosed'
      BY <1>0, <1>4 DEF SetConnInfo
    <3>4. overlapped' = overlapped
      BY <1>4 DEF SetConnInfo
    <3> QED
      BY <3>1, <3>2, <3>3, <3>4
  <2> QED
    BY <1>0, <1>4, <2>1, NothingLogged DEF SInv, SetConnInfo, Gone
<1>5. CASE SetOpen(s)
  <2>1. Moves'
    BY <1>0, <1>5 DEF SetOpen
  <2> QED
    BY <1>0, <1>5, <2>1, NothingLogged DEF SInv, SetOpen, Gone
<1>6. CASE ReadLoop(s)
  <2>1. Moves'
    BY <1>0, <1>6 DEF ReadLoop
  <2> QED
    BY <1>0, <1>6, <2>1, NothingLogged DEF SInv, ReadLoop, Gone
<1>7. CASE Watch(s)
  <2>1. Moves'
    BY <1>0, <1>7 DEF Watch, CloseSock, Closed
  <2> QED
    BY <1>0, <1>7, <2>1, NothingLogged DEF SInv, Watch, Gone
<1>8. CASE LeaveState(s)
  <2>1. Moves'
    BY <1>0, <1>8 DEF LeaveState
  <2> QED
    BY <1>0, <1>8, <2>1, NothingLogged DEF SInv, LeaveState, Gone
<1>9. CASE LeaveClose(s)
  <2>1. Moves'
    BY <1>0, <1>9 DEF LeaveClose, CloseSock, Closed
  <2> QED
    BY <1>0, <1>9, <2>1, NothingLogged DEF SInv, LeaveClose, Gone
<1>10. CASE DialSucceeds(s)
  <2>1. Moves'
    BY <1>0, <1>10 DEF DialSucceeds
  <2> QED
    BY <1>0, <1>10, <2>1, NothingLogged DEF SInv, DialSucceeds, Gone
<1>11. CASE ReadMessage(s)
  <2>1. reads[s] \in Sessions /\ Log(s, reads[s], "in") /\ overlapped' = overlapped /\ pc' = pc
    BY <1>0, <1>11 DEF ReadMessage
  <2>2. Moves'
    BY <1>0, <1>11 DEF ReadMessage
  <2>3. ~overlapped => reads[s] = s
    BY <1>0, <1>11 DEF ReadMessage
  <2>4. ~overlapped => Attributed([session |-> s, conn |-> reads[s], dir |-> "in"])
    BY <2>3 DEF Attributed
  <2>5. Filed'
    BY <1>0, <2>1, <2>4, OneLogged
  <2> QED
    BY <2>2, <2>5 DEF SInv
<1>12. CASE ReadEnds(s)
  <2>1. Moves'
    BY <1>0, <1>12 DEF ReadEnds
  <2> QED
    BY <1>0, <1>12, <2>1, NothingLogged DEF SInv, ReadEnds, Gone
<1> QED
  BY <1>1, <1>2, <1>3, <1>4, <1>5, <1>6, <1>7, <1>8, <1>9, <1>10, <1>11, <1>12 DEF OwnStep

\* What the invariant says of the properties.
LEMMA SessionsFollow == SInv => SessionsSound
<1> SUFFICES ASSUME SInv PROVE SessionsSound
  OBVIOUS
<1>0. Moves /\ Filed
  BY DEF SInv
<1>1. ~overlapped => OneReader
  BY <1>0 DEF Moves, Owned, OneReader
<1>2. ~overlapped => NoneLeaked
  BY <1>0 DEF Moves, Typed, Owned, SocketsClosed, NoneLeaked, Alive
<1>3. ~overlapped => OpenIsReachable
  BY <1>0 DEF Moves, Begun, StateTells, Owned, OpenIsReachable, Alive
<1>4. TypeOK
  BY <1>0 DEF Moves, Typed, Filed, Entries, TypeOK
<1> QED
  BY <1>0, <1>1, <1>2, <1>3, <1>4 DEF Filed, SessionsSound, ConnectionsOwned, SessionIsCurrent

LEMMA SessionStep == ASSUME SInv, [Next]_vars PROVE SInv'
<1>1. CASE UNCHANGED vars
  <2>1. Moves'
    BY <1>1 DEF vars, sess, uiVars, goVars, SInv, Moves, Typed, Begun, InTurn, StateTells, Owned,
       SocketsClosed
  <2> QED
    BY <1>1, <2>1, NothingLogged DEF vars, goVars, SInv, Gone
<1> QED
  BY <1>1, UserSteps, GoroutineSteps DEF Next

\* However many sessions follow each other, and whenever the user connects again: until one
\* is started over another that is not over, no frame is torn between two readers, no
\* connection leaks, a disconnect reaches what runs, and each message is logged under the
\* session that carried it, but for a frame that went out as its session gave way.
THEOREM SessionsNeverMix == Spec => []SessionsSound
<1>1. SInv /\ [Next]_vars => SInv'
  BY SessionStep
<1> QED
  BY <1>1, SessionInit, SessionsFollow, PTL DEF Spec

-----------------------------------------------------------------------------
(* From near.                                                              *)

LEMMA NearStep == [ChannelNext]_allVars => [Next]_vars
<1> SUFFICES ASSUME [ChannelNext]_allVars PROVE Next \/ UNCHANGED vars
  OBVIOUS
<1>0. 1 \in Sessions
  BY BoundsAssumption DEF Sessions
<1>1. CASE UNCHANGED allVars
  BY <1>1 DEF allVars
<1>2. CASE Afar /\ Next
  BY <1>2
<1>3. CASE NearSession
  BY <1>0, <1>3 DEF NearSession, UIGoesOn, Next, UserStep, UIStep
<1>4. ASSUME NEW f, Sends(f) PROVE UNCHANGED vars
  BY <1>4 DEF Sends
<1>5. CASE ServerStep
  BY <1>4, <1>5 DEF ServerStep, ServerBegins, ServerContinues, ServerPings, ServerCloses,
     ServerBreaks, ServerLeaves
<1>6. CASE ReadNext
  BY <1>6 DEF ReadNext
<1>7. CASE ReadStops
  BY <1>0, <1>7 DEF ReadStops, Next
<1>8. CASE UIWrites
  BY <1>8 DEF UIWrites, UIWritesHead, UIWritesBody, UISendFails, UIWritesClose, UICloseWritten,
     UIDisconnects, Next, UIStep
<1>9. CASE ReaderAnswers
  BY <1>9 DEF ReaderAnswers, ReaderWritesHead, ReaderWritesBody, ReaderCannotWrite
<1> QED
  BY <1>1, <1>2, <1>3, <1>5, <1>6, <1>7, <1>8, <1>9 DEF ChannelNext

\* Frame by frame, the channel does what the sessions do: the server, readLoop's answers
\* and the halves of a write change nothing of them, and every other step is one of theirs.
THEOREM ChannelImplementsSessions == ChannelSpec => Spec
<1>1. ChannelInit => Init
  BY DEF ChannelInit
<1> QED
  BY <1>1, NearStep, PTL DEF ChannelSpec, Spec

\* So what holds of the sessions holds of the channel.
THEOREM ChannelSound == ChannelSpec => []SessionsSound
  BY SessionsNeverMix, ChannelImplementsSessions, PTL

-----------------------------------------------------------------------------
(* The Reassembler and the histories.  The invariant remembers the state   *)
(* the server was in at each frame that is still on its way: the one at    *)
(* the first frame is what readLoop has come to, and a frame leads from    *)
(* each to the next.                                                       *)

Parts == [n : Nat, dict : Seq(Nat)]
Coded(x, compressed, hist) == IF compressed THEN DictOf(x.fresh, hist) ELSE Raw
Opened(compressed, buf) ==
    [open |-> TRUE, op |-> "data", compressed |-> compressed, buf |-> buf]

\* A message that is open, its parts coded with the history there is.
Opening(x, hist, compressed, buf) ==
    /\ compressed \in BOOLEAN /\ (compressed => x.negotiated)
    /\ buf \in Seq(Parts) /\ Len(buf) \in 1..MaxParts
    /\ \A i \in 1..Len(buf) : buf[i].dict = Coded(x, compressed, hist)

HalfOK(x, hist, m) ==
    \/ m = NoMessage
    \/ \E c, buf : m = Opened(c, buf) /\ Opening(x, hist, c, buf)

At(m, hist, w, p) == [half |-> m, hist |-> hist, wholes |-> w, pings |-> p]

Well(x, st) ==
    /\ st = At(st.half, st.hist, st.wholes, st.pings)
    /\ st.hist \in Seq(Nat) /\ Len(st.hist) <= Window
    /\ HalfOK(x, st.hist, st.half)
    /\ st.wholes \in Nat /\ st.pings \in Nat

\* The message m is whole, and the next of those the server finished (W).
Finishes(x, W, st, m, nx) ==
    /\ st.wholes + 1 \in DOMAIN W
    /\ W[st.wholes + 1] = Numbers(m.buf)
    /\ nx = At(NoMessage, IF m.compressed THEN Kept(x.fresh, st.hist, m.buf) ELSE st.hist,
               st.wholes + 1, st.pings)

Grows(x, W, st, f, m, nx) ==
    IF f.fin THEN Finishes(x, W, st, m, nx) ELSE nx = At(m, st.hist, st.wholes, st.pings)

LegalBegin(x, W, st, f, nx) ==
    /\ f.op = "data" /\ ~st.half.open
    /\ f.rsv1 \in BOOLEAN /\ (f.rsv1 => x.negotiated)
    /\ f.part \in Parts /\ f.part.dict = Coded(x, f.rsv1, st.hist)
    /\ Grows(x, W, st, f, Opened(f.rsv1, <<f.part>>), nx)

LegalContinue(x, W, st, f, nx) ==
    /\ f.op = "continuation" /\ st.half.open /\ ~f.rsv1
    /\ f.part \in Parts /\ f.part.dict = Coded(x, st.half.compressed, st.hist)
    /\ Len(st.half.buf) < MaxParts
    /\ Grows(x, W, st, f, Opened(st.half.compressed, Append(st.half.buf, f.part)), nx)

LegalPing(P, st, f, nx) ==
    /\ f.op = "ping"
    /\ st.pings + 1 \in DOMAIN P /\ P[st.pings + 1] = f.part.n
    /\ nx = At(st.half, st.hist, st.wholes, st.pings + 1)

LegalClose(st, f, nx) == f.op = "close" /\ nx = st

\* The frame f leads a server that keeps the rules from st to nx.
Legal(x, W, P, st, f, nx) ==
    /\ ~Refused(f)
    /\ \/ LegalBegin(x, W, st, f, nx)
       \/ LegalContinue(x, W, st, f, nx)
       \/ LegalPing(P, st, f, nx)
       \/ LegalClose(st, f, nx)

Illegal(st, f) == Refused(f) \/ Step(st.half, f).err

LEMMA HistoryType ==
    ASSUME NEW h \in Seq(Nat), NEW parts \in Seq(Parts)
    PROVE  /\ Numbers(parts) \in Seq(Nat) /\ Len(Numbers(parts)) = Len(parts)
           /\ AppendHistory(h, Numbers(parts)) \in Seq(Nat)
           /\ Len(AppendHistory(h, Numbers(parts))) <= Window
<1>1. /\ DOMAIN parts = 1..Len(parts) /\ Len(parts) \in Nat
      /\ \A i \in 1..Len(parts) : parts[i].n \in Nat
  <2>1. \A i \in 1..Len(parts) : parts[i] \in Parts
    OBVIOUS
  <2> QED
    BY <2>1 DEF Parts
<1>2. Numbers(parts) = [i \in 1..Len(parts) |-> parts[i].n]
  BY <1>1 DEF Numbers
<1>3. Numbers(parts) \in Seq(Nat) /\ Len(Numbers(parts)) = Len(parts)
  BY <1>1, <1>2
<1>4. PICK all \in Seq(Nat) : all = h \o Numbers(parts)
  <2>1. h \o Numbers(parts) \in Seq(Nat)
    BY <1>3, ConcatProperties
  <2> QED
    BY <2>1
<1>5. Len(all) \in Nat /\ Window \in Nat \ {0}
  BY <1>4, FramesAssumption
<1>6. CASE Len(all) > Window
  <2>1. SubSeq(all, Len(all) - Window + 1, Len(all)) \in Seq(Nat)
        /\ Len(SubSeq(all, Len(all) - Window + 1, Len(all))) = Window
    BY ONLY <1>4, <1>5, <1>6, SuffixProperties
  <2> QED
    BY <1>3, <1>4, <1>5, <1>6, <2>1 DEF AppendHistory
<1>7. CASE ~(Len(all) > Window)
  BY <1>3, <1>4, <1>5, <1>7 DEF AppendHistory
<1> QED
  BY <1>6, <1>7

LEMMA KeptType ==
    ASSUME NEW x \in ExtParams, NEW h \in Seq(Nat), Len(h) <= Window, NEW parts \in Seq(Parts)
    PROVE  Kept(x.fresh, h, parts) \in Seq(Nat) /\ Len(Kept(x.fresh, h, parts)) <= Window
  BY HistoryType DEF Kept, ExtParams

\* What was finished and sent before stays so when more is.
LEMMA LegalGrows ==
    ASSUME NEW x, NEW W, NEW P, NEW W2, NEW P2, NEW st, NEW f, NEW nx,
           \A i \in DOMAIN W : i \in DOMAIN W2 /\ W2[i] = W[i],
           \A i \in DOMAIN P : i \in DOMAIN P2 /\ P2[i] = P[i],
           Legal(x, W, P, st, f, nx)
    PROVE  Legal(x, W2, P2, st, f, nx)
<1>1. ASSUME NEW m, Grows(x, W, st, f, m, nx) PROVE Grows(x, W2, st, f, m, nx)
  BY <1>1 DEF Grows, Finishes
<1> QED
  BY <1>1 DEF Legal, LegalBegin, LegalContinue, LegalPing

\* What ReadMessage makes of a legal frame.
Understands(x, W, P, st, f, nx, s, m) ==
    /\ ~Refused(f) /\ ~s.err /\ s.reasm = nx.half
    /\ s.out = <<>> => nx.hist = st.hist /\ nx.wholes = st.wholes /\ nx.pings = st.pings
    /\ s.out # <<>> => InflatedHistory(x, st.hist, m) = nx.hist
    /\ s.out # <<>> /\ m.op \in Control =>
           /\ nx.wholes = st.wholes /\ m.parts[1] = f.part
           /\ m.op = "ping" => nx.pings = st.pings + 1 /\ P[nx.pings] = m.parts[1].n
                               /\ nx.pings \in DOMAIN P
           /\ m.op # "ping" => m.op = "close" /\ nx.pings = st.pings
    /\ s.out # <<>> /\ m.op \notin Control =>
           /\ nx.wholes = st.wholes + 1 /\ nx.pings = st.pings
           /\ nx.wholes \in DOMAIN W /\ W[nx.wholes] = Numbers(m.parts)
           /\ Legible(x, st.hist, m)

LEMMA WholeUnderstood ==
    ASSUME NEW x \in ExtParams, NEW W, NEW P, NEW st, NEW f, NEW nx, NEW c, NEW buf,
           Well(x, st), Opening(x, st.hist, c, buf), ~Refused(f),
           Finishes(x, W, st, Opened(c, buf), nx)
    PROVE  /\ Understands(x, W, P, st, f, nx, Stepped(NoMessage, <<Message("data", buf, c)>>, FALSE),
                          Message("data", buf, c))
           /\ Well(x, nx)
<1> DEFINE m == Message("data", buf, c)
<1>1. m.op = "data" /\ m.parts = buf /\ m.compressed = c /\ "data" \notin Control
  BY DEF Message, Control
<1>2. Inflates(x, m) <=> c
  BY <1>1 DEF Inflates, Opening
<1>3. Legible(x, st.hist, m)
  <2>1. \A i \in 1..Len(buf) : buf[i].dict = Coded(x, c, st.hist)
    BY DEF Opening
  <2>2. DOMAIN buf = 1..Len(buf)
    BY DEF Opening
  <2> QED
    BY <1>1, <1>2, <2>1, <2>2 DEF Legible, Coded
<1>4. nx = At(NoMessage, IF c THEN Kept(x.fresh, st.hist, buf) ELSE st.hist, st.wholes + 1, st.pings)
  BY DEF Finishes, Opened
<1>5. InflatedHistory(x, st.hist, m) = nx.hist
  BY <1>1, <1>2, <1>4 DEF InflatedHistory, At
<1>6. Well(x, nx)
  <2>1. Kept(x.fresh, st.hist, buf) \in Seq(Nat) /\ Len(Kept(x.fresh, st.hist, buf)) <= Window
    BY KeptType DEF Well, Opening
  <2> QED
    BY <1>4, <2>1 DEF Well, At, HalfOK
<1>7. /\ nx.half = NoMessage /\ nx.wholes = st.wholes + 1 /\ nx.pings = st.pings
      /\ nx.wholes \in DOMAIN W /\ W[nx.wholes] = Numbers(buf)
  BY <1>4 DEF At, Finishes, Opened
<1> QED
  BY <1>1, <1>3, <1>5, <1>6, <1>7 DEF Understands, Stepped

LEMMA ReplaceBuf ==
    ASSUME NEW c, NEW old, NEW buf
    PROVE  [Opened(c, old) EXCEPT !.buf = buf] = Opened(c, buf)
<1> DEFINE m(open, b) == [open |-> open, op |-> "data", compressed |-> c, buf |-> b]
<1>1. ASSUME NEW open PROVE [m(open, old) EXCEPT !.buf = buf] = m(open, buf)
  OBVIOUS
<1>2. Opened(c, old) = m(TRUE, old) /\ Opened(c, buf) = m(TRUE, buf)
  BY DEF Opened
<1> HIDE DEF m
<1> QED
  BY <1>1, <1>2

\* The Reassembler and the inflater go the way of the server.
LEMMA ReadsLegal ==
    ASSUME NEW x \in ExtParams, NEW W, NEW P, NEW st, NEW f, NEW nx,
           Well(x, st), Legal(x, W, P, st, f, nx)
    PROVE  /\ Understands(x, W, P, st, f, nx, Step(st.half, f), Step(st.half, f).out[1])
           /\ Well(x, nx)
<1>1. CASE LegalBegin(x, W, st, f, nx)
  <2> DEFINE buf == <<f.part>>
  <2>1. Opening(x, st.hist, f.rsv1, buf)
    BY <1>1, FramesAssumption DEF LegalBegin, Opening
  <2>2. Step(st.half, f) = Begin(st.half, f) /\ st.half = NoMessage
    <3>1. \A c, b : Opened(c, b).open
      BY DEF Opened
    <3>2. st.half = NoMessage
      BY <1>1, <3>1 DEF LegalBegin, Well, HalfOK
    <3>3. ~((f.op = "continuation") # st.half.open) /\ f.op \notin Control
      <4>1. st.half.open = FALSE
        BY <3>2 DEF NoMessage
      <4>2. (f.op = "continuation") = FALSE
        BY <1>1 DEF LegalBegin
      <4> QED
        BY <1>1, <4>1, <4>2 DEF LegalBegin, Control
    <3> QED
      BY <1>1, <3>2, <3>3 DEF LegalBegin, Step
  <2>3. CASE f.fin
    <3>1. Step(st.half, f) = Stepped(NoMessage, <<Message("data", buf, f.rsv1)>>, FALSE)
      BY <1>1, <2>2, <2>3 DEF Begin, LegalBegin
    <3>2. Finishes(x, W, st, Opened(f.rsv1, buf), nx)
      BY <1>1, <2>3 DEF LegalBegin, Grows
    <3>3. Step(st.half, f).out[1] = Message("data", buf, f.rsv1)
      BY <3>1 DEF Stepped
    <3> QED
      BY <2>1, <3>1, <3>2, <3>3, WholeUnderstood DEF Legal
  <2>4. CASE ~f.fin
    <3>1. Step(st.half, f) = Stepped(Opened(f.rsv1, buf), <<>>, FALSE)
      BY <1>1, <2>2, <2>4 DEF Begin, LegalBegin, Opened
    <3>2. nx = At(Opened(f.rsv1, buf), st.hist, st.wholes, st.pings)
      BY <1>1, <2>4 DEF LegalBegin, Grows
    <3>3. HalfOK(x, st.hist, Opened(f.rsv1, buf))
      BY <2>1 DEF HalfOK
    <3>4. Well(x, nx)
      BY <3>2, <3>3 DEF Well, At
    <3> QED
      BY <3>1, <3>2, <3>4 DEF Understands, Stepped, At, Legal
  <2> QED
    BY <2>3, <2>4
<1>2. CASE LegalContinue(x, W, st, f, nx)
  <2>1. PICK c, old : st.half = Opened(c, old) /\ Opening(x, st.hist, c, old)
    BY <1>2 DEF LegalContinue, Well, HalfOK, NoMessage
  <2>2. st.half.op = "data" /\ st.half.buf = old /\ st.half.compressed = c /\ st.half.open
    BY <2>1 DEF Opened
  <2>3. PICK buf : buf = Append(old, f.part)
    OBVIOUS
  <2>4. Opening(x, st.hist, c, buf)
    <3>1. /\ buf \in Seq(Parts) /\ Len(buf) = Len(old) + 1
          /\ \A i \in 1..Len(buf) : buf[i] = IF i <= Len(old) THEN old[i] ELSE f.part
      BY <1>2, <2>1, <2>3 DEF LegalContinue, Opening
    <3>2. \A i \in 1..Len(buf) : buf[i].dict = Coded(x, c, st.hist)
      BY <1>2, <2>1, <2>2, <3>1 DEF LegalContinue, Opening
    <3> QED
      BY <1>2, <2>1, <2>2, <3>1, <3>2, FramesAssumption DEF LegalContinue, Opening
  <2>5. Step(st.half, f) = Continue(st.half, f)
    BY <1>2 DEF LegalContinue, Step, Control
  <2>6. Len(buf) <= MaxParts /\ ~(Len(buf) > MaxParts)
    BY <2>4, FramesAssumption DEF Opening
  <2>7. CASE f.fin
    <3>1. Step(st.half, f) = Stepped(NoMessage, <<Message("data", buf, c)>>, FALSE)
      BY <1>2, <2>2, <2>3, <2>5, <2>6, <2>7 DEF Continue, LegalContinue
    <3>2. Finishes(x, W, st, Opened(c, buf), nx)
      BY <1>2, <2>2, <2>3, <2>7 DEF LegalContinue, Grows
    <3>3. Step(st.half, f).out[1] = Message("data", buf, c)
      BY <3>1 DEF Stepped
    <3> QED
      BY <2>4, <3>1, <3>2, <3>3, WholeUnderstood DEF Legal
  <2>8. CASE ~f.fin
    <3>1. Step(st.half, f) = Stepped(Opened(c, buf), <<>>, FALSE)
      <4>1. [st.half EXCEPT !.buf = buf] = Opened(c, buf)
        BY <2>1, ReplaceBuf
      <4> QED
        BY <1>2, <2>2, <2>3, <2>5, <2>6, <2>8, <4>1 DEF Continue, LegalContinue
    <3>2. nx = At(Opened(c, buf), st.hist, st.wholes, st.pings)
      BY <1>2, <2>2, <2>3, <2>8 DEF LegalContinue, Grows
    <3>3. HalfOK(x, st.hist, Opened(c, buf))
      BY <2>4 DEF HalfOK
    <3>4. Well(x, nx)
      BY <3>2, <3>3 DEF Well, At
    <3> QED
      BY <3>1, <3>2, <3>4 DEF Understands, Stepped, At, Legal
  <2> QED
    BY <2>7, <2>8
<1>3. ASSUME f.op \in Control
      PROVE  Step(st.half, f) = Stepped(st.half, <<Message(f.op, <<f.part>>, FALSE)>>, FALSE)
  BY <1>3 DEF Step
<1>4. CASE LegalPing(P, st, f, nx)
  <2>1. nx = At(st.half, st.hist, st.wholes, st.pings + 1)
    BY <1>4 DEF LegalPing
  <2>2. Well(x, nx)
    BY <2>1 DEF Well, At
  <2> QED
    BY <1>3, <1>4, <2>1, <2>2 DEF LegalPing, Legal, Understands, Stepped, Message, Control, At,
       InflatedHistory, Inflates
<1>5. CASE LegalClose(st, f, nx)
  BY <1>3, <1>5 DEF LegalClose, Legal, Understands, Stepped, Message, Control,
     InflatedHistory, Inflates
<1> QED
  BY <1>1, <1>2, <1>4, <1>5 DEF Legal

-----------------------------------------------------------------------------
(* The server and the wire.                                                *)

Frames ==
    [op : {"data", "continuation", "ping", "close"}, fin : BOOLEAN, rsv1 : BOOLEAN,
     masked : BOOLEAN, long : BOOLEAN, part : Parts]

ServerState == At(half, shist, Len(whole), Len(pings))

\* st are the states of the server along the wire: from where readLoop is to where the
\* server is, unless the last frame broke a rule.
Follows(st) ==
    /\ \A i \in 1..(Len(wire) + 1) : Well(ext, st[i])
    /\ st[1] = At(reasm, inhist, Len(got), st[1].pings)
    /\ last # "rule" => st[Len(wire) + 1] = ServerState
    /\ \A i \in 1..Len(wire) :
           i < Len(wire) \/ last # "rule" => Legal(ext, whole, pings, st[i], wire[i], st[i + 1])
    /\ last = "rule" => wire # <<>> /\ Illegal(st[Len(wire)], wire[Len(wire)])

WireType ==
    /\ ext \in ExtParams
    /\ wire \in Seq(Frames)
    /\ frames \in Nat
    /\ whole \in Seq(Seq(Nat)) /\ pings \in Seq(Nat)

Grown(a, b) == \A i \in DOMAIN a : i \in DOMAIN b /\ b[i] = a[i]

LEMMA SendsLegal ==
    ASSUME WireType, NEW st, Follows(st), last = "none", last' # "rule",
           NEW f \in Frames, wire' = Append(wire, f),
           UNCHANGED <<ext, reasm, inhist, got>>,
           Grown(whole, whole'), Grown(pings, pings'),
           Legal(ext, whole', pings', ServerState, f, ServerState')
    PROVE  \E s : s[1] = st[1] /\ Follows(s)'
<1>1. PICK L \in Nat : L = Len(wire)
  BY DEF WireType
<1>2. PICK nx : nx = ServerState'
  OBVIOUS
<1>3. PICK s : s = [i \in 1..(L + 2) |-> IF i <= L + 1 THEN st[i] ELSE nx]
  OBVIOUS
<1>4. (\A i \in 1..(L + 1) : s[i] = st[i]) /\ s[L + 2] = nx
  BY <1>1, <1>3
<1>5. /\ Len(wire') = L + 1 /\ wire'[L + 1] = f
      /\ \A i \in 1..L : wire'[i] = wire[i]
  BY <1>1 DEF WireType
<1>6. st[L + 1] = ServerState /\ \A i \in 1..(L + 1) : Well(ext, st[i])
  BY <1>1 DEF Follows
<1>7. Legal(ext, whole', pings', st[L + 1], f, nx)
  BY <1>2, <1>6
<1>8. Well(ext, nx)
  BY <1>1, <1>6, <1>7, ReadsLegal DEF WireType
<1>9. ASSUME NEW i \in 1..L PROVE Legal(ext, whole', pings', st[i], wire[i], st[i + 1])
  <2>1. Legal(ext, whole, pings, st[i], wire[i], st[i + 1])
    BY <1>1 DEF Follows
  <2> QED
    BY <2>1, LegalGrows DEF Grown
<1>10. \A i \in 1..(L + 2) : Well(ext', s[i])
  BY <1>1, <1>4, <1>6, <1>8
<1>11. s[1] = st[1] /\ st[1] = At(reasm, inhist, Len(got), st[1].pings)
  BY <1>1, <1>4 DEF Follows
<1>12. ASSUME NEW i \in 1..(L + 1) PROVE Legal(ext', whole', pings', s[i], wire'[i], s[i + 1])
  <2>1. CASE i \in 1..L
    BY <1>1, <1>4, <1>5, <1>9, <2>1
  <2>2. CASE i = L + 1
    <3>1. s[i] = st[L + 1] /\ s[i + 1] = nx /\ wire'[i] = f
      BY <1>1, <1>4, <1>5, <2>2
    <3> QED
      BY <1>7, <3>1
  <2> QED
    BY <1>1, <2>1, <2>2
<1>13. Len(wire') + 1 = L + 2
  BY <1>1, <1>5
<1> QED
  BY <1>2, <1>4, <1>5, <1>10, <1>11, <1>12, <1>13 DEF Follows

LEMMA SendsIllegal ==
    ASSUME WireType, NEW st, Follows(st), last = "none", last' = "rule",
           NEW f \in Frames, wire' = Append(wire, f),
           UNCHANGED <<ext, reasm, inhist, got, whole, pings>>,
           Illegal(ServerState, f)
    PROVE  \E s : s[1] = st[1] /\ Follows(s)'
<1>1. PICK L \in Nat : L = Len(wire)
  BY DEF WireType
<1>3. PICK s : s = [i \in 1..(L + 2) |-> IF i <= L + 1 THEN st[i] ELSE st[L + 1]]
  OBVIOUS
<1>4. (\A i \in 1..(L + 1) : s[i] = st[i]) /\ s[L + 2] = st[L + 1]
  BY <1>1, <1>3
<1>5. /\ Len(wire') = L + 1 /\ wire'[L + 1] = f /\ wire' # <<>>
      /\ \A i \in 1..L : wire'[i] = wire[i]
  <2>1. Len(wire') = L + 1 /\ wire'[L + 1] = f /\ \A i \in 1..L : wire'[i] = wire[i]
    BY <1>1 DEF WireType
  <2>2. Len(<<>>) = 0
    OBVIOUS
  <2> QED
    BY <1>1, <2>1, <2>2
<1>6. st[L + 1] = ServerState /\ \A i \in 1..(L + 1) : Well(ext, st[i])
  BY <1>1 DEF Follows
<1>9. \A i \in 1..L : Legal(ext, whole, pings, st[i], wire[i], st[i + 1])
  BY <1>1 DEF Follows
<1>10. \A i \in 1..(L + 2) : Well(ext', s[i])
  BY <1>1, <1>4, <1>6
<1>11. s[1] = st[1] /\ st[1] = At(reasm, inhist, Len(got), st[1].pings)
  BY <1>1, <1>4 DEF Follows
<1>12. \A i \in 1..L : Legal(ext', whole', pings', s[i], wire'[i], s[i + 1])
  BY <1>1, <1>4, <1>5, <1>9
<1>13. Len(wire') + 1 = L + 2
  BY <1>1, <1>5
<1>14. Illegal(s[L + 1], wire'[L + 1])
  BY <1>1, <1>4, <1>5, <1>6
<1> QED
  BY <1>4, <1>5, <1>10, <1>11, <1>12, <1>13, <1>14 DEF Follows

LEMMA Sent ==
    ASSUME WireType, NEW f \in Frames, Sends(f)
    PROVE  /\ wire' = Append(wire, f) /\ UNCHANGED <<ext, reasm, inhist, got>>
           /\ wire' \in Seq(Frames) /\ frames' \in Nat
<1>1. wire' = Append(wire, f) /\ wire \in Seq(Frames) /\ frames' = frames + 1
  BY DEF Sends, WireType
<1>2. UNCHANGED <<ext, reasm, inhist, got>>
  BY DEF Sends, readVars
<1> QED
  BY <1>1, <1>2 DEF WireType

LEMMA CodedType ==
    ASSUME NEW x \in ExtParams, NEW c \in BOOLEAN, NEW h \in Seq(Nat)
    PROVE  Coded(x, c, h) \in Seq(Nat)
  BY DEF Coded, DictOf, Raw, ExtParams

LEMMA ServerBeginsSound ==
    ASSUME WireType, NEW st, Follows(st), ServerBegins
    PROVE  WireType' /\ \E s : s[1] = st[1] /\ Follows(s)'
<1>1. PICK fin \in BOOLEAN, rsv1 \in {FALSE, ext.negotiated} :
          LET f == Frame("data", fin, rsv1, IF rsv1 THEN DictOf(ext.fresh, shist) ELSE Raw)
              m == [open |-> TRUE, op |-> "data", compressed |-> rsv1, buf |-> <<f.part>>]
          IN  /\ ~half.open
              /\ Sends(f)
              /\ IF fin THEN Completes(m) ELSE half' = m /\ UNCHANGED <<shist, whole>>
              /\ UNCHANGED <<pings, last>>
  BY DEF ServerBegins
<1>2. PICK f : f = Frame("data", fin, rsv1, Coded(ext, rsv1, shist))
  OBVIOUS
<1>3. Sends(f) /\ UNCHANGED <<pings, last>> /\ ~half.open
  BY <1>1, <1>2 DEF Coded
<1>4. IF fin THEN Completes(Opened(rsv1, <<f.part>>))
             ELSE half' = Opened(rsv1, <<f.part>>) /\ UNCHANGED <<shist, whole>>
  BY <1>1, <1>2 DEF Coded, Opened
<1>5. last = "none" /\ Well(ext, ServerState) /\ shist \in Seq(Nat)
  <2>1. last = "none"
    BY <1>3 DEF Sends
  <2>2. Well(ext, ServerState)
    BY <2>1 DEF Follows, WireType
  <2>3. ServerState.hist = shist
    BY DEF ServerState, At
  <2> QED
    BY <2>1, <2>2, <2>3 DEF Well
<1>6. /\ f.op = "data" /\ f.fin = fin /\ f.rsv1 = rsv1 /\ ~f.masked /\ ~f.long
      /\ f.part = [n |-> frames + 1, dict |-> Coded(ext, rsv1, shist)]
  BY <1>2 DEF Frame
<1>7. rsv1 \in BOOLEAN /\ (rsv1 => ext.negotiated)
  BY DEF WireType, ExtParams
<1>8. f.part \in Parts /\ f \in Frames
  <2>1. f.part \in Parts
    BY <1>5, <1>6, <1>7, CodedType DEF WireType, Parts
  <2> QED
    BY <1>2, <1>6, <1>7, <2>1 DEF Frame, Frames
<1>9. <<f.part>> \in Seq(Parts) /\ Len(<<f.part>>) = 1
  BY <1>8
<1>10. ~Refused(f)
  BY <1>6 DEF Refused, Control
<1>11. CASE fin
  <2>1. Completes(Opened(rsv1, <<f.part>>))
    BY <1>4, <1>11
  <2>2. /\ half' = NoMessage /\ whole' = Append(whole, Numbers(<<f.part>>))
        /\ shist' = IF rsv1 THEN Kept(ext.fresh, shist, <<f.part>>) ELSE shist
    BY <2>1 DEF Completes, Opened
  <2>3. Numbers(<<f.part>>) \in Seq(Nat)
    BY <1>5, <1>9, HistoryType
  <2>4. /\ whole' \in Seq(Seq(Nat)) /\ Len(whole') = Len(whole) + 1 /\ Grown(whole, whole')
        /\ Len(whole) + 1 \in DOMAIN whole' /\ whole'[Len(whole) + 1] = Numbers(<<f.part>>)
    BY <2>2, <2>3 DEF WireType, Grown
  <2>5. Finishes(ext, whole', ServerState, Opened(rsv1, <<f.part>>), ServerState')
    BY <1>3, <2>2, <2>4 DEF Finishes, ServerState, At, Opened
  <2>6. LegalBegin(ext, whole', ServerState, f, ServerState')
    BY <1>3, <1>6, <1>7, <1>8, <1>11, <2>5 DEF LegalBegin, Grows, ServerState, At
  <2>7. Grown(pings, pings') /\ last' # "rule"
    BY <1>3, <1>5 DEF Grown
  <2>8. wire' = Append(wire, f) /\ UNCHANGED <<ext, reasm, inhist, got>>
    BY <1>3, <1>8, Sent
  <2>9. WireType'
    BY <1>3, <1>8, <2>4, <2>8, Sent DEF WireType
  <2>10. Legal(ext, whole', pings', ServerState, f, ServerState')
    BY <1>10, <2>4, <2>6, <2>7 DEF Legal
  <2> QED
    BY <1>5, <1>8, <2>4, <2>6, <2>7, <2>8, <2>9, <2>10, SendsLegal
<1>12. CASE ~fin
  <2>1. half' = Opened(rsv1, <<f.part>>) /\ UNCHANGED <<shist, whole>>
    BY <1>4, <1>12
  <2>2. LegalBegin(ext, whole', ServerState, f, ServerState')
    BY <1>3, <1>6, <1>7, <1>8, <1>12, <2>1 DEF LegalBegin, Grows, ServerState, At
  <2>3. Grown(pings, pings') /\ Grown(whole, whole') /\ last' # "rule"
    BY <1>3, <1>5, <2>1 DEF Grown
  <2>8. wire' = Append(wire, f) /\ UNCHANGED <<ext, reasm, inhist, got>>
    BY <1>3, <1>8, Sent
  <2>9. WireType'
    BY <1>3, <1>8, <2>1, <2>8, Sent DEF WireType
  <2>10. Legal(ext, whole', pings', ServerState, f, ServerState')
    BY <1>10, <2>1, <2>2, <2>3 DEF Legal
  <2> QED
    BY <1>5, <1>8, <2>1, <2>2, <2>3, <2>8, <2>9, <2>10, SendsLegal
<1> QED
  BY <1>11, <1>12

\* Before it sends, the server is in a state that the invariant describes.
LEMMA Listening ==
    ASSUME WireType, NEW st, Follows(st), last = "none"
    PROVE  Well(ext, ServerState) /\ shist \in Seq(Nat) /\ HalfOK(ext, shist, half)
<1>1. Well(ext, ServerState)
  <2>1. Len(wire) \in Nat /\ Len(wire) + 1 \in 1..(Len(wire) + 1)
    BY DEF WireType
  <2>2. st[Len(wire) + 1] = ServerState
    BY DEF Follows
  <2> QED
    BY <2>1, <2>2 DEF Follows
<1>2. ServerState.hist = shist /\ ServerState.half = half
  BY DEF ServerState, At
<1> QED
  BY <1>1, <1>2 DEF Well

LEMMA ServerContinuesSound ==
    ASSUME WireType, NEW st, Follows(st), ServerContinues
    PROVE  WireType' /\ \E s : s[1] = st[1] /\ Follows(s)'
<1>1. PICK fin \in BOOLEAN :
          LET f == Frame("continuation", fin, FALSE, half.buf[1].dict)
              m == [half EXCEPT !.buf = Append(@, f.part)]
          IN  /\ half.open
              /\ Sends(f)
              /\ IF fin /\ Len(m.buf) <= MaxParts
                 THEN Completes(m)
                 ELSE half' = m /\ UNCHANGED <<shist, whole>>
              /\ last' = IF Len(m.buf) > MaxParts THEN "rule" ELSE "none"
              /\ UNCHANGED pings
  BY DEF ServerContinues
<1>2. PICK f : f = Frame("continuation", fin, FALSE, half.buf[1].dict)
  OBVIOUS
<1>3. Sends(f) /\ UNCHANGED pings /\ half.open /\ last = "none"
  BY <1>1, <1>2 DEF Sends
<1>4. shist \in Seq(Nat) /\ HalfOK(ext, shist, half)
  BY <1>3, Listening
<1>5. PICK c, old : half = Opened(c, old) /\ Opening(ext, shist, c, old)
  BY <1>3, <1>4 DEF HalfOK, NoMessage
<1>6. half.buf = old /\ half.compressed = c
  BY <1>5 DEF Opened
<1>7. PICK buf : buf = Append(old, f.part)
  OBVIOUS
<1>8. [half EXCEPT !.buf = Append(@, f.part)] = Opened(c, buf) /\ Opened(c, buf).buf = buf
  <2>1. Opened(c, buf).buf = buf
    BY DEF Opened
  <2>2. Append(half.buf, f.part) = buf
    BY <1>6, <1>7
  <2>3. [half EXCEPT !.buf = Append(@, f.part)] = [half EXCEPT !.buf = buf]
    <3>1. [half EXCEPT !.buf = Append(@, f.part)] = [half EXCEPT !.buf = Append(half.buf, f.part)]
      OBVIOUS
    <3> QED
      BY ONLY <2>2, <3>1
  <2>4. [half EXCEPT !.buf = buf] = Opened(c, buf)
    <3>1. [Opened(c, old) EXCEPT !.buf = buf] = Opened(c, buf)
      BY ReplaceBuf
    <3> QED
      BY ONLY <1>5, <3>1
  <2> QED
    BY ONLY <2>1, <2>3, <2>4
<1>9. /\ IF fin /\ Len(buf) <= MaxParts THEN Completes(Opened(c, buf))
         ELSE half' = Opened(c, buf) /\ UNCHANGED <<shist, whole>>
      /\ last' = IF Len(buf) > MaxParts THEN "rule" ELSE "none"
  BY <1>1, <1>2, <1>8
<1>10. half.buf[1].dict = Coded(ext, c, shist)
  BY <1>5, <1>6 DEF Opening
<1>11. /\ f.op = "continuation" /\ f.fin = fin /\ ~f.rsv1 /\ ~f.masked /\ ~f.long
       /\ f.part = [n |-> frames + 1, dict |-> Coded(ext, c, shist)]
  BY <1>2, <1>10 DEF Frame
<1>12. f.part \in Parts /\ f \in Frames
  <2>1. f.part \in Parts
    BY <1>4, <1>5, <1>11, CodedType DEF WireType, Parts, Opening
  <2> QED
    BY <1>2, <1>11, <2>1 DEF Frame, Frames
<1>13. /\ buf \in Seq(Parts) /\ Len(buf) = Len(old) + 1 /\ Len(old) \in Nat
  BY <1>5, <1>7, <1>12 DEF Opening
<1>14. ~Refused(f)
  BY <1>11 DEF Refused, Control
<1>15. wire' = Append(wire, f) /\ UNCHANGED <<ext, reasm, inhist, got>>
  BY <1>3, <1>12, Sent
<1>16. CASE Len(buf) > MaxParts
  <2>1. half' = Opened(c, buf) /\ UNCHANGED <<shist, whole>> /\ last' = "rule"
    BY <1>9, <1>13, <1>16, FramesAssumption
  <2>2. WireType'
    BY <1>3, <1>12, <2>1, Sent DEF WireType
  <2>3. Step(half, f) = Stepped(NoMessage, <<>>, TRUE)
    BY <1>3, <1>5, <1>6, <1>7, <1>11, <1>16 DEF Step, Continue, Control, Opened
  <2>4. Illegal(ServerState, f)
    BY <2>3 DEF Illegal, ServerState, At, Stepped
  <2> QED
    BY <1>3, <1>12, <1>15, <2>1, <2>2, <2>4, SendsIllegal
<1>17. CASE ~(Len(buf) > MaxParts)
  <2>0. Len(buf) <= MaxParts /\ Len(old) < MaxParts /\ last' = "none"
    BY <1>9, <1>13, <1>17, FramesAssumption
  <2>1. CASE fin
    <3>1. Completes(Opened(c, buf))
      BY <1>9, <2>0, <2>1
    <3>2. /\ half' = NoMessage /\ whole' = Append(whole, Numbers(buf))
          /\ shist' = IF c THEN Kept(ext.fresh, shist, buf) ELSE shist
      BY <3>1 DEF Completes, Opened
    <3>3. Numbers(buf) \in Seq(Nat)
      BY <1>4, <1>13, HistoryType
    <3>4. /\ whole' \in Seq(Seq(Nat)) /\ Len(whole') = Len(whole) + 1 /\ Grown(whole, whole')
          /\ Len(whole) + 1 \in DOMAIN whole' /\ whole'[Len(whole) + 1] = Numbers(buf)
      BY <3>2, <3>3 DEF WireType, Grown
    <3>5. Finishes(ext, whole', ServerState, Opened(c, buf), ServerState')
      BY <1>3, <3>2, <3>4 DEF Finishes, ServerState, At, Opened
    <3>6. LegalContinue(ext, whole', ServerState, f, ServerState')
      BY <1>3, <1>6, <1>7, <1>10, <1>11, <1>12, <2>0, <2>1, <3>5 DEF LegalContinue, Grows, ServerState, At
    <3>7. Grown(pings, pings') /\ last' # "rule"
      BY <1>3, <2>0 DEF Grown
    <3>8. WireType'
      BY <1>3, <1>12, <3>4, Sent DEF WireType
    <3>9. Legal(ext, whole', pings', ServerState, f, ServerState')
      BY <1>14, <3>6 DEF Legal
    <3> QED
      BY <1>3, <1>12, <1>15, <3>4, <3>7, <3>8, <3>9, SendsLegal
  <2>2. CASE ~fin
    <3>1. half' = Opened(c, buf) /\ UNCHANGED <<shist, whole>>
      BY <1>9, <2>2
    <3>2. LegalContinue(ext, whole', ServerState, f, ServerState')
      BY <1>3, <1>6, <1>7, <1>10, <1>11, <1>12, <2>0, <2>2, <3>1 DEF LegalContinue, Grows, ServerState, At
    <3>3. Grown(pings, pings') /\ Grown(whole, whole') /\ last' # "rule"
      BY <1>3, <2>0, <3>1 DEF Grown
    <3>4. WireType'
      BY <1>3, <1>12, <3>1, Sent DEF WireType
    <3>5. Legal(ext, whole', pings', ServerState, f, ServerState')
      BY <1>14, <3>2 DEF Legal
    <3> QED
      BY <1>3, <1>12, <1>15, <3>3, <3>4, <3>5, SendsLegal
  <2> QED
    BY <2>1, <2>2
<1> QED
  BY <1>16, <1>17

LEMMA ServerControlSound ==
    ASSUME WireType, NEW st, Follows(st), ServerPings \/ ServerCloses
    PROVE  WireType' /\ \E s : s[1] = st[1] /\ Follows(s)'
<1>1. PICK f : \/ f = Frame("ping", TRUE, FALSE, Raw) /\ ServerPings
               \/ f = Frame("close", TRUE, FALSE, Raw) /\ ServerCloses
  OBVIOUS
<1>2. Sends(f) /\ last = "none" /\ UNCHANGED <<half, shist, whole>> /\ last' # "rule"
  BY <1>1 DEF ServerPings, ServerCloses, Sends
<1>3. f.op \in {"ping", "close"} /\ f.fin /\ ~f.long /\ ~f.masked /\ f.part = [n |-> frames + 1, dict |-> Raw]
  BY <1>1 DEF Frame
<1>4. f \in Frames
  <2>1. f.part \in Parts
    BY <1>3 DEF Parts, Raw, WireType
  <2> QED
    <3>1. PICK op \in {"ping", "close"} : f = Frame(op, TRUE, FALSE, Raw)
      BY <1>1
    <3> QED
      BY <2>1, <3>1 DEF Frame, Frames
<1>5. ~Refused(f)
  BY <1>3 DEF Refused
<1>6. wire' = Append(wire, f) /\ UNCHANGED <<ext, reasm, inhist, got>> /\ frames' = frames + 1
  BY <1>2, <1>4, Sent DEF Sends
<1>7. Grown(whole, whole')
  BY <1>2 DEF Grown
<1>8. CASE ServerPings
  <2>1. pings' = Append(pings, frames + 1) /\ f.op = "ping"
    BY <1>1, <1>6, <1>8 DEF ServerPings, ServerCloses, Frame
  <2>2. /\ pings' \in Seq(Nat) /\ Len(pings') = Len(pings) + 1 /\ Grown(pings, pings')
        /\ Len(pings) + 1 \in DOMAIN pings' /\ pings'[Len(pings) + 1] = frames + 1
    BY <2>1 DEF WireType, Grown
  <2>3. LegalPing(pings', ServerState, f, ServerState')
    BY <1>2, <1>3, <2>1, <2>2 DEF LegalPing, ServerState, At
  <2>4. WireType'
    BY <1>2, <1>4, <2>2, Sent DEF WireType
  <2>5. Legal(ext, whole', pings', ServerState, f, ServerState')
    BY <1>5, <2>3 DEF Legal
  <2> QED
    BY <1>2, <1>4, <1>6, <1>7, <2>2, <2>4, <2>5, SendsLegal
<1>9. CASE ServerCloses /\ f.op = "close"
  <2>1. UNCHANGED pings
    BY <1>9 DEF ServerCloses
  <2>2. LegalClose(ServerState, f, ServerState')
    BY <1>2, <1>9, <2>1 DEF LegalClose, ServerState, At
  <2>3. Grown(pings, pings')
    BY <2>1 DEF Grown
  <2>4. WireType'
    BY <1>2, <1>4, <2>1, Sent DEF WireType
  <2>5. Legal(ext, whole', pings', ServerState, f, ServerState')
    BY <1>5, <2>2 DEF Legal
  <2> QED
    BY <1>2, <1>4, <1>6, <1>7, <2>3, <2>4, <2>5, SendsLegal
<1> QED
  BY <1>1, <1>8, <1>9 DEF Frame

LEMMA FrameEdits ==
    ASSUME NEW op, NEW part
    PROVE  LET F(fin, masked, long) ==
                   [op |-> op, fin |-> fin, rsv1 |-> FALSE, masked |-> masked, long |-> long, part |-> part]
           IN  /\ [F(TRUE, FALSE, FALSE) EXCEPT !.fin = FALSE] = F(FALSE, FALSE, FALSE)
               /\ [F(TRUE, FALSE, FALSE) EXCEPT !.long = TRUE] = F(TRUE, FALSE, TRUE)
               /\ [F(TRUE, FALSE, FALSE) EXCEPT !.masked = TRUE] = F(TRUE, TRUE, FALSE)
<1> DEFINE F(fin, rsv1, masked, long) ==
               [op |-> op, fin |-> fin, rsv1 |-> rsv1, masked |-> masked, long |-> long, part |-> part]
<1>1. ASSUME NEW fin, NEW rsv1, NEW masked, NEW long, NEW b
      PROVE  /\ [F(fin, rsv1, masked, long) EXCEPT !.fin = b] = F(b, rsv1, masked, long)
             /\ [F(fin, rsv1, masked, long) EXCEPT !.long = b] = F(fin, rsv1, masked, b)
             /\ [F(fin, rsv1, masked, long) EXCEPT !.masked = b] = F(fin, rsv1, b, long)
  OBVIOUS
<1> HIDE DEF F
<1>2. PICK t, n : t = TRUE /\ n = FALSE
  OBVIOUS
<1>3. /\ [F(t, n, n, n) EXCEPT !.fin = n] = F(n, n, n, n)
      /\ [F(t, n, n, n) EXCEPT !.long = t] = F(t, n, n, t)
      /\ [F(t, n, n, n) EXCEPT !.masked = t] = F(t, n, t, n)
  BY <1>1
<1> QED
  BY <1>2, <1>3 DEF F

\* Whatever rule is broken, the frame is refused or the Reassembler fails on it.
LEMMA BrokenIsIllegal ==
    ASSUME NEW f \in BrokenFrames, half.open \in BOOLEAN, frames \in Nat, half.open => half.buf[1].dict \in Seq(Nat)
    PROVE  f \in Frames /\ Illegal(ServerState, f)
<1>0. ServerState.half = half
  BY DEF ServerState, At
<1> DEFINE part == [n |-> frames + 1, dict |-> Raw]
<1>1. part \in Parts
  BY DEF Parts, Raw
<1> DEFINE F(op, fin, masked, long) ==
               [op |-> op, fin |-> fin, rsv1 |-> FALSE, masked |-> masked, long |-> long, part |-> part]
<1>2. \/ half.open /\ f = F("data", TRUE, FALSE, FALSE)
      \/ ~half.open /\ f = F("continuation", TRUE, FALSE, FALSE)
      \/ f = F("ping", FALSE, FALSE, FALSE)
      \/ f = F("data", TRUE, FALSE, TRUE)
      \/ f = F("data", TRUE, TRUE, FALSE)
      \/ half.open /\ f = Frame("continuation", TRUE, TRUE, half.buf[1].dict)
  <2>1. \A op : Frame(op, TRUE, FALSE, Raw) = F(op, TRUE, FALSE, FALSE)
    BY DEF Frame
  <2>2. /\ [F("ping", TRUE, FALSE, FALSE) EXCEPT !.fin = FALSE] = F("ping", FALSE, FALSE, FALSE)
        /\ [F("data", TRUE, FALSE, FALSE) EXCEPT !.long = TRUE] = F("data", TRUE, FALSE, TRUE)
        /\ [F("data", TRUE, FALSE, FALSE) EXCEPT !.masked = TRUE] = F("data", TRUE, TRUE, FALSE)
    BY FrameEdits
  <2> HIDE DEF F
  <2> QED
    BY <2>1, <2>2 DEF BrokenFrames
<1>3. CASE half.open /\ f = F("data", TRUE, FALSE, FALSE)
  <2>1. f \in Frames
    BY <1>1, <1>3 DEF Frames
  <2>2. Step(half, f).err
    <3>1. f.op \notin Control /\ (f.op = "continuation") = FALSE /\ half.open = TRUE
      BY <1>3 DEF Control
    <3> QED
      BY <3>1 DEF Step, Stepped
  <2> QED
    BY <1>0, <2>1, <2>2 DEF Illegal
<1>4. CASE ~half.open /\ f = F("continuation", TRUE, FALSE, FALSE)
  <2>1. f \in Frames
    BY <1>1, <1>4 DEF Frames
  <2>2. Step(half, f).err
    <3>1. f.op \notin Control /\ (f.op = "continuation") = TRUE /\ half.open = FALSE
      BY <1>4 DEF Control
    <3> QED
      BY <3>1 DEF Step, Stepped
  <2> QED
    BY <1>0, <2>1, <2>2 DEF Illegal
<1>5. CASE f = F("ping", FALSE, FALSE, FALSE)
  BY <1>1, <1>5 DEF Frames, Illegal, Refused, Control
<1>6. CASE f = F("data", TRUE, FALSE, TRUE)
  BY <1>1, <1>6 DEF Frames, Illegal, Refused
<1>7. CASE f = F("data", TRUE, TRUE, FALSE)
  BY <1>1, <1>7 DEF Frames, Illegal, Refused
<1>8. CASE half.open /\ f = Frame("continuation", TRUE, TRUE, half.buf[1].dict)
  <2>1. f \in Frames
    <3>1. [n |-> frames + 1, dict |-> half.buf[1].dict] \in Parts
      BY <1>8 DEF Parts
    <3> QED
      BY <1>8, <3>1 DEF Frames, Frame
  <2>2. Step(half, f).err
    <3>1. f.op \notin Control /\ (f.op = "continuation") = TRUE /\ half.open = TRUE /\ f.rsv1
      BY <1>8 DEF Control, Frame
    <3> QED
      BY <3>1 DEF Step, Continue, Stepped
  <2> QED
    BY <1>0, <2>1, <2>2 DEF Illegal
<1> QED
  BY <1>2, <1>3, <1>4, <1>5, <1>6, <1>7, <1>8

LEMMA ServerBreaksSound ==
    ASSUME WireType, NEW st, Follows(st), ServerBreaks
    PROVE  WireType' /\ \E s : s[1] = st[1] /\ Follows(s)'
<1>1. PICK f \in BrokenFrames : Sends(f)
  BY DEF ServerBreaks
<1>2. last = "none" /\ last' = "rule" /\ UNCHANGED <<half, shist, whole, pings>>
  BY <1>1 DEF ServerBreaks, Sends
<1>3. shist \in Seq(Nat) /\ HalfOK(ext, shist, half)
  BY <1>2, Listening
<1>4. half.open \in BOOLEAN /\ (half.open => half.buf[1].dict \in Seq(Nat))
  <2>1. CASE half = NoMessage
    BY <2>1 DEF NoMessage
  <2>2. ASSUME NEW c, NEW buf, half = Opened(c, buf), Opening(ext, shist, c, buf)
        PROVE  half.open \in BOOLEAN /\ half.buf[1].dict \in Seq(Nat)
    <3>1. half.open = TRUE /\ half.buf = buf
      BY <2>2 DEF Opened
    <3>2. buf[1].dict = Coded(ext, c, shist) /\ c \in BOOLEAN
      BY <2>2 DEF Opening
    <3> QED
      BY <1>3, <3>1, <3>2, CodedType DEF WireType
  <2> QED
    BY <1>3, <2>1, <2>2 DEF HalfOK
<1>5. f \in Frames /\ Illegal(ServerState, f)
  BY <1>4, BrokenIsIllegal DEF WireType
<1>6. wire' = Append(wire, f) /\ UNCHANGED <<ext, reasm, inhist, got>>
  BY <1>1, <1>5, Sent
<1>7. WireType'
  BY <1>1, <1>2, <1>5, Sent DEF WireType
<1> QED
  BY <1>2, <1>5, <1>6, <1>7, SendsIllegal

\* Cut, the server is where it was.
LEMMA ServerLeavesSound ==
    ASSUME WireType, NEW st, Follows(st), ServerLeaves
    PROVE  WireType' /\ Follows(st)'
<1>1. /\ UNCHANGED <<ext, wire, frames, half, shist, whole, pings, reasm, inhist, got>>
      /\ last = "none" /\ last' = "cut"
  BY DEF ServerLeaves, readVars
<1>2. ServerState' = ServerState
  BY <1>1 DEF ServerState
<1> QED
  BY <1>1, <1>2 DEF WireType, Follows

\* What was finished and pinged is not taken back.
LEMMA ServerGrows ==
    ASSUME WireType, ServerStep
    PROVE  Grown(whole, whole') /\ Grown(pings, pings')
           /\ UNCHANGED <<reasm, inhist, got, mid, owes, out, ext, writeVars>> /\ UNCHANGED <<vars, view>>
<1>1. ASSUME NEW q, NEW S, NEW e, q \in Seq(S) PROVE Grown(q, Append(q, e)) /\ Grown(q, q)
  BY <1>1 DEF Grown
<1>2. ASSUME NEW m, Completes(m) PROVE Grown(whole, whole')
  BY <1>1, <1>2 DEF Completes, WireType
<1>3. Grown(whole, whole)
  BY DEF Grown
<1>4. ASSUME NEW f, Sends(f)
      PROVE  UNCHANGED <<reasm, inhist, got, mid, owes, out, ext, writeVars>> /\ UNCHANGED <<vars, view>>
  BY <1>4 DEF Sends, readVars, writeVars
<1>5. CASE ServerBegins
  BY <1>1, <1>2, <1>3, <1>4, <1>5 DEF ServerBegins, WireType
<1>6. CASE ServerContinues
  BY <1>1, <1>2, <1>3, <1>4, <1>6 DEF ServerContinues, WireType
<1>7. CASE ServerPings
  BY <1>1, <1>3, <1>4, <1>7 DEF ServerPings, WireType
<1>8. CASE ServerCloses
  BY <1>1, <1>3, <1>4, <1>8 DEF ServerCloses, WireType
<1>9. CASE ServerBreaks
  BY <1>1, <1>3, <1>4, <1>9 DEF ServerBreaks, WireType
<1>10. CASE ServerLeaves
  BY <1>1, <1>3, <1>10 DEF ServerLeaves, WireType, readVars, writeVars
<1> QED
  BY <1>5, <1>6, <1>7, <1>8, <1>9, <1>10 DEF ServerStep

LEMMA ServerSound ==
    ASSUME WireType, NEW st, Follows(st), ServerStep
    PROVE  WireType' /\ \E s : s[1] = st[1] /\ Follows(s)'
  BY ServerBeginsSound, ServerContinuesSound, ServerControlSound, ServerBreaksSound,
     ServerLeavesSound DEF ServerStep

-----------------------------------------------------------------------------
(* readLoop.                                                               *)

\* It has answered the pings up to k, or is about to answer that one.
AnsweredUpTo(k) ==
    /\ k <= Len(pings)
    /\ Live /\ mid = "ping" => k = Cardinality(Pongs(Len(out))) + 1
    /\ Live /\ mid # "ping" => k = Cardinality(Pongs(Len(out)))
    /\ mid = "ping" => k \in DOMAIN pings /\ owes = pings[k]

Tracked == \E st : Follows(st) /\ AnsweredUpTo(st[1].pings)

Handed == [n : Seq(Nat), legible : BOOLEAN]

GotExact ==
    /\ got \in Seq(Handed)
    /\ Len(got) \in Nat /\ DOMAIN got = 1..Len(got) /\ Len(got) <= Len(whole)
    /\ \A i \in 1..Len(got) : got[i].legible /\ got[i].n = whole[i]

Reader ==
    /\ WireType
    /\ GotExact
    /\ mid \in {"reads", "ping", "close", "over", "failed"}
    /\ last \in {"none", "close", "cut", "rule"}
    /\ mid = "failed" => last = "rule"
    /\ mid # "failed" => Tracked
    /\ reasm.open \in BOOLEAN /\ Len(reasm.buf) <= MaxParts
    /\ Len(inhist) <= Window
    /\ owes \in Nat

LEMMA ServerReader ==
    ASSUME Reader, ServerStep
    PROVE  Reader'
<1>1. last = "none" /\ last' \in {"none", "close", "cut", "rule"}
  BY DEF ServerStep, ServerBegins, ServerContinues, ServerPings, ServerCloses, ServerBreaks,
     ServerLeaves, Sends
<1>2. mid # "failed"
  BY <1>1 DEF Reader
<1>3. PICK st : Follows(st) /\ AnsweredUpTo(st[1].pings)
  BY <1>2 DEF Reader, Tracked
<1>4. WireType' /\ \E s : s[1] = st[1] /\ Follows(s)'
  BY <1>3, ServerSound DEF Reader
<1>5. PICK s : s[1] = st[1] /\ Follows(s)'
  BY <1>4
<1>6. /\ Grown(whole, whole') /\ Grown(pings, pings')
      /\ UNCHANGED <<reasm, inhist, got, mid, owes, out>> /\ UNCHANGED sock
  BY ServerGrows DEF Reader, vars
<1>7. Len(whole) <= Len(whole') /\ Len(pings) <= Len(pings')
  <2>1. ASSUME NEW a, NEW b, NEW S, NEW T, a \in Seq(S), b \in Seq(T), Grown(a, b) PROVE Len(a) <= Len(b)
    <3>1. DOMAIN a = 1..Len(a) /\ DOMAIN b = 1..Len(b) /\ Len(a) \in Nat /\ Len(b) \in Nat
      BY <2>1
    <3>2. \A i \in 1..Len(a) : i \in 1..Len(b)
      BY <2>1, <3>1 DEF Grown
    <3> QED
      BY <3>1, <3>2
  <2> QED
    BY <1>4, <1>6, <2>1 DEF Reader, WireType
<1>8. /\ DOMAIN whole = 1..Len(whole) /\ Len(whole) \in Nat /\ Len(whole') \in Nat
      /\ DOMAIN pings = 1..Len(pings) /\ Len(pings) \in Nat /\ Len(pings') \in Nat
  BY <1>4 DEF Reader, WireType
<1>9. GotExact'
  BY <1>6, <1>7, <1>8 DEF Reader, GotExact, Grown
<1>10. Pongs(Len(out))' = Pongs(Len(out)) /\ Live' = Live
  BY <1>6 DEF Pongs, Live
<1>11. st[1].pings \in Nat
  BY <1>3 DEF Follows, Well, Reader, WireType
<1>12. AnsweredUpTo(s[1].pings)'
  BY <1>3, <1>5, <1>6, <1>7, <1>8, <1>10, <1>11 DEF AnsweredUpTo, Grown
<1>13. Tracked'
  BY <1>5, <1>12 DEF Tracked
<1> QED
  BY <1>1, <1>2, <1>4, <1>6, <1>9, <1>13 DEF Reader

\* With the first frame readLoop goes on to the next state.
LEMMA Advance ==
    ASSUME WireType, NEW st, Follows(st), wire # <<>>, NEW w, wire' = Tail(wire),
           Len(wire) = 1 => last # "rule",
           reasm' = st[2].half, inhist' = st[2].hist, w = Len(got'), w = st[2].wholes,
           UNCHANGED <<ext, whole, pings, half, shist, last>>
    PROVE  \E s : s[1] = st[2] /\ Follows(s)'
<1>1. PICK L \in Nat : L = Len(wire) /\ L > 0
  <2>1. Len(wire) \in Nat /\ Len(wire) > 0
    BY DEF WireType
  <2> QED
    BY <2>1
<1>2. PICK s : s = [i \in 1..L |-> st[i + 1]]
  OBVIOUS
<1>3. \A i \in 1..L : s[i] = st[i + 1]
  BY <1>2
<1>4. Len(wire') = L - 1 /\ \A i \in 1..(L - 1) : wire'[i] = wire[i + 1]
  BY <1>1 DEF WireType
<1>5. \A i \in 1..(L + 1) : Well(ext, st[i])
  BY <1>1 DEF Follows
<1>6. \A i \in 1..L : Well(ext', s[i])
  BY <1>1, <1>3, <1>5
<1>7. s[1] = st[2] /\ st[2] = At(reasm', inhist', Len(got'), st[2].pings)
  BY <1>1, <1>3, <1>5 DEF Well
<1>8. last' # "rule" => s[L] = ServerState'
  BY <1>1, <1>3 DEF Follows, ServerState
<1>9. ASSUME NEW i \in 1..(L - 1), i < L - 1 \/ last' # "rule"
      PROVE  Legal(ext', whole', pings', s[i], wire'[i], s[i + 1])
  <2>1. Legal(ext, whole, pings, st[i + 1], wire[i + 1], st[i + 2])
    <3>1. i + 1 \in 1..L /\ (i + 1 < L \/ last # "rule") /\ (i + 1) + 1 = i + 2
      BY <1>1, <1>9
    <3> QED
      BY <1>1, <3>1 DEF Follows
  <2>2. s[i] = st[i + 1] /\ s[i + 1] = st[i + 2] /\ wire'[i] = wire[i + 1]
    <3>1. i \in 1..L /\ i + 1 \in 1..L /\ (i + 1) + 1 = i + 2
      BY <1>1
    <3> QED
      BY <1>3, <1>4, <3>1
  <2> QED
    BY <2>1, <2>2
<1>10. last' = "rule" => wire' # <<>> /\ Illegal(s[L - 1], wire'[L - 1])
  <2>1. ASSUME last' = "rule" PROVE wire' # <<>> /\ Illegal(s[L - 1], wire'[L - 1])
    <3>1. L > 1 /\ Illegal(st[L], wire[L])
      BY <1>1, <2>1 DEF Follows
    <3>2. Len(wire') # 0
      BY <1>1, <1>4, <3>1
    <3>3. s[L - 1] = st[L] /\ wire'[L - 1] = wire[L]
      <4>1. L - 1 \in 1..L /\ L - 1 \in 1..(L - 1) /\ (L - 1) + 1 = L
        BY <1>1, <3>1
      <4> QED
        BY <1>3, <1>4, <4>1
    <3>4. wire' # <<>>
      BY <3>2
    <3> QED
      BY <3>1, <3>3, <3>4
  <2> QED
    BY <2>1
<1>11. Len(wire') + 1 = L
  BY <1>1, <1>4
<1> QED
  BY <1>1, <1>4, <1>6, <1>7, <1>8, <1>9, <1>10, <1>11 DEF Follows

\* A step that fails leaves what it had or nothing.
LEMMA Fails ==
    ASSUME NEW r, NEW f, Step(r, f).err
    PROVE  Step(r, f).reasm \in {r, NoMessage}
  BY DEF Step, Continue, Begin, Stepped

LEMMA PartsBound == \A n : n = 0 => n <= MaxParts
  BY FramesAssumption

LEMMA WindowBound == \A n : n = 0 => n <= Window
  BY FramesAssumption

LEMMA WellBounds ==
    ASSUME NEW x, NEW st, Well(x, st)
    PROVE  st.half.open \in BOOLEAN /\ Len(st.half.buf) <= MaxParts /\ Len(st.hist) <= Window
<1>1. CASE st.half = NoMessage
  <2>1. st.half.open = FALSE /\ st.half.buf = <<>> /\ Len(<<>>) = 0
    BY <1>1 DEF NoMessage
  <2> QED
    <3>1. Len(st.half.buf) = 0
      BY <2>1
    <3>2. Len(st.hist) <= Window
      BY DEF Well
    <3> QED
      BY <2>1, <3>1, <3>2, PartsBound
<1>2. ASSUME NEW c, NEW buf, st.half = Opened(c, buf), Opening(x, st.hist, c, buf)
      PROVE  st.half.open \in BOOLEAN /\ Len(st.half.buf) <= MaxParts
  BY <1>2, FramesAssumption DEF Opened, Opening
<1> QED
  BY <1>1, <1>2 DEF Well, HalfOK

LEMMA ReadNextSound ==
    ASSUME Reader, ReadNext
    PROVE  Reader'
<1> DEFINE f == wire[1]
           s == Step(reasm, f)
           m == s.out[1]
<1>1. /\ mid = "reads" /\ wire # <<>> /\ wire' = Tail(wire) /\ Head(wire) = f
      /\ UNCHANGED <<ext, frames, half, shist, whole, pings, last, out, sock>>
  BY DEF ReadNext, vars, writeVars, Reader, WireType
<1>2. PICK st : Follows(st) /\ AnsweredUpTo(st[1].pings)
  BY <1>1 DEF Reader, Tracked
<1>3. /\ reasm' = IF Refused(f) THEN reasm ELSE s.reasm
      /\ IF Refused(f) \/ s.err
         THEN mid' = "failed" /\ UNCHANGED <<inhist, owes, got>>
         ELSE IF s.out = <<>>
         THEN UNCHANGED <<inhist, mid, owes, got>>
         ELSE /\ inhist' = InflatedHistory(ext, inhist, m)
              /\ IF m.op \in Control
                 THEN mid' = m.op /\ owes' = m.parts[1].n /\ UNCHANGED got
                 ELSE /\ got' = Append(got, [n |-> Numbers(m.parts), legible |-> Legible(ext, inhist, m)])
                      /\ UNCHANGED <<mid, owes>>
  BY <1>1 DEF ReadNext
<1>4. WireType'
  BY <1>1 DEF Reader, WireType
<1>5. /\ Len(wire) \in Nat /\ Len(wire) > 0
      /\ st[1] = At(reasm, inhist, Len(got), st[1].pings) /\ Well(ext, st[1])
  BY <1>1, <1>2 DEF Follows, Reader, WireType
<1>6. st[1].half = reasm /\ st[1].hist = inhist /\ st[1].wholes = Len(got) /\ st[1].pings \in Nat
  BY <1>5 DEF At, Well
<1>7. CASE Len(wire) = 1 /\ last = "rule"
  <2>1. Illegal(st[1], f)
    BY <1>2, <1>7 DEF Follows
  <2>2. mid' = "failed" /\ UNCHANGED <<inhist, owes, got>>
    BY <1>3, <1>6, <2>1 DEF Illegal
  <2>3. reasm' \in {reasm, NoMessage}
    BY <1>3, <1>6, <2>1, Fails DEF Illegal
  <2>4. NoMessage.open = FALSE /\ Len(NoMessage.buf) = 0
    BY DEF NoMessage
  <2>5. reasm'.open \in BOOLEAN /\ Len(reasm'.buf) <= MaxParts
    <3>1. CASE reasm' = reasm
      BY <3>1 DEF Reader
    <3>2. CASE reasm' = NoMessage
      BY <2>4, <3>2, PartsBound
    <3> QED
      BY <2>3, <3>1, <3>2
  <2>6. GotExact'
    BY <1>1, <2>2 DEF Reader, GotExact
  <2> QED
    BY <1>1, <1>4, <1>7, <2>2, <2>5, <2>6 DEF Reader
<1>8. CASE ~(Len(wire) = 1 /\ last = "rule")
  <2>1. Legal(ext, whole, pings, st[1], f, st[2])
    <3>0. PICK L \in Nat : L = Len(wire) /\ L > 0
      BY <1>5
    <3>1. 1 \in 1..L /\ (L # 1 => 1 < L) /\ 1 + 1 = 2
      BY ONLY <3>0
    <3> QED
      BY <1>2, <1>8, <3>0, <3>1 DEF Follows
  <2>2. Understands(ext, whole, pings, st[1], f, st[2], s, m) /\ Well(ext, st[2])
    BY <1>5, <1>6, <2>1, ReadsLegal DEF Reader, WireType
  <2>3. st[2].pings \in Nat /\ st[2].wholes \in Nat
    BY <2>2 DEF Well
  <2> HIDE DEF s, m, f
  <2>4. ~Refused(f) /\ ~s.err /\ reasm' = st[2].half
    BY <1>3, <2>2 DEF Understands
  <2>5. /\ inhist' = st[2].hist /\ mid' \in {"reads", "ping", "close"}
        /\ GotExact' /\ Len(got') = st[2].wholes
        /\ mid' = "ping" => st[2].pings = st[1].pings + 1 /\ st[2].pings \in DOMAIN pings
                            /\ owes' = pings[st[2].pings]
        /\ mid' # "ping" => st[2].pings = st[1].pings
        /\ owes' \in Nat
    <3>1. CASE s.out = <<>>
      <4>1. UNCHANGED <<inhist, mid, owes, got>>
        BY <1>3, <2>4, <3>1
      <4> QED
        BY <1>1, <1>6, <2>2, <3>1, <4>1 DEF Understands, Reader, GotExact
    <3>2. CASE s.out # <<>> /\ m.op \in Control
      <4>1. inhist' = InflatedHistory(ext, inhist, m) /\ mid' = m.op /\ owes' = m.parts[1].n /\ UNCHANGED got
        BY <1>3, <2>4, <3>2
      <4>2. owes' \in Nat
        <5>1. m.parts[1] = f.part
          BY <2>2, <3>2 DEF Understands
        <5>2. wire[1] \in Frames
          BY <1>5 DEF Reader, WireType
        <5> QED
          BY <4>1, <5>1, <5>2 DEF f, Frames, Parts
      <4> QED
        BY <1>1, <1>6, <2>2, <3>2, <4>1, <4>2 DEF Understands, Reader, GotExact
    <3>3. CASE s.out # <<>> /\ m.op \notin Control
      <4>1. /\ inhist' = InflatedHistory(ext, inhist, m) /\ UNCHANGED <<mid, owes>>
            /\ got' = Append(got, [n |-> Numbers(m.parts), legible |-> Legible(ext, inhist, m)])
        BY <1>3, <2>4, <3>3
      <4>2. /\ st[2].wholes = Len(got) + 1 /\ st[2].wholes \in DOMAIN whole
            /\ whole[st[2].wholes] = Numbers(m.parts) /\ Legible(ext, inhist, m)
            /\ inhist' = st[2].hist /\ st[2].pings = st[1].pings
        BY <1>6, <2>2, <3>3, <4>1 DEF Understands
      <4>3. PICK e : e = [n |-> Numbers(m.parts), legible |-> Legible(ext, inhist, m)]
        OBVIOUS
      <4>4. e.legible /\ e.n = whole[Len(got) + 1]
        BY <4>2, <4>3
      <4>5. /\ Len(got') = Len(got) + 1 /\ DOMAIN got' = 1..Len(got')
            /\ \A i \in 1..Len(got') : got'[i] = IF i <= Len(got) THEN got[i] ELSE e
            /\ got' \in Seq(Handed)
        <5>1. e \in Handed
          <6>1. Numbers(m.parts) \in Seq(Nat)
            BY <4>2 DEF Reader, WireType
          <6>2. Legible(ext, inhist, m) = TRUE
            BY <4>2 DEF Legible
          <6> QED
            BY <4>3, <6>1, <6>2 DEF Handed
        <5>2. got \in Seq(Handed) /\ got' = Append(got, e)
          BY <4>1, <4>3 DEF Reader, GotExact
        <5>3. got' \in Seq(Handed)
          BY <5>1, <5>2
        <5> QED
          BY <5>1, <5>2, <5>3
      <4>6. DOMAIN whole = 1..Len(whole) /\ Len(whole) \in Nat
        BY DEF Reader, WireType
      <4>7. GotExact'
        BY <1>1, <4>2, <4>4, <4>5, <4>6 DEF Reader, GotExact
      <4> QED
        <5>1. owes' \in Nat
          BY <4>1 DEF Reader
        <5> QED
          BY <1>1, <4>1, <4>2, <4>5, <4>7, <5>1
    <3> QED
      BY <3>1, <3>2, <3>3
  <2>6. \E q : q[1] = st[2] /\ Follows(q)'
    BY <1>1, <1>2, <1>8, <2>4, <2>5, Advance DEF Reader
  <2>7. PICK q : q[1] = st[2] /\ Follows(q)'
    BY <2>6
  <2>8. Pongs(Len(out))' = Pongs(Len(out)) /\ Live' = Live
    BY <1>1 DEF Pongs, Live
  <2>9. DOMAIN pings = 1..Len(pings) /\ Len(pings) \in Nat
    BY DEF Reader, WireType
  <2>10. Live => st[1].pings = Cardinality(Pongs(Len(out)))
    BY <1>1, <1>2, <1>6 DEF AnsweredUpTo
  <2>11. AnsweredUpTo(q[1].pings)'
    <3>1. CASE mid' = "ping"
      BY <1>1, <1>6, <2>3, <2>5, <2>7, <2>8, <2>9, <2>10, <3>1 DEF AnsweredUpTo
    <3>2. CASE mid' # "ping"
      BY <1>1, <1>2, <1>6, <2>3, <2>5, <2>7, <2>8, <2>9, <2>10, <3>2 DEF AnsweredUpTo
    <3> QED
      BY <3>1, <3>2
  <2>12. Tracked'
    BY <2>7, <2>11 DEF Tracked
  <2>13. reasm'.open \in BOOLEAN /\ Len(reasm'.buf) <= MaxParts /\ Len(inhist') <= Window
    BY <2>2, <2>4, <2>5, WellBounds
  <2> QED
    BY <1>1, <1>4, <2>5, <2>12, <2>13 DEF Reader
<1> QED
  BY <1>7, <1>8

-----------------------------------------------------------------------------
(* The sockets, seen from the frames: a session dials once, so what is     *)
(* closed stays closed.                                                    *)

DialOnce ==
    /\ count \in Nat
    /\ sock \in [Sessions -> {"none", "open", "closed"}]
    /\ \A s \in Sessions : s > count => pc[s] = "none"
    /\ \A s \in Sessions : pc[s] \in {"none", "dial"} => sock[s] = "none"
    /\ DOMAIN pc = Sessions

LEMMA DialStep ==
    ASSUME DialOnce, [Next]_vars
    PROVE  DialOnce' /\ (sock[1] # "none" => sock'[1] # "none")
                     /\ (sock[1] = "closed" => sock'[1] = "closed")
<1>0. 1 \in Sessions
  BY BoundsAssumption DEF Sessions
<1>1. CASE UNCHANGED <<count, sock, pc>>
  BY <1>1 DEF DialOnce
<1>2. ASSUME NEW c, CloseSock(c), UNCHANGED count,
             \A s \in Sessions : pc'[s] \in {"none", "dial"} => pc[s] = pc'[s],
             \A s \in Sessions : pc[s] = "none" => pc'[s] = "none", DOMAIN pc' = DOMAIN pc
      PROVE  DialOnce' /\ (sock[1] # "none" => sock'[1] # "none")
                       /\ (sock[1] = "closed" => sock'[1] = "closed")
  <2>1. \A s \in Sessions : sock'[s] = sock[s] \/ (sock[s] = "open" /\ sock'[s] = "closed")
    BY <1>2 DEF CloseSock, Closed, DialOnce
  <2>2. sock' \in [Sessions -> {"none", "open", "closed"}]
    BY <1>2 DEF CloseSock, Closed, DialOnce
  <2> QED
    BY <1>0, <1>2, <2>1, <2>2 DEF DialOnce
<1>3. CloseSock(0) <=> sock' = sock
  BY DEF CloseSock
<1>4. CASE UserStep \/ UIStep \/ SendWrite
  <2>1. CASE Connect
    BY <1>0, <2>1, BoundsAssumption DEF Connect, DialOnce, Sessions
  <2>2. CASE MarkClosed
    BY <1>2, <2>2 DEF MarkClosed, goVars
  <2>3. CASE DisconnectClose
    BY <1>2, <2>3 DEF DisconnectClose, sess, goVars
  <2>4. CASE ConnectCheck \/ DisconnectCheck \/ SendTake \/ ClearMessages
    BY <1>1, <2>4 DEF ConnectCheck, DisconnectCheck, SendTake, ClearMessages, sess, goVars
  <2>5. CASE DisconnectState \/ DisconnectTake \/ SendCheck \/ SendWrite
    BY <1>1, <2>5 DEF DisconnectState, DisconnectTake, SendCheck, SendWrite, sess, goVars
  <2> QED
    BY <1>4, <2>1, <2>2, <2>3, <2>4, <2>5 DEF UserStep, UIStep
<1>5. ASSUME NEW s \in Sessions, NEW from, NEW to, GoAt(s, from, to), from # "none", to \notin {"none", "dial"}
      PROVE  /\ \A t \in Sessions : pc'[t] \in {"none", "dial"} => pc[t] = pc'[t]
             /\ \A t \in Sessions : pc[t] = "none" => pc'[t] = "none"
             /\ DOMAIN pc' = DOMAIN pc
  BY <1>5 DEF GoAt, DialOnce
<1>6. ASSUME NEW s \in Sessions, OwnStep(s) \/ DialSucceeds(s) \/ ReadMessage(s) \/ ReadEnds(s)
      PROVE  DialOnce' /\ (sock[1] # "none" => sock'[1] # "none")
                       /\ (sock[1] = "closed" => sock'[1] = "closed")
  <2>1. CASE DialFails(s)
    BY <1>2, <1>3, <1>5, <1>6, <2>1 DEF DialFails, sess
  <2>2. CASE CheckCancelled(s)
    BY <1>2, <1>5, <1>6, <2>2 DEF CheckCancelled, sess
  <2>3. CASE CheckGoesOn(s)
    BY <1>2, <1>3, <1>5, <1>6, <2>3 DEF CheckGoesOn, sess
  <2>4. CASE SetConnInfo(s)
    BY <1>2, <1>3, <1>5, <1>6, <2>4 DEF SetConnInfo, sess
  <2>5. CASE SetOpen(s)
    BY <1>2, <1>3, <1>5, <1>6, <2>5 DEF SetOpen, sess
  <2>6. CASE ReadLoop(s)
    BY <1>2, <1>3, <1>5, <1>6, <2>6 DEF ReadLoop, sess
  <2>7. CASE Watch(s)
    BY <1>2, <2>7 DEF Watch, sess, goVars
  <2>8. CASE LeaveState(s)
    BY <1>2, <1>3, <1>5, <1>6, <2>8 DEF LeaveState, sess
  <2>9. CASE LeaveClose(s)
    BY <1>2, <1>5, <1>6, <2>9 DEF LeaveClose, sess
  <2>10. CASE DialSucceeds(s)
    BY <1>0, <1>6, <2>10 DEF DialSucceeds, GoAt, DialOnce, sess
  <2>11. CASE ReadMessage(s)
    BY <1>1, <2>11 DEF ReadMessage, sess, goVars
  <2>12. CASE ReadEnds(s)
    BY <1>2, <1>3, <1>5, <1>6, <2>12 DEF ReadEnds, sess
  <2> QED
    BY <1>6, <2>1, <2>2, <2>3, <2>4, <2>5, <2>6, <2>7, <2>8, <2>9, <2>10, <2>11, <2>12 DEF OwnStep
<1>7. CASE UNCHANGED vars
  BY <1>1, <1>7 DEF vars, sess, goVars
<1> QED
  BY <1>4, <1>6, <1>7 DEF Next

-----------------------------------------------------------------------------
(* What one more write does to what is on the wire.                        *)

Written == [half : {"head", "body"}, op : {"data", "pong", "close"}, part : Parts]
IsPong(w) == w.half = "body" /\ w.op = "pong"

LEMMA PongsFinite ==
    ASSUME out \in Seq(Written)
    PROVE  IsFiniteSet(Pongs(Len(out))) /\ Cardinality(Pongs(Len(out))) \in Nat
<1>1. Len(out) \in Nat
  OBVIOUS
<1>2. IsFiniteSet(1..Len(out))
  BY <1>1, FS_Interval
<1>3. Pongs(Len(out)) \subseteq 1..Len(out)
  BY DEF Pongs
<1> QED
  BY <1>2, <1>3, FS_Subset, FS_CardinalityType

LEMMA PongsAppend ==
    ASSUME out \in Seq(Written), NEW w \in Written, out' = Append(out, w), NEW L, L = Len(out)
    PROVE  /\ \A i \in 0..L : Pongs(i)' = Pongs(i)
           /\ ~IsPong(w) => Pongs(L + 1)' = Pongs(L)
           /\ IsPong(w) => /\ Pongs(L + 1)' = Pongs(L) \cup {L + 1}
                           /\ Cardinality(Pongs(L + 1)') = Cardinality(Pongs(L)) + 1
<1>1. /\ L \in Nat /\ Len(out') = L + 1 /\ out'[L + 1] = w
      /\ \A i \in 1..L : out'[i] = out[i]
  OBVIOUS
<1>2. ASSUME NEW i \in 0..L PROVE Pongs(i)' = Pongs(i)
  BY <1>1 DEF Pongs
<1>3. ~IsPong(w) => Pongs(L + 1)' = Pongs(L)
  BY <1>1 DEF Pongs, IsPong
<1>4. IsPong(w) => Pongs(L + 1)' = Pongs(L) \cup {L + 1}
  BY <1>1 DEF Pongs, IsPong
<1>5. IsFiniteSet(Pongs(L)) /\ L + 1 \notin Pongs(L)
  BY <1>1, PongsFinite DEF Pongs
<1>6. Cardinality(Pongs(L) \cup {L + 1}) = Cardinality(Pongs(L)) + 1
  BY <1>5, FS_AddElement
<1> QED
  BY <1>2, <1>3, <1>4, <1>6

\* The pongs stay in order when a write is not a pong or carries the next payload.
LEMMA PongsStep ==
    ASSUME out \in Seq(Written), NEW w \in Written, out' = Append(out, w),
           PongsInOrder, pings' = pings,
           IsPong(w) => /\ Cardinality(Pongs(Len(out))) + 1 \in DOMAIN pings
                        /\ w.part.n = pings[Cardinality(Pongs(Len(out))) + 1]
    PROVE  PongsInOrder'
<1>1. PICK L \in Nat : L = Len(out)
  OBVIOUS
<1>2. Len(out') = L + 1 /\ out'[L + 1] = w /\ \A i \in 1..L : out'[i] = out[i]
  BY <1>1
<1>3. /\ \A i \in 0..L : Pongs(i)' = Pongs(i)
      /\ ~IsPong(w) => Pongs(L + 1)' = Pongs(L)
      /\ IsPong(w) => /\ Pongs(L + 1)' = Pongs(L) \cup {L + 1}
                      /\ Cardinality(Pongs(L + 1)') = Cardinality(Pongs(L)) + 1
  BY <1>1, PongsAppend
<1>4. ASSUME NEW i \in Pongs(L)
      PROVE  /\ Cardinality(Pongs(i)') \in DOMAIN pings
             /\ out'[i].part.n = pings[Cardinality(Pongs(i)')]
  <2>1. i \in 1..L /\ Pongs(i)' = Pongs(i)
    BY <1>1, <1>3 DEF Pongs
  <2> QED
    BY <1>1, <1>2, <2>1 DEF PongsInOrder
<1>5. CASE ~IsPong(w)
  BY <1>1, <1>2, <1>3, <1>4, <1>5 DEF PongsInOrder
<1>6. CASE IsPong(w)
  <2>1. Cardinality(Pongs(L + 1)') \in DOMAIN pings
        /\ out'[L + 1].part.n = pings[Cardinality(Pongs(L + 1)')]
    BY <1>1, <1>2, <1>3, <1>6
  <2> QED
    BY <1>1, <1>2, <1>3, <1>4, <1>6, <2>1 DEF PongsInOrder
<1> QED
  BY <1>5, <1>6

LEMMA GreatestExists ==
    ASSUME NEW T \in SUBSET Nat, NEW L \in Nat, T \subseteq 1..L, T # {}
    PROVE  \E x \in T : T \subseteq 1..x
<1> DEFINE D == {L - x : x \in T}
<1>1. D \subseteq Nat /\ D # {}
  <2>1. \A x \in T : x \in 1..L /\ L - x \in Nat
    OBVIOUS
  <2>2. PICK x \in T : TRUE
    OBVIOUS
  <2>3. L - x \in D
    BY <2>2
  <2> QED
    BY <2>1, <2>3
<1>2. PICK d \in D : \A e \in D : d <= e
  BY <1>1, Least
<1>3. PICK x \in T : d = L - x
  BY <1>2
<1>4. \A y \in T : L - y \in D
  OBVIOUS
<1>5. \A y \in T : y <= x
  BY <1>2, <1>3, <1>4
<1> QED
  BY <1>3, <1>5

LEMMA Greatest ==
    ASSUME NEW T, NEW n \in Nat, n \in T, T \subseteq 1..n
    PROVE  Max(T) = n
<1>1. \A y \in T : n >= y
  OBVIOUS
<1>2. \A x \in T : (\A y \in T : x >= y) => x = n
  OBVIOUS
<1> QED
  BY <1>1, <1>2 DEF Max

\* The history a coder of this side has is the one the server will have.
Synchronous ==
    /\ outhist \in Seq(Nat) /\ Len(outhist) <= Window
    /\ outhist = HistoryOnWire(Len(out) + 1)
    /\ ext.fresh => outhist = <<>>
    /\ WritesLegibly

LEMMA HistoryAppend ==
    ASSUME out \in Seq(Written), NEW w \in Written, out' = Append(out, w), ext' = ext, NEW L, L = Len(out)
    PROVE  /\ \A i \in 1..(L + 1) : HistoryOnWire(i)' = HistoryOnWire(i)
           /\ \A i \in 1..L : Compressed(i)' = Compressed(i)
           /\ Compressed(L + 1)' <=> w.half = "head" /\ Deflates(ext, w.op)
           /\ ~(w.half = "head" /\ Deflates(ext, w.op)) => HistoryOnWire(L + 2)' = HistoryOnWire(L + 1)
           /\ w.half = "head" /\ Deflates(ext, w.op) =>
                  HistoryOnWire(L + 2)' = Kept(ext.fresh, w.part.dict, <<w.part>>)
<1>1. /\ L \in Nat /\ Len(out') = L + 1 /\ out'[L + 1] = w
      /\ \A i \in 1..L : out'[i] = out[i]
  OBVIOUS
<1>2. \A i \in 1..L : Compressed(i)' = Compressed(i)
  BY <1>1 DEF Compressed
<1>3. Compressed(L + 1)' <=> w.half = "head" /\ Deflates(ext, w.op)
  BY <1>1 DEF Compressed
<1>4. \A i \in 1..(L + 1) : Earlier(i)' = Earlier(i) /\ Earlier(i) \subseteq 1..L
  BY <1>1, <1>2 DEF Earlier
<1>5. ASSUME NEW i \in 1..(L + 1) PROVE HistoryOnWire(i)' = HistoryOnWire(i)
  <2>1. CASE Earlier(i) = {}
    BY <1>4, <2>1 DEF HistoryOnWire
  <2>2. CASE Earlier(i) # {}
    <3>1. PICK j : j = Max(Earlier(i))
      OBVIOUS
    <3>2. \E n \in Nat : n \in Earlier(i) /\ Earlier(i) \subseteq 1..n
      <4>1. Earlier(i) \subseteq 1..L
        BY <1>4
      <4>2. Earlier(i) \in SUBSET Nat
        BY <1>1, <4>1
      <4> QED
        BY <1>1, <2>2, <4>1, <4>2, GreatestExists
    <3>3. j \in 1..L
      BY <1>4, <3>1, <3>2, Greatest
    <3> QED
      BY <1>1, <1>4, <3>1, <3>3 DEF HistoryOnWire
  <2> QED
    BY <2>1, <2>2
<1>6. CASE ~(w.half = "head" /\ Deflates(ext, w.op))
  <2>1. Earlier(L + 2)' = Earlier(L + 1)
    BY <1>1, <1>2, <1>3, <1>6 DEF Earlier
  <2>2. Earlier(L + 1)' = Earlier(L + 1)
    BY <1>1, <1>4
  <2>3. HistoryOnWire(L + 2)' = HistoryOnWire(L + 1)'
    BY <2>1, <2>2 DEF HistoryOnWire
  <2> QED
    BY <1>1, <1>2, <1>3, <1>5, <1>6, <2>3
<1>7. CASE w.half = "head" /\ Deflates(ext, w.op)
  <2>1. Earlier(L + 2)' = Earlier(L + 1) \cup {L + 1}
    BY <1>1, <1>2, <1>3, <1>7 DEF Earlier
  <2>2. Earlier(L + 2)' \subseteq 1..(L + 1) /\ L + 1 \in Earlier(L + 2)' /\ L + 1 \in Nat
    BY <1>1, <1>4, <2>1
  <2>3. Max(Earlier(L + 2)') = L + 1
    BY <2>2, Greatest
  <2>4. HistoryOnWire(L + 2)' = Kept(ext.fresh, w.part.dict, <<w.part>>)
    BY <1>1, <2>2, <2>3 DEF HistoryOnWire
  <2> QED
    BY <1>1, <1>2, <1>3, <1>5, <1>7, <2>4
<1> QED
  BY <1>6, <1>7

\* A body, or the head of a frame coded as DeflatedPart does, keeps both in step.
LEMMA SynchronousStep ==
    ASSUME ext \in ExtParams, Synchronous, out \in Seq(Written),
           NEW w \in Written, out' = Append(out, w), ext' = ext,
           \/ w.half = "body" /\ outhist' = outhist
           \/ \E n : /\ w.half = "head" /\ w.part = DeflatedPart(ext, outhist, w.op, n)
                     /\ outhist' = DeflatedHistory(ext, outhist, w.op, w.part)
    PROVE  Synchronous'
<1>1. PICK L \in Nat : L = Len(out)
  OBVIOUS
<1>2. Len(out') = L + 1 /\ out'[L + 1] = w /\ \A i \in 1..L : out'[i] = out[i]
  BY <1>1
<1>3. /\ \A i \in 1..(L + 1) : HistoryOnWire(i)' = HistoryOnWire(i)
      /\ \A i \in 1..L : Compressed(i)' = Compressed(i)
      /\ Compressed(L + 1)' <=> w.half = "head" /\ Deflates(ext, w.op)
      /\ ~(w.half = "head" /\ Deflates(ext, w.op)) => HistoryOnWire(L + 2)' = HistoryOnWire(L + 1)
      /\ w.half = "head" /\ Deflates(ext, w.op) =>
             HistoryOnWire(L + 2)' = Kept(ext.fresh, w.part.dict, <<w.part>>)
  BY <1>1, HistoryAppend
<1>4. outhist = HistoryOnWire(L + 1)
  BY <1>1 DEF Synchronous
<1>5. \A i \in 1..L : Compressed(i)' => out'[i].part.dict = DictOf(ext.fresh, HistoryOnWire(i)')
  BY <1>1, <1>2, <1>3 DEF Synchronous, WritesLegibly
<1>6. DOMAIN out' = 1..(L + 1) /\ Len(out') + 1 = L + 2
  BY <1>1, <1>2
<1>7. CASE ~(w.half = "head" /\ Deflates(ext, w.op))
  <2>1. outhist' = outhist
    BY <1>7 DEF DeflatedHistory
  <2>2. outhist' = HistoryOnWire(L + 2)'
    BY <1>3, <1>4, <1>7, <2>1
  <2>3. WritesLegibly'
    BY <1>1, <1>3, <1>5, <1>6, <1>7 DEF WritesLegibly
  <2> QED
    BY <1>6, <2>1, <2>2, <2>3 DEF Synchronous
<1>8. CASE w.half = "head" /\ Deflates(ext, w.op)
  <2>1. PICK n : /\ w.part = DeflatedPart(ext, outhist, w.op, n)
                 /\ outhist' = DeflatedHistory(ext, outhist, w.op, w.part)
    BY <1>8
  <2>2. w.part.dict = DictOf(ext.fresh, outhist) /\ outhist' = Kept(ext.fresh, outhist, <<w.part>>)
    BY <1>8, <2>1 DEF DeflatedPart, DeflatedHistory
  <2>3. <<w.part>> \in Seq(Parts)
    BY DEF Written
  <2>4. outhist' \in Seq(Nat) /\ Len(outhist') <= Window
    BY <2>2, <2>3, KeptType DEF Synchronous
  <2>5. outhist' = HistoryOnWire(L + 2)' /\ (ext.fresh => outhist' = <<>>)
    BY <1>3, <1>8, <2>2 DEF Synchronous, Kept, DictOf
  <2>6. out'[L + 1].part.dict = DictOf(ext.fresh, HistoryOnWire(L + 1)')
    BY <1>1, <1>2, <1>3, <1>4, <2>2
  <2>7. WritesLegibly'
    BY <1>1, <1>5, <1>6, <2>6 DEF WritesLegibly
  <2> QED
    BY <1>6, <2>4, <2>5, <2>7 DEF Synchronous
<1> QED
  BY <1>7, <1>8

-----------------------------------------------------------------------------
(* The writers.                                                            *)

\* Who holds the lock wrote the last head, and is where its body comes next.
Locked ==
    /\ lock.by \in {"none", "ui", "reader"}
    /\ lock = Free <=> lock.by = "none"
    /\ lock # Free => lock.op \in {"data", "pong", "close"} /\ lock.part \in Parts
    /\ lock.by = "ui" => ui \in {"send", "close"} /\ lock.op # "pong"
    /\ lock.by = "reader" => mid \in {"ping", "close"} /\ lock.op = Answer /\ lock.part.n = owes

\* Heads and bodies alternate, and the last head without a body is that of the lock.
Resting == lock = Free /\ Live

Paired ==
    /\ out \in Seq(Written)
    /\ \A i \in 1..Len(out) :
           /\ out[i].half = IF i % 2 = 1 THEN "head" ELSE "body"
           /\ i % 2 = 0 => out[i].part = out[i - 1].part
    /\ lock # Free => Len(out) % 2 = 1 /\ out[Len(out)].part = lock.part
    /\ Len(out) % 2 = 1 => ~Resting

Counted ==
    /\ frames \in 0..MaxTraffic /\ writes \in 0..MaxTraffic
    /\ said \in BOOLEAN
    /\ Near /\ ui \in {"check", "send"} /\ lock.by # "ui" => writes < MaxTraffic

\* Before the connection, and from afar, no frame is seen.
Quiet ==
    view = "sessions" \/ sock[1] = "none" =>
        wire = <<>> /\ out = <<>> /\ pings = <<>> /\ mid = "reads" /\ lock = Free

Writer == Locked /\ Paired /\ Counted /\ Synchronous /\ PongsInOrder

CInv == DialOnce /\ view \in {"sessions", "frames"} /\ Reader /\ Writer /\ Quiet

LEMMA FollowsKept ==
    ASSUME UNCHANGED <<wire, ext, reasm, inhist, last, half, shist, whole, pings>>, Len(got') = Len(got)
    PROVE  \A st : Follows(st)' <=> Follows(st)
  BY DEF Follows, ServerState

\* A write of w, of which readLoop knows.
LEMMA Appends ==
    ASSUME Reader, Paired, Synchronous, PongsInOrder, Locked,
           NEW w \in Written, out' = Append(out, w), pings' = pings, ext' = ext,
           \/ /\ lock = Free /\ w.half = "head"
              /\ \E n : w.part = DeflatedPart(ext, outhist, w.op, n)
                        /\ outhist' = DeflatedHistory(ext, outhist, w.op, w.part)
              /\ lock' # Free /\ lock'.part = w.part
              /\ Live
           \/ /\ lock # Free /\ w.half = "body" /\ w.part = lock.part
              /\ outhist' = outhist /\ lock' = Free,
           IsPong(w) => /\ Cardinality(Pongs(Len(out))) + 1 \in DOMAIN pings
                        /\ w.part.n = pings[Cardinality(Pongs(Len(out))) + 1]
    PROVE  Paired' /\ Synchronous' /\ PongsInOrder'
<1>1. PICK L \in Nat : L = Len(out)
  BY DEF Paired
<1>2. out' \in Seq(Written) /\ Len(out') = L + 1 /\ out'[L + 1] = w /\ \A i \in 1..L : out'[i] = out[i]
  BY <1>1 DEF Paired
<1>3. PongsInOrder'
  BY PongsStep DEF Paired
<1>4. Synchronous'
  BY SynchronousStep DEF Paired, Reader, WireType
<1>5. CASE lock = Free
  <2>1. w.half = "head" /\ lock' # Free /\ lock'.part = w.part /\ L % 2 # 1
    BY <1>1, <1>5 DEF Paired, Resting
  <2>2. L % 2 = 0 /\ (L + 1) % 2 = 1
    BY <1>1, <2>1
  <2>3. \A i \in 1..(L + 1) : /\ out'[i].half = IF i % 2 = 1 THEN "head" ELSE "body"
                             /\ i % 2 = 0 => out'[i].part = out'[i - 1].part
    BY <1>1, <1>2, <2>1, <2>2 DEF Paired
  <2> QED
    BY <1>1, <1>2, <1>3, <1>4, <2>1, <2>2, <2>3 DEF Paired, Resting
<1>6. CASE lock # Free
  <2>1. w.half = "body" /\ w.part = lock.part /\ lock' = Free /\ L % 2 = 1 /\ out[L].part = w.part
    BY <1>1, <1>6 DEF Paired
  <2>2. (L + 1) % 2 = 0 /\ L >= 1
    BY <1>1, <2>1
  <2>3. \A i \in 1..(L + 1) : /\ out'[i].half = IF i % 2 = 1 THEN "head" ELSE "body"
                             /\ i % 2 = 0 => out'[i].part = out'[i - 1].part
    BY <1>1, <1>2, <2>1, <2>2 DEF Paired
  <2> QED
    BY <1>1, <1>2, <1>3, <1>4, <2>1, <2>2, <2>3 DEF Paired, Resting
<1> QED
  BY <1>5, <1>6

\* Where out, the lock and what readLoop is about change, the rest of its invariant stays.
LEMMA ReaderKept ==
    ASSUME Reader, UNCHANGED <<ext, serverVars>>, UNCHANGED <<reasm, inhist, got, owes>>,
           mid' \in {"reads", "ping", "close", "over", "failed"}, mid' = "failed" <=> mid = "failed",
           \A k \in Nat : AnsweredUpTo(k) => AnsweredUpTo(k)'
    PROVE  Reader'
<1>1. /\ UNCHANGED <<wire, frames, half, shist, whole, pings, last>>
      /\ UNCHANGED <<ext, reasm, inhist, got, owes>>
  BY DEF serverVars
<1>2. ASSUME NEW st, Follows(st), AnsweredUpTo(st[1].pings) PROVE Tracked'
  <2>1. Follows(st)'
    BY <1>1, <1>2, FollowsKept
  <2>2. st[1].pings \in Nat
    BY <1>2 DEF Reader, WireType, Follows, Well
  <2> QED
    BY <1>2, <2>1, <2>2 DEF Tracked
<1>3. mid' # "failed" => Tracked'
  BY <1>2 DEF Reader, Tracked
<1>4. WireType' /\ GotExact'
  BY <1>1 DEF Reader, WireType, GotExact
<1> QED
  BY <1>1, <1>3, <1>4 DEF Reader

LEMMA HeadSound ==
    ASSUME CInv, NEW by \in {"ui", "reader"}, NEW op \in {"data", "pong", "close"}, NEW n \in Nat,
           LockAndWriteHead(by, op, n), UNCHANGED <<vars, view, ext, serverVars, readVars>>,
           by = "ui" => ui \in {"send", "close"} /\ op # "pong",
           by = "reader" => mid \in {"ping", "close"} /\ op = Answer /\ n = owes,
           Near, Counted'
    PROVE  CInv'
<1>1. PICK part : part = DeflatedPart(ext, outhist, op, n)
  OBVIOUS
<1>2. PICK w : w = [half |-> "head", op |-> op, part |-> part]
  OBVIOUS
<1>3. /\ lock = Free /\ Live
      /\ lock' = [by |-> by, op |-> op, part |-> part]
      /\ outhist' = DeflatedHistory(ext, outhist, op, part)
      /\ out' = Append(out, w)
  BY <1>1, <1>2 DEF LockAndWriteHead
<1>4. part \in Parts /\ part.n = n
  <2>1. DictOf(ext.fresh, outhist) \in Seq(Nat) /\ Raw \in Seq(Nat)
    BY DEF DictOf, Raw, CInv, Writer, Synchronous
  <2> QED
    BY <1>1, <2>1 DEF DeflatedPart, Parts
<1>5. w \in Written /\ ~IsPong(w) /\ w.half = "head" /\ w.op = op /\ w.part = part
  BY <1>2, <1>4 DEF Written, IsPong
<1>6. lock' # Free /\ lock'.by = by /\ lock'.op = op /\ lock'.part = part
  BY <1>3 DEF Free
<1>7. /\ UNCHANGED <<ext, view, wire, pings, mid, owes, reasm, inhist, got>>
      /\ UNCHANGED <<ui, sock, count, pc>>
  BY DEF serverVars, readVars, vars, uiVars, sess, goVars
<1>8. Paired' /\ Synchronous' /\ PongsInOrder'
  BY <1>1, <1>3, <1>5, <1>6, <1>7, Appends DEF CInv, Writer
<1>9. Locked'
  BY <1>4, <1>6, <1>7 DEF Locked, Answer
<1>10. Pongs(Len(out))' = Pongs(Len(out)) /\ Live' = Live
  <2>1. PICK L : L = Len(out)
    OBVIOUS
  <2>2. Pongs(L + 1)' = Pongs(L)
    BY <1>3, <1>5, <2>1, PongsAppend DEF CInv, Writer, Paired
  <2>3. Len(out') = L + 1
    BY <1>3, <2>1 DEF CInv, Writer, Paired
  <2> QED
    BY <1>7, <2>1, <2>2, <2>3 DEF Live
<1>11. \A k \in Nat : AnsweredUpTo(k) => AnsweredUpTo(k)'
  BY <1>7, <1>10 DEF AnsweredUpTo
<1>12. Reader'
  BY <1>7, <1>11, ReaderKept DEF CInv, Reader
<1>13. DialOnce'
  BY <1>7 DEF CInv, DialOnce
<1>14. Quiet'
  BY <1>3, <1>7 DEF Quiet, Live, Near
<1> QED
  BY <1>7, <1>8, <1>9, <1>12, <1>13, <1>14 DEF CInv, Writer

LEMMA BodySound ==
    ASSUME CInv, NEW by \in {"ui", "reader"}, WriteBody(by),
           UNCHANGED <<view, ext, serverVars, reasm, inhist, owes, got, writes, said>>,
           UNCHANGED <<sock, count, pc>>,
           by = "ui" => mid' = mid /\ ui' \in {"close", "idle"},
           by = "reader" => ReaderGoesOn /\ ui' = ui
    PROVE  CInv'
<1>1. /\ lock.by = by /\ lock # Free /\ lock' = Free /\ outhist' = outhist
      /\ lock.op \in {"data", "pong", "close"} /\ lock.part \in Parts
  BY DEF WriteBody, CInv, Writer, Locked, Free
<1>2. PICK w : w = [half |-> "body", op |-> lock.op, part |-> lock.part]
  OBVIOUS
<1>3. out' = IF Live THEN Append(out, w) ELSE out
  BY <1>2 DEF WriteBody
<1>4. w \in Written /\ w.half = "body" /\ w.part = lock.part /\ (IsPong(w) <=> lock.op = "pong")
  BY <1>1, <1>2 DEF Written, IsPong
<1>5. UNCHANGED <<wire, pings, frames>>
  BY DEF serverVars
<1>6. by = "reader" => mid \in {"ping", "close"} /\ lock.op = Answer /\ lock.part.n = owes
                       /\ mid' = IF mid = "ping" THEN "reads" ELSE "over"
  BY <1>1 DEF CInv, Writer, Locked, ReaderGoesOn
<1>7. by = "ui" => ~IsPong(w) /\ ui \in {"send", "close"}
  BY <1>1, <1>4 DEF CInv, Writer, Locked
<1>8. IsPong(w) <=> by = "reader" /\ mid = "ping"
  BY <1>4, <1>6, <1>7 DEF Answer
<1>9. IsPong(w) /\ Live => /\ Cardinality(Pongs(Len(out))) + 1 \in DOMAIN pings
                           /\ w.part.n = pings[Cardinality(Pongs(Len(out))) + 1]
  <2>1. ASSUME IsPong(w), Live
        PROVE  /\ Cardinality(Pongs(Len(out))) + 1 \in DOMAIN pings
               /\ w.part.n = pings[Cardinality(Pongs(Len(out))) + 1]
    <3>1. mid = "ping" /\ lock.part.n = owes
      BY <1>6, <1>8, <2>1
    <3>2. PICK st : AnsweredUpTo(st[1].pings)
      BY <3>1 DEF CInv, Reader, Tracked
    <3> QED
      BY <1>4, <2>1, <3>1, <3>2 DEF AnsweredUpTo
  <2> QED
    BY <2>1
<1>10. Live' = Live
  BY DEF Live
<1>11. Paired' /\ Synchronous' /\ PongsInOrder'
  <2>1. CASE Live
    <3>1. out' = Append(out, w)
      BY <1>3, <2>1
    <3> QED
      BY <1>1, <1>4, <1>5, <1>9, <2>1, <3>1, Appends DEF CInv, Writer
  <2>2. CASE ~Live
    <3>1. out' = out
      BY <1>3, <2>2
    <3>2. Paired'
      BY <1>1, <1>10, <2>2, <3>1 DEF CInv, Writer, Paired, Resting
    <3>3. Synchronous'
      BY <1>1, <3>1 DEF CInv, Writer, Synchronous, WritesLegibly, HistoryOnWire, Earlier, Compressed
    <3>4. PongsInOrder'
      BY <1>5, <3>1 DEF CInv, Writer, PongsInOrder, Pongs
    <3> QED
      BY <3>2, <3>3, <3>4
  <2> QED
    BY <2>1, <2>2
<1>12. Locked'
  BY <1>1 DEF Locked, Free
<1>13. /\ Live /\ IsPong(w) => Cardinality(Pongs(Len(out))') = Cardinality(Pongs(Len(out))) + 1
       /\ Live /\ ~IsPong(w) => Pongs(Len(out))' = Pongs(Len(out))
  <2>1. PICK L : L = Len(out)
    OBVIOUS
  <2>2. CASE Live
    <3>1. out' = Append(out, w) /\ out \in Seq(Written)
      BY <1>3, <2>2 DEF CInv, Writer, Paired
    <3>2. Len(out') = L + 1
      BY <1>4, <2>1, <3>1
    <3>3. /\ ~IsPong(w) => Pongs(L + 1)' = Pongs(L)
          /\ IsPong(w) => Cardinality(Pongs(L + 1)') = Cardinality(Pongs(L)) + 1
      BY <1>4, <2>1, <3>1, PongsAppend
    <3> QED
      BY <2>1, <3>2, <3>3
  <2> QED
    BY <2>2
<1>14. ASSUME NEW k \in Nat, AnsweredUpTo(k) PROVE AnsweredUpTo(k)'
  <2>1. CASE by = "reader" /\ mid = "ping"
    BY <1>5, <1>6, <1>8, <1>10, <1>13, <1>14, <2>1 DEF AnsweredUpTo
  <2>2. CASE ~(by = "reader" /\ mid = "ping")
    BY <1>5, <1>6, <1>8, <1>10, <1>13, <1>14, <2>2 DEF AnsweredUpTo
  <2> QED
    BY <2>1, <2>2
<1>15. mid' \in {"reads", "ping", "close", "over", "failed"} /\ (mid' = "failed" <=> mid = "failed")
  BY <1>6 DEF CInv, Reader
<1>16. Reader'
  BY <1>14, <1>15, ReaderKept DEF CInv
<1>17. Counted'
  BY <1>1, <1>5, <1>7 DEF CInv, Writer, Counted, Near
<1>18. DialOnce' /\ Quiet'
  BY <1>1 DEF CInv, DialOnce, Quiet
<1> QED
  BY <1>11, <1>12, <1>16, <1>17, <1>18 DEF CInv, Writer

\* An answer that cannot be written is as good as done, for nothing is written any more.
LEMMA CannotWriteSound ==
    ASSUME CInv, ReaderCannotWrite
    PROVE  CInv'
<1>1. /\ Near /\ mid \in {"ping", "close"} /\ lock = Free /\ ~Live
      /\ mid' = IF mid = "ping" THEN "reads" ELSE "over"
      /\ UNCHANGED <<view, ext, serverVars, reasm, inhist, owes, got, lock, outhist, out, writes, said>>
      /\ UNCHANGED <<ui, sock, count, pc>>
  BY DEF ReaderCannotWrite, WriteRefused, ReaderGoesOn, vars, uiVars, sess, goVars, writeVars
<1>2. UNCHANGED <<wire, pings, frames>>
  BY <1>1 DEF serverVars
<1>3. \A k \in Nat : AnsweredUpTo(k) => AnsweredUpTo(k)'
  BY <1>1, <1>2 DEF AnsweredUpTo, Live
<1>4. Reader'
  BY <1>1, <1>3, ReaderKept DEF CInv
<1>5. Locked'
  BY <1>1 DEF CInv, Writer, Locked, Free
<1>6. Paired' /\ Counted'
  BY <1>1, <1>2 DEF CInv, Writer, Paired, Resting, Counted, Live, Near
<1>7. Synchronous'
  BY <1>1 DEF CInv, Writer, Synchronous, WritesLegibly, HistoryOnWire, Earlier, Compressed
<1>8. PongsInOrder'
  BY <1>1, <1>2 DEF CInv, Writer, PongsInOrder, Pongs
<1>9. DialOnce' /\ Quiet'
  BY <1>1, <1>2 DEF CInv, DialOnce, Quiet, Near
<1> QED
  BY <1>1, <1>4, <1>5, <1>6, <1>7, <1>8, <1>9 DEF CInv, Writer

\* The steps of the sessions leave the frames alone.
LEMMA SessionKeeps ==
    ASSUME CInv, UNCHANGED nearVars, [Next]_vars,
           lock.by = "ui" => ui' \in {"send", "close"},
           Near /\ ui' \in {"check", "send"} =>
               ui \in {"check", "send"} \/ frames + writes < MaxTraffic
    PROVE  CInv'
<1>1. /\ UNCHANGED <<view, ext, serverVars, reasm, inhist, mid, owes, got>>
      /\ UNCHANGED <<lock, outhist, out, writes, said>>
  BY DEF nearVars, readVars, writeVars
<1>2. UNCHANGED <<wire, pings, frames>>
  BY <1>1 DEF serverVars
<1>3. DialOnce' /\ (sock[1] # "none" => sock'[1] # "none") /\ (sock[1] = "closed" => sock'[1] = "closed")
  BY DialStep DEF CInv
<1>4. sock[1] \in {"none", "open", "closed"}
  BY BoundsAssumption DEF CInv, DialOnce, Sessions
<1>5. Live' => Live \/ sock[1] = "none"
  BY <1>3, <1>4 DEF Live
<1>6. ASSUME NEW k \in Nat, AnsweredUpTo(k) PROVE AnsweredUpTo(k)'
  <2>1. CASE sock[1] = "none"
    <3>1. pings = <<>> /\ out = <<>> /\ mid = "reads"
      BY <2>1 DEF CInv, Quiet
    <3>2. k = 0
      BY <1>6, <3>1 DEF AnsweredUpTo
    <3>3. Cardinality(Pongs(Len(out))) = 0
      <4>1. Len(out) = 0
        BY <3>1
      <4>2. Pongs(Len(out)) = {}
        BY <4>1 DEF Pongs
      <4> QED
        BY <4>2, FS_EmptySet
    <3>4. Cardinality(Pongs(Len(out))') = 0
      BY <1>1, <3>3 DEF Pongs
    <3> QED
      BY <1>1, <1>2, <1>6, <3>1, <3>2, <3>4 DEF AnsweredUpTo
  <2>2. CASE sock[1] # "none"
    <3>1. Pongs(Len(out))' = Pongs(Len(out))
      BY <1>1 DEF Pongs
    <3> QED
      BY <1>1, <1>2, <1>5, <1>6, <2>2, <3>1 DEF AnsweredUpTo
  <2> QED
    BY <2>1, <2>2
<1>7. Reader'
  <2>1. mid' \in {"reads", "ping", "close", "over", "failed"} /\ (mid' = "failed" <=> mid = "failed")
    BY <1>1 DEF CInv, Reader
  <2> QED
    BY <1>1, <1>6, <2>1, ReaderKept DEF CInv
<1>8. Locked'
  BY <1>1 DEF CInv, Writer, Locked, Answer
<1>9. Paired'
  <2>1. CASE sock[1] = "none"
    <3>1. out = <<>> /\ lock = Free /\ Len(out) = 0
      BY <2>1 DEF CInv, Quiet
    <3> QED
      BY <1>1, <3>1 DEF CInv, Writer, Paired
  <2>2. CASE sock[1] # "none"
    BY <1>1, <1>5, <2>2 DEF CInv, Writer, Paired, Resting
  <2> QED
    BY <2>1, <2>2
<1>10. Counted'
  <2>1. frames \in 0..MaxTraffic /\ writes \in 0..MaxTraffic /\ said \in BOOLEAN
        /\ (Near /\ ui \in {"check", "send"} /\ lock.by # "ui" => writes < MaxTraffic)
    BY DEF CInv, Writer, Counted
  <2>2. frames + writes < MaxTraffic => writes < MaxTraffic
    BY <2>1, ChannelAssumption
  <2>3. Near' <=> Near
    BY <1>1 DEF Near
  <2> QED
    BY <1>1, <1>2, <2>1, <2>2, <2>3 DEF Counted
<1>11. Synchronous'
  BY <1>1 DEF CInv, Writer, Synchronous, WritesLegibly, HistoryOnWire, Earlier, Compressed
<1>12. PongsInOrder'
  BY <1>1, <1>2 DEF CInv, Writer, PongsInOrder, Pongs
<1>13. Quiet'
  BY <1>1, <1>2, <1>3, <1>4 DEF CInv, Quiet
<1> QED
  BY <1>1, <1>3, <1>7, <1>8, <1>9, <1>10, <1>11, <1>12, <1>13 DEF CInv, Writer

\* The server and readLoop leave the writers alone.
LEMMA WriterKept ==
    ASSUME CInv, UNCHANGED <<vars, view, ext, writeVars>>,
           Near, sock[1] = "open", frames' \in 0..MaxTraffic,
           lock.by = "reader" => mid' = mid /\ owes' = owes,
           Grown(pings, pings'), Reader'
    PROVE  CInv'
<1>1. /\ UNCHANGED <<ui, sock, count, pc, view, ext>>
      /\ UNCHANGED <<lock, outhist, out, writes, said>>
  BY DEF vars, uiVars, sess, goVars, writeVars
<1>2. Locked'
  BY <1>1 DEF CInv, Writer, Locked, Answer
<1>3. Paired' /\ Counted'
  BY <1>1 DEF CInv, Writer, Paired, Resting, Counted, Live, Near
<1>4. Synchronous'
  BY <1>1 DEF CInv, Writer, Synchronous, WritesLegibly, HistoryOnWire, Earlier, Compressed
<1>5. PongsInOrder'
  BY <1>1 DEF CInv, Writer, PongsInOrder, Pongs, Grown
<1>6. DialOnce' /\ Quiet'
  BY <1>1 DEF CInv, DialOnce, Quiet, Near
<1> QED
  BY <1>1, <1>2, <1>3, <1>4, <1>5, <1>6 DEF CInv, Writer

LEMMA ServerKeeps == ASSUME CInv, ServerStep PROVE CInv'
<1>1. Near /\ sock[1] = "open" /\ frames' \in 0..MaxTraffic
  <2>1. ASSUME NEW f, Sends(f) PROVE Near /\ sock[1] = "open" /\ frames' \in 0..MaxTraffic
    BY <2>1, ChannelAssumption DEF Sends, Listens, Live, CInv, Writer, Counted
  <2>2. CASE ServerLeaves
    BY <2>2 DEF ServerLeaves, Listens, Live, CInv, Writer, Counted
  <2> QED
    BY <2>1, <2>2 DEF ServerStep, ServerBegins, ServerContinues, ServerPings, ServerCloses, ServerBreaks
<1>2. /\ Grown(pings, pings') /\ UNCHANGED <<mid, owes, ext, writeVars>> /\ UNCHANGED <<vars, view>>
  BY ServerGrows DEF CInv, Reader
<1>3. Reader'
  BY ServerReader DEF CInv
<1> QED
  BY <1>1, <1>2, <1>3, WriterKept

LEMMA ReadKeeps == ASSUME CInv, ReadNext PROVE CInv'
<1>1. /\ Near /\ sock[1] = "open" /\ mid = "reads" /\ frames' = frames
      /\ UNCHANGED <<vars, view, ext, writeVars>> /\ UNCHANGED pings
  BY DEF ReadNext, Live
<1>2. lock.by # "reader" /\ frames' \in 0..MaxTraffic /\ Grown(pings, pings')
  BY <1>1 DEF CInv, Writer, Locked, Counted, Grown
<1>3. Reader'
  BY ReadNextSound DEF CInv
<1> QED
  BY <1>1, <1>2, <1>3, WriterKept

LEMMA WritesKeep == ASSUME CInv, UIWrites \/ ReaderAnswers PROVE CInv'
<1>0. /\ writes \in 0..MaxTraffic /\ frames \in 0..MaxTraffic /\ said \in BOOLEAN /\ owes \in Nat
      /\ lock.by # "ui" /\ Near /\ ui \in {"check", "send"} => writes < MaxTraffic
  BY DEF CInv, Writer, Counted, Reader
<1>1. CASE UIWritesHead
  <2>1. /\ Near /\ ui = "send" /\ LockAndWriteHead("ui", "data", writes + 1) /\ writes' = writes + 1
        /\ UNCHANGED <<vars, view, ext, serverVars, readVars>> /\ said' = said
    BY <1>1 DEF UIWritesHead
  <2>2. lock = Free /\ lock'.by = "ui" /\ lock.by # "ui"
    BY <2>1 DEF LockAndWriteHead, Free
  <2>3. Counted'
    BY <1>0, <2>1, <2>2, ChannelAssumption DEF Counted, serverVars
  <2> QED
    BY <1>0, <2>1, <2>3, HeadSound
<1>2. CASE UIWritesClose
  <2>1. /\ Near /\ ui = "close" /\ LockAndWriteHead("ui", "close", 0) /\ writes' = writes
        /\ UNCHANGED <<vars, view, ext, serverVars, readVars>> /\ said' = TRUE
    BY <1>2 DEF UIWritesClose
  <2>2. Counted'
    BY <1>0, <2>1 DEF Counted, serverVars, vars, uiVars
  <2> QED
    BY <2>1, <2>2, HeadSound
<1>3. CASE ReaderWritesHead
  <2>1. /\ Near /\ mid \in {"ping", "close"} /\ LockAndWriteHead("reader", Answer, owes)
        /\ UNCHANGED <<vars, view, ext, serverVars, readVars, writes, said>>
    BY <1>3 DEF ReaderWritesHead
  <2>2. lock = Free /\ lock.by # "ui" /\ Answer \in {"data", "pong", "close"}
    BY <2>1 DEF LockAndWriteHead, Free, Answer
  <2>3. Counted'
    BY <1>0, <2>1, <2>2 DEF Counted, serverVars, vars, uiVars, Near
  <2> QED
    BY <1>0, <2>1, <2>2, <2>3, HeadSound
<1>4. CASE UIWritesBody
  <2>1. /\ WriteBody("ui") /\ UNCHANGED <<view, ext, serverVars, reasm, inhist, owes, got, writes, said>>
        /\ mid' = mid /\ ui' = "idle" /\ UNCHANGED <<sock, count, pc>>
    BY <1>4 DEF UIWritesBody, SendWrite, readVars, sess, goVars
  <2> QED
    BY <2>1, BodySound
<1>5. CASE UICloseWritten
  <2>1. /\ WriteBody("ui") /\ UNCHANGED <<view, ext, serverVars, reasm, inhist, owes, got, writes, said>>
        /\ mid' = mid /\ ui' = "close" /\ UNCHANGED <<sock, count, pc>>
    BY <1>5 DEF UICloseWritten, readVars, vars, uiVars, sess, goVars
  <2> QED
    BY <2>1, BodySound
<1>6. CASE ReaderWritesBody
  <2>1. /\ WriteBody("reader") /\ UNCHANGED <<view, ext, serverVars, reasm, inhist, owes, got, writes, said>>
        /\ ReaderGoesOn /\ ui' = ui /\ UNCHANGED <<sock, count, pc>>
    BY <1>6 DEF ReaderWritesBody, vars, uiVars, sess, goVars
  <2> QED
    BY <2>1, BodySound
<1>7. CASE ReaderCannotWrite
  BY <1>7, CannotWriteSound
<1>8. CASE UISendFails
  BY <1>8, SessionKeeps DEF UISendFails, WriteRefused, SendWrite, Next, Free
<1>9. CASE UIDisconnects
  BY <1>9, SessionKeeps DEF UIDisconnects, DisconnectClose, Next, UIStep
<1> QED
  BY <1>1, <1>2, <1>3, <1>4, <1>5, <1>6, <1>7, <1>8, <1>9 DEF UIWrites, ReaderAnswers

\* What the UI thread is about after a step of the sessions.
LEMMA SessionsKeep == ASSUME CInv, (Afar /\ Next) \/ NearSession \/ ReadStops PROVE CInv'
<1>0. [Next]_vars /\ UNCHANGED nearVars
  <2>1. ChannelNext
    BY DEF ChannelNext
  <2> QED
    BY <2>1, NearStep DEF Afar, NearSession, ReadStops
<1>1. lock.by = "ui" => Near /\ ui \in {"send", "close"}
  BY DEF CInv, Writer, Locked, Quiet, Near, Free
<1>2. CASE Afar /\ Next
  <2>1. ~Near /\ lock.by # "ui"
    BY <1>1, <1>2 DEF Afar, Near
  <2> QED
    BY <1>0, <2>1, SessionKeeps
<1>3. CASE ReadStops
  <2>1. ui' = ui
    BY <1>3 DEF ReadStops, ReadEnds, uiVars
  <2> QED
    BY <1>0, <1>1, <2>1, SessionKeeps
<1>4. CASE NearSession
  <2>1. \/ ui' = ui
        \/ ui \in {"idle", "connect", "closing", "take"} /\ ui' \notin {"check", "send"}
        \/ ui = "check" /\ ui' \in {"send", "idle"}
        \/ ui = "idle" /\ ui' = "check" /\ frames + writes < MaxTraffic
    BY <1>4 DEF NearSession, UIGoesOn, ConnectCheck, Connect, DisconnectCheck, DisconnectState,
       DisconnectTake, SendTake, SendCheck, MarkClosed, DialSucceeds, OwnStep, DialFails, CheckCancelled, CheckGoesOn, SetConnInfo, SetOpen,
       ReadLoop, Watch, LeaveState, LeaveClose, uiVars
  <2>2. (lock.by = "ui" => ui' \in {"send", "close"})
        /\ (Near /\ ui' \in {"check", "send"} =>
               ui \in {"check", "send"} \/ frames + writes < MaxTraffic)
    BY <1>1, <2>1
  <2> QED
    BY <1>0, <2>2, SessionKeeps
<1> QED
  BY <1>2, <1>3, <1>4

LEMMA ChannelStep == ASSUME CInv, [ChannelNext]_allVars PROVE CInv'
<1>1. CASE UNCHANGED allVars
  <2>1. UNCHANGED nearVars /\ UNCHANGED vars /\ ui' = ui
    BY <1>1 DEF allVars, vars, uiVars
  <2>2. lock.by = "ui" => ui \in {"send", "close"}
    BY DEF CInv, Writer, Locked
  <2> QED
    BY <2>1, <2>2, SessionKeeps
<1> QED
  BY <1>1, ServerKeeps, ReadKeeps, WritesKeep, SessionsKeep DEF ChannelNext

LEMMA ChannelStart == ChannelInit => CInv
<1> SUFFICES ASSUME ChannelInit PROVE CInv
  OBVIOUS
<1>1. DialOnce
  BY DEF ChannelInit, Init, DialOnce
<1>2. Follows([i \in 1..1 |-> At(NoMessage, <<>>, 0, 0)])
  <2>1. Well(ext, At(NoMessage, <<>>, 0, 0))
    <3>1. <<>> \in Seq(Nat) /\ Len(<<>>) = 0 /\ Window \in Nat
      BY FramesAssumption
    <3> QED
      BY <3>1 DEF Well, At, HalfOK
  <2>2. Len(wire) = 0 /\ Len(got) = 0 /\ Len(whole) = 0 /\ Len(pings) = 0
    BY DEF ChannelInit
  <2> QED
    BY <2>1, <2>2 DEF ChannelInit, Follows, ServerState, At
<1>3. Cardinality(Pongs(Len(out))) = 0
  <2>1. Len(out) = 0
    BY DEF ChannelInit
  <2>2. Pongs(Len(out)) = {}
    BY <2>1 DEF Pongs
  <2> QED
    BY <2>2, FS_EmptySet
<1>4. Tracked
  <2>1. AnsweredUpTo(0)
    BY <1>3 DEF AnsweredUpTo, ChannelInit, Init, Live
  <2>2. PICK st : st = [i \in 1..1 |-> At(NoMessage, <<>>, 0, 0)]
    OBVIOUS
  <2>3. st[1].pings = 0
    BY <2>2 DEF At
  <2> QED
    BY <1>2, <2>1, <2>2, <2>3 DEF Tracked
<1>5. Reader
  <2>1. WireType /\ GotExact /\ owes \in Nat
    BY DEF ChannelInit, WireType, GotExact
  <2>2. reasm.open \in BOOLEAN /\ Len(reasm.buf) <= MaxParts /\ Len(inhist) <= Window
    <3>1. reasm = NoMessage /\ inhist = <<>>
      BY DEF ChannelInit
    <3>2. NoMessage.open \in BOOLEAN /\ Len(NoMessage.buf) = 0
      BY DEF NoMessage
    <3>3. reasm.open \in BOOLEAN /\ Len(reasm.buf) = 0
      BY <3>1, <3>2
    <3>4. Len(inhist) = 0
      BY <3>1
    <3>5. Len(reasm.buf) <= MaxParts
      BY <3>3, PartsBound
    <3>6. Len(inhist) <= Window
      BY <3>4, WindowBound
    <3> QED
      BY <3>3, <3>5, <3>6
  <2> QED
    BY <1>4, <2>1, <2>2 DEF Reader, ChannelInit
<1>6. Locked
  BY DEF ChannelInit, Locked, Free
<1>7. Paired
  BY DEF ChannelInit, Paired
<1>8. Counted
  <2>1. frames = 0 /\ writes = 0 /\ said = FALSE
    BY DEF ChannelInit
  <2>2. ui \notin {"check", "send"}
    BY DEF ChannelInit, Init
  <2>3. 0 \in 0..MaxTraffic
    BY ChannelAssumption
  <2>4. frames \in 0..MaxTraffic /\ writes \in 0..MaxTraffic
    BY <2>1, <2>3
  <2>5. said \in BOOLEAN
    BY <2>1
  <2> QED
    BY <2>2, <2>4, <2>5 DEF Counted
<1>9. Synchronous
  <2>1. outhist = <<>> /\ out = <<>> /\ Len(out) = 0 /\ Len(<<>>) = 0
    BY DEF ChannelInit
  <2>2. Earlier(1) = {}
    BY DEF Earlier
  <2>3. HistoryOnWire(1) = <<>>
    BY <2>2 DEF HistoryOnWire
  <2> QED
    BY <2>1, <2>3, FramesAssumption DEF Synchronous, WritesLegibly
<1>10. PongsInOrder
  BY DEF ChannelInit, PongsInOrder, Pongs
<1>11. Quiet
  BY DEF ChannelInit, Quiet
<1> QED
  BY <1>1, <1>5, <1>6, <1>7, <1>8, <1>9, <1>10, <1>11 DEF CInv, Writer, ChannelInit

LEMMA ChannelFollows == CInv => FramesExact
<1> SUFFICES ASSUME CInv PROVE FramesExact
  OBVIOUS
<1>1. FramesTypeOK
  BY DEF CInv, Reader, WireType, Writer, Counted, Locked, Synchronous, FramesTypeOK
<1>2. ReadsExactly
  <2>1. got \in Seq(Handed) /\ Len(got) \in Nat /\ DOMAIN got = 1..Len(got) /\ Len(got) <= Len(whole)
        /\ \A i \in 1..Len(got) : got[i].legible /\ got[i].n = whole[i]
    BY DEF CInv, Reader, GotExact
  <2>2. whole \in Seq(Seq(Nat)) /\ Len(whole) \in Nat
    BY DEF CInv, Reader, WireType
  <2>3. PICK L \in Nat : L = Len(got)
    BY <2>1
  <2>4. PICK g : g = [i \in 1..L |-> got[i].n]
    OBVIOUS
  <2>5. Len(g) = L /\ g \in Seq(Seq(Nat)) /\ \A i \in 1..L : g[i] = whole[i]
    <3>1. \A i \in 1..L : got[i].n = whole[i]
      BY <2>1, <2>3
    <3>2. \A i \in 1..L : whole[i] \in Seq(Nat)
      BY <2>1, <2>2, <2>3
    <3>3. \A i \in 1..L : g[i] = whole[i]
      BY <2>4, <3>1
    <3>4. g = [i \in 1..L |-> whole[i]]
      BY <2>4, <3>1
    <3>5. Len(g) = L /\ g \in Seq(Seq(Nat))
      BY <3>2, <3>4
    <3> QED
      BY <3>3, <3>5
  <2>6. SubSeq(g, 1, L) = SubSeq(whole, 1, L)
    <3>1. SubSeq(g, 1, L) = [i \in 1..L |-> g[i]] /\ SubSeq(whole, 1, L) = [i \in 1..L |-> whole[i]]
      BY <2>1, <2>2, <2>3, <2>5
    <3> QED
      BY <2>5, <3>1
  <2>7. IsPrefix(g, whole)
    BY <2>1, <2>3, <2>5, <2>6 DEF IsPrefix
  <2> QED
    BY <2>1, <2>3, <2>4, <2>7 DEF ReadsExactly
<1>3. RefusesForCause
  BY DEF CInv, Reader, RefusesForCause
<1>4. FramesWhole
  <2>1. DOMAIN out = 1..Len(out)
    BY DEF CInv, Writer, Paired
  <2> QED
    BY <2>1 DEF CInv, Writer, Paired, Resting, FramesWhole
<1> QED
  BY <1>1, <1>2, <1>3, <1>4 DEF CInv, Writer, Synchronous, FramesExact

\* For any sizes, any number of frames and any interleaving of the server, readLoop and the
\* UI thread: messages come out whole, in order and decoded with the history they were coded
\* with; reading fails only on a server that broke a rule; no frame is torn; what is written
\* can be decoded; and each ping is answered once, in order, with its payload.
THEOREM FramesNeverMix == ChannelSpec => []FramesExact
  BY ChannelStart, ChannelStep, ChannelFollows, PTL DEF ChannelSpec
=============================================================================
