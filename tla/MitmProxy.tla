------------------------------ MODULE MitmProxy ------------------------------
(***************************************************************************)
(* The life of the MITM proxy (internal/ui/mitm/proxy.go): Start and Stop  *)
(* on the UI thread, the accept loop, and one goroutine per connection,    *)
(* which serves a plain request, a blind CONNECT tunnel or an intercepted  *)
(* one.  Bytes, headers and upstream addresses are left out; what counts   *)
(* is who waits for whom, and what ends the wait: a deadline, the peer, or *)
(* the connection being closed by Stop.                                    *)
(***************************************************************************)
EXTENDS Integers, FiniteSets

CONSTANTS Conns,      \* the client connections
          Kinds,      \* what clients ask for: "http", "tunnel", "mitm"
          Holding     \* manual interception may hold messages

ASSUME KindsAssumption == Kinds \subseteq {"http", "tunnel", "mitm"}
ASSUME HoldingAssumption == Holding \in BOOLEAN

VARIABLES
    running,    \* Proxy.running
    listener,   \* Proxy.listener: the field and the socket behind it
    serve,      \* the accept loop
    serving,    \* serve's local c, between Accept and go handleConn
    wg,         \* Proxy.wg
    conns,      \* Proxy.conns: the tracked sockets
    ui,         \* where the UI thread is in Stop
    list,       \* closeAllConns' local list
    pc,         \* where the goroutine of each connection is
    kind,       \* what its client asked for
    open,       \* the sockets not closed by this side
    gone,       \* the sockets whose peer is gone
    flow,       \* the flow the goroutine is working on
    tunnel      \* the CONNECT flow's TunnelClosed

uiVars  == <<running, listener, ui, list>>
srvVars == <<serve, serving>>
goVars  == <<pc, kind, flow, tunnel>>
netVars == <<open, gone>>
vars    == <<uiVars, srvVars, goVars, netVars, wg, conns>>

\* The two sockets of a connection: the client's and the upstream's.
Client(k) == <<k, "client">>
Upstream(k) == <<k, "upstream">>
Sockets == Conns \X {"client", "upstream"}

\* A read or a write on the socket returns at once, with an error.
Dead(s) == s \notin open \/ s \in gone

Init ==
    /\ running = FALSE
    /\ listener = "none"
    /\ serve = "off"
    /\ serving = {}
    /\ wg = 0
    /\ conns = {}
    /\ ui = "idle"
    /\ list = {}
    /\ pc = [k \in Conns |-> "none"]
    /\ kind = [k \in Conns |-> "http"]
    /\ open = {}
    /\ gone = {}
    /\ flow = [k \in Conns |-> "none"]
    /\ tunnel = [k \in Conns |-> "none"]

-----------------------------------------------------------------------------
(* The UI thread.                                                          *)

Start ==
    /\ ui = "idle"
    /\ ~running
    /\ listener' = "open"
    /\ running' = TRUE
    /\ wg' = wg + 1
    /\ serve' = "accept"
    /\ UNCHANGED <<ui, list, serving, goVars, netVars, conns>>

\* Stop takes the listener and closes it.
StopListening ==
    /\ ui = "idle"
    /\ running
    /\ listener' = "none"
    /\ ui' = "take"
    /\ UNCHANGED <<running, list, srvVars, goVars, netVars, wg, conns>>

\* closeAllConns' critical section.
TakeConns ==
    /\ ui = "take"
    /\ list' = conns
    /\ conns' = {}
    /\ ui' = "close"
    /\ UNCHANGED <<running, listener, srvVars, goVars, netVars, wg>>

\* Mutant: closeAllConns forgets to close what it took.
CloseNone(s) ==
    /\ ui = "close"
    /\ s \in list
    /\ list' = list \ {s}
    /\ UNCHANGED <<running, listener, ui, srvVars, goVars, netVars, wg, conns>>

\* Its loop closes one connection after the other.
CloseOne(s) ==
    /\ ui = "close"
    /\ s \in list
    /\ open' = open \ {s}
    /\ list' = list \ {s}
    /\ UNCHANGED <<running, listener, ui, srvVars, goVars, gone, wg, conns>>

StopRunning ==
    /\ ui = "close"
    /\ list = {}
    /\ running' = FALSE
    /\ ui' = "wait"
    /\ UNCHANGED <<listener, list, srvVars, goVars, netVars, wg, conns>>

\* p.wg.Wait(), then MarkAllEnded, and the UI thread goes on with its frame.
Wait ==
    /\ ui = "wait"
    /\ wg = 0
    /\ flow' = [k \in Conns |-> IF flow[k] = "live" THEN "ended" ELSE flow[k]]
    /\ ui' = "idle"
    /\ UNCHANGED <<running, listener, list, srvVars, pc, kind, tunnel, netVars, wg, conns>>

-----------------------------------------------------------------------------
(* The accept loop.                                                        *)

Accept(k) ==
    /\ serve = "accept"
    /\ listener = "open"
    /\ pc[k] = "none"
    /\ serve' = "spawn"
    /\ serving' = {k}
    /\ open' = open \cup {Client(k)}
    /\ UNCHANGED <<uiVars, goVars, gone, wg, conns>>

\* Mutant: the count is given back and the loop goes on.
AcceptRetried ==
    /\ serve = "accept"
    /\ wg' = wg - 1
    /\ UNCHANGED <<uiVars, srvVars, goVars, netVars, conns>>

\* Accept returns an error once the listener is closed, and may return one before.
AcceptFails ==
    /\ serve = "accept"
    /\ serve' = "off"
    /\ wg' = wg - 1
    /\ UNCHANGED <<uiVars, serving, goVars, netVars, conns>>

Spawn ==
    /\ serve = "spawn"
    /\ wg' = wg + 1
    /\ \E k \in serving : pc' = [pc EXCEPT ![k] = "start"]
    /\ serving' = {}
    /\ serve' = "accept"
    /\ UNCHANGED <<uiVars, kind, flow, tunnel, netVars, conns>>

-----------------------------------------------------------------------------
(* The goroutine of connection k.                                          *)

goOnly == <<uiVars, srvVars, wg>>

Goto(k, label) == pc' = [pc EXCEPT ![k] = label]

\* Mutant: the client connection is not tracked.
TrackNot(k) ==
    /\ pc[k] = "start"
    /\ Goto(k, "request")
    /\ UNCHANGED <<goOnly, kind, flow, tunnel, netVars, conns>>

Track(k) ==
    /\ pc[k] = "start"
    /\ conns' = conns \cup {Client(k)}
    /\ Goto(k, "request")
    /\ UNCHANGED <<goOnly, kind, flow, tunnel, netVars>>

\* No request within 30 s (60 s in an intercepted tunnel), an error, or a request that
\* is answered at once because it names no target or the proxy itself.
NoRequest(k) ==
    /\ pc[k] \in {"request", "next"}
    /\ Goto(k, "exit")
    /\ UNCHANGED <<goOnly, kind, flow, tunnel, netVars, conns>>

\* The first request says what the connection is for; a CONNECT adds its flow.
ReadRequest(k, what) ==
    /\ pc[k] = "request"
    /\ ~Dead(Client(k))
    /\ kind' = [kind EXCEPT ![k] = what]
    /\ IF what = "http"
       THEN Goto(k, "body") /\ UNCHANGED flow
       ELSE Goto(k, "dial") /\ flow' = [flow EXCEPT ![k] = "live"]
    /\ UNCHANGED <<goOnly, tunnel, netVars, conns>>

\* A further request in an intercepted tunnel.
ReadNext(k) ==
    /\ pc[k] = "next"
    /\ ~Dead(Client(k))
    /\ Goto(k, "body")
    /\ UNCHANGED <<goOnly, kind, flow, tunnel, netVars, conns>>

\* readLimited reads the body without a deadline and ignores errors; the flow is
\* added and the message is held or sent on.
ReadBody(k, held) ==
    /\ pc[k] = "body"
    /\ held => Holding
    /\ flow' = [flow EXCEPT ![k] = "live"]
    /\ Goto(k, IF held THEN "heldreq" ELSE "round")
    /\ UNCHANGED <<goOnly, kind, tunnel, netVars, conns>>

\* Forward or Drop: the UI thread decides in a frame, not while it is in Stop.
Release(k, drop) ==
    /\ ui = "idle"
    /\ pc[k] \in {"heldreq", "heldresp"}
    /\ Goto(k, CASE drop /\ (pc[k] = "heldreq" \/ kind[k] = "mitm") -> "refuse"
                 [] drop                                           -> "exit"
                 [] pc[k] = "heldreq"                              -> "round"
                 [] OTHER                                          -> "reply")
    /\ UNCHANGED <<goOnly, kind, flow, tunnel, netVars, conns>>

\* The round trip to the upstream ends with a response or an error.
RoundTrip(k, to) ==
    /\ pc[k] = "round"
    /\ to = "heldresp" => Holding
    /\ Goto(k, to)
    /\ UNCHANGED <<goOnly, kind, flow, tunnel, netVars, conns>>

RoundTripEnds(k) == \E to \in {"reply", "refuse", "heldresp"} : RoundTrip(k, to)

\* The flow is updated with the response, which is written to the client; an
\* intercepted tunnel goes on with its next request unless a write failed.
Reply(k) ==
    /\ pc[k] = "reply"
    /\ flow' = [flow EXCEPT ![k] = "ended"]
    /\ \/ Goto(k, "exit")
       \/ kind[k] = "mitm" /\ Client(k) \in open /\ Goto(k, "next")
    /\ UNCHANGED <<goOnly, kind, tunnel, netVars, conns>>

\* An error or "dropped" is recorded and answered with a status.
Refuse(k) ==
    /\ pc[k] = "refuse"
    /\ flow' = [flow EXCEPT ![k] = "ended"]
    /\ Goto(k, "exit")
    /\ UNCHANGED <<goOnly, kind, tunnel, netVars, conns>>

\* handleConnect dials for at most 15 s.
DialFails(k) ==
    /\ pc[k] = "dial"
    /\ Goto(k, "refuse")
    /\ UNCHANGED <<goOnly, kind, flow, tunnel, netVars, conns>>

DialSucceeds(k) ==
    /\ pc[k] = "dial"
    /\ open' = open \cup {Upstream(k)}
    /\ Goto(k, "dialed")
    /\ UNCHANGED <<goOnly, kind, flow, tunnel, gone, conns>>

\* Mutant: the upstream connection is not tracked.
TrackUpstreamNot(k) ==
    /\ pc[k] = "dialed"
    /\ Goto(k, "answer")
    /\ UNCHANGED <<goOnly, kind, flow, tunnel, netVars, conns>>

TrackUpstream(k) ==
    /\ pc[k] = "dialed"
    /\ conns' = conns \cup {Upstream(k)}
    /\ Goto(k, "answer")
    /\ UNCHANGED <<goOnly, kind, flow, tunnel, netVars>>

\* The 200 cannot be written: the tunnel is closed before it was open.
AnswerFails(k) ==
    /\ pc[k] = "answer"
    /\ Dead(Client(k))
    /\ tunnel' = [tunnel EXCEPT ![k] = "closed"]
    /\ Goto(k, "exit")
    /\ UNCHANGED <<goOnly, kind, flow, netVars, conns>>

\* The 200 is written and the flow has ended; an intercepted tunnel drops the
\* upstream connection it dialed.
Answer(k) ==
    /\ pc[k] = "answer"
    /\ Client(k) \in open
    /\ flow' = [flow EXCEPT ![k] = "ended"]
    /\ tunnel' = [tunnel EXCEPT ![k] = "open"]
    /\ IF kind[k] = "mitm"
       THEN /\ open' = open \ {Upstream(k)}
            /\ gone' = gone \ {Upstream(k)}
            /\ conns' = conns \ {Upstream(k)}
            /\ Goto(k, "tls")
       ELSE Goto(k, "bridge") /\ UNCHANGED <<netVars, conns>>
    /\ UNCHANGED <<goOnly, kind>>

\* Mutant: the copies see only a peer that leaves.
BridgeEndsByPeers(k) ==
    /\ pc[k] = "bridge"
    /\ Client(k) \in gone /\ Upstream(k) \in gone
    /\ tunnel' = [tunnel EXCEPT ![k] = "closed"]
    /\ Goto(k, "exit")
    /\ UNCHANGED <<goOnly, kind, flow, netVars, conns>>

\* bridge returns when both copies have ended: each ends when the socket it reads
\* is dead, or when what it read cannot be written.
BridgeEnds(k) ==
    /\ pc[k] = "bridge"
    /\ Dead(Client(k)) \/ Dead(Upstream(k))
    /\ tunnel' = [tunnel EXCEPT ![k] = "closed"]
    /\ Goto(k, "exit")
    /\ UNCHANGED <<goOnly, kind, flow, netVars, conns>>

\* The TLS handshake with the client, without a deadline.
Handshake(k, ok) ==
    /\ pc[k] = "tls"
    /\ ok => ~Dead(Client(k))
    /\ Goto(k, IF ok THEN "next" ELSE "exit")
    /\ UNCHANGED <<goOnly, kind, flow, tunnel, netVars, conns>>

\* A WebSocket upgrade in an intercepted tunnel: its upstream is dialed within 15 s,
\* but the two handshakes that follow have no deadline.
ReadUpgrade(k) ==
    /\ pc[k] = "next"
    /\ ~Dead(Client(k))
    /\ flow' = [flow EXCEPT ![k] = "live"]
    /\ Goto(k, "upgrade")
    /\ UNCHANGED <<goOnly, kind, tunnel, netVars, conns>>

\* The upstream answers, or fails; its socket is not tracked.
Upgrade(k, ok) ==
    /\ pc[k] = "upgrade"
    /\ open' = IF ok THEN open \cup {Upstream(k)} ELSE open
    /\ Goto(k, IF ok THEN "pump" ELSE "exit")
    /\ UNCHANGED <<goOnly, kind, flow, tunnel, gone, conns>>

\* The pump of one direction ends with a close frame or an error and closes the socket
\* it wrote to, which ends the other.
PumpEnds(k) ==
    /\ pc[k] = "pump"
    /\ open' = open \ {Client(k), Upstream(k)}
    /\ Goto(k, "exit")
    /\ UNCHANGED <<goOnly, kind, flow, tunnel, gone, conns>>

\* The sockets closed by the deferred calls of handleConnect and interceptHTTPS.
Deferred(k) == {Upstream(k)} \cup IF tunnel[k] = "open" THEN {Client(k)} ELSE {}

\* The deferred calls of the handler: interceptHTTPS' TunnelClosed, markEnded, and
\* the upstream connection untracked and closed.
Exit(k) ==
    /\ pc[k] = "exit"
    /\ tunnel' = [tunnel EXCEPT ![k] = IF @ = "open" THEN "closed" ELSE @]
    /\ flow' = [flow EXCEPT ![k] = IF @ = "live" THEN "ended" ELSE @]
    /\ conns' = conns \ {Upstream(k)}
    /\ open' = open \ Deferred(k)
    /\ Goto(k, "leave")
    /\ UNCHANGED <<goOnly, kind, gone>>

\* The deferred calls of handleConn: the client connection untracked and closed,
\* then wg.Done.
Leave(k) ==
    /\ pc[k] = "leave"
    /\ conns' = conns \ {Client(k)}
    /\ open' = open \ {Client(k)}
    /\ wg' = wg - 1
    /\ Goto(k, "done")
    /\ UNCHANGED <<uiVars, srvVars, kind, flow, tunnel, gone>>

-----------------------------------------------------------------------------
(* The other ends.                                                         *)

PeerLeaves(s) ==
    /\ s \in open
    /\ s \notin gone
    /\ gone' = gone \cup {s}
    /\ UNCHANGED <<uiVars, srvVars, goVars, open, wg, conns>>

-----------------------------------------------------------------------------

StopStep ==
    \/ TakeConns
    \/ \E s \in Sockets : CloseOne(s)
    \/ StopRunning
    \/ Wait

AcceptStep ==
    \/ \E k \in Conns : Accept(k)
    \/ AcceptFails
    \/ Spawn

\* Steps that end by themselves: the code's own work, and waits with a deadline.
OwnStep(k) ==
    \/ Track(k)
    \/ NoRequest(k)
    \/ Refuse(k)
    \/ DialFails(k)
    \/ DialSucceeds(k)
    \/ TrackUpstream(k)
    \/ Exit(k)
    \/ Leave(k)

\* Waits for the client, with no deadline.
ClientStep(k) ==
    \/ \E what \in Kinds : ReadRequest(k, what)
    \/ ReadNext(k)
    \/ ReadUpgrade(k)
    \/ \E held \in BOOLEAN : ReadBody(k, held)
    \/ \E ok \in BOOLEAN : Handshake(k, ok)
    \/ Answer(k)
    \/ AnswerFails(k)
    \/ Reply(k)

ConnStep(k) ==
    \/ OwnStep(k)
    \/ ClientStep(k)
    \/ RoundTripEnds(k)
    \/ \E ok \in BOOLEAN : Upgrade(k, ok)
    \/ BridgeEnds(k)
    \/ PumpEnds(k)
    \/ \E drop \in BOOLEAN : Release(k, drop)

Next ==
    \/ Start
    \/ StopListening
    \/ StopStep
    \/ AcceptStep
    \/ \E k \in Conns : ConnStep(k)
    \/ \E s \in Sockets : PeerLeaves(s)

Spec == Init /\ [][Next]_vars

\* What the code and the operating system guarantee: goroutines and Stop itself run,
\* waits with a deadline end, Accept fails on a closed listener, and a wait on a dead
\* socket ends.  A plain round trip has a timeout of 60 s; the intercepted one has
\* none for the upstream's handshake and body.  No peer has to act, and nobody has to
\* click.
Fairness ==
    /\ WF_vars(StopStep)
    /\ WF_vars(Spawn)
    /\ WF_vars(listener # "open" /\ AcceptFails)
    /\ \A k \in Conns :
           /\ WF_vars(OwnStep(k))
           /\ WF_vars(Dead(Client(k)) /\ ClientStep(k))
           /\ WF_vars(kind[k] = "http" /\ RoundTripEnds(k))
           /\ WF_vars(Dead(Client(k)) /\ Dead(Upstream(k)) /\ BridgeEnds(k))
           /\ WF_vars((Dead(Client(k)) \/ Dead(Upstream(k))) /\ PumpEnds(k))

FairSpec == Spec /\ Fairness

-----------------------------------------------------------------------------
(* Properties.                                                             *)

TypeOK ==
    /\ running \in BOOLEAN
    /\ listener \in {"none", "open"}
    /\ serve \in {"off", "accept", "spawn"}
    /\ serving \subseteq Conns
    /\ wg \in Nat
    /\ conns \subseteq Sockets
    /\ ui \in {"idle", "take", "close", "wait"}
    /\ list \subseteq Sockets
    /\ pc \in [Conns -> {"none", "start", "request", "next", "body", "heldreq", "heldresp",
                         "round", "reply", "refuse", "dial", "dialed", "answer", "bridge",
                         "tls", "upgrade", "pump", "exit", "leave", "done"}]
    /\ kind \in [Conns -> {"http", "tunnel", "mitm"}]
    /\ open \subseteq Sockets
    /\ gone \subseteq Sockets
    /\ flow \in [Conns -> {"none", "live", "ended"}]
    /\ tunnel \in [Conns -> {"none", "open", "closed"}]

Alive(k) == pc[k] \notin {"none", "done"}

\* The wait group counts the accept loop and the connection goroutines, each from
\* before it starts: Stop cannot slip through a moment in which one is not counted.
WaitGroupExact ==
    wg = Cardinality({k \in Conns : Alive(k)}) + (IF serve = "off" THEN 0 ELSE 1)

\* Once Stop has returned nothing of the proxy is left: no goroutine, no tracked or
\* open socket, no live flow and no tunnel shown as open.
StoppedIsQuiet ==
    ui = "idle" /\ ~running =>
        /\ serve = "off"
        /\ conns = {}
        /\ open = {}
        /\ \A k \in Conns : ~Alive(k) /\ flow[k] # "live" /\ tunnel[k] # "open"

\* Until Stop takes the tracked connections, it can reach every connection a goroutine
\* may wait on for good: the client's, and the upstream's of a blind tunnel.
StopCanReach ==
    ui \in {"idle", "take"} =>
        \A k \in Conns :
            /\ pc[k] \notin {"none", "start", "done"} => Client(k) \in conns
            /\ pc[k] \in {"answer", "bridge"} => Upstream(k) \in conns

\* A flow whose handler is gone has ended, however the handler ended, and whether or
\* not the proxy was stopped.
LeftIsEnded ==
    \A k \in Conns : pc[k] \in {"leave", "done"} => flow[k] # "live" /\ tunnel[k] # "open"

\* Starting and stopping are clean: the wait group is exact, what a goroutine waits for
\* can be closed as long as Stop may need it, and neither an end of a goroutine nor the
\* end of Stop leaves anything behind.
StopIsClean == WaitGroupExact /\ StopCanReach /\ LeftIsEnded /\ StoppedIsQuiet

\* What the goroutine waits for that no closed socket of the proxy ends: a decision
\* about a held message, and the upstream of an intercepted request.
Stuck(k) == pc[k] \in {"heldreq", "heldresp", "upgrade"} \/ (pc[k] = "round" /\ kind[k] = "mitm")

\* What Stop closed comes to its end without the peers' help: a connection whose
\* sockets are closed while Stop waits is left by its goroutine, unless that is stuck.
ClosedIsLeft ==
    \A k \in Conns :
        (ui = "wait" /\ Alive(k) /\ Client(k) \notin open /\ Upstream(k) \notin open)
            ~> (~Alive(k) \/ Stuck(k))

\* mitm_test.go:2092: "Stop did not return within 2s - connection not force-closed".
\* Stop returns, even if a message is held: but the goroutine waits for a decision only
\* the UI thread can make, and the UI thread waits for the goroutine.
StopReturnsWhileHeld ==
    (ui = "wait" /\ \E k \in Conns : pc[k] = "heldreq") ~> (ui = "idle")
=============================================================================
