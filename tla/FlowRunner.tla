------------------------------- MODULE FlowRunner -------------------------------
(***************************************************************************)
(* The runner of scenarios (internal/ui/flow/exec.go).  One goroutine      *)
(* walks the graph of a scenario by recursion, here an explicit stack of   *)
(* visits; the UI thread starts and stops it, and in step mode lets it on  *)
(* from node to node through a channel of capacity one.                    *)
(*                                                                         *)
(* A response is two bits: whether there is one, and whether it counts as  *)
(* failed.  Variables, bodies and texts are left out; what depends on them *)
(* (conditions, the length of an array) is a choice.                       *)
(***************************************************************************)
EXTENDS Integers, Sequences, FiniteSets, SequencesExt

CONSTANTS Scenarios,    \* what the canvas may hold when a run is started
          MaxSteps,     \* maxRunSteps: visits of one run
          MaxHistory,   \* maxHistoryRuns: runs that are kept
          MaxItems,     \* bound: length of an array a loop runs over
          MaxRuns       \* bound: runs the user starts

\* A scenario has nodes with a kind, arrows in the order in which they were drawn, and
\* the nodes that lie within each loop on the canvas; rank is the order of reading, top
\* to bottom; start is its first start node, or none.
ASSUME ScenariosAssumption ==
    /\ {MaxSteps, MaxItems, MaxRuns} \subseteq Nat /\ MaxHistory \in Nat \ {0}
    /\ \A s \in Scenarios :
           /\ IsFiniteSet(s.nodes)
           /\ \A i \in DOMAIN s.edges : {s.edges[i].from, s.edges[i].to} \subseteq s.nodes
           /\ \A l \in s.nodes : s.inside[l] \subseteq s.nodes

VARIABLES
    running, paused, stepMode, status,
    token,              \* stepCh: tokens in the channel
    cancelled,          \* the context of the run is done
    nodeSt, edgeSt,     \* what the canvas shows
    runs,               \* the records of the runs
    runSeq,             \* runs started
    plan,               \* the scenario as buildPlan has copied it
    stack,              \* the visits under way, the innermost first
    steps, anyFail, limitHit, okReq, failReq,
    socks,              \* WebSockets of the run that are open
    closing,            \* WebSockets of ended runs their deferred calls have yet to close
    ui                  \* "idle", or "send": about to put a token into the channel

board == <<nodeSt, edgeSt>>
counts == <<steps, anyFail, limitHit, okReq, failReq>>
modes == <<running, paused, stepMode, status>>
walkVars == <<stack, counts, socks>>
vars == <<modes, token, cancelled, board, runs, runSeq, plan, walkVars, closing, ui>>

-----------------------------------------------------------------------------
(* Scenarios and plans.                                                    *)

Kinds == {"start", "request", "ws", "wssend", "delay", "setvar", "condition", "loop", "note"}
IsRequest(k) == k \in {"request", "ws", "wssend"}

\* Mutant: a loop that lies in another one is taken for a member of it.
MembersNested(s, l) == {n \in s.inside[l] : s.kind[n] \notin {"start", "note"}}

Members(s, l) == {n \in s.inside[l] : s.kind[n] \notin {"loop", "start", "note"}}

\* A loop begins with the members no other member leads to.
Entries(s, l) ==
    {n \in Members(s, l) :
        \A i \in DOMAIN s.edges : s.edges[i].to = n => s.edges[i].from \notin Members(s, l)}

Outs(s, n) == {i \in DOMAIN s.edges : s.edges[i].from = n}

Loops(s) == {n \in s.nodes : s.kind[n] = "loop"}

\* The plans of a scenario: entries are put in the order of reading, and of two at the same
\* place the map may yield either first.
BuildPlan(s) ==
    LET orders == [l \in Loops(s) |->
                     {q \in SetToSeqs(Entries(s, l)) :
                         \A i, j \in DOMAIN q : i < j => s.rank[q[i]] <= s.rank[q[j]]}]
    IN  [scenario : {s},
         entries  : {f \in [Loops(s) -> UNION {orders[l] : l \in Loops(s)}] :
                        \A l \in Loops(s) : f[l] \in orders[l]},
         outs     : {[n \in s.nodes |-> Outs(s, n)]}]

\* Conditions by what they need: none, a response, no response, or something in it.
Passes(cond, r) ==
    CASE cond = "always"     -> {TRUE}
      [] cond = "response"   -> {r.resp}
      [] cond = "noresponse" -> {~r.resp}
      [] cond = "content"    -> IF r.resp THEN BOOLEAN ELSE {FALSE}

\* validateScenario: the nodes its search comes to, the least set with the start node that
\* no arrow and no loop leads out of.
Reachable(s) ==
    LET Encloses(R) ==
            /\ {s.start} \cap s.nodes \subseteq R
            /\ \A i \in DOMAIN s.edges : s.edges[i].from \in R => s.edges[i].to \in R
            /\ \A l \in R \cap Loops(s) : {n \in s.inside[l] : s.kind[n] # "loop"} \subseteq R
    IN  {n \in s.nodes : \A R \in SUBSET s.nodes : Encloses(R) => n \in R}

-----------------------------------------------------------------------------

Results == [resp : BOOLEAN, failed : BOOLEAN]
Nothing == [resp |-> FALSE, failed |-> FALSE]

\* What a request may come back with.
Outcomes == Results \ {Nothing}

NoStates(S) == [x \in S |-> "idle"]
NewRecord ==
    [good |-> 0, bad |-> 0, done |-> FALSE, failed |-> FALSE, stopped |-> FALSE,
     ok |-> 0, fail |-> 0]

Init ==
    /\ running = FALSE /\ paused = FALSE /\ stepMode = FALSE
    /\ status = ""
    /\ token = 0
    /\ cancelled = FALSE
    /\ plan \in UNION {BuildPlan(s) : s \in Scenarios}
    /\ nodeSt = NoStates(plan.scenario.nodes)
    /\ edgeSt = NoStates(DOMAIN plan.scenario.edges)
    /\ runs = <<>>
    /\ runSeq = 0
    /\ stack = <<>>
    /\ steps = 0 /\ anyFail = FALSE /\ limitHit = FALSE /\ okReq = 0 /\ failReq = 0
    /\ socks = 0
    /\ closing = 0
    /\ ui = "idle"

-----------------------------------------------------------------------------
(* The UI thread.                                                          *)

\* A visit of node n with the response r: the place in it, the loop's rounds, and the
\* next of the entries or the arrows.
Visit(n, r) == [node |-> n, at |-> "enter", in |-> r, res |-> r, rounds |-> 0, it |-> 0, k |-> 1]

\* Mutant: one run too many is kept.
KeepOneMore(all) == IF Len(all) > MaxHistory + 1 THEN Tail(all) ELSE all

Keep(all) == IF Len(all) > MaxHistory THEN Tail(all) ELSE all

Start(s) ==
    /\ ui = "idle"
    /\ ~running
    /\ runSeq < MaxRuns
    /\ \E p \in BuildPlan(s) :
           IF s.start \notin s.nodes \/ Outs(s, s.start) = {}
           THEN /\ status' = IF s.start \notin s.nodes THEN "no start" ELSE "no arrows"
                /\ UNCHANGED <<running, paused, token, cancelled, board, runs, runSeq, plan, walkVars>>
           ELSE /\ plan' = p
                /\ running' = TRUE
                /\ paused' = FALSE
                /\ status' = "running"
                /\ nodeSt' = NoStates(s.nodes)
                /\ edgeSt' = NoStates(DOMAIN s.edges)
                /\ token' = 0
                /\ cancelled' = FALSE
                /\ runSeq' = runSeq + 1
                /\ runs' = Keep(Append(runs, NewRecord))
                /\ stack' = <<Visit(s.start, Nothing)>>
                /\ steps' = 0 /\ anyFail' = FALSE /\ limitHit' = FALSE
                /\ okReq' = 0 /\ failReq' = 0
                /\ socks' = 0
    /\ UNCHANGED <<stepMode, closing, ui>>

Stop ==
    /\ ui = "idle"
    /\ running
    /\ cancelled' = TRUE
    /\ UNCHANGED <<modes, token, board, runs, runSeq, plan, walkVars, closing, ui>>

\* Opening or creating a scenario clears the board; neither is possible during a run.
Reset ==
    /\ ui = "idle"
    /\ ~running
    /\ nodeSt' = NoStates(DOMAIN nodeSt)
    /\ edgeSt' = NoStates(DOMAIN edgeSt)
    /\ status' = ""
    /\ UNCHANGED <<running, paused, stepMode, token, cancelled, runs, runSeq, plan, walkVars, closing, ui>>

\* Mutant: leaving step mode wakes nobody up.
SetStepModeOnly ==
    /\ ui = "idle"
    /\ stepMode' = ~stepMode
    /\ UNCHANGED <<running, paused, status, token, cancelled, board, runs, runSeq, plan, walkVars, closing, ui>>

\* The mode changes under the lock, the token follows outside.
SetStepMode ==
    /\ ui = "idle"
    /\ stepMode' = ~stepMode
    /\ ui' = IF stepMode /\ running THEN "send" ELSE "idle"
    /\ UNCHANGED <<running, paused, status, token, cancelled, board, runs, runSeq, plan, walkVars, closing>>

Step ==
    /\ ui = "idle"
    /\ running
    /\ ui' = "send"
    /\ UNCHANGED <<modes, token, cancelled, board, runs, runSeq, plan, walkVars, closing>>

\* A full channel, or that of a run that has ended, drops the token.
SendToken ==
    /\ ui = "send"
    /\ token' = IF running THEN 1 ELSE token
    /\ ui' = "idle"
    /\ UNCHANGED <<modes, cancelled, board, runs, runSeq, plan, walkVars, closing>>

-----------------------------------------------------------------------------
(* The goroutine.                                                          *)

top == stack[1]
At(where) == running /\ stack # <<>> /\ top.at = where
kind == plan.scenario.kind[top.node]

Goto(f) == stack' = <<f>> \o Tail(stack)
Call(f, v) == stack' = <<v, f>> \o Tail(stack)
Return == stack' = Tail(stack)

SetNode(st) == nodeSt' = [nodeSt EXCEPT ![top.node] = st]
Quiet == UNCHANGED <<runSeq, plan, stepMode, cancelled, closing, ui>>

\* The beginning of visit.
Enter ==
    /\ At("enter")
    /\ \/ /\ cancelled
          /\ Return
          /\ UNCHANGED <<steps, limitHit, nodeSt>>
       \/ /\ ~cancelled /\ steps >= MaxSteps
          /\ limitHit' = TRUE
          /\ Return
          /\ UNCHANGED <<steps, nodeSt>>
       \/ /\ ~cancelled /\ steps < MaxSteps
          /\ steps' = steps + 1
          /\ IF kind = "note"
             THEN Return /\ UNCHANGED nodeSt
             ELSE Goto([top EXCEPT !.at = "gate"]) /\ SetNode("running")
          /\ UNCHANGED limitHit
    /\ UNCHANGED <<modes, token, edgeSt, runs, anyFail, okReq, failReq, socks>>
    /\ Quiet

\* waitStep reads the mode and the channel under the lock.
Gate ==
    /\ At("gate")
    /\ Goto([top EXCEPT !.at = IF ~stepMode \/ kind = "start" THEN "resume" ELSE "pause"])
    /\ UNCHANGED <<modes, token, board, runs, counts, socks>>
    /\ Quiet

Pause ==
    /\ At("pause")
    /\ paused' = TRUE
    /\ status' = "paused"
    /\ Goto([top EXCEPT !.at = "parked"])
    /\ UNCHANGED <<running, stepMode, token, board, runs, counts, socks>>
    /\ Quiet

\* Mutant: a paused run does not look at its context.
UnparkByToken ==
    /\ At("parked")
    /\ token = 1
    /\ token' = 0
    /\ paused' = FALSE
    /\ status' = IF cancelled THEN status ELSE "running"
    /\ Goto([top EXCEPT !.at = "resume"])
    /\ UNCHANGED <<running, stepMode, board, runs, counts, socks>>
    /\ Quiet

Unpark ==
    /\ At("parked")
    /\ \/ cancelled /\ UNCHANGED token
       \/ token = 1 /\ token' = 0
    /\ paused' = FALSE
    /\ status' = IF cancelled THEN status ELSE "running"
    /\ Goto([top EXCEPT !.at = "resume"])
    /\ UNCHANGED <<running, stepMode, board, runs, counts, socks>>
    /\ Quiet

Resume ==
    /\ At("resume")
    /\ IF cancelled THEN Return
       ELSE Goto([top EXCEPT !.at = IF IsRequest(kind) THEN "request" ELSE "judge"])
    /\ UNCHANGED <<modes, token, board, runs, counts, socks>>
    /\ Quiet

\* What comes of a request of this kind, and how it changes the number of open sockets.
\* Closing the context closes the sockets; a request may also have been answered before.
Answers ==
    CASE kind = "request" -> {[res |-> r, socks |-> 0] : r \in Outcomes}
      [] kind = "ws" ->
            {[res |-> r, socks |-> IF ~r.failed /\ plan.scenario.keepOpen[top.node] THEN 1 ELSE 0] :
                r \in Outcomes}
      [] kind = "wssend" ->
            IF socks = 0 THEN {[res |-> [resp |-> FALSE, failed |-> TRUE], socks |-> 0]}
            ELSE {[res |-> [resp |-> FALSE, failed |-> TRUE], socks |-> 0],
                  [res |-> [resp |-> TRUE, failed |-> TRUE], socks |-> -1],
                  [res |-> [resp |-> TRUE, failed |-> FALSE],
                   socks |-> IF plan.scenario.wsClose[top.node] THEN -1 ELSE 0]}

WithEntry(record, failed) ==
    IF failed THEN [record EXCEPT !.bad = @ + 1] ELSE [record EXCEPT !.good = @ + 1]

\* The request is made and its entry added to the record.
Request ==
    /\ At("request")
    /\ \E a \in Answers :
           /\ socks' = socks + a.socks
           /\ runs' = [runs EXCEPT ![Len(runs)] = WithEntry(@, a.res.failed)]
           /\ Goto([top EXCEPT !.at = "judge", !.res = a.res])
    /\ UNCHANGED <<modes, token, board, counts>>
    /\ Quiet

WentWell == ~cancelled /\ (IsRequest(kind) => ~top.res.failed)

\* Mutant: a failed request does not count against the run.
JudgeLeniently ==
    /\ At("judge")
    /\ anyFail' = (anyFail \/ cancelled)
    /\ IF ~IsRequest(kind) THEN UNCHANGED <<okReq, failReq>>
       ELSE IF WentWell THEN okReq' = okReq + 1 /\ UNCHANGED failReq
       ELSE failReq' = failReq + 1 /\ UNCHANGED okReq
    /\ SetNode(IF WentWell THEN "ok" ELSE "fail")
    /\ Goto([top EXCEPT !.at = "proceed"])
    /\ UNCHANGED <<modes, token, edgeSt, runs, steps, limitHit, socks>>
    /\ Quiet

\* The node is done, also one that only waited or set a variable.
Judge ==
    /\ At("judge")
    /\ anyFail' = (anyFail \/ ~WentWell)
    /\ IF ~IsRequest(kind) THEN UNCHANGED <<okReq, failReq>>
       ELSE IF WentWell THEN okReq' = okReq + 1 /\ UNCHANGED failReq
       ELSE failReq' = failReq + 1 /\ UNCHANGED okReq
    /\ SetNode(IF WentWell THEN "ok" ELSE "fail")
    /\ Goto([top EXCEPT !.at = "proceed"])
    /\ UNCHANGED <<modes, token, edgeSt, runs, steps, limitHit, socks>>
    /\ Quiet

\* A loop runs a number of times, or once for each element of an array in the response
\* it was reached with; without the array it has failed.
Proceed ==
    /\ At("proceed")
    /\ \/ /\ cancelled
          /\ Return
          /\ UNCHANGED <<anyFail, nodeSt>>
       \/ /\ ~cancelled /\ kind # "loop"
          /\ Goto([top EXCEPT !.at = "outs"])
          /\ UNCHANGED <<anyFail, nodeSt>>
       \/ /\ ~cancelled /\ kind = "loop"
          /\ \E n \in IF ~plan.scenario.overArray[top.node] THEN {plan.scenario.times[top.node]}
                      ELSE IF top.in.resp THEN 0..MaxItems ELSE {} :
                 Goto([top EXCEPT !.at = "loop", !.rounds = n])
          /\ UNCHANGED <<anyFail, nodeSt>>
       \/ /\ ~cancelled /\ kind = "loop"
          /\ plan.scenario.overArray[top.node]
          /\ Goto([top EXCEPT !.at = "loop"])
          /\ anyFail' = TRUE
          /\ SetNode("fail")
    /\ UNCHANGED <<modes, token, edgeSt, runs, steps, limitHit, okReq, failReq, socks>>
    /\ Quiet

Loop ==
    /\ At("loop")
    /\ LET entries == plan.entries[top.node]
       IN  IF top.it = top.rounds THEN Goto([top EXCEPT !.at = "outs", !.k = 1])
           ELSE IF top.k \notin DOMAIN entries THEN Goto([top EXCEPT !.it = @ + 1, !.k = 1])
           ELSE IF cancelled THEN Return
           ELSE Call([top EXCEPT !.k = @ + 1], Visit(entries[top.k], top.in))
    /\ UNCHANGED <<modes, token, board, runs, counts, socks>>
    /\ Quiet

\* followOuts, one arrow after the other.
Follow ==
    /\ At("outs")
    /\ LET ahead == {e \in plan.outs[top.node] : e >= top.k}
       IN  \/ /\ ahead = {} \/ cancelled
              /\ Return
              /\ UNCHANGED edgeSt
           \/ /\ ~cancelled
              /\ \E e \in ahead :
                    /\ \A later \in ahead : e <= later
                    /\ LET next == [top EXCEPT !.k = e + 1]
                       IN  \E pass \in Passes(plan.scenario.edges[e].cond, top.res) :
                              /\ edgeSt' = [edgeSt EXCEPT ![e] = IF pass THEN "ok" ELSE "fail"]
                              /\ IF pass THEN Call(next, Visit(plan.scenario.edges[e].to, top.res))
                                 ELSE Goto(next)
    /\ UNCHANGED <<modes, token, nodeSt, runs, counts, socks>>
    /\ Quiet

Verdict ==
    IF cancelled THEN "stopped" ELSE IF limitHit THEN "limit" ELSE IF anyFail THEN "errors" ELSE "finished"

ClosedRecord(record) ==
    [record EXCEPT !.done = TRUE, !.stopped = (Verdict = "stopped"),
                   !.failed = (Verdict \in {"limit", "errors"}), !.ok = okReq, !.fail = failReq]

\* The walk is over: the record is closed under the lock.
Finish ==
    /\ running
    /\ stack = <<>>
    /\ running' = FALSE
    /\ paused' = FALSE
    /\ status' = Verdict
    /\ token' = 0
    /\ runs' = [runs EXCEPT ![Len(runs)] = ClosedRecord(@)]
    /\ closing' = closing + socks
    /\ socks' = 0
    /\ UNCHANGED <<stepMode, cancelled, board, runSeq, plan, stack, counts, ui>>

\* The deferred calls; a new run may have been started.
CloseSockets ==
    /\ closing > 0
    /\ closing' = 0
    /\ UNCHANGED <<modes, token, cancelled, board, runs, runSeq, plan, walkVars, ui>>

-----------------------------------------------------------------------------

User == Stop \/ Reset \/ SetStepMode \/ Step \/ \E s \in Scenarios : Start(s)
WalkOn == Enter \/ Gate \/ Pause \/ Unpark \/ Resume \/ Judge \/ Proceed \/ Loop \/ Follow \/ Finish
Next == User \/ SendToken \/ WalkOn \/ Request \/ CloseSockets

Spec == Init /\ [][Next]_vars

\* The goroutine is scheduled; delays end.  A server need not answer, but a request
\* whose context is done ends.
FairSpec == Spec /\ WF_vars(WalkOn) /\ WF_vars(cancelled /\ Request)

-----------------------------------------------------------------------------
(* Properties.                                                             *)

States == {"idle", "running", "ok", "fail"}
Places == {"enter", "gate", "pause", "parked", "resume", "request", "judge", "proceed", "loop", "outs"}
Visits ==
    [node : plan.scenario.nodes, at : Places, in : Results, res : Results,
     rounds : Nat, it : Nat, k : Nat \ {0}]
Records ==
    [good : Nat, bad : Nat, done : BOOLEAN, failed : BOOLEAN, stopped : BOOLEAN, ok : Nat, fail : Nat]

\* Types and the limits: of visits, of runs kept, of the channel.
TypeOK ==
    /\ {running, paused, stepMode, cancelled, anyFail, limitHit} \subseteq BOOLEAN
    /\ paused => running
    /\ status \in {"", "no start", "no arrows", "running", "paused", "stopped", "limit", "errors", "finished"}
    /\ token \in 0..1
    /\ nodeSt \in [plan.scenario.nodes -> States]
    /\ edgeSt \in [DOMAIN plan.scenario.edges -> {"idle", "ok", "fail"}]
    /\ runs \in Seq(Records) /\ Len(runs) <= MaxHistory
    /\ stack \in Seq(Visits) /\ Len(stack) <= MaxSteps + 1
    /\ steps \in 0..MaxSteps
    /\ {runSeq, okReq, failReq, socks, closing} \subseteq Nat
    /\ ui \in {"idle", "send"}

\* A walk that waits while step mode is off and nobody stopped it is about to be let
\* on: leaving step mode between its look at the mode and its wait is not missed.
NeverStuck ==
    At("pause") \/ At("parked") =>
        stepMode \/ cancelled \/ token = 1 \/ ui = "send"

\* Only the latest record may be open, and it is while a run is under way.  A record
\* that was not stopped counts its requests as its entries show them; one that did not
\* fail either has no failed entry, and the canvas shows no node that failed or is
\* still at work.
HonestRecords ==
    /\ \A i \in DOMAIN runs : ~runs[i].done <=> running /\ i = Len(runs)
    /\ \A i \in DOMAIN runs : runs[i].done /\ ~runs[i].stopped =>
           /\ runs[i].ok = runs[i].good /\ runs[i].fail = runs[i].bad
           /\ ~runs[i].failed => runs[i].bad = 0
    /\ status = "finished" => \A n \in DOMAIN nodeSt : nodeSt[n] \in {"idle", "ok"}

\* editor.go:466 validateScenario and exec.go:575 visit agree: a node that the editor
\* counts as unreachable is never run.
UnreachableNeverRuns ==
    \A n \in DOMAIN nodeSt : nodeSt[n] # "idle" => n \in Reachable(plan.scenario)

\* Stop ends every run, also one that is paused, asks a silent server or goes round in
\* a circle.
StopEnds == running /\ cancelled ~> ~running
=============================================================================
