------------------------------ MODULE LoadRunner ------------------------------
(***************************************************************************)
(* Sending the request of a tab many times over ("Multiple",               *)
(* internal/ui/workspace/runner.go): the UI thread starts and stops runs,  *)
(* a goroutine per run feeds numbers to its workers over a channel without *)
(* room and waits for them, and workers send one request per number and    *)
(* count what comes back.  A run is named by its number.                   *)
(***************************************************************************)
EXTENDS Integers, Sequences, FiniteSets, SequencesExt, FiniteSetsExt

CONSTANTS MaxRuns,   \* bound: runs started
          Workers,   \* workers of a run
          Iterations,\* requests of a run by iterations
          MaxFed,    \* bound: requests of a run by duration
          Answers,   \* what a server may answer: [code, lat, ok]
          LatCap     \* latencies kept for the percentiles

ASSUME RunnerAssumption ==
    /\ MaxRuns \in Nat /\ Iterations \in Nat \ {0} /\ MaxFed \in Nat /\ LatCap \in Nat \ {0}
    /\ IsFiniteSet(Workers)
    /\ Answers \subseteq [code : Nat \ {0}, lat : Nat, ok : BOOLEAN]

VARIABLES
    rmode, started, planned, running,
    cancelOf,  \* the run "cancel" belongs to, 0: nil
    run,       \* the newest run
    over,      \* runs whose context is done
    cut,       \* runs stopped, or out of time, before their goroutine ended them
    endedAt,   \* the run that ended last, 0: zero
    feeder,    \* the goroutine of each run: [pc, next], next the number it feeds
    worker,    \* [pc, run, got]
    sent, inFlight,
    lost,      \* answers of the newest run that were not counted
    stats, shownStats

runnerVars == <<rmode, started, planned, running, cancelOf, run, over, cut, endedAt, feeder, worker, sent,
                inFlight, lost, stats, shownStats>>

Runs == 1..MaxRuns

NoAnswer == [code |-> 0, lat |-> 1, ok |-> FALSE]
Resting == [pc |-> "none", run |-> 0, got |-> NoAnswer]

NoStats == [completed |-> 0, success |-> 0, failed |-> 0, sumLat |-> 0, minLat |-> 0, maxLat |-> 0,
            buckets |-> <<>>, lat |-> <<>>]
NoPercentiles == [of |-> 0, p50 |-> 0, p90 |-> 0, p99 |-> 0]

RunnerInit ==
    /\ rmode = "iterations" /\ started = FALSE /\ planned = 0 /\ running = FALSE
    /\ cancelOf = 0 /\ run = 0 /\ over = {} /\ cut = {} /\ endedAt = 0
    /\ feeder = [r \in Runs |-> [pc |-> "none", next |-> 0]]
    /\ worker = [w \in Workers |-> Resting]
    /\ sent = 0 /\ inFlight = 0 /\ lost = 0
    /\ stats = NoStats /\ shownStats = NoPercentiles

-----------------------------------------------------------------------------
(* The UI thread.                                                          *)

configVars == <<rmode, planned, cancelOf, run, endedAt, feeder, worker, sent, inFlight, lost, stats>>

\* The tabs above the fields, shown while there is no run.
ChooseMode ==
    /\ ~started
    /\ rmode' = IF rmode = "iterations" THEN "duration" ELSE "iterations"
    /\ UNCHANGED <<started, planned, running, cancelOf, run, over, cut, endedAt, feeder, worker, sent,
                   inFlight, lost, stats, shownStats>>

Stop ==
    /\ over' = over \cup ({cancelOf} \ {0})
    /\ cut' = cut \cup ({cancelOf} \ (over \cup {0}))
    /\ UNCHANGED <<configVars, started, running, shownStats>>

BackToConfig ==
    /\ started' = FALSE
    /\ UNCHANGED <<configVars, running, over, cut, shownStats>>

\* A request that cannot be built starts nothing, which is not a step.
StartRun ==
    /\ run < MaxRuns
    /\ run' = run + 1 /\ cancelOf' = run + 1
    /\ started' = TRUE /\ running' = TRUE
    /\ planned' = IF rmode = "iterations" THEN Iterations ELSE 0
    /\ endedAt' = 0
    /\ sent' = 0 /\ inFlight' = 0 /\ lost' = 0 /\ stats' = NoStats /\ shownStats' = NoPercentiles
    /\ feeder' = [feeder EXCEPT ![run + 1] = [pc |-> "feed", next |-> 0]]
    /\ worker' = [w \in Workers |-> [pc |-> "idle", run |-> run + 1, got |-> NoAnswer]]
    /\ UNCHANGED <<rmode, over, cut>>

\* The button says STOP, RERUN or START.
RunnerAction ==
    \/ running /\ Stop
    \/ ~running /\ started /\ BackToConfig
    \/ ~running /\ ~started /\ StartRun

InOrder(s) ==
    LET order == CHOOSE p \in [DOMAIN s -> DOMAIN s] :
                     /\ IsInjective(p)
                     /\ \A i, j \in DOMAIN s : i < j => s[p[i]] <= s[p[j]]
    IN  [i \in DOMAIN s |-> s[order[i]]]

Percentile(sorted, p) == sorted[(p * (Len(sorted) - 1)) \div 100 + 1]

PercentilesOf(s, n) ==
    [of |-> n, p50 |-> Percentile(s, 50), p90 |-> Percentile(s, 90), p99 |-> Percentile(s, 99)]

\* Drawing the table works the percentiles out when more was counted.
Snapshot ==
    /\ started /\ stats.lat # <<>> /\ stats.completed # shownStats.of
    /\ shownStats' = PercentilesOf(InOrder(stats.lat), stats.completed)
    /\ UNCHANGED <<configVars, started, running, over, cut>>

-----------------------------------------------------------------------------
(* The goroutine of a run.                                                 *)

feederOnly == <<rmode, started, planned, cancelOf, run, sent, inFlight, lost, stats, shownStats>>

Goes(r, pc) == feeder' = [feeder EXCEPT ![r].pc = pc]

HasMore(r) == feeder[r].next < (IF planned > 0 THEN planned ELSE MaxFed)

\* A worker that waits is handed the next number.
Feed(r, w) ==
    /\ feeder[r].pc = "feed" /\ HasMore(r)
    /\ worker[w].pc = "idle" /\ worker[w].run = r
    /\ feeder' = [feeder EXCEPT ![r].next = @ + 1]
    /\ worker' = [worker EXCEPT ![w].pc = "check"]
    /\ UNCHANGED <<feederOnly, running, over, cut, endedAt>>

\* Mutant: the feeder does not watch the context while it waits for a worker.
FeedToTheEnd(r) ==
    /\ feeder[r].pc = "feed"
    /\ planned > 0 /\ ~HasMore(r)
    /\ Goes(r, "wait")
    /\ UNCHANGED <<feederOnly, running, over, cut, endedAt, worker>>

\* All numbers are fed, or the context is done: the channel is closed.
StopFeeding(r) ==
    /\ feeder[r].pc = "feed"
    /\ r \in over \/ (planned > 0 /\ ~HasMore(r))
    /\ Goes(r, "wait")
    /\ UNCHANGED <<feederOnly, running, over, cut, endedAt, worker>>

\* A run by duration is over when its time is.
TimeOut(r) ==
    /\ feeder[r].pc \in {"feed", "wait"} /\ planned = 0 /\ r \notin over
    /\ over' = over \cup {r} /\ cut' = cut \cup {r}
    /\ UNCHANGED <<feederOnly, running, endedAt, feeder, worker>>

\* Mutant: the goroutine ends the run without waiting for the workers.
EndRunAtOnce(r) ==
    /\ feeder[r].pc = "wait"
    /\ running' = FALSE
    /\ Goes(r, "ended")
    /\ UNCHANGED <<feederOnly, over, cut, endedAt, worker>>

EndRun(r) ==
    /\ feeder[r].pc = "wait"
    /\ \A w \in Workers : worker[w].run = r => worker[w].pc = "none"
    /\ running' = FALSE
    /\ Goes(r, "ended")
    /\ UNCHANGED <<feederOnly, over, cut, endedAt, worker>>

\* The time of the end is noted a step later: a run may have been started since.
NoteEnd(r) ==
    /\ feeder[r].pc = "ended"
    /\ endedAt' = r
    /\ Goes(r, "noted")
    /\ UNCHANGED <<feederOnly, running, over, cut, worker>>

CancelOwn(r) ==
    /\ feeder[r].pc = "noted"
    /\ over' = over \cup {r}
    /\ Goes(r, "gone")
    /\ UNCHANGED <<feederOnly, running, cut, endedAt, worker>>

-----------------------------------------------------------------------------
(* The workers.                                                            *)

workerOnly == <<rmode, started, planned, running, cancelOf, run, over, cut, endedAt, feeder, shownStats>>

Works(w, pc) == worker' = [worker EXCEPT ![w].pc = pc]

\* The channel is closed, the context is done before a request is sent, or while it is paused.
Leave(w) ==
    /\ \/ worker[w].pc = "idle" /\ feeder[worker[w].run].pc = "wait"
       \/ worker[w].pc \in {"check", "pause"} /\ worker[w].run \in over
    /\ worker' = [worker EXCEPT ![w].pc = "none"]
    /\ UNCHANGED <<workerOnly, sent, inFlight, lost, stats>>

Send(w) ==
    /\ worker[w].pc = "check" /\ worker[w].run \notin over
    /\ sent' = sent + 1 /\ inFlight' = inFlight + 1
    /\ Works(w, "fly")
    /\ UNCHANGED <<workerOnly, lost, stats>>

\* An answer of the server, or none: the request failed, or its context is done.
Land(w, got) ==
    /\ worker[w].pc = "fly"
    /\ inFlight' = inFlight - 1
    /\ worker' = [worker EXCEPT ![w].pc = "landed", ![w].got = got]
    /\ UNCHANGED <<workerOnly, sent, lost, stats>>

Lesser(n, m) == IF n < m THEN n ELSE m
Greater(n, m) == IF n < m THEN m ELSE n

NewBucket(lat) == [count |-> 0, totalLat |-> 0, minLat |-> lat, maxLat |-> 0]

Counted(b, lat) ==
    [count |-> b.count + 1, totalLat |-> b.totalLat + lat, minLat |-> Lesser(b.minLat, lat),
     maxLat |-> Greater(b.maxLat, lat)]

Bucketed(buckets, got) ==
    [c \in DOMAIN buckets \cup {got.code} |->
        IF c # got.code THEN buckets[c]
        ELSE Counted(IF c \in DOMAIN buckets THEN buckets[c] ELSE NewBucket(got.lat), got.lat)]

Recorded(s, got) ==
    [completed |-> s.completed + 1, sumLat |-> s.sumLat + got.lat,
     minLat |-> IF s.completed = 0 THEN got.lat ELSE Lesser(s.minLat, got.lat),
     maxLat |-> Greater(s.maxLat, got.lat),
     success |-> s.success + (IF got.ok THEN 1 ELSE 0), failed |-> s.failed + (IF got.ok THEN 0 ELSE 1),
     buckets |-> Bucketed(s.buckets, got),
     lat |-> IF Len(s.lat) < LatCap THEN Append(s.lat, got.lat) ELSE s.lat]

\* A failure after the context is done is not counted, and the worker leaves.
DropAnswer(w) ==
    /\ worker[w].pc = "landed" /\ worker[w].run \in over /\ ~worker[w].got.ok
    /\ lost' = lost + 1
    /\ worker' = [worker EXCEPT ![w] = [@ EXCEPT !.pc = "none", !.got = NoAnswer]]
    /\ UNCHANGED <<workerOnly, sent, inFlight, stats>>

Record(w, next) ==
    /\ worker[w].pc = "landed" /\ (worker[w].got.ok \/ worker[w].run \notin over)
    /\ stats' = Recorded(stats, worker[w].got)
    /\ worker' = [worker EXCEPT ![w] = [@ EXCEPT !.pc = next, !.got = NoAnswer]]
    /\ UNCHANGED <<workerOnly, sent, inFlight, lost>>

Resume(w) ==
    /\ worker[w].pc = "pause"
    /\ Works(w, "idle")
    /\ UNCHANGED <<workerOnly, sent, inFlight, lost, stats>>

-----------------------------------------------------------------------------

Feeding(r) ==
    \/ \E w \in Workers : Feed(r, w)
    \/ StopFeeding(r)
    \/ EndRun(r)
    \/ NoteEnd(r)
    \/ CancelOwn(r)

\* With a delay between requests ("pause") or without.
Working(w) ==
    \/ Leave(w)
    \/ Send(w)
    \/ DropAnswer(w)
    \/ \E next \in {"idle", "pause"} : Record(w, next)
    \/ Resume(w)

RunnerStep ==
    \/ \E r \in Runs : Feeding(r) \/ TimeOut(r)
    \/ \E w \in Workers : Working(w)
    \/ \E w \in Workers, got \in Answers \cup {NoAnswer} : Land(w, got)

\* Some goroutine that can run does, time passes, and a request whose context is done
\* comes back; the server may never answer.
RunnerFairness ==
    WF_runnerVars(\/ \E r \in Runs : Feeding(r) \/ TimeOut(r)
                  \/ \E w \in Workers : Working(w) \/ (worker[w].run \in over /\ Land(w, NoAnswer)))

-----------------------------------------------------------------------------
(* Properties.                                                             *)

SumOver(S, weight) == FoldSet(LAMBDA c, n : weight[c] + n, 0, S)

Codes == DOMAIN stats.buckets

\* The table is the sum of its rows, whatever order the workers counted in.
TableExact ==
    /\ stats.completed = stats.success + stats.failed
    /\ stats.completed = SumOver(Codes, [c \in Codes |-> stats.buckets[c].count])
    /\ stats.sumLat = SumOver(Codes, [c \in Codes |-> stats.buckets[c].totalLat])
    /\ stats.completed > 0 =>
        /\ stats.minLat = Min({stats.buckets[c].minLat : c \in Codes})
        /\ stats.maxLat = Max({stats.buckets[c].maxLat : c \in Codes})
    /\ \A c \in Codes :
        /\ stats.buckets[c].minLat * stats.buckets[c].count <= stats.buckets[c].totalLat
        /\ stats.buckets[c].totalLat <= stats.buckets[c].maxLat * stats.buckets[c].count

\* Percentiles are in order, and between the least and the greatest latency counted.
PercentilesOrdered ==
    shownStats.of > 0 =>
        /\ shownStats.of <= stats.completed
        /\ stats.minLat <= shownStats.p50 /\ shownStats.p50 <= shownStats.p90
        /\ shownStats.p90 <= shownStats.p99 /\ shownStats.p99 <= stats.maxLat

In(pcs) == {w \in Workers : worker[w].pc \in pcs}

\* What was sent is in the air, landed, counted or dropped.
SentExact ==
    /\ inFlight = Cardinality(In({"fly"}))
    /\ sent = Cardinality(In({"fly", "landed"})) + stats.completed + lost

\* A run is fed and worked on only while it is the one that runs, so that no
\* answer is counted in the table of another run; a run that was not cut has
\* sent and counted every request of it, and one that shows "Stopped" was cut.
RunsApart ==
    /\ \A w \in Workers : worker[w].pc # "none" => worker[w].run = run /\ running
    /\ \A r \in Runs : feeder[r].pc \in {"feed", "wait"} <=> r = run /\ running
    /\ run > 0 /\ ~running =>
        /\ run \notin cut => stats.completed = planned
        /\ planned > 0 /\ stats.completed < planned => run \in cut

\* Starting, stopping and counting agree, in whatever order workers and goroutines get on.
RunExact == TableExact /\ PercentilesOrdered /\ SentExact /\ RunsApart

\* A run that is stopped, or that has a duration, ends, although no server need answer.
RunEnds == (running /\ (run \in cut \/ planned = 0)) ~> ~running
================================================================================
