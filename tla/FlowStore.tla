------------------------------ MODULE FlowStore ------------------------------
(***************************************************************************)
(* The capture store of the MITM proxy (internal/ui/mitm/flow.go): proxy   *)
(* goroutines add a flow and go on updating it, the UI thread deletes,     *)
(* clears and annotates flows and fetches the history it shows.  Every     *)
(* method runs under the store's lock, so it is one step.                  *)
(***************************************************************************)
EXTENDS Naturals, SequencesExt

CONSTANTS Flows,         \* the Flow objects the goroutines create
          Sizes,         \* the body sizes that occur
          MaxFlows, MaxFlowBytes,
          MaxRev         \* bound: the user edits the store only below this revision

ASSUME SizesAssumption == Sizes \subseteq Nat
ASSUME LimitsAssumption == MaxFlows \in Nat \ {0} /\ MaxFlowBytes \in Nat

VARIABLES
    rec,        \* the fields of each Flow object
    flows,      \* Store.flows, oldest first
    bytes,      \* Store.bytes
    nextID,     \* Store.nextID
    rev,        \* Store.rev
    meta        \* Store.metaRev and metaCache; not valid before the first call

storeVars == <<rec, flows, bytes, nextID, rev, meta>>

\* What an object holds: the sizes of the two bodies, whether it ended, whether its
\* tunnel was closed, the annotation, and whether it counts in Store.bytes.
Fields == [id : Nat, req : Sizes, resp : Sizes \cup {0}, ended : BOOLEAN,
           closed : BOOLEAN, note : {"", "red"}, stored : BOOLEAN]

FlowBytes(r) == r.req + r.resp

NewFlow(s) == [id |-> 0, req |-> s, resp |-> 0, ended |-> FALSE, closed |-> FALSE,
               note |-> "", stored |-> FALSE]

Created(f) == rec[f].id # 0

\* The body-free copies of the flows that the history shows.
MetaCopy(r) == [id |-> r.id, ended |-> r.ended, closed |-> r.closed, note |-> r.note]
MetaView == [i \in 1..Len(flows) |-> MetaCopy(rec[flows[i]])]

StoreInit ==
    /\ rec \in [Flows -> {NewFlow(s) : s \in Sizes}]
    /\ flows = <<>>
    /\ bytes = 0
    /\ nextID = 0
    /\ rev = 0
    /\ meta = [valid |-> FALSE, rev |-> 0, view |-> <<>>]

-----------------------------------------------------------------------------
(* The proxy goroutines.                                                   *)

\* The sum of the bodies of a sequence of flows.
SumBytes(r, s) == FoldSeq(LAMBDA f, sum : FlowBytes(r[f]) + sum, 0, s)

\* Add stops dropping once d flows are gone: the store is within both limits, or
\* only the flow just added is left.
Enough(r, s, total, d) ==
    \/ d = Len(s) - 1
    \/ Len(s) - d <= MaxFlows /\ total - SumBytes(r, SubSeq(s, 1, d)) <= MaxFlowBytes

Add(f) ==
    /\ ~Created(f)
    /\ LET all   == Append(flows, f)
           total == bytes + FlowBytes(rec[f])
       IN  \E d \in 0..Len(flows) :
               /\ Enough(rec, all, total, d)
               /\ \A e \in 0..(d - 1) : ~Enough(rec, all, total, e)
               /\ flows' = SubSeq(all, d + 1, Len(all))
               /\ bytes' = total - SumBytes(rec, SubSeq(all, 1, d))
               /\ rec' = [g \in Flows |->
                              IF g = f THEN [rec[f] EXCEPT !.id = nextID + 1, !.stored = TRUE]
                              ELSE [rec[g] EXCEPT !.stored = @ /\ g \in Range(flows')]]
    /\ nextID' = nextID + 1
    /\ rev' = rev + 1
    /\ UNCHANGED meta

\* Mutant: a flow the store no longer holds is still counted.
UpdateUncounted(f, r) ==
    /\ rec' = [rec EXCEPT ![f] = r]
    /\ bytes' = bytes + FlowBytes(r) - FlowBytes(rec[f])
    /\ rev' = rev + 1
    /\ UNCHANGED <<flows, nextID, meta>>

\* Store.Update with a callback that turns f into r.
Update(f, r) ==
    /\ rec' = [rec EXCEPT ![f] = r]
    /\ bytes' = IF rec[f].stored THEN bytes + FlowBytes(r) - FlowBytes(rec[f]) ELSE bytes
    /\ rev' = rev + 1
    /\ UNCHANGED <<flows, nextID, meta>>

\* The response of an exchange, which has no tunnel, is in: handleHTTP records it and ends
\* the flow in one call, proxyOneIntercepted leaves the end to markEnded.  The store does
\* not ask whether the flow has ended.
Respond(f, s, ends) ==
    /\ Created(f)
    /\ rec[f].resp = 0 /\ ~rec[f].closed
    /\ Update(f, [rec[f] EXCEPT !.resp = s, !.ended = @ \/ ends])

\* markEnded, deferred by every handler, and the calls that record an error.
End(f) ==
    /\ Created(f)
    /\ ~rec[f].ended
    /\ Update(f, [rec[f] EXCEPT !.ended = TRUE])

\* A tunnel has no response body.  Its flow ends when it is established; TunnelClosed,
\* the byte counts and the error of a failed handshake are recorded when the tunnel is
\* done, or before the end when the client is gone already.
CloseTunnel(f) ==
    /\ Created(f)
    /\ rec[f].resp = 0 /\ ~rec[f].closed
    /\ Update(f, [rec[f] EXCEPT !.closed = TRUE])

-----------------------------------------------------------------------------
(* The UI thread.                                                          *)

Edit == rev < MaxRev

\* Mutants: the total is reset while the flows stay and are still counted; the flows
\* thrown away still count as stored.
ClearTotalOnly ==
    /\ Edit
    /\ bytes' = 0
    /\ rev' = rev + 1
    /\ UNCHANGED <<rec, flows, nextID, meta>>

ClearKeepsStored ==
    /\ Edit
    /\ flows' = <<>>
    /\ bytes' = 0
    /\ rev' = rev + 1
    /\ UNCHANGED <<rec, nextID, meta>>

Clear ==
    /\ Edit
    /\ rec' = [f \in Flows |-> [rec[f] EXCEPT !.stored = FALSE]]
    /\ flows' = <<>>
    /\ bytes' = 0
    /\ rev' = rev + 1
    /\ UNCHANGED <<nextID, meta>>

\* Delete and SetAnnotation bump the revision whether or not they find the flow.
Delete(id) ==
    /\ Edit
    /\ \/ \E i \in DOMAIN flows :
              LET f == flows[i]
              IN  /\ rec[f].id = id
                  /\ rec' = [rec EXCEPT ![f].stored = FALSE]
                  /\ bytes' = bytes - FlowBytes(rec[f])
                  /\ flows' = RemoveAt(flows, i)
       \/ /\ \A i \in DOMAIN flows : rec[flows[i]].id # id
          /\ UNCHANGED <<rec, bytes, flows>>
    /\ rev' = rev + 1
    /\ UNCHANGED <<nextID, meta>>

\* Mutant: annotating a flow does not move the revision.
SetAnnotationQuietly(id, note) ==
    /\ Edit
    /\ rec' = [f \in Flows |-> IF f \in Range(flows) /\ rec[f].id = id
                               THEN [rec[f] EXCEPT !.note = note] ELSE rec[f]]
    /\ UNCHANGED <<flows, bytes, nextID, rev, meta>>

SetAnnotation(id, note) ==
    /\ Edit
    /\ rec' = [f \in Flows |-> IF f \in Range(flows) /\ rec[f].id = id
                               THEN [rec[f] EXCEPT !.note = note] ELSE rec[f]]
    /\ rev' = rev + 1
    /\ UNCHANGED <<flows, bytes, nextID, meta>>

\* Proxy.Stop calls it once its goroutines are gone.
MarkAllEnded ==
    /\ Edit
    /\ rec' = [f \in Flows |-> IF f \in Range(flows)
                               THEN [rec[f] EXCEPT !.ended = TRUE] ELSE rec[f]]
    /\ rev' = rev + 1
    /\ UNCHANGED <<flows, bytes, nextID, meta>>

\* filteredFlows calls SnapshotMeta in every frame; it rebuilds the copies when the
\* revision moved since they were built.
SnapshotMeta ==
    /\ ~(meta.valid /\ meta.rev = rev)
    /\ meta' = [valid |-> TRUE, rev |-> rev, view |-> MetaView]
    /\ UNCHANGED <<rec, flows, bytes, nextID, rev>>

-----------------------------------------------------------------------------

Proxy(f) ==
    \/ Add(f)
    \/ \E s \in Sizes \ {0}, ends \in BOOLEAN : Respond(f, s, ends)
    \/ End(f)
    \/ CloseTunnel(f)

UserEdit ==
    \/ Clear
    \/ \E id \in 1..nextID : Delete(id) \/ SetAnnotation(id, "red")
    \/ MarkAllEnded

StoreNext == (\E f \in Flows : Proxy(f)) \/ UserEdit \/ SnapshotMeta

StoreSpec == StoreInit /\ [][StoreNext]_storeVars

-----------------------------------------------------------------------------
(* Properties.                                                             *)

StoreTypeOK ==
    /\ rec \in [Flows -> Fields]
    /\ flows \in Seq(Flows)
    /\ bytes \in Nat
    /\ nextID \in Nat
    /\ rev \in Nat
    /\ meta.valid \in BOOLEAN /\ meta.rev \in Nat

\* The running total is the sum over the flows held now, although flows are
\* updated after they were evicted, deleted or cleared, and evicted after they
\* were updated.
BytesExact == bytes = SumBytes(rec, flows)

\* An object counts in the total exactly while the store holds it, once.
StoredIsHeld ==
    /\ \A f \in Flows : rec[f].stored <=> f \in Range(flows)
    /\ IsInjective(flows)

\* The history is in the order of capture, by strictly increasing ID.
InCaptureOrder ==
    \A i, j \in DOMAIN flows : i < j => rec[flows[i]].id < rec[flows[j]].id

\* MaxFlows holds between any two calls.
CountBounded == Len(flows) <= MaxFlows

\* What every later Update, eviction and deletion relies on, whatever has been evicted,
\* deleted or cleared before: the flags tell who is held, in order, within the bound.
StoreKept == StoredIsHeld /\ InCaptureOrder /\ CountBounded

\* Add never evicts more than the limits demand: the store with the newest of
\* the dropped flows kept would be above one of them.
EvictsOnlyAsNeeded ==
    \A f \in Flows : ~Created(f) /\ rec'[f].stored =>
        LET all  == Append(flows, f)
            d    == Len(all) - Len(flows')
            kept == SubSeq(all, d, Len(all))
        IN  /\ flows' = SubSeq(all, d + 1, Len(all))
            /\ d > 0 => Len(kept) > MaxFlows \/ SumBytes(rec, kept) > MaxFlowBytes

\* The total is exact and eviction goes by it, so that a flow is dropped only when it must be.
EvictionExact == [][BytesExact' /\ EvictsOnlyAsNeeded]_storeVars

\* flow.go:140: "Rev changes whenever any flow does, so callers can cache derived
\* views".  A cached history of the current revision is what a rebuild would give.
HistoryFresh == meta.valid /\ meta.rev = rev => meta.view = MetaView
=============================================================================
