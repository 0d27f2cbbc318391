------------------------------- MODULE MitmProofs -------------------------------
(***************************************************************************)
(* Theorems about the capture store of the MITM proxy (FlowStore), for any *)
(* flows, sizes and limits, and about the proxy itself (MitmProxy), for    *)
(* any set of connections, finite or not, any kinds of requests, with and  *)
(* without held messages, and about the queue of held messages             *)
(* (Interceptor), for any set of messages.  The three are separate         *)
(* specifications: nothing here speaks of two of them.                     *)
(*                                                                         *)
(* What a goroutine does to a flow after Add is an Update that keeps its   *)
(* ID and whether it is stored (ProxyUpdate); so the invariants of the     *)
(* store only depend on Add, Delete and Clear.  They are strengthened by   *)
(* Numbering, that no flow is numbered above nextID and none is held       *)
(* unnumbered, and by MetaNotAhead, that the cache is never of a revision  *)
(* yet to come.                                                            *)
(*                                                                         *)
(* The invariants of the queue are strengthened by three facts: where each *)
(* local variable of the UI thread is in use (Locals), that a message is   *)
(* numbered when it is queued and not before (Numbers), and that the list  *)
(* drainAll works through holds no message twice (DrainedOnce).  The last  *)
(* part proves that the queue implements HeldMessages.                     *)
(***************************************************************************)
EXTENDS FlowStore, MitmProxy, Interceptor, SeqFacts, TLAPS

-----------------------------------------------------------------------------
(* The store.                                                              *)

Shape ==
    /\ rec \in [Flows -> Fields]
    /\ flows \in Seq(Flows)
    /\ nextID \in Nat
    /\ rev \in Nat
    /\ meta.rev \in Nat

Numbering ==
    /\ \A f \in Flows : rec[f].id <= nextID
    /\ \A f \in Range(flows) : rec[f].id # 0

MetaNotAhead == meta.valid => meta.rev <= rev

StoreInv ==
    /\ Shape
    /\ Numbering
    /\ StoredIsHeld
    /\ InCaptureOrder
    /\ CountBounded
    /\ MetaNotAhead
    /\ HistoryFresh

\* Steps that change records, but neither which flows are held nor their IDs.
Touch ==
    /\ rec' \in [Flows -> Fields]
    /\ \A f \in Flows : rec'[f].id = rec[f].id /\ rec'[f].stored = rec[f].stored
    /\ flows' = flows
    /\ nextID' = nextID
    /\ rev' = rev + 1
    /\ meta' = meta

-----------------------------------------------------------------------------

LEMMA RangeIn == flows \in Seq(Flows) => Range(flows) \subseteq Flows
  BY DEF Range

\* A call that moves the revision on leaves the cache valid for the past only.
LEMMA MetaAged ==
    ASSUME Shape, MetaNotAhead, rev' = rev + 1, meta' = meta
    PROVE  MetaNotAhead' /\ HistoryFresh'
  BY DEF Shape, MetaNotAhead, HistoryFresh

LEMMA UpdateTouches ==
    ASSUME Shape, NEW f \in Flows, NEW r \in Fields,
           r.id = rec[f].id, r.stored = rec[f].stored, Update(f, r)
    PROVE  Touch
  BY DEF Shape, Update, Touch

\* Everything the goroutine of a flow does after Add.
LEMMA ProxyTouches ==
    ASSUME Shape, NEW f \in Flows,
           \/ \E s \in Sizes \ {0}, ends \in BOOLEAN : Respond(f, s, ends)
           \/ End(f)
           \/ CloseTunnel(f)
    PROVE  Touch
<1>1. rec[f] \in Fields
  BY DEF Shape
<1>2. ASSUME NEW s \in Sizes \ {0}, NEW ends \in BOOLEAN, Respond(f, s, ends) PROVE Touch
  <2>1. [rec[f] EXCEPT !.resp = s, !.ended = @ \/ ends] \in Fields
    BY <1>1 DEF Fields
  <2>2. /\ [rec[f] EXCEPT !.resp = s, !.ended = @ \/ ends].id = rec[f].id
        /\ [rec[f] EXCEPT !.resp = s, !.ended = @ \/ ends].stored = rec[f].stored
    BY <1>1 DEF Fields
  <2> QED
    BY <1>2, <2>1, <2>2, UpdateTouches DEF Respond
<1>3. ASSUME End(f) PROVE Touch
  <2>1. [rec[f] EXCEPT !.ended = TRUE] \in Fields
    BY <1>1 DEF Fields
  <2>2. /\ [rec[f] EXCEPT !.ended = TRUE].id = rec[f].id
        /\ [rec[f] EXCEPT !.ended = TRUE].stored = rec[f].stored
    BY <1>1 DEF Fields
  <2> QED
    BY <1>3, <2>1, <2>2, UpdateTouches DEF End
<1>4. ASSUME CloseTunnel(f) PROVE Touch
  <2>1. [rec[f] EXCEPT !.closed = TRUE] \in Fields
    BY <1>1 DEF Fields
  <2>2. /\ [rec[f] EXCEPT !.closed = TRUE].id = rec[f].id
        /\ [rec[f] EXCEPT !.closed = TRUE].stored = rec[f].stored
    BY <1>1 DEF Fields
  <2> QED
    BY <1>4, <2>1, <2>2, UpdateTouches DEF CloseTunnel
<1> QED
  BY <1>2, <1>3, <1>4

LEMMA AnnotationTouches ==
    ASSUME Shape, NEW id, SetAnnotation(id, "red")
    PROVE  Touch
<1>1. ASSUME NEW f \in Flows
      PROVE  rec'[f] \in Fields /\ rec'[f].id = rec[f].id /\ rec'[f].stored = rec[f].stored
  <2>1. rec[f] \in Fields
    BY DEF Shape
  <2>2. rec'[f] = [rec[f] EXCEPT !.note = "red"] \/ rec'[f] = rec[f]
    BY DEF SetAnnotation
  <2> QED
    BY <2>1, <2>2 DEF Fields
<1>2. rec' = [f \in Flows |-> rec'[f]]
  BY DEF SetAnnotation
<1> QED
  BY <1>1, <1>2 DEF SetAnnotation, Touch

LEMMA MarkAllTouches ==
    ASSUME Shape, MarkAllEnded
    PROVE  Touch
<1>1. ASSUME NEW f \in Flows
      PROVE  rec'[f] \in Fields /\ rec'[f].id = rec[f].id /\ rec'[f].stored = rec[f].stored
  <2>1. rec[f] \in Fields
    BY DEF Shape
  <2>2. rec'[f] = [rec[f] EXCEPT !.ended = TRUE] \/ rec'[f] = rec[f]
    BY DEF MarkAllEnded
  <2> QED
    BY <2>1, <2>2 DEF Fields
<1>2. rec' = [f \in Flows |-> rec'[f]]
  BY DEF MarkAllEnded
<1> QED
  BY <1>1, <1>2 DEF MarkAllEnded, Touch

LEMMA TouchInvariance ==
    ASSUME StoreInv, Touch
    PROVE  StoreInv'
<1> USE DEF StoreInv, Touch
<1>1. Shape'
  BY DEF Shape
<1>2. Range(flows) \subseteq Flows
  BY RangeIn DEF Shape
<1>3. Numbering'
  BY <1>2 DEF Numbering
<1>4. StoredIsHeld'
  BY DEF StoredIsHeld
<1>5. InCaptureOrder'
  <2>1. \A i \in DOMAIN flows : flows[i] \in Flows
    BY DEF Shape
  <2> QED
    BY <2>1 DEF InCaptureOrder
<1>6. CountBounded'
  BY DEF CountBounded
<1>7. MetaNotAhead' /\ HistoryFresh'
  BY MetaAged
<1> QED
  BY <1>1, <1>3, <1>4, <1>5, <1>6, <1>7

-----------------------------------------------------------------------------

LEMMA ClearInvariance ==
    ASSUME StoreInv, Clear
    PROVE  StoreInv'
<1> USE DEF StoreInv, Clear
<1>1. ASSUME NEW f \in Flows
      PROVE  /\ rec'[f] \in Fields /\ rec'[f].id = rec[f].id
             /\ rec'[f].stored = FALSE
  <2>1. rec[f] \in Fields
    BY DEF Shape
  <2> QED
    BY <2>1 DEF Fields
<1>2. rec' \in [Flows -> Fields]
  BY <1>1
<1>3. Shape'
  BY <1>2 DEF Shape
<1>4. Range(flows') = {} /\ IsInjective(flows')
  BY EmptyRange
<1>5. Numbering'
  BY <1>1, <1>4 DEF Numbering
<1>6. StoredIsHeld'
  BY <1>1, <1>4 DEF StoredIsHeld
<1>7. InCaptureOrder' /\ CountBounded'
  BY LimitsAssumption DEF InCaptureOrder, CountBounded
<1>8. MetaNotAhead' /\ HistoryFresh'
  BY MetaAged
<1> QED
  BY <1>3, <1>5, <1>6, <1>7, <1>8

LEMMA DeleteInvariance ==
    ASSUME StoreInv, NEW id, Delete(id)
    PROVE  StoreInv'
<1> USE DEF StoreInv
<1>1. CASE UNCHANGED <<rec, bytes, flows>>
  <2>1. Touch
    BY <1>1 DEF Delete, Touch, Shape
  <2> QED
    BY <2>1, TouchInvariance
<1>2. ASSUME NEW i \in DOMAIN flows,
             rec' = [rec EXCEPT ![flows[i]].stored = FALSE],
             flows' = RemoveAt(flows, i),
             rev' = rev + 1, nextID' = nextID, meta' = meta
      PROVE  StoreInv'
  <2>0. /\ flows \in Seq(Flows) /\ Len(flows) \in Nat /\ i \in 1..Len(flows)
        /\ flows[i] \in Flows /\ IsInjective(flows)
    BY DEF Shape, StoredIsHeld
  <2>1. /\ flows' \in Seq(Flows) /\ Len(flows') = Len(flows) - 1
        /\ \A k \in 1..(Len(flows) - 1) :
               flows'[k] = IF k < i THEN flows[k] ELSE flows[k + 1]
    BY <1>2, <2>0, RemoveAtProperties
  <2>2. \A f : f \in Range(flows') <=> f \in Range(flows) /\ f # flows[i]
    BY <1>2, <2>0, RemoveAtMember
  <2>3. ASSUME NEW f \in Flows
        PROVE  /\ rec'[f] \in Fields /\ rec'[f].id = rec[f].id
               /\ rec'[f].stored = (rec[f].stored /\ f # flows[i])
    <3>1. rec[f] \in Fields
      BY DEF Shape
    <3>2. CASE f = flows[i]
      BY <1>2, <3>1, <3>2 DEF Fields, Shape
    <3>3. CASE f # flows[i]
      <4>1. rec'[f] = rec[f]
        BY <1>2, <3>3 DEF Shape
      <4>2. rec[f].stored \in BOOLEAN
        BY <3>1 DEF Fields
      <4> QED
        BY <3>1, <3>3, <4>1, <4>2
    <3> QED
      BY <3>2, <3>3
  <2>4. rec' \in [Flows -> Fields]
    BY <1>2, <2>3 DEF Shape
  <2>5. Shape'
    BY <1>2, <2>1, <2>4 DEF Shape
  <2>6. Range(flows) \subseteq Flows
    BY RangeIn DEF Shape
  <2>7. Numbering'
    BY <1>2, <2>2, <2>3, <2>6 DEF Numbering
  <2>8. DOMAIN flows' = 1..(Len(flows) - 1) /\ DOMAIN flows = 1..Len(flows)
    BY <2>0, <2>1
  <2>9. IsInjective(flows')
    <3>1. \A j, k \in 1..Len(flows) : j # k => flows[j] # flows[k]
      BY <2>0, <2>8 DEF IsInjective
    <3>2. ASSUME NEW j \in 1..(Len(flows) - 1), NEW k \in 1..(Len(flows) - 1), j # k
          PROVE  flows'[j] # flows'[k]
      <4>0. Len(flows) \in Nat /\ i \in 1..Len(flows)
        BY <2>0
      <4>1. PICK jj \in 1..Len(flows) : jj = (IF j < i THEN j ELSE j + 1) /\ flows'[j] = flows[jj]
        BY ONLY <2>1, <3>2, <4>0
      <4>2. PICK kk \in 1..Len(flows) : kk = (IF k < i THEN k ELSE k + 1) /\ flows'[k] = flows[kk]
        BY ONLY <2>1, <3>2, <4>0
      <4>3. jj # kk
        BY ONLY <3>2, <4>0, <4>1, <4>2
      <4> QED
        BY ONLY <3>1, <4>1, <4>2, <4>3
    <3> QED
      BY <3>2, <2>8 DEF IsInjective
  <2>10. StoredIsHeld'
    BY <2>2, <2>3, <2>9 DEF StoredIsHeld
  <2>11. InCaptureOrder'
    <3>1. \A j, k \in 1..Len(flows) : j < k => rec[flows[j]].id < rec[flows[k]].id
      BY <2>8 DEF InCaptureOrder
    <3>2. \A j \in 1..Len(flows) : rec'[flows[j]].id = rec[flows[j]].id
      BY <2>0, <2>3
    <3>3. ASSUME NEW j \in 1..(Len(flows) - 1), NEW k \in 1..(Len(flows) - 1), j < k
          PROVE  rec'[flows'[j]].id < rec'[flows'[k]].id
      <4>1. PICK a \in 1..Len(flows) : a = IF j < i THEN j ELSE j + 1
        BY ONLY <2>0, <3>3
      <4>2. PICK b \in 1..Len(flows) : b = IF k < i THEN k ELSE k + 1
        BY ONLY <2>0, <3>3
      <4>3. flows'[j] = flows[a] /\ flows'[k] = flows[b]
        BY ONLY <2>1, <3>3, <4>1, <4>2
      <4>4. a < b
        BY ONLY <2>0, <3>3, <4>1, <4>2
      <4> QED
        BY <4>3, <4>4, <3>1, <3>2
    <3> QED
      BY <3>3, <2>8 DEF InCaptureOrder
  <2>12. CountBounded'
    BY <2>0, <2>1, LimitsAssumption DEF CountBounded
  <2>13. MetaNotAhead' /\ HistoryFresh'
    BY <1>2, MetaAged
  <2> QED
    BY <2>5, <2>7, <2>10, <2>11, <2>12, <2>13
<1> QED
  BY <1>1, <1>2 DEF Delete

LEMMA AddInvariance ==
    ASSUME StoreInv, NEW f \in Flows, Add(f)
    PROVE  StoreInv'
<1> USE DEF StoreInv
<1> DEFINE all == Append(flows, f)
<1>0. /\ flows \in Seq(Flows) /\ Len(flows) \in Nat /\ IsInjective(flows)
      /\ rec[f].id = 0 /\ nextID \in Nat
  BY DEF Add, Created, Shape, StoredIsHeld
<1>1. /\ all \in Seq(Flows) /\ Len(all) = Len(flows) + 1
      /\ \A k \in 1..Len(flows) : all[k] = flows[k]
      /\ all[Len(flows) + 1] = f
  BY <1>0, AppendProperties
<1>2. f \notin Range(flows)
  BY <1>0 DEF Numbering
<1> HIDE DEF all
<1>3. PICK d \in 0..Len(flows) :
         /\ d = Len(all) - 1 \/ Len(all) - d <= MaxFlows
         /\ flows' = SubSeq(all, d + 1, Len(all))
         /\ rec' = [g \in Flows |->
                        IF g = f THEN [rec[f] EXCEPT !.id = nextID + 1, !.stored = TRUE]
                        ELSE [rec[g] EXCEPT !.stored = @ /\ g \in Range(flows')]]
  BY DEF Add, Enough, all
<1>4. /\ flows' \in Seq(Flows) /\ Len(flows') = Len(flows) + 1 - d
      /\ \A k \in 1..(Len(flows) + 1 - d) : flows'[k] = all[k + d]
  <2>1. d \in 0..Len(all)
    BY <1>0, <1>1
  <2>2. all \in Seq(Flows)
    BY <1>1
  <2>3. /\ SubSeq(all, d + 1, Len(all)) \in Seq(Flows)
        /\ Len(SubSeq(all, d + 1, Len(all))) = Len(all) - d
        /\ \A k \in 1..(Len(all) - d) : SubSeq(all, d + 1, Len(all))[k] = all[k + d]
    BY ONLY <2>1, <2>2, SuffixProperties
  <2>4. flows' = SubSeq(all, d + 1, Len(all))
    BY <1>3
  <2>5. Len(all) - d = Len(flows) + 1 - d
    BY ONLY <1>1
  <2> QED
    BY ONLY <2>3, <2>4, <2>5
<1>5. /\ d \in Nat /\ d <= Len(flows)
      /\ DOMAIN flows = 1..Len(flows) /\ DOMAIN flows' = 1..(Len(flows) + 1 - d)
      /\ \A k \in 1..Len(flows) : flows[k] \in Flows
  BY <1>0, <1>4
<1>6. \A k \in 1..(Len(flows) + 1 - d) :
         flows'[k] = IF k + d = Len(flows) + 1 THEN f ELSE flows[k + d]
  BY ONLY <1>0, <1>1, <1>4, <1>5
<1>7. f \in Range(flows') /\ Range(flows') \subseteq Range(flows) \cup {f}
  <2>1. ASSUME NEW k \in 1..(Len(flows) + 1 - d) PROVE flows'[k] \in Range(flows) \cup {f}
    <3>1. CASE k + d = Len(flows) + 1
      BY <1>6, <3>1
    <3>2. CASE k + d # Len(flows) + 1
      <4>1. k + d \in DOMAIN flows
        BY <1>0, <1>5, <3>2
      <4> QED
        BY <4>1, <1>6, <3>2 DEF Range
    <3> QED
      BY <3>1, <3>2
  <2>2. Len(flows) + 1 - d \in 1..(Len(flows) + 1 - d) /\ (Len(flows) + 1 - d) + d = Len(flows) + 1
    BY <1>0
  <2>3. flows'[Len(flows) + 1 - d] = f
    BY <2>2, <1>6
  <2> QED
    BY <2>1, <2>2, <2>3, <1>5 DEF Range
<1>8. ASSUME NEW g \in Flows, g # f
      PROVE  /\ rec'[g] \in Fields /\ rec'[g].id = rec[g].id
             /\ rec'[g].stored = (rec[g].stored /\ g \in Range(flows'))
  <2>1. rec[g] \in Fields
    BY DEF Shape
  <2>2. rec'[g] = [rec[g] EXCEPT !.stored = @ /\ g \in Range(flows')]
    BY <1>3, <1>8
  <2> QED
    BY <2>1, <2>2 DEF Fields
<1>9. rec'[f] \in Fields /\ rec'[f].id = nextID + 1 /\ rec'[f].stored = TRUE
  <2>1. rec[f] \in Fields
    BY DEF Shape
  <2>2. rec'[f] = [rec[f] EXCEPT !.id = nextID + 1, !.stored = TRUE]
    BY <1>3
  <2>3. nextID + 1 \in Nat
    BY <1>0
  <2> QED
    BY <2>1, <2>2, <2>3 DEF Fields
<1>10. nextID' = nextID + 1 /\ rev' = rev + 1 /\ meta' = meta
  BY DEF Add
<1>11. Shape'
  <2>1. rec' \in [Flows -> Fields]
    BY <1>3, <1>8, <1>9
  <2> QED
    BY <2>1, <1>4, <1>10 DEF Shape
<1>12. Numbering'
  <2>1. Range(flows) \subseteq Flows
    BY RangeIn, <1>0
  <2>2. \A g \in Flows : rec[g].id \in Nat
    BY DEF Shape, Fields
  <2> QED
    BY <2>1, <2>2, <1>0, <1>7, <1>8, <1>9, <1>10 DEF Numbering
<1>13. IsInjective(flows')
  <2>1. \A j, k \in 1..Len(flows) : j # k => flows[j] # flows[k]
    BY <1>0, <1>5 DEF IsInjective
  <2>2. \A k \in 1..Len(flows) : flows[k] # f
    BY <1>2, <1>5 DEF Range
  <2>3. ASSUME NEW j \in 1..(Len(flows) + 1 - d), NEW k \in 1..(Len(flows) + 1 - d), j # k
        PROVE  flows'[j] # flows'[k]
    BY ONLY <1>0, <1>6, <2>1, <2>2, <2>3, <1>5
  <2> QED
    BY <2>3, <1>5 DEF IsInjective
<1>14. StoredIsHeld'
  <2>1. \A g \in Flows : rec[g].stored <=> g \in Range(flows)
    BY DEF StoredIsHeld
  <2>2. ASSUME NEW g \in Flows PROVE rec'[g].stored <=> g \in Range(flows')
    BY <2>1, <1>7, <1>8, <1>9
  <2> QED
    BY <2>2, <1>13 DEF StoredIsHeld
<1>15. InCaptureOrder'
  <2>1. \A j, k \in 1..Len(flows) : j < k => rec[flows[j]].id < rec[flows[k]].id
    BY <1>5 DEF InCaptureOrder
  <2>2. \A k \in 1..Len(flows) :
           rec'[flows[k]].id = rec[flows[k]].id /\ rec[flows[k]].id <= nextID
                /\ rec[flows[k]].id \in Nat
    <3>1. \A k \in 1..Len(flows) : flows[k] # f /\ flows[k] \in Flows
      BY <1>2, <1>5 DEF Range
    <3>2. \A g \in Flows : rec[g].id \in Nat
      BY DEF Shape, Fields
    <3> QED
      BY <3>1, <3>2, <1>8 DEF Numbering
  <2>3. ASSUME NEW j \in 1..(Len(flows) + 1 - d), NEW k \in 1..(Len(flows) + 1 - d), j < k
        PROVE  rec'[flows'[j]].id < rec'[flows'[k]].id
    <3>1. j + d \in 1..Len(flows) /\ flows'[j] = flows[j + d]
      BY ONLY <1>0, <1>6, <2>3, <1>5
    <3>2. CASE k + d = Len(flows) + 1
      BY <3>1, <3>2, <1>0, <1>6, <1>9, <2>2
    <3>3. CASE k + d # Len(flows) + 1
      <4>1. k + d \in 1..Len(flows) /\ j + d < k + d
        BY ONLY <1>0, <1>5, <2>3, <3>3
      <4>2. flows'[k] = flows[k + d]
        BY ONLY <1>6, <3>3
      <4> QED
        BY <3>1, <4>1, <4>2, <2>1, <2>2
    <3> QED
      BY <3>2, <3>3
  <2> QED
    BY <2>3, <1>5 DEF InCaptureOrder
<1>16. CountBounded'
  BY <1>0, <1>1, <1>3, <1>4, LimitsAssumption DEF CountBounded
<1>17. MetaNotAhead' /\ HistoryFresh'
  BY <1>10, MetaAged
<1> QED
  BY <1>11, <1>12, <1>14, <1>15, <1>16, <1>17

LEMMA SnapshotInvariance ==
    ASSUME StoreInv, SnapshotMeta
    PROVE  StoreInv'
<1>1. UNCHANGED <<rec, flows, nextID, rev>> /\ meta' = [valid |-> TRUE, rev |-> rev, view |-> MetaView]
  BY DEF SnapshotMeta
<1>2. meta'.valid = TRUE /\ meta'.rev = rev /\ meta'.view = MetaView
  BY <1>1
<1>3. MetaView' = MetaView
  BY <1>1 DEF MetaView, MetaCopy
<1>4. Shape' /\ MetaNotAhead' /\ HistoryFresh'
  BY <1>1, <1>2, <1>3 DEF StoreInv, Shape, MetaNotAhead, HistoryFresh
<1>5. Numbering' /\ StoredIsHeld' /\ InCaptureOrder' /\ CountBounded'
  BY <1>1 DEF StoreInv, Numbering, StoredIsHeld, InCaptureOrder, CountBounded
<1> QED
  BY <1>4, <1>5 DEF StoreInv

LEMMA InitInvariant == StoreInit => StoreInv
<1> SUFFICES ASSUME StoreInit PROVE StoreInv
  OBVIOUS
<1> USE DEF StoreInit
<1>1. Shape
  <2>1. \A s \in Sizes : NewFlow(s) \in Fields
    BY SizesAssumption DEF NewFlow, Fields
  <2> QED
    BY <2>1 DEF Shape
<1>2. \A f \in Flows : rec[f].id = 0 /\ rec[f].stored = FALSE
  <2>1. \A s \in Sizes : NewFlow(s).id = 0 /\ NewFlow(s).stored = FALSE
    BY DEF NewFlow
  <2>2. ASSUME NEW f \in Flows PROVE \E s \in Sizes : rec[f] = NewFlow(s)
    OBVIOUS
  <2> QED
    BY <2>1, <2>2
<1>3. Numbering /\ StoredIsHeld
  BY <1>2, EmptyRange DEF Numbering, StoredIsHeld
<1>4. InCaptureOrder /\ CountBounded
  BY LimitsAssumption DEF InCaptureOrder, CountBounded
<1>5. MetaNotAhead /\ HistoryFresh
  BY DEF MetaNotAhead, HistoryFresh
<1> QED
  BY <1>1, <1>3, <1>4, <1>5 DEF StoreInv

LEMMA InvariantStep == StoreInv /\ [StoreNext]_storeVars => StoreInv'
<1> SUFFICES ASSUME StoreInv, [StoreNext]_storeVars PROVE StoreInv'
  OBVIOUS
<1>0. Shape
  BY DEF StoreInv
<1>1. ASSUME NEW f \in Flows, Proxy(f) PROVE StoreInv'
  <2>1. CASE Add(f)
    BY <2>1, AddInvariance
  <2>2. CASE ~Add(f)
    <3>1. Touch
      BY <1>0, <1>1, <2>2, ProxyTouches DEF Proxy
    <3> QED
      BY <3>1, TouchInvariance
  <2> QED
    BY <2>1, <2>2
<1>2. CASE Clear
  BY <1>2, ClearInvariance
<1>3. ASSUME NEW id \in 1..nextID, Delete(id) PROVE StoreInv'
  BY <1>3, DeleteInvariance
<1>4. ASSUME NEW id \in 1..nextID, SetAnnotation(id, "red") PROVE StoreInv'
  <2>1. Touch
    BY <1>0, <1>4, AnnotationTouches
  <2> QED
    BY <2>1, TouchInvariance
<1>5. CASE MarkAllEnded
  BY <1>0, <1>5, MarkAllTouches, TouchInvariance
<1>6. CASE SnapshotMeta
  BY <1>6, SnapshotInvariance
<1>7. CASE UNCHANGED storeVars
  <2>1. MetaView' = MetaView
    BY <1>7 DEF storeVars, MetaView, MetaCopy
  <2>2. Shape' /\ Numbering' /\ StoredIsHeld'
    BY <1>7 DEF StoreInv, storeVars, Shape, Numbering, StoredIsHeld
  <2>3. InCaptureOrder' /\ CountBounded'
    BY <1>7 DEF StoreInv, storeVars, InCaptureOrder, CountBounded
  <2>4. MetaNotAhead' /\ HistoryFresh'
    BY <1>7, <2>1 DEF StoreInv, storeVars, MetaNotAhead, HistoryFresh
  <2> QED
    BY <2>2, <2>3, <2>4 DEF StoreInv
<1> QED
  BY <1>1, <1>2, <1>3, <1>4, <1>5, <1>6, <1>7 DEF StoreNext, UserEdit

\* The inductive invariant of the store.
THEOREM StoreInvariance == StoreSpec => []StoreInv
  BY InitInvariant, InvariantStep, PTL DEF StoreSpec

\* The flag by which Update decides whether bytes count says exactly whether the store
\* holds the flow; the flows are held once, in the order of capture, and never more than
\* MaxFlows (Store.Add, Update, Delete, Clear).
THEOREM KeptWell == StoreSpec => []StoreKept
<1>1. StoreInv => StoreKept
  BY DEF StoreInv, StoreKept
<1> QED
  BY <1>1, StoreInvariance, PTL

\* A cached history of the current revision is what a rebuild would give: no change of
\* a held flow goes without a new revision.
THEOREM CacheFresh == StoreSpec => []HistoryFresh
<1>1. StoreInv => HistoryFresh
  BY DEF StoreInv
<1> QED
  BY <1>1, StoreInvariance, PTL

-----------------------------------------------------------------------------
(* The running total.                                                      *)

\* What the fold of SumBytes adds up.
Weight(r, s) == [i \in DOMAIN s |-> FlowBytes(r[s[i]])]

LEMMA SumBytesIs ==
    ASSUME NEW r, NEW s \in Seq(Flows)
    PROVE  \E T : Sums(T, Weight(r, s), DOMAIN s) /\ SumBytes(r, s) = T[DOMAIN s]
<1> DEFINE D == DOMAIN s
           w == Weight(r, s)
           Body(T, t) == IF t = {} THEN 0
                         ELSE FlowBytes(r[s[CHOOSE x \in t : TRUE]]) + T[t \ {CHOOSE x \in t : TRUE}]
           F == CHOOSE T : T = [t \in SUBSET D |-> Body(T, t)]
<1>0. IsFiniteSet(D)
  BY FS_Interval, LenProperties
<1>1. SumBytes(r, s) = F[D]
  BY DEF SumBytes, FoldSeq, FoldFunction, FoldFunctionOnSet, MapThenFoldSet
<1>2. ASSUME NEW T PROVE (T = [t \in SUBSET D |-> Body(T, t)]) <=> Sums(T, w, D)
  <2>1. \A t \in SUBSET D : t # {} => (CHOOSE x \in t : TRUE) \in D
    BY ChosenIn DEF Chosen
  <2>2. \A t \in SUBSET D : Body(T, t) = IF t = {} THEN 0 ELSE w[Chosen(t)] + T[t \ {Chosen(t)}]
    BY <2>1 DEF Weight, Chosen
  <2> HIDE DEF Body, w
  <2> QED
    BY <2>2 DEF Sums
<1> HIDE DEF Body, w, D
<1>3. \E T : T = [t \in SUBSET D |-> Body(T, t)]
  BY <1>0, <1>2, SumsExist
<1>4. F = [t \in SUBSET D |-> Body(F, t)]
  BY <1>3
<1> HIDE DEF F
<1> QED
  BY <1>1, <1>2, <1>4 DEF D, w

\* Every flow has a size.
Weighed(r) == \A f \in Flows : FlowBytes(r[f]) \in Nat

LEMMA WeightFacts ==
    ASSUME NEW r, NEW s \in Seq(Flows), Weighed(r)
    PROVE  /\ IsFiniteSet(DOMAIN s)
           /\ \A i \in DOMAIN s : Weight(r, s)[i] = FlowBytes(r[s[i]])
           /\ \A i \in DOMAIN s : Weight(r, s)[i] \in Nat
<1>1. IsFiniteSet(DOMAIN s)
  BY FS_Interval, LenProperties
<1> QED
  BY <1>1 DEF Weighed, Weight

\* What the fold computes on its way: the sum for every part of the sequence.
PartsOf(T, r, s) ==
    /\ Sums(T, Weight(r, s), DOMAIN s)
    /\ SumBytes(r, s) = T[DOMAIN s]
    /\ \A t \in SUBSET (DOMAIN s) : T[t] \in Nat
    /\ \A t \in SUBSET (DOMAIN s) : \A x \in t : T[t] = FlowBytes(r[s[x]]) + T[t \ {x}]

LEMMA SumBytesParts ==
    ASSUME NEW r, NEW s \in Seq(Flows), Weighed(r)
    PROVE  \E T : PartsOf(T, r, s)
<1>1. PICK T : Sums(T, Weight(r, s), DOMAIN s) /\ SumBytes(r, s) = T[DOMAIN s]
  BY SumBytesIs
<1>2. PICK w : w = Weight(r, s)
  OBVIOUS
<1>3. PICK D : D = DOMAIN s
  OBVIOUS
<1>4. Sums(T, w, D) /\ IsFiniteSet(D) /\ \A x \in D : w[x] \in Nat
  BY <1>1, <1>2, <1>3, WeightFacts
<1>5. \A t \in SUBSET D : T[t] \in Nat
  BY <1>4, SumsNat
<1>6. \A t \in SUBSET D : \A x \in t : T[t] = w[x] + T[t \ {x}]
  <2>1. AnyOrder(T, w, D)
    BY <1>4, SumsAnyOrder
  <2> QED
    BY <2>1 DEF AnyOrder
<1>7. \A x \in D : w[x] = FlowBytes(r[s[x]])
  BY <1>2, <1>3, WeightFacts
<1>8. \A t \in SUBSET D : \A x \in t : T[t] = FlowBytes(r[s[x]]) + T[t \ {x}]
  BY <1>6, <1>7
<1>9. PartsOf(T, r, s)
  BY <1>1, <1>3, <1>5, <1>8 DEF PartsOf
<1> QED
  BY <1>9

LEMMA SumBytesNat ==
    ASSUME NEW r, NEW s \in Seq(Flows), Weighed(r)
    PROVE  SumBytes(r, s) \in Nat
<1>1. PICK T : PartsOf(T, r, s)
  BY SumBytesParts
<1> QED
  BY <1>1 DEF PartsOf

LEMMA SumBytesEmpty ==
    ASSUME NEW r
    PROVE  SumBytes(r, <<>>) = 0
<1>1. <<>> \in Seq(Flows) /\ DOMAIN <<>> = {}
  BY EmptySeq, LenProperties
<1>2. PICK T : Sums(T, Weight(r, <<>>), {}) /\ SumBytes(r, <<>>) = T[{}]
  BY <1>1, SumBytesIs
<1> QED
  BY <1>2, SumsStep

LEMMA SumBytesAppend ==
    ASSUME NEW r, NEW s \in Seq(Flows), NEW f \in Flows, Weighed(r)
    PROVE  SumBytes(r, Append(s, f)) = SumBytes(r, s) + FlowBytes(r[f])
<1>1. PICK q \in Seq(Flows) : /\ q = Append(s, f) /\ Len(q) = Len(s) + 1
                              /\ \A i \in 1..Len(s) : q[i] = s[i]
                              /\ q[Len(s) + 1] = f
  BY AppendProperties
<1>2. /\ Len(s) \in Nat /\ DOMAIN s = 1..Len(s) /\ DOMAIN q = 1..(Len(s) + 1)
      /\ DOMAIN q \ {Len(s) + 1} = DOMAIN s /\ Len(s) + 1 \in DOMAIN q
      /\ DOMAIN s \in SUBSET (DOMAIN s \cap DOMAIN q)
  <2>1. Len(s) \in Nat /\ DOMAIN s = 1..Len(s) /\ DOMAIN q = 1..(Len(s) + 1)
    BY <1>1, LenProperties
  <2> QED
    BY <2>1
<1>3. PICK T : Sums(T, Weight(r, s), DOMAIN s) /\ SumBytes(r, s) = T[DOMAIN s]
  BY SumBytesIs
<1>4. PICK U : PartsOf(U, r, q)
  BY SumBytesParts
<1>5. U[DOMAIN q] = FlowBytes(r[q[Len(s) + 1]]) + U[DOMAIN q \ {Len(s) + 1}]
  BY <1>2, <1>4 DEF PartsOf
<1>6. U[DOMAIN q] = FlowBytes(r[f]) + U[DOMAIN s]
  BY <1>1, <1>2, <1>5
<1>7. \A x \in DOMAIN s : Weight(r, s)[x] = Weight(r, q)[x]
  <2>1. \A x \in DOMAIN s : q[x] = s[x] /\ x \in DOMAIN q
    BY <1>1, <1>2
  <2> QED
    BY <2>1 DEF Weight
<1>8. T[DOMAIN s] = U[DOMAIN s]
  <2>1. IsFiniteSet(DOMAIN s) /\ Sums(U, Weight(r, q), DOMAIN q)
    BY <1>4, WeightFacts DEF PartsOf
  <2>2. PICK D : D = DOMAIN s
    OBVIOUS
  <2>3. D \in SUBSET (DOMAIN s \cap DOMAIN q) /\ IsFiniteSet(D)
    BY <1>2, <2>1, <2>2
  <2>4. \A t \in SUBSET D : T[t] = U[t]
    BY ONLY <2>1, <2>2, <2>3, <1>3, <1>7, SumsAgree
  <2> QED
    BY <2>2, <2>4
<1>9. SumBytes(r, q) = FlowBytes(r[f]) + SumBytes(r, s)
  BY <1>3, <1>4, <1>6, <1>8 DEF PartsOf
<1>10. FlowBytes(r[f]) \in Nat /\ SumBytes(r, s) \in Nat
  BY SumBytesNat DEF Weighed
<1> QED
  BY <1>1, <1>9, <1>10

LEMMA SumBytesConcat ==
    ASSUME NEW r, NEW a \in Seq(Flows), NEW b \in Seq(Flows), Weighed(r)
    PROVE  SumBytes(r, a \o b) = SumBytes(r, a) + SumBytes(r, b)
<1> DEFINE P == {q \in Seq(Flows) : SumBytes(r, a \o q) = SumBytes(r, a) + SumBytes(r, q)}
<1>1. <<>> \in P
  <2>1. <<>> \in Seq(Flows) /\ a \o <<>> = a
    BY EmptySeq, ConcatEmptySeq
  <2> QED
    BY <2>1, SumBytesNat, SumBytesEmpty
<1>2. ASSUME NEW q \in Seq(Flows), NEW e \in Flows, q \in P PROVE Append(q, e) \in P
  <2>1. /\ Append(q, e) \in Seq(Flows) /\ a \o q \in Seq(Flows)
        /\ a \o Append(q, e) = Append(a \o q, e)
    <3>1. <<e>> \in Seq(Flows) /\ a \o q \in Seq(Flows)
      BY Singleton, ConcatProperties
    <3>2. (a \o q) \o <<e>> = a \o (q \o <<e>>)
      BY <3>1, ConcatAssociative
    <3>3. Append(q, e) = q \o <<e>> /\ Append(a \o q, e) = (a \o q) \o <<e>>
      BY <3>1, AppendIsConcat
    <3> QED
      BY <3>1, <3>2, <3>3, AppendProperties
  <2>2. SumBytes(r, Append(a \o q, e)) = SumBytes(r, a \o q) + FlowBytes(r[e])
    BY <2>1, SumBytesAppend
  <2>3. SumBytes(r, Append(q, e)) = SumBytes(r, q) + FlowBytes(r[e])
    BY SumBytesAppend
  <2>4. SumBytes(r, a \o q) = SumBytes(r, a) + SumBytes(r, q)
    BY <1>2
  <2>5. SumBytes(r, a) \in Nat /\ SumBytes(r, q) \in Nat /\ FlowBytes(r[e]) \in Nat
    BY SumBytesNat DEF Weighed
  <2>6. SumBytes(r, a \o Append(q, e)) = SumBytes(r, a) + SumBytes(r, Append(q, e))
    BY <2>1, <2>2, <2>3, <2>4, <2>5
  <2> QED
    BY <2>1, <2>6
<1>3. Seq(Flows) \subseteq P
  <2> HIDE DEF P
  <2> QED
    BY <1>1, <1>2, SeqInduction
<1> QED
  BY <1>3

\* Only the sizes of the flows in the sequence count.
LEMMA SumBytesSame ==
    ASSUME NEW r, NEW n, NEW s \in Seq(Flows), Weighed(r), Weighed(n),
           \A f \in Range(s) : FlowBytes(n[f]) = FlowBytes(r[f])
    PROVE  SumBytes(n, s) = SumBytes(r, s)
<1>1. PICK T : Sums(T, Weight(r, s), DOMAIN s) /\ SumBytes(r, s) = T[DOMAIN s]
  BY SumBytesIs
<1>2. PICK U : Sums(U, Weight(n, s), DOMAIN s) /\ SumBytes(n, s) = U[DOMAIN s]
  BY SumBytesIs
<1>3. \A x \in DOMAIN s : Weight(r, s)[x] = Weight(n, s)[x]
  BY WeightFacts DEF Range
<1>4. DOMAIN s \in SUBSET (DOMAIN s \cap DOMAIN s) /\ IsFiniteSet(DOMAIN s)
  BY WeightFacts
<1>5. \A t \in SUBSET (DOMAIN s) : T[t] = U[t]
  BY <1>1, <1>2, <1>3, <1>4, SumsAgree
<1> QED
  BY <1>1, <1>2, <1>5

\* When one of them changes its size, so does the sum.
LEMMA SumBytesChange ==
    ASSUME NEW r, NEW n, NEW s \in Seq(Flows), Weighed(r), Weighed(n), IsInjective(s),
           NEW f \in Range(s), \A g \in Flows \ {f} : FlowBytes(n[g]) = FlowBytes(r[g])
    PROVE  SumBytes(n, s) = SumBytes(r, s) + FlowBytes(n[f]) - FlowBytes(r[f])
<1>1. PICK T : PartsOf(T, r, s)
  BY SumBytesParts
<1>2. PICK U : PartsOf(U, n, s)
  BY SumBytesParts
<1>3. PICK i \in DOMAIN s : s[i] = f
  BY DEF Range
<1>4. PICK W \in SUBSET (DOMAIN s) : W = DOMAIN s \ {i}
  OBVIOUS
<1>5. \A x \in W : s[x] \in Flows \ {f}
  BY <1>3, <1>4, LenProperties DEF IsInjective
<1>6. \A x \in W : Weight(r, s)[x] = Weight(n, s)[x]
  BY <1>5, WeightFacts
<1>7. W \in SUBSET (DOMAIN s \cap DOMAIN s) /\ IsFiniteSet(W)
  BY <1>4, WeightFacts, FS_Subset
<1>8. T[W] = U[W]
  <2>1. Sums(T, Weight(r, s), DOMAIN s) /\ Sums(U, Weight(n, s), DOMAIN s)
    BY <1>1, <1>2 DEF PartsOf
  <2>2. \A t \in SUBSET W : T[t] = U[t]
    BY ONLY <2>1, <1>6, <1>7, SumsAgree
  <2> QED
    BY <2>2
<1>9. DOMAIN s \in SUBSET (DOMAIN s)
  OBVIOUS
<1>10. T[DOMAIN s] = FlowBytes(r[s[i]]) + T[W] /\ U[DOMAIN s] = FlowBytes(n[s[i]]) + U[W]
  BY <1>1, <1>2, <1>3, <1>4, <1>9 DEF PartsOf
<1>11. T[DOMAIN s] = FlowBytes(r[f]) + T[W] /\ U[DOMAIN s] = FlowBytes(n[f]) + T[W]
  BY <1>3, <1>8, <1>10
<1>12. f \in Flows
  BY <1>3, LenProperties
<1>13. FlowBytes(r[f]) \in Nat /\ FlowBytes(n[f]) \in Nat
  BY <1>12 DEF Weighed
<1>14. T[W] \in Nat
  BY <1>1, <1>4 DEF PartsOf
<1> QED
  BY <1>1, <1>2, <1>11, <1>13, <1>14 DEF PartsOf

\* Removing one takes its size away.
LEMMA SumBytesRemove ==
    ASSUME NEW r, NEW s \in Seq(Flows), Weighed(r), NEW i \in DOMAIN s
    PROVE  SumBytes(r, RemoveAt(s, i)) = SumBytes(r, s) - FlowBytes(r[s[i]])
<1>1. Len(s) \in Nat /\ i \in 1..Len(s) /\ s[i] \in Flows
  BY LenProperties
<1>2. PICK a : a = SubSeq(s, 1, i - 1)
  OBVIOUS
<1>3. PICK b : b = SubSeq(s, i + 1, Len(s))
  OBVIOUS
<1>4. PICK c : c = SubSeq(s, 1, i)
  OBVIOUS
<1>5. \A k \in 1..Len(s) : s[k] \in Flows
  BY LenProperties
<1>6. a \in Seq(Flows) /\ b \in Seq(Flows) /\ c \in Seq(Flows)
  BY <1>1, <1>2, <1>3, <1>4, <1>5, SubSeqProperties
<1>7. c = a \o <<s[i]>>
  <2>1. 1 \in 1..Len(s) /\ i \in 1..Len(s)
    BY <1>1
  <2> QED
    BY ONLY <2>1, <1>2, <1>4, SubSeqRecursiveSecond, s \in Seq(Flows)
<1>8. c = Append(a, s[i])
  BY <1>1, <1>6, <1>7, AppendIsConcat
<1>9. s = c \o b
  <2>1. 1 \in 1..(Len(s) + 1) /\ i \in (1 - 1)..Len(s) /\ Len(s) \in i..Len(s)
    BY <1>1
  <2>2. c \o b = SubSeq(s, 1, Len(s))
    BY ONLY <2>1, <1>3, <1>4, ConcatAdjacentSubSeq, s \in Seq(Flows)
  <2> QED
    BY <2>2, SubSeqFull
<1>10. RemoveAt(s, i) = a \o b
  BY <1>2, <1>3 DEF RemoveAt
<1>11. SumBytes(r, c) = SumBytes(r, a) + FlowBytes(r[s[i]])
  BY ONLY <1>1, <1>6, <1>8, SumBytesAppend, Weighed(r)
<1>12. SumBytes(r, s) = SumBytes(r, c) + SumBytes(r, b)
  BY ONLY <1>6, <1>9, SumBytesConcat, Weighed(r)
<1>13. SumBytes(r, RemoveAt(s, i)) = SumBytes(r, a) + SumBytes(r, b)
  BY ONLY <1>6, <1>10, SumBytesConcat, Weighed(r)
<1>14. SumBytes(r, a) \in Nat /\ SumBytes(r, b) \in Nat /\ FlowBytes(r[s[i]]) \in Nat
  BY <1>1, <1>6, SumBytesNat DEF Weighed
<1> QED
  BY ONLY <1>11, <1>12, <1>13, <1>14

\* The sum of what is left is the sum less what was dropped.
LEMMA SumBytesSplit ==
    ASSUME NEW r, NEW s \in Seq(Flows), Weighed(r), NEW d \in 0..Len(s)
    PROVE  /\ SubSeq(s, d + 1, Len(s)) \in Seq(Flows)
           /\ SumBytes(r, SubSeq(s, d + 1, Len(s))) = SumBytes(r, s) - SumBytes(r, SubSeq(s, 1, d))
<1>1. /\ Len(s) \in Nat /\ 1 \in 1..(Len(s) + 1) /\ d \in (1 - 1)..Len(s) /\ Len(s) \in d..Len(s)
      /\ d + 1 \in Int /\ d \in Int /\ \A k \in 1..Len(s) : s[k] \in Flows
  <2>1. Len(s) \in Nat
    BY LenProperties
  <2> QED
    BY <2>1, LenProperties
<1>2. PICK a : a = SubSeq(s, 1, d)
  OBVIOUS
<1>3. PICK b : b = SubSeq(s, d + 1, Len(s))
  OBVIOUS
<1>4. a \in Seq(Flows) /\ b \in Seq(Flows)
  BY <1>1, <1>2, <1>3, SubSeqProperties
<1>5. s = a \o b
  <2>1. a \o b = SubSeq(s, 1, Len(s))
    BY ONLY <1>1, <1>2, <1>3, ConcatAdjacentSubSeq, s \in Seq(Flows)
  <2> QED
    BY <2>1, SubSeqFull
<1>6. SumBytes(r, s) = SumBytes(r, a) + SumBytes(r, b)
  BY ONLY <1>4, <1>5, SumBytesConcat, Weighed(r)
<1>7. SumBytes(r, a) \in Nat /\ SumBytes(r, b) \in Nat
  BY <1>4, SumBytesNat
<1> QED
  BY ONLY <1>2, <1>3, <1>4, <1>6, <1>7

LEMMA RecWeighed ==
    ASSUME NEW r \in [Flows -> Fields]
    PROVE  Weighed(r)
<1>1. ASSUME NEW f \in Flows PROVE FlowBytes(r[f]) \in Nat
  <2>0. r[f] \in Fields
    OBVIOUS
  <2>1. r[f].req \in Sizes /\ r[f].resp \in Sizes \cup {0}
    BY <2>0 DEF Fields
  <2>2. r[f].req \in Nat /\ r[f].resp \in Nat
    <3>1. Sizes \subseteq Nat /\ Sizes \cup {0} \subseteq Nat
      BY SizesAssumption
    <3> QED
      BY <2>1, <3>1, Zenon
  <2> QED
    BY <2>2 DEF FlowBytes
<1> QED
  BY <1>1 DEF Weighed

\* The flow added counts, and those evicted do not any more.
LEMMA AddExact ==
    ASSUME StoreInv, StoreInv', BytesExact, NEW f \in Flows, Add(f)
    PROVE  BytesExact' /\ EvictsOnlyAsNeeded
<1>1. /\ flows \in Seq(Flows) /\ flows' \in Seq(Flows) /\ Weighed(rec) /\ Weighed(rec')
      /\ rec \in [Flows -> Fields] /\ FlowBytes(rec[f]) \in Nat
  BY RecWeighed DEF StoreInv, Shape, Weighed
<1>2. PICK all \in Seq(Flows) : all = Append(flows, f) /\ Len(all) = Len(flows) + 1
  BY <1>1, AppendProperties
<1>3. PICK total : total = bytes + FlowBytes(rec[f])
  OBVIOUS
<1>4. PICK d \in 0..Len(flows) :
         /\ \A e \in 0..(d - 1) : ~Enough(rec, all, total, e)
         /\ flows' = SubSeq(all, d + 1, Len(all))
         /\ bytes' = total - SumBytes(rec, SubSeq(all, 1, d))
         /\ rec' = [g \in Flows |->
                        IF g = f THEN [rec[f] EXCEPT !.id = nextID + 1, !.stored = TRUE]
                        ELSE [rec[g] EXCEPT !.stored = @ /\ g \in Range(flows')]]
  BY <1>2, <1>3 DEF Add
<1>5. total = SumBytes(rec, all)
  BY <1>1, <1>2, <1>3, SumBytesAppend DEF BytesExact
<1>6. Len(flows) \in Nat /\ d \in Nat /\ d <= Len(flows) /\ d \in 0..Len(all)
  BY <1>1, <1>2, LenProperties
<1>7. bytes' = SumBytes(rec, flows')
  <2>1. SumBytes(rec, SubSeq(all, d + 1, Len(all))) = SumBytes(rec, all) - SumBytes(rec, SubSeq(all, 1, d))
    BY <1>1, <1>6, SumBytesSplit
  <2> QED
    BY <1>4, <1>5, <2>1
<1>8. ASSUME NEW g \in Flows PROVE FlowBytes(rec'[g]) = FlowBytes(rec[g])
  <2>1. rec[g] \in Fields
    BY <1>1
  <2>2. \/ rec'[g] = [rec[f] EXCEPT !.id = nextID + 1, !.stored = TRUE] /\ g = f
        \/ rec'[g] = [rec[g] EXCEPT !.stored = @ /\ g \in Range(flows')]
    BY <1>4
  <2> QED
    BY <2>1, <2>2 DEF Fields, FlowBytes
<1>9. SumBytes(rec', flows') = SumBytes(rec, flows')
  <2>1. Range(flows') \subseteq Flows
    BY <1>1 DEF Range
  <2>2. \A g \in Range(flows') : FlowBytes(rec'[g]) = FlowBytes(rec[g])
    BY <1>8, <2>1
  <2> QED
    BY <1>1, <2>2, SumBytesSame
<1>10. EvictsOnlyAsNeeded
  <2> SUFFICES ASSUME NEW g \in Flows, ~Created(g), rec'[g].stored
               PROVE  LET k == Len(Append(flows, g)) - Len(flows')
                          kept == SubSeq(Append(flows, g), k, Len(Append(flows, g)))
                      IN  /\ flows' = SubSeq(Append(flows, g), k + 1, Len(Append(flows, g)))
                          /\ k > 0 => Len(kept) > MaxFlows \/ SumBytes(rec, kept) > MaxFlowBytes
    BY DEF EvictsOnlyAsNeeded
  <2>1. g = f
    <3>1. CASE g # f
      <4>1. rec'[g] = [rec[g] EXCEPT !.stored = @ /\ g \in Range(flows')] /\ rec[g] \in Fields
        BY <1>1, <1>4, <3>1
      <4>2. rec[g].stored
        BY <4>1 DEF Fields
      <4>3. g \in Range(flows)
        BY <4>2 DEF StoreInv, StoredIsHeld
      <4> QED
        BY <4>3 DEF StoreInv, Numbering, Created
    <3> QED
      BY <3>1
  <2>2. Len(flows') = Len(all) - d
    BY ONLY <1>2, <1>4, <1>6, SuffixProperties
  <2>3. Len(all) - Len(flows') = d
    BY <1>2, <1>6, <2>2
  <2>4. ASSUME d > 0
        PROVE  Len(SubSeq(all, d, Len(all))) > MaxFlows \/ SumBytes(rec, SubSeq(all, d, Len(all))) > MaxFlowBytes
    <3>1. PICK e \in 0..Len(all) : e = d - 1 /\ e + 1 = d /\ e \in 0..(d - 1) /\ e # Len(all) - 1
      BY <1>2, <1>6, <2>4
    <3>2. Len(SubSeq(all, d, Len(all))) = Len(all) - e
      BY ONLY <1>2, <3>1, SuffixProperties
    <3>3. SumBytes(rec, SubSeq(all, d, Len(all))) = total - SumBytes(rec, SubSeq(all, 1, e))
      <4>1. SumBytes(rec, SubSeq(all, e + 1, Len(all))) = SumBytes(rec, all) - SumBytes(rec, SubSeq(all, 1, e))
        BY <1>1, SumBytesSplit
      <4> QED
        BY <1>5, <3>1, <4>1
    <3>4. ~(Len(all) - e <= MaxFlows /\ total - SumBytes(rec, SubSeq(all, 1, e)) <= MaxFlowBytes)
      BY <1>4, <3>1 DEF Enough
    <3>5. /\ Len(all) - e \in Int
          /\ total - SumBytes(rec, SubSeq(all, 1, e)) \in Int
      <4>1. PICK a \in Seq(Flows) : a = SubSeq(all, 1, e)
        <5>1. 1 \in Int /\ e \in Int /\ \A i \in 1..e : all[i] \in Flows
          BY <1>2, <1>6, <3>1, LenProperties
        <5>2. SubSeq(all, 1, e) \in Seq(Flows)
          BY ONLY <5>1, SubSeqProperties
        <5> QED
          BY <5>2
      <4>2. SumBytes(rec, a) \in Nat /\ SumBytes(rec, all) \in Nat
        BY <1>1, SumBytesNat
      <4> QED
        BY <1>2, <1>5, <1>6, <3>1, <4>1, <4>2
    <3> QED
      BY <3>2, <3>3, <3>4, <3>5, LimitsAssumption
  <2> QED
    BY <1>2, <1>4, <2>1, <2>3, <2>4
<1> QED
  BY <1>7, <1>9, <1>10 DEF BytesExact

\* A step that stores no flow anew has nothing to show about eviction.
LEMMA NothingEvicted ==
    ASSUME StoreInv, \A f \in Flows : rec'[f].stored => rec[f].stored
    PROVE  EvictsOnlyAsNeeded
<1>1. \A f \in Flows : ~Created(f) => ~rec'[f].stored
  BY DEF StoreInv, StoredIsHeld, Numbering, Created
<1> QED
  BY <1>1 DEF EvictsOnlyAsNeeded

\* An update counts the difference if the flow is held, and nothing otherwise.
LEMMA UpdateExact ==
    ASSUME StoreInv, BytesExact, NEW f \in Flows, NEW r \in Fields, r.stored = rec[f].stored,
           Update(f, r)
    PROVE  BytesExact' /\ EvictsOnlyAsNeeded
<1>1. /\ flows \in Seq(Flows) /\ rec \in [Flows -> Fields] /\ rec' \in [Flows -> Fields]
      /\ rec'[f] = r /\ \A g \in Flows \ {f} : rec'[g] = rec[g]
      /\ flows' = flows /\ IsInjective(flows)
  BY DEF StoreInv, Shape, Update, StoredIsHeld
<1>2. Weighed(rec) /\ Weighed(rec')
  BY <1>1, RecWeighed
<1>3. \A g \in Flows \ {f} : FlowBytes(rec'[g]) = FlowBytes(rec[g])
  BY <1>1
<1>4. CASE rec[f].stored
  <2>1. f \in Range(flows)
    BY <1>4 DEF StoreInv, StoredIsHeld
  <2>2. SumBytes(rec', flows) = SumBytes(rec, flows) + FlowBytes(rec'[f]) - FlowBytes(rec[f])
    BY ONLY <1>1, <1>2, <1>3, <2>1, SumBytesChange
  <2> QED
    BY <1>1, <1>4, <2>2, NothingEvicted DEF BytesExact, Update
<1>5. CASE ~rec[f].stored
  <2>1. f \notin Range(flows) /\ Range(flows) \subseteq Flows
    BY <1>1, <1>5, RangeIn DEF StoreInv, StoredIsHeld
  <2>2. \A g \in Range(flows) : FlowBytes(rec'[g]) = FlowBytes(rec[g])
    BY <1>3, <2>1
  <2>3. SumBytes(rec', flows) = SumBytes(rec, flows)
    BY ONLY <1>1, <1>2, <2>2, SumBytesSame
  <2> QED
    BY <1>1, <1>5, <2>3, NothingEvicted DEF BytesExact, Update
<1> QED
  BY <1>4, <1>5

\* A step that keeps the flows held, their sizes and the total.
LEMMA SizesKept ==
    ASSUME StoreInv, BytesExact, bytes' = bytes, flows' = flows, rec' \in [Flows -> Fields],
           \A f \in Flows : FlowBytes(rec'[f]) = FlowBytes(rec[f]) /\ (rec'[f].stored => rec[f].stored)
    PROVE  BytesExact' /\ EvictsOnlyAsNeeded
<1>1. flows \in Seq(Flows) /\ Weighed(rec) /\ Weighed(rec') /\ Range(flows) \subseteq Flows
  BY RecWeighed, RangeIn DEF StoreInv, Shape
<1>2. SumBytes(rec', flows) = SumBytes(rec, flows)
  BY <1>1, SumBytesSame
<1> QED
  BY <1>2, NothingEvicted DEF BytesExact

LEMMA DeleteExact ==
    ASSUME StoreInv, BytesExact, NEW id, Delete(id)
    PROVE  BytesExact' /\ EvictsOnlyAsNeeded
<1>0. flows \in Seq(Flows) /\ rec \in [Flows -> Fields] /\ IsInjective(flows)
  BY DEF StoreInv, Shape, StoredIsHeld
<1>1. CASE UNCHANGED <<rec, bytes, flows>>
  BY <1>0, <1>1, SizesKept
<1>2. ASSUME NEW i \in DOMAIN flows,
             rec' = [rec EXCEPT ![flows[i]].stored = FALSE],
             bytes' = bytes - FlowBytes(rec[flows[i]]),
             flows' = RemoveAt(flows, i)
      PROVE  BytesExact' /\ EvictsOnlyAsNeeded
  <2>1. i \in 1..Len(flows) /\ flows[i] \in Flows
    BY <1>0, LenProperties
  <2>2. ASSUME NEW f \in Flows
        PROVE  /\ rec'[f] \in Fields /\ FlowBytes(rec'[f]) = FlowBytes(rec[f])
               /\ rec'[f].stored => rec[f].stored
    <3>1. rec[f] \in Fields
      BY <1>0
    <3>2. rec'[f] = rec[f] \/ rec'[f] = [rec[f] EXCEPT !.stored = FALSE]
      BY <1>0, <1>2
    <3> QED
      BY <3>1, <3>2 DEF Fields, FlowBytes
  <2>3. rec' \in [Flows -> Fields]
    BY <1>0, <1>2, <2>2
  <2>4. Weighed(rec) /\ Weighed(rec') /\ flows' \in Seq(Flows)
    BY <1>0, <1>2, <2>1, <2>3, RecWeighed, RemoveAtProperties
  <2>5. SumBytes(rec, flows') = SumBytes(rec, flows) - FlowBytes(rec[flows[i]])
    BY <1>0, <1>2, <2>4, SumBytesRemove
  <2>6. Range(flows') \subseteq Flows
    BY <2>4 DEF Range
  <2>7. SumBytes(rec', flows') = SumBytes(rec, flows')
    BY <2>2, <2>4, <2>6, SumBytesSame
  <2>8. EvictsOnlyAsNeeded
    BY <2>2, NothingEvicted
  <2> QED
    BY <1>2, <2>5, <2>7, <2>8 DEF BytesExact
<1> QED
  BY <1>1, <1>2 DEF Delete

LEMMA StepExact ==
    ASSUME StoreInv, StoreInv', BytesExact, [StoreNext]_storeVars
    PROVE  BytesExact' /\ EvictsOnlyAsNeeded
<1>0. rec \in [Flows -> Fields] /\ rec' \in [Flows -> Fields] /\ \A f \in Flows : rec[f] \in Fields
  BY DEF StoreInv, Shape
<1>1. ASSUME NEW f \in Flows, Add(f) PROVE BytesExact' /\ EvictsOnlyAsNeeded
  BY <1>1, AddExact
<1>2. ASSUME NEW f \in Flows, NEW s \in Sizes \ {0}, NEW ends \in BOOLEAN, Respond(f, s, ends)
      PROVE  BytesExact' /\ EvictsOnlyAsNeeded
  <2>0. rec[f] \in Fields
    BY <1>0
  <2>1. /\ [rec[f] EXCEPT !.resp = s, !.ended = @ \/ ends] \in Fields
        /\ [rec[f] EXCEPT !.resp = s, !.ended = @ \/ ends].stored = rec[f].stored
    BY <2>0 DEF Fields
  <2> QED
    BY <1>2, <2>1, UpdateExact DEF Respond
<1>3. ASSUME NEW f \in Flows, End(f) PROVE BytesExact' /\ EvictsOnlyAsNeeded
  <2>0. rec[f] \in Fields
    BY <1>0
  <2>1. /\ [rec[f] EXCEPT !.ended = TRUE] \in Fields
        /\ [rec[f] EXCEPT !.ended = TRUE].stored = rec[f].stored
    BY <2>0 DEF Fields
  <2> QED
    BY <1>3, <2>1, UpdateExact DEF End
<1>4. ASSUME NEW f \in Flows, CloseTunnel(f) PROVE BytesExact' /\ EvictsOnlyAsNeeded
  <2>0. rec[f] \in Fields
    BY <1>0
  <2>1. /\ [rec[f] EXCEPT !.closed = TRUE] \in Fields
        /\ [rec[f] EXCEPT !.closed = TRUE].stored = rec[f].stored
    BY <2>0 DEF Fields
  <2> QED
    BY <1>4, <2>1, UpdateExact DEF CloseTunnel
<1>5. CASE Clear
  <2>1. \A f \in Flows : ~rec'[f].stored
    BY <1>0, <1>5 DEF Clear, Fields
  <2>2. EvictsOnlyAsNeeded
    BY <2>1, NothingEvicted
  <2> QED
    BY <1>5, <2>2, SumBytesEmpty DEF Clear, BytesExact
<1>6. ASSUME NEW id, Delete(id) PROVE BytesExact' /\ EvictsOnlyAsNeeded
  BY <1>6, DeleteExact
<1>7. ASSUME NEW id, SetAnnotation(id, "red") PROVE BytesExact' /\ EvictsOnlyAsNeeded
  <2>1. ASSUME NEW f \in Flows
        PROVE  FlowBytes(rec'[f]) = FlowBytes(rec[f]) /\ (rec'[f].stored => rec[f].stored)
    <3>1. rec'[f] = rec[f] \/ rec'[f] = [rec[f] EXCEPT !.note = "red"]
      BY <1>7 DEF SetAnnotation
    <3> QED
      BY <1>0, <3>1 DEF Fields, FlowBytes
  <2> QED
    BY <1>0, <1>7, <2>1, SizesKept DEF SetAnnotation
<1>8. CASE MarkAllEnded
  <2>1. ASSUME NEW f \in Flows
        PROVE  FlowBytes(rec'[f]) = FlowBytes(rec[f]) /\ (rec'[f].stored => rec[f].stored)
    <3>1. rec'[f] = rec[f] \/ rec'[f] = [rec[f] EXCEPT !.ended = TRUE]
      BY <1>8 DEF MarkAllEnded
    <3> QED
      BY <1>0, <3>1 DEF Fields, FlowBytes
  <2> QED
    BY <1>0, <1>8, <2>1, SizesKept DEF MarkAllEnded
<1>9. CASE SnapshotMeta
  BY <1>0, <1>9, SizesKept DEF SnapshotMeta
<1>10. CASE UNCHANGED storeVars
  BY <1>0, <1>10, SizesKept DEF storeVars
<1> QED
  BY <1>1, <1>2, <1>3, <1>4, <1>5, <1>6, <1>7, <1>8, <1>9, <1>10 DEF StoreNext, Proxy, UserEdit

\* Store.bytes is the sum of the bodies held, after any calls.
THEOREM TotalExact == StoreSpec => []BytesExact
<1>1. StoreInit => BytesExact
  BY SumBytesEmpty DEF StoreInit, BytesExact
<1>2. StoreInv /\ StoreInv' /\ BytesExact /\ [StoreNext]_storeVars => BytesExact'
  BY StepExact
<1> QED
  BY <1>1, <1>2, StoreInvariance, PTL DEF StoreSpec

MetaFlag == meta.valid \in BOOLEAN

\* The variables keep their types; above all Store.bytes never goes below zero.
THEOREM StoreTypesKept == StoreSpec => []StoreTypeOK
<1>1. StoreInv /\ BytesExact => bytes \in Nat
  BY RecWeighed, SumBytesNat DEF StoreInv, Shape, BytesExact
<1>2. StoreSpec => []MetaFlag
  <2>1. StoreInit => MetaFlag
    BY DEF StoreInit, MetaFlag
  <2>2. MetaFlag /\ [StoreNext]_storeVars => MetaFlag'
    <3> SUFFICES ASSUME MetaFlag, [StoreNext]_storeVars PROVE MetaFlag'
      OBVIOUS
    <3> USE DEF MetaFlag
    <3>1. CASE SnapshotMeta
      BY <3>1 DEF SnapshotMeta
    <3>2. CASE meta' = meta
      BY <3>2
    <3> QED
      BY <3>1, <3>2 DEF StoreNext, Proxy, Add, Respond, End, CloseTunnel, Update, UserEdit, Clear,
                        Delete, SetAnnotation, MarkAllEnded, storeVars
  <2> QED
    BY <2>1, <2>2, PTL DEF StoreSpec
<1>3. StoreInv /\ BytesExact /\ MetaFlag => StoreTypeOK
  BY <1>1 DEF StoreInv, Shape, StoreTypeOK, MetaFlag
<1> QED
  BY <1>1, <1>2, <1>3, StoreInvariance, TotalExact, PTL

\* flow.go: Add, Update, Delete and Clear keep the running total exact, and Add goes by it
\* and by the number of flows: it drops a flow only when one of the limits demands it.
THEOREM EvictsExactly == StoreSpec => EvictionExact
<1>1. StoreInv /\ StoreInv' /\ BytesExact /\ [StoreNext]_storeVars => [BytesExact' /\ EvictsOnlyAsNeeded]_storeVars
  BY StepExact
<1> QED
  BY <1>1, StoreInvariance, TotalExact, PTL DEF StoreSpec, EvictionExact

-----------------------------------------------------------------------------
(* The proxy: the inductive invariant.                                     *)

Labels == {"none", "start", "request", "next", "body", "heldreq", "heldresp", "round", "reply",
           "refuse", "dial", "dialed", "answer", "bridge", "tls", "upgrade", "pump", "exit",
           "leave", "done"}

\* TypeOK, but for the counter.
Types ==
    /\ running \in BOOLEAN
    /\ listener \in {"none", "open"}
    /\ serve \in {"off", "accept", "spawn"}
    /\ serving \subseteq Conns
    /\ conns \subseteq Sockets
    /\ ui \in {"idle", "take", "close", "wait"}
    /\ list \subseteq Sockets
    /\ pc \in [Conns -> Labels]
    /\ kind \in [Conns -> {"http", "tunnel", "mitm"}]
    /\ open \subseteq Sockets
    /\ gone \subseteq Sockets
    /\ flow \in [Conns -> {"none", "live", "ended"}]
    /\ tunnel \in [Conns -> {"none", "open", "closed"}]

AliveConns == {k \in Conns : Alive(k)}

\* Finitely many goroutines run at any time, and each of them is counted.
Counted == IsFiniteSet(AliveConns) /\ WaitGroupExact

\* The accept loop holds one new connection, between Accept and go handleConn.
Accepting ==
    /\ serve # "spawn" => serving = {}
    /\ serve = "spawn" => \E k \in Conns : serving = {k} /\ pc[k] = "none"

\* What belongs to a connection that no goroutine serves: nothing, but the socket that
\* was just accepted.
NothingOf(k) ==
    /\ Client(k) \in open => k \in serving /\ pc[k] = "none"
    /\ Upstream(k) \notin open
    /\ Client(k) \notin conns /\ Upstream(k) \notin conns
    /\ flow[k] # "live" /\ tunnel[k] # "open"

\* What is left of it when its handler has returned, and where Stop can reach it.
Owned(k) ==
    /\ ~Alive(k) => NothingOf(k)
    /\ pc[k] = "leave" => /\ Upstream(k) \notin open /\ Upstream(k) \notin conns
                          /\ flow[k] # "live" /\ tunnel[k] # "open"
    /\ ui \in {"idle", "take"} =>
          /\ pc[k] \notin {"none", "start", "done"} => Client(k) \in conns
          /\ pc[k] \in {"answer", "bridge"} => Upstream(k) \in conns

AllOwned == \A k \in Conns : Owned(k)

\* A stopped proxy has no accept loop and no goroutine.
Stopped == ui = "idle" /\ ~running => serve = "off" /\ \A k \in Conns : ~Alive(k)

IInv == Types /\ Counted /\ Accepting /\ AllOwned /\ Stopped

-----------------------------------------------------------------------------
(* A step of a goroutine, seen from outside.                               *)

\* It concerns its own connection only, and only Leave gives its count back.
Frame(k) ==
    /\ ui' = ui /\ running' = running /\ serve' = serve /\ serving' = serving
    /\ Alive(k)
    /\ pc'[k] # "none"
    /\ pc'[k] = "done" <=> pc[k] = "leave"
    /\ wg' = IF pc[k] = "leave" THEN wg - 1 ELSE wg
    /\ \A j \in Conns \ {k} :
           /\ pc'[j] = pc[j] /\ flow'[j] = flow[j] /\ tunnel'[j] = tunnel[j]
           /\ Client(j) \in open' <=> Client(j) \in open
           /\ Upstream(j) \in open' <=> Upstream(j) \in open
           /\ Client(j) \in conns' <=> Client(j) \in conns
           /\ Upstream(j) \in conns' <=> Upstream(j) \in conns

\* The types are kept, the frame holds, and the connection is still owned: everything
\* there is to show about one action of a goroutine.
Good(k) == Types' /\ Frame(k) /\ Owned(k)'

LEMMA StepIsGood ==
    ASSUME Types, NEW k \in Conns, Owned(k), ConnStep(k)
    PROVE  Good(k)
PROOF
<1> USE DEF Good, Types, Frame, Owned, NothingOf, Alive, Labels, Goto, goOnly, uiVars, srvVars, netVars,
            Sockets, Client, Upstream
<1>1. ASSUME Track(k) PROVE Good(k)
    BY <1>1 DEF Track
<1>2. ASSUME NoRequest(k) PROVE Good(k)
    BY <1>2 DEF NoRequest
<1>3. ASSUME Refuse(k) PROVE Good(k)
    BY <1>3 DEF Refuse
<1>4. ASSUME DialFails(k) PROVE Good(k)
    BY <1>4 DEF DialFails
<1>5. ASSUME DialSucceeds(k) PROVE Good(k)
    BY <1>5 DEF DialSucceeds
<1>6. ASSUME TrackUpstream(k) PROVE Good(k)
    BY <1>6 DEF TrackUpstream
<1>7. ASSUME Exit(k) PROVE Good(k)
    BY <1>7 DEF Exit, Deferred
<1>8. ASSUME Leave(k) PROVE Good(k)
    BY <1>8 DEF Leave
<1>9. ASSUME NEW what \in Kinds, ReadRequest(k, what) PROVE Good(k)
    BY <1>9, KindsAssumption DEF ReadRequest
<1>10. ASSUME ReadNext(k) PROVE Good(k)
    BY <1>10 DEF ReadNext
<1>11. ASSUME ReadUpgrade(k) PROVE Good(k)
    BY <1>11 DEF ReadUpgrade
<1>12. ASSUME NEW held \in BOOLEAN, ReadBody(k, held) PROVE Good(k)
    BY <1>12, KindsAssumption DEF ReadBody
<1>13. ASSUME NEW ok \in BOOLEAN, Handshake(k, ok) PROVE Good(k)
    BY <1>13, KindsAssumption DEF Handshake
<1>14. ASSUME Answer(k) PROVE Good(k)
    BY <1>14 DEF Answer
<1>15. ASSUME AnswerFails(k) PROVE Good(k)
    BY <1>15 DEF AnswerFails
<1>16. ASSUME Reply(k) PROVE Good(k)
    BY <1>16 DEF Reply
<1>17. ASSUME NEW to \in {"reply", "refuse", "heldresp"}, RoundTrip(k, to) PROVE Good(k)
    BY <1>17, KindsAssumption DEF RoundTrip
<1>18. ASSUME NEW ok \in BOOLEAN, Upgrade(k, ok) PROVE Good(k)
    BY <1>18, KindsAssumption DEF Upgrade
<1>19. ASSUME BridgeEnds(k) PROVE Good(k)
    BY <1>19 DEF BridgeEnds
<1>20. ASSUME PumpEnds(k) PROVE Good(k)
    BY <1>20 DEF PumpEnds
<1>21. ASSUME NEW drop \in BOOLEAN, Release(k, drop) PROVE Good(k)
    BY <1>21, KindsAssumption DEF Release
<1> QED BY <1>1, <1>2, <1>3, <1>4, <1>5, <1>6, <1>7, <1>8, <1>9, <1>10, <1>11, <1>12, <1>13, <1>14, <1>15, <1>16, <1>17, <1>18, <1>19, <1>20, <1>21 DEF ConnStep, OwnStep, ClientStep, RoundTripEnds

-----------------------------------------------------------------------------
(* The wait group.                                                         *)

\* A goroutine's step keeps the count exact: only Leave changes who is alive.
LEMMA StepIsCounted ==
    ASSUME Counted, NEW k \in Conns, Frame(k)
    PROVE  Counted'
PROOF
<1> DEFINE A == AliveConns  B == AliveConns'
<1>1. k \in A
    BY DEF Frame, AliveConns
<1>2. CASE pc[k] = "leave"
    <2>1. B = A \ {k}
        BY <1>2 DEF Frame, AliveConns, Alive
    <2>2. IsFiniteSet(B) /\ Cardinality(B) = Cardinality(A) - 1 /\ Cardinality(A) \in Nat
        BY <1>1, <2>1, FS_RemoveElement, FS_CardinalityType DEF Counted
    <2> QED BY <1>2, <2>2 DEF Counted, WaitGroupExact, Frame, AliveConns
<1>3. CASE pc[k] # "leave"
    <2>1. B = A
        BY <1>3 DEF Frame, AliveConns, Alive
    <2> QED BY <1>3, <2>1 DEF Counted, WaitGroupExact, Frame, AliveConns
<1> QED BY <1>2, <1>3

\* A new goroutine is counted before it is started.
LEMMA SpawnIsCounted ==
    ASSUME Types, Counted, Accepting, Spawn
    PROVE  Counted'
PROOF
<1> DEFINE A == AliveConns  B == AliveConns'
<1>1. PICK k \in Conns : serving = {k} /\ pc[k] = "none"
    BY DEF Accepting, Spawn
<1>2. pc' = [pc EXCEPT ![k] = "start"]
    BY <1>1 DEF Spawn
<1>3. B = A \cup {k} /\ k \notin A
    BY <1>1, <1>2 DEF AliveConns, Alive, Types
<1>4. IsFiniteSet(B) /\ Cardinality(B) = Cardinality(A) + 1 /\ Cardinality(A) \in Nat
    BY <1>3, FS_AddElement, FS_CardinalityType DEF Counted
<1> QED BY <1>4 DEF Counted, WaitGroupExact, AliveConns, Spawn

\* When the wait group is down to zero, nobody is left.
LEMMA NobodyCounted ==
    ASSUME Types, Counted, wg = 0
    PROVE  serve = "off" /\ \A k \in Conns : ~Alive(k)
PROOF
<1>1. Cardinality(AliveConns) \in Nat
    BY FS_CardinalityType DEF Counted
<1>2. serve = "off" /\ Cardinality(AliveConns) = 0
    BY <1>1 DEF Counted, WaitGroupExact, AliveConns
<1>3. AliveConns = {}
    BY <1>2, FS_EmptySet DEF Counted
<1> QED BY <1>2, <1>3 DEF AliveConns

-----------------------------------------------------------------------------
(* The invariant is inductive.                                             *)

LEMMA InitInv == Init => IInv
PROOF
<1> SUFFICES ASSUME Init PROVE IInv
    OBVIOUS
<1>1. AliveConns = {}
    BY DEF Init, AliveConns, Alive
<1>2. Counted
    BY <1>1, FS_EmptySet DEF Counted, WaitGroupExact, Init, AliveConns
<1>3. Types /\ Accepting /\ AllOwned /\ Stopped
    BY DEF Init, Types, Labels, Accepting, AllOwned, Owned, NothingOf, Stopped, Alive
<1> QED BY <1>2, <1>3 DEF IInv

\* One goroutine makes a step.
LEMMA ConnStepInv ==
    ASSUME IInv, NEW k \in Conns, ConnStep(k)
    PROVE  IInv'
PROOF
<1> USE DEF IInv
<1>1. Types' /\ Frame(k) /\ Owned(k)'
    BY StepIsGood DEF AllOwned, Good
<1>2. Counted'
    BY <1>1, StepIsCounted
<1>3. Accepting'
    BY <1>1 DEF Accepting, Frame, Alive
<1>4. ASSUME NEW j \in Conns \ {k} PROVE Owned(j)'
    BY <1>1 DEF AllOwned, Owned, NothingOf, Frame, Alive
<1>5. AllOwned'
    BY <1>1, <1>4 DEF AllOwned
<1>6. Stopped'
    BY <1>1 DEF Stopped, Frame
<1> QED BY <1>1, <1>2, <1>3, <1>5, <1>6

\* The UI thread, the accept loop or a peer makes a step, which leaves who is alive.
LEMMA CountedStays ==
    ASSUME Counted, UNCHANGED <<pc, serve, wg>>
    PROVE  Counted'
PROOF
<1>1. AliveConns' = AliveConns
    BY DEF AliveConns, Alive
<1> QED BY <1>1 DEF Counted, WaitGroupExact, AliveConns

LEMMA OtherStepInv ==
    ASSUME IInv,
           \/ Start \/ StopListening \/ StopStep \/ AcceptStep
           \/ \E s \in Sockets : PeerLeaves(s)
    PROVE  IInv'
PROOF
<1> USE DEF uiVars, srvVars, goVars, netVars, Alive
<1>1. CASE Start
    <2>1. AliveConns' = AliveConns /\ Cardinality(AliveConns) \in Nat
        BY <1>1, FS_CardinalityType DEF Start, AliveConns, IInv, Counted
    <2>2. Counted'
        BY <1>1, <2>1 DEF Start, IInv, Counted, WaitGroupExact, Stopped, AliveConns
    <2>3. (Types /\ Accepting /\ AllOwned /\ Stopped)'
        BY <1>1 DEF Start, IInv, Types, Accepting, AllOwned, Owned, NothingOf, Stopped
    <2> QED BY <2>2, <2>3 DEF IInv
<1>2. CASE StopListening
    <2>1. Counted'
        BY <1>2, CountedStays DEF StopListening, IInv
    <2>2. (Types /\ Accepting /\ AllOwned /\ Stopped)'
        BY <1>2 DEF StopListening, IInv, Types, Accepting, AllOwned, Owned, NothingOf, Stopped
    <2> QED BY <2>1, <2>2 DEF IInv
<1>3. CASE TakeConns
    <2>1. Counted'
        BY <1>3, CountedStays DEF TakeConns, IInv
    <2>2. (Types /\ Accepting /\ AllOwned /\ Stopped)'
        BY <1>3 DEF TakeConns, IInv, Types, Accepting, AllOwned, Owned, NothingOf, Stopped
    <2> QED BY <2>1, <2>2 DEF IInv
<1>4. ASSUME NEW s \in Sockets, CloseOne(s) PROVE IInv'
    <2>1. Counted'
        BY <1>4, CountedStays DEF CloseOne, IInv
    <2>2. (Types /\ Accepting /\ AllOwned /\ Stopped)'
        BY <1>4 DEF CloseOne, IInv, Types, Accepting, AllOwned, Owned, NothingOf, Stopped
    <2> QED BY <2>1, <2>2 DEF IInv
<1>5. CASE StopRunning
    <2>1. Counted'
        BY <1>5, CountedStays DEF StopRunning, IInv
    <2>2. (Types /\ Accepting /\ AllOwned /\ Stopped)'
        BY <1>5 DEF StopRunning, IInv, Types, Accepting, AllOwned, Owned, NothingOf, Stopped
    <2> QED BY <2>1, <2>2 DEF IInv
<1>6. CASE Wait
    <2>1. serve = "off" /\ \A k \in Conns : ~Alive(k)
        BY <1>6, NobodyCounted DEF Wait, IInv
    <2>2. Counted'
        BY <1>6, CountedStays DEF Wait, IInv
    <2>3. (Types /\ Accepting /\ AllOwned /\ Stopped)'
        BY <1>6, <2>1 DEF Wait, IInv, Types, Accepting, AllOwned, Owned, NothingOf, Stopped
    <2> QED BY <2>2, <2>3 DEF IInv
<1>7. ASSUME NEW k \in Conns, Accept(k) PROVE IInv'
    <2>1. Counted'
        <3>1. AliveConns' = AliveConns
            BY <1>7 DEF Accept, AliveConns
        <3> QED BY <1>7, <3>1 DEF Accept, IInv, Counted, WaitGroupExact, AliveConns
    <2>2. Types' /\ Accepting' /\ Stopped'
        BY <1>7 DEF Accept, IInv, Types, Accepting, Stopped, Sockets, Client
    <2>3. AllOwned'
        BY <1>7 DEF Accept, IInv, Accepting, AllOwned, Owned, NothingOf, Client, Upstream
    <2> QED BY <2>1, <2>2, <2>3 DEF IInv
<1>8. CASE AcceptFails
    <2>1. AliveConns' = AliveConns /\ Cardinality(AliveConns) \in Nat
        BY <1>8, FS_CardinalityType DEF AcceptFails, AliveConns, IInv, Counted
    <2>2. Counted'
        BY <1>8, <2>1 DEF AcceptFails, IInv, Counted, WaitGroupExact, AliveConns
    <2>3. (Types /\ Accepting /\ AllOwned /\ Stopped)'
        BY <1>8 DEF AcceptFails, IInv, Types, Accepting, AllOwned, Owned, NothingOf, Stopped
    <2> QED BY <2>2, <2>3 DEF IInv
<1>9. CASE Spawn
    <2>1. Counted'
        BY <1>9, SpawnIsCounted DEF IInv
    <2>2. PICK k \in Conns : serving = {k} /\ pc[k] = "none"
        BY <1>9 DEF Spawn, IInv, Accepting
    <2>3. pc' = [pc EXCEPT ![k] = "start"]
        BY <1>9, <2>2 DEF Spawn
    <2>4. (Types /\ Accepting /\ Stopped)'
        BY <1>9, <2>2, <2>3 DEF Spawn, IInv, Types, Labels, Accepting, Stopped
    <2>5. AllOwned'
        BY <1>9, <2>2, <2>3 DEF Spawn, IInv, Types, Labels, AllOwned, Owned, NothingOf
    <2> QED BY <2>1, <2>4, <2>5 DEF IInv
<1>10. ASSUME NEW s \in Sockets, PeerLeaves(s) PROVE IInv'
    <2>1. Counted'
        BY <1>10, CountedStays DEF PeerLeaves, IInv
    <2>2. (Types /\ Accepting /\ AllOwned /\ Stopped)'
        BY <1>10 DEF PeerLeaves, IInv, Types, Accepting, AllOwned, Owned, NothingOf, Stopped
    <2> QED BY <2>1, <2>2 DEF IInv
<1> QED BY <1>1, <1>2, <1>3, <1>4, <1>5, <1>6, <1>7, <1>8, <1>9, <1>10 DEF StopStep, AcceptStep

LEMMA StutterInv == IInv /\ UNCHANGED vars => IInv'
PROOF
<1> SUFFICES ASSUME IInv, UNCHANGED vars PROVE IInv'
    OBVIOUS
<1> USE DEF vars, uiVars, srvVars, goVars, netVars, Alive
<1>1. Counted'
    BY CountedStays DEF IInv
<1>2. (Types /\ Accepting /\ AllOwned /\ Stopped)'
    BY DEF IInv, Types, Accepting, AllOwned, Owned, NothingOf, Stopped
<1> QED BY <1>1, <1>2 DEF IInv

\* Whatever the UI thread, the accept loop, the goroutines, the clients and the servers
\* do, in whatever order, the invariant holds.
THEOREM Invariance == Spec => []IInv
PROOF
<1>1. IInv /\ [Next]_vars => IInv'
    BY ConnStepInv, OtherStepInv, StutterInv DEF Next
<1> QED BY InitInv, <1>1, PTL DEF Spec

\* The variables keep their types; above all the wait group never goes below zero,
\* which would be a panic of the program.
THEOREM TypeCorrect == Spec => []TypeOK
PROOF
<1>1. IInv => TypeOK
    <2> SUFFICES ASSUME IInv PROVE TypeOK
        OBVIOUS
    <2>1. wg \in Nat
        BY FS_CardinalityType DEF IInv, Counted, WaitGroupExact, AliveConns
    <2> QED BY <2>1 DEF IInv, Types, Labels, TypeOK
<1> QED BY Invariance, <1>1, PTL

\* Starting and stopping are clean (proxy.go, Start, Stop, closeAllConns, handleConn):
\* the wait group is exact, Stop reaches what goroutines wait for, and once Stop has
\* returned nothing of the proxy is left.
THEOREM Clean == Spec => []StopIsClean
PROOF
<1>1. IInv => StopIsClean
    <2> SUFFICES ASSUME IInv PROVE StopIsClean
        OBVIOUS
    <2>1. WaitGroupExact
        BY DEF IInv, Counted
    <2>2. StopCanReach
        BY DEF IInv, AllOwned, Owned, StopCanReach
    <2>3. LeftIsEnded
        BY DEF IInv, AllOwned, Owned, NothingOf, Alive, LeftIsEnded
    <2>4. StoppedIsQuiet
        <3> SUFFICES ASSUME ui = "idle", ~running
                     PROVE  serve = "off" /\ conns = {} /\ open = {}
                            /\ \A k \in Conns : ~Alive(k) /\ flow[k] # "live" /\ tunnel[k] # "open"
            BY DEF StoppedIsQuiet
        <3>1. serve = "off" /\ serving = {} /\ \A k \in Conns : ~Alive(k)
            BY DEF IInv, Stopped, Accepting
        <3>2. \A k \in Conns : NothingOf(k)
            BY <3>1 DEF IInv, AllOwned, Owned
        <3>3. \A s \in Sockets : \E k \in Conns : s = Client(k) \/ s = Upstream(k)
            BY DEF Sockets, Client, Upstream
        <3>4. conns = {} /\ open = {}
            BY <3>1, <3>2, <3>3 DEF NothingOf, IInv, Types
        <3> QED BY <3>1, <3>2, <3>4 DEF NothingOf
    <2> QED BY <2>1, <2>2, <2>3, <2>4 DEF StopIsClean
<1> QED BY Invariance, <1>1, PTL
-----------------------------------------------------------------------------
(* The queue of held messages.                                             *)

Locals ==
    /\ drained # <<>> => frame = "send"
    /\ found.msg \in Msgs => frame = "resolve"
    /\ frame = "resolve" => found.msg \in Msgs
    /\ \A m \in Msgs : Answered(m) => Tail(resume[m]) = <<>>

Numbers ==
    /\ \A m \in Msgs : mid[m] <= nextHeldID
    /\ \A m \in Msgs : at[m] \in {"new", "hold", "enqueue"} => mid[m] = 0
    /\ \A m \in Msgs : at[m] = "parked" => mid[m] # 0
    /\ UniqueIDs

DrainedOnce == IsInjective(drained)

Safety ==
    /\ Locals
    /\ Numbers
    /\ OneWayOut
    /\ SendNeverBlocks
    /\ OldestFirst
    /\ DrainedOnce

QueueInv == QueueTypes /\ Safety

-----------------------------------------------------------------------------

LEMMA TypeInvariance == QueueTypes /\ [QueueNext]_queueVars => QueueTypes'
<1> USE DEF QueueTypes, inVars, carrierVars, frameVars
<1>1. ASSUME QueueTypes, NEW m \in Msgs, NEW dir \in MsgKinds, Process(m, dir) PROVE QueueTypes'
  <2>1. Result(m, FALSE) \in Results
    BY DEF Result, Results
  <2> QED
    BY <1>1, <2>1 DEF Process
<1>2. ASSUME QueueTypes, NEW m \in Msgs, HoldCheck(m) PROVE QueueTypes'
  <2>1. Result(m, FALSE) \in Results
    BY DEF Result, Results
  <2>2. CASE on
    <3>1. <<>> \in Seq(Results)
      OBVIOUS
    <3> QED
      BY <1>2, <2>2, <3>1 DEF HoldCheck
  <2>3. CASE ~on
    BY <1>2, <2>1, <2>3 DEF HoldCheck
  <2> QED
    BY <2>2, <2>3
<1>3. ASSUME QueueTypes, NEW m \in Msgs, HoldEnqueue(m) PROVE QueueTypes'
  BY <1>3 DEF HoldEnqueue
<1>4. ASSUME QueueTypes, NEW m \in Msgs, HoldReceive(m) PROVE QueueTypes'
  BY <1>4 DEF HoldReceive
<1>5. ASSUME QueueTypes, NEW b \in BOOLEAN, SetOn(b) PROVE QueueTypes'
  BY <1>5 DEF SetOn, UIStates
<1>6. ASSUME QueueTypes, NEW b \in BOOLEAN, SetInterceptResponses(b) PROVE QueueTypes'
  BY <1>6 DEF SetInterceptResponses
<1>7. QueueTypes /\ NoToggle => QueueTypes'
  BY DEF NoToggle, UIStates
<1>8. QueueTypes /\ DrainTake => QueueTypes'
  BY DEF DrainTake, UIStates
<1>9. ASSUME QueueTypes, DrainSend PROVE QueueTypes'
  <2>1. Head(drained) \in Msgs /\ Tail(drained) \in Seq(Msgs)
    BY <1>9, HeadTailProperties DEF DrainSend
  <2>2. Result(Head(drained), FALSE) \in Results
    BY <2>1 DEF Result, Results
  <2>3. <<Result(Head(drained), FALSE)>> \in Seq(Results)
    BY <2>2, Singleton
  <2> QED
    BY <1>9, <2>1, <2>3 DEF DrainSend
<1>10. QueueTypes /\ DrainDone => QueueTypes'
  BY DEF DrainDone, UIStates
<1>11. ASSUME QueueTypes, TakeHead PROVE QueueTypes'
  <2>1. CASE queue = <<>>
    BY <1>11, <2>1 DEF TakeHead, UIStates
  <2>2. CASE queue # <<>>
    <3>1. Head(queue) \in Msgs
      BY <2>2, <1>11, HeadTailProperties
    <3> QED
      BY <1>11, <2>2, <3>1 DEF TakeHead, UIStates
  <2> QED
    BY <2>1, <2>2
<1>12. ASSUME QueueTypes, NEW res \in Results, Resolve(head, res),
              UNCHANGED <<on, doResp, nextHeldID, mid, resume, carrierVars, drained, head, editor, buttons>>
       PROVE  QueueTypes'
  <2>1. CASE UNCHANGED <<queue, found, frame>>
    BY <1>12, <2>1
  <2>2. ASSUME NEW i \in DOMAIN queue,
               queue' = RemoveAt(queue, i),
               found' = [msg |-> queue[i], res |-> res],
               frame' = "resolve"
        PROVE  QueueTypes'
    <3>1. i \in 1..Len(queue) /\ queue[i] \in Msgs
      BY <1>12
    <3>2. queue' \in Seq(Msgs)
      BY <1>12, <2>2, <3>1, RemoveAtProperties
    <3> QED
      BY <1>12, <2>2, <3>1, <3>2 DEF UIStates
  <2> QED
    BY <1>12, <2>1, <2>2 DEF Resolve
<1>13. ASSUME QueueTypes, Forward PROVE QueueTypes'
  <2>1. Result(editor, FALSE) \in Results
    BY <1>13 DEF Result, Results
  <2> QED
    BY <1>12, <1>13, <2>1 DEF Forward
<1>14. ASSUME QueueTypes, Drop PROVE QueueTypes'
  <2>1. Result(head, TRUE) \in Results
    BY <1>14 DEF Result, Results
  <2> QED
    BY <1>12, <1>14, <2>1 DEF Drop
<1>15. ASSUME QueueTypes, ResolveSend PROVE QueueTypes'
  <2>1. NoFound \in [msg : Msgs \cup {None}, res : Results]
    BY DEF NoFound, NoResult, Result, Results
  <2>2. found.res \in Results
    BY <1>15
  <2>3. <<found.res>> \in Seq(Results)
    BY <2>2, Singleton
  <2> QED
    BY <1>15, <2>1, <2>3 DEF ResolveSend, UIStates
<1>16. QueueTypes /\ NoMoreClicks => QueueTypes'
  BY DEF NoMoreClicks, UIStates
<1>17. ASSUME QueueTypes, NEW shown \in BOOLEAN, Layout(shown) PROVE QueueTypes'
  <2>1. CASE queue = <<>>
    BY <1>17, <2>1 DEF Layout, UIStates
  <2>2. CASE queue # <<>>
    <3>1. Head(queue) \in Msgs
      BY <2>2, <1>17, HeadTailProperties
    <3> QED
      BY <1>17, <2>2, <3>1 DEF Layout, UIStates
  <2> QED
    BY <2>1, <2>2
<1>18. QueueTypes /\ UNCHANGED queueVars => QueueTypes'
  BY DEF queueVars
<1> QED
  BY <1>1, <1>2, <1>3, <1>4, <1>5, <1>6, <1>7, <1>8, <1>9, <1>10, <1>11, <1>13, <1>14,
     <1>15, <1>16, <1>17, <1>18
  DEF QueueNext, Goroutine, UIFrame, UIClick

-----------------------------------------------------------------------------

QueueFrame == <<queue, nextHeldID, mid, resume, at, drained, found>>

\* The order of the IDs rules out repetitions.
LEMMA QueuedOnce == QueueTypes /\ OldestFirst => IsInjective(queue)
<1> SUFFICES ASSUME QueueTypes, OldestFirst,
                    NEW i \in DOMAIN queue, NEW j \in DOMAIN queue, queue[i] = queue[j]
             PROVE  i = j
  BY DEF IsInjective
<1>1. i \in Nat /\ j \in Nat /\ mid[queue[i]] \in Nat
  BY DEF QueueTypes
<1> QED
  BY <1>1 DEF OldestFirst

\* A step that moves no message keeps the invariants.
LEMMA QuietStep ==
    ASSUME Safety, UNCHANGED QueueFrame,
           drained # <<>> => frame' = "send",
           frame' = "resolve" <=> frame = "resolve"
    PROVE  Safety'
  BY DEF Safety, QueueFrame, Locals, Numbers, UniqueIDs, OneWayOut, SendNeverBlocks, OldestFirst,
         DrainedOnce, Answered

LEMMA ProcessSafe ==
    ASSUME QueueTypes, Safety, NEW m \in Msgs, NEW dir \in MsgKinds, Process(m, dir) PROVE Safety'
<1> USE DEF QueueTypes, Safety, Process, inVars, frameVars
<1>1. \A n \in Msgs : at'[n] = "parked" <=> at[n] = "parked"
  OBVIOUS
<1>2. Locals' /\ OneWayOut' /\ SendNeverBlocks' /\ OldestFirst' /\ DrainedOnce'
  BY <1>1 DEF Locals, OneWayOut, SendNeverBlocks, OldestFirst, DrainedOnce, Answered
<1>3. Numbers'
  BY <1>1 DEF Numbers, UniqueIDs
<1> QED
  BY <1>2, <1>3

LEMMA HoldCheckSafe == ASSUME QueueTypes, Safety, NEW m \in Msgs, HoldCheck(m) PROVE Safety'
<1> USE DEF QueueTypes, Safety, HoldCheck, frameVars
<1>1. resume' = resume
  BY DEF OneWayOut, Answered
<1>2. \A n \in Msgs : at'[n] = "parked" <=> at[n] = "parked"
  OBVIOUS
<1>3. Locals' /\ OneWayOut' /\ SendNeverBlocks' /\ OldestFirst' /\ DrainedOnce'
  BY <1>1, <1>2 DEF Locals, OneWayOut, SendNeverBlocks, OldestFirst, DrainedOnce, Answered
<1>4. Numbers'
  BY <1>2 DEF Numbers, UniqueIDs
<1> QED
  BY <1>3, <1>4

LEMMA HoldEnqueueSafe == ASSUME QueueTypes, Safety, NEW m \in Msgs, HoldEnqueue(m) PROVE Safety'
<1> USE DEF QueueTypes, Safety, HoldEnqueue, frameVars
<1>1. /\ m \notin Range(queue) /\ m \notin Range(drained) /\ found.msg # m /\ ~Answered(m)
      /\ mid[m] = 0
  BY DEF OneWayOut, Numbers
<1>2. \A n : n \in Range(queue') <=> n \in Range(queue) \/ n = m
  BY AppendMember
<1>3. \A n \in Msgs : at'[n] = "parked" <=> at[n] = "parked" \/ n = m
  OBVIOUS
<1>4. Locals'
  BY DEF Locals, Answered
<1>5. OneWayOut'
  BY <1>1, <1>2, <1>3 DEF OneWayOut, Answered
<1>6. SendNeverBlocks'
  BY <1>1, <1>2 DEF SendNeverBlocks, Answered
<1>7. \A n \in Msgs : n # m => mid'[n] = mid[n] /\ mid[n] \in Nat /\ mid[n] < nextHeldID + 1
  BY DEF Numbers
<1>8. mid'[m] = nextHeldID + 1 /\ nextHeldID' = nextHeldID + 1 /\ nextHeldID \in Nat
  OBVIOUS
<1>9. Numbers'
  BY <1>7, <1>8 DEF Numbers, UniqueIDs
<1>10. OldestFirst'
  <2>1. /\ Len(queue) \in Nat /\ Len(queue') = Len(queue) + 1
        /\ \A i \in 1..Len(queue) : queue'[i] = queue[i] /\ queue[i] \in Msgs /\ queue[i] # m
        /\ queue'[Len(queue) + 1] = m
        /\ DOMAIN queue = 1..Len(queue) /\ DOMAIN queue' = 1..(Len(queue) + 1)
    BY <1>1, AppendProperties DEF Range
  <2>2. ASSUME NEW i \in 1..(Len(queue) + 1), NEW j \in 1..(Len(queue) + 1), i < j
        PROVE  mid'[queue'[i]] < mid'[queue'[j]]
    <3>1. Len(queue) \in Nat
      BY <2>1
    <3>2. i \in 1..Len(queue)
      BY ONLY <3>1, <2>2
    <3>3. CASE j = Len(queue) + 1
      BY <2>1, <3>2, <3>3, <1>7, <1>8
    <3>4. CASE j # Len(queue) + 1
      <4>1. j \in 1..Len(queue)
        BY ONLY <3>1, <3>4
      <4>2. mid[queue[i]] < mid[queue[j]]
        BY <2>1, <2>2, <3>2, <4>1 DEF OldestFirst
      <4> QED
        BY <2>1, <3>2, <4>1, <4>2, <1>7
    <3> QED
      BY <3>3, <3>4
  <2>3. DOMAIN queue' = 1..(Len(queue) + 1)
    BY <2>1
  <2> QED
    BY <2>2, <2>3 DEF OldestFirst
<1>11. DrainedOnce'
  BY DEF DrainedOnce
<1> QED
  BY <1>4, <1>5, <1>6, <1>9, <1>10, <1>11

LEMMA HoldReceiveSafe == ASSUME QueueTypes, Safety, NEW m \in Msgs, HoldReceive(m) PROVE Safety'
<1> USE DEF QueueTypes, Safety, HoldReceive, frameVars
<1>1. /\ m \notin Range(queue) /\ m \notin Range(drained) /\ found.msg # m
      /\ resume'[m] = <<>>
      /\ \A n \in Msgs : n # m => resume'[n] = resume[n]
  BY DEF SendNeverBlocks, Locals, Answered
<1>2. \A n \in Msgs : at'[n] = "parked" <=> at[n] = "parked" /\ n # m
  OBVIOUS
<1>3. Locals'
  BY <1>1 DEF Locals, Answered
<1>4. OneWayOut' /\ SendNeverBlocks'
  BY <1>1, <1>2 DEF OneWayOut, SendNeverBlocks, Answered
<1>5. Numbers' /\ OldestFirst' /\ DrainedOnce'
  BY <1>2 DEF Numbers, UniqueIDs, OldestFirst, DrainedOnce
<1> QED
  BY <1>3, <1>4, <1>5

LEMMA DrainTakeSafe == ASSUME QueueTypes, Safety, DrainTake PROVE Safety'
<1> USE DEF QueueTypes, Safety, DrainTake, carrierVars
<1>1. drained = <<>> /\ drained' = queue /\ queue' = <<>> /\ Range(queue') = {}
  BY EmptyRange DEF Locals
<1>2. Range(drained) = {}
  BY <1>1, EmptyRange
<1>3. found.msg \notin Msgs
  BY DEF Locals
<1>4. Locals'
  BY <1>3 DEF Locals, Answered
<1>5. OneWayOut' /\ SendNeverBlocks'
  BY <1>1, <1>2, <1>3 DEF OneWayOut, SendNeverBlocks, Answered
<1>6. DrainedOnce'
  BY <1>1, QueuedOnce DEF DrainedOnce
<1>7. Numbers'
  BY DEF Numbers, UniqueIDs
<1>8. OldestFirst'
  BY <1>1 DEF OldestFirst
<1> QED
  BY <1>4, <1>5, <1>6, <1>7, <1>8

LEMMA DrainSendSafe == ASSUME QueueTypes, Safety, DrainSend PROVE Safety'
<1> USE DEF QueueTypes, Safety, DrainSend, carrierVars
<1> DEFINE m == Head(drained)
           r == Result(m, FALSE)
<1>1. /\ m \in Msgs /\ m \in Range(drained)
      /\ IsInjective(drained')
      /\ \A n : n \in Range(drained') <=> n \in Range(drained) /\ n # m
  BY TailMember DEF DrainedOnce
<1>2. <<r>> # <<>> /\ Tail(<<r>>) = <<>>
  <2>1. r \in {r}
    OBVIOUS
  <2> QED
    BY <2>1, Singleton
<1>3. resume' = [resume EXCEPT ![m] = <<r>>]
  OBVIOUS
<1> HIDE DEF m, r
<1>4. resume'[m] = <<r>> /\ \A n \in Msgs : n # m => resume'[n] = resume[n]
  BY <1>1, <1>3
<1>5. m \notin Range(queue) /\ found.msg # m
  BY <1>1 DEF OneWayOut
<1>6. Locals'
  BY <1>2, <1>4 DEF Locals, Answered
<1>7. OneWayOut'
  BY <1>1, <1>2, <1>4, <1>5 DEF OneWayOut, Answered
<1>8. SendNeverBlocks'
  BY <1>1, <1>2, <1>4, <1>5 DEF SendNeverBlocks, Answered
<1>9. DrainedOnce'
  BY <1>1 DEF DrainedOnce
<1>10. Numbers' /\ OldestFirst'
  BY DEF Numbers, UniqueIDs, OldestFirst
<1> QED
  BY <1>6, <1>7, <1>8, <1>9, <1>10

LEMMA ResolveSafe ==
    ASSUME QueueTypes, Safety, frame = "clicks", NEW m, NEW res, Resolve(m, res),
           UNCHANGED <<nextHeldID, mid, resume, at, drained>>
    PROVE  Safety'
<1>1. CASE UNCHANGED <<queue, found, frame>>
  <2>1. UNCHANGED QueueFrame /\ (drained # <<>> => frame' = "send")
    BY <1>1 DEF QueueFrame, Safety, Locals
  <2> QED
    BY <1>1, <2>1, QuietStep
<1>2. ASSUME NEW i \in DOMAIN queue,
             queue' = RemoveAt(queue, i),
             found' = [msg |-> queue[i], res |-> res],
             frame' = "resolve"
      PROVE  Safety'
  <2> USE <1>2 DEF QueueTypes, Safety
  <2>1. i \in 1..Len(queue) /\ Len(queue) \in Nat /\ queue[i] \in Msgs
    OBVIOUS
  <2>2. \A n : n \in Range(queue') <=> n \in Range(queue) /\ n # queue[i]
    BY <2>1, QueuedOnce, RemoveAtMember
  <2>3. found.msg \notin Msgs /\ drained = <<>> /\ Range(drained) = {}
    BY EmptyRange DEF Locals
  <2>4. queue[i] \in Range(queue)
    BY DEF Range
  <2>5. found'.msg = queue[i]
    OBVIOUS
  <2>6. Locals'
    BY <2>1, <2>3, <2>5 DEF Locals, Answered
  <2>7. OneWayOut' /\ SendNeverBlocks'
    BY <2>1, <2>2, <2>3, <2>4, <2>5 DEF OneWayOut, SendNeverBlocks, Answered
  <2>8. Numbers' /\ DrainedOnce'
    BY DEF Numbers, UniqueIDs, DrainedOnce
  <2>9. OldestFirst'
    <3>1. /\ Len(queue') = Len(queue) - 1 /\ queue' \in Seq(Msgs)
          /\ \A k \in 1..(Len(queue) - 1) :
                 queue'[k] = IF k < i THEN queue[k] ELSE queue[k + 1]
      BY <2>1, RemoveAtProperties
    <3>2. DOMAIN queue' = 1..(Len(queue) - 1)
      BY <3>1
    <3>3. ASSUME NEW j \in 1..(Len(queue) - 1), NEW k \in 1..(Len(queue) - 1), j < k
          PROVE  mid[queue'[j]] < mid[queue'[k]]
      <4> DEFINE a == IF j < i THEN j ELSE j + 1
                 b == IF k < i THEN k ELSE k + 1
      <4>1. a \in 1..Len(queue) /\ b \in 1..Len(queue) /\ a < b
        BY ONLY <2>1, <3>3
      <4>2. queue'[j] = queue[a] /\ queue'[k] = queue[b]
        BY <3>1, <3>3
      <4> HIDE DEF a, b
      <4>3. mid[queue[a]] < mid[queue[b]]
        <5>1. DOMAIN queue = 1..Len(queue) /\ OldestFirst
          BY <2>1
        <5> QED
          BY ONLY <5>1, <4>1 DEF OldestFirst
      <4>4. mid[queue'[j]] = mid[queue[a]] /\ mid[queue'[k]] = mid[queue[b]]
        BY <4>2
      <4> QED
        BY ONLY <4>3, <4>4
    <3> QED
      BY <3>2, <3>3 DEF OldestFirst
  <2> QED
    BY <2>6, <2>7, <2>8, <2>9
<1> QED
  BY <1>1, <1>2 DEF Resolve

LEMMA ResolveSendSafe == ASSUME QueueTypes, Safety, ResolveSend PROVE Safety'
<1> USE DEF QueueTypes, Safety, ResolveSend, carrierVars
<1> DEFINE m == found.msg
           r == found.res
<1>1. m \in Msgs /\ m \notin Range(queue) /\ m \notin Range(drained)
  BY DEF Locals, OneWayOut
<1>2. <<r>> # <<>> /\ Tail(<<r>>) = <<>>
  <2>1. r \in {r}
    OBVIOUS
  <2> QED
    BY <2>1, Singleton
<1>3. found'.msg = None /\ None \notin Msgs
  BY NoneAssumption DEF NoFound
<1>4. resume'[m] = <<r>> /\ \A n \in Msgs : n # m => resume'[n] = resume[n]
  BY <1>1
<1>5. Locals'
  BY <1>2, <1>3, <1>4 DEF Locals, Answered
<1>6. OneWayOut'
  BY <1>1, <1>2, <1>3, <1>4 DEF OneWayOut, Answered
<1>7. SendNeverBlocks'
  BY <1>1, <1>2, <1>3, <1>4 DEF SendNeverBlocks, Answered
<1>8. Numbers' /\ OldestFirst' /\ DrainedOnce'
  BY DEF Numbers, UniqueIDs, OldestFirst, DrainedOnce
<1> QED
  BY <1>5, <1>6, <1>7, <1>8

-----------------------------------------------------------------------------

LEMMA QueueInitInvariant == QueueInit => QueueInv
<1> SUFFICES ASSUME QueueInit PROVE QueueInv
  OBVIOUS
<1> USE NoneAssumption, EmptyRange DEF QueueInit
<1>1. NoResult \in Results /\ NoFound \in [msg : Msgs \cup {None}, res : Results]
  BY DEF NoResult, NoFound, Result, Results
<1>2. QueueTypes
  <2>1. <<>> \in Seq(Msgs) /\ <<>> \in Seq(Results)
    OBVIOUS
  <2>2. resume \in [Msgs -> Seq(Results)] /\ got \in [Msgs -> Results]
    BY <1>1, <2>1
  <2> QED
    BY <1>1, <2>1, <2>2 DEF QueueTypes, UIStates
<1>3. found.msg = None
  BY DEF NoFound
<1>4. Locals /\ OneWayOut /\ SendNeverBlocks
  BY <1>3 DEF Locals, OneWayOut, SendNeverBlocks, Answered
<1>5. Numbers
  BY DEF Numbers, UniqueIDs
<1>6. OldestFirst /\ DrainedOnce
  BY DEF OldestFirst, DrainedOnce
<1> QED
  BY <1>2, <1>4, <1>5, <1>6 DEF QueueInv, Safety

\* One step per action: the actions that move a message have a lemma of their
\* own above, the others are quiet.
LEMMA StepInvariant == QueueInv /\ [QueueNext]_queueVars => QueueInv'
<1> SUFFICES ASSUME QueueTypes, Safety, [QueueNext]_queueVars PROVE Safety'
  BY TypeInvariance DEF QueueInv
<1> USE DEF inVars, carrierVars, frameVars, QueueFrame
<1>1. (drained # <<>> => frame = "send") /\ (frame = "send" => frame # "resolve")
  BY DEF Safety, Locals
<1>2. ASSUME NEW m \in Msgs, NEW dir \in MsgKinds, Process(m, dir) PROVE Safety'
  BY <1>2, ProcessSafe
<1>3. ASSUME NEW m \in Msgs, HoldCheck(m) PROVE Safety'
  BY <1>3, HoldCheckSafe
<1>4. ASSUME NEW m \in Msgs, HoldEnqueue(m) PROVE Safety'
  BY <1>4, HoldEnqueueSafe
<1>5. ASSUME NEW m \in Msgs, HoldReceive(m) PROVE Safety'
  BY <1>5, HoldReceiveSafe
<1>6. ASSUME NEW b \in BOOLEAN, SetOn(b) PROVE Safety'
  BY <1>1, <1>6, QuietStep DEF SetOn
<1>7. ASSUME NEW b \in BOOLEAN, SetInterceptResponses(b) PROVE Safety'
  BY <1>1, <1>7, QuietStep DEF SetInterceptResponses
<1>8. CASE NoToggle
  BY <1>1, <1>8, QuietStep DEF NoToggle
<1>9. CASE DrainTake
  BY <1>9, DrainTakeSafe
<1>10. CASE DrainSend
  BY <1>10, DrainSendSafe
<1>11. CASE DrainDone
  BY <1>1, <1>11, QuietStep DEF DrainDone
<1>12. CASE TakeHead
  BY <1>1, <1>12, QuietStep DEF TakeHead
<1>13. CASE Forward
  BY <1>13, ResolveSafe DEF Forward
<1>14. CASE Drop
  BY <1>14, ResolveSafe DEF Drop
<1>15. CASE ResolveSend
  BY <1>15, ResolveSendSafe
<1>16. CASE NoMoreClicks
  BY <1>1, <1>16, QuietStep DEF NoMoreClicks
<1>17. ASSUME NEW shown \in BOOLEAN, Layout(shown) PROVE Safety'
  BY <1>1, <1>17, QuietStep DEF Layout
<1>18. CASE UNCHANGED queueVars
  BY <1>1, <1>18, QuietStep DEF queueVars
<1> QED
  BY <1>2, <1>3, <1>4, <1>5, <1>6, <1>7, <1>8, <1>9, <1>10, <1>11, <1>12, <1>13, <1>14,
     <1>15, <1>16, <1>17, <1>18
  DEF QueueNext, Goroutine, UIFrame, UIClick

THEOREM QueueInvariance == QueueSpec => []QueueInv
  BY QueueInitInvariant, StepInvariant, PTL DEF QueueSpec

-----------------------------------------------------------------------------

\* Every variable keeps its type: the queue and the list drainAll works through
\* hold messages, a channel holds results, and what is queued has a number other
\* than the 0 that stands for no message.
THEOREM QueueTypeCorrect == QueueSpec => []QueueTypeOK
<1>1. ASSUME QueueInv PROVE QueueTypeOK
  <2>1. ASSUME NEW m \in Range(queue) PROVE mid[m] \in 1..nextHeldID
    <3>1. m \in Msgs /\ mid[m] \in Nat /\ nextHeldID \in Nat
      BY <1>1 DEF QueueInv, QueueTypes, Range
    <3>2. at[m] = "parked"
      BY <1>1, <2>1, <3>1 DEF QueueInv, Safety, OneWayOut
    <3>3. mid[m] # 0 /\ mid[m] <= nextHeldID
      BY <1>1, <3>1, <3>2 DEF QueueInv, Safety, Numbers
    <3> QED
      BY <3>1, <3>3
  <2> QED
    BY <1>1, <2>1 DEF QueueInv, QueueTypeOK
<1> QED
  BY <1>1, QueueInvariance, PTL

\* However many messages are held, a goroutine parked in Hold has exactly one
\* way out: no interleaving of Hold, resolve and drainAll loses its message or
\* answers it twice.
THEOREM ExactlyOneWayOut == QueueSpec => []OneWayOut
<1>1. QueueInv => OneWayOut
  BY DEF QueueInv, Safety
<1> QED
  BY <1>1, QueueInvariance, PTL

\* A channel of capacity 1 is enough: neither resolve nor drainAll can block the
\* UI thread, whatever the number of messages.
THEOREM AnswersNeverBlock == QueueSpec => []SendNeverBlocks
<1>1. QueueInv => SendNeverBlocks
  BY DEF QueueInv, Safety
<1> QED
  BY <1>1, QueueInvariance, PTL

\* Both together: every held message is answered, and by one sender only.
THEOREM HeldIsAnsweredOnce == QueueSpec => []AnsweredOnce
  BY ExactlyOneWayOut, AnswersNeverBlock, PTL DEF AnsweredOnce

\* The queue is in the order of the IDs Hold gives out.
THEOREM QueueInOrder == QueueSpec => []OldestFirst
<1>1. QueueInv => OldestFirst
  BY DEF QueueInv, Safety
<1> QED
  BY <1>1, QueueInvariance, PTL

-----------------------------------------------------------------------------
(* The refinement.  What is known of a message is read off the one place   *)
(* it is in; a step moves it from one place to the next.                   *)

VerdictRead ==
    \A m \in Msgs :
        /\ mid[m] = 0 => AbsVerdict(m) = "none"
        /\ m \in Range(queue) => AbsVerdict(m) = "waiting"
        /\ m \in Range(drained) => AbsVerdict(m) = "forward"
        /\ found.msg = m => AbsVerdict(m) = Named(found.res.drop)
        /\ Answered(m) => AbsVerdict(m) = Named(Head(resume[m]).drop)
        /\ at[m] = "done" /\ mid[m] # 0 => AbsVerdict(m) = Named(got[m].drop)

LEMMA Reading == QueueInv => VerdictRead
<1> SUFFICES ASSUME QueueInv, NEW m \in Msgs
             PROVE  /\ mid[m] = 0 => AbsVerdict(m) = "none"
                    /\ m \in Range(queue) => AbsVerdict(m) = "waiting"
                    /\ m \in Range(drained) => AbsVerdict(m) = "forward"
                    /\ found.msg = m => AbsVerdict(m) = Named(found.res.drop)
                    /\ Answered(m) => AbsVerdict(m) = Named(Head(resume[m]).drop)
                    /\ at[m] = "done" /\ mid[m] # 0 => AbsVerdict(m) = Named(got[m].drop)
  BY DEF VerdictRead
<1>1. /\ at[m] = "parked" => mid[m] # 0
      /\ at[m] = "parked" <=>
             \/ m \in Range(queue) \/ m \in Range(drained) \/ found.msg = m \/ Answered(m)
      /\ m \in Range(queue) => m \notin Range(drained) /\ found.msg # m
      /\ m \in Range(drained) => found.msg # m
      /\ Answered(m) => m \notin Range(queue) /\ m \notin Range(drained) /\ found.msg # m
  BY DEF QueueInv, Safety, Numbers, OneWayOut, SendNeverBlocks
<1> QED
  BY <1>1 DEF AbsVerdict

LEMMA ReadingNext == QueueInv' => VerdictRead'
  BY Reading, PTL

\* The abstract variables as a step sees them.
AV == [m \in Msgs |-> AbsVerdict(m)]
AO == [m \in Msgs |-> AbsOut(m)]

\* What AbsVerdict and AbsOut look at.
Looks == <<queue, mid, resume, drained, found, got, at>>

LEMMA LooksAlike ==
    ASSUME UNCHANGED Looks
    PROVE  UNCHANGED <<AV, AO>>
<1>1. ASSUME NEW m \in Msgs PROVE AbsVerdict(m)' = AbsVerdict(m) /\ AbsOut(m)' = AbsOut(m)
  BY DEF Looks, AbsVerdict, AbsOut, Answered
<1> QED
  BY <1>1 DEF AV, AO

\* All but one message stay where they are.
LEMMA OthersAlike ==
    ASSUME NEW m \in Msgs, NEW n \in Msgs, n # m,
           mid'[n] = mid[n], resume'[n] = resume[n], got'[n] = got[n], at'[n] = at[n],
           n \in Range(queue') <=> n \in Range(queue),
           n \in Range(drained') <=> n \in Range(drained),
           found' = found \/ (found.msg # n /\ found'.msg # n)
    PROVE  AbsVerdict(n)' = AbsVerdict(n) /\ AbsOut(n)' = AbsOut(n)
  BY DEF AbsVerdict, AbsOut, Answered

LEMMA InitRefines == QueueInit => Held!Init
<1> SUFFICES ASSUME QueueInit PROVE Held!Init
  OBVIOUS
<1>1. \A m \in Msgs : AbsVerdict(m) = "none" /\ AbsOut(m) = "pending"
  BY QueueInitInvariant, Reading DEF VerdictRead, QueueInit, AbsOut
<1> QED
  BY <1>1 DEF Held!Init

\* A message that goes out unheld.
LEMMA Passing ==
    ASSUME QueueInv, QueueInv', NEW m \in Msgs, mid[m] = 0, at[m] # "done",
           at' = [at EXCEPT ![m] = "done"], got' = [got EXCEPT ![m] = Result(m, FALSE)],
           UNCHANGED <<queue, mid, resume, drained, found>>
    PROVE  Held!Pass(m)
<1>1. at'[m] = "done" /\ got'[m] = Result(m, FALSE)
      /\ \A n \in Msgs : n # m => at'[n] = at[n] /\ got'[n] = got[n]
  BY DEF QueueInv, QueueTypes
<1>2. AbsVerdict(m) = "none" /\ AbsVerdict(m)' = "none"
  BY Reading, ReadingNext DEF VerdictRead
<1>3. AbsOut(m) = "pending" /\ AbsOut(m)' = "forward"
  BY <1>1 DEF AbsOut, Result, Named
<1>4. \A n \in Msgs : n # m => AbsVerdict(n)' = AbsVerdict(n) /\ AbsOut(n)' = AbsOut(n)
  BY <1>1, OthersAlike
<1>5. AV' = AV
  BY <1>2, <1>4 DEF AV
<1>6. AO' = [AO EXCEPT ![m] = "forward"]
  BY <1>3, <1>4 DEF AO
<1> QED
  BY <1>2, <1>3, <1>5, <1>6 DEF Held!Pass, AV, AO

LEMMA ProcessRefines ==
    ASSUME QueueInv, QueueInv', NEW m \in Msgs, NEW dir \in MsgKinds, Process(m, dir)
    PROVE  Held!Pass(m) \/ UNCHANGED <<AV, AO>>
<1>1. mid[m] = 0 /\ at[m] = "new"
  BY DEF QueueInv, Safety, Numbers, Process
<1>2. CASE on /\ (dir = "response" => doResp)
  <2>1. at' = [at EXCEPT ![m] = "hold"] /\ UNCHANGED <<queue, mid, resume, drained, found, got>>
    BY <1>2 DEF Process, inVars, frameVars
  <2>2. /\ at'[m] = "hold"
        /\ \A n \in Msgs : n # m => at'[n] = at[n]
    BY <2>1 DEF QueueInv, QueueTypes
  <2>3. \A n \in Msgs : AbsVerdict(n)' = AbsVerdict(n) /\ AbsOut(n)' = AbsOut(n)
    BY <1>1, <2>1, <2>2 DEF AbsVerdict, AbsOut, Answered
  <2> QED
    BY <2>3 DEF AV, AO
<1>3. CASE ~(on /\ (dir = "response" => doResp))
  BY <1>1, <1>3, Passing DEF Process, inVars, frameVars
<1> QED
  BY <1>2, <1>3

LEMMA HoldCheckRefines ==
    ASSUME QueueInv, QueueInv', NEW m \in Msgs, HoldCheck(m)
    PROVE  Held!Pass(m) \/ UNCHANGED <<AV, AO>>
<1>1. mid[m] = 0 /\ at[m] = "hold"
  BY DEF QueueInv, Safety, Numbers, HoldCheck
<1>2. CASE on
  <2>1. /\ at' = [at EXCEPT ![m] = "enqueue"] /\ resume' = [resume EXCEPT ![m] = <<>>]
        /\ UNCHANGED <<queue, mid, drained, found, got>>
    BY <1>2 DEF HoldCheck, frameVars
  <2>2. /\ at'[m] = "enqueue"
        /\ \A n \in Msgs : n # m => at'[n] = at[n] /\ resume'[n] = resume[n]
    BY <2>1 DEF QueueInv, QueueTypes
  <2>3. ASSUME NEW n \in Msgs, n # m PROVE AbsVerdict(n)' = AbsVerdict(n) /\ AbsOut(n)' = AbsOut(n)
    BY <2>1, <2>2, <2>3, OthersAlike
  <2>4. AbsVerdict(m)' = AbsVerdict(m)
    BY <1>1, <2>1, Reading, ReadingNext DEF VerdictRead
  <2>5. AbsOut(m)' = AbsOut(m)
    BY <1>1, <2>2 DEF AbsOut
  <2> QED
    BY <2>3, <2>4, <2>5 DEF AV, AO
<1>3. CASE ~on
  BY <1>1, <1>3, Passing DEF HoldCheck, frameVars
<1> QED
  BY <1>2, <1>3

LEMMA HoldEnqueueRefines ==
    ASSUME QueueInv, QueueInv', NEW m \in Msgs, HoldEnqueue(m)
    PROVE  Held!Wait(m)
<1>1. /\ mid[m] = 0 /\ at[m] = "enqueue"
      /\ mid' = [mid EXCEPT ![m] = nextHeldID + 1] /\ queue' = Append(queue, m)
      /\ at' = [at EXCEPT ![m] = "parked"]
      /\ UNCHANGED <<resume, got, drained, found>>
  BY DEF QueueInv, Safety, Numbers, HoldEnqueue, frameVars
<1>2. /\ at'[m] = "parked"
      /\ \A n \in Msgs : n # m => at'[n] = at[n] /\ mid'[n] = mid[n]
  BY <1>1 DEF QueueInv, QueueTypes
<1>3. \A n : n \in Range(queue') <=> n \in Range(queue) \/ n = m
  BY <1>1, AppendMember DEF QueueInv, QueueTypes
<1>4. AbsVerdict(m) = "none" /\ AbsVerdict(m)' = "waiting"
  BY <1>1, <1>3, Reading, ReadingNext DEF VerdictRead
<1>5. AbsOut(m) = "pending" /\ AbsOut(m)' = "pending"
  BY <1>1, <1>2 DEF AbsOut
<1>6. \A n \in Msgs : n # m => AbsVerdict(n)' = AbsVerdict(n) /\ AbsOut(n)' = AbsOut(n)
  BY <1>1, <1>2, <1>3, OthersAlike
<1>7. AV' = [AV EXCEPT ![m] = "waiting"] /\ AO' = AO
  BY <1>4, <1>5, <1>6 DEF AV, AO
<1> QED
  BY <1>4, <1>5, <1>7 DEF Held!Wait, AV, AO

LEMMA HoldReceiveRefines ==
    ASSUME QueueInv, QueueInv', NEW m \in Msgs, HoldReceive(m)
    PROVE  Held!Release(m)
<1>1. /\ at[m] = "parked" /\ Answered(m)
      /\ got' = [got EXCEPT ![m] = Head(resume[m])]
      /\ resume' = [resume EXCEPT ![m] = Tail(resume[m])]
      /\ at' = [at EXCEPT ![m] = "done"]
      /\ UNCHANGED <<queue, mid, drained, found>>
  BY DEF HoldReceive, frameVars, Answered
<1>2. /\ at'[m] = "done" /\ got'[m] = Head(resume[m])
      /\ \A n \in Msgs : n # m => at'[n] = at[n] /\ got'[n] = got[n] /\ resume'[n] = resume[n]
  BY <1>1 DEF QueueInv, QueueTypes
<1>3. mid[m] # 0
  BY <1>1 DEF QueueInv, Safety, Numbers
<1> DEFINE v == Named(Head(resume[m]).drop)
<1>4. AbsVerdict(m) = v /\ AbsVerdict(m)' = v
  BY <1>1, <1>2, <1>3, Reading, ReadingNext DEF VerdictRead
<1>5. AbsOut(m) = "pending" /\ AbsOut(m)' = v
  BY <1>1, <1>2 DEF AbsOut
<1>6. v \in {"forward", "drop"}
  BY DEF Named
<1> HIDE DEF v
<1>7. \A n \in Msgs : n # m => AbsVerdict(n)' = AbsVerdict(n) /\ AbsOut(n)' = AbsOut(n)
  BY <1>1, <1>2, OthersAlike
<1>8. AV' = AV
  BY <1>4, <1>7 DEF AV
<1>9. AO' = [AO EXCEPT ![m] = v]
  BY <1>5, <1>7 DEF AO
<1> QED
  BY <1>4, <1>5, <1>6, <1>8, <1>9 DEF Held!Release, AV, AO

\* drainAll's verdict: forward, for the whole queue at once.
LEMMA DrainTakeRefines ==
    ASSUME QueueInv, QueueInv', DrainTake
    PROVE  Held!Decide(Range(queue), "forward")
<1>1. /\ drained' = queue /\ queue' = <<>> /\ Range(queue') = {}
      /\ UNCHANGED <<mid, resume, found, got, at>>
  BY EmptyRange DEF DrainTake, carrierVars
<1>2. drained = <<>> /\ Range(drained) = {}
  BY EmptyRange DEF DrainTake, QueueInv, Safety, Locals
<1>3. ASSUME NEW n \in Msgs
      PROVE  AbsVerdict(n)' = IF n \in Range(queue) THEN "forward" ELSE AbsVerdict(n)
  <2>1. CASE n \in Range(queue)
    BY <1>1, <2>1, ReadingNext DEF VerdictRead
  <2>2. CASE n \notin Range(queue)
    BY <1>1, <1>2, <2>2 DEF AbsVerdict, Answered
  <2> QED
    BY <2>1, <2>2
<1>4. \A n \in Range(queue) : n \in Msgs /\ AbsVerdict(n) = "waiting"
  BY Reading DEF VerdictRead, QueueInv, QueueTypes, Range
<1>5. \A n \in Msgs : AbsOut(n)' = AbsOut(n)
  BY <1>1 DEF AbsOut
<1>6. AV' = [n \in Msgs |-> IF n \in Range(queue) THEN "forward" ELSE AV[n]] /\ AO' = AO
  BY <1>3, <1>5 DEF AV, AO
<1>7. \A n \in Range(queue) : AV[n] = "waiting"
  BY <1>4 DEF AV
<1> QED
  BY <1>6, <1>7 DEF Held!Decide, AV, AO

\* resolve's verdict, for the message it takes out of the queue.
LEMMA ResolveRefines ==
    ASSUME QueueInv, QueueInv', frame = "clicks", NEW m, NEW res, Resolve(m, res),
           UNCHANGED <<mid, resume, got, at, drained>>
    PROVE  \/ UNCHANGED <<AV, AO>>
           \/ \E n \in Msgs : Held!Decide({n}, Named(res.drop))
<1>1. CASE UNCHANGED <<queue, found, frame>>
  BY <1>1, LooksAlike DEF Looks
<1>2. ASSUME NEW i \in DOMAIN queue,
             queue' = RemoveAt(queue, i),
             found' = [msg |-> queue[i], res |-> res]
      PROVE  \E n \in Msgs : Held!Decide({n}, Named(res.drop))
  <2>1. queue \in Seq(Msgs)
    BY DEF QueueInv, QueueTypes
  <2>2. i \in 1..Len(queue) /\ Len(queue) \in Nat /\ queue[i] \in Msgs
    BY <2>1
  <2>3. PICK q \in Msgs : q = queue[i]
    BY <2>2
  <2>4. q \in Range(queue)
    BY <2>3 DEF Range
  <2>5. \A n : n \in Range(queue') <=> n \in Range(queue) /\ n # q
    BY <1>2, <2>1, <2>2, <2>3, QueuedOnce, RemoveAtMember DEF QueueInv, Safety
  <2>6. found.msg \notin Msgs
    BY DEF QueueInv, Safety, Locals
  <2>7. found'.msg = q /\ found'.res = res
    BY <1>2, <2>3
  <2>8. AbsVerdict(q) = "waiting" /\ AbsVerdict(q)' = Named(res.drop)
    BY <2>4, <2>7, Reading, ReadingNext DEF VerdictRead
  <2>9. AbsOut(q)' = AbsOut(q)
    BY <2>4 DEF AbsOut
  <2>10. ASSUME NEW n \in Msgs, n # q PROVE AbsVerdict(n)' = AbsVerdict(n) /\ AbsOut(n)' = AbsOut(n)
    BY <2>4, <2>5, <2>6, <2>7, <2>10, OthersAlike
  <2> DEFINE v == Named(res.drop)
  <2> HIDE DEF v
  <2>11. AbsVerdict(q)' = v
    BY <2>8 DEF v
  <2>12. AV' = [n \in Msgs |-> IF n \in {q} THEN v ELSE AV[n]] /\ AO' = AO
    BY <2>9, <2>10, <2>11 DEF AV, AO
  <2>13. \A n \in {q} : AV[n] = "waiting"
    BY <2>4, <2>8 DEF AV
  <2>14. Held!Decide({q}, v)
    BY <2>12, <2>13 DEF Held!Decide, AV, AO
  <2> QED
    BY <2>4, <2>14 DEF v
<1> QED
  BY <1>1, <1>2 DEF Resolve

\* Answers on their way change no verdict.
LEMMA DrainSendRefines == ASSUME QueueInv, QueueInv', DrainSend PROVE UNCHANGED <<AV, AO>>
<1>1. drained # <<>> /\ drained \in Seq(Msgs) /\ IsInjective(drained)
  BY DEF DrainSend, QueueInv, Safety, QueueTypes, DrainedOnce
<1>2. PICK h \in Msgs : h = Head(drained)
  BY <1>1, TailMember
<1>3. /\ drained' = Tail(drained)
      /\ resume' = [resume EXCEPT ![h] = <<Result(h, FALSE)>>]
      /\ UNCHANGED <<queue, mid, found, got, at>>
  BY <1>2 DEF DrainSend, carrierVars
<1>4. /\ h \in Range(drained)
      /\ \A n : n \in Range(drained') <=> n \in Range(drained) /\ n # h
  BY <1>1, <1>3, <1>2, TailMember
<1>5. Result(h, FALSE) \in Results
  BY <1>4 DEF Result, Results
<1>6. /\ resume'[h] # <<>> /\ Head(resume'[h]) = Result(h, FALSE)
      /\ \A n \in Msgs : n # h => resume'[n] = resume[n]
  BY <1>3, <1>4, <1>5, Singleton DEF QueueInv, QueueTypes
<1>7. AbsVerdict(h) = "forward"
  BY <1>4, Reading DEF VerdictRead
<1>8. AbsVerdict(h)' = "forward"
  <2>1. AbsVerdict(h)' = Named(Head(resume'[h]).drop)
    BY <1>4, <1>6, ReadingNext DEF VerdictRead, Answered
  <2> QED
    BY <1>6, <2>1 DEF Named, Result
<1>9. AbsOut(h)' = AbsOut(h)
  BY <1>3 DEF AbsOut
<1>10. ASSUME NEW n \in Msgs, n # h PROVE AbsVerdict(n)' = AbsVerdict(n) /\ AbsOut(n)' = AbsOut(n)
  BY <1>3, <1>4, <1>6, <1>10, OthersAlike
<1> QED
  BY <1>7, <1>8, <1>9, <1>10 DEF AV, AO

LEMMA ResolveSendRefines == ASSUME QueueInv, QueueInv', ResolveSend PROVE UNCHANGED <<AV, AO>>
<1>1. found.msg \in Msgs /\ found.res \in Results
  BY DEF ResolveSend, QueueInv, Safety, Locals, QueueTypes
<1>2. PICK f \in Msgs : f = found.msg
  BY <1>1
<1>3. PICK r \in Results : r = found.res
  BY <1>1
<1>4. /\ resume' = [resume EXCEPT ![f] = <<r>>]
      /\ found' = NoFound
      /\ UNCHANGED <<queue, mid, drained, got, at>>
  BY <1>2, <1>3 DEF ResolveSend, carrierVars
<1>5. AbsVerdict(f) = Named(r.drop)
  BY <1>2, <1>3, Reading DEF VerdictRead
<1>6. found'.msg = None /\ None \notin Msgs
  BY <1>4, NoneAssumption DEF NoFound
<1>7. \A n \in Msgs : n # f => found.msg # n
  BY <1>2
<1>8. /\ resume'[f] # <<>> /\ Head(resume'[f]) = r
      /\ \A n \in Msgs : n # f => resume'[n] = resume[n]
  BY <1>4, Singleton DEF QueueInv, QueueTypes
<1>9. AbsVerdict(f)' = Named(r.drop)
  BY <1>8, ReadingNext DEF VerdictRead, Answered
<1>10. AbsOut(f)' = AbsOut(f)
  BY <1>4 DEF AbsOut
<1>11. ASSUME NEW n \in Msgs, n # f PROVE AbsVerdict(n)' = AbsVerdict(n) /\ AbsOut(n)' = AbsOut(n)
  BY <1>4, <1>6, <1>7, <1>8, <1>11, OthersAlike
<1> QED
  BY <1>5, <1>9, <1>10, <1>11 DEF AV, AO

LEMMA StepRefines ==
    ASSUME QueueInv, QueueInv', [QueueNext]_queueVars
    PROVE  [Held!Next]_(Held!vars)
<1>1. ASSUME UNCHANGED <<AV, AO>> PROVE UNCHANGED Held!vars
  BY <1>1 DEF Held!vars, AV, AO
<1>2. ASSUME NEW m \in Msgs, NEW dir \in MsgKinds, Process(m, dir) PROVE [Held!Next]_(Held!vars)
  BY <1>1, <1>2, ProcessRefines DEF Held!Next
<1>3. ASSUME NEW m \in Msgs, HoldCheck(m) PROVE [Held!Next]_(Held!vars)
  BY <1>1, <1>3, HoldCheckRefines DEF Held!Next
<1>4. ASSUME NEW m \in Msgs, HoldEnqueue(m) PROVE Held!Next
  BY <1>4, HoldEnqueueRefines DEF Held!Next
<1>5. ASSUME NEW m \in Msgs, HoldReceive(m) PROVE Held!Next
  BY <1>5, HoldReceiveRefines DEF Held!Next
<1>6. CASE DrainTake
  <2>1. Range(queue) \in SUBSET Msgs
    BY DEF QueueInv, QueueTypes, Range
  <2> QED
    BY <1>6, <2>1, DrainTakeRefines DEF Held!Next
<1>7. CASE DrainSend
  BY <1>1, <1>7, DrainSendRefines
<1>8. CASE ResolveSend
  BY <1>1, <1>8, ResolveSendRefines
<1>9. ASSUME NEW m, NEW res, frame = "clicks", Resolve(m, res), UNCHANGED <<mid, resume, carrierVars, drained>>
      PROVE  [Held!Next]_(Held!vars)
  <2>1. \/ UNCHANGED <<AV, AO>>
        \/ \E n \in Msgs : Held!Decide({n}, Named(res.drop))
    BY <1>9, ResolveRefines DEF carrierVars
  <2>2. Named(res.drop) \in {"forward", "drop"}
    BY DEF Named
  <2> QED
    BY <1>1, <2>1, <2>2 DEF Held!Next
<1>10. CASE Forward
  BY <1>9, <1>10 DEF Forward
<1>11. CASE Drop
  BY <1>9, <1>11 DEF Drop
<1>12. ASSUME UNCHANGED Looks PROVE [Held!Next]_(Held!vars)
  BY <1>1, <1>12, LooksAlike
<1>13. CASE NoToggle \/ DrainDone \/ TakeHead \/ NoMoreClicks \/ UNCHANGED queueVars
  <2>1. UNCHANGED Looks
    BY <1>13 DEF NoToggle, DrainDone, TakeHead, NoMoreClicks, queueVars, inVars, carrierVars, frameVars, Looks
  <2> QED
    BY <1>12, <2>1
<1>14. ASSUME NEW b \in BOOLEAN, SetOn(b) \/ SetInterceptResponses(b) \/ Layout(b)
       PROVE  [Held!Next]_(Held!vars)
  <2>1. UNCHANGED Looks
    BY <1>14 DEF SetOn, SetInterceptResponses, Layout, inVars, carrierVars, frameVars, Looks
  <2> QED
    BY <1>12, <2>1
<1> QED
  BY <1>2, <1>3, <1>4, <1>5, <1>6, <1>7, <1>8, <1>10, <1>11, <1>13, <1>14
  DEF QueueNext, Goroutine, UIFrame, UIClick

\* Whatever the number of messages, and however clicks, switches and goroutines
\* interleave: each message gets at most one verdict, which is never revised or
\* given to another message, and goes out with it (manual_intercept.go, Hold, resolve
\* and drainAll).
THEOREM Refinement == QueueSpec => ImplementsHeldMessages
<1>1. QueueSpec => Held!Init
  BY InitRefines, PTL DEF QueueSpec
<1>2. QueueInv /\ QueueInv' /\ [QueueNext]_queueVars => [Held!Next]_(Held!vars)
  BY StepRefines
<1> QED
  BY <1>1, <1>2, QueueInvariance, PTL DEF QueueSpec, ImplementsHeldMessages, Held!Spec
=============================================================================
