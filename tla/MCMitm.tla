------------------------------- MODULE MCMitm -------------------------------
(* Model-checking instance of Interceptor and FlowStore: a run has a few       *)
(* messages or a few flows, chosen once and for all, as the two share nothing. *)
EXTENDS FlowStore, Interceptor, TLC

VARIABLE part   \* what moves: the queue of held messages, or the store

mitmVars == <<part, queueVars, storeVars>>

Queue == part = "queue" /\ UNCHANGED <<part, storeVars>>
Store == part = "store" /\ UNCHANGED <<part, queueVars>>

\* The flows are alike: they are taken to be captured in one order.
InOrder == \A f, g \in Flows : f < g /\ Created(g) => Created(f)

MitmInit ==
    /\ part \in {"queue", "store"}
    /\ QueueInit
    /\ StoreInit
    /\ part = "queue" => \A f, g \in Flows : rec[f] = rec[g]

\* Its bounds used up, the store rests; the queue never has to.
Rests == Store /\ UNCHANGED storeVars

MitmNext ==
    \/ Queue /\ QueueNext
    \/ Store /\ StoreNext /\ InOrder'
    \/ Rests

\* As QueueFairness; the store promises nothing in the end.
MitmFairness ==
    /\ \A m \in Msgs : WF_mitmVars(Queue /\ (HoldCheck(m) \/ HoldEnqueue(m) \/ HoldReceive(m)))
    /\ WF_mitmVars(Queue /\ UIFrame)

MitmSpec == MitmInit /\ [][MitmNext]_mitmVars /\ MitmFairness
=============================================================================
