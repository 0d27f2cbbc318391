----------------------------- MODULE MCWSChannel -----------------------------
(* Model-checking instance of WSChannel; a session and a frame are numbers, so *)
(* nothing is symmetric.                                                       *)
EXTENDS WSChannel, TLC

\* Bound: no session is started after sessions overlapped.
FewOverlap == overlapped => ui' # "connect"

MCSpec == ChannelInit /\ [][ChannelNext /\ FewOverlap]_allVars /\ ChannelFairness
=============================================================================
