------------------------------- MODULE MCStream -------------------------------
(* Instances of Stream for TLC.                                             *)
EXTENDS Stream

(* Frames with a payload are twice as large as a pong or a context header.  *)
TwoSizes == [type \in FrameTypes |-> IF type \in {"state.snapshot", "patch"} THEN 2 ELSE 1]

(* A behaviour has at most two of the periodic snapshots, actions of the    *)
(* user and failures.  None of them is assumed to happen.                   *)
MCNext == Next /\ ticks' + user' + failures' <= 2

MCSpec == Init /\ [][MCNext]_vars /\ Fairness
=============================================================================
