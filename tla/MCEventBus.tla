------------------------------ MODULE MCEventBus ------------------------------
(* Instances of EventBus for TLC.                                           *)
EXTENDS EventBus, TLC

CONSTANTS p1, p2, i1, k1, k2

(* A subscription to one kind, and one to every kind.                      *)
OneKind == i1 :> {k1}
EveryKind == i1 :> {}
=============================================================================
