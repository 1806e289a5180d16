------------------------------ MODULE MCSignals ------------------------------
(* What one goroutine tells another without waiting for it: the token that *)
(* wakes the validators poller, and the event bus.  They do not meet; part *)
(* says which of them a behaviour follows.                                 *)
EXTENDS MCOrchestrator, MCEventBus

VARIABLE part

SignalVars == <<mcvars, busVars, part>>

SignalInit == AllInit /\ BusInit /\ part \in {"token", "bus"}

SignalNext ==
  /\ UNCHANGED part
  /\ \/ part = "token" /\ AllNext /\ UNCHANGED busVars
     \/ part = "bus" /\ BusNext /\ UNCHANGED mcvars

SignalFairness ==
  /\ part = "token" => Fairness
  /\ \A p \in Publishers : WF_busVars(Publish(p))

SignalSpec == SignalInit /\ [][SignalNext]_SignalVars /\ SignalFairness
=============================================================================
