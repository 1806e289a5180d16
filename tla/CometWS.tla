------------------------------- MODULE CometWS -------------------------------
(***************************************************************************)
(* The upstream WebSocket client (src/internal/chain/cometws/client.go):   *)
(* Run connects to one endpoint after the other, subscribes, is live from  *)
(* the first event on, and starts over after any failure.                  *)
(*                                                                         *)
(* The wait before a retry has any length, so of attempt only the endpoint *)
(* it selects is kept.  What an event contains is the matter of module     *)
(* Orchestrator; the callback onLifecycle is that of module Upstream.      *)
(***************************************************************************)
EXTENDS Endpoints

VARIABLES
  attempt,    \* the attempt counter of Run, modulo the number of endpoints
  wsState     \* Client.state, "stopped" once Run has returned

wsVars == <<attempt, wsState>>

States == {"disconnected", "connecting", "subscribing", "live", "reconnecting", "stopped"}

WSInit == attempt = 0 /\ wsState = "disconnected"

(* Run, and the top of connectAndPump.                                     *)
Connect ==
  /\ wsState = "disconnected"
  /\ wsState' = "connecting" /\ UNCHANGED attempt

(* The dial succeeds, and the subscriptions are written.                   *)
Dialled ==
  /\ wsState = "connecting" /\ Answers(attempt)
  /\ wsState' = "subscribing" /\ UNCHANGED attempt

(* The first event that decodes; acknowledgements and events that do not   *)
(* decode leave the client as it is, but keep it connected.                *)
FirstEvent ==
  /\ wsState = "subscribing" /\ cond[attempt] = "good"
  /\ wsState' = "live" /\ UNCHANGED attempt

(* connectAndPump returns an error: the URL is not one, the dial or a      *)
(* write or a read fails, a subscription is refused, or nothing arrives    *)
(* within idleTimeout.                                                     *)
Fails ==
  \/ wsState = "connecting" /\ ~Answers(attempt)
  \/ wsState \in {"subscribing", "live"} /\ cond[attempt] \in {"down", "silent"}

(* Mutant: the counter starts over after every failure.                    *)
Disconnected_Resets ==
  /\ Fails
  /\ attempt' = 0 /\ wsState' = "reconnecting"

Disconnected ==
  /\ Fails
  /\ attempt' = IF wsState = "live" THEN 0 ELSE attempt
  /\ wsState' = "reconnecting"

(* The wait is over.                                                       *)
Retry ==
  /\ wsState = "reconnecting"
  /\ attempt' = (attempt + 1) % N
  /\ wsState' = "connecting"

(* ctx is cancelled: Run returns, wherever it is.                          *)
StopWS ==
  /\ wsState # "stopped"
  /\ wsState' = "stopped" /\ UNCHANGED attempt
=============================================================================
