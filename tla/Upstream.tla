------------------------------- MODULE Upstream -------------------------------
(***************************************************************************)
(* What cmt-top reads from: the WebSocket client and the HTTP pool over    *)
(* the same list of nodes.  The lifecycle callback that                    *)
(* src/internal/core/orchestrator.go gives the WebSocket client makes the  *)
(* endpoint that is live the active one of the pool.                       *)
(***************************************************************************)
EXTENDS CometWS, RPCPool

upstreamVars == <<nodeVars, wsVars, poolVars>>

(* SetActive *)
SetActive(e) == active' = e /\ UNCHANGED <<breaker, call>>

(* setState calls onLifecycle.                                             *)
Lifecycle == IF wsState' = "live" THEN SetActive(attempt) ELSE UNCHANGED poolVars

WSSteps == Connect \/ Dialled \/ FirstEvent \/ Disconnected \/ Retry \/ StopWS
WSNext == WSSteps /\ Lifecycle /\ UNCHANGED nodeVars

PoolNext ==
  /\ \/ \E w \in Callers : StartCall(w) \/ Progress(w)
     \/ \E i \in Nodes : HalfOpen(i)
  /\ UNCHANGED <<nodeVars, wsVars>>

Init == NodesInit /\ WSInit /\ PoolInit
Next == WSNext \/ PoolNext \/ (NodesNext /\ UNCHANGED <<wsVars, poolVars>>)

(* Run goes on until it is stopped, callers call again and again, and an   *)
(* attempt or an open breaker ends by its timeout.                         *)
Fairness ==
  /\ WF_upstreamVars((Connect \/ Dialled \/ FirstEvent \/ Disconnected \/ Retry)
                     /\ Lifecycle /\ UNCHANGED nodeVars)
  /\ \A w \in Callers :
       WF_upstreamVars((StartCall(w) \/ Progress(w)) /\ UNCHANGED <<nodeVars, wsVars>>)
  /\ \A i \in Nodes : WF_upstreamVars(HalfOpen(i) /\ UNCHANGED <<nodeVars, wsVars>>)

Spec == Init /\ [][Next]_upstreamVars /\ Fairness

-----------------------------------------------------------------------------
(* Properties *)

(* A call that fails has turned to every endpoint, whatever other calls    *)
(* and the WebSocket client did to the active one meanwhile.               *)
EveryEndpointTried ==
  \A w \in Callers : call[w].result = "failed" => call[w].tried = Nodes

(* Paging goes on while the chain grows and endpoints change: what it      *)
(* returns is the validator set of one height, and growth alone never      *)
(* makes its pages inconsistent.                                           *)
RosterSound ==
  \A w \in RosterCallers :
     /\ call[w].result # "inconsistent"
     /\ call[w].result = "ok" => call[w].pages.all = SetAt(call[w].pages.pinned)

(* While some endpoint stays good the client is live again and again: the  *)
(* rotation reaches it wherever the counter stands.  Only a noisy endpoint *)
(* could hold it back: any message extends the read deadline.              *)
LiveAgain ==
  (\E e \in Nodes : <>[](cond[e] = "good" /\ \A f \in Nodes : cond[f] # "noisy"))
    => []<>(wsState \in {"live", "stopped"})

(* While some endpoint answers and is not behind the others, a caller that *)
(* calls again and again succeeds again and again: no breaker stays open   *)
(* or half-open for good, and every call comes to that endpoint.           *)
CallsSucceedAgain ==
  (\E e \in Nodes : <>[](Answers(e) /\ \A f \in Nodes : head[f] <= head[e])) =>
     \A w \in Callers \ RosterCallers :
        []<>(call[w].pc # "idle") => []<>(call[w].result = "ok")
=============================================================================
