----------------------------- MODULE MCUpstream -----------------------------
(* Two endpoints, and part says what is going on: "ws", the WebSocket      *)
(* client and one caller; "calls", two callers; "roster", a caller that    *)
(* reads pages and one that does not, on a chain that grows.               *)
EXTENDS Upstream

CONSTANTS status, fallback, roster

VARIABLE part

MCSetAt(h) == IF h = 1 THEN <<1, 2>> ELSE <<2, 3>>

Calling ==
  CASE part = "ws" -> {status}
    [] part = "calls" -> {status, fallback}
    [] part = "roster" -> {status, roster}

MCInit ==
  /\ part \in {"ws", "calls", "roster"} /\ NodesInit /\ PoolInit
  /\ attempt = 0 /\ wsState = IF part = "ws" THEN "disconnected" ELSE "stopped"
  /\ part # "ws" => \A e \in Nodes : cond[e] \in {"down", "good"}

MCNext ==
  /\ Next /\ UNCHANGED part
  /\ part # "ws" => wsVars' = wsVars /\ \A e \in Nodes : cond'[e] \in {"down", "good"}
  /\ part # "roster" => head' = head
  /\ \A w \in Callers \ Calling : call'[w] = call[w]

MCFairness ==
  /\ WF_upstreamVars(part = "ws" /\ (Connect \/ Dialled \/ FirstEvent \/ Disconnected \/ Retry)
                     /\ Lifecycle /\ UNCHANGED nodeVars)
  /\ \A w \in Callers :
       WF_upstreamVars(w \in Calling /\ (StartCall(w) \/ Progress(w)) /\ UNCHANGED <<nodeVars, wsVars>>)
  /\ \A i \in Nodes : WF_upstreamVars(HalfOpen(i) /\ UNCHANGED <<nodeVars, wsVars>>)

MCSpec == MCInit /\ [][MCNext]_<<upstreamVars, part>> /\ MCFairness
=============================================================================
