------------------------------ MODULE Endpoints ------------------------------
(***************************************************************************)
(* The nodes cmt-top reads, as the code in src/internal/chain sees them.   *)
(* They are configured as a list; module CometWS and module RPCPool walk   *)
(* that list in turn.  A node is down (it refuses, hangs or fails), silent *)
(* (it answers HTTP and accepts subscriptions but sends no event), noisy   *)
(* (like a silent one, but it keeps sending what does not decode) or good. *)
(* Its head is the height of its newest block.                             *)
(***************************************************************************)
EXTENDS Naturals, FiniteSets, Sequences

CONSTANTS
  N,         \* number of endpoints
  MaxHead    \* bound: heights

ASSUME EndpointsAssumption == N \in Nat \ {0} /\ MaxHead \in Nat \ {0}

VARIABLES cond, head

nodeVars == <<cond, head>>

Nodes == 0..(N - 1)
Conditions == {"down", "silent", "noisy", "good"}

NodesInit == cond \in [Nodes -> Conditions] /\ head = [e \in Nodes |-> 1]

Changes(e) ==
  /\ \E c \in Conditions \ {cond[e]} : cond' = [cond EXCEPT ![e] = c]
  /\ UNCHANGED head

(* A node that is up follows the chain.                                    *)
Grows(e) ==
  /\ cond[e] # "down" /\ head[e] < MaxHead
  /\ head' = [head EXCEPT ![e] = @ + 1]
  /\ UNCHANGED cond

NodesNext == \E e \in Nodes : Changes(e) \/ Grows(e)

Answers(e) == cond[e] # "down"
=============================================================================
