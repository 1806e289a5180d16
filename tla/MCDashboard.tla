---------------------------- MODULE MCDashboard ----------------------------
(* Instance of Dashboard, Store and Comparison for TLC; which of them a    *)
(* behaviour follows is the constant value of part.                        *)
EXTENDS Store, Comparison

CONSTANTS a1, a2
VARIABLE part

MCHeights == 0..3
MCRounds == -1..2

(* The part "store" begins once a validator set is known.  Its inputs are  *)
(* two rounds of height 1, which may commit, and the first round of height *)
(* 2, with votes for one block by one validator.                           *)
Places == {<<1, 0>>, <<1, 1>>, <<2, 0>>}
StoreVotes == {v \in Votes : <<v.height, v.round>> \in Places /\ v.addr = a1 /\ v.hash # Nil}

StoreChanges ==
  /\ \/ CommitsBlock(1)
     \/ \E at \in Places : StartsRound(at[1], at[2], 1, a1)
     \/ \E v \in StoreVotes : TakesVote(v)
     \/ \E r \in {0, 1} : FallsBack(1, r, 3)
     \/ PassesStatus(1) \/ Relists({a2}, 0)
  /\ UNCHANGED <<bus, view, feed>>

StoreSteps ==
  \/ StoreChanges \/ (\E g \in Publishers : Publish(g)) \/ Dispatch
  \/ StateSnapshot \/ ContextSnapshot \/ ChangesPage

StoreStart ==
  s = [height |-> 0, round |-> 0, step |-> 0, lastCommittedHeight |-> 0, validatorHeight |-> 0,
       lastRound |-> [loaded |-> TRUE, round |-> 0, rows |-> [a \in {a1} |-> EmptyRow]],
       blocks |-> <<>>,
       health |-> [wsConnected |-> FALSE, event |-> "never", http |-> "fresh"]]

(* The nodes are up, though a request may fail at any time.  The second    *)
(* may leave the chain of the first at height 2; the third may have left   *)
(* it before, or be of another chain.                                      *)
Agreed == [h \in 1..MaxHead |-> "same"]
ComparisonStart ==
  /\ cond = [e \in Nodes |-> "good"]
  /\ chain \in {[e \in Nodes |-> IF e = 2 THEN c ELSE "ours"] : c \in Chains}
  /\ appHash[0] = Agreed /\ appHash[1] \in {Agreed, <<"same", "fork">>}
  /\ appHash[2] \in {Agreed, <<"fork", "fork">>} /\ (chain[2] = "other" => appHash[2] = Agreed)

ComparisonSteps ==
  \/ ComparisonNext /\ UNCHANGED nodeVars
  \/ (\E e \in Nodes : Grows(e)) /\ UNCHANGED comparisonVars

Alone ==
  /\ cond = [e \in Nodes |-> "down"]
  /\ chain = [e \in Nodes |-> "ours"] /\ appHash = [e \in Nodes |-> Agreed]

MCInit ==
  /\ NodesInit /\ ComparisonInit
  /\ \/ part = "server" /\ Init /\ Alone
     \/ part = "store" /\ StoreStart /\ Alone
     \/ part = "comparison" /\ Init /\ ComparisonStart
  /\ TabInit

MCNext ==
  /\ UNCHANGED part
  /\ \/ part = "server" /\ Next /\ UNCHANGED <<storeVars, nodeVars, comparisonVars>>
     \/ part = "store" /\ StoreSteps /\ UNCHANGED <<nodeVars, comparisonVars>>
     \/ part = "comparison" /\ ComparisonSteps /\ UNCHANGED <<s, storeVars>>

MCSpec == MCInit /\ [][MCNext]_<<s, storeVars, nodeVars, comparisonVars, part>>
=============================================================================
