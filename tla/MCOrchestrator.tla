---------------------------- MODULE MCOrchestrator ----------------------------
(* The instances of Orchestrator for TLC.  Each behaviour pits the event    *)
(* loop against some of the pollers; against is chosen in the initial state *)
(* and never changes.                                                       *)
EXTENDS Orchestrator

CONSTANTS a1, a2, A, B

VARIABLE against

mcvars == <<vars, against>>

NewBlockEvent(h) == [kind |-> "new_block", height |-> h]
NewRoundEvent(h, r) == [kind |-> "new_round", height |-> h, round |-> r, step |-> 1, proposer |-> a1]
VoteEvent(h, r, hash) ==
  [kind |-> "vote",
   vote |-> [height |-> h, round |-> r, type |-> "precommit", addr |-> a1, hash |-> hash]]
UpdateEvent == [kind |-> "validator_set_updates"]

OneValidator == [a \in {a1} |-> 1]
TwoValidators == [a \in {a1, a2} |-> 1]
Single == {OneValidator}
SingleOrBoth == {OneValidator, TwoValidators}
CanonicalA == [h \in Heights |-> A]
RosterAtOne == {[roster |-> OneValidator, height |-> 1]}
RostersAtOne == {[roster |-> m, height |-> 1] : m \in SingleOrBoth}

(* Two heights, the validator votes at the second; one height with two     *)
(* rounds.                                                                 *)
TwoHeights == {NewBlockEvent(1), VoteEvent(2, 0, A)}
TwoRounds == {NewRoundEvent(1, 1), VoteEvent(1, 0, A), VoteEvent(1, 1, A)}

(* The votes of two validators in one round.                               *)
TwoVoters == {VoteEvent(1, 0, A), [VoteEvent(1, 0, A) EXCEPT !.vote.addr = a2]}

AllEvents == TwoHeights \cup TwoRounds \cup TwoVoters
Updates == {UpdateEvent}
SecondRound == {[height |-> 1, round |-> 1, step |-> 3]}

(* A validator that signs two blocks.                                      *)
Conflicting == {VoteEvent(1, 0, A), VoteEvent(1, 0, B)}
FirstRound == {[height |-> 1, round |-> 0, step |-> 3]}

Stream(events) ==
  \/ \E ev \in events : Receive(ev) \/ GoLive(ev)
  \/ Deliver \/ DropOldest \/ Disconnect
  \/ TakeEvent \/ HandleEvent

(* The validators poller on a chain with the validators of roster m.       *)
RefreshRoster(m) ==
  \/ BeginRefresh \/ WakeRefresh \/ ValidatorsFail
  \/ \E x \in RosterReplies : x.roster = m /\ ValidatorsArrive(x)
  \/ MergeValidators \/ SetValidators

(* The refresh that pollLoop makes at once, without the later ones.        *)
FirstRefresh == refresh # Idle /\ RefreshRoster(OneValidator)

StatusNext == Stream(TwoHeights) \/ RefreshStatus \/ RefreshRoster(OneValidator)
FallbackNext == Stream(TwoRounds) \/ RefreshConsensus \/ FirstRefresh \/ Age
VotersNext == Stream(TwoVoters) \/ RefreshRoster(TwoValidators)
ConflictNext == Stream(Conflicting) \/ RefreshConsensus \/ RefreshValidators \/ Age

MCInit == Init /\ against \in {"status", "fallback", "voters"}
MCNext ==
  /\ \/ against = "status" /\ StatusNext
     \/ against = "fallback" /\ FallbackNext
     \/ against = "voters" /\ VotersNext
  /\ UNCHANGED against

MCSpec == MCInit /\ [][MCNext]_mcvars

VotersInit == Init /\ against = "voters"

VotersSpec == VotersInit /\ [][VotersNext /\ UNCHANGED against]_mcvars

(* Everything at once.                                                     *)
AllInit == Init /\ against = "all"
AllNext == Next /\ UNCHANGED against

ConflictInit == Init /\ against = "conflict"

ConflictSpec == ConflictInit /\ [][ConflictNext /\ UNCHANGED against]_mcvars
=============================================================================
