------------------------------ MODULE MCTracker ------------------------------
(* The instance of Tracker for TLC.  Three groups of callers, one of them   *)
(* per behaviour, each aimed at one group of limits; callers is chosen in   *)
(* the initial state and never changes.                                     *)
EXTENDS Tracker

CONSTANTS a1, a2, a3, A, B, Long

VARIABLE callers

mcvars == <<vars, callers>>

(* Values that admission must reject, next to ones it accepts.             *)
MCHeights == 0..3
MCRounds == -1..2

(* Validator sets.  In EqualPair both votes are needed for two thirds; a2  *)
(* and a3 are unknown voters to OneOfThree.                                *)
EqualPair == [a \in {a1, a2} |-> 1]
OneOfThree == [a \in {a1} |-> 1]
MCRosters == {EqualPair, OneOfThree}

VotesOf(hs, rs, as, xs) ==
  {v \in Votes : v.height \in hs /\ v.round \in rs /\ v.addr \in as /\ v.hash \in xs}

(* Every vote is a stale or repeated one for the dashboard, so none        *)
(* reaches the detector: conflicting and unknown voters, a validator set   *)
(* that arrives late, malformed values.                                    *)
EvidenceVotes == VotesOf({0, 1}, {-1, 0}, Addresses, BlockHashes)
EvidenceNext ==
  \/ SetValidators(OneOfThree)
  \/ \E h \in {0, 1}, r \in {-1, 0}, p \in Proposers : ObserveRound(h, r, p)
  \/ \E v \in EvidenceVotes : ObserveVote(v)
  \/ \E h \in {0, 1}, hash \in BlockHashes : ResolveCommit(h, hash)

(* Rounds, accepted votes and commits in any order, before any validator   *)
(* set is known: three heights with room for two, two rounds with room for *)
(* one.                                                                    *)
RetentionVotes == VotesOf({1, 2, 3}, {0, 2}, {a1}, {A}) \cup VotesOf({2}, {0}, {a1}, {Nil})
RetentionNext ==
  \/ \E h \in {1, 2, 3}, r \in {0, 2} : ObserveRound(h, r, NoProposer)
  \/ \E v \in RetentionVotes : IngestVote(v)
  \/ \E h \in {1, 2, 3}, hash \in {A, Nil} : ResolveCommit(h, hash)

(* Every vote is accepted, the validator set arrives late and rounds       *)
(* advance.                                                                *)
AlertVotes ==
  VotesOf({1}, {0, 1}, {a1, a2}, {A, B}) \cup VotesOf({1}, {0}, {a2}, {Nil})
  \cup VotesOf({1}, {0, 1}, {a3}, {A})
AlertNext ==
  \/ SetValidators(EqualPair)
  \/ \E v \in AlertVotes : IngestVote(v)
  \/ \E r \in {0, 1} : MarkRoundAdvanced(1, r)
  \/ \E hash \in {A, B} : ResolveCommit(1, hash)

MCInit == Init /\ callers \in {"evidence", "retention", "alerts"}
MCNext ==
  /\ \/ callers = "evidence" /\ EvidenceNext
     \/ callers = "retention" /\ RetentionNext
     \/ callers = "alerts" /\ AlertNext
  /\ UNCHANGED callers

MCSpec == MCInit /\ [][MCNext]_mcvars
=============================================================================
