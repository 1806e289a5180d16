-------------------------- MODULE OrchestratorProofs --------------------------
(***************************************************************************)
(* Proofs about the goroutines of Orchestrator, for every set of events    *)
(* and replies and every capacity of the channel: whatever their order,    *)
(* they use the dashboard state and the divergence tracker as modules      *)
(* Dashboard and Tracker allow, so what is proved of the two holds behind  *)
(* the orchestrator, the tracker never runs ahead of the dashboard, and    *)
(* what the dashboard shows is what the tracker has counted.               *)
(***************************************************************************)
EXTENDS Orchestrator, TLAPS

DP == INSTANCE DashboardProofs

(* The tracker's part of the state is only ever changed by a call that     *)
(* module Tracker allows.                                                  *)
ImplementsTracker == T!Spec

-----------------------------------------------------------------------------
(* What the dashboard's transitions do to the committed height *)

(* The constants meet the assumptions of Dashboard.                        *)
LEMMA Domains == DP!DashboardDomains
<1>1. ValidatorSets \subseteq SUBSET Addresses
  BY OrchestratorDomains DEF ValidatorSets
<1> QED BY <1>1, OrchestratorDomains DEF DP!DashboardDomains

(* Dashboard and DashboardProofs speak of the same transitions.            *)
LEMMA SameInit == D!Init = DP!Init
BY DEF D!Init, DP!Init, D!EmptyRow, DP!EmptyRow, D!AbsentVote, DP!AbsentVote,
  D!NotProposer, DP!NotProposer, D!At, DP!At

(* And of the same steps.                                                  *)
LEMMA SameNext == D!Next = DP!Next
BY DEF D!BlockHashes, DP!BlockHashes, D!Proposers, DP!Proposers, D!Votes, DP!Votes, D!At, DP!At,
  D!Greater, DP!Greater, D!AbsentVote, DP!AbsentVote, D!NotProposer, DP!NotProposer,
  D!EmptyRow, DP!EmptyRow, D!CellOf, DP!CellOf, D!StepOf, DP!StepOf, D!ModeAt, DP!ModeAt,
  D!ClearRoundVotes, DP!ClearRoundVotes, D!RestartView, DP!RestartView, D!Advances, DP!Advances,
  D!AdvanceRound, DP!AdvanceRound, D!MarkProposer, DP!MarkProposer,
  D!AppendBlock, DP!AppendBlock, D!AcceptsBlock, DP!AcceptsBlock, D!CommitBlock, DP!CommitBlock,
  D!StartRound, DP!StartRound, D!Shown, DP!Shown, D!AcceptsVote, DP!AcceptsVote,
  D!RecordVote, DP!RecordVote, D!RecordHTTPSuccess, DP!RecordHTTPSuccess,
  D!ApplyStatus, DP!ApplyStatus, D!MergeValidatorRound, DP!MergeValidatorRound,
  D!AcceptsFallback, DP!AcceptsFallback, D!ApplyFallback, DP!ApplyFallback,
  D!StreamEvent, DP!StreamEvent, D!NewBlock, DP!NewBlock, D!NewRound, DP!NewRound,
  D!Vote, DP!Vote, D!StatusReply, DP!StatusReply, D!BlockReply, DP!BlockReply,
  D!ValidatorsReply, DP!ValidatorsReply, D!FallbackReply, DP!FallbackReply,
  D!Lifecycle, DP!Lifecycle, D!EventAges, DP!EventAges, D!HTTPAges, DP!HTTPAges, D!Next, DP!Next

(* The committed height is a field of the state, and a number.             *)
LEMMA CommittedIs ==
  ASSUME NEW d, DP!Sound(d)
  PROVE  "lastCommittedHeight" \in DOMAIN d /\ d.lastCommittedHeight \in Nat
<1>1. PICK V : DP!DataOK(V, d)
  BY DEF DP!Sound
<1> QED BY <1>1 DEF DP!DataOK, DP!StateData

(* What every Dashboard step keeps, and that the committed height grows.   *)
LEMMA DashboardStep ==
  ASSUME DP!IInv, [D!Next]_s
  PROVE  /\ DP!IInv' /\ s'.lastCommittedHeight >= s.lastCommittedHeight
         /\ s.lastCommittedHeight \in Nat /\ s'.lastCommittedHeight \in Nat
<1>1. [DP!Next]_s
  BY SameNext
<1>2. DP!IInv'
  BY <1>1, DP!NextSound, Domains
<1>3. DP!Forward(s, s')
  BY <1>1, DP!NextForward, Domains
<1>4. DP!Sound(s) /\ DP!Sound(s')
  BY <1>2 DEF DP!IInv
<1> QED BY <1>2, <1>3, <1>4, CommittedIs DEF DP!Forward

(* advanceRound commits nothing.                                           *)
LEMMA AdvanceCommitsNothing ==
  ASSUME NEW d, "lastCommittedHeight" \in DOMAIN d, NEW h, NEW r, NEW step,
         NEW e, e = D!AdvanceRound(d, h, r, step)
  PROVE  e.lastCommittedHeight = d.lastCommittedHeight
BY DEF D!AdvanceRound

(* A block that handleNewBlock accepts is committed on the dashboard.      *)
LEMMA NewBlockCommits ==
  ASSUME "lastCommittedHeight" \in DOMAIN s, s.lastCommittedHeight \in Nat,
         NEW h \in Heights, D!NewBlock(h)
  PROVE  h <= s'.lastCommittedHeight
<1> DEFINE d == [s EXCEPT !.lastCommittedHeight = D!Greater(h, @), !.blocks = D!AppendBlock(@, h)]
<1>1. h \in Int
  BY OrchestratorDomains
<1>2. "lastCommittedHeight" \in DOMAIN d /\ d.lastCommittedHeight = D!Greater(h, s.lastCommittedHeight)
  OBVIOUS
<1>3. s' = D!AdvanceRound(d, h + 1, 0, 1)
  BY DEF D!NewBlock, D!CommitBlock
<1> HIDE DEF d
<1>4. s'.lastCommittedHeight = d.lastCommittedHeight
  BY <1>2, <1>3, AdvanceCommitsNothing
<1> QED BY <1>1, <1>2, <1>4 DEF D!Greater

(* So is the height of a status reply, when it is applied.                 *)
LEMMA StatusCommits ==
  ASSUME "lastCommittedHeight" \in DOMAIN s, s.lastCommittedHeight \in Nat,
         NEW latest \in Heights, D!StatusReply(latest)
  PROVE  latest <= s'.lastCommittedHeight
<1> DEFINE d == D!RecordHTTPSuccess(s)
<1>1. latest \in Int
  BY OrchestratorDomains
<1>2. "lastCommittedHeight" \in DOMAIN d /\ d.lastCommittedHeight = s.lastCommittedHeight
  BY DEF D!RecordHTTPSuccess
<1> HIDE DEF d
<1>3. CASE latest <= s.lastCommittedHeight
  BY <1>2, <1>3 DEF D!StatusReply, D!ApplyStatus, d
<1>4. CASE ~(latest <= s.lastCommittedHeight)
  <2>1. s'.lastCommittedHeight = latest
    BY <1>2, <1>4 DEF D!StatusReply, D!ApplyStatus, d
  <2> QED BY <1>1, <2>1
<1> QED BY <1>3, <1>4

-----------------------------------------------------------------------------
(* What the tracker's calls do to the height it knows as committed *)

(* u is s with the same committed height.                                  *)
Keeps(s0, u) == "committedHeight" \in DOMAIN u /\ u.committedHeight = s0.committedHeight

(* Making room for a height commits nothing.                               *)
LEMMA CreateKeeps ==
  ASSUME NEW s0, "committedHeight" \in DOMAIN s0, NEW h, NEW u, u = T!CreateArchiveHeight(s0, h)
  PROVE  Keeps(s0, u)
<1> DEFINE added == T!AddArchiveHeight(s0, h)
<1>1. Keeps(s0, added)
  BY DEF Keeps, T!AddArchiveHeight
<1> HIDE DEF added
<1>2. \A oldest : Keeps(s0, T!EvictArchiveHeight(added, oldest))
  BY <1>1 DEF Keeps, T!EvictArchiveHeight
<1>3. \A w : Keeps(s0, w) => Keeps(s0, T!PruneDetectorRounds(w))
  BY DEF Keeps, T!PruneDetectorRounds
<1>4. u = s0 \/ u = added
      \/ \E oldest : u = T!PruneDetectorRounds(T!EvictArchiveHeight(added, oldest))
  BY DEF T!CreateArchiveHeight, added
<1> QED BY <1>1, <1>2, <1>3, <1>4 DEF Keeps

(* Neither does admitting a round.                                         *)
LEMMA AdmitKeeps ==
  ASSUME NEW s0, "committedHeight" \in DOMAIN s0, NEW h, NEW r, NEW u, u = T!AdmitRound(s0, h, r)
  PROVE  Keeps(s0, u)
<1> DEFINE w == T!ArchiveHeight(s0, h)
<1>1. Keeps(s0, w)
  BY CreateKeeps DEF T!ArchiveHeight, Keeps
<1> HIDE DEF w
<1>2. \A x : Keeps(s0, x) => Keeps(s0, T!PruneDetectorRounds(x))
  BY DEF Keeps, T!PruneDetectorRounds
<1>3. \A b : Keeps(s0, [w EXCEPT !.archive[h] = b])
  BY <1>1 DEF Keeps
<1>4. \/ u = w
      \/ \E b : u = [w EXCEPT !.archive[h] = b] \/ u = T!PruneDetectorRounds([w EXCEPT !.archive[h] = b])
  BY DEF T!AdmitRound, T!ArchiveRound, w
<1> QED BY <1>1, <1>2, <1>3, <1>4

(* observeVoteLocked and observeRoundLocked commit nothing.                *)
LEMMA ObserveKeeps ==
  ASSUME NEW s0, "committedHeight" \in DOMAIN s0, NEW u
  PROVE  /\ \A v : u = T!ObserveVoteLocked(s0, v) => Keeps(s0, u)
         /\ \A h, r, p : u = T!ObserveRoundLocked(s0, h, r, p) => Keeps(s0, u)
<1>1. ASSUME NEW v, u = T!ObserveVoteLocked(s0, v)
      PROVE  Keeps(s0, u)
  <2> DEFINE w == T!AdmitRound(s0, v.height, v.round)
  <2>1. Keeps(s0, w)
    BY AdmitKeeps
  <2> HIDE DEF w
  <2>2. u = s0 \/ u = w \/ \E b : u = [w EXCEPT !.archive[v.height] = b]
    BY <1>1 DEF T!ObserveVoteLocked, w
  <2> QED BY <2>1, <2>2 DEF Keeps
<1>2. ASSUME NEW h, NEW r, NEW p, u = T!ObserveRoundLocked(s0, h, r, p)
      PROVE  Keeps(s0, u)
  <2> DEFINE w == T!AdmitRound(s0, h, r)
  <2>1. Keeps(s0, w)
    BY AdmitKeeps
  <2> HIDE DEF w
  <2>2. u = s0 \/ u = w \/ \E b : u = [w EXCEPT !.archive[h] = b]
    BY <1>2 DEF T!ObserveRoundLocked, w
  <2> QED BY <2>1, <2>2 DEF Keeps
<1> QED BY <1>1, <1>2

(* Only ResolveCommit raises the tracker's committed height, and only to   *)
(* the height it was called for.                                           *)
LEMMA TrackerCommits ==
  ASSUME "committedHeight" \in DOMAIN t, t.committedHeight \in Int
  PROVE  /\ \A m : T!SetValidators(m) => Keeps(t, t')
         /\ \A h, r, p : T!ObserveRound(h, r, p) => Keeps(t, t')
         /\ \A v : T!ObserveVote(v) => Keeps(t, t')
         /\ \A v : T!IngestVote(v) => Keeps(t, t')
         /\ \A h, r : T!MarkRoundAdvanced(h, r) => Keeps(t, t')
         /\ \A h \in Heights : \A hash : T!ResolveCommit(h, hash) =>
              /\ "committedHeight" \in DOMAIN t' /\ t'.committedHeight \in Int
              /\ t'.committedHeight = t.committedHeight \/ t'.committedHeight = h
<1>1. ASSUME NEW m, T!SetValidators(m) PROVE Keeps(t, t')
  <2>1. \E a, b, c, d : t' = [t EXCEPT !.defaultValidators = a, !.defaultTotalPower = b,
                                       !.rounds = c, !.archive = d]
    BY <1>1 DEF T!SetValidators
  <2> QED BY <2>1 DEF Keeps
<1>2. ASSUME NEW h, NEW r, NEW p, T!ObserveRound(h, r, p) PROVE Keeps(t, t')
  BY <1>2, ObserveKeeps DEF T!ObserveRound
<1>3. ASSUME NEW v, T!ObserveVote(v) PROVE Keeps(t, t')
  BY <1>3, ObserveKeeps DEF T!ObserveVote
<1>4. ASSUME NEW v, T!IngestVote(v) PROVE Keeps(t, t')
  <2> DEFINE w == T!ObserveVoteLocked(t, v)
  <2>1. Keeps(t, w)
    BY ObserveKeeps
  <2>2. t' = w \/ \E rounds : t' = [w EXCEPT !.rounds = rounds]
    <3> HIDE DEF w
    <3> QED BY <1>4 DEF T!IngestVote, T!IngestVoteLocked, w
  <2> HIDE DEF w
  <2> QED BY <2>1, <2>2 DEF Keeps
<1>5. ASSUME NEW h, NEW r, T!MarkRoundAdvanced(h, r) PROVE Keeps(t, t')
  BY <1>5 DEF T!MarkRoundAdvanced, Keeps
<1>6. ASSUME NEW h \in Heights, NEW hash, T!ResolveCommit(h, hash)
      PROVE  /\ "committedHeight" \in DOMAIN t' /\ t'.committedHeight \in Int
             /\ t'.committedHeight = t.committedHeight \/ t'.committedHeight = h
  <2> DEFINE w == T!ArchiveCommit(t, h, hash)
             made == T!CreateArchiveHeight(t, h)
  <2>1. Keeps(t, made)
    BY CreateKeeps
  <2>2. w = t \/ w = made \/ \E b : w = [made EXCEPT !.archive[h] = b]
    <3> HIDE DEF made
    <3> QED BY SMTT(30) DEF T!ArchiveCommit, made
  <2> HIDE DEF w, made
  <2>3. Keeps(t, w)
    BY <2>1, <2>2 DEF Keeps
  <2>4. \E a, b, c : t' = [w EXCEPT !.committedHeight = T!Larger(h, @), !.catalogueRevision = a,
                                    !.rounds = b, !.history = c]
    BY <1>6 DEF T!ResolveCommit, T!ResolveCommitLocked, w
  <2>5. "committedHeight" \in DOMAIN t' /\ t'.committedHeight = T!Larger(h, t.committedHeight)
    BY <2>3, <2>4 DEF Keeps
  <2>6. h \in Int
    BY OrchestratorDomains
  <2> QED BY <2>5, <2>6 DEF T!Larger
<1> QED BY <1>1, <1>2, <1>3, <1>4, <1>5, <1>6

-----------------------------------------------------------------------------
(* Where each goroutine may be, and what it relies on there *)

ClientOK ==
  \/ client = Idle
  \/ client \in [pc : {"deliver", "full"}, ev : Events]

Stages ==
  {"new_block", "resolve", "new_round", "observe_round", "mark_advanced",
   "vote", "record_vote", "ingest_vote", "validator_set_updates"}

(* The stages of the handler of each kind of event.                        *)
StageOK(pc, ev) ==
  \/ pc \in {"new_block", "resolve"} /\ ev.kind = "new_block"
  \/ pc \in {"new_round", "observe_round"} /\ ev.kind = "new_round"
  \/ pc = "mark_advanced" /\ ev.kind = "new_round" /\ ev.round > 0
  \/ pc \in {"vote", "record_vote", "ingest_vote"} /\ ev.kind = "vote"
  \/ pc = "validator_set_updates" /\ ev.kind = "validator_set_updates"

(* The tracker is told of a block that the dashboard knows as committed.   *)
LoopOK ==
  \/ loop = Idle
  \/ /\ loop \in [pc : Stages, ev : Events] /\ StageOK(loop.pc, loop.ev)
     /\ loop.pc = "resolve" => loop.ev.height <= s.lastCommittedHeight

(* From its second stage on, the status poller works on a committed height. *)
StatusOK ==
  \/ status = Idle
  \/ /\ status \in [pc : {"apply", "latest_block", "append", "resolve"},
                    latest : StatusHeights, seed : BOOLEAN]
     /\ status.pc # "apply" => status.latest <= s.lastCommittedHeight
     /\ status.pc = "append" => status.latest > 0

RefreshOK ==
  \/ refresh = Idle \/ refresh = [pc |-> "request"]
  \/ refresh \in [pc : {"merge", "set"}, reply : RosterReplies]

ConsensusOK ==
  \/ consensus = Idle
  \/ consensus \in [pc : {"apply", "observe"}, reply : RoundReplies]

TrackerBehind ==
  /\ "committedHeight" \in DOMAIN t /\ t.committedHeight \in Int
  /\ t.committedHeight <= s.lastCommittedHeight

(* The inductive invariant.                                                *)
OInv ==
  /\ DP!IInv /\ TrackerBehind /\ wsEvents \in Seq(Events)
  /\ ClientOK /\ LoopOK /\ StatusOK /\ RefreshOK /\ ConsensusOK

-----------------------------------------------------------------------------
(* Each step is one of the dashboard's, or leaves the dashboard alone *)

(* The client's steps.                                                     *)
LEMMA ClientSteps ==
  ASSUME OInv,
         \/ \E ev \in Events : Receive(ev) \/ GoLive(ev)
         \/ Deliver \/ DropOldest \/ Disconnect
  PROVE  /\ [D!Next]_s /\ UNCHANGED tracker /\ UNCHANGED <<loop, status, refresh, consensus>>
         /\ ClientOK' /\ wsEvents' \in Seq(Events)
<1> USE DEF OInv
<1>1. \A ev \in Events : Offer(ev) => ClientOK' /\ wsEvents' \in Seq(Events)
  <2> SUFFICES ASSUME NEW ev \in Events, Offer(ev) PROVE ClientOK' /\ wsEvents' \in Seq(Events)
    OBVIOUS
  <2> QED BY DEF Offer, ClientOK, Idle
<1>2. ASSUME NEW ev \in Events, Receive(ev)
      PROVE  /\ [D!Next]_s /\ UNCHANGED tracker /\ UNCHANGED <<loop, status, refresh, consensus>>
             /\ ClientOK' /\ wsEvents' \in Seq(Events)
  BY <1>1, <1>2 DEF Receive
<1>3. ASSUME NEW ev \in Events, GoLive(ev)
      PROVE  /\ [D!Next]_s /\ UNCHANGED tracker /\ UNCHANGED <<loop, status, refresh, consensus>>
             /\ ClientOK' /\ wsEvents' \in Seq(Events)
  BY <1>3 DEF GoLive, D!Next, ClientOK
<1>4. CASE Deliver
  <2>1. client.ev \in Events
    BY <1>4 DEF Deliver, ClientOK, Idle
  <2> QED BY <1>1, <1>4, <2>1 DEF Deliver
<1>5. CASE DropOldest
  <2>1. client.ev \in Events
    BY <1>5 DEF DropOldest, ClientOK, Idle
  <2>2. (IF wsEvents = <<>> THEN <<>> ELSE Tail(wsEvents)) \in Seq(Events)
    OBVIOUS
  <2> DEFINE rest == IF wsEvents = <<>> THEN <<>> ELSE Tail(wsEvents)
  <2>3. /\ wsEvents' = Append(rest, client.ev) /\ client' = Idle
        /\ UNCHANGED <<s, tracker, loop, status, refresh, consensus>>
    BY <1>5 DEF DropOldest
  <2> HIDE DEF rest
  <2>4. wsEvents' \in Seq(Events)
    BY <2>1, <2>2, <2>3 DEF rest
  <2> QED BY <2>3, <2>4 DEF ClientOK
<1>6. CASE Disconnect
  BY <1>6 DEF Disconnect, D!Next, ClientOK
<1> QED BY <1>2, <1>3, <1>4, <1>5, <1>6

(* What holds after a step of the event loop: the dashboard and the        *)
(* tracker were used as they allow, and the loop is at a stage of its event. *)
LoopStep ==
  /\ [D!Next]_s /\ [T!Next]_tracker /\ LoopOK' /\ wsEvents' \in Seq(Events)
  /\ Keeps(t, t') \/ (/\ UNCHANGED s /\ "committedHeight" \in DOMAIN t' /\ t'.committedHeight \in Int
                      /\ t'.committedHeight <= s.lastCommittedHeight)

(* The handler goes on to its next stage.                                  *)
LEMMA NextStage ==
  ASSUME NEW l \in [pc : Stages, ev : Events], NEW pc \in Stages, NEW n, n = [l EXCEPT !.pc = pc]
  PROVE  n \in [pc : Stages, ev : Events] /\ n.pc = pc /\ n.ev = l.ev
<1>1. l = [pc |-> l.pc, ev |-> l.ev]
  OBVIOUS
<1>2. n = [pc |-> pc, ev |-> l.ev]
  BY <1>1
<1> QED BY <1>2

(* Handling of a new block.                                                *)
LEMMA BlockSteps ==
  ASSUME OInv, HandleNewBlock \/ ResolveNewBlock
  PROVE  LoopStep
<1> USE DEF OInv
<1>0. Keeps(t, t)
  BY DEF Keeps, TrackerBehind
<1>1. loop.pc \in {"new_block", "resolve"} =>
        /\ loop \in [pc : Stages, ev : Events] /\ loop.ev.kind = "new_block"
        /\ loop.ev.height \in Heights
  BY EventDomains DEF LoopOK, StageOK, Idle
<1>2. CASE HandleNewBlock
  <2>1. loop.pc = "new_block" /\ t' = t /\ UNCHANGED tracker /\ wsEvents' = wsEvents
    BY <1>2 DEF HandleNewBlock, tracker
  <2>2. CASE D!AcceptsBlock(s, loop.ev.height)
    <3>1. D!NewBlock(loop.ev.height) /\ loop' = [loop EXCEPT !.pc = "resolve"]
      BY <1>2, <2>2 DEF HandleNewBlock
    <3>2. loop.ev.height <= s'.lastCommittedHeight
      BY <1>1, <2>1, <3>1, CommittedIs, NewBlockCommits DEF DP!IInv
    <3>3. loop' \in [pc : Stages, ev : Events] /\ loop'.pc = "resolve" /\ loop'.ev = loop.ev
      <4>1. loop \in [pc : Stages, ev : Events] /\ "resolve" \in Stages
        BY <1>1, <2>1 DEF Stages
      <4> QED BY <1>1, <2>1, <3>1, <4>1, NextStage
    <3>4. LoopOK'
      BY <1>1, <2>1, <3>2, <3>3 DEF LoopOK, StageOK
    <3>5. D!Next
      BY <1>1, <2>1, <3>1 DEF D!Next
    <3> QED BY <1>0, <2>1, <3>4, <3>5 DEF LoopStep
  <2>3. CASE ~D!AcceptsBlock(s, loop.ev.height)
    BY <1>0, <1>2, <2>1, <2>3 DEF HandleNewBlock, LoopStep, LoopOK
  <2> QED BY <2>2, <2>3
<1>3. CASE ResolveNewBlock
  <2> DEFINE h == loop.ev.height
  <2>1. /\ loop.pc = "resolve" /\ T!ResolveCommit(h, Canonical[h]) /\ loop' = Idle
        /\ s' = s /\ wsEvents' = wsEvents
    BY <1>3 DEF ResolveNewBlock
  <2>2. h \in Heights /\ h <= s.lastCommittedHeight /\ Canonical[h] \in T!BlockHashes
    <3>1. h <= s.lastCommittedHeight
      BY <2>1 DEF LoopOK, Idle
    <3> QED BY <1>1, <2>1, <3>1, OrchestratorDomains DEF T!BlockHashes
  <2> HIDE DEF h
  <2>3. T!Next
    BY <2>1, <2>2 DEF T!Next
  <2>4. /\ "committedHeight" \in DOMAIN t' /\ t'.committedHeight \in Int
        /\ t'.committedHeight = t.committedHeight \/ t'.committedHeight = h
    BY <2>1, <2>2, TrackerCommits DEF TrackerBehind
  <2>5. t'.committedHeight <= s.lastCommittedHeight
    BY <2>2, <2>4 DEF TrackerBehind
  <2> QED BY <2>1, <2>3, <2>4, <2>5 DEF LoopStep, LoopOK
<1> QED BY <1>2, <1>3

(* Handling of a new round.                                                *)
LEMMA RoundSteps ==
  ASSUME OInv, HandleNewRound \/ ObserveNewRound \/ MarkPreviousRound
  PROVE  LoopStep
<1> USE DEF OInv
<1>0. Keeps(t, t) /\ "committedHeight" \in DOMAIN t /\ t.committedHeight \in Int
  BY DEF Keeps, TrackerBehind
<1>1. loop.pc \in {"new_round", "observe_round", "mark_advanced"} =>
        /\ loop \in [pc : Stages, ev : Events] /\ loop.ev.kind = "new_round"
        /\ loop.ev.height \in Heights /\ loop.ev.round \in Rounds
        /\ loop.ev.step \in Steps /\ loop.ev.proposer \in Proposers
        /\ loop.ev.round > 0 => loop.ev.round - 1 \in Rounds
  BY EventDomains DEF LoopOK, StageOK, Idle
<1>2. loop.pc = "mark_advanced" => loop.ev.round > 0
  BY DEF LoopOK, StageOK, Idle
<1>3. CASE HandleNewRound
  <2>1. loop.pc = "new_round" /\ t' = t /\ UNCHANGED tracker /\ wsEvents' = wsEvents
    BY <1>3 DEF HandleNewRound, tracker
  <2>2. CASE D!Advances(s, loop.ev.height, loop.ev.round)
    <3>1. /\ D!NewRound(loop.ev.height, loop.ev.round, loop.ev.step, loop.ev.proposer)
          /\ loop' = [loop EXCEPT !.pc = "observe_round"]
      BY <1>3, <2>2 DEF HandleNewRound
    <3>2. loop' \in [pc : Stages, ev : Events] /\ loop'.pc = "observe_round" /\ loop'.ev = loop.ev
      <4>1. loop \in [pc : Stages, ev : Events] /\ "observe_round" \in Stages
        BY <1>1, <2>1 DEF Stages
      <4> QED BY <1>1, <2>1, <3>1, <4>1, NextStage
    <3>3. LoopOK'
      BY <1>1, <2>1, <3>2 DEF LoopOK, StageOK
    <3>4. loop.ev.proposer \in D!Proposers
      BY <1>1, <2>1 DEF Proposers, D!Proposers
    <3>5. D!Next
      BY <1>1, <2>1, <3>1, <3>4 DEF D!Next
    <3> QED BY <1>0, <2>1, <3>3, <3>5 DEF LoopStep
  <2>3. CASE ~D!Advances(s, loop.ev.height, loop.ev.round)
    BY <1>0, <1>3, <2>1, <2>3 DEF HandleNewRound, LoopStep, LoopOK
  <2> QED BY <2>2, <2>3
<1>4. CASE ObserveNewRound
  <2>1. /\ loop.pc = "observe_round" /\ s' = s /\ wsEvents' = wsEvents
        /\ T!ObserveRound(loop.ev.height, loop.ev.round, loop.ev.proposer)
        /\ loop' = IF loop.ev.round > 0 THEN [loop EXCEPT !.pc = "mark_advanced"] ELSE Idle
    BY <1>4 DEF ObserveNewRound
  <2>2. T!Next
    BY <1>1, <2>1 DEF T!Next
  <2>3. Keeps(t, t')
    BY <1>0, <2>1, TrackerCommits
  <2>4. LoopOK'
    <3>1. CASE loop.ev.round > 0
      <4>1. loop' \in [pc : Stages, ev : Events] /\ loop'.pc = "mark_advanced" /\ loop'.ev = loop.ev
        <5>1. loop \in [pc : Stages, ev : Events] /\ "mark_advanced" \in Stages
          BY <1>1, <2>1 DEF Stages
        <5> QED BY <1>1, <2>1, <3>1, <5>1, NextStage
      <4> QED BY <1>1, <2>1, <3>1, <4>1 DEF LoopOK, StageOK
    <3>2. CASE ~(loop.ev.round > 0)
      BY <2>1, <3>2 DEF LoopOK
    <3> QED BY <3>1, <3>2
  <2> QED BY <2>1, <2>2, <2>3, <2>4 DEF LoopStep
<1>5. CASE MarkPreviousRound
  <2>1. /\ loop.pc = "mark_advanced" /\ s' = s /\ wsEvents' = wsEvents /\ loop' = Idle
        /\ T!MarkRoundAdvanced(loop.ev.height, loop.ev.round - 1)
    BY <1>5 DEF MarkPreviousRound
  <2>2. T!Next
    BY <1>1, <1>2, <2>1 DEF T!Next
  <2>3. Keeps(t, t')
    BY <1>0, <2>1, TrackerCommits
  <2> QED BY <2>1, <2>2, <2>3 DEF LoopStep, LoopOK
<1> QED BY <1>3, <1>4, <1>5

(* Handling of a vote, and of a validator-set update.                      *)
LEMMA VoteSteps ==
  ASSUME OInv, HandleVote \/ RecordVote \/ IngestVote \/ HandleValidatorSetUpdates
  PROVE  LoopStep
<1> USE DEF OInv
<1>0. Keeps(t, t) /\ "committedHeight" \in DOMAIN t /\ t.committedHeight \in Int
  BY DEF Keeps, TrackerBehind
<1>1. loop.pc \in {"vote", "record_vote", "ingest_vote"} =>
        /\ loop \in [pc : Stages, ev : Events] /\ loop.ev.kind = "vote"
        /\ loop.ev.vote \in T!Votes
  BY EventDomains DEF LoopOK, StageOK, Idle
<1>2. CASE HandleVote
  <2>1. /\ loop.pc = "vote" /\ s' = s /\ wsEvents' = wsEvents /\ T!ObserveVote(loop.ev.vote)
        /\ loop' = [loop EXCEPT !.pc = "record_vote"]
    BY <1>2 DEF HandleVote
  <2>2. loop' \in [pc : Stages, ev : Events] /\ loop'.pc = "record_vote" /\ loop'.ev = loop.ev
    <3>1. loop \in [pc : Stages, ev : Events] /\ "record_vote" \in Stages
      BY <1>1, <2>1 DEF Stages
    <3> QED BY <2>1, <3>1, NextStage
  <2>3. LoopOK'
    BY <1>1, <2>1, <2>2 DEF LoopOK, StageOK
  <2>4. T!Next
    BY <1>1, <2>1 DEF T!Next
  <2>5. Keeps(t, t')
    BY <1>0, <2>1, TrackerCommits
  <2> QED BY <2>1, <2>3, <2>4, <2>5 DEF LoopStep
<1>3. CASE RecordVote
  <2>1. /\ loop.pc = "record_vote" /\ t' = t /\ UNCHANGED tracker /\ wsEvents' = wsEvents
        /\ D!Vote(loop.ev.vote)
        /\ loop' = [loop EXCEPT !.pc = "ingest_vote"] \/ loop' = Idle
    BY <1>3 DEF RecordVote, tracker
  <2>2. loop.ev.vote \in D!Votes
    BY <1>1, <2>1 DEF D!Votes, T!Votes, D!BlockHashes, T!BlockHashes
  <2>3. D!Next
    BY <2>1, <2>2 DEF D!Next
  <2>4. LoopOK'
    <3>1. CASE loop' = [loop EXCEPT !.pc = "ingest_vote"]
      <4>1. loop \in [pc : Stages, ev : Events] /\ "ingest_vote" \in Stages
        BY <1>1, <2>1 DEF Stages
      <4>2. loop' \in [pc : Stages, ev : Events] /\ loop'.pc = "ingest_vote" /\ loop'.ev = loop.ev
        BY <3>1, <4>1, NextStage
      <4> QED BY <1>1, <2>1, <4>2 DEF LoopOK, StageOK
    <3>2. CASE loop' = Idle
      BY <3>2 DEF LoopOK
    <3> QED BY <2>1, <3>1, <3>2
  <2> QED BY <1>0, <2>1, <2>3, <2>4 DEF LoopStep
<1>4. CASE IngestVote
  <2>1. /\ loop.pc = "ingest_vote" /\ s' = s /\ wsEvents' = wsEvents /\ loop' = Idle
        /\ T!IngestVote(loop.ev.vote)
    BY <1>4 DEF IngestVote
  <2>2. T!Next
    BY <1>1, <2>1 DEF T!Next
  <2>3. Keeps(t, t')
    BY <1>0, <2>1, TrackerCommits
  <2> QED BY <2>1, <2>2, <2>3 DEF LoopStep, LoopOK
<1>5. CASE HandleValidatorSetUpdates
  <2>1. s' = s /\ t' = t /\ UNCHANGED tracker /\ wsEvents' = wsEvents /\ loop' = Idle
    BY <1>5 DEF HandleValidatorSetUpdates, tracker
  <2> QED BY <1>0, <2>1 DEF LoopStep, LoopOK
<1> QED BY <1>2, <1>3, <1>4, <1>5

(* Taking an event from the channel, which makes the stream fresh.         *)
LEMMA TakeSteps ==
  ASSUME OInv, TakeEvent
  PROVE  LoopStep
<1> USE DEF OInv
<1>0. Keeps(t, t)
  BY DEF Keeps, TrackerBehind
<1> DEFINE ev == Head(wsEvents)
<1>1. /\ wsEvents # <<>> /\ wsEvents' = Tail(wsEvents) /\ loop' = [pc |-> ev.kind, ev |-> ev]
      /\ D!StreamEvent /\ UNCHANGED tracker /\ t' = t
  BY DEF TakeEvent, tracker
<1>2. ev \in Events /\ wsEvents' \in Seq(Events)
  BY <1>1
<1> HIDE DEF ev
<1>3. ev.kind \in {"new_block", "new_round", "vote", "validator_set_updates"}
  BY <1>2, EventDomains
<1>4. loop' \in [pc : Stages, ev : Events] /\ loop'.pc = ev.kind /\ loop'.ev = ev
  BY <1>1, <1>2, <1>3 DEF Stages
<1>5. LoopOK'
  <2>1. StageOK(ev.kind, ev)
    BY <1>3 DEF StageOK
  <2> QED BY <1>3, <1>4, <2>1 DEF LoopOK
<1>6. D!Next
  BY <1>1 DEF D!Next
<1> QED BY <1>0, <1>1, <1>2, <1>5, <1>6 DEF LoopStep

(* What holds after a step of a poller.                                    *)
PollerStep == [D!Next]_s /\ [T!Next]_tracker /\ UNCHANGED <<wsEvents, client, loop>>

(* The status poller: a block it fetched is appended and resolved only     *)
(* below the height that its own status reply committed.                   *)
LEMMA StatusSteps ==
  ASSUME OInv, RefreshStatus
  PROVE  /\ PollerStep /\ UNCHANGED <<refresh, consensus>> /\ StatusOK'
         /\ Keeps(t, t') \/ (/\ UNCHANGED s /\ "committedHeight" \in DOMAIN t'
                             /\ t'.committedHeight \in Int
                             /\ t'.committedHeight <= s.lastCommittedHeight)
<1> USE DEF OInv
<1>0. Keeps(t, t) /\ "committedHeight" \in DOMAIN t /\ t.committedHeight \in Int
  BY DEF Keeps, TrackerBehind
<1>1. status # Idle =>
        /\ status \in [pc : {"apply", "latest_block", "append", "resolve"},
                       latest : StatusHeights, seed : BOOLEAN]
        /\ status.latest \in Heights /\ status.latest \in Int
        /\ status.pc # "apply" => status.latest <= s.lastCommittedHeight
        /\ status.pc = "append" => status.latest > 0
  BY OrchestratorDomains DEF StatusOK
<1>2. \A pc \in {"latest_block", "append", "resolve"} : status # Idle =>
        LET n == [status EXCEPT !.pc = pc] IN
        /\ n \in [pc : {"apply", "latest_block", "append", "resolve"},
                  latest : StatusHeights, seed : BOOLEAN]
        /\ n.latest = status.latest /\ n.pc = pc
  BY <1>1
<1>3. ASSUME NEW latest \in StatusHeights, StatusArrives(latest)
      PROVE  /\ s' = s /\ t' = t /\ PollerStep /\ UNCHANGED <<refresh, consensus>> /\ StatusOK'
  <2>1. /\ status' = [pc |-> "apply", latest |-> latest,
                      seed |-> s.blocks = <<>> \/ ~s.health.wsConnected]
        /\ s' = s /\ UNCHANGED tracker /\ UNCHANGED <<wsEvents, client, loop, refresh, consensus>>
    BY <1>3 DEF StatusArrives, StatusOnly
  <2>2. (s.blocks = <<>> \/ ~s.health.wsConnected) \in BOOLEAN
    OBVIOUS
  <2>3. status' \in [pc : {"apply", "latest_block", "append", "resolve"},
                     latest : StatusHeights, seed : BOOLEAN] /\ status'.pc = "apply"
    BY <2>1, <2>2
  <2>4. StatusOK'
    BY <2>3 DEF StatusOK
  <2> QED BY <2>1, <2>4 DEF PollerStep, tracker
<1>4. ASSUME ApplyStatus
      PROVE  /\ t' = t /\ PollerStep /\ UNCHANGED <<refresh, consensus>> /\ StatusOK'
  <2>1. /\ status.pc = "apply" /\ status # Idle /\ D!StatusReply(status.latest)
        /\ status' = [status EXCEPT !.pc = "latest_block"] \/ status' = Idle
        /\ UNCHANGED tracker /\ UNCHANGED <<wsEvents, client, loop, refresh, consensus>>
    BY <1>4 DEF ApplyStatus, StatusOnly, Idle
  <2>2. status.latest <= s'.lastCommittedHeight
    BY <1>1, <2>1, CommittedIs, StatusCommits DEF DP!IInv
  <2>3. StatusOK'
    BY <1>2, <2>1, <2>2 DEF StatusOK
  <2>4. D!Next
    BY <1>1, <2>1 DEF D!Next
  <2> QED BY <2>1, <2>3, <2>4 DEF PollerStep, tracker
<1>5. ASSUME CheckLatestBlock \/ BlockFails
      PROVE  /\ s' = s /\ t' = t /\ PollerStep /\ UNCHANGED <<refresh, consensus>> /\ StatusOK'
  <2>1. /\ s' = s /\ UNCHANGED tracker /\ UNCHANGED <<wsEvents, client, loop, refresh, consensus>>
        /\ \/ status' = Idle
           \/ /\ status.pc = "latest_block" /\ status # Idle /\ ~(status.latest <= 0)
              /\ status' = [status EXCEPT !.pc = "append"]
    BY <1>5 DEF CheckLatestBlock, BlockFails, StatusOnly, Idle
  <2>2. StatusOK'
    BY <1>1, <1>2, <2>1 DEF StatusOK
  <2> QED BY <2>1, <2>2 DEF PollerStep, tracker
<1>6. ASSUME AppendLatestBlock
      PROVE  /\ t' = t /\ PollerStep /\ UNCHANGED <<refresh, consensus>> /\ StatusOK'
  <2>1. /\ status.pc = "append" /\ status # Idle
        /\ s' = D!RecordHTTPSuccess([s EXCEPT !.blocks = D!AppendBlock(@, status.latest)])
        /\ status' = [status EXCEPT !.pc = "resolve"]
        /\ UNCHANGED tracker /\ UNCHANGED <<wsEvents, client, loop, refresh, consensus>>
    BY <1>6 DEF AppendLatestBlock, StatusOnly, Idle
  <2>2. D!BlockReply(status.latest)
    BY <1>1, <2>1 DEF D!BlockReply
  <2>3. D!Next
    BY <1>1, <2>1, <2>2 DEF D!Next
  <2>4. s'.lastCommittedHeight >= s.lastCommittedHeight
    BY <2>3, DashboardStep
  <2>5. s.lastCommittedHeight \in Int /\ s'.lastCommittedHeight \in Int
    BY <2>3, DashboardStep
  <2>6. StatusOK'
    BY <1>1, <1>2, <2>1, <2>4, <2>5 DEF StatusOK
  <2> QED BY <2>1, <2>3, <2>6 DEF PollerStep, tracker
<1>7. ASSUME ResolveLatestBlock
      PROVE  /\ PollerStep /\ UNCHANGED <<refresh, consensus>> /\ StatusOK'
             /\ UNCHANGED s /\ "committedHeight" \in DOMAIN t' /\ t'.committedHeight \in Int
             /\ t'.committedHeight <= s.lastCommittedHeight
  <2> DEFINE h == status.latest
  <2>1. /\ status.pc = "resolve" /\ status # Idle /\ T!ResolveCommit(h, Canonical[h])
        /\ status' = Idle /\ s' = s /\ UNCHANGED <<wsEvents, client, loop, refresh, consensus>>
    BY <1>7 DEF ResolveLatestBlock, StatusOnly, Idle
  <2>2. h \in Heights /\ h <= s.lastCommittedHeight /\ Canonical[h] \in T!BlockHashes
    BY <1>1, <2>1, OrchestratorDomains DEF T!BlockHashes
  <2> HIDE DEF h
  <2>3. T!Next
    BY <2>1, <2>2 DEF T!Next
  <2>4. /\ "committedHeight" \in DOMAIN t' /\ t'.committedHeight \in Int
        /\ t'.committedHeight = t.committedHeight \/ t'.committedHeight = h
    BY <1>0, <2>1, <2>2, TrackerCommits
  <2>5. t'.committedHeight <= s.lastCommittedHeight
    BY <2>2, <2>4 DEF TrackerBehind
  <2>6. StatusOK'
    BY <2>1 DEF StatusOK
  <2> QED BY <2>1, <2>3, <2>4, <2>5, <2>6 DEF PollerStep
<1> QED BY <1>0, <1>3, <1>4, <1>5, <1>6, <1>7 DEF RefreshStatus, Keeps

(* The validators poller.                                                  *)
LEMMA RefreshSteps ==
  ASSUME OInv, RefreshValidators
  PROVE  PollerStep /\ UNCHANGED <<status, consensus>> /\ RefreshOK' /\ Keeps(t, t')
<1> USE DEF OInv
<1>0. Keeps(t, t) /\ "committedHeight" \in DOMAIN t /\ t.committedHeight \in Int
  BY DEF Keeps, TrackerBehind
<1>1. refresh.pc \in {"merge", "set"} =>
        refresh \in [pc : {"merge", "set"}, reply : RosterReplies]
        /\ refresh.reply.roster \in Rosters /\ refresh.reply.height \in Heights
  BY OrchestratorDomains DEF RefreshOK, Idle
<1>2. CASE BeginRefresh \/ WakeRefresh \/ ValidatorsFail
  BY <1>0, <1>2 DEF BeginRefresh, WakeRefresh, ValidatorsFail, RefreshOnly, tracker, PollerStep, RefreshOK
<1>3. ASSUME NEW x \in RosterReplies, ValidatorsArrive(x)
      PROVE  PollerStep /\ UNCHANGED <<status, consensus>> /\ RefreshOK' /\ Keeps(t, t')
  BY <1>0, <1>3 DEF ValidatorsArrive, RefreshOnly, tracker, PollerStep, RefreshOK
<1>4. CASE MergeValidators
  <2> DEFINE x == refresh.reply
  <2>1. /\ refresh.pc = "merge" /\ D!ValidatorsReply(DOMAIN x.roster, x.height)
        /\ refresh' = [refresh EXCEPT !.pc = "set"] \/ refresh' = Idle
        /\ UNCHANGED tracker /\ t' = t
        /\ UNCHANGED <<wsEvents, client, loop, status, consensus>>
    BY <1>4 DEF MergeValidators, RefreshOnly, tracker
  <2>2. DOMAIN x.roster \in ValidatorSets /\ x.height \in Heights
    BY <1>1, <2>1 DEF ValidatorSets
  <2> HIDE DEF x
  <2>3. D!Next
    BY <2>1, <2>2 DEF D!Next
  <2>4. RefreshOK'
    BY <1>1, <2>1 DEF RefreshOK
  <2> QED BY <1>0, <2>1, <2>3, <2>4 DEF PollerStep
<1>5. CASE SetValidators
  <2>1. /\ refresh.pc = "set" /\ T!SetValidators(refresh.reply.roster) /\ refresh' = Idle
        /\ UNCHANGED <<s, wsEvents, client, loop, status, consensus>>
    BY <1>5 DEF SetValidators, RefreshOnly
  <2>2. T!Next
    BY <1>1, <2>1 DEF T!Next
  <2>3. Keeps(t, t')
    BY <1>0, <2>1, TrackerCommits
  <2> QED BY <2>1, <2>2, <2>3 DEF PollerStep, RefreshOK
<1> QED BY <1>2, <1>3, <1>4, <1>5 DEF RefreshValidators

(* The consensus poller.                                                   *)
LEMMA ConsensusSteps ==
  ASSUME OInv, RefreshConsensus
  PROVE  PollerStep /\ UNCHANGED <<status, refresh>> /\ ConsensusOK' /\ Keeps(t, t')
<1> USE DEF OInv
<1>0. Keeps(t, t) /\ "committedHeight" \in DOMAIN t /\ t.committedHeight \in Int
  BY DEF Keeps, TrackerBehind
<1>1. consensus.pc \in {"apply", "observe"} =>
        /\ consensus \in [pc : {"apply", "observe"}, reply : RoundReplies]
        /\ consensus.reply.height \in Heights /\ consensus.reply.round \in Rounds
        /\ consensus.reply.step \in Steps
  BY OrchestratorDomains DEF ConsensusOK, Idle
<1>2. ASSUME NEW x \in RoundReplies, RoundArrives(x)
      PROVE  PollerStep /\ UNCHANGED <<status, refresh>> /\ ConsensusOK' /\ Keeps(t, t')
  BY <1>0, <1>2 DEF RoundArrives, ConsensusOnly, tracker, PollerStep, ConsensusOK
<1>3. CASE ApplyRound
  <2> DEFINE x == consensus.reply
  <2>1. /\ consensus.pc = "apply" /\ D!FallbackReply(x.height, x.round, x.step)
        /\ consensus' = [consensus EXCEPT !.pc = "observe"] \/ consensus' = Idle
        /\ UNCHANGED tracker /\ t' = t
        /\ UNCHANGED <<wsEvents, client, loop, status, refresh>>
    BY <1>3 DEF ApplyRound, ConsensusOnly, tracker
  <2>2. D!Next
    BY <1>1, <2>1 DEF D!Next
  <2>3. ConsensusOK'
    BY <1>1, <2>1 DEF ConsensusOK
  <2> QED BY <1>0, <2>1, <2>2, <2>3 DEF PollerStep
<1>4. CASE ObserveFallbackRound
  <2> DEFINE x == consensus.reply
  <2>1. /\ consensus.pc = "observe" /\ T!ObserveRound(x.height, x.round, NoProposer)
        /\ consensus' = Idle /\ UNCHANGED <<s, wsEvents, client, loop, status, refresh>>
    BY <1>4 DEF ObserveFallbackRound, ConsensusOnly
  <2>2. T!Next
    BY <1>1, <2>1 DEF T!Next, Proposers
  <2>3. Keeps(t, t')
    BY <1>0, <2>1, TrackerCommits
  <2> QED BY <2>1, <2>2, <2>3 DEF PollerStep, ConsensusOK
<1> QED BY <1>2, <1>3, <1>4 DEF RefreshConsensus

-----------------------------------------------------------------------------
(* All goroutines together *)

(* What each goroutine relies on survives the steps of the others, because *)
(* the dashboard's committed height only grows.                            *)
LEMMA Others ==
  ASSUME OInv, [D!Next]_s
  PROVE  /\ DP!IInv'
         /\ UNCHANGED client => ClientOK'
         /\ UNCHANGED loop => LoopOK'
         /\ UNCHANGED status => StatusOK'
         /\ UNCHANGED refresh => RefreshOK'
         /\ UNCHANGED consensus => ConsensusOK'
         /\ Keeps(t, t') => TrackerBehind'
<1> USE DEF OInv
<1>1. /\ DP!IInv' /\ s'.lastCommittedHeight >= s.lastCommittedHeight
      /\ s.lastCommittedHeight \in Nat /\ s'.lastCommittedHeight \in Nat
  BY DashboardStep
<1>2. UNCHANGED client => ClientOK'
  BY DEF ClientOK
<1>3. UNCHANGED loop => LoopOK'
  <2> SUFFICES ASSUME UNCHANGED loop, loop # Idle PROVE LoopOK'
    BY DEF LoopOK
  <2>1. /\ loop' = loop /\ loop \in [pc : Stages, ev : Events] /\ StageOK(loop.pc, loop.ev)
        /\ loop.pc = "resolve" => loop.ev.height <= s.lastCommittedHeight
    BY DEF LoopOK
  <2>2. loop.pc = "resolve" => loop.ev.height \in Int
    BY <2>1, EventDomains, OrchestratorDomains DEF StageOK
  <2> QED BY <1>1, <2>1, <2>2 DEF LoopOK
<1>4. UNCHANGED status => StatusOK'
  <2> SUFFICES ASSUME UNCHANGED status, status # Idle PROVE StatusOK'
    BY DEF StatusOK
  <2>1. /\ status \in [pc : {"apply", "latest_block", "append", "resolve"},
                       latest : StatusHeights, seed : BOOLEAN]
        /\ status.pc # "apply" => status.latest <= s.lastCommittedHeight
        /\ status.pc = "append" => status.latest > 0
    BY DEF StatusOK
  <2>2. status.latest \in Int
    BY <2>1, OrchestratorDomains
  <2> QED BY <1>1, <2>1, <2>2 DEF StatusOK
<1>5. (UNCHANGED refresh => RefreshOK') /\ (UNCHANGED consensus => ConsensusOK')
  BY DEF RefreshOK, ConsensusOK
<1>6. Keeps(t, t') => TrackerBehind'
  BY <1>1 DEF Keeps, TrackerBehind
<1> QED BY <1>1, <1>2, <1>3, <1>4, <1>5, <1>6

(* After the step the tracker is still behind the dashboard.               *)
LEMMA Behind ==
  ASSUME OInv, [D!Next]_s,
         Keeps(t, t') \/ (/\ UNCHANGED s /\ "committedHeight" \in DOMAIN t' /\ t'.committedHeight \in Int
                          /\ t'.committedHeight <= s.lastCommittedHeight)
  PROVE  TrackerBehind'
BY Others DEF TrackerBehind

(* Every step of the orchestrator is allowed by Dashboard and by Tracker   *)
(* and keeps every goroutine within its bounds.                            *)
LEMMA OrchestratorStep ==
  ASSUME OInv, [Next]_vars
  PROVE  [D!Next]_s /\ [T!Next]_tracker /\ OInv'
<1>1. CASE \/ \E ev \in Events : Receive(ev) \/ GoLive(ev)
           \/ Deliver \/ DropOldest \/ Disconnect
  <2>1. /\ [D!Next]_s /\ UNCHANGED tracker /\ UNCHANGED <<loop, status, refresh, consensus>>
        /\ ClientOK' /\ wsEvents' \in Seq(Events)
    BY <1>1, ClientSteps
  <2>2. Keeps(t, t')
    BY <2>1 DEF tracker, Keeps, OInv, TrackerBehind
  <2>3. /\ DP!IInv' /\ LoopOK' /\ StatusOK' /\ RefreshOK' /\ ConsensusOK' /\ TrackerBehind'
    BY <2>1, <2>2, Others
  <2> QED BY <2>1, <2>3 DEF OInv
<1>2. CASE TakeEvent \/ HandleEvent
  <2>1. LoopStep
    BY <1>2, TakeSteps, BlockSteps, RoundSteps, VoteSteps DEF HandleEvent
  <2>2. UNCHANGED <<client, status, refresh, consensus>>
    BY <1>2 DEF TakeEvent, HandleEvent, HandleNewBlock, ResolveNewBlock, HandleNewRound,
       ObserveNewRound, MarkPreviousRound, HandleVote, RecordVote, IngestVote,
       HandleValidatorSetUpdates, LoopOnly
  <2>3. [D!Next]_s /\ [T!Next]_tracker /\ LoopOK' /\ wsEvents' \in Seq(Events)
    BY <2>1 DEF LoopStep
  <2>4. DP!IInv' /\ ClientOK' /\ StatusOK' /\ RefreshOK' /\ ConsensusOK'
    BY <2>2, <2>3, Others
  <2>5. TrackerBehind'
    BY <2>1, Behind DEF LoopStep
  <2> QED BY <2>3, <2>4, <2>5 DEF OInv
<1>3. CASE RefreshStatus
  <2>1. /\ PollerStep /\ UNCHANGED <<refresh, consensus>> /\ StatusOK'
        /\ Keeps(t, t') \/ (/\ UNCHANGED s /\ "committedHeight" \in DOMAIN t'
                            /\ t'.committedHeight \in Int
                            /\ t'.committedHeight <= s.lastCommittedHeight)
    BY <1>3, StatusSteps
  <2>2. /\ DP!IInv' /\ ClientOK' /\ LoopOK' /\ RefreshOK' /\ ConsensusOK'
    BY <2>1, Others DEF PollerStep
  <2>3. TrackerBehind'
    BY <2>1, Behind DEF PollerStep
  <2> QED BY <2>1, <2>2, <2>3 DEF OInv, PollerStep
<1>4. CASE RefreshValidators
  <2>1. PollerStep /\ UNCHANGED <<status, consensus>> /\ RefreshOK' /\ Keeps(t, t')
    BY <1>4, RefreshSteps
  <2>2. /\ DP!IInv' /\ ClientOK' /\ LoopOK' /\ StatusOK' /\ ConsensusOK' /\ TrackerBehind'
    BY <2>1, Others DEF PollerStep
  <2> QED BY <2>1, <2>2 DEF OInv, PollerStep
<1>5. CASE RefreshConsensus
  <2>1. PollerStep /\ UNCHANGED <<status, refresh>> /\ ConsensusOK' /\ Keeps(t, t')
    BY <1>5, ConsensusSteps
  <2>2. /\ DP!IInv' /\ ClientOK' /\ LoopOK' /\ StatusOK' /\ RefreshOK' /\ TrackerBehind'
    BY <2>1, Others DEF PollerStep
  <2> QED BY <2>1, <2>2 DEF OInv, PollerStep
<1>6. CASE Age \/ UNCHANGED vars
  <2>1. /\ [D!Next]_s /\ UNCHANGED tracker /\ t' = t
        /\ UNCHANGED <<wsEvents, client, loop, status, refresh, consensus>>
    BY <1>6 DEF Age, D!Next, vars, tracker
  <2>2. Keeps(t, t')
    BY <2>1 DEF Keeps, OInv, TrackerBehind
  <2>3. /\ DP!IInv' /\ ClientOK' /\ LoopOK' /\ StatusOK' /\ RefreshOK' /\ ConsensusOK'
        /\ TrackerBehind'
    BY <2>1, <2>2, Others
  <2> QED BY <2>1, <2>3 DEF OInv
<1> QED BY <1>1, <1>2, <1>3, <1>4, <1>5, <1>6 DEF Next

(* The program starts within its bounds.                                   *)
LEMMA OrchestratorInit == Init => D!Init /\ T!Init /\ OInv
<1> SUFFICES ASSUME Init PROVE D!Init /\ T!Init /\ OInv
  OBVIOUS
<1>1. D!Init /\ T!Init
  BY DEF Init
<1>2. DP!IInv
  BY <1>1, SameInit, DP!InitSound, Domains
<1>3. "committedHeight" \in DOMAIN t /\ t.committedHeight = 0
  BY <1>1 DEF T!Init
<1>4. s.lastCommittedHeight \in Nat
  BY <1>2, CommittedIs DEF DP!IInv
<1> QED BY <1>1, <1>2, <1>3, <1>4 DEF Init, OInv, TrackerBehind, ClientOK, LoopOK, StatusOK,
           RefreshOK, ConsensusOK

-----------------------------------------------------------------------------
(* The goroutines stay within their bounds, in every order.                *)
THEOREM OrchestratorInvariant == Spec => []OInv
<1>1. Init => OInv
  BY OrchestratorInit
<1>2. OInv /\ [Next]_vars => OInv'
  BY OrchestratorStep
<1> QED BY <1>1, <1>2, PTL DEF Spec

(* The stream, the loop and the pollers, interleaved call by call, change  *)
(* the dashboard state only as module Dashboard allows.                    *)
THEOREM DashboardImplemented == Spec => ImplementsDashboard
<1>1. Init => D!Init
  BY OrchestratorInit
<1>2. OInv /\ [Next]_vars => [D!Next]_s
  BY OrchestratorStep
<1> QED BY <1>1, <1>2, OrchestratorInvariant, PTL DEF Spec, ImplementsDashboard, D!Spec

(* They call the tracker only as module Tracker allows.                    *)
THEOREM TrackerImplemented == Spec => ImplementsTracker
<1>1. Init => T!Init
  BY OrchestratorInit
<1>2. OInv /\ [Next]_vars => [T!Next]_tracker
  BY OrchestratorStep
<1>3. [T!Next]_tracker <=> [T!Next]_T!vars
  BY DEF tracker, T!vars
<1> QED BY <1>1, <1>2, <1>3, OrchestratorInvariant, PTL DEF Spec, ImplementsTracker, T!Spec

(* The tracker never counts a height as committed before the dashboard.    *)
THEOREM TrackerStaysBehind == Spec => []TrackerBehindDashboard
<1>1. OInv => TrackerBehindDashboard
  BY DEF OInv, TrackerBehind, TrackerBehindDashboard
<1> QED BY <1>1, OrchestratorInvariant, PTL

(* Nothing stale is displayed behind the orchestrator: the displayed       *)
(* height has not committed, what is shown belongs to the displayed round, *)
(* and the history is bounded and increasing.                              *)
THEOREM DisplaySound ==
  Spec => [](D!ActiveAboveCommitted /\ D!RoundViewCurrent /\ D!DisplayIsCurrent /\ D!BlocksOrdered)
<1>1. OInv => D!ActiveAboveCommitted /\ D!RoundViewCurrent /\ D!DisplayIsCurrent /\ D!BlocksOrdered
  <2> SUFFICES ASSUME DP!Sound(s)
               PROVE  D!ActiveAboveCommitted /\ D!RoundViewCurrent /\ D!DisplayIsCurrent /\ D!BlocksOrdered
    BY DEF OInv, DP!IInv
  <2>1. D!ActiveAboveCommitted
    BY DEF DP!Sound, DP!Active, D!ActiveAboveCommitted
  <2>2. D!RoundViewCurrent
    BY DEF DP!Sound, DP!DataOK, DP!ViewOK, D!RoundViewCurrent
  <2>3. D!DisplayIsCurrent
    BY DEF DP!Sound, DP!DataOK, DP!ViewOK, DP!RoundView, DP!Current, DP!At, D!At, D!DisplayIsCurrent
  <2>4. D!BlocksOrdered
    BY DEF DP!Sound, DP!Ordered, D!BlocksOrdered
  <2> QED BY <2>1, <2>2, <2>3, <2>4
<1> QED BY <1>1, OrchestratorInvariant, PTL

-----------------------------------------------------------------------------
(* Tracker and TrackerProofs speak of the same calls *)

TP == INSTANCE TrackerProofs

(* The constants meet the assumptions of Tracker.                          *)
LEMMA TrackerAssumptions == TP!DomainAssumption /\ TP!LimitAssumption /\ TP!RosterAssumption
<1>1. TP!DomainAssumption
  BY OrchestratorDomains, TrackerDomains DEF TP!DomainAssumption, Proposers
<1>2. TP!LimitAssumption
  BY OrchestratorDomains, TrackerDomains DEF TP!LimitAssumption
<1>3. TP!RosterAssumption
  <2>1. \A S0 : IsFiniteSet(S0) => TP!IsFiniteSet(S0)
    BY DEF IsFiniteSet, TP!IsFiniteSet
  <2> QED BY <2>1, OrchestratorDomains, TrackerDomains DEF TP!RosterAssumption
<1> QED BY <1>1, <1>2, <1>3

(* Values, and operators of the libraries.                                 *)
LEMMA SameValues ==
  /\ T!BlockHashes = TP!BlockHashes /\ T!Keys = TP!Keys /\ T!Votes = TP!Votes
  /\ T!NoEntries = TP!NoEntries /\ T!NoVote = TP!NoVote
  /\ T!NewArchivedHeight = TP!NewArchivedHeight
  /\ \A S0 : T!Min(S0) = TP!Min(S0)
  /\ \A S0 : T!Cardinality(S0) = TP!Cardinality(S0)
  /\ \A f : T!Range(f) = TP!Range(f)
  /\ \A f, S0 : T!Restrict(f, S0) = TP!Restrict(f, S0)
  /\ \A f, k, v : T!Put(f, k, v) = TP!Put(f, k, v)
  /\ \A a, b : T!Larger(a, b) = TP!Larger(a, b)
  /\ \A r : T!ValidRound(r) = TP!ValidRound(r)
  /\ \A v : T!WellFormed(v) = TP!WellFormed(v)
  /\ \A v : T!KeyOf(v) = TP!KeyOf(v)
  /\ \A roster : T!NewArchivedRound(roster) = TP!NewArchivedRound(roster)
BY DEF T!BlockHashes, TP!BlockHashes, T!Keys, TP!Keys, T!Votes, TP!Votes,
  T!NoEntries, TP!NoEntries, T!NoVote, TP!NoVote, T!NewArchivedHeight, TP!NewArchivedHeight,
  T!Min, TP!Min, T!Cardinality, TP!Cardinality, T!Range, TP!Range, T!Restrict, TP!Restrict,
  T!Put, TP!Put, T!Larger, TP!Larger, T!ValidRound, TP!ValidRound, T!WellFormed, TP!WellFormed,
  T!KeyOf, TP!KeyOf, T!NewArchivedRound, TP!NewArchivedRound

(* Making room in the archive.                                             *)
LEMMA SameArchive ==
  /\ \A s0, h, r : T!RetainsRound(s0, h, r) = TP!RetainsRound(s0, h, r)
  /\ \A s0, h : T!CreateArchiveHeight(s0, h) = TP!CreateArchiveHeight(s0, h)
  /\ \A s0, h, r : T!ArchiveRound(s0, h, r) = TP!ArchiveRound(s0, h, r)
BY DEF T!Retains, TP!Retains, T!RetainsRound, TP!RetainsRound,
  T!PruneDetectorRounds, TP!PruneDetectorRounds, T!AddArchiveHeight, TP!AddArchiveHeight,
  T!EvictArchiveHeight, TP!EvictArchiveHeight, T!CreateArchiveHeight, TP!CreateArchiveHeight,
  T!AddArchiveRound, TP!AddArchiveRound, T!EvictArchiveRound, TP!EvictArchiveRound,
  T!ArchiveRound, TP!ArchiveRound, T!NoEntries, TP!NoEntries, T!NewArchivedHeight, TP!NewArchivedHeight,
  T!Min, TP!Min, T!Cardinality, TP!Cardinality, T!Restrict, TP!Restrict,
  T!Put, TP!Put, T!Larger, TP!Larger, T!NewArchivedRound, TP!NewArchivedRound

(* observeVoteLocked and observeRoundLocked.                               *)
LEMMA SameObserve ==
  /\ \A s0, h, r : T!AdmitRound(s0, h, r) = TP!AdmitRound(s0, h, r)
  /\ \A b, v : T!RecordVote(b, v) = TP!RecordVote(b, v)
  /\ \A s0, v : T!ObserveVoteLocked(s0, v) = TP!ObserveVoteLocked(s0, v)
  /\ \A s0, h, r, p : T!ObserveRoundLocked(s0, h, r, p) = TP!ObserveRoundLocked(s0, h, r, p)
<1>1. \A s0, h, r : T!AdmitRound(s0, h, r) = TP!AdmitRound(s0, h, r)
  BY SameArchive DEF T!AdmitRound, TP!AdmitRound, T!ArchiveHeight, TP!ArchiveHeight,
     T!Retains, TP!Retains
<1>2. \A b, v : T!RecordVote(b, v) = TP!RecordVote(b, v)
  BY DEF T!RecordVote, TP!RecordVote, T!AdmitsVoter, TP!AdmitsVoter, T!Voters, TP!Voters,
     T!AppendHash, TP!AppendHash, T!NoVote, TP!NoVote, T!Put, TP!Put, T!Range, TP!Range,
     T!Cardinality, TP!Cardinality, T!NoEntries, TP!NoEntries
<1>3. \A s0, v : T!ObserveVoteLocked(s0, v) = TP!ObserveVoteLocked(s0, v)
  BY <1>1, <1>2, SameValues, SameArchive DEF T!ObserveVoteLocked, TP!ObserveVoteLocked
<1>4. \A s0, h, r, p : T!ObserveRoundLocked(s0, h, r, p) = TP!ObserveRoundLocked(s0, h, r, p)
  <2>1. \A b, r, p : T!SetProposer(b, r, p) = TP!SetProposer(b, r, p)
    BY DEF T!SetProposer, TP!SetProposer
  <2>2. \A r : T!ValidRound(r) = TP!ValidRound(r)
    BY SameValues
  <2> QED BY <1>1, <2>1, <2>2, SameArchive DEF T!ObserveRoundLocked, TP!ObserveRoundLocked
<1> QED BY <1>1, <1>2, <1>3, <1>4

(* The live detector: weights, triggers and reports.                       *)
LEMMA SameDetector ==
  /\ \A rd : T!IsDivergent(rd) = TP!IsDivergent(rd)
  /\ \A rd, type : T!Triggers(rd, type) = TP!Triggers(rd, type)
  /\ \A rd, v : T!Tally(rd, v) = TP!Tally(rd, v)
  /\ \A s0 : T!NewRoundData(s0) = TP!NewRoundData(s0)
  /\ \A s0, v : T!Archived(s0, v) = TP!Archived(s0, v)
  /\ \A m0, S0 : T!PowerOfAll(m0, S0) = TP!PowerOfAll(m0, S0)
  /\ \A rd, m0 : T!Reweigh(rd, m0) = TP!Reweigh(rd, m0)
  /\ \A b, m0 : T!FillRosters(b, m0) = TP!FillRosters(b, m0)
BY DEF T!IsDivergent, TP!IsDivergent, T!Settled, TP!Settled, T!Triggers, TP!Triggers,
  T!Tally, TP!Tally, T!NewRoundData, TP!NewRoundData, T!Archived, TP!Archived,
  T!PowerOf, TP!PowerOf, T!PowerOfAll, TP!PowerOfAll, T!Reweigh, TP!Reweigh,
  T!MapThenSumSet, TP!MapThenSumSet, T!MapThenFoldSet, TP!MapThenFoldSet,
  T!FillRosters, TP!FillRosters, T!Cardinality, TP!Cardinality, T!Put, TP!Put,
  T!NoEntries, TP!NoEntries

(* ingestVoteLocked.                                                       *)
LEMMA SameIngest == \A s0, v : T!IngestVoteLocked(s0, v) = TP!IngestVoteLocked(s0, v)
<1> SUFFICES ASSUME NEW s0, NEW v PROVE T!IngestVoteLocked(s0, v) = TP!IngestVoteLocked(s0, v)
  OBVIOUS
<1> DEFINE s1 == T!ObserveVoteLocked(s0, v)
<1>1. s1 = TP!ObserveVoteLocked(s0, v)
  BY SameObserve
<1> HIDE DEF s1
<1>2. TP!ObserveVoteLocked(s0, v) = s1 /\ T!ObserveVoteLocked(s0, v) = s1
  BY <1>1 DEF s1
<1> DEFINE rd == IF T!KeyOf(v) \in DOMAIN s1.rounds THEN s1.rounds[T!KeyOf(v)]
                 ELSE T!NewRoundData(s1)
<1>3. rd = IF TP!KeyOf(v) \in DOMAIN s1.rounds THEN s1.rounds[TP!KeyOf(v)] ELSE TP!NewRoundData(s1)
  BY SameValues, SameDetector
<1> HIDE DEF rd
<1>4. T!KeyOf(v) = TP!KeyOf(v) /\ T!NewRoundData(s1) = TP!NewRoundData(s1)
  BY SameValues, SameDetector
<1>5. \A x, y, z : T!Put(x, y, z) = TP!Put(x, y, z)
  BY SameValues
<1> QED BY <1>2, <1>3, <1>4, <1>5, SameDetector DEF T!IngestVoteLocked, TP!IngestVoteLocked, rd

(* ResolveCommit's body.                                                   *)
LEMMA SameResolve == \A s0, h, hash : T!ResolveCommitLocked(s0, h, hash) = TP!ResolveCommitLocked(s0, h, hash)
<1> SUFFICES ASSUME NEW s0, NEW h, NEW hash
             PROVE  T!ResolveCommitLocked(s0, h, hash) = TP!ResolveCommitLocked(s0, h, hash)
  OBVIOUS
<1> DEFINE s1 == T!ArchiveCommit(s0, h, hash)
<1>1. s1 = TP!ArchiveCommit(s0, h, hash)
  BY ZenonT(90), SameArchive DEF T!ArchiveCommit, TP!ArchiveCommit, T!Retains, TP!Retains
<1> HIDE DEF s1
<1>2. TP!ArchiveCommit(s0, h, hash) = s1 /\ T!ArchiveCommit(s0, h, hash) = s1
  BY <1>1 DEF s1
<1>3. /\ \A a, b : T!Larger(a, b) = TP!Larger(a, b)
      /\ \A rd, k : T!Resolve(rd, k, h, hash) = TP!Resolve(rd, k, h, hash)
      /\ \A rd : T!IsDivergent(rd) = TP!IsDivergent(rd)
      /\ \A rd, k : T!Report(rd, k) = TP!Report(rd, k)
      /\ \A seq, n : T!Latest(seq, n) = TP!Latest(seq, n)
  BY DEF T!Larger, TP!Larger, T!Resolve, TP!Resolve, T!Report, TP!Report, T!Latest, TP!Latest,
     T!IsDivergent, TP!IsDivergent
<1>4. \A S0 : T!InOrder(S0) = TP!InOrder(S0)
  BY DEF T!InOrder, TP!InOrder, T!ReportBefore, TP!ReportBefore, T!SetToSeqs, TP!SetToSeqs,
     T!Cardinality, TP!Cardinality
<1> QED BY ZenonT(60), <1>2, <1>3, <1>4 DEF T!ResolveCommitLocked, TP!ResolveCommitLocked

(* The calls themselves.                                                   *)
LEMMA SameCalls ==
  /\ \A m0 : T!SetValidators(m0) = TP!SetValidators(m0)
  /\ \A h, r, p : T!ObserveRound(h, r, p) = TP!ObserveRound(h, r, p)
  /\ \A v : T!ObserveVote(v) = TP!ObserveVote(v)
  /\ \A v : T!IngestVote(v) = TP!IngestVote(v)
  /\ \A h, r : T!MarkRoundAdvanced(h, r) = TP!MarkRoundAdvanced(h, r)
  /\ \A h, hash : T!ResolveCommit(h, hash) = TP!ResolveCommit(h, hash)
<1>1. \A h, r : T!Remember(h, r) = TP!Remember(h, r)
  BY DEF T!Remember, TP!Remember
<1>2. \A m0 : T!SetValidators(m0) = TP!SetValidators(m0)
  BY SameDetector DEF T!SetValidators, TP!SetValidators
<1>3. \A h, r, p : T!ObserveRound(h, r, p) = TP!ObserveRound(h, r, p)
  BY <1>1, SameObserve DEF T!ObserveRound, TP!ObserveRound
<1>4. \A v : T!ObserveVote(v) = TP!ObserveVote(v)
  BY <1>1, SameObserve DEF T!ObserveVote, TP!ObserveVote
<1>5. \A v : T!IngestVote(v) = TP!IngestVote(v)
  BY <1>1, SameValues, SameIngest DEF T!IngestVote, TP!IngestVote
<1>6. \A h, r : T!MarkRoundAdvanced(h, r) = TP!MarkRoundAdvanced(h, r)
  BY DEF T!MarkRoundAdvanced, TP!MarkRoundAdvanced
<1>7. \A h, hash : T!ResolveCommit(h, hash) = TP!ResolveCommit(h, hash)
  BY SameResolve DEF T!ResolveCommit, TP!ResolveCommit
<1> QED BY <1>2, <1>3, <1>4, <1>5, <1>6, <1>7

(* Hence the initial states and the steps are the same.                    *)
LEMMA SameTracker == (T!Init = TP!Init) /\ (T!Next = TP!Next)
<1>1. T!Init = TP!Init
  BY SameValues DEF T!Init, TP!Init
<1>2. T!Next = TP!Next
  BY SameValues, SameCalls DEF T!Next, TP!Next
<1> QED BY <1>1, <1>2

-----------------------------------------------------------------------------
(* What is on display is accounted for: the inductive invariant *)

(* handleVote has archived a vote that advances the display, and has not   *)
(* recorded it yet.                                                        *)
Ahead(l, d) ==
  l.pc = "record_vote" /\ D!Advances(d, l.ev.vote.height, l.ev.vote.round)

(* The highest position that the archive may have been told of: the        *)
(* display's, or that of the vote it is about to move to.                  *)
FrontHeight(l, d) == IF Ahead(l, d) THEN l.ev.vote.height ELSE d.height
FrontRound(l, d) == IF Ahead(l, d) THEN l.ev.vote.round ELSE d.round

(* The display has reached round r of height h, or h has committed.        *)
Reached(d, h, r) == TP!UpTo(d.lastCommittedHeight, d.height, d.round, h, r)

(* The vote that the display shows for validator a.                        *)
CellVote(d, a, type) ==
  [height |-> d.height, round |-> d.round, type |-> type, addr |-> a,
   hash |-> d.lastRound.rows[a].votes[type].hash]

(* A vote on display is tallied, as far as the archive has room for it, or *)
(* about to leave the display, or about to be tallied.                     *)
Backed(x, l, d, a, type) ==
  \/ TP!Tallied(x, CellVote(d, a, type))
  \/ Ahead(l, d) /\ (l.ev.vote.height # d.height \/ l.ev.vote.round # d.round)
  \/ l.pc = "ingest_vote" /\ CellVote(d, a, type) = l.ev.vote /\ TP!OnFile(x, l.ev.vote)

(* The tracker x, the stages l and k of the loop and of the consensus      *)
(* poller, and the display d.                                              *)
TallyOK(x, l, k, d) ==
  /\ TP!Within(x, d.lastCommittedHeight, FrontHeight(l, d), FrontRound(l, d))
  /\ Ahead(l, d) => TP!OnFile(x, l.ev.vote)
  /\ l.pc = "ingest_vote" => Reached(d, l.ev.vote.height, l.ev.vote.round)
  /\ l.pc = "observe_round" => Reached(d, l.ev.height, l.ev.round)
  /\ k.pc = "observe" => Reached(d, k.reply.height, k.reply.round)
  /\ \A a \in DOMAIN d.lastRound.rows, type \in VoteTypes :
       d.lastRound.rows[a].votes[type].kind # "absent" =>
         d.height > 0 /\ CellVote(d, a, type) \in TP!Votes /\ Backed(x, l, d, a, type)

TallyInv == TP!TrackerInv /\ TallyOK(t, loop, consensus, s)

(* What the stages of the loop and of the consensus poller carry.          *)
LoopFits(l) ==
  /\ l.pc \in {"vote", "record_vote", "ingest_vote"} => l.ev.vote \in TP!Votes
  /\ l.pc = "observe_round" => l.ev.height \in Int /\ l.ev.round \in Int
ConsensusFits(k) == k.pc = "observe" => k.reply.height \in Int /\ k.reply.round \in Int

-----------------------------------------------------------------------------
(* The display *)

(* The calls that module Dashboard and its proofs speak of are the same.   *)
LEMMA SameDashboardCalls ==
  /\ \A d, h, r : D!Advances(d, h, r) = DP!Advances(d, h, r)
  /\ \A d, v : D!AcceptsVote(d, v) = DP!AcceptsVote(d, v)
  /\ \A v : D!Vote(v) = DP!Vote(v)
  /\ D!StreamEvent = DP!StreamEvent
  /\ \A h : D!NewBlock(h) = DP!NewBlock(h)
  /\ \A h, r, step, p : D!NewRound(h, r, step, p) = DP!NewRound(h, r, step, p)
  /\ \A latest : D!StatusReply(latest) = DP!StatusReply(latest)
  /\ \A h : D!BlockReply(h) = DP!BlockReply(h)
  /\ \A V, vh : D!ValidatorsReply(V, vh) = DP!ValidatorsReply(V, vh)
  /\ \A h, r, step : D!FallbackReply(h, r, step) = DP!FallbackReply(h, r, step)
  /\ \A live : D!Lifecycle(live) = DP!Lifecycle(live)
  /\ D!EventAges = DP!EventAges
BY DEF D!At, DP!At,
  D!Greater, DP!Greater, D!AbsentVote, DP!AbsentVote, D!NotProposer, DP!NotProposer,
  D!EmptyRow, DP!EmptyRow, D!CellOf, DP!CellOf, D!StepOf, DP!StepOf, D!ModeAt, DP!ModeAt,
  D!ClearRoundVotes, DP!ClearRoundVotes, D!RestartView, DP!RestartView, D!Advances, DP!Advances,
  D!AdvanceRound, DP!AdvanceRound, D!MarkProposer, DP!MarkProposer,
  D!AppendBlock, DP!AppendBlock, D!AcceptsBlock, DP!AcceptsBlock, D!CommitBlock, DP!CommitBlock,
  D!StartRound, DP!StartRound, D!Shown, DP!Shown, D!AcceptsVote, DP!AcceptsVote,
  D!RecordVote, DP!RecordVote, D!RecordHTTPSuccess, DP!RecordHTTPSuccess,
  D!ApplyStatus, DP!ApplyStatus, D!MergeValidatorRound, DP!MergeValidatorRound,
  D!AcceptsFallback, DP!AcceptsFallback, D!ApplyFallback, DP!ApplyFallback,
  D!StreamEvent, DP!StreamEvent, D!NewBlock, DP!NewBlock, D!NewRound, DP!NewRound,
  D!Vote, DP!Vote, D!StatusReply, DP!StatusReply, D!BlockReply, DP!BlockReply,
  D!ValidatorsReply, DP!ValidatorsReply, D!FallbackReply, DP!FallbackReply,
  D!Lifecycle, DP!Lifecycle, D!EventAges, DP!EventAges

(* The position is a pair of numbers, and above what has committed.        *)
LEMMA PlaceIs ==
  ASSUME NEW d, DP!Sound(d)
  PROVE  /\ d.height \in Nat /\ d.round \in Nat /\ d.lastCommittedHeight \in Nat
         /\ d.height > 0 => d.lastCommittedHeight < d.height
<1>1. PICK V : DP!DataOK(V, d)
  BY DEF DP!Sound
<1>2. d.height \in Nat /\ d.round \in Nat /\ d.lastCommittedHeight \in Nat
  BY <1>1 DEF DP!DataOK, DP!StateData
<1>3. d.height = 0 \/ d.height > d.lastCommittedHeight
  BY DEF DP!Sound, DP!Active
<1> QED BY <1>2, <1>3

(* d, and e after it: the position does not go back.                       *)
MovedOn(d, e) ==
  TP!Onward(d.lastCommittedHeight, d.height, d.round, e.lastCommittedHeight, e.height, e.round)

(* No Dashboard step goes back, nor forgets a position by more than a      *)
(* commit that covers it.                                                  *)
LEMMA DisplayMovesOn ==
  ASSUME DP!IInv, [D!Next]_s
  PROVE  MovedOn(s, s') /\ DP!Sound(s) /\ DP!Sound(s')
<1>1. [DP!Next]_s
  BY SameNext
<1>2. DP!Sound(s) /\ DP!Sound(s')
  BY <1>1, DP!NextSound, Domains DEF DP!IInv
<1>3. DP!Forward(s, s')
  BY <1>1, DP!NextForward, Domains
<1>4. /\ s.height \in Nat /\ s.round \in Nat /\ s.lastCommittedHeight \in Nat
      /\ s'.height \in Nat /\ s'.round \in Nat /\ s'.lastCommittedHeight \in Nat
  BY <1>2, PlaceIs
<1>5. MovedOn(s, s')
  BY <1>3, <1>4 DEF DP!Forward, DP!Position2, TP!Onward, MovedOn
<1> QED BY <1>2, <1>5

(* A round that does not advance the display is one that it has reached,   *)
(* and stays so; one that does is beyond it.                               *)
LEMMA AdvancesIs ==
  ASSUME NEW d, DP!Sound(d), NEW h \in Int, NEW r \in Int
  PROVE  /\ ~D!Advances(d, h, r) /\ TP!ValidRound(r) => Reached(d, h, r)
         /\ D!Advances(d, h, r) =>
              /\ TP!ValidRound(r) /\ h \in Nat /\ r \in Nat /\ h > 0 /\ d.lastCommittedHeight < h
              /\ TP!Onward(d.lastCommittedHeight, d.height, d.round, d.lastCommittedHeight, h, r)
         /\ \A e : DP!Sound(e) /\ MovedOn(d, e) =>
              /\ ~D!Advances(d, h, r) => ~D!Advances(e, h, r)
              /\ D!Advances(d, h, r) /\ ~D!Advances(e, h, r) =>
                   TP!Onward(d.lastCommittedHeight, h, r, e.lastCommittedHeight, e.height, e.round)
<1>1. /\ d.height \in Nat /\ d.round \in Nat /\ d.lastCommittedHeight \in Nat /\ MaxRound \in Nat
  BY PlaceIs, OrchestratorDomains
<1>2. ~D!Advances(d, h, r) /\ TP!ValidRound(r) => Reached(d, h, r)
  BY <1>1 DEF D!Advances, TP!ValidRound, Reached, TP!UpTo
<1>3. D!Advances(d, h, r) =>
         /\ TP!ValidRound(r) /\ h \in Nat /\ r \in Nat /\ h > 0 /\ d.lastCommittedHeight < h
         /\ TP!Onward(d.lastCommittedHeight, d.height, d.round, d.lastCommittedHeight, h, r)
  BY <1>1 DEF D!Advances, TP!ValidRound, TP!Onward
<1>4. ASSUME NEW e, DP!Sound(e), MovedOn(d, e)
      PROVE  /\ ~D!Advances(d, h, r) => ~D!Advances(e, h, r)
             /\ D!Advances(d, h, r) /\ ~D!Advances(e, h, r) =>
                  TP!Onward(d.lastCommittedHeight, h, r, e.lastCommittedHeight, e.height, e.round)
  <2>1. e.height \in Nat /\ e.round \in Nat /\ e.lastCommittedHeight \in Nat
    BY <1>4, PlaceIs
  <2>2. ~D!Advances(d, h, r) => ~D!Advances(e, h, r)
    BY <1>1, <1>4, <2>1 DEF D!Advances, MovedOn, TP!Onward
  <2>3. D!Advances(d, h, r) /\ ~D!Advances(e, h, r) =>
          TP!Onward(d.lastCommittedHeight, h, r, e.lastCommittedHeight, e.height, e.round)
    BY <1>1, <1>4, <2>1 DEF D!Advances, MovedOn, TP!Onward
  <2> QED BY <2>2, <2>3
<1> QED BY <1>2, <1>3, <1>4

(* Where the front is.                                                     *)
LEMMA FrontIs ==
  ASSUME NEW l, LoopFits(l), NEW d, DP!Sound(d)
  PROVE  /\ FrontHeight(l, d) \in Nat /\ FrontRound(l, d) \in Nat
         /\ TP!Onward(d.lastCommittedHeight, d.height, d.round,
                      d.lastCommittedHeight, FrontHeight(l, d), FrontRound(l, d))
         /\ Ahead(l, d) =>
              /\ l.ev.vote \in TP!Votes /\ d.lastCommittedHeight < l.ev.vote.height
              /\ l.ev.vote.height \in Nat /\ l.ev.vote.round \in Nat
              /\ FrontHeight(l, d) = l.ev.vote.height /\ FrontRound(l, d) = l.ev.vote.round
         /\ ~Ahead(l, d) => FrontHeight(l, d) = d.height /\ FrontRound(l, d) = d.round
<1>1. d.height \in Nat /\ d.round \in Nat /\ d.lastCommittedHeight \in Nat
  BY PlaceIs
<1>2. CASE Ahead(l, d)
  <2> DEFINE v == l.ev.vote
  <2>1. v \in TP!Votes /\ v.height \in Int /\ v.round \in Int
    <3>1. v \in TP!Votes
      BY <1>2 DEF Ahead, LoopFits
    <3> QED BY <3>1, OrchestratorDomains DEF TP!Votes
  <2>2. D!Advances(d, v.height, v.round)
    BY <1>2 DEF Ahead
  <2>3. /\ v.height \in Nat /\ v.round \in Nat /\ d.lastCommittedHeight < v.height
        /\ TP!Onward(d.lastCommittedHeight, d.height, d.round, d.lastCommittedHeight, v.height, v.round)
    BY <2>1, <2>2, AdvancesIs
  <2>4. FrontHeight(l, d) = v.height /\ FrontRound(l, d) = v.round
    BY <1>2 DEF FrontHeight, FrontRound
  <2> QED BY <1>2, <2>1, <2>3, <2>4
<1>3. CASE ~Ahead(l, d)
  <2>1. FrontHeight(l, d) = d.height /\ FrontRound(l, d) = d.round
    BY <1>3 DEF FrontHeight, FrontRound
  <2>2. TP!Onward(d.lastCommittedHeight, d.height, d.round,
                  d.lastCommittedHeight, FrontHeight(l, d), FrontRound(l, d))
    BY <1>1, <2>1 DEF TP!Onward
  <2> QED BY <1>1, <1>3, <2>1, <2>2
<1> QED BY <1>2, <1>3

(* What the display has reached it has reached later too.                  *)
LEMMA ReachedStays ==
  ASSUME NEW d, DP!Sound(d), NEW e, DP!Sound(e), MovedOn(d, e), NEW h \in Int, NEW r \in Int,
         Reached(d, h, r)
  PROVE  Reached(e, h, r)
<1>1. /\ d.height \in Nat /\ d.round \in Nat /\ d.lastCommittedHeight \in Nat
      /\ e.height \in Nat /\ e.round \in Nat /\ e.lastCommittedHeight \in Nat
  BY PlaceIs
<1> QED BY <1>1 DEF Reached, TP!UpTo, MovedOn, TP!Onward

(* A vote on display whose cell is kept is the same vote.                  *)
LEMMA KeptIsSame ==
  ASSUME NEW d, NEW e, NEW a, NEW type, DP!KeptCell(d, e, a, type)
  PROVE  CellVote(e, a, type) = CellVote(d, a, type)
BY DEF DP!KeptCell, CellVote

(* A step of the display while the loop stays where it is.                 *)
LEMMA DisplayStays ==
  ASSUME NEW x, TP!ArchiveOK(x), NEW l, LoopFits(l), NEW k, ConsensusFits(k),
         NEW d, DP!Sound(d), NEW e, DP!Sound(e), MovedOn(d, e), DP!NoNewVote(d, e),
         TallyOK(x, l, k, d),
         NEW k2, k2 = k \/ (k2.pc = "observe" => Reached(e, k2.reply.height, k2.reply.round))
  PROVE  TallyOK(x, l, k2, e)
<1> DEFINE c == d.lastCommittedHeight
           c2 == e.lastCommittedHeight
           v == l.ev.vote
<1>1. /\ d.height \in Nat /\ d.round \in Nat /\ c \in Nat /\ (d.height > 0 => c < d.height)
      /\ e.height \in Nat /\ e.round \in Nat /\ c2 \in Nat /\ (e.height > 0 => c2 < e.height)
      /\ c <= c2
  <2>1. c <= c2
    BY DEF MovedOn, TP!Onward
  <2> QED BY <2>1, PlaceIs
<1>2. l.pc = "record_vote" \/ l.pc = "ingest_vote" => v \in TP!Votes /\ v.height \in Int /\ v.round \in Int
  BY OrchestratorDomains DEF LoopFits, TP!Votes
<1>3. /\ ~Ahead(l, d) => ~Ahead(l, e)
      /\ Ahead(l, d) /\ ~Ahead(l, e) => TP!Onward(c, v.height, v.round, c2, e.height, e.round)
  <2>1. CASE l.pc = "record_vote"
    BY <1>2, <2>1, AdvancesIs DEF Ahead
  <2>2. CASE l.pc # "record_vote"
    BY <2>2 DEF Ahead
  <2> QED BY <2>1, <2>2
<1>4. TP!Within(x, c2, FrontHeight(l, e), FrontRound(l, e))
  <2>1. TP!Onward(c, FrontHeight(l, d), FrontRound(l, d), c2, FrontHeight(l, e), FrontRound(l, e))
    <3>1. CASE ~Ahead(l, d)
      BY <1>3, <3>1, FrontIs DEF MovedOn
    <3>2. CASE Ahead(l, d) /\ ~Ahead(l, e)
      BY <1>3, <3>2, FrontIs
    <3>3. CASE Ahead(l, d) /\ Ahead(l, e)
      <4>1. /\ FrontHeight(l, d) = v.height /\ FrontRound(l, d) = v.round
            /\ FrontHeight(l, e) = v.height /\ FrontRound(l, e) = v.round
            /\ v.height \in Nat /\ v.round \in Nat
        BY <3>3, FrontIs
      <4> QED BY <1>1, <4>1 DEF TP!Onward
    <3> QED BY <3>1, <3>2, <3>3
  <2>2. /\ FrontHeight(l, d) \in Int /\ FrontRound(l, d) \in Int
        /\ FrontHeight(l, e) \in Int /\ FrontRound(l, e) \in Int /\ c \in Int /\ c2 \in Int
    BY <1>1, FrontIs
  <2>3. TP!Within(x, c, FrontHeight(l, d), FrontRound(l, d))
    BY DEF TallyOK
  <2> HIDE DEF c, c2
  <2> DEFINE H == FrontHeight(l, d)
             R == FrontRound(l, d)
             H2 == FrontHeight(l, e)
             R2 == FrontRound(l, e)
  <2> HIDE DEF H, R, H2, R2
  <2>4. TP!Onward(c, H, R, c2, H2, R2) /\ TP!Within(x, c, H, R)
        /\ H \in Int /\ R \in Int /\ H2 \in Int /\ R2 \in Int
    BY <2>1, <2>2, <2>3 DEF H, R, H2, R2
  <2>5. TP!Within(x, c2, H2, R2)
    BY <2>2, <2>4, TP!OnwardKeeps, TrackerAssumptions
  <2> QED BY <2>5 DEF H2, R2
<1>5. Ahead(l, e) => TP!OnFile(x, v)
  BY <1>3 DEF TallyOK
<1>6. l.pc = "ingest_vote" => Reached(e, v.height, v.round)
  BY <1>2, ReachedStays DEF TallyOK
<1>7. l.pc = "observe_round" => Reached(e, l.ev.height, l.ev.round)
  BY ReachedStays DEF TallyOK, LoopFits
<1>8. k2.pc = "observe" => Reached(e, k2.reply.height, k2.reply.round)
  BY ReachedStays DEF TallyOK, ConsensusFits
<1>9. ASSUME NEW a \in DOMAIN e.lastRound.rows, NEW type \in VoteTypes,
             e.lastRound.rows[a].votes[type].kind # "absent"
      PROVE  /\ e.height > 0 /\ CellVote(e, a, type) \in TP!Votes
             /\ Backed(x, l, e, a, type)
  <2>1. DP!KeptCell(d, e, a, type)
    BY <1>9 DEF DP!NoNewVote
  <2>2. /\ e.height = d.height /\ e.round = d.round /\ a \in DOMAIN d.lastRound.rows
        /\ d.lastRound.rows[a].votes[type].kind # "absent"
        /\ CellVote(e, a, type) = CellVote(d, a, type)
    BY <1>9, <2>1, KeptIsSame DEF DP!KeptCell
  <2>3. d.height > 0 /\ CellVote(d, a, type) \in TP!Votes /\ Backed(x, l, d, a, type)
    BY <2>2 DEF TallyOK
  <2>4. CASE Ahead(l, d) /\ (v.height # d.height \/ v.round # d.round)
    <3>1. Ahead(l, e)
      <4> SUFFICES ASSUME ~Ahead(l, e) PROVE FALSE
        OBVIOUS
      <4>1. TP!Onward(c, v.height, v.round, c2, e.height, e.round)
        BY <1>3, <2>4
      <4>2. TP!Onward(c, d.height, d.round, c, v.height, v.round) /\ v.height \in Nat /\ v.round \in Nat
        BY <2>4, FrontIs
      <4>3. c < d.height /\ c2 < d.height
        BY <1>1, <2>2, <2>3
      <4> QED BY <1>1, <2>2, <2>4, <4>1, <4>2, <4>3 DEF TP!Onward
    <3> QED BY <2>2, <2>3, <2>4, <3>1 DEF Backed
  <2>5. CASE ~(Ahead(l, d) /\ (v.height # d.height \/ v.round # d.round))
    BY <2>2, <2>3, <2>5 DEF Backed
  <2> QED BY <2>4, <2>5
<1> QED BY <1>4, <1>5, <1>6, <1>7, <1>8, <1>9 DEF TallyOK

(* A step of the display with a step of the loop that handles no vote.     *)
LEMMA DisplayTurns ==
  ASSUME NEW x, TP!ArchiveOK(x), NEW l, LoopFits(l), NEW k, ConsensusFits(k),
         NEW d, DP!Sound(d), NEW e, DP!Sound(e), MovedOn(d, e), DP!NoNewVote(d, e),
         TallyOK(x, l, k, d), ~Ahead(l, d), l.pc # "ingest_vote",
         NEW l2, l2.pc \notin {"record_vote", "ingest_vote"},
         l2.pc = "observe_round" => Reached(e, l2.ev.height, l2.ev.round)
  PROVE  TallyOK(x, l2, k, e)
<1>1. TallyOK(x, l, k, e)
  BY DisplayStays
<1>2. ~Ahead(l, e)
  <2>1. CASE l.pc = "record_vote"
    <3>1. l.ev.vote.height \in Int /\ l.ev.vote.round \in Int
      BY <2>1, OrchestratorDomains DEF LoopFits, TP!Votes
    <3> QED BY <2>1, <3>1, AdvancesIs DEF Ahead
  <2>2. CASE l.pc # "record_vote"
    BY <2>2 DEF Ahead
  <2> QED BY <2>1, <2>2
<1>3. ~Ahead(l2, e)
  BY DEF Ahead
<1>4. FrontHeight(l2, e) = FrontHeight(l, e) /\ FrontRound(l2, e) = FrontRound(l, e)
  BY <1>2, <1>3 DEF FrontHeight, FrontRound
<1>5. ASSUME NEW a \in DOMAIN e.lastRound.rows, NEW type \in VoteTypes,
             e.lastRound.rows[a].votes[type].kind # "absent"
      PROVE  /\ e.height > 0 /\ CellVote(e, a, type) \in TP!Votes
             /\ Backed(x, l2, e, a, type)
  BY <1>1, <1>2, <1>5 DEF TallyOK, Backed
<1> QED BY <1>1, <1>3, <1>4, <1>5 DEF TallyOK

-----------------------------------------------------------------------------
(* The tracker *)

(* A call on what the callers have reached, while the loop stays where it  *)
(* is.                                                                     *)
LEMMA TrackerStays ==
  ASSUME NEW x, TP!TrackerOK(x), NEW y, NEW l, LoopFits(l), NEW k, NEW d, DP!Sound(d),
         TallyOK(x, l, k, d),
         TP!Keeps(x, y, d.lastCommittedHeight, FrontHeight(l, d), FrontRound(l, d)),
         NEW k2, k2 = k \/ k2.pc # "observe"
  PROVE  TallyOK(y, l, k2, d)
<1> DEFINE c == d.lastCommittedHeight
           v == l.ev.vote
<1>1. /\ d.height \in Nat /\ d.round \in Nat /\ c \in Nat /\ (d.height > 0 => c < d.height)
  BY PlaceIs
<1>2. TP!Within(y, c, FrontHeight(l, d), FrontRound(l, d))
  BY DEF TP!Keeps
<1>3. \A w \in TP!Votes : w.height = FrontHeight(l, d) /\ w.round = FrontRound(l, d) /\ c < FrontHeight(l, d)
        => (TP!OnFile(x, w) => TP!OnFile(y, w)) /\ (TP!Tallied(x, w) => TP!Tallied(y, w))
  BY DEF TP!Keeps
<1>4. Ahead(l, d) => TP!OnFile(y, v)
  BY <1>3, FrontIs DEF TallyOK
<1>5. ASSUME NEW a \in DOMAIN d.lastRound.rows, NEW type \in VoteTypes,
             d.lastRound.rows[a].votes[type].kind # "absent"
      PROVE  /\ d.height > 0 /\ CellVote(d, a, type) \in TP!Votes
             /\ Backed(y, l, d, a, type)
  <2> DEFINE w == CellVote(d, a, type)
  <2>1. d.height > 0 /\ w \in TP!Votes /\ Backed(x, l, d, a, type)
    BY <1>5 DEF TallyOK
  <2>2. w.height = d.height /\ w.round = d.round
    BY DEF CellVote
  <2>3. CASE Ahead(l, d) /\ (v.height # d.height \/ v.round # d.round)
    BY <2>1, <2>3 DEF Backed
  <2>4. CASE ~(Ahead(l, d) /\ (v.height # d.height \/ v.round # d.round))
    <3>1. FrontHeight(l, d) = d.height /\ FrontRound(l, d) = d.round
      BY <2>4, FrontIs
    <3>2. CASE TP!Tallied(x, w)
      <4> HIDE DEF w
      <4>1. TP!Tallied(y, w)
        BY <1>1, <1>3, <2>1, <2>2, <3>1, <3>2
      <4> QED BY <2>1, <4>1 DEF Backed, w
    <3>3. CASE l.pc = "ingest_vote" /\ w = v /\ TP!OnFile(x, v)
      <4>1. v \in TP!Votes
        BY <3>3 DEF LoopFits
      <4>2. v.height = d.height /\ v.round = d.round
        BY <2>2, <3>3
      <4>3. TP!OnFile(y, v)
        BY <1>1, <1>3, <2>1, <3>1, <3>3, <4>1, <4>2
      <4> QED BY <2>1, <3>3, <4>3 DEF Backed
    <3> QED BY <2>1, <2>4, <3>2, <3>3 DEF Backed
  <2> QED BY <2>3, <2>4
<1> QED BY <1>2, <1>4, <1>5 DEF TallyOK

(* A call with a step of the loop that handles no vote.                    *)
LEMMA TrackerTurns ==
  ASSUME NEW x, TP!TrackerOK(x), NEW y, NEW l, LoopFits(l), NEW k, NEW d, DP!Sound(d),
         TallyOK(x, l, k, d), ~Ahead(l, d), l.pc # "ingest_vote",
         TP!Keeps(x, y, d.lastCommittedHeight, d.height, d.round),
         NEW l2, l2.pc \notin {"ingest_vote", "observe_round"}, ~Ahead(l2, d)
  PROVE  TallyOK(y, l2, k, d)
<1>1. FrontHeight(l, d) = d.height /\ FrontRound(l, d) = d.round
  BY DEF FrontHeight, FrontRound
<1>2. TallyOK(y, l, k, d)
  BY <1>1, TrackerStays
<1>3. FrontHeight(l2, d) = d.height /\ FrontRound(l2, d) = d.round
  BY DEF FrontHeight, FrontRound
<1>4. ASSUME NEW a \in DOMAIN d.lastRound.rows, NEW type \in VoteTypes,
             d.lastRound.rows[a].votes[type].kind # "absent"
      PROVE  /\ d.height > 0 /\ CellVote(d, a, type) \in TP!Votes
             /\ Backed(y, l2, d, a, type)
  BY <1>2, <1>4 DEF TallyOK, Backed
<1> QED BY <1>1, <1>2, <1>3, <1>4 DEF TallyOK

(* handleVote archives a vote that advances the display: the archive has   *)
(* gone ahead to the position of the vote, where it files it.              *)
LEMMA ArchiveGoesAhead ==
  ASSUME NEW x, TP!TrackerOK(x), NEW y, NEW l, ~Ahead(l, s), l.pc = "vote", NEW k, DP!Sound(s),
         TallyOK(x, l, k, s), NEW l2, l2.pc = "record_vote", LoopFits(l2), Ahead(l2, s),
         TP!Keeps(x, y, s.lastCommittedHeight, l2.ev.vote.height, l2.ev.vote.round),
         TP!OnFile(y, l2.ev.vote)
  PROVE  TallyOK(y, l2, k, s)
<1> DEFINE c == s.lastCommittedHeight
           v == l2.ev.vote
<1>1. /\ v \in TP!Votes /\ c < v.height
      /\ FrontHeight(l2, s) = v.height /\ FrontRound(l2, s) = v.round
  BY FrontIs
<1>2. TP!Within(y, c, v.height, v.round)
  BY DEF TP!Keeps
<1>3. ASSUME NEW a \in DOMAIN s.lastRound.rows, NEW type \in VoteTypes,
             s.lastRound.rows[a].votes[type].kind # "absent"
      PROVE  /\ s.height > 0 /\ CellVote(s, a, type) \in TP!Votes
             /\ Backed(y, l2, s, a, type)
  <2> DEFINE w == CellVote(s, a, type)
  <2>1. s.height > 0 /\ w \in TP!Votes /\ TP!Tallied(x, w)
    BY <1>3 DEF TallyOK, Backed
  <2>2. CASE v.height # s.height \/ v.round # s.round
    BY <2>1, <2>2 DEF Backed
  <2>3. CASE ~(v.height # s.height \/ v.round # s.round)
    <3>1. w.height = v.height /\ w.round = v.round
      BY <2>3 DEF CellVote
    <3> HIDE DEF w
    <3>2. TP!Tallied(y, w)
      BY <1>1, <2>1, <3>1 DEF TP!Keeps
    <3> QED BY <2>1, <3>2 DEF Backed, w
  <2> QED BY <2>2, <2>3
<1>4. l2.pc # "ingest_vote" /\ l2.pc # "observe_round"
  OBVIOUS
<1> QED BY <1>1, <1>2, <1>3, <1>4 DEF TallyOK

(* Recording the vote moves the display to where the archive is.           *)
LEMMA DisplayCatchesUp ==
  ASSUME NEW x, NEW l, LoopFits(l), Ahead(l, s), NEW k, ConsensusFits(k), DP!Sound(s), DP!Sound(s'),
         MovedOn(s, s'), TallyOK(x, l, k, s), DP!Vote(l.ev.vote),
         NEW l2, IF DP!AcceptsVote(s, l.ev.vote) THEN l2.pc = "ingest_vote" /\ l2.ev = l.ev
                                                 ELSE l2 = Idle
  PROVE  TallyOK(x, l2, k, s')
<1> DEFINE v == l.ev.vote
<1>1. /\ v \in TP!Votes /\ s.lastCommittedHeight < v.height
      /\ v.height \in Nat /\ v.round \in Nat /\ s.lastCommittedHeight \in Nat
      /\ FrontHeight(l, s) = v.height /\ FrontRound(l, s) = v.round
  BY FrontIs, PlaceIs
<1>2. v \in DP!Votes
  BY <1>1 DEF TP!Votes, DP!Votes, TP!BlockHashes, DP!BlockHashes
<1>3. s' = DP!RecordVote(s, v)
  BY DEF DP!Vote
<1>4. DP!Advances(s, v.height, v.round)
  BY SameDashboardCalls DEF Ahead
<1>5. s'.height = v.height /\ s'.round = v.round /\ s'.lastCommittedHeight = s.lastCommittedHeight
  BY <1>2, <1>3, <1>4, DP!RecordVotePlace, Domains
<1>6. ~Ahead(l2, s') /\ l2.pc # "observe_round"
  BY DEF Ahead, Idle
<1>7. FrontHeight(l2, s') = v.height /\ FrontRound(l2, s') = v.round
  BY <1>5, <1>6 DEF FrontHeight, FrontRound
<1>8. TP!Within(x, s'.lastCommittedHeight, FrontHeight(l2, s'), FrontRound(l2, s'))
  BY <1>1, <1>5, <1>7 DEF TallyOK
<1>9. l2.pc = "ingest_vote" => l2.ev = l.ev /\ Reached(s', l2.ev.vote.height, l2.ev.vote.round)
  BY <1>1, <1>5 DEF Idle, Reached, TP!UpTo
<1>10. k.pc = "observe" => Reached(s', k.reply.height, k.reply.round)
  BY ReachedStays DEF TallyOK, ConsensusFits
<1>11. ASSUME NEW a \in DOMAIN s'.lastRound.rows, NEW type \in VoteTypes,
              s'.lastRound.rows[a].votes[type].kind # "absent"
       PROVE  /\ s'.height > 0 /\ CellVote(s', a, type) \in TP!Votes
              /\ Backed(x, l2, s', a, type)
  <2>1. s'.height > 0
    BY <1>1, <1>5
  <2>2. \/ DP!KeptCell(s, s', a, type)
        \/ /\ DP!AcceptsVote(s, v) /\ a = v.addr /\ type = v.type
           /\ s'.lastRound.rows[a].votes[type].hash = v.hash
    BY <1>2, <1>3, <1>11, DP!RecordVoteShows, Domains
  <2>3. CASE DP!KeptCell(s, s', a, type)
    <3>1. /\ s.height = v.height /\ s.round = v.round /\ a \in DOMAIN s.lastRound.rows
          /\ s.lastRound.rows[a].votes[type].kind # "absent"
          /\ CellVote(s', a, type) = CellVote(s, a, type)
      BY <1>5, <1>11, <2>3, KeptIsSame DEF DP!KeptCell
    <3>2. CellVote(s, a, type) \in TP!Votes /\ Backed(x, l, s, a, type)
      BY <3>1 DEF TallyOK
    <3>3. TP!Tallied(x, CellVote(s, a, type))
      BY <3>1, <3>2 DEF Backed, Ahead
    <3> QED BY <2>1, <3>1, <3>2, <3>3 DEF Backed
  <2>4. CASE /\ DP!AcceptsVote(s, v) /\ a = v.addr /\ type = v.type
             /\ s'.lastRound.rows[a].votes[type].hash = v.hash
    <3>1. l2.pc = "ingest_vote" /\ l2.ev = l.ev
      BY SMTT(30), <2>4
    <3>2. CellVote(s', a, type) = v
      BY <1>1, <1>5, <2>4 DEF CellVote, TP!Votes
    <3>3. TP!OnFile(x, v)
      BY DEF TallyOK
    <3> QED BY <1>1, <2>1, <3>1, <3>2, <3>3 DEF Backed
  <2> QED BY <2>2, <2>3, <2>4
<1> QED BY <1>6, <1>8, <1>9, <1>10, <1>11 DEF TallyOK

(* The detector counts the vote that the display shows.                    *)
LEMMA DetectorCatchesUp ==
  ASSUME NEW x, TP!TrackerOK(x), NEW y, NEW l, LoopFits(l), l.pc = "ingest_vote", NEW k,
         NEW d, DP!Sound(d), TallyOK(x, l, k, d),
         TP!Keeps(x, y, d.lastCommittedHeight, d.height, d.round),
         l.ev.vote.height = d.height /\ l.ev.vote.round = d.round /\ d.lastCommittedHeight < d.height
           /\ TP!OnFile(x, l.ev.vote) => TP!Tallied(y, l.ev.vote)
  PROVE  TallyOK(y, Idle, k, d)
<1> DEFINE v == l.ev.vote
<1>1. ~Ahead(l, d) /\ ~Ahead(Idle, d)
  BY DEF Ahead, Idle
<1>2. /\ FrontHeight(l, d) = d.height /\ FrontRound(l, d) = d.round
      /\ FrontHeight(Idle, d) = d.height /\ FrontRound(Idle, d) = d.round
  BY <1>1 DEF FrontHeight, FrontRound
<1>3. TallyOK(y, l, k, d)
  BY <1>2, TrackerStays
<1>4. ASSUME NEW a \in DOMAIN d.lastRound.rows, NEW type \in VoteTypes,
             d.lastRound.rows[a].votes[type].kind # "absent"
      PROVE  /\ d.height > 0 /\ CellVote(d, a, type) \in TP!Votes
             /\ Backed(y, Idle, d, a, type)
  <2>1. /\ d.height > 0 /\ CellVote(d, a, type) \in TP!Votes
        /\ Backed(x, l, d, a, type) /\ Backed(y, l, d, a, type)
    BY <1>3, <1>4 DEF TallyOK
  <2>2. d.lastCommittedHeight < d.height
    BY <2>1, PlaceIs
  <2>3. CASE TP!Tallied(x, CellVote(d, a, type))
    <3>1. CellVote(d, a, type).height = d.height /\ CellVote(d, a, type).round = d.round
      BY DEF CellVote
    <3>2. TP!Tallied(y, CellVote(d, a, type))
      BY <2>1, <2>2, <2>3, <3>1 DEF TP!Keeps
    <3> QED BY <2>1, <3>2 DEF Backed
  <2>4. CASE CellVote(d, a, type) = v /\ TP!OnFile(x, v)
    <3>1. v.height = d.height /\ v.round = d.round
      BY <2>4 DEF CellVote
    <3>2. TP!Tallied(y, CellVote(d, a, type))
      BY <2>2, <2>4, <3>1
    <3> QED BY <2>1, <3>2 DEF Backed
  <2> QED BY <1>1, <2>1, <2>3, <2>4 DEF Backed
<1>5. Idle.pc = "idle"
  BY DEF Idle
<1> QED BY <1>1, <1>2, <1>3, <1>4, <1>5 DEF TallyOK

-----------------------------------------------------------------------------
(* The goroutines' steps *)

(* What the stages carry, from the invariant of the goroutines.            *)
LEMMA StagesFit ==
  ASSUME OInv
  PROVE  LoopFits(loop) /\ ConsensusFits(consensus)
<1>1. LoopFits(loop)
  <2>1. T!Votes = TP!Votes
    BY SameValues
  <2>2. loop.pc \in {"vote", "record_vote", "ingest_vote"} => loop.ev.vote \in TP!Votes
    BY <2>1, EventDomains DEF OInv, LoopOK, StageOK, Idle
  <2>3. loop.pc = "observe_round" => loop.ev.height \in Heights /\ loop.ev.round \in Rounds
    BY EventDomains DEF OInv, LoopOK, StageOK, Idle
  <2> QED BY <2>2, <2>3, OrchestratorDomains DEF LoopFits
<1>2. ConsensusFits(consensus)
  <2>1. consensus.pc = "observe" => consensus.reply \in RoundReplies
    BY DEF OInv, ConsensusOK, Idle
  <2>2. consensus.pc = "observe" => consensus.reply.height \in Heights /\ consensus.reply.round \in Rounds
    BY <2>1, OrchestratorDomains
  <2> QED BY <2>2, OrchestratorDomains DEF ConsensusFits
<1> QED BY <1>1, <1>2

(* A step of the display while the loop stays where it is.                 *)
QuietStep ==
  /\ t' = t /\ loop' = loop /\ DP!NoNewVote(s, s')
  /\ \/ consensus' = consensus
     \/ consensus'.pc = "observe" => Reached(s', consensus'.reply.height, consensus'.reply.round)

(* The steps of the client and of time.                                    *)
LEMMA QuietClient ==
  ASSUME OInv,
         \/ \E ev \in Events : Receive(ev) \/ GoLive(ev)
         \/ Deliver \/ DropOldest \/ Disconnect \/ Age \/ UNCHANGED vars
  PROVE  QuietStep
<1>1. t' = t /\ loop' = loop /\ consensus' = consensus
  BY DEF Receive, GoLive, Deliver, DropOldest, Disconnect, Age, tracker, vars
<1>2. s' = s \/ D!EventAges \/ \E live \in BOOLEAN : D!Lifecycle(live)
  BY DEF Receive, GoLive, Deliver, DropOldest, Disconnect, Age, vars
<1>3. s' = s \/ DP!EventAges \/ \E live \in BOOLEAN : DP!Lifecycle(live)
  BY <1>2, SameDashboardCalls
<1>4. DP!NoNewVote(s, s')
  BY <1>3, DP!CallsShowNoVote, Domains DEF OInv
<1> QED BY <1>1, <1>4 DEF QuietStep

(* Those of the status poller, but for its call of the tracker.            *)
LEMMA QuietStatus ==
  ASSUME OInv, RefreshStatus, ~ResolveLatestBlock
  PROVE  QuietStep
<1>1. t' = t /\ loop' = loop /\ consensus' = consensus
  BY DEF RefreshStatus, StatusArrives, ApplyStatus, CheckLatestBlock, BlockFails, AppendLatestBlock,
         StatusOnly, tracker
<1>2. s' = s \/ D!StatusReply(status.latest) \/ D!BlockReply(status.latest)
  <2>1. CASE AppendLatestBlock
    <3>1. status # Idle /\ status.pc = "append"
      BY <2>1 DEF AppendLatestBlock, Idle
    <3>2. status.latest > 0 /\ status.latest <= s.lastCommittedHeight
      BY <3>1 DEF OInv, StatusOK
    <3> QED BY <2>1, <3>2 DEF AppendLatestBlock, D!BlockReply
  <2>2. CASE ~AppendLatestBlock
    BY <2>2 DEF RefreshStatus, StatusArrives, ApplyStatus, CheckLatestBlock, BlockFails
  <2> QED BY <2>1, <2>2
<1>3. s' = s \/ DP!StatusReply(status.latest) \/ DP!BlockReply(status.latest)
  BY <1>2, SameDashboardCalls
<1>4. DP!NoNewVote(s, s')
  BY <1>3, DP!CallsShowNoVote, Domains DEF OInv
<1> QED BY <1>1, <1>4 DEF QuietStep

(* Those of the validators poller, but for its call of the tracker.        *)
LEMMA QuietRefresh ==
  ASSUME OInv, RefreshValidators, ~SetValidators
  PROVE  QuietStep
<1>1. t' = t /\ loop' = loop /\ consensus' = consensus
  BY DEF RefreshValidators, BeginRefresh, WakeRefresh, ValidatorsFail, ValidatorsArrive,
         MergeValidators, RefreshOnly, tracker
<1>2. s' = s \/ \E V, vh : D!ValidatorsReply(V, vh)
  BY DEF RefreshValidators, BeginRefresh, WakeRefresh, ValidatorsFail, ValidatorsArrive,
         MergeValidators
<1>3. s' = s \/ \E V, vh : DP!ValidatorsReply(V, vh)
  BY <1>2, SameDashboardCalls
<1>4. DP!NoNewVote(s, s')
  BY <1>3, DP!CallsShowNoVote, Domains DEF OInv
<1> QED BY <1>1, <1>4 DEF QuietStep

(* Those of the consensus poller: what it will report to the tracker is    *)
(* what it has just moved the display to.                                  *)
LEMMA QuietConsensus ==
  ASSUME OInv, RefreshConsensus, ~ObserveFallbackRound
  PROVE  QuietStep
<1>1. CASE \E x \in RoundReplies : RoundArrives(x)
  <2>1. t' = t /\ loop' = loop /\ s' = s /\ consensus'.pc = "apply"
    BY <1>1 DEF RoundArrives, ConsensusOnly, tracker
  <2>2. DP!NoNewVote(s, s')
    BY <2>1, DP!CallsShowNoVote, Domains DEF OInv
  <2> QED BY <2>1, <2>2 DEF QuietStep
<1>2. CASE ApplyRound
  <2> DEFINE x == consensus.reply
  <2>1. /\ consensus.pc = "apply" /\ D!FallbackReply(x.height, x.round, x.step)
        /\ t' = t /\ loop' = loop
        /\ consensus' = IF D!AcceptsFallback(s, x.height, x.round)
                        THEN [consensus EXCEPT !.pc = "observe"] ELSE Idle
    BY <1>2 DEF ApplyRound, ConsensusOnly, tracker
  <2>2. /\ consensus \in [pc : {"apply", "observe"}, reply : RoundReplies]
        /\ x.height \in Heights /\ x.round \in Rounds /\ x.step \in Steps
    BY <2>1, OrchestratorDomains DEF OInv, ConsensusOK, Idle
  <2>3. DP!FallbackReply(x.height, x.round, x.step)
    BY <2>1, SameDashboardCalls
  <2>4. DP!NoNewVote(s, s')
    BY <2>2, <2>3, DP!CallsShowNoVote, Domains DEF OInv
  <2>5. CASE D!AcceptsFallback(s, x.height, x.round)
    <3>1. DP!AcceptsFallback(s, x.height, x.round)
      BY <2>5, SameDashboardCalls DEF D!AcceptsFallback, DP!AcceptsFallback, D!ModeAt, DP!ModeAt
    <3>2. s' = DP!ApplyFallback(s, x.height, x.round, x.step)
      BY <2>3 DEF DP!FallbackReply
    <3>3. x.height \in Int /\ x.round \in Int /\ x.step \in Nat
      BY <2>2, OrchestratorDomains
    <3>4. s'.height = x.height /\ s'.round = x.round
      BY <3>1, <3>2, <3>3, DP!AcceptedPlace, Domains DEF OInv, DP!IInv
    <3>5. consensus'.reply = x
      BY <2>1, <2>2, <2>5
    <3>6. Reached(s', consensus'.reply.height, consensus'.reply.round)
      BY <3>3, <3>4, <3>5 DEF Reached, TP!UpTo
    <3> QED BY <2>1, <2>4, <3>6 DEF QuietStep
  <2>6. CASE ~D!AcceptsFallback(s, x.height, x.round)
    BY <2>1, <2>4, <2>6 DEF QuietStep, Idle
  <2> QED BY <2>5, <2>6
<1> QED BY <1>1, <1>2 DEF RefreshConsensus

(* None of them touches what is tallied.                                   *)
LEMMA QuietKeepsTally ==
  ASSUME OInv, TallyInv, [D!Next]_s, QuietStep
  PROVE  TallyOK(t', loop', consensus', s')
<1>1. MovedOn(s, s') /\ DP!Sound(s) /\ DP!Sound(s')
  BY DisplayMovesOn DEF OInv
<1>2. TP!ArchiveOK(t) /\ TallyOK(t, loop, consensus, s)
  BY DEF TallyInv, TP!TrackerInv, TP!TrackerOK
<1>3. LoopFits(loop) /\ ConsensusFits(consensus)
  BY StagesFit
<1>4. /\ t' = t /\ loop' = loop /\ DP!NoNewVote(s, s')
      /\ \/ consensus' = consensus
         \/ consensus'.pc = "observe" => Reached(s', consensus'.reply.height, consensus'.reply.round)
  BY DEF QuietStep
<1> QED BY <1>1, <1>2, <1>3, <1>4, DisplayStays

(* The loop's steps on the display that handle no vote.                    *)
LEMMA LoopTurns ==
  ASSUME OInv, TallyInv, [D!Next]_s,
         TakeEvent \/ HandleNewBlock \/ HandleNewRound \/ HandleValidatorSetUpdates
  PROVE  TallyOK(t', loop', consensus', s')
<1>1. MovedOn(s, s') /\ DP!Sound(s) /\ DP!Sound(s')
  BY DisplayMovesOn DEF OInv
<1>2. TP!ArchiveOK(t) /\ TallyOK(t, loop, consensus, s)
  BY DEF TallyInv, TP!TrackerInv, TP!TrackerOK
<1>3. LoopFits(loop) /\ ConsensusFits(consensus)
  BY StagesFit
<1>4. t' = t /\ consensus' = consensus
  BY DEF TakeEvent, HandleNewBlock, HandleNewRound, HandleValidatorSetUpdates, LoopOnly, tracker
<1>5. loop.pc # "record_vote" /\ loop.pc # "ingest_vote" /\ ~Ahead(loop, s)
  BY DEF TakeEvent, HandleNewBlock, HandleNewRound, HandleValidatorSetUpdates, Idle, Ahead
<1>6. /\ DP!NoNewVote(s, s') /\ loop'.pc \notin {"record_vote", "ingest_vote"}
      /\ loop'.pc = "observe_round" => Reached(s', loop'.ev.height, loop'.ev.round)
  <2>1. CASE TakeEvent
    <3> DEFINE ev == Head(wsEvents)
    <3>1. wsEvents # <<>> /\ loop' = [pc |-> ev.kind, ev |-> ev] /\ D!StreamEvent
      BY <2>1 DEF TakeEvent
    <3>2. ev \in Events
      BY <3>1 DEF OInv
    <3> HIDE DEF ev
    <3>3. loop'.pc \in {"new_block", "new_round", "vote", "validator_set_updates"}
      BY <3>1, <3>2, EventDomains
    <3>4. DP!NoNewVote(s, s')
      BY <3>1, SameDashboardCalls, DP!CallsShowNoVote, Domains DEF OInv
    <3> QED BY <3>3, <3>4
  <2>2. CASE HandleNewBlock
    <3>1. loop.pc = "new_block"
      BY <2>2 DEF HandleNewBlock
    <3>2. loop \in [pc : Stages, ev : Events] /\ loop.ev.height \in Heights
      BY <3>1, EventDomains DEF OInv, LoopOK, StageOK, Idle
    <3>3. s' = s \/ D!NewBlock(loop.ev.height)
      BY <2>2 DEF HandleNewBlock
    <3>4. DP!NoNewVote(s, s')
      BY <3>2, <3>3, SameDashboardCalls, DP!CallsShowNoVote, Domains DEF OInv
    <3>5. loop'.pc = "resolve" \/ loop'.pc = "idle"
      BY <2>2, <3>2 DEF HandleNewBlock, Idle
    <3> QED BY <3>4, <3>5
  <2>3. CASE HandleNewRound
    <3> DEFINE ev == loop.ev
    <3>1. loop.pc = "new_round"
      BY <2>3 DEF HandleNewRound
    <3>2. /\ loop \in [pc : Stages, ev : Events]
          /\ ev.height \in Heights /\ ev.round \in Rounds /\ ev.step \in Steps
      BY <3>1, EventDomains DEF OInv, LoopOK, StageOK, Idle
    <3>3. CASE D!Advances(s, ev.height, ev.round)
      <4>1. D!NewRound(ev.height, ev.round, ev.step, ev.proposer) /\ loop' = [loop EXCEPT !.pc = "observe_round"]
        BY <2>3, <3>3 DEF HandleNewRound
      <4>2. DP!NewRound(ev.height, ev.round, ev.step, ev.proposer)
        BY <4>1, SameDashboardCalls
      <4>3. DP!NoNewVote(s, s')
        BY <3>2, <4>2, DP!CallsShowNoVote, Domains DEF OInv
      <4>4. loop'.pc = "observe_round" /\ loop'.ev = ev
        BY <3>2, <4>1
      <4>5. ev.height \in Int /\ ev.round \in Int /\ ev.step \in Nat
        BY <3>2, OrchestratorDomains
      <4>6. s'.height = ev.height /\ s'.round = ev.round
        BY <1>1, <4>2, <4>5, DP!AcceptedPlace, Domains DEF DP!NewRound
      <4>7. Reached(s', loop'.ev.height, loop'.ev.round)
        BY <4>4, <4>5, <4>6 DEF Reached, TP!UpTo
      <4> QED BY <4>3, <4>4, <4>7
    <3>4. CASE ~D!Advances(s, ev.height, ev.round)
      <4>1. s' = s /\ loop'.pc = "idle"
        BY <2>3, <3>4 DEF HandleNewRound, Idle
      <4>2. DP!NoNewVote(s, s')
        BY <4>1, DP!CallsShowNoVote, Domains DEF OInv
      <4> QED BY <4>1, <4>2
    <3> QED BY <3>3, <3>4
  <2>4. CASE HandleValidatorSetUpdates
    <3>1. s' = s /\ loop'.pc = "idle"
      BY <2>4 DEF HandleValidatorSetUpdates, Idle
    <3>2. DP!NoNewVote(s, s')
      BY <3>1, DP!CallsShowNoVote, Domains DEF OInv
    <3> QED BY <3>1, <3>2
  <2> QED BY <2>1, <2>2, <2>3, <2>4
<1> QED BY <1>1, <1>2, <1>3, <1>4, <1>5, <1>6, DisplayTurns

(* A call of the tracker that is not about a vote.                         *)
LEMMA TrackerTells ==
  ASSUME OInv, TallyInv, NEW c, c = s.lastCommittedHeight,
         NEW H, H = FrontHeight(loop, s), NEW R, R = FrontRound(loop, s)
  PROVE  /\ \A h \in Heights, r \in Rounds, p \in Proposers :
              Reached(s, h, r) /\ T!ObserveRound(h, r, p) => TP!Keeps(t, t', c, H, R)
         /\ \A m \in Rosters : T!SetValidators(m) => TP!Keeps(t, t', c, H, R)
         /\ \A h, r : T!MarkRoundAdvanced(h, r) => TP!Keeps(t, t', c, H, R)
         /\ \A h \in Heights, hash \in T!BlockHashes :
              h <= s.lastCommittedHeight /\ T!ResolveCommit(h, hash) => TP!Keeps(t, t', c, H, R)
<1>1. DP!Sound(s) /\ LoopFits(loop)
  BY StagesFit DEF OInv, DP!IInv
<1>2. /\ c \in Nat /\ H \in Nat /\ R \in Nat /\ TP!Onward(c, s.height, s.round, c, H, R)
      /\ s.height \in Nat /\ s.round \in Nat
  BY <1>1, FrontIs, PlaceIs
<1>3. TP!TrackerOK(t) /\ TP!Within(t, c, H, R)
  BY DEF TallyInv, TallyOK, TP!TrackerInv
<1>4. ASSUME NEW h \in Heights, NEW r \in Rounds, NEW p \in Proposers,
             Reached(s, h, r), T!ObserveRound(h, r, p)
      PROVE  TP!Keeps(t, t', c, H, R)
  <2>1. TP!ObserveRound(h, r, p)
    BY <1>4, SameCalls
  <2>2. h \in Int /\ r \in Int
    BY OrchestratorDomains
  <2>3. TP!UpTo(c, H, R, h, r)
    <3>1. TP!UpTo(c, s.height, s.round, h, r)
      BY <1>4 DEF Reached
    <3> QED BY <1>2, <2>2, <3>1 DEF TP!UpTo, TP!Onward
  <2> QED BY <1>2, <1>3, <2>1, <2>3, TP!RoundKeeps, TrackerAssumptions
<1>5. /\ \A m \in Rosters : TP!SetValidators(m) => TP!Keeps(t, t', c, H, R)
      /\ \A h, r : TP!MarkRoundAdvanced(h, r) => TP!Keeps(t, t', c, H, R)
      /\ \A h \in Heights, hash \in TP!BlockHashes :
           h <= c /\ TP!ResolveCommit(h, hash) => TP!Keeps(t, t', c, H, R)
  BY <1>2, <1>3, TP!OthersKeep, TrackerAssumptions
<1>6. /\ \A m \in Rosters : T!SetValidators(m) => TP!Keeps(t, t', c, H, R)
      /\ \A h, r : T!MarkRoundAdvanced(h, r) => TP!Keeps(t, t', c, H, R)
      /\ \A h \in Heights, hash \in T!BlockHashes :
           h <= c /\ T!ResolveCommit(h, hash) => TP!Keeps(t, t', c, H, R)
  BY <1>5, SameCalls, SameValues
<1> QED BY <1>4, <1>6

(* The pollers' calls of the tracker.                                      *)
LEMMA PollersTell ==
  ASSUME OInv, TallyInv, ResolveLatestBlock \/ SetValidators \/ ObserveFallbackRound
  PROVE  TallyOK(t', loop', consensus', s')
<1> DEFINE c == s.lastCommittedHeight
           H == FrontHeight(loop, s)
           R == FrontRound(loop, s)
<1>1. DP!Sound(s) /\ LoopFits(loop) /\ TP!TrackerOK(t) /\ TallyOK(t, loop, consensus, s)
  BY StagesFit DEF OInv, DP!IInv, TallyInv, TP!TrackerInv
<1>2. s' = s /\ loop' = loop /\ (consensus' = consensus \/ consensus'.pc # "observe")
  BY DEF ResolveLatestBlock, SetValidators, ObserveFallbackRound, StatusOnly, RefreshOnly,
         ConsensusOnly, Idle
<1>3. TP!Keeps(t, t', c, H, R)
  <2>1. CASE ResolveLatestBlock
    <3> DEFINE h == status.latest
    <3>1. status.pc = "resolve" /\ status # Idle /\ T!ResolveCommit(h, Canonical[h])
      BY <2>1 DEF ResolveLatestBlock, Idle
    <3>2. h \in Heights /\ h <= s.lastCommittedHeight /\ Canonical[h] \in T!BlockHashes
      BY <3>1, OrchestratorDomains DEF OInv, StatusOK, T!BlockHashes
    <3> QED BY <3>1, <3>2, TrackerTells
  <2>2. CASE SetValidators
    <3>1. refresh.pc = "set" /\ T!SetValidators(refresh.reply.roster)
      BY <2>2 DEF SetValidators
    <3>2. refresh.reply.roster \in Rosters
      BY <3>1, OrchestratorDomains DEF OInv, RefreshOK, Idle
    <3> QED BY <3>1, <3>2, TrackerTells
  <2>3. CASE ObserveFallbackRound
    <3> DEFINE x == consensus.reply
    <3>1. consensus.pc = "observe" /\ T!ObserveRound(x.height, x.round, NoProposer)
      BY <2>3 DEF ObserveFallbackRound
    <3>2. x.height \in Heights /\ x.round \in Rounds /\ NoProposer \in Proposers
      <4>1. x \in RoundReplies
        BY <3>1 DEF OInv, ConsensusOK, Idle
      <4> QED BY <4>1, OrchestratorDomains DEF Proposers
    <3>3. Reached(s, x.height, x.round)
      BY <1>1, <3>1 DEF TallyOK
    <3> QED BY <3>1, <3>2, <3>3, TrackerTells
  <2> QED BY <2>1, <2>2, <2>3
<1> HIDE DEF c, H, R
<1>4. TP!Keeps(t, t', s.lastCommittedHeight, FrontHeight(loop, s), FrontRound(loop, s))
  BY <1>3 DEF c, H, R
<1> QED BY <1>1, <1>2, <1>4, TrackerStays

(* The loop's calls of the tracker that are not about a vote.              *)
LEMMA LoopTells ==
  ASSUME OInv, TallyInv, ResolveNewBlock \/ ObserveNewRound \/ MarkPreviousRound
  PROVE  TallyOK(t', loop', consensus', s')
<1>1. DP!Sound(s) /\ LoopFits(loop) /\ TP!TrackerOK(t) /\ TallyOK(t, loop, consensus, s)
  BY StagesFit DEF OInv, DP!IInv, TallyInv, TP!TrackerInv
<1>2. /\ s' = s /\ consensus' = consensus /\ loop.pc \in {"resolve", "observe_round", "mark_advanced"}
      /\ ~Ahead(loop, s)
  BY DEF ResolveNewBlock, ObserveNewRound, MarkPreviousRound, LoopOnly, Ahead
<1>3. loop \in [pc : Stages, ev : Events]
  BY <1>2 DEF OInv, LoopOK, Idle
<1>4. loop'.pc \in {"idle", "mark_advanced"}
  BY <1>3 DEF ResolveNewBlock, ObserveNewRound, MarkPreviousRound, Idle
<1>5. ~Ahead(loop', s)
  BY <1>4 DEF Ahead
<1>6. FrontHeight(loop, s) = s.height /\ FrontRound(loop, s) = s.round
  BY <1>2 DEF FrontHeight, FrontRound
<1>7. TP!Keeps(t, t', s.lastCommittedHeight, FrontHeight(loop, s), FrontRound(loop, s))
  <2> DEFINE ev == loop.ev
  <2>1. CASE ResolveNewBlock
    <3>1. loop.pc = "resolve" /\ T!ResolveCommit(ev.height, Canonical[ev.height])
      BY <2>1 DEF ResolveNewBlock
    <3>2. ev.height \in Heights /\ ev.height <= s.lastCommittedHeight
      BY <3>1, EventDomains DEF OInv, LoopOK, StageOK, Idle
    <3>3. Canonical[ev.height] \in T!BlockHashes
      BY <3>2, OrchestratorDomains DEF T!BlockHashes
    <3> QED BY <3>1, <3>2, <3>3, TrackerTells
  <2>2. CASE ObserveNewRound
    <3>1. loop.pc = "observe_round" /\ T!ObserveRound(ev.height, ev.round, ev.proposer)
      BY <2>2 DEF ObserveNewRound
    <3>2. ev.height \in Heights /\ ev.round \in Rounds /\ ev.proposer \in Proposers
      BY <3>1, EventDomains DEF OInv, LoopOK, StageOK, Idle
    <3>3. Reached(s, ev.height, ev.round)
      BY <1>1, <3>1 DEF TallyOK
    <3> QED BY <3>1, <3>2, <3>3, TrackerTells
  <2>3. CASE MarkPreviousRound
    <3>1. T!MarkRoundAdvanced(ev.height, ev.round - 1)
      BY <2>3 DEF MarkPreviousRound
    <3> QED BY <3>1, TrackerTells
  <2> QED BY <2>1, <2>2, <2>3
<1>8. TP!Keeps(t, t', s.lastCommittedHeight, s.height, s.round)
  BY <1>6, <1>7
<1>9. loop.pc # "ingest_vote" /\ loop'.pc \notin {"ingest_vote", "observe_round"}
  BY <1>2, <1>4
<1> QED BY <1>1, <1>2, <1>5, <1>8, <1>9, TrackerTurns

-----------------------------------------------------------------------------
(* The handler of votes *)

(* The archive is told of the vote first.                                  *)
LEMMA VoteIsFiled ==
  ASSUME OInv, TallyInv, HandleVote
  PROVE  TallyOK(t', loop', consensus', s')
<1> DEFINE c == s.lastCommittedHeight
           v == loop.ev.vote
<1>1. DP!Sound(s) /\ LoopFits(loop) /\ TP!TrackerOK(t) /\ TallyOK(t, loop, consensus, s)
  BY StagesFit DEF OInv, DP!IInv, TallyInv, TP!TrackerInv
<1>2. /\ loop.pc = "vote" /\ T!ObserveVote(v) /\ s' = s /\ consensus' = consensus
      /\ loop' = [loop EXCEPT !.pc = "record_vote"]
  BY DEF HandleVote, LoopOnly
<1>3. loop'.pc = "record_vote" /\ loop'.ev.vote = v
  <2>1. loop \in [pc : Stages, ev : Events]
    BY <1>2 DEF OInv, LoopOK, Idle
  <2> QED BY <1>2, <2>1
<1>4. v \in TP!Votes
  BY <1>1, <1>2 DEF LoopFits
<1>5. v.height \in Int /\ v.round \in Int /\ c \in Nat /\ s.height \in Nat /\ s.round \in Nat
  BY <1>1, <1>4, PlaceIs, OrchestratorDomains DEF TP!Votes
<1>6. TP!ObserveVote(v)
  BY <1>2, SameCalls
<1>7. ~Ahead(loop, s) /\ FrontHeight(loop, s) = s.height /\ FrontRound(loop, s) = s.round
  BY <1>2 DEF Ahead, FrontHeight, FrontRound
<1>8. TP!Within(t, c, s.height, s.round)
  BY <1>1, <1>7 DEF TallyOK
<1>9. LoopFits(loop')
  BY <1>3, <1>4 DEF LoopFits
<1> HIDE DEF v
<1>10. CASE D!Advances(s, v.height, v.round)
  <2>1. /\ TP!ValidRound(v.round) /\ v.height \in Nat /\ v.round \in Nat /\ v.height > 0 /\ c < v.height
        /\ TP!Onward(c, s.height, s.round, c, v.height, v.round)
    BY <1>1, <1>5, <1>10, AdvancesIs
  <2>2. TP!Within(t, c, v.height, v.round)
    <3>1. TP!ArchiveOK(t)
      BY <1>1 DEF TP!TrackerOK
    <3>2. c \in Int /\ s.height \in Int /\ s.round \in Int
      BY <1>5
    <3> HIDE DEF c
    <3> QED BY <1>5, <1>8, <2>1, <3>1, <3>2, TP!OnwardKeeps, TrackerAssumptions
  <2>3. TP!UpTo(c, v.height, v.round, v.height, v.round)
    BY <2>1 DEF TP!UpTo
  <2>4. TP!Keeps(t, t', c, v.height, v.round)
    BY <1>1, <1>4, <1>5, <1>6, <2>1, <2>2, <2>3, TP!VoteKeeps, TrackerAssumptions
  <2>5. t' = TP!ObserveVoteLocked(t, v)
    BY <1>6 DEF TP!ObserveVote
  <2>6. TP!OnFile(t', v)
    <3>1. CASE TP!WellFormed(v)
      BY <1>1, <1>4, <1>5, <2>1, <2>2, <2>5, <3>1, TP!ObserveVoteFiles, TrackerAssumptions
    <3>2. CASE ~TP!WellFormed(v)
      BY <2>1, <3>2 DEF TP!WellFormed, TP!OnFile, TP!Unkeepable
    <3> QED BY <3>1, <3>2
  <2>7. Ahead(loop', s)
    BY <1>3, <1>10 DEF Ahead
  <2>8. TP!Keeps(t, t', c, loop'.ev.vote.height, loop'.ev.vote.round) /\ TP!OnFile(t', loop'.ev.vote)
    BY <1>3, <2>4, <2>6
  <2> QED BY <1>1, <1>2, <1>3, <1>7, <1>9, <2>7, <2>8, ArchiveGoesAhead
<1>11. CASE ~D!Advances(s, v.height, v.round)
  <2>1. TP!UpTo(c, s.height, s.round, v.height, v.round) \/ ~TP!WellFormed(v)
    BY <1>1, <1>5, <1>11, AdvancesIs DEF Reached, TP!WellFormed
  <2>2. TP!Keeps(t, t', c, s.height, s.round)
    BY <1>1, <1>4, <1>5, <1>6, <1>8, <2>1, TP!VoteKeeps, TrackerAssumptions
  <2>3. ~Ahead(loop', s)
    BY <1>3, <1>11 DEF Ahead
  <2>4. loop.pc # "ingest_vote" /\ loop'.pc \notin {"ingest_vote", "observe_round"}
    BY <1>2, <1>3
  <2> QED BY <1>1, <1>2, <1>7, <2>2, <2>3, <2>4, TrackerTurns
<1> QED BY <1>10, <1>11

(* Then the display.                                                       *)
LEMMA VoteIsShown ==
  ASSUME OInv, TallyInv, [D!Next]_s, RecordVote
  PROVE  TallyOK(t', loop', consensus', s')
<1> DEFINE v == loop.ev.vote
<1>1. MovedOn(s, s') /\ DP!Sound(s) /\ DP!Sound(s')
  BY DisplayMovesOn DEF OInv
<1>2. LoopFits(loop) /\ ConsensusFits(consensus) /\ TP!ArchiveOK(t) /\ TallyOK(t, loop, consensus, s)
  BY StagesFit DEF TallyInv, TP!TrackerInv, TP!TrackerOK
<1>3. /\ loop.pc = "record_vote" /\ D!Vote(v) /\ t' = t /\ consensus' = consensus
      /\ loop' = IF D!AcceptsVote(s, v) THEN [loop EXCEPT !.pc = "ingest_vote"] ELSE Idle
  BY DEF RecordVote, LoopOnly, tracker
<1>4. loop \in [pc : Stages, ev : Events]
  BY <1>3 DEF OInv, LoopOK, Idle
<1>5. DP!Vote(v) /\ (D!AcceptsVote(s, v) = DP!AcceptsVote(s, v))
      /\ (D!Advances(s, v.height, v.round) = DP!Advances(s, v.height, v.round))
  BY <1>3, SameDashboardCalls
<1>6. CASE Ahead(loop, s)
  <2>1. IF DP!AcceptsVote(s, v) THEN loop'.pc = "ingest_vote" /\ loop'.ev = loop.ev ELSE loop' = Idle
    BY <1>3, <1>4, <1>5
  <2> QED BY <1>1, <1>2, <1>3, <1>5, <1>6, <2>1, DisplayCatchesUp
<1>7. CASE ~Ahead(loop, s)
  <2>1. ~DP!Advances(s, v.height, v.round)
    BY <1>3, <1>5, <1>7 DEF Ahead
  <2>2. v \in DP!Votes
    BY <1>2, <1>3 DEF LoopFits, TP!Votes, DP!Votes, TP!BlockHashes, DP!BlockHashes
  <2>3. s' = s
    BY <1>1, <1>5, <2>1, <2>2, DP!RecordVotePlace, Domains DEF DP!Vote
  <2>4. loop' = Idle
    BY <1>3, <1>5, <2>1 DEF DP!AcceptsVote
  <2>5. DP!NoNewVote(s, s')
    BY <2>3, DP!CallsShowNoVote, Domains DEF OInv
  <2>6. loop.pc # "ingest_vote" /\ loop'.pc \notin {"record_vote", "ingest_vote", "observe_round"}
    BY <1>3, <2>4 DEF Idle
  <2> QED BY <1>1, <1>2, <1>3, <1>7, <2>5, <2>6, DisplayTurns
<1> QED BY <1>6, <1>7

(* Then the detector.                                                      *)
LEMMA VoteIsCounted ==
  ASSUME OInv, TallyInv, IngestVote
  PROVE  TallyOK(t', loop', consensus', s')
<1> DEFINE c == s.lastCommittedHeight
           v == loop.ev.vote
<1>1. DP!Sound(s) /\ LoopFits(loop) /\ TP!TrackerOK(t) /\ TallyOK(t, loop, consensus, s)
  BY StagesFit DEF OInv, DP!IInv, TallyInv, TP!TrackerInv
<1>2. loop.pc = "ingest_vote" /\ T!IngestVote(v) /\ loop' = Idle /\ s' = s /\ consensus' = consensus
  BY DEF IngestVote, LoopOnly
<1>3. v \in TP!Votes /\ c \in Nat /\ s.height \in Nat /\ s.round \in Nat
  BY <1>1, <1>2, PlaceIs DEF LoopFits
<1>4. TP!IngestVote(v)
  BY <1>2, SameCalls
<1>5. TP!UpTo(c, s.height, s.round, v.height, v.round)
  BY <1>1, <1>2 DEF TallyOK, Reached
<1>6. TP!Within(t, c, s.height, s.round)
  <2>1. FrontHeight(loop, s) = s.height /\ FrontRound(loop, s) = s.round
    BY <1>2 DEF Ahead, FrontHeight, FrontRound
  <2> QED BY <1>1, <2>1 DEF TallyOK
<1>7. /\ TP!Keeps(t, t', c, s.height, s.round)
      /\ v.height = s.height /\ v.round = s.round /\ c < s.height /\ TP!OnFile(t, v) => TP!Tallied(t', v)
  BY <1>1, <1>3, <1>4, <1>5, <1>6, TP!IngestKeeps, TrackerAssumptions
<1> QED BY <1>1, <1>2, <1>7, DetectorCatchesUp

-----------------------------------------------------------------------------
(* All goroutines together *)

(* Every step of the orchestrator keeps what is on display tallied.        *)
LEMMA TallyStep ==
  ASSUME OInv, TallyInv, [Next]_vars
  PROVE  TallyInv'
<1>1. [D!Next]_s /\ [T!Next]_tracker
  BY OrchestratorStep
<1>2. TP!TrackerInv'
  <2>1. [TP!Next]_TP!vars
    BY <1>1, SameTracker DEF tracker, TP!vars
  <2> QED BY <2>1, TP!NextOK, TrackerAssumptions DEF TallyInv
<1>3. TallyOK(t', loop', consensus', s')
  <2>1. CASE \/ \E ev \in Events : Receive(ev) \/ GoLive(ev)
             \/ Deliver \/ DropOldest \/ Disconnect \/ Age \/ UNCHANGED vars
    BY <1>1, <2>1, QuietClient, QuietKeepsTally
  <2>2. CASE TakeEvent \/ HandleEvent
    BY <1>1, <2>2, LoopTurns, LoopTells, VoteIsFiled, VoteIsShown, VoteIsCounted DEF HandleEvent
  <2>3. CASE RefreshStatus
    BY <1>1, <2>3, QuietStatus, QuietKeepsTally, PollersTell
  <2>4. CASE RefreshValidators
    BY <1>1, <2>4, QuietRefresh, QuietKeepsTally, PollersTell
  <2>5. CASE RefreshConsensus
    BY <1>1, <2>5, QuietConsensus, QuietKeepsTally, PollersTell
  <2> QED BY <2>1, <2>2, <2>3, <2>4, <2>5 DEF Next
<1> QED BY <1>2, <1>3 DEF TallyInv

(* At the start the tracker and the display are empty.                     *)
LEMMA TallyInit == Init => TallyInv
<1> SUFFICES ASSUME Init PROVE TallyInv
  OBVIOUS
<1>1. TP!TrackerInv
  BY SameTracker, TP!InitOK, TrackerAssumptions DEF Init
<1>2. /\ t.committedHeight = 0 /\ t.archiveEvictedThrough = 0 /\ t.archive = T!NoEntries
  BY DEF Init, T!Init
<1>3. DOMAIN t.archive = {}
  BY <1>2 DEF T!NoEntries
<1>4. s.lastCommittedHeight = 0 /\ DOMAIN s.lastRound.rows = {}
  BY DEF Init, D!Init
<1>5. loop.pc = "idle" /\ consensus.pc = "idle"
  BY DEF Init, Idle
<1>6. TP!Within(t, s.lastCommittedHeight, FrontHeight(loop, s), FrontRound(loop, s))
  BY <1>2, <1>3, <1>4 DEF TP!Within
<1> QED BY <1>1, <1>4, <1>5, <1>6 DEF TallyInv, TallyOK, Ahead

(* What the tracker's invariant says holds behind the orchestrator, and    *)
(* what is on display stays backed, in every order of the goroutines.      *)
THEOREM TallyInvariant == Spec => []TallyInv
<1>1. Init => TallyInv
  BY TallyInit
<1>2. OInv /\ TallyInv /\ [Next]_vars => TallyInv'
  BY TallyStep
<1> QED BY <1>1, <1>2, OrchestratorInvariant, PTL DEF Spec

(* Between two stream events every vote on display that the archive can    *)
(* keep is in its evidence and counted by the detector, or the report      *)
(* flags what is missing.                                                  *)
THEOREM DisplayAccounted == Spec => []DisplayedIsAccounted
<1>1. TallyInv => DisplayedIsAccounted
  <2> SUFFICES ASSUME TallyInv, loop = Idle, NEW a \in DOMAIN s.lastRound.rows, NEW type \in VoteTypes,
                      s.lastRound.rows[a].votes[type].kind # "absent",
                      {a, s.lastRound.rows[a].votes[type].hash} \cap Oversized = {},
                      NEW k, k = [height |-> s.height, round |-> s.round, type |-> type],
                      NEW v, v = CellVote(s, a, type)
               PROVE  LET rd == t.archive[k.height].rounds[k.round] IN
                      /\ k.height \in DOMAIN t.archive /\ k.round \in DOMAIN t.archive[k.height].rounds
                      /\ \/ T!Holds(rd, v) /\ k \in DOMAIN t.rounds /\ a \in DOMAIN t.rounds[k].votes
                         \/ T!Crowded(rd)
    BY DEF DisplayedIsAccounted, CellVote
  <2>1. TP!Tallied(t, v)
    BY DEF TallyInv, TallyOK, Backed, Ahead, Idle
  <2>2. /\ v.height = k.height /\ v.round = k.round /\ v.addr = a /\ TP!KeyOf(v) = k
        /\ ~TP!Unkeepable(v)
    BY DEF CellVote, TP!KeyOf, TP!Unkeepable
  <2>3. \A rd : (TP!Holds(rd, v) => T!Holds(rd, v)) /\ (TP!Crowded(rd) => T!Crowded(rd))
    <3>1. \A rd : T!Voters(rd) = TP!Voters(rd)
      BY DEF T!Voters, TP!Voters
    <3> QED BY <3>1, SameValues DEF T!Holds, TP!Holds, T!Crowded, TP!Crowded
  <2> QED BY <2>1, <2>2, <2>3 DEF TP!Tallied, TP!OnFile, TP!Seated
<1> QED BY <1>1, TallyInvariant, PTL

=============================================================================
