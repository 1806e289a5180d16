----------------------------- MODULE Orchestrator -----------------------------
(***************************************************************************)
(* The orchestrator (src/internal/core): the goroutines that carry what    *)
(* the stream and the HTTP endpoints of a node report into the dashboard   *)
(* state (module Dashboard) and the divergence tracker (module Tracker).   *)
(*                                                                         *)
(*   client     the WebSocket client: lifecycle callbacks and the handler  *)
(*              that puts events in the bounded channel wsEvents           *)
(*   loop       Run's event loop and the handlers it calls                 *)
(*   status     the poller of refreshStatus and refreshLatestBlock         *)
(*   refresh    the poller of refreshValidators, woken by the loop         *)
(*   consensus  the poller of refreshConsensusViaHTTP                      *)
(*                                                                         *)
(* One step is one lock-protected call; between two calls any other        *)
(* goroutine may run.  A poller's tick, its request and the reply are one  *)
(* step, where the reply is read; a failed request only sets error texts,  *)
(* which are not modelled, and ends the run of the poller.  Publishing on  *)
(* the event bus is the subject of module EventBus.                        *)
(***************************************************************************)
EXTENDS Integers, Sequences, FiniteSets, Functions

CONSTANTS
  Heights, Rounds, Steps, Addresses, Hashes, Nil, NoProposer, VoteTypes, MaxRound,
  BlockHistoryLimit, Oversized, Rosters, HistorySize, RoundLimit, HashLimit,
  UnknownLimit, ThresholdPct, IncludePrevotes,
  Events,           \* events a node may send on the stream
  StatusHeights,    \* latest heights a status reply may carry
  RosterReplies,    \* validator sets and their heights, as [roster, height]
  RoundReplies,     \* consensus positions, as [height, round, step]
  Canonical,        \* the hash of the block committed at each height
  QueueLimit        \* capacity of wsEvents

ASSUME OrchestratorDomains ==
  /\ Heights \subseteq Int /\ Rounds \subseteq Int /\ Steps \subseteq Nat
  /\ VoteTypes \subseteq {"prevote", "precommit"}
  /\ MaxRound \in Nat /\ BlockHistoryLimit \in Nat \ {0} /\ QueueLimit \in Nat \ {0}
  /\ \A m \in Rosters : DOMAIN m \subseteq Addresses
  /\ StatusHeights \subseteq Heights
  /\ \A x \in RosterReplies : x.roster \in Rosters /\ x.height \in Heights
  /\ \A x \in RoundReplies : x.height \in Heights /\ x.round \in Rounds /\ x.step \in Steps
  /\ Canonical \in [Heights -> Hashes]

(* The rest of what the tracker assumes of its limits and of a roster.     *)
ASSUME TrackerDomains ==
  /\ Nil \notin Hashes
  /\ HistorySize \in Nat \ {0} /\ RoundLimit \in Nat \ {0} /\ HashLimit \in Nat \ {0}
  /\ UnknownLimit \in Nat /\ ThresholdPct \in Nat /\ IncludePrevotes \in BOOLEAN
  /\ \A m \in Rosters : IsFiniteSet(DOMAIN m) /\ m \in [DOMAIN m -> Nat]

VARIABLES
  s,                    \* Dashboard's state
  t, alerts, everSeen,  \* Tracker's state
  wsEvents,             \* the channel between client and loop
  validatorRefresh,     \* the one-place channel that wakes refresh holds a token
  client, loop, status, refresh, consensus,
  owed                  \* history: an update was handled and no refresh has begun since

tracker == <<t, alerts, everSeen>>
vars == <<s, tracker, wsEvents, validatorRefresh, client, loop, status, refresh, consensus, owed>>

Proposers == Addresses \cup {NoProposer}
ValidatorSets == {DOMAIN m : m \in Rosters}

D == INSTANCE Dashboard
T == INSTANCE Tracker

(* An event carries what its handler reads; the round before a reported    *)
(* one is a round.                                                         *)
ASSUME EventDomains ==
  \A ev \in Events :
     \/ ev.kind = "new_block" /\ ev.height \in Heights
     \/ /\ ev.kind = "new_round" /\ ev.height \in Heights /\ ev.round \in Rounds
        /\ ev.step \in Steps /\ ev.proposer \in Proposers
        /\ ev.round > 0 => ev.round - 1 \in Rounds
     \/ ev.kind = "vote" /\ ev.vote \in T!Votes
     \/ ev.kind = "validator_set_updates"

Idle == [pc |-> "idle"]

-----------------------------------------------------------------------------
(* The WebSocket client *)

(* The handler's first attempt to send.                                    *)
Offer(ev) ==
  IF Len(wsEvents) < QueueLimit
  THEN wsEvents' = Append(wsEvents, ev) /\ client' = Idle
  ELSE client' = [pc |-> "full", ev |-> ev] /\ UNCHANGED wsEvents

Receive(ev) ==
  /\ client = Idle /\ s.health.wsConnected
  /\ Offer(ev)
  /\ UNCHANGED <<s, tracker, validatorRefresh, loop, status, refresh, consensus, owed>>

(* The first event on a connection makes the client live before the        *)
(* handler sees it.                                                        *)
GoLive(ev) ==
  /\ client = Idle /\ ~s.health.wsConnected
  /\ D!Lifecycle(TRUE)
  /\ client' = [pc |-> "deliver", ev |-> ev]
  /\ UNCHANGED <<tracker, wsEvents, validatorRefresh, loop, status, refresh, consensus, owed>>

Deliver ==
  /\ client.pc = "deliver"
  /\ Offer(client.ev)
  /\ UNCHANGED <<s, tracker, validatorRefresh, loop, status, refresh, consensus, owed>>

(* The loop may have taken an event since the channel was found full; the  *)
(* oldest one is dropped all the same.  There is room for the new event    *)
(* then, because the client is the only sender.                            *)
DropOldest ==
  /\ client.pc = "full"
  /\ wsEvents' = Append(IF wsEvents = <<>> THEN <<>> ELSE Tail(wsEvents), client.ev)
  /\ client' = Idle
  /\ UNCHANGED <<s, tracker, validatorRefresh, loop, status, refresh, consensus, owed>>

Disconnect ==
  /\ client = Idle /\ s.health.wsConnected
  /\ D!Lifecycle(FALSE)
  /\ UNCHANGED <<tracker, wsEvents, validatorRefresh, client, loop, status, refresh, consensus, owed>>

-----------------------------------------------------------------------------
(* The event loop *)

LoopOnly == UNCHANGED <<client, status, refresh, consensus>>

(* handleWSEvent up to its switch.                                         *)
TakeEvent ==
  /\ loop = Idle /\ wsEvents # <<>>
  /\ wsEvents' = Tail(wsEvents)
  /\ loop' = [pc |-> Head(wsEvents).kind, ev |-> Head(wsEvents)]
  /\ D!StreamEvent
  /\ LoopOnly /\ UNCHANGED <<tracker, validatorRefresh, owed>>

HandleNewBlock ==
  /\ loop.pc = "new_block"
  /\ IF D!AcceptsBlock(s, loop.ev.height)
     THEN D!NewBlock(loop.ev.height) /\ loop' = [loop EXCEPT !.pc = "resolve"]
     ELSE UNCHANGED s /\ loop' = Idle
  /\ LoopOnly /\ UNCHANGED <<tracker, wsEvents, validatorRefresh, owed>>

ResolveNewBlock ==
  /\ loop.pc = "resolve"
  /\ T!ResolveCommit(loop.ev.height, Canonical[loop.ev.height])
  /\ loop' = Idle
  /\ LoopOnly /\ UNCHANGED <<s, wsEvents, validatorRefresh, owed>>

HandleNewRound ==
  LET ev == loop.ev IN
  /\ loop.pc = "new_round"
  /\ IF D!Advances(s, ev.height, ev.round)
     THEN /\ D!NewRound(ev.height, ev.round, ev.step, ev.proposer)
          /\ loop' = [loop EXCEPT !.pc = "observe_round"]
     ELSE UNCHANGED s /\ loop' = Idle
  /\ LoopOnly /\ UNCHANGED <<tracker, wsEvents, validatorRefresh, owed>>

ObserveNewRound ==
  LET ev == loop.ev IN
  /\ loop.pc = "observe_round"
  /\ T!ObserveRound(ev.height, ev.round, ev.proposer)
  /\ loop' = IF ev.round > 0 THEN [loop EXCEPT !.pc = "mark_advanced"] ELSE Idle
  /\ LoopOnly /\ UNCHANGED <<s, wsEvents, validatorRefresh, owed>>

MarkPreviousRound ==
  /\ loop.pc = "mark_advanced"
  /\ T!MarkRoundAdvanced(loop.ev.height, loop.ev.round - 1)
  /\ loop' = Idle
  /\ LoopOnly /\ UNCHANGED <<s, wsEvents, validatorRefresh, owed>>

(* handleVote: the archive first, whatever the dashboard makes of the vote. *)
HandleVote ==
  /\ loop.pc = "vote"
  /\ T!ObserveVote(loop.ev.vote)
  /\ loop' = [loop EXCEPT !.pc = "record_vote"]
  /\ LoopOnly /\ UNCHANGED <<s, wsEvents, validatorRefresh, owed>>

(* Mutant: acceptance is decided on the row that now shows the vote.       *)
RecordVote_Late ==
  /\ loop.pc = "record_vote"
  /\ D!Vote(loop.ev.vote)
  /\ loop' = IF D!AcceptsVote(s', loop.ev.vote) THEN [loop EXCEPT !.pc = "ingest_vote"] ELSE Idle
  /\ LoopOnly /\ UNCHANGED <<tracker, wsEvents, validatorRefresh, owed>>

RecordVote ==
  /\ loop.pc = "record_vote"
  /\ D!Vote(loop.ev.vote)
  /\ loop' = IF D!AcceptsVote(s, loop.ev.vote) THEN [loop EXCEPT !.pc = "ingest_vote"] ELSE Idle
  /\ LoopOnly /\ UNCHANGED <<tracker, wsEvents, validatorRefresh, owed>>

IngestVote ==
  /\ loop.pc = "ingest_vote"
  /\ T!IngestVote(loop.ev.vote)
  /\ loop' = Idle
  /\ LoopOnly /\ UNCHANGED <<s, wsEvents, validatorRefresh, owed>>

(* Mutant: the channel has no buffer, so a busy poller misses the token.   *)
HandleValidatorSetUpdates_Unbuffered ==
  /\ loop.pc = "validator_set_updates"
  /\ validatorRefresh' = (validatorRefresh \/ refresh = Idle)
  /\ owed' = TRUE
  /\ loop' = Idle
  /\ LoopOnly /\ UNCHANGED <<s, tracker, wsEvents>>

(* A token already in the channel covers this update too.                  *)
HandleValidatorSetUpdates ==
  /\ loop.pc = "validator_set_updates"
  /\ validatorRefresh' = TRUE
  /\ owed' = TRUE
  /\ loop' = Idle
  /\ LoopOnly /\ UNCHANGED <<s, tracker, wsEvents>>

HandleEvent ==
  \/ HandleNewBlock \/ ResolveNewBlock
  \/ HandleNewRound \/ ObserveNewRound \/ MarkPreviousRound
  \/ HandleVote \/ RecordVote \/ IngestVote
  \/ HandleValidatorSetUpdates

-----------------------------------------------------------------------------
(* The status poller *)

StatusOnly ==
  UNCHANGED <<wsEvents, validatorRefresh, client, loop, refresh, consensus, owed>>

(* Mutant: the latest block is fetched before the status is applied.       *)
StatusArrives_BlockFirst(latest) ==
  /\ status = Idle
  /\ status' = [pc |-> "latest_block", latest |-> latest,
                seed |-> s.blocks = <<>> \/ ~s.health.wsConnected]
  /\ StatusOnly /\ UNCHANGED <<s, tracker>>

(* The reply and the snapshot taken right after it; seed records whether   *)
(* that snapshot calls for the latest block.                               *)
StatusArrives(latest) ==
  /\ status = Idle
  /\ status' = [pc |-> "apply", latest |-> latest,
                seed |-> s.blocks = <<>> \/ ~s.health.wsConnected]
  /\ StatusOnly /\ UNCHANGED <<s, tracker>>

ApplyStatus ==
  /\ status.pc = "apply"
  /\ D!StatusReply(status.latest)
  /\ status' = IF status.seed THEN [status EXCEPT !.pc = "latest_block"] ELSE Idle
  /\ StatusOnly /\ UNCHANGED tracker

(* refreshLatestBlock up to its request.                                   *)
CheckLatestBlock ==
  LET known == s.blocks # <<>> /\ s.blocks[Len(s.blocks)] >= status.latest IN
  /\ status.pc = "latest_block"
  /\ status' = IF status.latest <= 0 \/ known THEN Idle ELSE [status EXCEPT !.pc = "append"]
  /\ StatusOnly /\ UNCHANGED <<s, tracker>>

BlockFails ==
  /\ status.pc = "append"
  /\ status' = Idle
  /\ StatusOnly /\ UNCHANGED <<s, tracker>>

AppendLatestBlock ==
  /\ status.pc = "append"
  /\ s' = D!RecordHTTPSuccess([s EXCEPT !.blocks = D!AppendBlock(@, status.latest)])
  /\ status' = [status EXCEPT !.pc = "resolve"]
  /\ StatusOnly /\ UNCHANGED tracker

ResolveLatestBlock ==
  /\ status.pc = "resolve"
  /\ T!ResolveCommit(status.latest, Canonical[status.latest])
  /\ status' = Idle
  /\ StatusOnly /\ UNCHANGED s

RefreshStatus ==
  \/ \E latest \in StatusHeights : StatusArrives(latest)
  \/ ApplyStatus \/ CheckLatestBlock \/ BlockFails \/ AppendLatestBlock \/ ResolveLatestBlock

-----------------------------------------------------------------------------
(* The validators poller *)

RefreshOnly == UNCHANGED <<wsEvents, client, loop, status, consensus>>

(* The ticker fires.                                                       *)
BeginRefresh ==
  /\ refresh = Idle
  /\ refresh' = [pc |-> "request"]
  /\ owed' = FALSE
  /\ RefreshOnly /\ UNCHANGED <<s, tracker, validatorRefresh>>

(* The select receives the loop's token.                                   *)
WakeRefresh ==
  /\ refresh = Idle /\ validatorRefresh
  /\ validatorRefresh' = FALSE
  /\ refresh' = [pc |-> "request"]
  /\ owed' = FALSE
  /\ RefreshOnly /\ UNCHANGED <<s, tracker>>

(* An error, an empty set or the 30 s timeout.                             *)
ValidatorsFail ==
  /\ refresh.pc = "request"
  /\ refresh' = Idle
  /\ RefreshOnly /\ UNCHANGED <<s, tracker, validatorRefresh, owed>>

ValidatorsArrive(x) ==
  /\ refresh.pc = "request"
  /\ refresh' = [pc |-> "merge", reply |-> x]
  /\ RefreshOnly /\ UNCHANGED <<s, tracker, validatorRefresh, owed>>

MergeValidators ==
  LET x == refresh.reply IN
  /\ refresh.pc = "merge"
  /\ D!ValidatorsReply(DOMAIN x.roster, x.height)
  /\ refresh' = IF x.height >= s.validatorHeight THEN [refresh EXCEPT !.pc = "set"] ELSE Idle
  /\ RefreshOnly /\ UNCHANGED <<tracker, validatorRefresh, owed>>

SetValidators ==
  /\ refresh.pc = "set"
  /\ T!SetValidators(refresh.reply.roster)
  /\ refresh' = Idle
  /\ RefreshOnly /\ UNCHANGED <<s, validatorRefresh, owed>>

RefreshValidators ==
  \/ BeginRefresh \/ WakeRefresh \/ ValidatorsFail
  \/ \E x \in RosterReplies : ValidatorsArrive(x)
  \/ MergeValidators \/ SetValidators

-----------------------------------------------------------------------------
(* The consensus poller *)

ConsensusOnly ==
  UNCHANGED <<wsEvents, validatorRefresh, client, loop, status, refresh, owed>>

(* A run that finds the stream live and streaming makes no request; a      *)
(* position with height 0 or a negative number is an error.                *)
RoundArrives(x) ==
  /\ consensus = Idle /\ D!ModeAt(s.health) # "streaming"
  /\ x.height > 0 /\ x.round >= 0
  /\ consensus' = [pc |-> "apply", reply |-> x]
  /\ ConsensusOnly /\ UNCHANGED <<s, tracker>>

ApplyRound ==
  LET x == consensus.reply IN
  /\ consensus.pc = "apply"
  /\ D!FallbackReply(x.height, x.round, x.step)
  /\ consensus' = IF D!AcceptsFallback(s, x.height, x.round)
                  THEN [consensus EXCEPT !.pc = "observe"] ELSE Idle
  /\ ConsensusOnly /\ UNCHANGED tracker

ObserveFallbackRound ==
  LET x == consensus.reply IN
  /\ consensus.pc = "observe"
  /\ T!ObserveRound(x.height, x.round, NoProposer)
  /\ consensus' = Idle
  /\ ConsensusOnly /\ UNCHANGED s

RefreshConsensus ==
  \/ \E x \in RoundReplies : RoundArrives(x)
  \/ ApplyRound \/ ObserveFallbackRound

-----------------------------------------------------------------------------
Init ==
  /\ D!Init /\ T!Init
  /\ wsEvents = <<>> /\ validatorRefresh = FALSE /\ owed = FALSE
  /\ client = Idle /\ loop = Idle /\ status = Idle /\ consensus = Idle
  /\ refresh = [pc |-> "request"]   \* pollLoop runs once immediately

(* The last stream event becomes stale.  The age of the last HTTP reply is *)
(* read by no goroutine, so it is left to Dashboard.                       *)
Age ==
  /\ D!EventAges
  /\ UNCHANGED <<tracker, wsEvents, validatorRefresh, client, loop, status, refresh, consensus, owed>>

Next ==
  \/ \E ev \in Events : Receive(ev) \/ GoLive(ev)
  \/ Deliver \/ DropOldest \/ Disconnect
  \/ TakeEvent \/ HandleEvent
  \/ RefreshStatus \/ RefreshValidators \/ RefreshConsensus
  \/ Age

(* The loop and the client run while they can, and a poller's select takes *)
(* a token that stays in its channel; requests end because each run of a   *)
(* poller has a 30 s timeout.  Nothing is assumed of the tickers, the node *)
(* and its replies.                                                        *)
Fairness ==
  /\ WF_vars(TakeEvent) /\ WF_vars(HandleEvent) /\ WF_vars(Deliver \/ DropOldest)
  /\ WF_vars(WakeRefresh)
  /\ WF_vars(ValidatorsFail \/ (\E x \in RosterReplies : ValidatorsArrive(x)))
  /\ WF_vars(MergeValidators \/ SetValidators)

Spec == Init /\ [][Next]_vars /\ Fairness

-----------------------------------------------------------------------------
(* Properties *)

(* Every change any goroutine makes to the state is one that Dashboard     *)
(* allows; in particular a block appended by the status poller is one the  *)
(* dashboard already knows as committed, whatever ran between its reply,   *)
(* its two snapshots and its two updates.                                  *)
ImplementsDashboard == D!Spec

(* The tracker never counts a height as committed that the dashboard does  *)
(* not: two goroutines resolve commits, each after its own state update.   *)
TrackerBehindDashboard == t.committedHeight <= s.lastCommittedHeight

(* Between two stream events every vote on display that the archive can    *)
(* keep is in its evidence and counted by the detector, or the report      *)
(* flags what is missing: the vote lost to HashLimit, or, in a round with  *)
(* UnknownLimit voters, that more validators voted.  This is so whatever   *)
(* the pollers changed between ObserveVote, Mutate and IngestVote          *)
(* (orchestrator.go:403-434).                                              *)
DisplayedIsAccounted ==
  loop = Idle =>
    \A a \in DOMAIN s.lastRound.rows, type \in VoteTypes :
       LET cell == s.lastRound.rows[a].votes[type]
           k == [height |-> s.height, round |-> s.round, type |-> type]
           v == [height |-> s.height, round |-> s.round, type |-> type,
                 addr |-> a, hash |-> cell.hash]
           rd == t.archive[k.height].rounds[k.round]
       IN cell.kind # "absent" /\ {a, cell.hash} \cap Oversized = {} =>
            /\ k.height \in DOMAIN t.archive /\ k.round \in DOMAIN t.archive[k.height].rounds
            /\ \/ T!Holds(rd, v) /\ k \in DOMAIN t.rounds /\ a \in DOMAIN t.rounds[k].votes
               \/ T!Crowded(rd)

(* Between two stream events every vote on display is one that the         *)
(* detector has counted: IngestVote is called with the votes that the      *)
(* dashboard took, "so every consumer sees the same acceptance decision as *)
(* the authoritative state" (orchestrator.go:428-429).                     *)
DisplayedIsTallied ==
  loop = Idle =>
    \A a \in DOMAIN s.lastRound.rows, type \in VoteTypes :
       LET k == [height |-> s.height, round |-> s.round, type |-> type]
       IN s.lastRound.rows[a].votes[type].kind # "absent" =>
            k \in DOMAIN t.rounds /\ a \in DOMAIN t.rounds[k].votes

(* The vote on display is the one the detector keeps: "Keep the first      *)
(* observation, matching the tracker's deduplication"                      *)
(* (orchestrator.go:414).                                                  *)
FirstObservationAgreement ==
  loop = Idle =>
    \A a \in DOMAIN s.lastRound.rows, type \in VoteTypes :
       LET cell == s.lastRound.rows[a].votes[type]
           k == [height |-> s.height, round |-> s.round, type |-> type]
       IN cell.kind # "absent" => t.rounds[k].votes[a] = cell.hash

(* After every validator-set update the loop handles, a refresh begins     *)
(* without waiting for the ticker, also when the update arrives while a    *)
(* refresh is running.                                                     *)
UpdateRefreshes == owed ~> ~owed
=============================================================================
