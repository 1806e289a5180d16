------------------------------ MODULE Dashboard ------------------------------
(***************************************************************************)
(* The monitoring state that every UI reads (src/internal/state) and the   *)
(* transitions the orchestrator applies to it (src/internal/core).  The    *)
(* state sits behind one lock and is changed only inside Mutate, so the    *)
(* StateData struct is one variable, s, and each callback passed to Mutate *)
(* is one action.  The order in which goroutines call them is the business *)
(* of module Orchestrator; here any order is allowed, except that a block  *)
(* fetched over HTTP is at a height a status reply already reported.       *)
(*                                                                         *)
(* A vote cell and a proposer flag carry the height and round of the event *)
(* that set them (field at), which the program does not store: it is there *)
(* to state that nothing stale is displayed.  Error texts, endpoints,      *)
(* names and block contents are not modelled; a time stamp of Health is    *)
(* "never", within StaleAfterMs ("fresh") or older than it ("old").        *)
(***************************************************************************)
EXTENDS Integers, Sequences

CONSTANTS
  Heights,            \* heights that nodes report
  Rounds,             \* rounds that nodes report
  Steps,              \* consensus steps that nodes report
  Addresses,          \* validator addresses
  Hashes,             \* hashes of blocks
  Nil,                \* the empty hash of a nil vote
  NoProposer,         \* the empty proposer address
  VoteTypes,          \* "prevote" and "precommit"
  ValidatorSets,      \* the non-empty validator sets the RPC pool returns
  MaxRound,           \* math.MaxInt32
  BlockHistoryLimit   \* state.BlockHistoryLimit

ASSUME DashboardDomains ==
  /\ Heights \subseteq Int /\ Rounds \subseteq Int /\ Steps \subseteq Nat
  /\ VoteTypes \subseteq {"prevote", "precommit"}
  /\ ValidatorSets \subseteq SUBSET Addresses
  /\ MaxRound \in Nat /\ BlockHistoryLimit \in Nat \ {0}

VARIABLE s

-----------------------------------------------------------------------------
(* Values *)

BlockHashes == Hashes \cup {Nil}
Proposers == Addresses \cup {NoProposer}
Votes == [height : Heights, round : Rounds, type : VoteTypes,
          addr : Addresses, hash : BlockHashes]
Freshness == {"never", "fresh", "old"}

Position == [h : Int, r : Int]
At(h, r) == [h |-> h, r |-> r]
Cell == [kind : {"absent", "nil", "block"}, hash : BlockHashes, at : Position]
Flag == [set : BOOLEAN, at : Position]
Row == [votes : [VoteTypes -> Cell], proposer : Flag]
RoundView(V) == [loaded : BOOLEAN, round : Nat, rows : [V -> Row]]
Health == [wsConnected : BOOLEAN, event : Freshness, http : Freshness]
StateData(V) ==
  [height : Nat, round : 0..MaxRound, step : Nat, lastCommittedHeight : Nat, validatorHeight : Int,
   lastRound : RoundView(V), blocks : Seq(Nat), health : Health]

Greater(a, b) == IF a > b THEN a ELSE b

AbsentVote == [kind |-> "absent", hash |-> Nil, at |-> At(0, 0)]
NotProposer == [set |-> FALSE, at |-> At(0, 0)]
EmptyRow == [votes |-> [type \in VoteTypes |-> AbsentVote], proposer |-> NotProposer]

CellOf(v) ==
  [kind |-> IF v.hash = Nil THEN "nil" ELSE "block", hash |-> v.hash,
   at |-> At(v.height, v.round)]

StepOf(type) == IF type = "prevote" THEN 4 ELSE 6

-----------------------------------------------------------------------------
(* Transitions *)

ModeAt(health) ==
  CASE health.event = "never" /\ health.http = "never" -> "unavailable"
    [] health.wsConnected /\ health.event = "fresh" -> "streaming"
    [] health.http = "fresh" /\ ~(health.wsConnected /\ health.event = "fresh") -> "polling"
    [] OTHER -> "stale"

(* Mutant: the proposer flag survives.                                     *)
ClearRoundVotes_KeepProposer(view) ==
  [view EXCEPT !.rows = [a \in DOMAIN @ |-> [EmptyRow EXCEPT !.proposer = view.rows[a].proposer]]]

ClearRoundVotes(view) == [view EXCEPT !.rows = [a \in DOMAIN @ |-> EmptyRow]]

(* The round view of a nil LastRound is not touched.                       *)
RestartView(view, r) ==
  IF view.loaded THEN [ClearRoundVotes(view) EXCEPT !.round = r] ELSE view

(* Mutant: a negative round is not rejected.                               *)
Advances_Negative(d, h, r) ==
  /\ h > d.lastCommittedHeight /\ h >= d.height
  /\ r <= MaxRound
  /\ ~(h = d.height /\ r < d.round)

(* Mutant: the committed height is not consulted.                          *)
Advances_Committed(d, h, r) ==
  /\ h >= d.height
  /\ r >= 0 /\ r <= MaxRound
  /\ ~(h = d.height /\ r < d.round)

(* Mutant: a lower round of the same height is taken for progress.         *)
Advances_LowerRound(d, h, r) ==
  /\ h > d.lastCommittedHeight /\ h >= d.height
  /\ r >= 0 /\ r <= MaxRound

(* The rejections of advanceRound.                                         *)
Advances(d, h, r) ==
  /\ h > d.lastCommittedHeight /\ h >= d.height
  /\ r >= 0 /\ r <= MaxRound
  /\ ~(h = d.height /\ r < d.round)

AdvanceRound(d, h, r, step) ==
  IF ~Advances(d, h, r) THEN d
  ELSE IF h # d.height \/ r # d.round
  THEN [d EXCEPT !.height = h, !.round = r, !.step = step, !.lastRound = RestartView(@, r)]
  ELSE [d EXCEPT !.step = Greater(step, @)]

MarkProposer(view, p, h, r) ==
  IF p = NoProposer THEN view
  ELSE [view EXCEPT !.rows = [a \in DOMAIN @ |->
          [@[a] EXCEPT !.proposer = IF a = p THEN [set |-> TRUE, at |-> At(h, r)] ELSE NotProposer]]]

(* Mutant: the last sample is not compared with.                           *)
AppendBlock_AnyOrder(blocks, h) ==
  LET all == Append(blocks, h) IN
  IF Len(all) > BlockHistoryLimit THEN Tail(all) ELSE all

AppendBlock(blocks, h) ==
  LET all == Append(blocks, h) IN
  IF blocks # <<>> /\ h <= blocks[Len(blocks)] THEN blocks
  ELSE IF Len(all) > BlockHistoryLimit THEN Tail(all) ELSE all

AcceptsBlock(d, h) ==
  /\ h > 0 /\ h >= d.lastCommittedHeight
  /\ \A i \in DOMAIN d.blocks : d.blocks[i] # h

CommitBlock(d, h) ==
  AdvanceRound([d EXCEPT !.lastCommittedHeight = Greater(h, @),
                         !.blocks = AppendBlock(@, h)], h + 1, 0, 1)

StartRound(d, h, r, step, p) ==
  [AdvanceRound(d, h, r, step) EXCEPT !.lastRound = MarkProposer(@, p, h, r)]

(* The row of the voter already shows a vote of this type.                 *)
Shown(d, v) ==
  /\ v.addr \in DOMAIN d.lastRound.rows
  /\ d.lastRound.rows[v.addr].votes[v.type].kind # "absent"

AcceptsVote(d, v) ==
  /\ Advances(d, v.height, v.round)
  /\ ~Shown(AdvanceRound(d, v.height, v.round, StepOf(v.type)), v)

RecordVote(d, v) ==
  LET d1 == AdvanceRound(d, v.height, v.round, StepOf(v.type)) IN
  IF ~AcceptsVote(d, v) \/ v.addr \notin DOMAIN d1.lastRound.rows THEN d1
  ELSE [d1 EXCEPT !.lastRound.rows[v.addr].votes[v.type] = CellOf(v)]

RecordHTTPSuccess(d) == [d EXCEPT !.health.http = "fresh"]

(* The callback of refreshStatus: passing the displayed height leaves no   *)
(* active round, because a status height does not tell the next one.       *)
ApplyStatus(d, latest) ==
  LET d1 == RecordHTTPSuccess(d) IN
  IF latest <= d.lastCommittedHeight THEN d1
  ELSE IF d.height > 0 /\ d.height <= latest
  THEN [d1 EXCEPT !.lastCommittedHeight = latest, !.height = 0, !.round = 0, !.step = 0,
                  !.lastRound = RestartView(@, 0)]
  ELSE [d1 EXCEPT !.lastCommittedHeight = latest]

(* Votes are kept by address, never by position in the list.               *)
MergeValidatorRound(d, V, vh) ==
  LET kept == IF d.lastRound.loaded /\ d.lastRound.round = d.round
              THEN DOMAIN d.lastRound.rows ELSE {}
  IN IF vh < d.validatorHeight THEN d
     ELSE [d EXCEPT !.lastRound = [loaded |-> TRUE, round |-> d.round,
                                   rows |-> [a \in V |-> IF a \in kept THEN @.rows[a] ELSE EmptyRow]],
                    !.validatorHeight = vh]

AcceptsFallback(d, h, r) == ModeAt(d.health) # "streaming" /\ Advances(d, h, r)

(* The callback of refreshConsensusViaHTTP.  A reply that arrives after    *)
(* the stream has recovered is ignored; recordHTTPSuccess cannot turn any  *)
(* other mode into streaming, so the second test of the code agrees.       *)
ApplyFallback(d, h, r, step) ==
  LET d1 == AdvanceRound(RecordHTTPSuccess(d), h, r, step) IN
  IF ModeAt(d.health) = "streaming" THEN d
  ELSE IF Advances(d, h, r) THEN [d1 EXCEPT !.lastRound = ClearRoundVotes(@)] ELSE d1

-----------------------------------------------------------------------------
(* Operations *)

Init ==
  s = [height |-> 0, round |-> 0, step |-> 0, lastCommittedHeight |-> 0, validatorHeight |-> 0,
       lastRound |-> [loaded |-> FALSE, round |-> 0, rows |-> [a \in {} |-> EmptyRow]],
       blocks |-> <<>>,
       health |-> [wsConnected |-> FALSE, event |-> "never", http |-> "never"]]

(* The first Mutate of handleWSEvent, for every event.                     *)
StreamEvent == s' = [s EXCEPT !.health.event = "fresh"]

NewBlock(h) == AcceptsBlock(s, h) /\ s' = CommitBlock(s, h)

NewRound(h, r, step, p) == Advances(s, h, r) /\ s' = StartRound(s, h, r, step, p)

Vote(v) == s' = RecordVote(s, v)

StatusReply(latest) == s' = ApplyStatus(s, latest)

BlockReply(h) ==
  /\ h > 0 /\ h <= s.lastCommittedHeight
  /\ s' = RecordHTTPSuccess([s EXCEPT !.blocks = AppendBlock(@, h)])

ValidatorsReply(V, vh) == s' = MergeValidatorRound(s, V, vh)

FallbackReply(h, r, step) == s' = ApplyFallback(s, h, r, step)

Lifecycle(live) == s' = [s EXCEPT !.health.wsConnected = live]

(* Time passes: an observation becomes older than StaleAfterMs.            *)
EventAges == s.health.event = "fresh" /\ s' = [s EXCEPT !.health.event = "old"]
HTTPAges == s.health.http = "fresh" /\ s' = [s EXCEPT !.health.http = "old"]

Next ==
  \/ StreamEvent
  \/ \E h \in Heights : NewBlock(h)
  \/ \E h \in Heights, r \in Rounds, step \in Steps, p \in Proposers : NewRound(h, r, step, p)
  \/ \E v \in Votes : Vote(v)
  \/ \E h \in Heights : StatusReply(h)
  \/ \E h \in Heights : BlockReply(h)
  \/ \E V \in ValidatorSets, vh \in Heights : ValidatorsReply(V, vh)
  \/ \E h \in Heights, r \in Rounds, step \in Steps : FallbackReply(h, r, step)
  \/ \E live \in BOOLEAN : Lifecycle(live)
  \/ EventAges
  \/ HTTPAges

Spec == Init /\ [][Next]_s

-----------------------------------------------------------------------------
(* Properties *)

(* The shape of StateData, V being the validators of the round view; no    *)
(* round out of range gets past advanceRound.                              *)
TypeOK == \E V \in SUBSET Addresses : s \in StateData(V)

(* The displayed height is never one that already committed, whichever of  *)
(* the stream, the status poll and the fallback poll reported the commit:  *)
(* "votes with Height <= LastCommittedHeight ... must not pollute the live *)
(* round display" (state/types.go).                                        *)
ActiveAboveCommitted == s.height = 0 \/ s.height > s.lastCommittedHeight

(* The round view belongs to the displayed round, so mergeValidatorRound   *)
(* never throws observations away as being of another round.               *)
RoundViewCurrent == s.lastRound.loaded => s.lastRound.round = s.round

(* Every vote and proposer flag on display was observed at exactly the     *)
(* displayed height and round, across round changes, commits, status       *)
(* resets, validator-set changes and switches between stream and fallback. *)
DisplayIsCurrent ==
  \A a \in DOMAIN s.lastRound.rows :
     LET row == s.lastRound.rows[a] IN
     /\ \A type \in VoteTypes :
          row.votes[type].kind # "absent" => row.votes[type].at = At(s.height, s.round)
     /\ row.proposer.set => row.proposer.at = At(s.height, s.round)

(* The block history is strictly increasing, bounded, and holds committed  *)
(* heights only, although two goroutines append to it.                     *)
BlocksOrdered ==
  /\ Len(s.blocks) <= BlockHistoryLimit
  /\ \A i \in DOMAIN s.blocks : s.blocks[i] <= s.lastCommittedHeight
  /\ \A i, j \in DOMAIN s.blocks : i < j => s.blocks[i] < s.blocks[j]

(* Consensus never runs backwards on the dashboard: the position and the   *)
(* step within a round only grow, except that a commit known from a status *)
(* reply clears a height it passed; commits and the validator set height   *)
(* only grow.                                                              *)
NeverBackwards ==
  [][/\ s'.lastCommittedHeight >= s.lastCommittedHeight
     /\ s'.validatorHeight >= s.validatorHeight
     /\ \/ s'.height > s.height
        \/ s'.height = s.height /\ s'.round > s.round
        \/ s'.height = s.height /\ s'.round = s.round /\ s'.step >= s.step
        \/ s'.height = 0 /\ s'.lastCommittedHeight >= s.height]_s
=============================================================================
