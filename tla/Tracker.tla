------------------------------- MODULE Tracker -------------------------------
(***************************************************************************)
(* The divergence tracker (src/internal/divergence): the live detector,    *)
(* which groups the votes of a consensus round by the block hash they      *)
(* sign, and the investigation archive, which keeps the bounded evidence   *)
(* behind the block-investigation page.                                    *)
(*                                                                         *)
(* Every exported method runs under one mutex, so an operation is one      *)
(* action and the struct is one variable, t.  Helpers are functions from   *)
(* tracker to tracker; a Go lookup that may return nil is a membership     *)
(* test.  Wall-clock times and monikers are not modelled.  Roster entries  *)
(* are voting powers.                                                      *)
(***************************************************************************)
EXTENDS Integers, Sequences, FiniteSets, FiniteSetsExt, Functions, SequencesExt

CONSTANTS
  Heights,          \* heights that callers pass
  Rounds,           \* rounds that callers pass
  Addresses,        \* validator addresses
  Hashes,           \* hashes of blocks
  Nil,              \* the empty hash: a vote for nil, an unknown canonical hash
  NoProposer,       \* the empty proposer address
  Proposers,        \* proposers that callers report, NoProposer when unknown
  Oversized,        \* identities longer than investigationIdentityLimit
  VoteTypes,        \* the phases callers report votes of
  Rosters,          \* validator sets the RPC pool returns
  MaxRound,         \* math.MaxInt32
  HistorySize,      \* Config.HistorySize
  RoundLimit,       \* InvestigationRoundLimit
  HashLimit,        \* InvestigationHashLimit
  UnknownLimit,     \* InvestigationUnknownValidatorLimit
  ThresholdPct,     \* Config.ThresholdPct
  IncludePrevotes   \* Config.IncludePrevotes

ASSUME DomainAssumption ==
  /\ Heights \subseteq Int /\ Rounds \subseteq Int
  /\ VoteTypes \subseteq {"prevote", "precommit"}
  /\ Nil \notin Hashes /\ NoProposer \in Proposers

ASSUME LimitAssumption ==
  /\ HistorySize \in Nat \ {0} /\ RoundLimit \in Nat \ {0}
  /\ HashLimit \in Nat \ {0} /\ UnknownLimit \in Nat /\ MaxRound \in Nat
  /\ ThresholdPct \in Nat /\ IncludePrevotes \in BOOLEAN

ASSUME RosterAssumption ==
  \A m \in Rosters : /\ DOMAIN m \subseteq Addresses /\ IsFiniteSet(DOMAIN m)
                     /\ m \in [DOMAIN m -> Nat]

VARIABLES
  t,          \* the Tracker struct
  alerts,     \* history: how often IngestVote asked for an alert, per round key
  everSeen    \* history: the rounds ever archived, per height

vars == <<t, alerts, everSeen>>

-----------------------------------------------------------------------------
(* Values *)

BlockHashes == Hashes \cup {Nil}
Keys == [height : Heights, round : Rounds, type : VoteTypes]
Votes == [height : Heights, round : Rounds, type : VoteTypes,
          addr : Addresses, hash : BlockHashes]

NoEntries == [x \in {} |-> Nil]

Put(f, k, v) == [x \in DOMAIN f \cup {k} |-> IF x = k THEN v ELSE f[x]]

Larger(a, b) == IF a > b THEN a ELSE b

PowerOf(m, a) == IF a \in DOMAIN m THEN m[a] ELSE 0
PowerOfAll(m, S) == MapThenSumSet(LAMBDA a : PowerOf(m, a), S)

ValidRound(r) == r >= 0 /\ r <= MaxRound

WellFormed(v) ==
  /\ v.height > 0 /\ ValidRound(v.round)
  /\ v.addr \notin Oversized /\ v.hash \notin Oversized

-----------------------------------------------------------------------------
(* The archive *)

NewArchivedHeight ==
  [revision |-> 1, rounds |-> NoEntries, committed |-> FALSE, canonicalHash |-> Nil,
   firstRound |-> 0, lastRound |-> 0, roundsObserved |-> 0, roundsEvicted |-> 0,
   evictedThrough |-> -1]

NewArchivedRound(roster) ==
  [proposer |-> NoProposer, roster |-> roster, votes |-> NoEntries, truncated |-> FALSE]

(* votes maps an address and a phase to the hashes observed for them.     *)
NoVote == [hashes |-> <<>>, conflicting |-> FALSE, truncated |-> FALSE]

Retains(s, h) == h > s.archiveEvictedThrough /\ h \in DOMAIN s.archive

RetainsRound(s, h, r) ==
  Retains(s, h) /\ r > s.archive[h].evictedThrough /\ r \in DOMAIN s.archive[h].rounds

PruneDetectorRounds(s) ==
  [s EXCEPT !.rounds = Restrict(@,
     {k \in DOMAIN @ : k.height \in DOMAIN s.archive
                       /\ k.round \in DOMAIN s.archive[k.height].rounds})]

(* Mutant: the catalogue revision is not raised.                          *)
AddArchiveHeight_SameCatalogue(s, h) ==
  [s EXCEPT !.archive = Put(@, h, NewArchivedHeight), !.archiveLatestHeight = Larger(h, @)]

AddArchiveHeight(s, h) ==
  [s EXCEPT !.archive = Put(@, h, NewArchivedHeight),
            !.catalogueRevision = @ + 1,
            !.archiveLatestHeight = Larger(h, @)]

(* Mutant: an evicted height may be retained again.                       *)
EvictArchiveHeight_Forgets(s, oldest) == [s EXCEPT !.archive = Restrict(@, DOMAIN @ \ {oldest})]

EvictArchiveHeight(s, oldest) ==
  [s EXCEPT !.archive = Restrict(@, DOMAIN @ \ {oldest}),
            !.archiveEvictedThrough = Larger(oldest, @)]

(* Mutant: the detector's rounds outlive the evicted height.              *)
CreateArchiveHeight_NoPrune(s, h) ==
  LET added == AddArchiveHeight(s, h) IN
  IF h <= 0 \/ h <= s.archiveEvictedThrough \/ h \in DOMAIN s.archive THEN s
  ELSE IF Cardinality(DOMAIN added.archive) > HistorySize
       THEN EvictArchiveHeight(added, Min(DOMAIN added.archive))
       ELSE added

CreateArchiveHeight(s, h) ==
  LET added == AddArchiveHeight(s, h) IN
  IF h <= 0 \/ h <= s.archiveEvictedThrough \/ h \in DOMAIN s.archive THEN s
  ELSE IF Cardinality(DOMAIN added.archive) > HistorySize
       THEN PruneDetectorRounds(EvictArchiveHeight(added, Min(DOMAIN added.archive)))
       ELSE added

ArchiveHeight(s, h) ==
  IF h \notin DOMAIN s.archive /\ h <= s.committedHeight THEN s ELSE CreateArchiveHeight(s, h)

(* Mutant: rounds are taken to be observed in order.                      *)
AddArchiveRound_InOrder(b, r, roster) ==
  [b EXCEPT !.rounds = Put(@, r, NewArchivedRound(roster)),
            !.revision = @ + 1,
            !.firstRound = IF b.roundsObserved = 0 THEN r ELSE @,
            !.lastRound = r,
            !.roundsObserved = @ + 1]

AddArchiveRound(b, r, roster) ==
  LET first == b.roundsObserved = 0 IN
  [b EXCEPT !.rounds = Put(@, r, NewArchivedRound(roster)),
            !.revision = @ + 1,
            !.firstRound = IF first \/ r < @ THEN r ELSE @,
            !.lastRound = IF first \/ r > @ THEN r ELSE @,
            !.roundsObserved = @ + 1]

EvictArchiveRound(b, oldest) ==
  [b EXCEPT !.rounds = Restrict(@, DOMAIN @ \ {oldest}),
            !.evictedThrough = oldest,
            !.roundsEvicted = @ + 1]

(* Called with h retained.                                                *)
ArchiveRound(s, h, r) ==
  LET b == s.archive[h]
      added == AddArchiveRound(b, r, s.defaultValidators)
      With(block) == [s EXCEPT !.archive[h] = block]
  IN IF r < 0 \/ r <= b.evictedThrough \/ r \in DOMAIN b.rounds
        \/ b.committed \/ h <= s.committedHeight
     THEN s
     ELSE IF Cardinality(DOMAIN added.rounds) > RoundLimit
          THEN PruneDetectorRounds(With(EvictArchiveRound(added, Min(DOMAIN added.rounds))))
          ELSE With(added)

AdmitRound(s, h, r) ==
  LET s1 == ArchiveHeight(s, h) IN IF Retains(s1, h) THEN ArchiveRound(s1, h, r) ELSE s1

Voters(rd) == {i[1] : i \in DOMAIN rd.votes}

AdmitsVoter(rd, a) ==
  \/ a \in Voters(rd) \cup DOMAIN rd.roster
  \/ Cardinality(Voters(rd) \ DOMAIN rd.roster) < UnknownLimit

AppendHash(vote, hash) ==
  [vote EXCEPT !.hashes = Append(@, hash), !.conflicting = Len(vote.hashes) + 1 > 1]

(* Mutant: an unknown voter too many is turned away without a word.       *)
RecordVote_Silent(b, v) ==
  LET rd == b.rounds[v.round]
      id == <<v.addr, v.type>>
      vote == IF id \in DOMAIN rd.votes THEN rd.votes[id] ELSE NoVote
  IN IF ~AdmitsVoter(rd, v.addr) \/ v.hash \in Range(vote.hashes) THEN b
     ELSE IF Len(vote.hashes) >= HashLimit
     THEN [b EXCEPT !.rounds[v.round] = [@ EXCEPT !.truncated = TRUE, !.votes[id].truncated = TRUE,
                                                  !.votes[id].conflicting = TRUE],
                    !.revision = @ + 1]
     ELSE [b EXCEPT !.rounds[v.round].votes = Put(@, id, AppendHash(vote, v.hash)),
                    !.revision = @ + 1]

(* The vote part of observeVoteLocked, on the block that holds the round. *)
RecordVote(b, v) ==
  LET rd == b.rounds[v.round]
      id == <<v.addr, v.type>>
      vote == IF id \in DOMAIN rd.votes THEN rd.votes[id] ELSE NoVote
      Truncate(round, changed) ==
        [b EXCEPT !.rounds[v.round] = [round EXCEPT !.truncated = TRUE],
                  !.revision = IF changed THEN @ + 1 ELSE @]
  IN IF ~AdmitsVoter(rd, v.addr) THEN Truncate(rd, ~rd.truncated)
     ELSE IF v.hash \in Range(vote.hashes) THEN b
     ELSE IF Len(vote.hashes) >= HashLimit
     THEN Truncate([rd EXCEPT !.votes[id].truncated = TRUE, !.votes[id].conflicting = TRUE],
                   ~vote.truncated \/ ~vote.conflicting \/ ~rd.truncated)
     ELSE [b EXCEPT !.rounds[v.round].votes = Put(@, id, AppendHash(vote, v.hash)),
                    !.revision = @ + 1]

ObserveVoteLocked(s, v) ==
  LET s1 == AdmitRound(s, v.height, v.round) IN
  IF ~WellFormed(v) THEN s
  ELSE IF RetainsRound(s1, v.height, v.round)
       THEN [s1 EXCEPT !.archive[v.height] = RecordVote(@, v)]
       ELSE s1

SetProposer(b, r, proposer) ==
  IF proposer = NoProposer \/ b.rounds[r].proposer = proposer THEN b
  ELSE [b EXCEPT !.rounds[r].proposer = proposer, !.revision = @ + 1]

ObserveRoundLocked(s, h, r, proposer) ==
  LET s1 == AdmitRound(s, h, r) IN
  IF h <= 0 \/ ~ValidRound(r) \/ proposer \in Oversized THEN s
  ELSE IF RetainsRound(s1, h, r)
       THEN [s1 EXCEPT !.archive[h] = SetProposer(@, r, proposer)]
       ELSE s1

ArchiveCommit(s, h, hash) ==
  LET s1 == CreateArchiveHeight(s, h)
      b == s1.archive[h]
      sealed == [b EXCEPT !.committed = TRUE, !.canonicalHash = hash, !.revision = @ + 1]
  IN IF hash \in Oversized THEN s
     ELSE IF Retains(s1, h) /\ (~b.committed \/ (b.canonicalHash = Nil /\ hash # Nil))
     THEN [s1 EXCEPT !.archive[h] = sealed]
     ELSE s1

-----------------------------------------------------------------------------
(* The live detector.  votes maps each address in roundData.seen to the    *)
(* hash whose group lists it; power is groups[hash].votingPower.           *)

NewRoundData(s) ==
  [votes |-> NoEntries, power |-> NoEntries, validators |-> s.defaultValidators,
   totalVotingPower |-> s.defaultTotalPower, totalVotedPower |-> 0,
   resolved |-> FALSE, canonicalHash |-> Nil, advanced |-> FALSE, detected |-> FALSE]

(* A group other than the largest that names a block and reaches the       *)
(* threshold.  Which of two equally large groups leads makes no difference. *)
IsDivergent(rd) ==
  LET named == DOMAIN rd.power \ {Nil} IN
  \E leader, g \in named :
     /\ g # leader
     /\ \A other \in named : rd.power[other] <= rd.power[leader]
     /\ 100 * rd.power[g] >= ThresholdPct * rd.totalVotingPower
     /\ rd.power[g] > 0

(* Enough power has voted for the round to be judged.                      *)
Settled(rd, type) ==
  /\ ~rd.advanced /\ rd.totalVotingPower > 0
  /\ \/ type = "precommit" /\ rd.totalVotedPower > (rd.totalVotingPower * 2) \div 3
     \/ IncludePrevotes /\ rd.totalVotedPower = rd.totalVotingPower

Tally(rd, v) ==
  LET power == PowerOf(rd.validators, v.addr)
      group == IF v.hash \in DOMAIN rd.power THEN rd.power[v.hash] ELSE 0
  IN [rd EXCEPT !.votes = Put(@, v.addr, v.hash),
                !.power = Put(@, v.hash, group + power),
                !.totalVotedPower = @ + power]

(* Mutant: the detected flag is not consulted.                            *)
Triggers_Again(rd, type) ==
  (type = "precommit" \/ IncludePrevotes) /\ Settled(rd, type) /\ IsDivergent(rd)

Triggers(rd, type) ==
  (type = "precommit" \/ IncludePrevotes) /\ Settled(rd, type) /\ IsDivergent(rd) /\ ~rd.detected

KeyOf(v) == [height |-> v.height, round |-> v.round, type |-> v.type]

Archived(s, v) ==
  /\ v.height \in DOMAIN s.archive
  /\ v.round \in DOMAIN s.archive[v.height].rounds
  /\ <<v.addr, v.type>> \in DOMAIN s.archive[v.height].rounds[v.round].votes

(* IngestVote's new tracker and its "fresh divergence trigger" result.     *)
IngestVoteLocked(s, v) ==
  LET s1 == ObserveVoteLocked(s, v)
      k == KeyOf(v)
      rd == IF k \in DOMAIN s1.rounds THEN s1.rounds[k] ELSE NewRoundData(s1)
      tallied == Tally(rd, v)
      trigger == Triggers(tallied, v.type)
      judged == [tallied EXCEPT !.detected = @ \/ trigger]
  IN IF ~Archived(s1, v) \/ v.height <= s1.committedHeight \/ v.addr \in DOMAIN rd.votes
     THEN [tracker |-> s1, trigger |-> FALSE]
     ELSE [tracker |-> [s1 EXCEPT !.rounds = Put(@, k, judged)],
           trigger |-> trigger]

(* SetValidators on a round that had no voting power to weigh votes with.  *)
Reweigh(rd, m) ==
  LET power == [x \in DOMAIN rd.power |->
                  PowerOfAll(m, {a \in DOMAIN rd.votes : rd.votes[a] = x})]
  IN IF rd.totalVotingPower # 0 THEN rd
     ELSE [rd EXCEPT !.validators = m, !.totalVotingPower = PowerOfAll(m, DOMAIN m),
                     !.power = power,
                     !.totalVotedPower = MapThenSumSet(LAMBDA x : power[x], DOMAIN power)]

(* SetValidators on the rounds of an archived height without a roster.     *)
FillRosters(b, m) ==
  LET empty == {r \in DOMAIN b.rounds : DOMAIN b.rounds[r].roster = {}} IN
  [b EXCEPT !.rounds = [r \in DOMAIN @ |-> IF r \in empty THEN [@[r] EXCEPT !.roster = m] ELSE @[r]],
            !.revision = IF DOMAIN m = {} THEN @ ELSE @ + Cardinality(empty)]

(* ResolveCommit on the round of key k.                                    *)
Resolve(rd, k, h, hash) ==
  IF rd.resolved \/ k.height > h THEN rd
  ELSE [rd EXCEPT !.resolved = TRUE, !.canonicalHash = IF k.height = h THEN hash ELSE @]

ReportBefore(a, b) ==
  \/ a.round < b.round
  \/ a.round = b.round /\ a.type = "prevote" /\ b.type = "precommit"

InOrder(S) ==
  CHOOSE q \in SetToSeqs(S) : \A i, j \in DOMAIN q : i < j => ReportBefore(q[i], q[j])

Report(rd, k) == [key |-> k, divergent |-> IsDivergent(rd)]

Latest(seq, n) == IF Len(seq) > n THEN SubSeq(seq, Len(seq) - n + 1, Len(seq)) ELSE seq

ResolveCommitLocked(s, h, hash) ==
  LET s1 == ArchiveCommit(s, h, hash)
      fresh == {k \in DOMAIN s1.rounds : k.height = h /\ ~s1.rounds[k].resolved}
      inOrder == InOrder(fresh)
      reports == [i \in DOMAIN inOrder |-> Report(s1.rounds[inOrder[i]], inOrder[i])]
      kept == {k \in DOMAIN s1.rounds : k.height >= h - HistorySize}
  IN [s1 EXCEPT !.committedHeight = Larger(h, @),
                !.catalogueRevision = IF h > s1.committedHeight THEN @ + 1 ELSE @,
                !.rounds = [k \in kept |-> Resolve(@[k], k, h, hash)],
                !.history = Latest(@ \o reports, 4 * HistorySize)]

-----------------------------------------------------------------------------
(* What the tracker shows: the investigation of one height and its version. *)

Header(s, h) ==
  LET b == s.archive[h]
      found == h \in DOMAIN s.archive
      evicted == h > 0 /\ h <= s.archiveEvictedThrough
  IN [retained |-> DOMAIN s.archive,
      status |-> IF ~found THEN IF evicted THEN "evicted" ELSE "not_observed"
                 ELSE IF b.committed THEN "committed"
                 ELSE IF h < s.archiveLatestHeight \/ h <= s.committedHeight THEN "passed"
                 ELSE "live",
      canonicalHash |-> IF found THEN b.canonicalHash ELSE Nil,
      observed |-> IF found /\ b.roundsObserved > 0 THEN <<b.firstRound, b.lastRound>> ELSE <<>>,
      roundsObserved |-> IF found THEN b.roundsObserved ELSE 0,
      roundsEvicted |-> IF found THEN b.roundsEvicted ELSE 0,
      missingRounds |-> IF found /\ b.roundsObserved > 0
                        THEN b.lastRound - b.roundsObserved + 1 ELSE 0,
      truncated |-> IF found THEN b.roundsEvicted > 0 ELSE evicted]

(* snapshotPhase: the validators of a round grouped by the hash observed.  *)
Phase(rd, type, canonical, committed) ==
  LET shown == DOMAIN rd.roster \cup Voters(rd)
      seen == {a \in shown : <<a, type>> \in DOMAIN rd.votes}
      HashesOf(a) == Range(rd.votes[<<a, type>>].hashes)
      Signers(x) == {a \in seen : x \in HashesOf(a)}
  IN [groups |-> [x \in UNION {HashesOf(a) : a \in seen} |->
                    [validators |-> Signers(x), power |-> PowerOfAll(rd.roster, Signers(x)),
                     isCanonical |-> committed /\ x # Nil /\ x = canonical]],
      observedPower |-> PowerOfAll(rd.roster, seen),
      notObservedPower |-> PowerOfAll(rd.roster, shown \ seen),
      conflicting |-> {a \in seen : rd.votes[<<a, type>>].conflicting}]

SnapshotRound(rd, canonical, committed) ==
  [proposer |-> rd.proposer,
   rosterComplete |-> DOMAIN rd.roster # {} /\ Voters(rd) \subseteq DOMAIN rd.roster,
   totalVotingPower |-> PowerOfAll(rd.roster, DOMAIN rd.roster),
   phases |-> [type \in VoteTypes |-> Phase(rd, type, canonical, committed)],
   truncated |-> rd.truncated]

(* CaptureInvestigation followed by Build.                                 *)
Investigation(s, h) ==
  LET b == s.archive[h]
      rounds == IF h \in DOMAIN s.archive
                THEN [r \in DOMAIN b.rounds |->
                        SnapshotRound(b.rounds[r], b.canonicalHash, b.committed)]
                ELSE NoEntries
  IN [header |-> [Header(s, h) EXCEPT !.truncated = @ \/ \E r \in DOMAIN rounds : rounds[r].truncated],
      rounds |-> rounds,
      rosterComplete |-> rounds # NoEntries /\ \A r \in DOMAIN rounds : rounds[r].rosterComplete]

(* The two numbers that clients and caches compare to see what changed.    *)
InvestigationVersion(s, h) ==
  [evidence |-> IF h \in DOMAIN s.archive THEN s.archive[h].revision ELSE 0,
   catalogue |-> s.catalogueRevision]

-----------------------------------------------------------------------------
(* Operations *)

Init ==
  /\ t = [rounds |-> NoEntries, history |-> <<>>,
          defaultValidators |-> NoEntries, defaultTotalPower |-> 0, committedHeight |-> 0,
          archive |-> NoEntries, archiveEvictedThrough |-> 0, archiveLatestHeight |-> 0,
          catalogueRevision |-> 0]
  /\ alerts = [k \in Keys |-> 0]
  /\ everSeen = [h \in Heights |-> {}]

(* Bookkeeping of the history variable: the round that admission archived. *)
Remember(h, r) ==
  LET admitted == /\ h \in DOMAIN t'.archive
                  /\ t'.archive[h].roundsObserved
                       # (IF h \in DOMAIN t.archive THEN t.archive[h].roundsObserved ELSE 0)
  IN everSeen' = IF admitted THEN [everSeen EXCEPT ![h] = @ \cup {r}] ELSE everSeen

SetValidators(m) ==
  /\ t' = [t EXCEPT !.defaultValidators = m,
                    !.defaultTotalPower = PowerOfAll(m, DOMAIN m),
                    !.rounds = [k \in DOMAIN @ |-> Reweigh(@[k], m)],
                    !.archive = [h \in DOMAIN @ |-> FillRosters(@[h], m)]]
  /\ UNCHANGED <<alerts, everSeen>>

ObserveRound(h, r, proposer) ==
  /\ t' = ObserveRoundLocked(t, h, r, proposer)
  /\ Remember(h, r)
  /\ UNCHANGED alerts

ObserveVote(v) ==
  /\ t' = ObserveVoteLocked(t, v)
  /\ Remember(v.height, v.round)
  /\ UNCHANGED alerts

IngestVote(v) ==
  LET result == IngestVoteLocked(t, v) IN
  /\ t' = result.tracker
  /\ alerts' = IF result.trigger THEN [alerts EXCEPT ![KeyOf(v)] = @ + 1] ELSE alerts
  /\ Remember(v.height, v.round)

MarkRoundAdvanced(h, r) ==
  /\ t' = [t EXCEPT !.rounds = [k \in DOMAIN @ |->
               IF k.height = h /\ k.round = r THEN [@[k] EXCEPT !.advanced = TRUE] ELSE @[k]]]
  /\ UNCHANGED <<alerts, everSeen>>

ResolveCommit(h, hash) ==
  /\ t' = ResolveCommitLocked(t, h, hash)
  /\ UNCHANGED <<alerts, everSeen>>

Next ==
  \/ \E m \in Rosters : SetValidators(m)
  \/ \E h \in Heights, r \in Rounds, p \in Proposers : ObserveRound(h, r, p)
  \/ \E v \in Votes : ObserveVote(v)
  \/ \E v \in Votes : IngestVote(v)
  \/ \E h \in Heights, r \in Rounds : MarkRoundAdvanced(h, r)
  \/ \E h \in Heights, hash \in BlockHashes : ResolveCommit(h, hash)

Spec == Init /\ [][Next]_vars

-----------------------------------------------------------------------------
(* Properties *)

ArchivedVoteOK(vote) ==
  /\ vote.hashes \in Seq(BlockHashes) /\ vote.conflicting \in BOOLEAN /\ vote.truncated \in BOOLEAN

ArchivedRoundOK(rd) ==
  /\ rd.proposer \in Proposers /\ rd.truncated \in BOOLEAN
  /\ DOMAIN rd.roster \subseteq Addresses
  /\ DOMAIN rd.votes \subseteq Addresses \X VoteTypes
  /\ \A i \in DOMAIN rd.votes : ArchivedVoteOK(rd.votes[i])

ArchivedHeightOK(b) ==
  /\ b.revision \in Nat /\ b.committed \in BOOLEAN /\ b.canonicalHash \in BlockHashes
  /\ b.firstRound \in Nat /\ b.lastRound \in Nat
  /\ b.roundsObserved \in Nat /\ b.roundsEvicted \in Nat /\ b.evictedThrough \in Nat \cup {-1}
  /\ DOMAIN b.rounds \subseteq Rounds \cap Nat
  /\ \A r \in DOMAIN b.rounds : ArchivedRoundOK(b.rounds[r])

RoundDataOK(rd) ==
  /\ DOMAIN rd.votes \subseteq Addresses
  /\ \A a \in DOMAIN rd.votes : rd.votes[a] \in DOMAIN rd.power
  /\ DOMAIN rd.power \subseteq BlockHashes /\ \A x \in DOMAIN rd.power : rd.power[x] \in Nat
  /\ rd.totalVotingPower \in Nat /\ rd.totalVotedPower \in Nat
  /\ rd.canonicalHash \in BlockHashes
  /\ rd.resolved \in BOOLEAN /\ rd.advanced \in BOOLEAN /\ rd.detected \in BOOLEAN

(* The shape of the Tracker struct.                                        *)
TypeOK ==
  /\ DOMAIN t.rounds \subseteq Keys /\ \A k \in DOMAIN t.rounds : RoundDataOK(t.rounds[k])
  /\ DOMAIN t.archive \subseteq Heights /\ \A h \in DOMAIN t.archive : ArchivedHeightOK(t.archive[h])
  /\ t.committedHeight \in Nat /\ t.archiveEvictedThrough \in Nat
  /\ t.archiveLatestHeight \in Nat /\ t.catalogueRevision \in Nat
  /\ \A i \in DOMAIN t.history : t.history[i].key \in Keys
  /\ alerts \in [Keys -> Nat] /\ everSeen \in [Heights -> SUBSET Rounds]

(* "Archive admission also bounds the live detector" (tracker.go:145): the *)
(* detector never holds a round whose evidence the archive has given up,   *)
(* whatever eviction by height, eviction by round and late votes do.       *)
DetectorInsideArchive ==
  \A k \in DOMAIN t.rounds :
     k.height \in DOMAIN t.archive /\ k.round \in DOMAIN t.archive[k.height].rounds

(* A round in the live view is above every committed height: neither a     *)
(* straggling vote nor a commit resolved out of order leaves an entry      *)
(* "that nothing will close" (tracker.go:152-154).                         *)
LiveAboveCommitted ==
  \A k \in DOMAIN t.rounds : ~t.rounds[k].resolved => k.height > t.committedHeight

(* Nothing at or below an eviction mark is retained, so a height or round  *)
(* reported as evicted never comes back, and the limits on heights, rounds *)
(* and filed reports hold.                                                 *)
RetentionBounded ==
  /\ \A h \in DOMAIN t.archive : h > t.archiveEvictedThrough /\ h <= t.archiveLatestHeight
  /\ Cardinality(DOMAIN t.archive) <= HistorySize
  /\ Len(t.history) <= 4 * HistorySize
  /\ \A h \in DOMAIN t.archive :
       LET b == t.archive[h] IN
       /\ \A r \in DOMAIN b.rounds : r > b.evictedThrough /\ r <= b.lastRound
       /\ Cardinality(DOMAIN b.rounds) <= RoundLimit

(* The evidence kept for one round is bounded however many validators are  *)
(* unknown or vote twice, and a vote that dropped a hash flags its round.  *)
EvidenceBounded ==
  \A h \in DOMAIN t.archive : \A r \in DOMAIN t.archive[h].rounds :
     LET rd == t.archive[h].rounds[r] IN
     /\ Cardinality(Voters(rd) \ DOMAIN rd.roster) <= UnknownLimit
     /\ \A i \in DOMAIN rd.votes :
          /\ Len(rd.votes[i].hashes) \in 1..HashLimit
          /\ Cardinality(Range(rd.votes[i].hashes)) = Len(rd.votes[i].hashes)
          /\ rd.votes[i].truncated => rd.truncated

(* The round has the hash of v, or says that it dropped one.               *)
Holds(rd, v) ==
  /\ <<v.addr, v.type>> \in DOMAIN rd.votes
  /\ \/ v.hash \in Range(rd.votes[<<v.addr, v.type>>].hashes)
     \/ rd.votes[<<v.addr, v.type>>].truncated

(* The round has as many voters as it may, and says that more voted.       *)
Crowded(rd) == rd.truncated /\ Cardinality(Voters(rd)) >= UnknownLimit

(* No vote for a retained round goes unaccounted: it is filed, or its      *)
(* validator's entry says that a hash is missing, or the round says so and *)
(* its voter is one unknown validator too many (archive.go:183-207).       *)
NothingDroppedSilently ==
  \A h \in DOMAIN t.archive : \A r \in DOMAIN t.archive[h].rounds :
    \A a \in Addresses, type \in VoteTypes, x \in BlockHashes :
      LET v == [height |-> h, round |-> r, type |-> type, addr |-> a, hash |-> x]
          rd == ObserveVoteLocked(t, v).archive[h].rounds[r]
      IN WellFormed(v) =>
           \/ Holds(rd, v)
           \/ Crowded(rd) /\ a \notin Voters(rd) \cup DOMAIN rd.roster

(* The coverage that the report shows is exact: missingRounds counts the   *)
(* rounds up to the last observed one that were never archived, evicted    *)
(* rounds not being missing (archive.go:358-363).                          *)
CoverageExact ==
  \A h \in DOMAIN t.archive :
     /\ t.archive[h].roundsObserved = Cardinality(everSeen[h])
     /\ t.archive[h].roundsEvicted = Cardinality(everSeen[h] \ DOMAIN t.archive[h].rounds)
     /\ everSeen[h] # {} =>
          Header(t, h).missingRounds = Cardinality((0..Max(everSeen[h])) \ everSeen[h])

(* The running totals of the detector equal a recount from its roster,     *)
(* across votes that arrived before any roster and the reweighing that     *)
(* follows (tracker.go:101-120, 182-193).                                  *)
PowerAccounting ==
  \A k \in DOMAIN t.rounds :
     LET rd == t.rounds[k] IN
     /\ \A x \in DOMAIN rd.power :
          rd.power[x] = PowerOfAll(rd.validators, {a \in DOMAIN rd.votes : rd.votes[a] = x})
     /\ rd.totalVotedPower = PowerOfAll(rd.validators, DOMAIN rd.votes)
     /\ rd.totalVotedPower <= rd.totalVotingPower

(* "One incident-created event per height/round/type" (tracker.go:47),     *)
(* also when the round is pruned and its votes are delivered again.        *)
OneAlertPerRound == \A k \in Keys : alerts[k] <= 1

(* The canonical hash by which the detector marks groups is the one the    *)
(* archive shows for that height, for any order of commit notices.         *)
CanonicalAgreement ==
  \A k \in DOMAIN t.rounds :
     t.rounds[k].canonicalHash \notin Oversized \cup {Nil} =>
       /\ t.archive[k.height].committed
       /\ t.archive[k.height].canonicalHash = t.rounds[k].canonicalHash

(* Resolved reports are filed in order of height, round and phase, each    *)
(* round at most once.                                                     *)
HistoryOrdered ==
  \A i, j \in DOMAIN t.history : i < j =>
     LET a == t.history[i].key  b == t.history[j].key IN
     a.height < b.height \/ (a.height = b.height /\ ReportBefore(a, b))

(* The figures of a report add up: seen and unseen power make the total,   *)
(* a validator in two groups is listed as conflicting, no group outweighs  *)
(* the power seen.                                                         *)
ReportConsistent ==
  \A h \in DOMAIN t.archive : \A r \in DOMAIN t.archive[h].rounds :
     LET round == Investigation(t, h).rounds[r] IN
     \A type \in VoteTypes :
        LET p == round.phases[type]
            groupsOf(a) == {x \in DOMAIN p.groups : a \in p.groups[x].validators}
        IN /\ p.observedPower + p.notObservedPower = round.totalVotingPower
           /\ p.conflicting = {a \in Addresses : Cardinality(groupsOf(a)) > 1}
           /\ \A x \in DOMAIN p.groups : p.groups[x].power <= p.observedPower

(* "Per-height evidence revision changes for every observable archive      *)
(* mutation ... duplicate observations that do not change output do not    *)
(* change revision" (docs/CAPACITY_CONTRACTS.md).                          *)
EvidenceRevision ==
  \A h \in DOMAIN t.archive \cap DOMAIN t'.archive :
     LET old == t.archive[h]  new == t'.archive[h] IN
     \/ new = old
     \/ new.revision > old.revision /\ new # [old EXCEPT !.revision = new.revision]

(* Two reads with the same version got the same report, which is what the  *)
(* rounds cache and the ETag of /api/blocks/{height}/rounds rely on.       *)
VersionIdentifiesReport ==
  t' # t => \A h \in Heights :
     InvestigationVersion(t', h) = InvestigationVersion(t, h)
       => Investigation(t', h) = Investigation(t, h)

(* The detector and the archive never disagree.                            *)
DetectorSound ==
  TypeOK /\ DetectorInsideArchive /\ LiveAboveCommitted /\ CanonicalAgreement
         /\ HistoryOrdered /\ PowerAccounting

(* Every limit holds, and what a limit costs is flagged when it does.      *)
WithinLimits == RetentionBounded /\ EvidenceBounded /\ NothingDroppedSilently

(* What a report says of its own completeness and of the power is exact.   *)
ReportExact == CoverageExact /\ ReportConsistent

(* What readers of the archive rely on (module Archive).                   *)
ReaderView == INSTANCE Archive WITH
  archive <- [h \in DOMAIN t.archive |->
                [evidence |-> t.archive[h].revision,
                 seal |-> IF ~t.archive[h].committed THEN 0
                          ELSE IF t.archive[h].canonicalHash = Nil THEN 1 ELSE 2,
                 lost |-> t.archive[h].roundsEvicted]],
  archiveLatest <- t.archiveLatestHeight,
  evictedThrough <- t.archiveEvictedThrough,
  committedHeight <- t.committedHeight,
  catalogue <- t.catalogueRevision,
  Jumps <- 1..(RoundLimit + 1),
  Seals <- 0..2

(* Commit evidence is final while it is retained: a commit is not undone   *)
(* and a canonical hash, once known, is not replaced.                      *)
CommitEvidenceStable ==
  \A h \in DOMAIN t.archive \cap DOMAIN t'.archive :
     LET old == t.archive[h]  new == t'.archive[h] IN
     /\ old.committed => new.committed
     /\ old.canonicalHash # Nil => new.canonicalHash = old.canonicalHash

(* No vote, hash or flag of round rd is missing in n, and a roster that    *)
(* rd had is not replaced.                                                 *)
RoundKept(rd, n) ==
  /\ \A i \in DOMAIN rd.votes :
       /\ i \in DOMAIN n.votes
       /\ Range(rd.votes[i].hashes) \subseteq Range(n.votes[i].hashes)
       /\ rd.votes[i].conflicting => n.votes[i].conflicting
       /\ rd.votes[i].truncated => n.votes[i].truncated
  /\ rd.truncated => n.truncated
  /\ DOMAIN rd.roster # {} => n.roster = rd.roster

(* Retained evidence only grows, and goes by eviction alone: no late vote, *)
(* validator set or commit rewrites a round or moves an eviction mark back *)
(* (tracker.go:121-132, archive.go:153-213, 289-306).                      *)
EvidenceKept ==
  /\ t'.archiveEvictedThrough >= t.archiveEvictedThrough
  /\ t'.committedHeight >= t.committedHeight
  /\ \A h \in DOMAIN t.archive \ DOMAIN t'.archive : h <= t'.archiveEvictedThrough
  /\ \A h \in DOMAIN t.archive \cap DOMAIN t'.archive :
       LET old == t.archive[h]  new == t'.archive[h] IN
       /\ new.evictedThrough >= old.evictedThrough
       /\ \A r \in DOMAIN old.rounds \ DOMAIN new.rounds : r <= new.evictedThrough
       /\ \A r \in DOMAIN old.rounds \cap DOMAIN new.rounds :
            RoundKept(old.rounds[r], new.rounds[r])

(* No call makes evidence, its revision and the version of the report      *)
(* disagree, and no call takes back a commit, a hash or a flag.            *)
ArchiveHistory ==
  [][EvidenceRevision /\ VersionIdentifiesReport /\ CommitEvidenceStable /\ EvidenceKept]_vars

(* Every call of the tracker is, for a reader of the archive, a step of    *)
(* Archive: an evicted height never comes back, rounds are only lost       *)
(* before the commit, a commit and its hash are never taken back, and      *)
(* whatever the status or the retained heights show has its own revision.  *)
ImplementsArchive == ReaderView!ArchiveSpec
=============================================================================
