---------------------------- MODULE TrackerProofs ----------------------------
(***************************************************************************)
(* The divergence tracker, for all sets of heights, rounds, validators and *)
(* hashes and all limits: the archive stays within its limits, what its    *)
(* readers compare identifies what they see, commit evidence is final, the *)
(* live detector holds no more than the archive, each round alerts once,   *)
(* and the tracker implements Archive, the archive as its readers know it. *)
(***************************************************************************)
EXTENDS Tracker, FiniteSetTheorems, SequenceTheorems, TLAPS

-----------------------------------------------------------------------------
(* Numbers and finite sets *)

(* A set of naturals has a least element: otherwise z |-> z + 1 would      *)
(* inject its lower bounds, a finite set, into those without 0.            *)
LEMMA LeastNatural ==
  ASSUME NEW S \in SUBSET Nat, S # {}
  PROVE  \E x \in S : \A y \in S : x <= y
  <1> SUFFICES ASSUME \A x \in S : \E y \in S : y < x
               PROVE  FALSE
    OBVIOUS
  <1>1. PICK top \in S : TRUE
    OBVIOUS
  <1> DEFINE D == {z \in 0..top : \A y \in S : z <= y}
             E == D \ {0}
             up == [z \in D |-> z + 1]
  <1>2. 0 \in D /\ IsFiniteSet(D)
    <2>1. IsFiniteSet(0..top)
      BY <1>1, FS_Interval
    <2> QED BY <2>1, <1>1, FS_Subset
  <1>3. IsFiniteSet(E) /\ Cardinality(E) = Cardinality(D) - 1 /\ Cardinality(D) \in Nat
    BY <1>2, FS_RemoveElement, FS_CardinalityType
  <1>4. \A z \in D : z + 1 \in E
    <2> SUFFICES ASSUME NEW z \in D PROVE z + 1 \in E
      OBVIOUS
    <2>1. z \in Nat /\ \A y \in S : z <= y
      BY <1>1
    <2>2. \A y \in S : z + 1 <= y
      <3> SUFFICES ASSUME NEW y \in S PROVE z + 1 <= y
        OBVIOUS
      <3>1. PICK w \in S : w < y
        OBVIOUS
      <3> QED BY <2>1, <3>1
    <2> QED BY <2>1, <2>2, <1>1
  <1>5. up \in [D -> E]
    BY <1>4
  <1>6. \A x, y \in D : up[x] = up[y] => x = y
    BY <1>1
  <1>7. Cardinality(E) < Cardinality(D)
    BY <1>3
  <1> HIDE DEF D, E, up
  <1>8. \E x, y \in D : x # y /\ up[x] = up[y]
    BY <1>2, <1>3, <1>5, <1>7, FS_PigeonHole
  <1> QED BY <1>6, <1>8

(* Min returns it.                                                         *)
LEMMA MinIsLeast ==
  ASSUME NEW S \in SUBSET Nat, S # {}
  PROVE  Min(S) \in S /\ \A y \in S : Min(S) <= y
  BY LeastNatural DEF Min

(* Larger returns one of its arguments, and nothing less than either.      *)
LEMMA LargerIs ==
  ASSUME NEW a \in Int, NEW b \in Int
  PROVE  Larger(a, b) \in {a, b} /\ a <= Larger(a, b) /\ b <= Larger(a, b)
  BY DEF Larger

(* Adding an element to n of them makes n + 1.                             *)
LEMMA OneMore ==
  ASSUME NEW A, NEW B, NEW x, IsFiniteSet(A), B = A \cup {x}, x \notin A,
         NEW n \in Nat, Cardinality(A) = n
  PROVE  IsFiniteSet(B) /\ Cardinality(B) = n + 1
  BY FS_AddElement

(* Put adds one entry.                                                     *)
LEMMA PutIs ==
  ASSUME NEW f, NEW k, NEW v
  PROVE  /\ DOMAIN Put(f, k, v) = DOMAIN f \cup {k} /\ Put(f, k, v)[k] = v
         /\ \A x \in DOMAIN f : x # k => Put(f, k, v)[x] = f[x]
  BY DEF Put

(* f is nothing but its domain and its values.                             *)
IsFcn(f) == f = [x \in DOMAIN f |-> f[x]]

-----------------------------------------------------------------------------
(* The evidence of one round *)

VoteFields == {"hashes", "conflicting", "truncated"}
RoundFields == {"proposer", "roster", "votes", "truncated"}

(* A second hash makes a conflict, the flag of a full vote does not.       *)
ConflictKnown(vote) == HashLimit > 1 => (vote.conflicting = TRUE <=> Len(vote.hashes) > 1)

VoteOK(vote) ==
  /\ IsFcn(vote) /\ DOMAIN vote = VoteFields /\ ArchivedVoteOK(vote)
  /\ Len(vote.hashes) \in 1..HashLimit
  /\ IsFiniteSet(Range(vote.hashes)) /\ Cardinality(Range(vote.hashes)) = Len(vote.hashes)
  /\ ConflictKnown(vote)

RosterOK(m) == DOMAIN m \subseteq Addresses /\ IsFiniteSet(DOMAIN m) /\ m \in [DOMAIN m -> Nat]

RoundOK(rd) ==
  /\ IsFcn(rd) /\ IsFcn(rd.votes) /\ DOMAIN rd = RoundFields
  /\ rd.proposer \in Proposers /\ rd.truncated \in BOOLEAN /\ RosterOK(rd.roster)
  /\ DOMAIN rd.votes \subseteq Addresses \X VoteTypes /\ IsFiniteSet(Voters(rd))
  /\ Cardinality(Voters(rd) \ DOMAIN rd.roster) <= UnknownLimit
  /\ \A i \in DOMAIN rd.votes : VoteOK(rd.votes[i]) /\ (rd.votes[i].truncated => rd.truncated)

(* A new round holds no evidence.                                          *)
LEMMA NewRoundOK ==
  ASSUME NEW roster, RosterOK(roster)
  PROVE  RoundOK(NewArchivedRound(roster))
  <1> DEFINE rd == NewArchivedRound(roster)
  <1>1. /\ DOMAIN rd = RoundFields /\ rd.proposer = NoProposer /\ rd.roster = roster
        /\ rd.truncated = FALSE /\ DOMAIN rd.votes = {} /\ IsFcn(rd) /\ IsFcn(rd.votes)
    BY DEF NewArchivedRound, RoundFields, NoEntries, IsFcn
  <1> HIDE DEF rd
  <1>2. Voters(rd) = {} /\ Voters(rd) \ DOMAIN rd.roster = {}
    BY <1>1 DEF Voters
  <1>3. IsFiniteSet(Voters(rd)) /\ Cardinality(Voters(rd) \ DOMAIN rd.roster) = 0
    BY <1>2, FS_EmptySet
  <1>4. Cardinality(Voters(rd) \ DOMAIN rd.roster) <= UnknownLimit
    BY <1>3, LimitAssumption
  <1>5. rd.proposer \in Proposers /\ rd.truncated \in BOOLEAN /\ RosterOK(rd.roster)
        /\ DOMAIN rd = RoundFields /\ IsFiniteSet(Voters(rd))
    BY <1>1, <1>3, DomainAssumption
  <1>6. DOMAIN rd.votes \subseteq Addresses \X VoteTypes /\ \A i \in DOMAIN rd.votes : FALSE
    BY <1>1
  <1>7. RoundOK(rd)
    BY <1>1, <1>4, <1>5, <1>6, Zenon DEF RoundOK
  <1> QED BY <1>7 DEF rd

(* A validator's first or further hash is kept apart from the others.      *)
LEMMA AppendHashOK ==
  ASSUME NEW vote, VoteOK(vote) \/ vote = NoVote, NEW hash \in BlockHashes,
         hash \notin Range(vote.hashes), Len(vote.hashes) < HashLimit
  PROVE  VoteOK(AppendHash(vote, hash)) /\ AppendHash(vote, hash).truncated = vote.truncated
  <1> DEFINE old == vote.hashes  new == Append(old, hash)  next == AppendHash(vote, hash)
  <1>1. /\ DOMAIN vote = VoteFields /\ ArchivedVoteOK(vote) /\ old \in Seq(BlockHashes)
        /\ IsFiniteSet(Range(old)) /\ Cardinality(Range(old)) = Len(old)
    <2>1. CASE VoteOK(vote)
      BY <2>1 DEF VoteOK, ArchivedVoteOK
    <2>2. CASE vote = NoVote
      <3>1. DOMAIN vote = VoteFields /\ ArchivedVoteOK(vote) /\ old = <<>> /\ old \in Seq(BlockHashes)
        BY <2>2 DEF NoVote, VoteFields, ArchivedVoteOK
      <3>2. Range(old) = {} /\ Len(old) = 0
        BY <3>1 DEF Range
      <3> QED BY <3>1, <3>2, FS_EmptySet
    <2> QED BY <2>1, <2>2
  <1>2. /\ new \in Seq(BlockHashes) /\ Len(new) = Len(old) + 1 /\ Len(old) \in Nat
        /\ DOMAIN new = 1..Len(new) /\ DOMAIN old = 1..Len(old)
        /\ new[Len(new)] = hash /\ \A i \in 1..Len(old) : new[i] = old[i]
    BY <1>1, AppendProperties, LenProperties
  <1>3. /\ next.hashes = new /\ next.truncated = vote.truncated /\ next.conflicting \in BOOLEAN
        /\ DOMAIN next = VoteFields /\ IsFcn(next)
    <2>1. next = [vote EXCEPT !.hashes = new, !.conflicting = Len(old) + 1 > 1]
      BY DEF AppendHash
    <2> HIDE DEF next, new
    <2>2. DOMAIN next = VoteFields /\ next.hashes = new /\ next.truncated = vote.truncated
          /\ next.conflicting \in BOOLEAN
      BY <1>1, <2>1 DEF VoteFields
    <2>3. IsFcn(next)
      BY <2>1 DEF IsFcn
    <2> QED BY <2>2, <2>3
  <1> HIDE DEF new, next
  <1>4. Range(new) = Range(old) \cup {hash}
    BY <1>2 DEF Range
  <1>5. IsFiniteSet(Range(new)) /\ Cardinality(Range(new)) = Len(new)
    <2>1. hash \notin Range(old)
      OBVIOUS
    <2>2. IsFiniteSet(Range(new)) /\ Cardinality(Range(new)) = Len(old) + 1
      BY <1>1, <1>2, <1>4, <2>1, OneMore
    <2> QED BY <1>2, <2>2
  <1>6. Len(new) \in 1..HashLimit
    BY <1>2, LimitAssumption
  <1>7. next.conflicting = (Len(new) > 1)
    BY <1>1, <1>2 DEF AppendHash, next, VoteFields
  <1>8. ConflictKnown(next)
    BY <1>3, <1>7 DEF ConflictKnown
  <1> QED BY <1>1, <1>2, <1>3, <1>5, <1>6, <1>8 DEF VoteOK, ArchivedVoteOK, next

-----------------------------------------------------------------------------
(* The evidence of one height *)

BlockFields == {"revision", "rounds", "committed", "canonicalHash", "firstRound", "lastRound",
                "roundsObserved", "roundsEvicted", "evictedThrough"}

BlockShape(b) ==
  /\ IsFcn(b) /\ IsFcn(b.rounds) /\ DOMAIN b = BlockFields
  /\ b.revision \in Nat \ {0} /\ b.committed \in BOOLEAN /\ b.canonicalHash \in BlockHashes
  /\ b.canonicalHash # Nil => b.committed
  /\ b.firstRound \in Nat /\ b.lastRound \in Nat
  /\ b.roundsObserved \in Nat /\ b.roundsEvicted \in Nat /\ b.evictedThrough \in Nat \cup {-1}

RoundsBounded(b) ==
  /\ DOMAIN b.rounds \subseteq Rounds \cap Nat /\ IsFiniteSet(DOMAIN b.rounds)
  /\ Cardinality(DOMAIN b.rounds) <= RoundLimit
  /\ \A r \in DOMAIN b.rounds : r > b.evictedThrough /\ r <= b.lastRound
  /\ b.roundsObserved = 0 => DOMAIN b.rounds = {}

RoundsOK(b) == \A r \in DOMAIN b.rounds : RoundOK(b.rounds[r])

BlockOK(b) == BlockShape(b) /\ RoundsBounded(b) /\ RoundsOK(b)

(* What no call takes back: c is b after one or more calls.                *)
Extends(b, c) ==
  /\ b.committed => c.committed
  /\ b.canonicalHash # Nil => c.canonicalHash = b.canonicalHash
  /\ c.evictedThrough >= b.evictedThrough
  /\ \A r \in DOMAIN b.rounds : r \in DOMAIN c.rounds \/ r <= c.evictedThrough

(* The revision moves if and only if something else does.                  *)
Revised(b, c) == c = b \/ (c.revision > b.revision /\ c # [b EXCEPT !.revision = c.revision])

(* A call that archives no round and evicts none.                          *)
Touched(b, c) ==
  /\ Extends(b, c) /\ Revised(b, c) /\ DOMAIN c.rounds = DOMAIN b.rounds
  /\ c.roundsObserved = b.roundsObserved /\ c.roundsEvicted = b.roundsEvicted
  /\ c.evictedThrough = b.evictedThrough /\ c.lastRound = b.lastRound

(* A call that leaves the block alone is one of them.                      *)
LEMMA TouchesItself ==
  ASSUME NEW b, BlockOK(b)
  PROVE  Touched(b, b) /\ Extends(b, b)
  BY DEF BlockOK, BlockShape, Extends, Revised, Touched

(* Calls add up.                                                           *)
LEMMA ExtendsOnce ==
  ASSUME NEW b, NEW c, NEW d, BlockOK(b), BlockOK(c), BlockOK(d), Extends(b, c), Extends(c, d)
  PROVE  Extends(b, d)
  <1>1. \A r \in DOMAIN b.rounds : r \in Int
    BY DEF BlockOK, RoundsBounded
  <1>2. b.evictedThrough \in Int /\ c.evictedThrough \in Int /\ d.evictedThrough \in Int
    BY DEF BlockOK, BlockShape
  <1> QED BY <1>1, <1>2 DEF Extends

(* A new height holds no round.                                            *)
LEMMA NewHeightOK == BlockOK(NewArchivedHeight)
  <1> DEFINE b == NewArchivedHeight
  <1>1. /\ DOMAIN b = BlockFields /\ b.revision = 1 /\ b.committed = FALSE /\ b.canonicalHash = Nil
        /\ b.firstRound = 0 /\ b.lastRound = 0 /\ b.roundsObserved = 0 /\ b.roundsEvicted = 0
        /\ b.evictedThrough = -1 /\ b.rounds = NoEntries /\ IsFcn(b)
    BY DEF NewArchivedHeight, BlockFields, IsFcn
  <1>2. DOMAIN b.rounds = {} /\ IsFcn(b.rounds)
    BY DEF NewArchivedHeight, NoEntries, IsFcn
  <1> HIDE DEF b
  <1>3. IsFiniteSet(DOMAIN b.rounds) /\ Cardinality(DOMAIN b.rounds) <= RoundLimit
    BY <1>2, FS_EmptySet, LimitAssumption
  <1>4. BlockShape(b)
    <2>1. b.committed \in BOOLEAN /\ b.canonicalHash \in BlockHashes
      BY <1>1 DEF BlockHashes
    <2>2. /\ b.revision \in Nat \ {0} /\ b.firstRound \in Nat /\ b.lastRound \in Nat
          /\ b.roundsObserved \in Nat /\ b.roundsEvicted \in Nat /\ b.evictedThrough \in Nat \cup {-1}
      BY <1>1
    <2> QED BY <1>1, <1>2, <2>1, <2>2 DEF BlockShape
  <1>5. RoundsBounded(b)
    BY <1>2, <1>3 DEF RoundsBounded
  <1>6. RoundsOK(b)
    BY <1>2 DEF RoundsOK
  <1>7. BlockOK(b)
    BY <1>4, <1>5, <1>6 DEF BlockOK
  <1> QED BY <1>7 DEF b

(* archiveRoundLocked's new round, before the limit is looked at.          *)
LEMMA AddArchiveRoundIs ==
  ASSUME NEW b, BlockOK(b), NEW roster, RosterOK(roster),
         NEW r \in Rounds \cap Nat, r \notin DOMAIN b.rounds, r > b.evictedThrough,
         NEW c, c = AddArchiveRound(b, r, roster)
  PROVE  /\ BlockShape(c) /\ RoundsOK(c)
         /\ DOMAIN c.rounds = DOMAIN b.rounds \cup {r}
         /\ IsFiniteSet(DOMAIN c.rounds) /\ Cardinality(DOMAIN c.rounds) = Cardinality(DOMAIN b.rounds) + 1
         /\ \A x \in DOMAIN b.rounds : c.rounds[x] = b.rounds[x]
         /\ c.roundsObserved = b.roundsObserved + 1 /\ c.revision = b.revision + 1
         /\ c.committed = b.committed /\ c.canonicalHash = b.canonicalHash
         /\ c.evictedThrough = b.evictedThrough /\ c.roundsEvicted = b.roundsEvicted
         /\ \A x \in DOMAIN c.rounds : x <= c.lastRound
         /\ c.lastRound = IF b.roundsObserved = 0 \/ r > b.lastRound THEN r ELSE b.lastRound
  <1>1. /\ DOMAIN c = BlockFields /\ c.rounds = Put(b.rounds, r, NewArchivedRound(roster))
        /\ c.revision = b.revision + 1 /\ c.roundsObserved = b.roundsObserved + 1
        /\ c.committed = b.committed /\ c.canonicalHash = b.canonicalHash
        /\ c.evictedThrough = b.evictedThrough /\ c.roundsEvicted = b.roundsEvicted
        /\ c.firstRound = IF b.roundsObserved = 0 \/ r < b.firstRound THEN r ELSE b.firstRound
        /\ c.lastRound = IF b.roundsObserved = 0 \/ r > b.lastRound THEN r ELSE b.lastRound
        /\ IsFcn(c)
    BY DEF AddArchiveRound, BlockOK, BlockShape, BlockFields, IsFcn
  <1>2. /\ DOMAIN c.rounds = DOMAIN b.rounds \cup {r} /\ c.rounds[r] = NewArchivedRound(roster)
        /\ \A x \in DOMAIN b.rounds : c.rounds[x] = b.rounds[x]
    <2>1. c.rounds = Put(b.rounds, r, NewArchivedRound(roster))
      BY <1>1
    <2> QED BY <2>1 DEF Put
  <1>3. BlockShape(c)
    <2>1. IsFcn(c.rounds)
      BY <1>1 DEF Put, IsFcn
    <2> QED BY <1>1, <2>1 DEF BlockOK, BlockShape
  <1>4. RoundsOK(c)
    BY <1>2, NewRoundOK DEF BlockOK, RoundsOK
  <1>5. IsFiniteSet(DOMAIN c.rounds) /\ Cardinality(DOMAIN c.rounds) = Cardinality(DOMAIN b.rounds) + 1
    <2>1. IsFiniteSet(DOMAIN b.rounds) /\ Cardinality(DOMAIN b.rounds) \in Nat
      BY FS_CardinalityType DEF BlockOK, RoundsBounded
    <2> QED BY <1>2, <2>1, OneMore, Zenon
  <1>6. \A x \in DOMAIN c.rounds : x <= c.lastRound
    BY <1>1, <1>2 DEF BlockOK, BlockShape, RoundsBounded
  <1> QED BY <1>1, <1>2, <1>3, <1>4, <1>5, <1>6

(* What archiveRoundLocked makes of the block.                             *)
RoundAdded(b, r, roster) ==
  LET added == AddArchiveRound(b, r, roster) IN
  IF Cardinality(DOMAIN added.rounds) > RoundLimit
  THEN EvictArchiveRound(added, Min(DOMAIN added.rounds)) ELSE added

(* A new round is retained or given up for a later one, the round limit    *)
(* holds and the eviction mark stays below every round retained.           *)
LEMMA RoundAddedOK ==
  ASSUME NEW b, BlockOK(b), NEW roster, RosterOK(roster),
         NEW r \in Rounds \cap Nat, r \notin DOMAIN b.rounds, r > b.evictedThrough,
         NEW c, c = RoundAdded(b, r, roster)
  PROVE  /\ BlockOK(c) /\ Extends(b, c)
         /\ c.roundsObserved = b.roundsObserved + 1 /\ c.revision = b.revision + 1
         /\ c.committed = b.committed /\ c.canonicalHash = b.canonicalHash
         /\ r \in DOMAIN c.rounds \/ r <= c.evictedThrough
         /\ DOMAIN c.rounds \subseteq DOMAIN b.rounds \cup {r}
         /\ \A x \in DOMAIN c.rounds : x # r => c.rounds[x] = b.rounds[x]
  <1> DEFINE a == AddArchiveRound(b, r, roster)
  <1>1. /\ BlockShape(a) /\ RoundsOK(a)
        /\ DOMAIN a.rounds = DOMAIN b.rounds \cup {r}
        /\ IsFiniteSet(DOMAIN a.rounds)
        /\ Cardinality(DOMAIN a.rounds) = Cardinality(DOMAIN b.rounds) + 1
        /\ \A x \in DOMAIN b.rounds : a.rounds[x] = b.rounds[x]
        /\ a.roundsObserved = b.roundsObserved + 1 /\ a.revision = b.revision + 1
        /\ a.committed = b.committed /\ a.canonicalHash = b.canonicalHash
        /\ a.evictedThrough = b.evictedThrough /\ a.roundsEvicted = b.roundsEvicted
        /\ \A x \in DOMAIN a.rounds : x <= a.lastRound
    BY AddArchiveRoundIs
  <1>2. c = IF Cardinality(DOMAIN a.rounds) > RoundLimit
            THEN EvictArchiveRound(a, Min(DOMAIN a.rounds)) ELSE a
    BY DEF RoundAdded
  <1> HIDE DEF a
  <1>3. /\ DOMAIN b.rounds \subseteq Rounds \cap Nat /\ Cardinality(DOMAIN b.rounds) \in Nat
        /\ Cardinality(DOMAIN b.rounds) <= RoundLimit /\ RoundLimit \in Nat
        /\ \A x \in DOMAIN b.rounds : x > b.evictedThrough
        /\ b.evictedThrough \in Nat \cup {-1} /\ b.roundsObserved \in Nat
    BY FS_CardinalityType, LimitAssumption DEF BlockOK, BlockShape, RoundsBounded
  <1>4. CASE Cardinality(DOMAIN a.rounds) <= RoundLimit
    <2>1. c = a
      BY <1>1, <1>2, <1>3, <1>4
    <2>2. RoundsBounded(c)
      BY <1>1, <1>3, <1>4, <2>1 DEF RoundsBounded
    <2> QED BY <1>1, <1>3, <2>1, <2>2 DEF BlockOK, Extends
  <1>5. CASE Cardinality(DOMAIN a.rounds) > RoundLimit
    <2> DEFINE low == Min(DOMAIN a.rounds)
    <2>1. low \in DOMAIN a.rounds /\ \A x \in DOMAIN a.rounds : low <= x
      <3>1. DOMAIN a.rounds \in SUBSET Nat /\ DOMAIN a.rounds # {}
        BY <1>1, <1>3
      <3> QED BY <3>1, MinIsLeast
    <2>2. c = EvictArchiveRound(a, low)
      BY <1>2, <1>5
    <2> HIDE DEF low
    <2>3. low \in Nat /\ low > b.evictedThrough
      BY <1>1, <1>3, <2>1
    <2>4. /\ IsFcn(c) /\ DOMAIN c = BlockFields /\ IsFcn(c.rounds)
          /\ DOMAIN c.rounds = DOMAIN a.rounds \ {low}
          /\ \A x \in DOMAIN c.rounds : c.rounds[x] = a.rounds[x]
          /\ c.evictedThrough = low /\ c.roundsEvicted = a.roundsEvicted + 1
          /\ c.revision = a.revision /\ c.committed = a.committed
          /\ c.canonicalHash = a.canonicalHash /\ c.firstRound = a.firstRound
          /\ c.lastRound = a.lastRound /\ c.roundsObserved = a.roundsObserved
      <3>1. c = [a EXCEPT !.rounds = [x \in DOMAIN a.rounds \ {low} |-> a.rounds[x]],
                          !.evictedThrough = low, !.roundsEvicted = a.roundsEvicted + 1]
        BY <2>2 DEF EvictArchiveRound, Restrict
      <3>2. IsFcn(c)
        BY <3>1 DEF IsFcn
      <3>3. DOMAIN a = BlockFields
        BY <1>1 DEF BlockShape
      <3>4. c.rounds = [x \in DOMAIN a.rounds \ {low} |-> a.rounds[x]]
        BY <3>1, <3>3 DEF BlockFields
      <3>5. IsFcn(c.rounds) /\ DOMAIN c.rounds = DOMAIN a.rounds \ {low}
            /\ \A x \in DOMAIN c.rounds : c.rounds[x] = a.rounds[x]
        BY <3>4 DEF IsFcn
      <3> QED BY <3>1, <3>2, <3>3, <3>5 DEF BlockFields
    <2>5. BlockShape(c) /\ RoundsOK(c)
      BY <1>1, <2>3, <2>4 DEF BlockShape, RoundsOK
    <2>6. IsFiniteSet(DOMAIN c.rounds) /\ Cardinality(DOMAIN c.rounds) <= RoundLimit
      <3>1. IsFiniteSet(DOMAIN c.rounds)
            /\ Cardinality(DOMAIN c.rounds) = Cardinality(DOMAIN a.rounds) - 1
        <4>1. low \in DOMAIN a.rounds /\ IsFiniteSet(DOMAIN a.rounds)
          BY <1>1, <2>1
        <4>2. /\ IsFiniteSet(DOMAIN a.rounds \ {low})
              /\ Cardinality(DOMAIN a.rounds \ {low}) = Cardinality(DOMAIN a.rounds) - 1
          BY <4>1, FS_RemoveElement
        <4> QED BY <2>4, <4>2
      <3> QED BY <1>1, <1>3, <3>1
    <2>7. RoundsBounded(c)
      <3>1. \A x \in DOMAIN c.rounds : x \in Rounds \cap Nat /\ x > low /\ x <= c.lastRound
        BY <1>1, <1>3, <2>1, <2>3, <2>4
      <3>2. c.roundsObserved # 0
        BY <1>1, <1>3, <2>4
      <3> QED BY <2>4, <2>6, <3>1, <3>2 DEF RoundsBounded
    <2>8. Extends(b, c)
      BY <1>1, <1>3, <2>1, <2>3, <2>4 DEF Extends
    <2>9. r \in DOMAIN c.rounds \/ r <= c.evictedThrough
      BY <1>1, <2>1, <2>3, <2>4
    <2> QED BY <1>1, <2>4, <2>5, <2>7, <2>8, <2>9 DEF BlockOK
  <1>6. Cardinality(DOMAIN a.rounds) \in Nat
    BY <1>1, <1>3
  <1> QED BY <1>3, <1>4, <1>5, <1>6

Replaced(b, r, n, v) == [b EXCEPT !.rounds[r] = n, !.revision = v]

(* A changed round has its own revision; the others stay as they are.      *)
LEMMA RoundReplacedOK ==
  ASSUME NEW b, BlockOK(b), NEW r \in DOMAIN b.rounds, NEW n, RoundOK(n),
         NEW v \in Nat, v >= b.revision, n = b.rounds[r] <=> v = b.revision,
         NEW c, c = Replaced(b, r, n, v)
  PROVE  BlockOK(c) /\ Touched(b, c) /\ c.committed = b.committed
  <1>1. /\ IsFcn(c) /\ DOMAIN c = BlockFields /\ IsFcn(c.rounds)
        /\ DOMAIN c.rounds = DOMAIN b.rounds /\ c.revision = v
        /\ c.rounds[r] = n /\ \A x \in DOMAIN b.rounds : x # r => c.rounds[x] = b.rounds[x]
        /\ c.evictedThrough = b.evictedThrough /\ c.roundsEvicted = b.roundsEvicted
        /\ c.committed = b.committed /\ c.canonicalHash = b.canonicalHash
        /\ c.firstRound = b.firstRound /\ c.lastRound = b.lastRound
        /\ c.roundsObserved = b.roundsObserved
    BY DEF Replaced, BlockOK, BlockShape, BlockFields, IsFcn
  <1>2. BlockShape(c)
    <2>1. v \in Nat \ {0}
      BY DEF BlockOK, BlockShape
    <2> QED BY <1>1, <2>1 DEF BlockOK, BlockShape
  <1>3. RoundsBounded(c)
    BY <1>1 DEF BlockOK, RoundsBounded
  <1>4. RoundsOK(c)
    BY <1>1 DEF BlockOK, RoundsOK
  <1>5. Extends(b, c)
    BY <1>1 DEF Extends, BlockOK, BlockShape
  <1>6. Revised(b, c)
    <2>1. CASE v = b.revision
      <3>1. n = b.rounds[r]
        BY <2>1
      <3>2. c = b
        BY <2>1, <3>1 DEF Replaced, BlockOK, BlockShape, BlockFields, IsFcn
      <3> QED BY <3>2 DEF Revised
    <2>2. CASE v # b.revision
      <3>1. b.revision \in Nat /\ n # b.rounds[r]
        BY <2>2 DEF BlockOK, BlockShape
      <3>2. [b EXCEPT !.revision = v].rounds = b.rounds
        BY DEF BlockOK, BlockShape, BlockFields
      <3>3. c.rounds # b.rounds
        BY <1>1, <3>1
      <3>4. c # [b EXCEPT !.revision = v]
        BY <3>2, <3>3
      <3> QED BY <1>1, <2>2, <3>1, <3>4 DEF Revised
    <2> QED BY <2>1, <2>2
  <1> QED BY <1>1, <1>2, <1>3, <1>4, <1>5, <1>6 DEF BlockOK, Touched

(* A round that is flagged as incomplete.                                  *)
LEMMA FlaggedOK ==
  ASSUME NEW rd, RoundOK(rd), NEW n, n = [rd EXCEPT !.truncated = TRUE]
  PROVE  RoundOK(n) /\ (n = rd <=> rd.truncated)
  <1>1. /\ IsFcn(n) /\ DOMAIN n = RoundFields /\ n.truncated = TRUE
        /\ n.proposer = rd.proposer /\ n.roster = rd.roster /\ n.votes = rd.votes
    BY DEF RoundOK, RoundFields, IsFcn
  <1>2. RoundOK(n)
    BY <1>1 DEF RoundOK, Voters
  <1>3. rd.truncated = TRUE => n = rd
    BY DEF RoundOK, RoundFields, IsFcn
  <1>4. n = rd => rd.truncated = TRUE
    BY <1>1
  <1>5. rd.truncated \in BOOLEAN
    BY DEF RoundOK
  <1> QED BY <1>2, <1>3, <1>4, <1>5

FlagVote(rd, id) ==
  [[rd EXCEPT !.votes[id].truncated = TRUE, !.votes[id].conflicting = TRUE]
     EXCEPT !.truncated = TRUE]

(* A vote that is flagged as incomplete, in a round that says so.          *)
LEMMA FullVoteOK ==
  ASSUME NEW rd, RoundOK(rd), NEW id \in DOMAIN rd.votes, Len(rd.votes[id].hashes) >= HashLimit,
         NEW n, n = FlagVote(rd, id)
  PROVE  /\ RoundOK(n)
         /\ n = rd <=> rd.votes[id].truncated /\ rd.votes[id].conflicting /\ rd.truncated
  <1> DEFINE vote == rd.votes[id]
             full == [vote EXCEPT !.truncated = TRUE, !.conflicting = TRUE]
             votes == [rd.votes EXCEPT ![id] = full]
  <1>1. /\ IsFcn(vote) /\ DOMAIN vote = VoteFields /\ VoteOK(vote)
        /\ vote.truncated \in BOOLEAN /\ vote.conflicting \in BOOLEAN /\ rd.truncated \in BOOLEAN
        /\ IsFcn(rd) /\ DOMAIN rd = RoundFields /\ IsFcn(rd.votes)
    BY DEF RoundOK, VoteOK, ArchivedVoteOK
  <1>2. /\ IsFcn(full) /\ DOMAIN full = VoteFields /\ full.hashes = vote.hashes
        /\ full.truncated = TRUE /\ full.conflicting = TRUE
    BY <1>1 DEF IsFcn, VoteFields
  <1>3. VoteOK(full)
    <2>1. ConflictKnown(full)
      BY <1>1, <1>2, LimitAssumption DEF ConflictKnown, VoteOK
    <2> QED BY <1>1, <1>2, <2>1 DEF VoteOK, ArchivedVoteOK
  <1>4. full = vote <=> vote.truncated = TRUE /\ vote.conflicting = TRUE
    <2>1. vote.truncated = TRUE /\ vote.conflicting = TRUE => full = vote
      BY <1>1 DEF IsFcn, VoteFields
    <2> HIDE DEF full, vote
    <2>2. full = vote => vote.truncated = TRUE /\ vote.conflicting = TRUE
      BY <1>2
    <2> QED BY <2>1, <2>2
  <1>5. /\ IsFcn(n) /\ DOMAIN n = RoundFields /\ n.truncated = TRUE
        /\ n.proposer = rd.proposer /\ n.roster = rd.roster /\ n.votes = votes
    <2> DEFINE a == [rd EXCEPT !.votes[id].truncated = TRUE]
               b == [a EXCEPT !.votes[id].conflicting = TRUE]
    <2>1. /\ IsFcn(a) /\ DOMAIN a = RoundFields /\ a.proposer = rd.proposer /\ a.roster = rd.roster
          /\ a.truncated = rd.truncated /\ a.votes = [rd.votes EXCEPT ![id] = [vote EXCEPT !.truncated = TRUE]]
      BY <1>1 DEF RoundFields, IsFcn
    <2> HIDE DEF vote
    <2>2. DOMAIN a.votes = DOMAIN rd.votes /\ a.votes[id] = [vote EXCEPT !.truncated = TRUE]
      BY <2>1
    <2>3. /\ IsFcn(b) /\ DOMAIN b = RoundFields /\ b.proposer = a.proposer /\ b.roster = a.roster
          /\ b.votes = [a.votes EXCEPT ![id] = [a.votes[id] EXCEPT !.conflicting = TRUE]]
      <3> HIDE DEF a
      <3> QED BY <2>1 DEF RoundFields, IsFcn
    <2>4. b.votes = [[rd.votes EXCEPT ![id] = [vote EXCEPT !.truncated = TRUE]] EXCEPT ![id] = full]
      BY <2>1, <2>2, <2>3
    <2>5. b.votes = votes
      <3> HIDE DEF full, a, b
      <3> QED BY <2>4
    <2>6. n = [b EXCEPT !.truncated = TRUE]
      BY DEF vote, FlagVote
    <2> HIDE DEF a, b
    <2> QED BY <2>1, <2>3, <2>5, <2>6 DEF RoundFields, IsFcn
  <1> HIDE DEF full
  <1>6. /\ IsFcn(votes) /\ DOMAIN votes = DOMAIN rd.votes /\ votes[id] = full
        /\ \A i \in DOMAIN rd.votes : i # id => votes[i] = rd.votes[i]
    BY DEF IsFcn
  <1>7. votes = rd.votes <=> full = vote
    BY <1>1, <1>6 DEF IsFcn
  <1> HIDE DEF votes, vote
  <1>8. RoundOK(n)
    <2>1. Voters(n) = Voters(rd)
      BY <1>5, <1>6 DEF Voters
    <2>2. \A i \in DOMAIN n.votes : VoteOK(n.votes[i])
      BY <1>3, <1>5, <1>6 DEF RoundOK
    <2> QED BY <1>5, <1>6, <2>1, <2>2 DEF RoundOK
  <1>9. n = rd <=> votes = rd.votes /\ rd.truncated = TRUE
    <2>1. n = rd => votes = rd.votes /\ rd.truncated = TRUE
      BY <1>5
    <2>2. ASSUME votes = rd.votes, rd.truncated = TRUE
          PROVE  n = rd
      <3>1. \A f \in RoundFields : n[f] = rd[f]
        BY <1>5, <2>2 DEF RoundFields
      <3> QED BY <1>1, <1>5, <3>1 DEF IsFcn
    <2> QED BY <2>1, <2>2
  <1> QED BY <1>1, <1>4, <1>7, <1>8, <1>9 DEF vote

(* A vote for a hash that its validator had not signed in this phase.      *)
LEMMA FreshVoteOK ==
  ASSUME NEW rd, RoundOK(rd), NEW addr \in Addresses, NEW type \in VoteTypes,
         NEW vote, IF <<addr, type>> \in DOMAIN rd.votes THEN vote = rd.votes[<<addr, type>>]
                   ELSE vote = NoVote,
         NEW hash \in BlockHashes, hash \notin Range(vote.hashes), Len(vote.hashes) < HashLimit,
         AdmitsVoter(rd, addr),
         NEW n, n = [rd EXCEPT !.votes = Put(@, <<addr, type>>, AppendHash(vote, hash))]
  PROVE  RoundOK(n) /\ n # rd
  <1> DEFINE id == <<addr, type>>  next == AppendHash(vote, hash)  votes == Put(rd.votes, id, next)
  <1>1. VoteOK(next) /\ next.truncated = vote.truncated
    <2>1. VoteOK(vote) \/ vote = NoVote
      BY DEF RoundOK
    <2> QED BY <2>1, AppendHashOK
  <1>2. vote.truncated => rd.truncated
    BY DEF RoundOK, NoVote
  <1>3. hash \in Range(next.hashes)
    <2>1. vote.hashes \in Seq(BlockHashes) /\ DOMAIN vote = VoteFields
      <3>1. CASE VoteOK(vote)
        BY <3>1 DEF VoteOK, ArchivedVoteOK
      <3>2. CASE vote = NoVote
        BY <3>2 DEF NoVote, VoteFields
      <3> QED BY <3>1, <3>2 DEF RoundOK
    <2>2. next.hashes = Append(vote.hashes, hash)
      BY <2>1 DEF AppendHash, VoteFields
    <2>3. LET s == Append(vote.hashes, hash) IN
          Len(vote.hashes) + 1 \in DOMAIN s /\ s[Len(vote.hashes) + 1] = hash
      BY <2>1, AppendProperties, LenProperties
    <2> QED BY <2>2, <2>3 DEF Range
  <1> HIDE DEF next
  <1>4. /\ IsFcn(votes) /\ DOMAIN votes = DOMAIN rd.votes \cup {id} /\ votes[id] = next
        /\ \A i \in DOMAIN rd.votes : i # id => votes[i] = rd.votes[i]
    BY DEF Put, IsFcn
  <1>5. votes # rd.votes
    <2>1. CASE id \in DOMAIN rd.votes
      BY <1>3, <1>4, <2>1
    <2>2. CASE id \notin DOMAIN rd.votes
      BY <1>4, <2>2
    <2> QED BY <2>1, <2>2
  <1>6. n = [rd EXCEPT !.votes = votes]
    BY DEF next
  <1>7. id \in Addresses \X VoteTypes /\ id[1] = addr
    OBVIOUS
  <1> HIDE DEF votes, id
  <1>8. /\ IsFcn(n) /\ DOMAIN n = RoundFields /\ n.truncated = rd.truncated
        /\ n.proposer = rd.proposer /\ n.roster = rd.roster /\ n.votes = votes
    BY <1>6 DEF RoundOK, RoundFields, IsFcn
  <1>9. Voters(n) = Voters(rd) \cup {addr}
    BY <1>4, <1>7, <1>8 DEF Voters
  <1>10. IsFiniteSet(Voters(n)) /\ Cardinality(Voters(n) \ DOMAIN n.roster) <= UnknownLimit
    <2> DEFINE unknown == Voters(rd) \ DOMAIN rd.roster
    <2>1. IsFiniteSet(Voters(rd)) /\ IsFiniteSet(unknown) /\ Cardinality(unknown) \in Nat
          /\ Cardinality(unknown) <= UnknownLimit
      BY FS_Subset, FS_CardinalityType DEF RoundOK
    <2>2. IsFiniteSet(Voters(n))
      BY <1>9, <2>1, FS_AddElement
    <2>3. CASE addr \in Voters(rd) \cup DOMAIN rd.roster
      <3>1. Voters(n) \ DOMAIN n.roster = unknown
        BY <1>8, <1>9, <2>3
      <3> QED BY <2>1, <2>2, <3>1
    <2>4. CASE addr \notin Voters(rd) \cup DOMAIN rd.roster
      <3>1. Cardinality(unknown) < UnknownLimit
        BY <2>4 DEF AdmitsVoter
      <3>2. Voters(n) \ DOMAIN n.roster = unknown \cup {addr} /\ addr \notin unknown
        BY <1>8, <1>9, <2>4
      <3> HIDE DEF unknown
      <3>3. Cardinality(Voters(n) \ DOMAIN n.roster) = Cardinality(unknown) + 1
        BY <2>1, <3>2, OneMore, Zenon
      <3> QED BY <2>1, <2>2, <3>1, <3>3, LimitAssumption
    <2> QED BY <2>3, <2>4
  <1>11. \A i \in DOMAIN n.votes : VoteOK(n.votes[i]) /\ (n.votes[i].truncated => n.truncated)
    BY <1>1, <1>2, <1>4, <1>8 DEF RoundOK
  <1>12. DOMAIN n.votes \subseteq Addresses \X VoteTypes /\ IsFcn(n.votes)
    BY <1>4, <1>7, <1>8 DEF RoundOK
  <1>13. n.proposer \in Proposers /\ n.truncated \in BOOLEAN /\ RosterOK(n.roster)
    BY <1>8 DEF RoundOK
  <1> QED BY <1>5, <1>8, <1>10, <1>11, <1>12, <1>13 DEF RoundOK

(* The vote part of observeVoteLocked: evidence is added within the limits *)
(* or the round is flagged, and the revision moves when either shows.      *)
LEMMA RecordVoteOK ==
  ASSUME NEW b, BlockOK(b), NEW v \in Votes, v.round \in DOMAIN b.rounds,
         NEW c, c = RecordVote(b, v)
  PROVE  BlockOK(c) /\ Touched(b, c) /\ c.committed = b.committed
  <1> DEFINE r == v.round  rd == b.rounds[r]  id == <<v.addr, v.type>>
             vote == IF id \in DOMAIN rd.votes THEN rd.votes[id] ELSE NoVote
             flagged == [rd EXCEPT !.truncated = TRUE]
             full == FlagVote(rd, id)
             more == [rd EXCEPT !.votes = Put(@, id, AppendHash(vote, v.hash))]
  <1>1. /\ RoundOK(rd) /\ v.addr \in Addresses /\ v.type \in VoteTypes /\ v.hash \in BlockHashes
        /\ r \in DOMAIN b.rounds /\ b.revision \in Nat /\ IsFcn(b.rounds) /\ DOMAIN b = BlockFields
    BY DEF BlockOK, RoundsOK, BlockShape, Votes
  <1>2. CASE ~AdmitsVoter(rd, v.addr)
    <2> DEFINE x == IF ~rd.truncated THEN b.revision + 1 ELSE b.revision
    <2>1. c = Replaced(b, r, flagged, x)
      BY <1>1, <1>2 DEF Replaced, RecordVote, BlockFields
    <2>2. RoundOK(flagged) /\ (flagged = rd <=> rd.truncated)
      BY <1>1, FlaggedOK
    <2>3. x \in Nat /\ x >= b.revision /\ (flagged = rd <=> x = b.revision)
      BY <1>1, <2>2
    <2> HIDE DEF flagged, x, r
    <2> QED BY <1>1, <2>1, <2>2, <2>3, RoundReplacedOK
  <1>3. CASE AdmitsVoter(rd, v.addr) /\ v.hash \in Range(vote.hashes)
    <2>1. c = b
      BY <1>3 DEF RecordVote
    <2> QED BY <2>1, TouchesItself
  <1>4. CASE /\ AdmitsVoter(rd, v.addr) /\ v.hash \notin Range(vote.hashes)
             /\ Len(vote.hashes) >= HashLimit
    <2> DEFINE x == IF ~vote.truncated \/ ~vote.conflicting \/ ~rd.truncated
                    THEN b.revision + 1 ELSE b.revision
    <2>1. c = Replaced(b, r, full, x)
      BY <1>1, <1>4 DEF Replaced, FlagVote, RecordVote, BlockFields
    <2>2. id \in DOMAIN rd.votes /\ vote = rd.votes[id]
      <3>1. NoVote.hashes = <<>> /\ Len(<<>>) = 0
        BY DEF NoVote
      <3> QED BY <1>4, <3>1, LimitAssumption
    <2>3. /\ RoundOK(full)
          /\ full = rd <=> rd.votes[id].truncated /\ rd.votes[id].conflicting /\ rd.truncated
      <3>1. Len(rd.votes[id].hashes) >= HashLimit
        BY <1>4, <2>2
      <3> HIDE DEF id, rd, r
      <3> QED BY <1>1, <2>2, <3>1, FullVoteOK
    <2>4. x \in Nat /\ x >= b.revision /\ (full = rd <=> x = b.revision)
      <3> HIDE DEF full, rd, id
      <3> QED BY <1>1, <2>2, <2>3
    <2> HIDE DEF full, x, r
    <2> QED BY <1>1, <2>1, <2>3, <2>4, RoundReplacedOK
  <1>5. CASE /\ AdmitsVoter(rd, v.addr) /\ v.hash \notin Range(vote.hashes)
             /\ ~(Len(vote.hashes) >= HashLimit)
    <2> DEFINE x == b.revision + 1
    <2>1. c = Replaced(b, r, more, x)
      BY SMTT(30), <1>1, <1>5 DEF Replaced, RecordVote, BlockFields
    <2>2. Len(vote.hashes) \in Int /\ HashLimit \in Int
      BY <1>1, LimitAssumption DEF RoundOK, VoteOK, NoVote
    <2>3. RoundOK(more) /\ more # rd
      <3>1. Len(vote.hashes) < HashLimit
        BY <1>5, <2>2
      <3>2. IF <<v.addr, v.type>> \in DOMAIN rd.votes THEN vote = rd.votes[<<v.addr, v.type>>]
            ELSE vote = NoVote
        OBVIOUS
      <3> HIDE DEF rd, vote
      <3> QED BY <1>1, <1>5, <3>1, <3>2, FreshVoteOK
    <2>4. x \in Nat /\ x >= b.revision /\ (more = rd <=> x = b.revision)
      BY <1>1, <2>3
    <2> HIDE DEF more, x, r
    <2> QED BY <1>1, <2>1, <2>3, <2>4, RoundReplacedOK
  <1> QED BY <1>2, <1>3, <1>4, <1>5

(* The proposer part of observeRoundLocked.                                *)
LEMMA SetProposerOK ==
  ASSUME NEW b, BlockOK(b), NEW r \in DOMAIN b.rounds, NEW proposer \in Proposers,
         NEW c, c = SetProposer(b, r, proposer)
  PROVE  BlockOK(c) /\ Touched(b, c) /\ c.committed = b.committed
  <1> DEFINE rd == b.rounds[r]  n == [rd EXCEPT !.proposer = proposer]
  <1>1. RoundOK(rd) /\ b.revision \in Nat /\ IsFcn(b.rounds) /\ DOMAIN b = BlockFields
    BY DEF BlockOK, RoundsOK, BlockShape
  <1>2. CASE proposer = NoProposer \/ rd.proposer = proposer
    <2>1. c = b
      BY <1>2 DEF SetProposer
    <2> QED BY <2>1, TouchesItself
  <1>3. CASE ~(proposer = NoProposer \/ rd.proposer = proposer)
    <2>1. c = Replaced(b, r, n, b.revision + 1)
      BY <1>1, <1>3 DEF Replaced, SetProposer, BlockFields
    <2>2. /\ IsFcn(n) /\ DOMAIN n = RoundFields /\ n.proposer = proposer
          /\ n.truncated = rd.truncated /\ n.roster = rd.roster /\ n.votes = rd.votes
      BY <1>1 DEF RoundOK, RoundFields, IsFcn
    <2> HIDE DEF n, rd
    <2>3. RoundOK(n) /\ n # rd
      <3>1. Voters(n) = Voters(rd)
        BY <2>2 DEF Voters
      <3> QED BY <1>1, <1>3, <2>2, <3>1 DEF RoundOK
    <2>4. /\ b.revision + 1 \in Nat /\ b.revision + 1 >= b.revision
          /\ n = b.rounds[r] <=> b.revision + 1 = b.revision
      BY <1>1, <2>3 DEF rd
    <2> QED BY <1>1, <2>1, <2>3, <2>4, RoundReplacedOK
  <1> QED BY <1>2, <1>3

(* archiveCommitLocked's commit evidence.                                  *)
Seal(b, hash) == [b EXCEPT !.committed = TRUE, !.canonicalHash = hash, !.revision = @ + 1]

(* The first commit notice seals a height, a later one may only add the    *)
(* hash that it did not know.                                              *)
LEMMA SealOK ==
  ASSUME NEW b, BlockOK(b), NEW hash \in BlockHashes,
         ~b.committed \/ (b.canonicalHash = Nil /\ hash # Nil), NEW c, c = Seal(b, hash)
  PROVE  BlockOK(c) /\ Touched(b, c) /\ c.committed /\ c.canonicalHash = hash
  <1>1. /\ IsFcn(c) /\ DOMAIN c = BlockFields /\ c.rounds = b.rounds /\ c.revision = b.revision + 1
        /\ c.evictedThrough = b.evictedThrough /\ c.roundsEvicted = b.roundsEvicted
        /\ c.committed = TRUE /\ c.canonicalHash = hash
        /\ c.firstRound = b.firstRound /\ c.lastRound = b.lastRound
        /\ c.roundsObserved = b.roundsObserved /\ b.revision \in Nat
    BY DEF Seal, BlockOK, BlockShape, BlockFields, IsFcn
  <1>2. BlockShape(c)
    <2>1. c.revision \in Nat \ {0} /\ c.committed \in BOOLEAN /\ c.canonicalHash \in BlockHashes
      <3>1. c.revision \in Nat \ {0}
        BY <1>1
      <3>2. c.committed \in BOOLEAN
        BY <1>1
      <3>3. c.canonicalHash \in BlockHashes
        BY <1>1
      <3> QED BY <3>1, <3>2, <3>3
    <2>2. IsFcn(c.rounds)
      BY <1>1 DEF BlockOK, BlockShape
    <2> QED BY <1>1, <2>1, <2>2 DEF BlockOK, BlockShape
  <1>3. RoundsBounded(c) /\ RoundsOK(c)
    BY <1>1 DEF BlockOK, RoundsBounded, RoundsOK
  <1>4. Extends(b, c)
    BY <1>1 DEF Extends, BlockOK, BlockShape
  <1>5. Revised(b, c)
    <2>1. /\ [b EXCEPT !.revision = c.revision].committed = b.committed
          /\ [b EXCEPT !.revision = c.revision].canonicalHash = b.canonicalHash
      BY DEF BlockOK, BlockShape, BlockFields
    <2>2. c.committed # b.committed \/ c.canonicalHash # b.canonicalHash
      BY <1>1 DEF BlockOK, BlockShape
    <2>3. c # [b EXCEPT !.revision = c.revision]
      BY <2>1, <2>2
    <2> QED BY <1>1, <2>3 DEF Revised
  <1> QED BY <1>1, <1>2, <1>3, <1>4, <1>5 DEF BlockOK, Touched

(* The first validator set a round gets fills its roster, no later one     *)
(* replaces it; an empty set changes nothing.                              *)
LEMMA FillRostersOK ==
  ASSUME NEW b, BlockOK(b), NEW m, RosterOK(m), NEW c, c = FillRosters(b, m)
  PROVE  BlockOK(c) /\ Touched(b, c) /\ c.committed = b.committed
  <1> DEFINE empty == {r \in DOMAIN b.rounds : DOMAIN b.rounds[r].roster = {}}
             fill(r) == [b.rounds[r] EXCEPT !.roster = m]
  <1>1. /\ IsFcn(b) /\ IsFcn(b.rounds) /\ DOMAIN b = BlockFields /\ b.revision \in Nat \ {0}
        /\ IsFiniteSet(DOMAIN b.rounds) /\ \A r \in DOMAIN b.rounds : RoundOK(b.rounds[r])
    BY DEF BlockOK, BlockShape, RoundsBounded, RoundsOK
  <1>2. IsFiniteSet(empty) /\ Cardinality(empty) \in Nat /\ (empty # {} => Cardinality(empty) > 0)
    <2>1. empty \subseteq DOMAIN b.rounds
      OBVIOUS
    <2>2. IsFiniteSet(empty)
      BY <1>1, <2>1, FS_Subset
    <2> QED BY <2>2, FS_CardinalityType, FS_EmptySet
  <1>3. /\ IsFcn(c) /\ DOMAIN c = BlockFields
        /\ c.rounds = [r \in DOMAIN b.rounds |-> IF r \in empty THEN fill(r) ELSE b.rounds[r]]
        /\ c.revision = IF DOMAIN m = {} THEN b.revision ELSE b.revision + Cardinality(empty)
        /\ c.evictedThrough = b.evictedThrough /\ c.roundsEvicted = b.roundsEvicted
        /\ c.committed = b.committed /\ c.canonicalHash = b.canonicalHash
        /\ c.firstRound = b.firstRound /\ c.lastRound = b.lastRound
        /\ c.roundsObserved = b.roundsObserved
    <2>1. c = [b EXCEPT !.rounds = [r \in DOMAIN b.rounds |-> IF r \in empty THEN fill(r) ELSE b.rounds[r]],
                        !.revision = IF DOMAIN m = {} THEN b.revision
                                     ELSE b.revision + Cardinality(empty)]
      BY DEF FillRosters
    <2> HIDE DEF fill, empty
    <2>2. IsFcn(c)
      BY <2>1 DEF IsFcn
    <2> QED BY <1>1, <2>1, <2>2 DEF BlockFields
  <1>4. ASSUME NEW r \in empty
        PROVE  RoundOK(fill(r)) /\ (fill(r) = b.rounds[r] <=> DOMAIN m = {})
    <2> DEFINE rd == b.rounds[r]  n == fill(r)
    <2>1. RoundOK(rd) /\ DOMAIN rd.roster = {} /\ rd.roster \in [{} -> Nat]
      BY <1>1 DEF RoundOK, RosterOK
    <2>2. /\ IsFcn(n) /\ DOMAIN n = RoundFields /\ n.roster = m /\ n.proposer = rd.proposer
          /\ n.truncated = rd.truncated /\ n.votes = rd.votes
      BY <2>1 DEF RoundOK, RoundFields, IsFcn
    <2>3. DOMAIN m = {} => n = rd
      <3>1. DOMAIN m = {} => m = rd.roster
        BY <2>1 DEF RosterOK
      <3> QED BY <2>1, <3>1 DEF RoundOK, RoundFields, IsFcn
    <2> HIDE DEF n, rd
    <2>4. n = rd => DOMAIN m = {}
      BY <2>1, <2>2
    <2>5. IsFiniteSet(Voters(rd)) /\ Cardinality(Voters(rd)) <= UnknownLimit
      <3>1. Voters(rd) \ DOMAIN rd.roster = Voters(rd)
        BY <2>1
      <3> QED BY <2>1, <3>1 DEF RoundOK
    <2>6. Voters(n) = Voters(rd) /\ Voters(n) \ DOMAIN n.roster \subseteq Voters(rd)
      BY <2>2 DEF Voters
    <2>7. Cardinality(Voters(n) \ DOMAIN n.roster) <= UnknownLimit
      <3>1. /\ IsFiniteSet(Voters(n) \ DOMAIN n.roster)
            /\ Cardinality(Voters(n) \ DOMAIN n.roster) <= Cardinality(Voters(rd))
        BY <2>5, <2>6, FS_Subset
      <3> QED BY <2>5, <3>1, FS_CardinalityType, LimitAssumption
    <2>8. RoundOK(n)
      BY <2>1, <2>2, <2>5, <2>6, <2>7 DEF RoundOK
    <2> QED BY <2>3, <2>4, <2>8 DEF n, rd
  <1> HIDE DEF empty, fill
  <1>5. empty \subseteq DOMAIN b.rounds
    BY DEF empty
  <1>6. /\ IsFcn(c.rounds) /\ DOMAIN c.rounds = DOMAIN b.rounds
        /\ \A r \in DOMAIN b.rounds : c.rounds[r] = IF r \in empty THEN fill(r) ELSE b.rounds[r]
    BY <1>3 DEF IsFcn
  <1>7. BlockShape(c)
    <2>1. c.revision \in Nat \ {0}
      BY <1>1, <1>2, <1>3
    <2> QED BY <1>3, <1>6, <2>1 DEF BlockOK, BlockShape
  <1>8. RoundsBounded(c) /\ RoundsOK(c)
    <2>1. RoundsBounded(c)
      BY <1>3, <1>6 DEF BlockOK, RoundsBounded
    <2>2. RoundsOK(c)
      BY <1>1, <1>4, <1>6 DEF RoundsOK
    <2> QED BY <2>1, <2>2
  <1>9. Extends(b, c)
    BY <1>3, <1>6 DEF Extends, BlockOK, BlockShape
  <1>10. Revised(b, c)
    <2>1. CASE DOMAIN m = {} \/ empty = {}
      <3>1. c.revision = b.revision
        <4>1. empty = {} => Cardinality(empty) = 0
          BY FS_EmptySet
        <4> QED BY <1>1, <1>3, <2>1, <4>1
      <3>2. \A r \in DOMAIN b.rounds : c.rounds[r] = b.rounds[r]
        BY <1>4, <1>6, <2>1
      <3>3. c.rounds = b.rounds
        BY <1>1, <1>6, <3>2 DEF IsFcn
      <3>4. \A f \in BlockFields : c[f] = b[f]
        BY <1>3, <3>1, <3>3 DEF BlockFields
      <3>5. c = b
        BY <1>1, <1>3, <3>4 DEF IsFcn
      <3> QED BY <3>5 DEF Revised
    <2>2. CASE DOMAIN m # {} /\ empty # {}
      <3>1. PICK r \in empty : TRUE
        BY <2>2
      <3>2. r \in DOMAIN b.rounds /\ c.rounds[r] # b.rounds[r]
        BY <1>4, <1>5, <1>6, <2>2, <3>1
      <3>3. [b EXCEPT !.revision = c.revision].rounds = b.rounds
        BY <1>1 DEF BlockFields
      <3>4. c # [b EXCEPT !.revision = c.revision]
        BY <3>2, <3>3
      <3>5. c.revision > b.revision
        BY <1>1, <1>2, <1>3, <2>2
      <3> QED BY <3>4, <3>5 DEF Revised
    <2> QED BY <2>1, <2>2
  <1> QED BY <1>3, <1>6, <1>7, <1>8, <1>9, <1>10 DEF BlockOK, Touched

-----------------------------------------------------------------------------
(* The archive of heights *)

TrackerFields == {"rounds", "history", "defaultValidators", "defaultTotalPower", "committedHeight",
                  "archive", "archiveEvictedThrough", "archiveLatestHeight", "catalogueRevision"}

(* The archive is within its limits and each of its heights is.            *)
ArchiveOK(s) ==
  /\ DOMAIN s = TrackerFields /\ RosterOK(s.defaultValidators)
  /\ s.committedHeight \in Nat /\ s.archiveEvictedThrough \in Nat
  /\ s.archiveLatestHeight \in Nat /\ s.catalogueRevision \in Nat
  /\ DOMAIN s.archive \subseteq Heights \cap Nat /\ IsFiniteSet(DOMAIN s.archive)
  /\ Cardinality(DOMAIN s.archive) <= HistorySize
  /\ \A h \in DOMAIN s.archive : h > s.archiveEvictedThrough /\ h <= s.archiveLatestHeight
  /\ \A h \in DOMAIN s.archive : BlockOK(s.archive[h])

(* The detector holds rounds of the archive only.                          *)
Inside(s) ==
  /\ IsFcn(s.rounds) /\ DOMAIN s.rounds \subseteq Keys
  /\ \A k \in DOMAIN s.rounds :
       k.height \in DOMAIN s.archive /\ k.round \in DOMAIN s.archive[k.height].rounds

(* The tracker never takes another vote for the round of key k.            *)
Closed(s, k) ==
  \/ k.height <= s.committedHeight \/ k.height <= s.archiveEvictedThrough
  \/ k.height \in DOMAIN s.archive /\ k.round <= s.archive[k.height].evictedThrough

(* What no call takes back.                                                *)
Later(s, u) ==
  /\ u.committedHeight >= s.committedHeight
  /\ u.archiveEvictedThrough >= s.archiveEvictedThrough
  /\ \A h \in DOMAIN s.archive : h \in DOMAIN u.archive \/ h <= u.archiveEvictedThrough
  /\ \A h \in DOMAIN s.archive \cap DOMAIN u.archive : Extends(s.archive[h], u.archive[h])

(* No live round is touched, and those that are dropped are closed.        *)
SameRounds(s, u) ==
  /\ DOMAIN u.rounds \subseteq DOMAIN s.rounds
  /\ \A k \in DOMAIN u.rounds : u.rounds[k] = s.rounds[k]
  /\ \A k \in DOMAIN s.rounds : k \in DOMAIN u.rounds \/ Closed(u, k)

(* The catalogue of heights only moves on, and never without a revision.   *)
MovesOn(s, u) ==
  /\ Later(s, u)
  /\ u.committedHeight = s.committedHeight /\ u.defaultValidators = s.defaultValidators
  /\ u.defaultTotalPower = s.defaultTotalPower
  /\ u.history = s.history /\ u.catalogueRevision >= s.catalogueRevision
  /\ u.catalogueRevision = s.catalogueRevision =>
       /\ DOMAIN u.archive = DOMAIN s.archive
       /\ u.archiveEvictedThrough = s.archiveEvictedThrough
       /\ u.archiveLatestHeight = s.archiveLatestHeight

(* Time passes, also twice.                                                *)
LEMMA LaterTwice ==
  ASSUME NEW s, NEW u, NEW w, ArchiveOK(s), ArchiveOK(u), ArchiveOK(w), Later(s, u), Later(u, w)
  PROVE  Later(s, w)
  <1>1. \A h \in DOMAIN s.archive : h \in DOMAIN w.archive \/ h <= w.archiveEvictedThrough
    BY DEF Later, ArchiveOK
  <1>2. ASSUME NEW h \in DOMAIN s.archive \cap DOMAIN w.archive
        PROVE  Extends(s.archive[h], w.archive[h])
    <2>1. h \in DOMAIN u.archive
      BY <1>2 DEF Later, ArchiveOK
    <2>2. BlockOK(s.archive[h]) /\ BlockOK(u.archive[h]) /\ BlockOK(w.archive[h])
      BY <2>1 DEF ArchiveOK
    <2>3. Extends(s.archive[h], u.archive[h]) /\ Extends(u.archive[h], w.archive[h])
      BY <2>1 DEF Later
    <2> QED BY <2>2, <2>3, ExtendsOnce
  <1>3. /\ w.committedHeight >= s.committedHeight
        /\ w.archiveEvictedThrough >= s.archiveEvictedThrough
    BY DEF Later, ArchiveOK
  <1> QED BY <1>1, <1>2, <1>3 DEF Later

(* Archives with the same heights and blocks.                              *)
LEMMA SameArchiveLater ==
  ASSUME NEW s, ArchiveOK(s), NEW u, ArchiveOK(u),
         u.committedHeight >= s.committedHeight, u.archiveEvictedThrough >= s.archiveEvictedThrough,
         \A h \in DOMAIN s.archive : h \in DOMAIN u.archive \/ h <= u.archiveEvictedThrough,
         \A h \in DOMAIN s.archive \cap DOMAIN u.archive :
           u.archive[h] = s.archive[h] \/ Extends(s.archive[h], u.archive[h])
  PROVE  Later(s, u)
  <1>1. \A h \in DOMAIN s.archive : Extends(s.archive[h], s.archive[h])
    BY TouchesItself DEF ArchiveOK
  <1> QED BY <1>1 DEF Later

(* No call, no change.                                                     *)
LEMMA StaysPut ==
  ASSUME NEW s, ArchiveOK(s)
  PROVE  SameRounds(s, s) /\ MovesOn(s, s)
  <1>1. Later(s, s)
    BY SameArchiveLater DEF ArchiveOK
  <1> QED BY <1>1 DEF SameRounds, MovesOn, ArchiveOK

(* What is closed stays closed.                                            *)
LEMMA ClosedStays ==
  ASSUME NEW s, ArchiveOK(s), NEW u, ArchiveOK(u), Later(s, u),
         NEW k \in Keys, Closed(s, k)
  PROVE  Closed(u, k)
  <1>1. k.height \in Int /\ k.round \in Int
    BY DomainAssumption DEF Keys
  <1>2. CASE k.height <= s.committedHeight \/ k.height <= s.archiveEvictedThrough
    BY <1>1, <1>2 DEF Closed, Later, ArchiveOK
  <1>3. CASE k.height \in DOMAIN s.archive /\ k.round <= s.archive[k.height].evictedThrough
    <2>1. CASE k.height \in DOMAIN u.archive
      <3>1. s.archive[k.height].evictedThrough \in Int /\ u.archive[k.height].evictedThrough \in Int
        BY <1>3, <2>1 DEF ArchiveOK, BlockOK, BlockShape
      <3>2. u.archive[k.height].evictedThrough >= s.archive[k.height].evictedThrough
        BY <1>3, <2>1 DEF Later, Extends
      <3> QED BY <1>1, <1>3, <2>1, <3>1, <3>2 DEF Closed
    <2>2. CASE k.height \notin DOMAIN u.archive
      BY <1>3, <2>2 DEF Later, Closed
    <2> QED BY <2>1, <2>2
  <1> QED BY <1>2, <1>3 DEF Closed

(* A live round that is dropped is closed: its height or its round was     *)
(* evicted from the archive.                                               *)
LEMMA DroppedIsClosed ==
  ASSUME NEW s, ArchiveOK(s), Inside(s), NEW u, Later(s, u),
         NEW k \in DOMAIN s.rounds,
         ~(k.height \in DOMAIN u.archive /\ k.round \in DOMAIN u.archive[k.height].rounds)
  PROVE  Closed(u, k)
  <1>1. k.height \in DOMAIN s.archive /\ k.round \in DOMAIN s.archive[k.height].rounds
    BY DEF Inside
  <1>2. CASE k.height \notin DOMAIN u.archive
    BY <1>1, <1>2 DEF Later, Closed
  <1>3. CASE k.height \in DOMAIN u.archive
    BY <1>1, <1>3 DEF Later, Closed, Extends
  <1> QED BY <1>2, <1>3

(* Pruning leaves the rounds of the archive.                               *)
LEMMA PruneIs ==
  ASSUME NEW s, DOMAIN s = TrackerFields, DOMAIN s.rounds \subseteq Keys,
         NEW u, u = PruneDetectorRounds(s)
  PROVE  /\ DOMAIN u = TrackerFields /\ Inside(u) /\ DOMAIN u.rounds \subseteq DOMAIN s.rounds
         /\ \A k \in DOMAIN u.rounds : u.rounds[k] = s.rounds[k]
         /\ \A k \in DOMAIN s.rounds \ DOMAIN u.rounds :
              ~(k.height \in DOMAIN u.archive /\ k.round \in DOMAIN u.archive[k.height].rounds)
         /\ u.archive = s.archive /\ u.committedHeight = s.committedHeight
         /\ u.defaultValidators = s.defaultValidators /\ u.history = s.history
         /\ u.defaultTotalPower = s.defaultTotalPower
         /\ u.archiveEvictedThrough = s.archiveEvictedThrough
         /\ u.archiveLatestHeight = s.archiveLatestHeight
         /\ u.catalogueRevision = s.catalogueRevision
  <1> DEFINE kept == {k \in DOMAIN s.rounds : k.height \in DOMAIN s.archive
                                              /\ k.round \in DOMAIN s.archive[k.height].rounds}
  <1>1. u = [s EXCEPT !.rounds = [k \in kept |-> s.rounds[k]]]
    BY DEF PruneDetectorRounds, Restrict
  <1>2. \A k \in kept : /\ k \in DOMAIN s.rounds /\ k.height \in DOMAIN s.archive
                        /\ k.round \in DOMAIN s.archive[k.height].rounds
    OBVIOUS
  <1> HIDE DEF kept
  <1>3. u.rounds = [k \in kept |-> s.rounds[k]] /\ u.archive = s.archive
    BY <1>1 DEF TrackerFields
  <1>4. Inside(u)
    BY <1>2, <1>3 DEF Inside, IsFcn
  <1>5. \A k \in DOMAIN s.rounds \ DOMAIN u.rounds :
          ~(k.height \in DOMAIN u.archive /\ k.round \in DOMAIN u.archive[k.height].rounds)
    BY <1>3 DEF kept
  <1> QED BY <1>1, <1>2, <1>3, <1>4, <1>5 DEF TrackerFields

(* A height enters the archive at most once, and only while it is above    *)
(* the eviction mark; making room drops the lowest.                        *)
LEMMA CreateArchiveHeightOK ==
  ASSUME NEW s, ArchiveOK(s), Inside(s), NEW h \in Heights,
         NEW u, u = CreateArchiveHeight(s, h)
  PROVE  /\ ArchiveOK(u) /\ Inside(u) /\ SameRounds(s, u) /\ MovesOn(s, u)
         /\ \A x \in DOMAIN u.archive :
              IF x \in DOMAIN s.archive THEN u.archive[x] = s.archive[x]
              ELSE x = h /\ u.archive[x] = NewArchivedHeight
  <1> USE DEF ArchiveOK
  <1>1. CASE h <= 0 \/ h <= s.archiveEvictedThrough \/ h \in DOMAIN s.archive
    <2>1. u = s
      BY <1>1 DEF CreateArchiveHeight
    <2> QED BY <2>1, StaysPut
  <1>2. CASE h > 0 /\ h > s.archiveEvictedThrough /\ h \notin DOMAIN s.archive
    <2> DEFINE a == AddArchiveHeight(s, h)
    <2>1. u = IF Cardinality(DOMAIN a.archive) > HistorySize
              THEN PruneDetectorRounds(EvictArchiveHeight(a, Min(DOMAIN a.archive))) ELSE a
      <3>1. ~(h <= 0 \/ h <= s.archiveEvictedThrough \/ h \in DOMAIN s.archive)
        BY <1>2, DomainAssumption
      <3> QED BY <3>1 DEF CreateArchiveHeight
    <2>2. /\ DOMAIN a = TrackerFields /\ a.archive = Put(s.archive, h, NewArchivedHeight)
          /\ a.rounds = s.rounds /\ a.committedHeight = s.committedHeight
          /\ a.defaultValidators = s.defaultValidators /\ a.history = s.history
          /\ a.defaultTotalPower = s.defaultTotalPower
          /\ a.archiveEvictedThrough = s.archiveEvictedThrough
          /\ a.archiveLatestHeight = Larger(h, s.archiveLatestHeight)
          /\ a.catalogueRevision = s.catalogueRevision + 1
      BY DEF AddArchiveHeight, TrackerFields
    <2> HIDE DEF a
    <2>3. /\ DOMAIN a.archive = DOMAIN s.archive \cup {h} /\ a.archive[h] = NewArchivedHeight
          /\ \A x \in DOMAIN s.archive : a.archive[x] = s.archive[x]
      BY <1>2, <2>2 DEF Put
    <2>4. h \in Nat /\ a.archiveLatestHeight \in Nat
          /\ \A x \in DOMAIN a.archive : x \in Heights \cap Nat /\ x > s.archiveEvictedThrough
                                         /\ x <= a.archiveLatestHeight
      BY <1>2, <2>2, <2>3, LargerIs, DomainAssumption
    <2>5. /\ IsFiniteSet(DOMAIN a.archive) /\ Cardinality(DOMAIN s.archive) \in Nat
          /\ Cardinality(DOMAIN a.archive) = Cardinality(DOMAIN s.archive) + 1
      <3>1. Cardinality(DOMAIN s.archive) \in Nat
        BY FS_CardinalityType
      <3> QED BY <1>2, <2>3, <3>1, OneMore, Zenon
    <2>6. \A x \in DOMAIN a.archive : BlockOK(a.archive[x])
      BY <2>3, NewHeightOK
    <2>7. HistorySize \in Nat
      BY LimitAssumption
    <2>8. CASE Cardinality(DOMAIN a.archive) <= HistorySize
      <3>1. u = a
        BY <2>1, <2>5, <2>7, <2>8
      <3>2. ArchiveOK(a)
        BY <2>2, <2>4, <2>5, <2>6, <2>8
      <3>3. Inside(a) /\ SameRounds(s, a)
        BY <2>2, <2>3 DEF Inside, SameRounds
      <3>4. MovesOn(s, a)
        <4>1. Later(s, a)
          BY <2>2, <2>3, <3>2, SameArchiveLater
        <4> QED BY <2>2, <2>3, <4>1 DEF MovesOn
      <3> QED BY <2>3, <3>1, <3>2, <3>3, <3>4
    <2>9. CASE Cardinality(DOMAIN a.archive) > HistorySize
      <3> DEFINE low == Min(DOMAIN a.archive)  e == EvictArchiveHeight(a, low)
      <3>1. low \in DOMAIN a.archive /\ \A x \in DOMAIN a.archive : low <= x
        <4>1. DOMAIN a.archive \in SUBSET Nat /\ DOMAIN a.archive # {}
          BY <2>3, <2>4
        <4> QED BY <4>1, MinIsLeast
      <3>2. u = PruneDetectorRounds(e)
        BY <2>1, <2>9
      <3> HIDE DEF low
      <3>3. /\ DOMAIN e = TrackerFields
            /\ e.archive = [x \in DOMAIN a.archive \ {low} |-> a.archive[x]]
            /\ e.rounds = s.rounds /\ e.committedHeight = s.committedHeight
            /\ e.defaultValidators = s.defaultValidators /\ e.history = s.history
            /\ e.defaultTotalPower = s.defaultTotalPower
            /\ e.archiveEvictedThrough = Larger(low, s.archiveEvictedThrough)
            /\ e.archiveLatestHeight = a.archiveLatestHeight
            /\ e.catalogueRevision = a.catalogueRevision
        BY <2>2 DEF EvictArchiveHeight, Restrict, TrackerFields
      <3> HIDE DEF e
      <3>4. e.archiveEvictedThrough = low /\ low \in Nat /\ low > s.archiveEvictedThrough
        BY <2>4, <3>1, <3>3 DEF Larger
      <3>5. /\ DOMAIN u = TrackerFields /\ Inside(u) /\ DOMAIN u.rounds \subseteq DOMAIN s.rounds
            /\ \A k \in DOMAIN u.rounds : u.rounds[k] = s.rounds[k]
            /\ \A k \in DOMAIN s.rounds \ DOMAIN u.rounds :
                 ~(k.height \in DOMAIN u.archive /\ k.round \in DOMAIN u.archive[k.height].rounds)
            /\ u.archive = e.archive /\ u.committedHeight = e.committedHeight
            /\ u.defaultValidators = e.defaultValidators /\ u.history = e.history
            /\ u.defaultTotalPower = e.defaultTotalPower
            /\ u.archiveEvictedThrough = e.archiveEvictedThrough
            /\ u.archiveLatestHeight = e.archiveLatestHeight
            /\ u.catalogueRevision = e.catalogueRevision
        BY <3>2, <3>3, PruneIs DEF Inside
      <3>6. /\ DOMAIN u.archive = DOMAIN a.archive \ {low}
            /\ \A x \in DOMAIN u.archive : u.archive[x] = a.archive[x]
        BY <3>3, <3>5
      <3>7. IsFiniteSet(DOMAIN u.archive) /\ Cardinality(DOMAIN u.archive) <= HistorySize
        <4>1. /\ IsFiniteSet(DOMAIN a.archive \ {low})
              /\ Cardinality(DOMAIN a.archive \ {low}) = Cardinality(DOMAIN a.archive) - 1
          BY <2>5, <3>1, FS_RemoveElement
        <4> QED BY <2>5, <2>7, <3>6, <4>1
      <3>8. ArchiveOK(u)
        <4>1. \A x \in DOMAIN u.archive : /\ x \in Heights \cap Nat /\ x > u.archiveEvictedThrough
                                          /\ x <= u.archiveLatestHeight /\ BlockOK(u.archive[x])
          BY <2>4, <2>6, <3>1, <3>3, <3>4, <3>5, <3>6
        <4>2. u.archiveLatestHeight \in Nat /\ u.catalogueRevision \in Nat
              /\ u.archiveEvictedThrough \in Nat /\ u.committedHeight \in Nat
              /\ RosterOK(u.defaultValidators)
          BY <2>2, <2>4, <3>3, <3>4, <3>5
        <4> QED BY <3>5, <3>7, <4>1, <4>2
      <3>9. Later(s, u)
        <4>1. u.committedHeight >= s.committedHeight
              /\ u.archiveEvictedThrough >= s.archiveEvictedThrough
          BY <2>2, <3>3, <3>4, <3>5
        <4>2. \A x \in DOMAIN s.archive : x \in DOMAIN u.archive \/ x <= u.archiveEvictedThrough
          BY <2>3, <3>3, <3>4, <3>5, <3>6
        <4>3. \A x \in DOMAIN s.archive \cap DOMAIN u.archive : u.archive[x] = s.archive[x]
          BY <2>3, <3>6
        <4> QED BY <3>8, <4>1, <4>2, <4>3, SameArchiveLater
      <3>10. MovesOn(s, u)
        BY <2>2, <3>3, <3>5, <3>9 DEF MovesOn
      <3>11. SameRounds(s, u)
        <4>1. \A k \in DOMAIN s.rounds \ DOMAIN u.rounds : Closed(u, k)
          BY <3>5, <3>9, DroppedIsClosed
        <4> QED BY <3>5, <4>1 DEF SameRounds
      <3> QED BY <2>3, <3>5, <3>6, <3>8, <3>10, <3>11
    <2> QED BY <2>5, <2>7, <2>8, <2>9
  <1> QED BY <1>1, <1>2, DomainAssumption

BlockAt(s, h) == IF h \in DOMAIN s.archive THEN s.archive[h] ELSE NewArchivedHeight

(* c is b with round r archived, unless b has seen r or takes no more.     *)
Admits(b, c, r) ==
  \/ c = b
  \/ /\ r \in Rounds \cap Nat /\ r \notin DOMAIN b.rounds /\ r > b.evictedThrough
     /\ \E m : RosterOK(m) /\ c = RoundAdded(b, r, m)

(* u is s after round r of height h was admitted, and touched if retained. *)
Observed(s, u, h, r) ==
  /\ ArchiveOK(u) /\ Inside(u) /\ SameRounds(s, u) /\ MovesOn(s, u)
  /\ \A x \in DOMAIN u.archive : x # h => x \in DOMAIN s.archive /\ u.archive[x] = s.archive[x]
  /\ h \in DOMAIN u.archive =>
       \E c : /\ Admits(BlockAt(s, h), c, r) /\ Touched(c, u.archive[h])
              /\ u.archive[h].committed = c.committed

SetBlock(s, h, c) == [s EXCEPT !.archive[h] = c]

(* Changing the block of a retained height keeps the archive within its    *)
(* limits, and the detector inside it if no round is lost.                 *)
LEMMA SetBlockOK ==
  ASSUME NEW s, ArchiveOK(s), NEW h \in DOMAIN s.archive,
         NEW c, BlockOK(c), Extends(s.archive[h], c), NEW u, u = SetBlock(s, h, c)
  PROVE  /\ ArchiveOK(u) /\ MovesOn(s, u) /\ u.rounds = s.rounds
         /\ DOMAIN u.archive = DOMAIN s.archive /\ u.archive[h] = c
         /\ \A x \in DOMAIN s.archive : x # h => u.archive[x] = s.archive[x]
         /\ u.archiveEvictedThrough = s.archiveEvictedThrough
         /\ u.archiveLatestHeight = s.archiveLatestHeight
         /\ u.catalogueRevision = s.catalogueRevision
         /\ u.defaultTotalPower = s.defaultTotalPower
         /\ Inside(s) /\ DOMAIN s.archive[h].rounds \subseteq DOMAIN c.rounds => Inside(u)
  <1>1. /\ DOMAIN u = TrackerFields /\ u.rounds = s.rounds
        /\ DOMAIN u.archive = DOMAIN s.archive /\ u.archive[h] = c
        /\ \A x \in DOMAIN s.archive : x # h => u.archive[x] = s.archive[x]
        /\ u.archiveEvictedThrough = s.archiveEvictedThrough
        /\ u.archiveLatestHeight = s.archiveLatestHeight
        /\ u.catalogueRevision = s.catalogueRevision
        /\ u.committedHeight = s.committedHeight /\ u.defaultValidators = s.defaultValidators
        /\ u.history = s.history /\ u.defaultTotalPower = s.defaultTotalPower
    BY DEF SetBlock, ArchiveOK, TrackerFields
  <1>2. ArchiveOK(u)
    BY <1>1 DEF ArchiveOK
  <1>3. MovesOn(s, u)
    <2>1. Later(s, u)
      <3>1. \A x \in DOMAIN s.archive \cap DOMAIN u.archive :
              u.archive[x] = s.archive[x] \/ Extends(s.archive[x], u.archive[x])
        BY <1>1
      <3>2. u.committedHeight >= s.committedHeight
            /\ u.archiveEvictedThrough >= s.archiveEvictedThrough
        BY <1>1 DEF ArchiveOK
      <3> QED BY <1>1, <1>2, <3>1, <3>2, SameArchiveLater
    <2> QED BY <1>1, <2>1 DEF MovesOn, ArchiveOK
  <1>4. Inside(s) /\ DOMAIN s.archive[h].rounds \subseteq DOMAIN c.rounds => Inside(u)
    BY <1>1 DEF Inside
  <1> QED BY <1>1, <1>2, <1>3, <1>4

(* Moving on is transitive.                                                *)
LEMMA MovesOnTwice ==
  ASSUME NEW s, NEW u, NEW w, ArchiveOK(s), ArchiveOK(u), ArchiveOK(w), DOMAIN s.rounds \subseteq Keys,
         MovesOn(s, u), MovesOn(u, w), SameRounds(s, u), SameRounds(u, w)
  PROVE  MovesOn(s, w) /\ SameRounds(s, w)
  <1>1. Later(s, w)
    BY LaterTwice DEF MovesOn
  <1>2. SameRounds(s, w)
    <2>1. ASSUME NEW k \in DOMAIN s.rounds
          PROVE  k \in DOMAIN w.rounds \/ Closed(w, k)
      BY ClosedStays DEF SameRounds, MovesOn
    <2> QED BY <2>1 DEF SameRounds
  <1>3. /\ w.catalogueRevision >= s.catalogueRevision
        /\ w.catalogueRevision = s.catalogueRevision =>
             u.catalogueRevision = s.catalogueRevision /\ w.catalogueRevision = u.catalogueRevision
    BY DEF MovesOn, ArchiveOK
  <1> QED BY <1>1, <1>2, <1>3 DEF MovesOn

(* archiveRoundLocked on a retained height.                                *)
LEMMA ArchiveRoundOK ==
  ASSUME NEW s, ArchiveOK(s), Inside(s), NEW h \in DOMAIN s.archive, NEW r \in Rounds,
         NEW u, u = ArchiveRound(s, h, r)
  PROVE  /\ ArchiveOK(u) /\ Inside(u) /\ SameRounds(s, u) /\ MovesOn(s, u)
         /\ DOMAIN u.archive = DOMAIN s.archive
         /\ \A x \in DOMAIN s.archive : x # h => u.archive[x] = s.archive[x]
         /\ Admits(s.archive[h], u.archive[h], r)
  <1> DEFINE b == s.archive[h]  c == RoundAdded(b, r, s.defaultValidators)
             a == AddArchiveRound(b, r, s.defaultValidators)
  <1>1. CASE \/ r < 0 \/ r <= b.evictedThrough \/ r \in DOMAIN b.rounds
             \/ b.committed \/ h <= s.committedHeight
    <2>1. u = s
      BY <1>1 DEF ArchiveRound
    <2> QED BY <2>1, StaysPut DEF Admits
  <1>2. CASE ~(\/ r < 0 \/ r <= b.evictedThrough \/ r \in DOMAIN b.rounds
               \/ b.committed \/ h <= s.committedHeight)
    <2>1. /\ BlockOK(b) /\ RosterOK(s.defaultValidators) /\ r \in Rounds \cap Nat
          /\ r \notin DOMAIN b.rounds /\ r > b.evictedThrough
      <3>1. BlockOK(b) /\ RosterOK(s.defaultValidators)
        BY DEF ArchiveOK
      <3>2. b.evictedThrough \in Int
        BY <3>1 DEF BlockOK, BlockShape
      <3> QED BY <1>2, <3>1, <3>2, DomainAssumption
    <2>2. BlockOK(c) /\ Extends(b, c)
      <3> HIDE DEF b
      <3> QED BY <2>1, RoundAddedOK
    <2>3. Admits(b, c, r)
      BY <2>1 DEF Admits
    <2>4. u = IF Cardinality(DOMAIN a.rounds) > RoundLimit
              THEN PruneDetectorRounds(SetBlock(s, h, c)) ELSE SetBlock(s, h, c)
      BY <1>2 DEF ArchiveRound, RoundAdded, SetBlock
    <2> DEFINE w == SetBlock(s, h, c)
    <2> HIDE DEF a, c, b
    <2>5. /\ ArchiveOK(w) /\ MovesOn(s, w) /\ w.rounds = s.rounds
          /\ DOMAIN w.archive = DOMAIN s.archive /\ w.archive[h] = c
          /\ \A x \in DOMAIN s.archive : x # h => w.archive[x] = s.archive[x]
          /\ Inside(s) /\ DOMAIN s.archive[h].rounds \subseteq DOMAIN c.rounds => Inside(w)
      BY <2>2, SetBlockOK DEF b
    <2>6. SameRounds(s, w)
      BY <2>5 DEF SameRounds
    <2>7. CASE Cardinality(DOMAIN a.rounds) > RoundLimit
      <3> HIDE DEF w
      <3>1. u = PruneDetectorRounds(w)
        BY <2>4, <2>7 DEF w
      <3>2. DOMAIN w = TrackerFields /\ DOMAIN w.rounds \subseteq Keys
        BY <2>5 DEF ArchiveOK, Inside
      <3>3. /\ DOMAIN u = TrackerFields /\ Inside(u) /\ DOMAIN u.rounds \subseteq DOMAIN w.rounds
            /\ \A k \in DOMAIN u.rounds : u.rounds[k] = w.rounds[k]
            /\ \A k \in DOMAIN w.rounds \ DOMAIN u.rounds :
                 ~(k.height \in DOMAIN u.archive /\ k.round \in DOMAIN u.archive[k.height].rounds)
            /\ u.archive = w.archive /\ u.committedHeight = w.committedHeight
            /\ u.defaultValidators = w.defaultValidators /\ u.history = w.history
            /\ u.defaultTotalPower = w.defaultTotalPower
            /\ u.archiveEvictedThrough = w.archiveEvictedThrough
            /\ u.archiveLatestHeight = w.archiveLatestHeight
            /\ u.catalogueRevision = w.catalogueRevision
        BY <3>1, <3>2, PruneIs
      <3>4. ArchiveOK(u)
        BY <2>5, <3>3 DEF ArchiveOK
      <3>5. Later(s, u)
        BY <2>5, <3>3 DEF MovesOn, Later
      <3>6. MovesOn(s, u) /\ SameRounds(s, u)
        <4>1. \A k \in DOMAIN s.rounds \ DOMAIN u.rounds : Closed(u, k)
          BY <2>5, <3>3, <3>5, DroppedIsClosed
        <4>2. MovesOn(s, u)
          BY <2>5, <3>3, <3>5 DEF MovesOn
        <4> QED BY <2>5, <3>3, <4>1, <4>2 DEF SameRounds
      <3> QED BY <2>3, <2>5, <3>3, <3>4, <3>6 DEF b
    <2>8. CASE ~(Cardinality(DOMAIN a.rounds) > RoundLimit)
      <3>1. u = w
        BY <2>4, <2>8
      <3>2. c = a
        BY <2>8 DEF c, RoundAdded, a
      <3>3. DOMAIN a.rounds = DOMAIN b.rounds \cup {r}
        BY <2>1, AddArchiveRoundIs DEF a
      <3>4. Inside(w)
        BY <2>5, <3>2, <3>3 DEF b
      <3> HIDE DEF w
      <3> QED BY <2>3, <2>5, <2>6, <3>1, <3>4 DEF b
    <2> QED BY <2>7, <2>8
  <1> QED BY <1>1, <1>2

(* What archiving a round does to a block, whatever the roster.            *)
LEMMA AdmitsOK ==
  ASSUME NEW b, BlockOK(b), NEW r, NEW c, Admits(b, c, r)
  PROVE  /\ BlockOK(c) /\ Extends(b, c) /\ c.committed = b.committed
         /\ c = b \/ (c.revision > b.revision /\ c.roundsObserved = b.roundsObserved + 1)
  <1>1. CASE c = b
    BY <1>1, TouchesItself
  <1>2. CASE c # b
    <2>1. /\ r \in Rounds \cap Nat /\ r \notin DOMAIN b.rounds /\ r > b.evictedThrough
      BY <1>2 DEF Admits
    <2>2. PICK m : RosterOK(m) /\ c = RoundAdded(b, r, m)
      BY <1>2 DEF Admits
    <2>3. /\ BlockOK(c) /\ Extends(b, c)
          /\ c.roundsObserved = b.roundsObserved + 1 /\ c.revision = b.revision + 1
          /\ c.committed = b.committed
      BY <2>1, <2>2, RoundAddedOK
    <2>4. b.revision \in Nat
      BY DEF BlockOK, BlockShape
    <2> QED BY <2>3, <2>4
  <1> QED BY <1>1, <1>2

(* archiveHeightLocked and archiveRoundLocked, one after the other.        *)
LEMMA AdmitRoundOK ==
  ASSUME NEW s, ArchiveOK(s), Inside(s), NEW h \in Heights, NEW r \in Rounds,
         NEW u, u = AdmitRound(s, h, r)
  PROVE  /\ ArchiveOK(u) /\ Inside(u) /\ SameRounds(s, u) /\ MovesOn(s, u)
         /\ \A x \in DOMAIN u.archive : x # h => x \in DOMAIN s.archive /\ u.archive[x] = s.archive[x]
         /\ h \in DOMAIN u.archive => Admits(BlockAt(s, h), u.archive[h], r)
  <1> DEFINE w == ArchiveHeight(s, h)
  <1>1. /\ ArchiveOK(w) /\ Inside(w) /\ SameRounds(s, w) /\ MovesOn(s, w)
        /\ \A x \in DOMAIN w.archive :
             IF x \in DOMAIN s.archive THEN w.archive[x] = s.archive[x]
             ELSE x = h /\ w.archive[x] = NewArchivedHeight
    <2>1. CASE w = s
      <3> HIDE DEF w
      <3> QED BY <2>1, StaysPut
    <2>2. CASE w = CreateArchiveHeight(s, h)
      <3> HIDE DEF w
      <3> QED BY <2>2, CreateArchiveHeightOK
    <2> QED BY <2>1, <2>2 DEF ArchiveHeight
  <1>2. u = IF Retains(w, h) THEN ArchiveRound(w, h, r) ELSE w
    BY DEF AdmitRound
  <1> HIDE DEF w
  <1>3. h \in DOMAIN w.archive => w.archive[h] = BlockAt(s, h)
    BY <1>1 DEF BlockAt
  <1>4. CASE h \notin DOMAIN w.archive
    <2>1. u = w
      BY <1>2, <1>4 DEF Retains
    <2> QED BY <1>1, <1>4, <2>1
  <1>5. CASE h \in DOMAIN w.archive
    <2>1. u = ArchiveRound(w, h, r)
      BY <1>1, <1>2, <1>5 DEF Retains, ArchiveOK
    <2>2. /\ ArchiveOK(u) /\ Inside(u) /\ SameRounds(w, u) /\ MovesOn(w, u)
          /\ DOMAIN u.archive = DOMAIN w.archive
          /\ \A x \in DOMAIN w.archive : x # h => u.archive[x] = w.archive[x]
          /\ Admits(w.archive[h], u.archive[h], r)
      BY <1>1, <1>5, <2>1, ArchiveRoundOK
    <2>3. MovesOn(s, u) /\ SameRounds(s, u)
      BY <1>1, <2>2, MovesOnTwice DEF Inside
    <2> QED BY <1>1, <1>3, <1>5, <2>2, <2>3
  <1> QED BY <1>4, <1>5

(* A call that admits a round and then touches it.                         *)
LEMMA AdmittedThenTouched ==
  ASSUME NEW s, ArchiveOK(s), Inside(s), NEW h \in Heights, NEW r \in Rounds,
         NEW w, w = AdmitRound(s, h, r), h \in DOMAIN w.archive,
         NEW c, BlockOK(c), Touched(w.archive[h], c), c.committed = w.archive[h].committed,
         NEW u, u = SetBlock(w, h, c)
  PROVE  Observed(s, u, h, r)
  <1>1. /\ ArchiveOK(w) /\ Inside(w) /\ SameRounds(s, w) /\ MovesOn(s, w)
        /\ \A x \in DOMAIN w.archive : x # h => x \in DOMAIN s.archive /\ w.archive[x] = s.archive[x]
        /\ Admits(BlockAt(s, h), w.archive[h], r)
    BY AdmitRoundOK
  <1>2. /\ ArchiveOK(u) /\ MovesOn(w, u) /\ u.rounds = w.rounds
        /\ DOMAIN u.archive = DOMAIN w.archive /\ u.archive[h] = c
        /\ \A x \in DOMAIN w.archive : x # h => u.archive[x] = w.archive[x]
        /\ Inside(w) /\ DOMAIN w.archive[h].rounds \subseteq DOMAIN c.rounds => Inside(u)
    BY <1>1, SetBlockOK DEF Touched
  <1>3. Inside(u)
    BY <1>1, <1>2 DEF Touched
  <1>4. SameRounds(w, u)
    BY <1>2 DEF SameRounds
  <1>5. MovesOn(s, u) /\ SameRounds(s, u)
    BY <1>1, <1>2, <1>4, MovesOnTwice DEF Inside
  <1> QED BY <1>1, <1>2, <1>3, <1>5 DEF Observed

(* A call that admits a round and touches nothing, or does nothing.        *)
LEMMA AdmittedOnly ==
  ASSUME NEW s, ArchiveOK(s), Inside(s), NEW h \in Heights, NEW r \in Rounds,
         NEW u, u = s \/ u = AdmitRound(s, h, r)
  PROVE  Observed(s, u, h, r)
  <1>1. /\ ArchiveOK(u) /\ Inside(u) /\ SameRounds(s, u) /\ MovesOn(s, u)
        /\ \A x \in DOMAIN u.archive : x # h => x \in DOMAIN s.archive /\ u.archive[x] = s.archive[x]
        /\ h \in DOMAIN u.archive => Admits(BlockAt(s, h), u.archive[h], r)
    <2>1. CASE u = s
      BY <2>1, StaysPut DEF Admits, BlockAt
    <2>2. CASE u = AdmitRound(s, h, r)
      BY <2>2, AdmitRoundOK
    <2> QED BY <2>1, <2>2
  <1>2. ASSUME h \in DOMAIN u.archive
        PROVE  Touched(u.archive[h], u.archive[h])
    BY <1>1, <1>2, TouchesItself DEF ArchiveOK
  <1> QED BY <1>1, <1>2 DEF Observed

(* observeVoteLocked.                                                      *)
LEMMA ObserveVoteOK ==
  ASSUME NEW s, ArchiveOK(s), Inside(s), NEW v \in Votes, NEW u, u = ObserveVoteLocked(s, v)
  PROVE  Observed(s, u, v.height, v.round)
  <1> DEFINE h == v.height  r == v.round  w == AdmitRound(s, h, r)  b == w.archive[h]
             c == RecordVote(b, v)
  <1>1. h \in Heights /\ r \in Rounds
    BY DEF Votes
  <1>2. CASE u = s \/ u = w
    <2> HIDE DEF h, r
    <2>1. Observed(s, u, h, r)
      BY <1>1, <1>2, AdmittedOnly
    <2> QED BY <2>1 DEF h, r
  <1>3. CASE RetainsRound(w, h, r) /\ u = SetBlock(w, h, c)
    <2>1. h \in DOMAIN w.archive /\ r \in DOMAIN b.rounds
      BY <1>3 DEF RetainsRound, Retains
    <2>2. BlockOK(b)
      <3> HIDE DEF h, r, w
      <3>1. ArchiveOK(w)
        BY <1>1, AdmitRoundOK DEF w
      <3> QED BY <2>1, <3>1 DEF ArchiveOK
    <2>3. BlockOK(c) /\ Touched(b, c) /\ c.committed = b.committed
      <3> HIDE DEF b
      <3> QED BY <2>1, <2>2, RecordVoteOK
    <2> HIDE DEF h, r, w, c
    <2>4. w = AdmitRound(s, h, r)
      BY DEF w
    <2>5. Observed(s, u, h, r)
      BY <1>1, <1>3, <2>1, <2>3, <2>4, AdmittedThenTouched DEF b
    <2> QED BY <2>5 DEF h, r
  <1>4. \/ u = s \/ u = w
        \/ RetainsRound(w, h, r) /\ u = SetBlock(w, h, c)
    BY DEF ObserveVoteLocked, SetBlock
  <1> QED BY <1>2, <1>3, <1>4

(* observeRoundLocked.                                                     *)
LEMMA ObserveRoundOK ==
  ASSUME NEW s, ArchiveOK(s), Inside(s), NEW h \in Heights, NEW r \in Rounds,
         NEW proposer \in Proposers, NEW u, u = ObserveRoundLocked(s, h, r, proposer)
  PROVE  Observed(s, u, h, r)
  <1> DEFINE w == AdmitRound(s, h, r)  b == w.archive[h]  c == SetProposer(b, r, proposer)
  <1>1. CASE u = s \/ u = w
    BY <1>1, AdmittedOnly
  <1>2. CASE RetainsRound(w, h, r) /\ u = SetBlock(w, h, c)
    <2>1. h \in DOMAIN w.archive /\ r \in DOMAIN b.rounds
      BY <1>2 DEF RetainsRound, Retains
    <2>2. BlockOK(b)
      <3> HIDE DEF w
      <3>1. ArchiveOK(w)
        BY AdmitRoundOK DEF w
      <3> QED BY <2>1, <3>1 DEF ArchiveOK
    <2>3. BlockOK(c) /\ Touched(b, c) /\ c.committed = b.committed
      <3> HIDE DEF b
      <3> QED BY <2>1, <2>2, SetProposerOK
    <2> HIDE DEF w, c
    <2>4. w = AdmitRound(s, h, r)
      BY DEF w
    <2> QED BY <1>2, <2>1, <2>3, <2>4, AdmittedThenTouched DEF b
  <1>3. \/ u = s \/ u = w
        \/ RetainsRound(w, h, r) /\ u = SetBlock(w, h, c)
    BY DEF ObserveRoundLocked, SetBlock
  <1> QED BY <1>1, <1>2, <1>3

(* archiveCommitLocked: the notice touches its own height only, which it   *)
(* may bring into the archive, and is recorded there if it is the first.   *)
LEMMA ArchiveCommitOK ==
  ASSUME NEW s, ArchiveOK(s), Inside(s), NEW h \in Heights, NEW hash \in BlockHashes,
         NEW u, u = ArchiveCommit(s, h, hash)
  PROVE  /\ ArchiveOK(u) /\ Inside(u) /\ SameRounds(s, u) /\ MovesOn(s, u)
         /\ \A x \in DOMAIN u.archive : x # h => x \in DOMAIN s.archive /\ u.archive[x] = s.archive[x]
         /\ h \in DOMAIN u.archive => Touched(BlockAt(s, h), u.archive[h])
         /\ h \in DOMAIN s.archive /\ hash \notin Oversized /\ ~s.archive[h].committed =>
              h \in DOMAIN u.archive /\ u.archive[h].committed /\ u.archive[h].canonicalHash = hash
  <1> DEFINE w == CreateArchiveHeight(s, h)  b == w.archive[h]  c == Seal(b, hash)
  <1>1. /\ ArchiveOK(w) /\ Inside(w) /\ SameRounds(s, w) /\ MovesOn(s, w)
        /\ \A x \in DOMAIN w.archive :
             IF x \in DOMAIN s.archive THEN w.archive[x] = s.archive[x]
             ELSE x = h /\ w.archive[x] = NewArchivedHeight
    BY CreateArchiveHeightOK
  <1>2. h \in DOMAIN s.archive => w = s
    BY DEF CreateArchiveHeight
  <1>3. h \in DOMAIN w.archive => b = BlockAt(s, h) /\ BlockOK(b)
    BY <1>1 DEF BlockAt, ArchiveOK
  <1>4. CASE hash \in Oversized
    <2>1. u = s
      BY <1>4 DEF ArchiveCommit
    <2>2. h \in DOMAIN s.archive => Touched(s.archive[h], s.archive[h])
      BY TouchesItself DEF ArchiveOK
    <2> QED BY <1>4, <2>1, <2>2, StaysPut DEF BlockAt
  <1>5. CASE hash \notin Oversized /\ Retains(w, h) /\ (~b.committed \/ (b.canonicalHash = Nil /\ hash # Nil))
    <2>1. u = SetBlock(w, h, c)
      BY <1>5 DEF ArchiveCommit, Seal, SetBlock
    <2>2. h \in DOMAIN w.archive
      BY <1>5 DEF Retains
    <2>3. BlockOK(c) /\ Touched(b, c) /\ c.committed /\ c.canonicalHash = hash
      <3> HIDE DEF b
      <3> QED BY <1>3, <1>5, <2>2, SealOK
    <2> HIDE DEF w, c
    <2>4. /\ ArchiveOK(u) /\ MovesOn(w, u) /\ u.rounds = w.rounds
          /\ DOMAIN u.archive = DOMAIN w.archive /\ u.archive[h] = c
          /\ \A x \in DOMAIN w.archive : x # h => u.archive[x] = w.archive[x]
          /\ Inside(w) /\ DOMAIN w.archive[h].rounds \subseteq DOMAIN c.rounds => Inside(u)
      BY <1>1, <2>1, <2>2, <2>3, SetBlockOK DEF Touched
    <2>5. Inside(u) /\ SameRounds(w, u)
      BY <1>1, <2>3, <2>4 DEF Touched, SameRounds
    <2>6. MovesOn(s, u) /\ SameRounds(s, u)
      BY <1>1, <2>4, <2>5, MovesOnTwice DEF Inside
    <2>7. Touched(BlockAt(s, h), u.archive[h])
      BY <1>3, <2>2, <2>3, <2>4
    <2> QED BY <1>1, <2>2, <2>3, <2>4, <2>5, <2>6, <2>7
  <1>6. CASE hash \notin Oversized /\ ~(Retains(w, h) /\ (~b.committed \/ (b.canonicalHash = Nil /\ hash # Nil)))
    <2>1. u = w
      BY <1>6 DEF ArchiveCommit
    <2>2. h \in DOMAIN w.archive => Touched(b, b)
      <3> HIDE DEF b
      <3> QED BY <1>3, TouchesItself
    <2>3. h \in DOMAIN s.archive => s.archive[h].committed
      <3>1. h \in DOMAIN s.archive => Retains(s, h)
        BY DEF Retains, ArchiveOK
      <3> QED BY <1>2, <1>6, <3>1
    <2> HIDE DEF w
    <2> QED BY <1>1, <1>3, <2>1, <2>2, <2>3
  <1> QED BY <1>4, <1>5, <1>6

-----------------------------------------------------------------------------
(* The live rounds *)

LiveFields == {"votes", "power", "validators", "totalVotingPower", "totalVotedPower",
               "resolved", "canonicalHash", "advanced", "detected"}

(* A live round and the archived height it belongs to.  Only a resolved    *)
(* round has a canonical hash, and an unresolved one is still to come.     *)
LiveOK(rd, k, s) ==
  /\ DOMAIN rd = LiveFields /\ rd.resolved \in BOOLEAN
  /\ ~rd.resolved => k.height > s.committedHeight /\ rd.canonicalHash = Nil
  /\ rd.canonicalHash \notin Oversized \cup {Nil} =>
       /\ s.archive[k.height].committed
       /\ s.archive[k.height].canonicalHash = rd.canonicalHash

AllLive(s) == \A k \in DOMAIN s.rounds : LiveOK(s.rounds[k], k, s)

(* A height that is committed in the archive is below committedHeight.     *)
CommitsKnown(s) == \A h \in DOMAIN s.archive : s.archive[h].committed => h <= s.committedHeight

(* A round that alerted keeps its mark or is closed for good.              *)
AlertOK(s, n, k) ==
  \/ n = 0
  \/ n = 1 /\ IF k \in DOMAIN s.rounds THEN s.rounds[k].detected = TRUE ELSE Closed(s, k)

(* Evidence changes with its revision, the catalogue with its own.         *)
Continues(s, u) ==
  /\ Later(s, u)
  /\ u.catalogueRevision = s.catalogueRevision =>
       /\ DOMAIN u.archive = DOMAIN s.archive
       /\ u.archiveEvictedThrough = s.archiveEvictedThrough
       /\ u.archiveLatestHeight = s.archiveLatestHeight
       /\ u.committedHeight = s.committedHeight
  /\ \A h \in DOMAIN s.archive \cap DOMAIN u.archive : Revised(s.archive[h], u.archive[h])

(* Every call on a round continues the archive.                            *)
LEMMA ObservedContinues ==
  ASSUME NEW s, ArchiveOK(s), NEW u, NEW h, NEW r, Observed(s, u, h, r)
  PROVE  Continues(s, u) /\ (CommitsKnown(s) => CommitsKnown(u))
  <1>1. ArchiveOK(u) /\ MovesOn(s, u)
        /\ \A x \in DOMAIN u.archive : x # h => x \in DOMAIN s.archive /\ u.archive[x] = s.archive[x]
    BY DEF Observed
  <1>2. ASSUME h \in DOMAIN u.archive
        PROVE  /\ h \in DOMAIN s.archive =>
                    /\ Extends(s.archive[h], u.archive[h]) /\ Revised(s.archive[h], u.archive[h])
               /\ u.archive[h].committed = BlockAt(s, h).committed
    <2> DEFINE b == BlockAt(s, h)  d == u.archive[h]
    <2>1. BlockOK(b) /\ BlockOK(d)
      BY <1>1, <1>2, NewHeightOK DEF BlockAt, ArchiveOK
    <2>2. PICK c : Admits(b, c, r) /\ Touched(c, d) /\ d.committed = c.committed
      BY <1>2 DEF Observed
    <2> HIDE DEF b, d
    <2>3. /\ BlockOK(c) /\ Extends(b, c) /\ c.committed = b.committed
          /\ c = b \/ (c.revision > b.revision /\ c.roundsObserved = b.roundsObserved + 1)
      BY <2>1, <2>2, AdmitsOK
    <2>4. Extends(b, d)
      BY <2>1, <2>2, <2>3, ExtendsOnce DEF Touched
    <2>5. Revised(b, d)
      <3>1. CASE c = b
        BY <2>2, <3>1 DEF Touched
      <3>2. CASE c.revision > b.revision /\ c.roundsObserved = b.roundsObserved + 1
        <4>1. d.roundsObserved = b.roundsObserved + 1 /\ b.roundsObserved \in Nat
          BY <2>1, <2>2, <3>2 DEF Touched, BlockOK, BlockShape
        <4>2. [b EXCEPT !.revision = d.revision].roundsObserved = b.roundsObserved
          BY <2>1 DEF BlockOK, BlockShape, BlockFields
        <4>3. d # [b EXCEPT !.revision = d.revision]
          <5> DEFINE e == [b EXCEPT !.revision = d.revision]
          <5>1. e.roundsObserved # d.roundsObserved
            BY <4>1, <4>2
          <5> HIDE DEF e
          <5>2. d # e
            BY <5>1
          <5> QED BY <5>2 DEF e
        <4>4. d.revision >= c.revision /\ b.revision \in Nat /\ c.revision \in Nat /\ d.revision \in Nat
          BY <2>1, <2>2, <2>3 DEF Touched, Revised, BlockOK, BlockShape
        <4> QED BY <3>2, <4>3, <4>4 DEF Revised
      <3> QED BY <2>3, <3>1, <3>2
    <2> QED BY <2>2, <2>3, <2>4, <2>5 DEF b, d, BlockAt
  <1>3. \A x \in DOMAIN s.archive \cap DOMAIN u.archive :
          Extends(s.archive[x], u.archive[x]) /\ Revised(s.archive[x], u.archive[x])
    BY <1>1, <1>2, TouchesItself DEF ArchiveOK, Touched
  <1>4. Continues(s, u)
    BY <1>1, <1>3 DEF Continues, MovesOn, ArchiveOK
  <1>5. CommitsKnown(s) => CommitsKnown(u)
    <2>1. NewArchivedHeight.committed = FALSE
      BY DEF NewArchivedHeight
    <2> QED BY <1>1, <1>2, <2>1 DEF CommitsKnown, MovesOn, BlockAt
  <1> QED BY <1>4, <1>5

-----------------------------------------------------------------------------
(* The invariant of the tracker *)

(* What a call leaves of the detector when it changes no live round.       *)
LEMMA LiveLater ==
  ASSUME NEW s, ArchiveOK(s), Inside(s), AllLive(s), NEW u, ArchiveOK(u), Inside(u),
         MovesOn(s, u), SameRounds(s, u)
  PROVE  AllLive(u) /\ \A k \in Keys : \A n \in Nat : AlertOK(s, n, k) => AlertOK(u, n, k)
  <1>1. ASSUME NEW k \in DOMAIN u.rounds
        PROVE  LiveOK(u.rounds[k], k, u)
    <2>1. /\ k \in DOMAIN s.rounds /\ u.rounds[k] = s.rounds[k] /\ LiveOK(s.rounds[k], k, s)
          /\ k.height \in DOMAIN s.archive \cap DOMAIN u.archive
          /\ u.committedHeight = s.committedHeight
      BY DEF SameRounds, AllLive, Inside, MovesOn
    <2>2. Extends(s.archive[k.height], u.archive[k.height])
      BY <2>1 DEF MovesOn, Later
    <2> QED BY <2>1, <2>2 DEF LiveOK, Extends
  <1>2. ASSUME NEW k \in Keys, NEW n \in Nat, AlertOK(s, n, k)
        PROVE  AlertOK(u, n, k)
    <2>1. CASE k \in DOMAIN u.rounds
      BY <1>2, <2>1 DEF AlertOK, SameRounds
    <2>2. CASE k \notin DOMAIN u.rounds /\ k \in DOMAIN s.rounds
      BY <1>2, <2>2 DEF AlertOK, SameRounds
    <2>3. CASE k \notin DOMAIN u.rounds /\ k \notin DOMAIN s.rounds
      BY <1>2, <2>3, ClosedStays DEF AlertOK, MovesOn
    <2> QED BY <2>1, <2>2, <2>3
  <1> QED BY <1>1, <1>2 DEF AllLive

(* The tracker, apart from the history variables.                          *)
TrackerOK(s) == ArchiveOK(s) /\ Inside(s) /\ AllLive(s) /\ CommitsKnown(s)

TrackerInv == TrackerOK(t) /\ alerts \in [Keys -> Nat] /\ \A k \in Keys : AlertOK(t, alerts[k], k)

(* A call on a round keeps the tracker in order.                           *)
LEMMA ObservedOK ==
  ASSUME NEW s, TrackerOK(s), NEW u, NEW h, NEW r, Observed(s, u, h, r)
  PROVE  /\ TrackerOK(u) /\ Continues(s, u)
         /\ \A k \in Keys : \A n \in Nat : AlertOK(s, n, k) => AlertOK(u, n, k)
  <1>1. Continues(s, u) /\ CommitsKnown(u)
    BY ObservedContinues DEF TrackerOK
  <1> QED BY <1>1, LiveLater DEF TrackerOK, Observed

(* IngestVote's change to the detector.                                    *)
SetRound(s, k, rd) == [s EXCEPT !.rounds = Put(@, k, rd)]

(* A vote for an open round is tallied under its key.                      *)
LEMMA SetRoundOK ==
  ASSUME NEW s, TrackerOK(s), NEW k \in Keys, NEW rd, LiveOK(rd, k, s),
         k.height \in DOMAIN s.archive, k.round \in DOMAIN s.archive[k.height].rounds,
         NEW u, u = SetRound(s, k, rd)
  PROVE  /\ TrackerOK(u) /\ u.archive = s.archive /\ u.committedHeight = s.committedHeight
         /\ u.archiveEvictedThrough = s.archiveEvictedThrough
         /\ u.archiveLatestHeight = s.archiveLatestHeight
         /\ u.catalogueRevision = s.catalogueRevision
         /\ u.rounds[k] = rd /\ DOMAIN u.rounds = DOMAIN s.rounds \cup {k}
         /\ \A x \in DOMAIN s.rounds : x # k => u.rounds[x] = s.rounds[x]
  <1>1. /\ DOMAIN u = TrackerFields /\ u.archive = s.archive /\ u.committedHeight = s.committedHeight
        /\ u.archiveEvictedThrough = s.archiveEvictedThrough
        /\ u.archiveLatestHeight = s.archiveLatestHeight
        /\ u.catalogueRevision = s.catalogueRevision
        /\ u.defaultValidators = s.defaultValidators /\ u.rounds = Put(s.rounds, k, rd)
    BY DEF SetRound, TrackerOK, ArchiveOK, TrackerFields
  <1>2. /\ u.rounds[k] = rd /\ DOMAIN u.rounds = DOMAIN s.rounds \cup {k} /\ IsFcn(u.rounds)
        /\ \A x \in DOMAIN s.rounds : x # k => u.rounds[x] = s.rounds[x]
    BY <1>1 DEF Put, IsFcn
  <1>3. ArchiveOK(u) /\ CommitsKnown(u)
    BY <1>1 DEF TrackerOK, ArchiveOK, CommitsKnown
  <1>4. Inside(u)
    BY <1>1, <1>2 DEF TrackerOK, Inside
  <1>5. AllLive(u)
    BY <1>1, <1>2 DEF TrackerOK, AllLive, LiveOK
  <1> QED BY <1>1, <1>2, <1>3, <1>4, <1>5 DEF TrackerOK

(* IngestVote alerts only for a round that has not, marks it, and takes no *)
(* vote for a round that is closed.                                        *)
LEMMA IngestVoteOK ==
  ASSUME NEW s, TrackerOK(s), NEW v \in Votes,
         NEW u, NEW trigger, u = IngestVoteLocked(s, v).tracker,
         trigger <=> IngestVoteLocked(s, v).trigger
  PROVE  /\ TrackerOK(u) /\ Continues(s, u)
         /\ \A k \in Keys : \A n \in Nat : k # KeyOf(v) => (AlertOK(s, n, k) => AlertOK(u, n, k))
         /\ \A n \in Nat : AlertOK(s, n, KeyOf(v)) =>
              AlertOK(u, IF trigger THEN n + 1 ELSE n, KeyOf(v))
         /\ \E w : /\ Observed(s, w, v.height, v.round) /\ u.archive = w.archive
                   /\ w = ObserveVoteLocked(s, v)
                   /\ u.archiveEvictedThrough = w.archiveEvictedThrough
  <1> DEFINE w == ObserveVoteLocked(s, v)  k == KeyOf(v)
             rd == IF k \in DOMAIN w.rounds THEN w.rounds[k] ELSE NewRoundData(w)
             tallied == Tally(rd, v)
             fires == Triggers(tallied, v.type)
             judged == [tallied EXCEPT !.detected = @ \/ fires]
             skip == ~Archived(w, v) \/ v.height <= w.committedHeight \/ v.addr \in DOMAIN rd.votes
  <1>1. Observed(s, w, v.height, v.round)
    BY ObserveVoteOK DEF TrackerOK
  <1>2. /\ TrackerOK(w) /\ Continues(s, w)
        /\ \A x \in Keys : \A n \in Nat : AlertOK(s, n, x) => AlertOK(w, n, x)
    <2> HIDE DEF w
    <2> QED BY <1>1, ObservedOK
  <1>3. k \in Keys /\ k.height = v.height /\ k.round = v.round
    BY DEF KeyOf, Keys, Votes
  <1>4. CASE skip
    <2>1. u = w /\ ~trigger
      BY <1>4 DEF IngestVoteLocked
    <2> HIDE DEF w
    <2> QED BY <1>1, <1>2, <1>3, <2>1 DEF w
  <1>5. CASE ~skip
    <2>1. u = SetRound(w, k, judged) /\ (trigger <=> fires)
      BY <1>5 DEF IngestVoteLocked, SetRound
    <2>2. /\ v.height \in DOMAIN w.archive /\ v.round \in DOMAIN w.archive[v.height].rounds
          /\ v.height > w.committedHeight
      <3> HIDE DEF w, rd
      <3>1. v.height \in Int
        BY DomainAssumption DEF Votes
      <3>2. w.committedHeight \in Nat
        BY <1>2 DEF TrackerOK, ArchiveOK
      <3> QED BY <1>5, <3>1, <3>2 DEF Archived
    <2>3. LiveOK(rd, k, w)
      <3>1. CASE k \in DOMAIN w.rounds
        <4> HIDE DEF w, k
        <4> QED BY <1>2, <3>1 DEF TrackerOK, AllLive
      <3>2. CASE k \notin DOMAIN w.rounds
        <4>1. rd = NewRoundData(w)
          BY <3>2
        <4> HIDE DEF rd, w, k
        <4>2. DOMAIN rd = LiveFields /\ rd.resolved = FALSE /\ rd.canonicalHash = Nil
          BY <4>1 DEF NewRoundData, LiveFields
        <4> QED BY <1>3, <2>2, <4>2 DEF LiveOK
      <3> QED BY <3>1, <3>2
    <2>4. /\ DOMAIN judged = LiveFields /\ judged.resolved = rd.resolved
          /\ judged.canonicalHash = rd.canonicalHash /\ tallied.detected = rd.detected
          /\ judged.detected = (tallied.detected \/ fires)
      <3> HIDE DEF rd, fires
      <3>1. DOMAIN rd = LiveFields
        BY <2>3 DEF LiveOK
      <3>2. DOMAIN tallied = LiveFields /\ tallied.resolved = rd.resolved
            /\ tallied.canonicalHash = rd.canonicalHash /\ tallied.detected = rd.detected
        BY <3>1 DEF Tally, LiveFields
      <3> HIDE DEF tallied
      <3> QED BY <3>2 DEF LiveFields
    <2>5. fires => ~tallied.detected
      BY DEF Triggers
    <2> HIDE DEF judged, fires, tallied
    <2>6. LiveOK(judged, k, w)
      BY <2>3, <2>4 DEF LiveOK
    <2>7. ~Closed(w, k)
      <3> HIDE DEF w, k
      <3>1. BlockOK(w.archive[k.height]) /\ k.height > w.archiveEvictedThrough
            /\ w.archiveEvictedThrough \in Int /\ w.committedHeight \in Int /\ k.height \in Int
        BY <1>2, <1>3, <2>2, DomainAssumption DEF TrackerOK, ArchiveOK, Keys
      <3>2. /\ k.round > w.archive[k.height].evictedThrough
            /\ w.archive[k.height].evictedThrough \in Int /\ k.round \in Int
        BY <1>3, <2>2, <3>1, DomainAssumption DEF BlockOK, BlockShape, RoundsBounded
      <3> QED BY <1>3, <2>2, <3>1, <3>2 DEF Closed
    <2> HIDE DEF w, k
    <2>8. /\ TrackerOK(u) /\ u.archive = w.archive /\ u.committedHeight = w.committedHeight
          /\ u.archiveEvictedThrough = w.archiveEvictedThrough
          /\ u.archiveLatestHeight = w.archiveLatestHeight
          /\ u.catalogueRevision = w.catalogueRevision
          /\ u.rounds[k] = judged /\ DOMAIN u.rounds = DOMAIN w.rounds \cup {k}
          /\ \A x \in DOMAIN w.rounds : x # k => u.rounds[x] = w.rounds[x]
      BY <1>2, <1>3, <2>1, <2>2, <2>6, SetRoundOK
    <2>9. Continues(s, u)
      BY <1>2, <2>8 DEF Continues, Later
    <2>10. ASSUME NEW x \in Keys, NEW n \in Nat, x # k, AlertOK(s, n, x)
           PROVE  AlertOK(u, n, x)
      BY <1>2, <2>8, <2>10 DEF AlertOK, Closed
    <2>11. ASSUME NEW n \in Nat, AlertOK(s, n, k)
           PROVE  AlertOK(u, IF trigger THEN n + 1 ELSE n, k)
      <3>1. AlertOK(w, n, k)
        BY <1>2, <1>3, <2>11
      <3>2. n = 0 \/ (n = 1 /\ k \in DOMAIN w.rounds /\ rd.detected = TRUE)
        BY <2>7, <3>1 DEF AlertOK
      <3>3. k \in DOMAIN u.rounds /\ u.rounds[k].detected = (rd.detected \/ fires)
        BY <2>4, <2>8
      <3>4. CASE trigger
        <4>1. n = 0
          BY <2>1, <2>4, <2>5, <3>2, <3>4
        <4>2. u.rounds[k].detected = TRUE
          BY <2>1, <3>3, <3>4
        <4> QED BY <3>3, <3>4, <4>1, <4>2 DEF AlertOK
      <3>5. CASE ~trigger
        <4> HIDE DEF rd
        <4>1. n = 1 => u.rounds[k].detected = TRUE
          <5>1. rd.detected = TRUE => (rd.detected \/ fires) = TRUE
            OBVIOUS
          <5>2. n = 1 => rd.detected = TRUE
            BY <3>2
          <5> QED BY <3>3, <5>1, <5>2
        <4> QED BY <3>2, <3>3, <3>5, <4>1 DEF AlertOK
      <3> QED BY <3>4, <3>5
    <2> QED BY <1>1, <2>8, <2>9, <2>10, <2>11 DEF w, k
  <1> QED BY <1>4, <1>5

(* Reweighing a round changes its powers only.                             *)
LEMMA ReweighKeepsMarks ==
  ASSUME NEW rd, DOMAIN rd = LiveFields, NEW m, NEW new, new = Reweigh(rd, m)
  PROVE  /\ DOMAIN new = LiveFields /\ new.resolved = rd.resolved /\ new.advanced = rd.advanced
         /\ new.canonicalHash = rd.canonicalHash /\ new.detected = rd.detected
  <1> DEFINE power == [x \in DOMAIN rd.power |->
                         PowerOfAll(m, {a \in DOMAIN rd.votes : rd.votes[a] = x})]
             total == PowerOfAll(m, DOMAIN m)
             voted == MapThenSumSet(LAMBDA x : power[x], DOMAIN power)
  <1>1. new = IF rd.totalVotingPower # 0 THEN rd
              ELSE [rd EXCEPT !.validators = m, !.totalVotingPower = total,
                              !.power = power, !.totalVotedPower = voted]
    BY DEF Reweigh
  <1> HIDE DEF power, total, voted
  <1> QED BY <1>1 DEF LiveFields

SetRoster(s, m, power) ==
  [s EXCEPT !.defaultValidators = m, !.defaultTotalPower = power,
            !.rounds = [k \in DOMAIN @ |-> Reweigh(@[k], m)],
            !.archive = [h \in DOMAIN @ |-> FillRosters(@[h], m)]]

(* SetValidators keeps the marks of the live rounds and fills rosters that *)
(* are empty.                                                              *)
LEMMA SetValidatorsOK ==
  ASSUME NEW s, TrackerOK(s), NEW m, RosterOK(m), NEW power, NEW u, u = SetRoster(s, m, power)
  PROVE  /\ TrackerOK(u) /\ Continues(s, u)
         /\ \A k \in Keys : \A n \in Nat : AlertOK(s, n, k) => AlertOK(u, n, k)
         /\ \A h \in DOMAIN s.archive : Touched(s.archive[h], u.archive[h])
  <1>1. /\ DOMAIN u = TrackerFields /\ u.defaultValidators = m
        /\ u.rounds = [k \in DOMAIN s.rounds |-> Reweigh(s.rounds[k], m)]
        /\ u.archive = [h \in DOMAIN s.archive |-> FillRosters(s.archive[h], m)]
        /\ u.committedHeight = s.committedHeight
        /\ u.archiveEvictedThrough = s.archiveEvictedThrough
        /\ u.archiveLatestHeight = s.archiveLatestHeight
        /\ u.catalogueRevision = s.catalogueRevision
    BY DEF SetRoster, TrackerOK, ArchiveOK, TrackerFields
  <1>2. ASSUME NEW h \in DOMAIN s.archive
        PROVE  /\ BlockOK(u.archive[h]) /\ Touched(s.archive[h], u.archive[h])
               /\ u.archive[h].committed = s.archive[h].committed
    <2>1. BlockOK(s.archive[h]) /\ u.archive[h] = FillRosters(s.archive[h], m)
      BY <1>1 DEF TrackerOK, ArchiveOK
    <2> QED BY <2>1, FillRostersOK
  <1>3. ArchiveOK(u)
    BY <1>1, <1>2 DEF TrackerOK, ArchiveOK
  <1>4. Inside(u)
    <2>1. IsFcn(u.rounds) /\ DOMAIN u.rounds = DOMAIN s.rounds
      BY <1>1 DEF IsFcn
    <2> QED BY <1>1, <1>2, <2>1 DEF TrackerOK, Inside, Touched
  <1>5. ASSUME NEW k \in DOMAIN s.rounds
        PROVE  /\ DOMAIN u.rounds[k] = LiveFields /\ u.rounds[k].resolved = s.rounds[k].resolved
               /\ u.rounds[k].canonicalHash = s.rounds[k].canonicalHash
               /\ u.rounds[k].detected = s.rounds[k].detected
    <2>1. DOMAIN s.rounds[k] = LiveFields /\ u.rounds[k] = Reweigh(s.rounds[k], m)
      BY <1>1 DEF TrackerOK, AllLive, LiveOK
    <2> QED BY <2>1, ReweighKeepsMarks
  <1>6. AllLive(u)
    <2>1. ASSUME NEW k \in DOMAIN u.rounds
          PROVE  LiveOK(u.rounds[k], k, u)
      <3>1. k \in DOMAIN s.rounds /\ k.height \in DOMAIN s.archive /\ LiveOK(s.rounds[k], k, s)
        BY <1>1 DEF TrackerOK, AllLive, Inside
      <3>2. Extends(s.archive[k.height], u.archive[k.height])
        BY <1>2, <3>1 DEF Touched
      <3> QED BY <1>1, <1>5, <3>1, <3>2 DEF LiveOK, Extends
    <2> QED BY <2>1 DEF AllLive
  <1>7. CommitsKnown(u)
    BY <1>1, <1>2 DEF TrackerOK, CommitsKnown
  <1>8. Later(s, u)
    BY <1>1, <1>2 DEF Later, Touched, TrackerOK, ArchiveOK
  <1>9. Continues(s, u)
    BY <1>1, <1>2, <1>8 DEF Continues, Touched
  <1>10. ASSUME NEW k \in Keys, NEW n \in Nat, AlertOK(s, n, k)
         PROVE  AlertOK(u, n, k)
    <2>1. CASE k \in DOMAIN s.rounds
      BY <1>1, <1>5, <1>10, <2>1 DEF AlertOK
    <2>2. CASE k \notin DOMAIN s.rounds
      <3>1. k \notin DOMAIN u.rounds
        BY <1>1, <2>2
      <3> QED BY <1>3, <1>8, <1>10, <2>2, <3>1, ClosedStays DEF AlertOK, TrackerOK
    <2> QED BY <2>1, <2>2
  <1> QED BY <1>2, <1>3, <1>4, <1>6, <1>7, <1>9, <1>10 DEF TrackerOK

Advance(s, h, r) ==
  [s EXCEPT !.rounds = [k \in DOMAIN @ |->
     IF k.height = h /\ k.round = r THEN [@[k] EXCEPT !.advanced = TRUE] ELSE @[k]]]

(* MarkRoundAdvanced changes nothing but the advanced flags.               *)
LEMMA MarkRoundAdvancedOK ==
  ASSUME NEW s, TrackerOK(s), NEW h, NEW r, NEW u, u = Advance(s, h, r)
  PROVE  /\ TrackerOK(u) /\ Continues(s, u) /\ u.archive = s.archive
         /\ \A k \in Keys : \A n \in Nat : AlertOK(s, n, k) => AlertOK(u, n, k)
  <1>1. /\ DOMAIN u = TrackerFields /\ u.defaultValidators = s.defaultValidators
        /\ u.rounds = [k \in DOMAIN s.rounds |->
              IF k.height = h /\ k.round = r THEN [s.rounds[k] EXCEPT !.advanced = TRUE]
              ELSE s.rounds[k]]
        /\ u.archive = s.archive
        /\ u.committedHeight = s.committedHeight
        /\ u.archiveEvictedThrough = s.archiveEvictedThrough
        /\ u.archiveLatestHeight = s.archiveLatestHeight
        /\ u.catalogueRevision = s.catalogueRevision
    BY DEF Advance, TrackerOK, ArchiveOK, TrackerFields
  <1>2. ArchiveOK(u) /\ CommitsKnown(u)
    BY <1>1 DEF TrackerOK, ArchiveOK, CommitsKnown
  <1>3. Inside(u)
    BY <1>1 DEF TrackerOK, Inside, IsFcn
  <1>4. ASSUME NEW k \in DOMAIN s.rounds
        PROVE  /\ DOMAIN u.rounds[k] = LiveFields /\ u.rounds[k].resolved = s.rounds[k].resolved
               /\ u.rounds[k].canonicalHash = s.rounds[k].canonicalHash
               /\ u.rounds[k].detected = s.rounds[k].detected
    <2>1. DOMAIN s.rounds[k] = LiveFields
      BY DEF TrackerOK, AllLive, LiveOK
    <2> QED BY <1>1, <2>1 DEF LiveFields
  <1>5. AllLive(u)
    BY <1>1, <1>4 DEF TrackerOK, AllLive, LiveOK
  <1>6. Continues(s, u)
    <2>1. Later(s, u)
      BY <1>1, StaysPut DEF TrackerOK, MovesOn, Later
    <2> QED BY <1>1, <2>1 DEF Continues, Revised
  <1>7. ASSUME NEW k \in Keys, NEW n \in Nat, AlertOK(s, n, k)
        PROVE  AlertOK(u, n, k)
    BY <1>1, <1>4, <1>7 DEF AlertOK, Closed
  <1> QED BY <1>1, <1>2, <1>3, <1>5, <1>6, <1>7 DEF TrackerOK

(* ResolveCommit closes the rounds up to the height committed and marks    *)
(* those of the height with the hash that the archive shows.               *)
LEMMA ResolveCommitOK ==
  ASSUME NEW s, TrackerOK(s), NEW h \in Heights, NEW hash \in BlockHashes,
         NEW u, u = ResolveCommitLocked(s, h, hash)
  PROVE  /\ TrackerOK(u) /\ Continues(s, u)
         /\ \A k \in Keys : \A n \in Nat : AlertOK(s, n, k) => AlertOK(u, n, k)
         /\ u.archive = ArchiveCommit(s, h, hash).archive
  <1> DEFINE w == ArchiveCommit(s, h, hash)
             kept == {k \in DOMAIN w.rounds : k.height >= h - HistorySize}
  <1>1. /\ ArchiveOK(w) /\ Inside(w) /\ SameRounds(s, w) /\ MovesOn(s, w)
        /\ \A x \in DOMAIN w.archive : x # h => x \in DOMAIN s.archive /\ w.archive[x] = s.archive[x]
        /\ h \in DOMAIN w.archive => Touched(BlockAt(s, h), w.archive[h])
        /\ h \in DOMAIN s.archive /\ hash \notin Oversized /\ ~s.archive[h].committed =>
             h \in DOMAIN w.archive /\ w.archive[h].committed /\ w.archive[h].canonicalHash = hash
    BY ArchiveCommitOK DEF TrackerOK
  <1>2. /\ DOMAIN u = TrackerFields /\ u.defaultValidators = w.defaultValidators
        /\ u.rounds = [k \in kept |-> Resolve(w.rounds[k], k, h, hash)]
        /\ u.archive = w.archive /\ u.committedHeight = Larger(h, w.committedHeight)
        /\ u.archiveEvictedThrough = w.archiveEvictedThrough
        /\ u.archiveLatestHeight = w.archiveLatestHeight
        /\ u.catalogueRevision = IF h > w.committedHeight THEN w.catalogueRevision + 1
                                 ELSE w.catalogueRevision
    <2> HIDE DEF w
    <2>1. DOMAIN w = TrackerFields
      BY <1>1 DEF ArchiveOK
    <2> QED BY <2>1 DEF ResolveCommitLocked, TrackerFields, w
  <1>3. /\ h \in Int /\ s.committedHeight \in Nat /\ w.committedHeight = s.committedHeight
        /\ w.catalogueRevision \in Nat /\ s.catalogueRevision \in Nat /\ HistorySize \in Nat
    BY <1>1, DomainAssumption, LimitAssumption DEF TrackerOK, ArchiveOK, MovesOn
  <1> HIDE DEF w
  <1>4. u.committedHeight \in Nat /\ u.committedHeight >= s.committedHeight /\ h <= u.committedHeight
    BY <1>2, <1>3 DEF Larger
  <1>5. ArchiveOK(u)
    <2>1. u.catalogueRevision \in Nat
      BY <1>2, <1>3
    <2> QED BY <1>1, <1>2, <1>4, <2>1 DEF ArchiveOK
  <1>6. \A k \in kept : k \in DOMAIN w.rounds /\ k \in DOMAIN s.rounds /\ w.rounds[k] = s.rounds[k]
    BY <1>1 DEF SameRounds
  <1>7. \A k \in DOMAIN w.rounds : k \in kept \/ k.height <= u.committedHeight
    BY <1>1, <1>3, <1>4, DomainAssumption DEF Inside, Keys
  <1> HIDE DEF kept
  <1>8. Inside(u)
    BY <1>1, <1>2, <1>6 DEF Inside, IsFcn
  <1>9. AllLive(u)
    <2>1. ASSUME NEW k \in kept
          PROVE  LiveOK(u.rounds[k], k, u)
      <3> DEFINE rd == s.rounds[k]
      <3>1. /\ LiveOK(rd, k, s) /\ u.rounds[k] = Resolve(rd, k, h, hash)
            /\ k.height \in DOMAIN s.archive /\ k.height \in DOMAIN w.archive /\ k.height \in Int
        <4>1. k \in DOMAIN s.rounds /\ k \in DOMAIN w.rounds /\ w.rounds[k] = rd
          BY <1>6
        <4>2. LiveOK(rd, k, s) /\ k.height \in DOMAIN s.archive /\ k.height \in DOMAIN w.archive
              /\ k \in Keys
          BY <1>1, <4>1 DEF TrackerOK, AllLive, Inside
        <4>3. k.height \in Int
          BY <4>2, DomainAssumption DEF Keys
        <4>4. u.rounds[k] = Resolve(w.rounds[k], k, h, hash)
          BY <1>2
        <4> QED BY <4>1, <4>2, <4>3, <4>4
      <3>2. Extends(s.archive[k.height], w.archive[k.height])
        BY <1>1, <3>1 DEF MovesOn, Later
      <3> HIDE DEF rd
      <3>3. CASE rd.resolved \/ k.height > h
        <4>1. u.rounds[k] = rd
          BY <3>1, <3>3 DEF Resolve
        <4>2. ~rd.resolved => k.height > u.committedHeight
          BY <1>2, <1>3, <3>1, <3>3 DEF LiveOK, Larger
        <4> QED BY <1>2, <3>1, <3>2, <4>1, <4>2 DEF LiveOK, Extends
      <3>4. CASE ~(rd.resolved \/ k.height > h)
        <4>1. /\ DOMAIN u.rounds[k] = LiveFields /\ u.rounds[k].resolved = TRUE
              /\ u.rounds[k].canonicalHash = IF k.height = h THEN hash ELSE rd.canonicalHash
          BY <3>1, <3>4 DEF Resolve, LiveOK, LiveFields
        <4>2. rd.canonicalHash = Nil /\ k.height > s.committedHeight
          BY <3>1, <3>4 DEF LiveOK
        <4>3. k.height = h => ~s.archive[h].committed
          BY <1>3, <3>1, <4>2 DEF TrackerOK, CommitsKnown
        <4>4. u.rounds[k].canonicalHash \notin Oversized \cup {Nil} =>
                /\ u.archive[k.height].committed
                /\ u.archive[k.height].canonicalHash = u.rounds[k].canonicalHash
          BY <1>1, <1>2, <3>1, <4>1, <4>2, <4>3
        <4> QED BY <4>1, <4>4 DEF LiveOK
      <3> QED BY <3>3, <3>4
    <2> QED BY <1>2, <2>1 DEF AllLive
  <1>10. CommitsKnown(u)
    BY <1>1, <1>2, <1>3, <1>4 DEF TrackerOK, ArchiveOK, CommitsKnown
  <1>11. Later(s, u)
    BY <1>1, <1>2, <1>4 DEF MovesOn, Later
  <1>12. Continues(s, u)
    <2>1. \A x \in DOMAIN s.archive \cap DOMAIN u.archive : Revised(s.archive[x], u.archive[x])
      BY <1>1, <1>2 DEF Touched, BlockAt, Revised
    <2>2. u.catalogueRevision = s.catalogueRevision =>
            w.catalogueRevision = s.catalogueRevision /\ u.committedHeight = s.committedHeight
      BY <1>1, <1>2, <1>3 DEF MovesOn, Larger
    <2> QED BY <1>1, <1>2, <1>11, <2>1, <2>2 DEF Continues, MovesOn
  <1>13. ASSUME NEW k \in Keys, NEW n \in Nat, AlertOK(s, n, k)
         PROVE  AlertOK(u, n, k)
    <2>1. CASE k \in kept
      <3>1. /\ k \in DOMAIN u.rounds /\ k \in DOMAIN s.rounds /\ DOMAIN s.rounds[k] = LiveFields
            /\ u.rounds[k] = Resolve(s.rounds[k], k, h, hash)
        BY <1>2, <1>6, <2>1 DEF TrackerOK, AllLive, LiveOK
      <3>2. u.rounds[k].detected = s.rounds[k].detected
        BY <3>1 DEF Resolve, LiveFields
      <3> QED BY <1>13, <3>1, <3>2 DEF AlertOK
    <2>2. CASE k \notin kept /\ k \in DOMAIN w.rounds
      BY <1>2, <1>7, <1>13, <2>2 DEF AlertOK, Closed
    <2>3. CASE k \notin kept /\ k \notin DOMAIN w.rounds /\ k \in DOMAIN s.rounds
      <3>1. Closed(w, k)
        BY <1>1, <2>3 DEF SameRounds
      <3>2. Closed(u, k)
        <4>1. k.height \in Int
          BY DomainAssumption DEF Keys
        <4> QED BY <1>2, <1>3, <1>4, <3>1, <4>1 DEF Closed
      <3> QED BY <1>2, <1>13, <2>3, <3>2 DEF AlertOK
    <2>4. CASE k \notin kept /\ k \notin DOMAIN s.rounds
      <3>1. n = 1 => Closed(u, k)
        BY <1>5, <1>11, <1>13, <2>4, ClosedStays DEF AlertOK, TrackerOK
      <3> QED BY <1>2, <1>13, <2>4, <3>1 DEF AlertOK
    <2> QED BY <2>1, <2>2, <2>3, <2>4
  <1> QED BY <1>2, <1>5, <1>8, <1>9, <1>10, <1>12, <1>13 DEF TrackerOK, w

(* The report shows nothing but the block, the heights retained and the    *)
(* numbers that decide its status.                                         *)
LEMMA ReportOf ==
  ASSUME NEW s, NEW u, NEW h, DOMAIN u.archive = DOMAIN s.archive,
         u.archiveEvictedThrough = s.archiveEvictedThrough,
         u.archiveLatestHeight = s.archiveLatestHeight, u.committedHeight = s.committedHeight,
         h \in DOMAIN s.archive => u.archive[h] = s.archive[h]
  PROVE  Investigation(u, h) = Investigation(s, h)
  <1>1. CASE h \in DOMAIN s.archive
    <2>1. u.archive[h] = s.archive[h] /\ h \in DOMAIN u.archive
      BY <1>1
    <2>2. Header(u, h) = Header(s, h)
      BY <1>1, <2>1 DEF Header
    <2> QED BY <1>1, <2>1, <2>2 DEF Investigation
  <1>2. CASE h \notin DOMAIN s.archive
    <2>1. Header(u, h) = Header(s, h)
      BY <1>2 DEF Header
    <2> QED BY <1>2, <2>1 DEF Investigation
  <1> QED BY <1>1, <1>2

(* What the archive's readers compare tells them what changed.             *)
LEMMA ContinuesHistory ==
  ASSUME ArchiveOK(t), ArchiveOK(t'), Continues(t, t')
  PROVE  EvidenceRevision /\ VersionIdentifiesReport /\ CommitEvidenceStable
  <1>1. EvidenceRevision
    BY DEF Continues, EvidenceRevision, Revised
  <1>2. CommitEvidenceStable
    BY DEF Continues, Later, CommitEvidenceStable, Extends
  <1>3. VersionIdentifiesReport
    <2>1. ASSUME NEW h \in Heights, InvestigationVersion(t', h) = InvestigationVersion(t, h)
          PROVE  Investigation(t', h) = Investigation(t, h)
      <3>1. /\ t'.catalogueRevision = t.catalogueRevision
            /\ (IF h \in DOMAIN t'.archive THEN t'.archive[h].revision ELSE 0)
               = (IF h \in DOMAIN t.archive THEN t.archive[h].revision ELSE 0)
        BY <2>1 DEF InvestigationVersion
      <3>2. /\ DOMAIN t'.archive = DOMAIN t.archive
            /\ t'.archiveEvictedThrough = t.archiveEvictedThrough
            /\ t'.archiveLatestHeight = t.archiveLatestHeight
            /\ t'.committedHeight = t.committedHeight
        BY <3>1 DEF Continues
      <3>3. h \in DOMAIN t.archive => t'.archive[h] = t.archive[h]
        <4> SUFFICES ASSUME h \in DOMAIN t.archive PROVE t'.archive[h] = t.archive[h]
          OBVIOUS
        <4>1. Revised(t.archive[h], t'.archive[h]) /\ t'.archive[h].revision = t.archive[h].revision
          BY <3>1, <3>2 DEF Continues
        <4>2. t.archive[h].revision \in Nat
          BY DEF ArchiveOK, BlockOK, BlockShape
        <4> QED BY <4>1, <4>2 DEF Revised
      <3> QED BY <3>2, <3>3, ReportOf
    <2> QED BY <2>1 DEF VersionIdentifiesReport
  <1> QED BY <1>1, <1>2, <1>3

(* The tracker starts in order.                                            *)
LEMMA InitOK == Init => TrackerInv
  <1> SUFFICES ASSUME Init PROVE TrackerInv
    OBVIOUS
  <1>1. /\ DOMAIN t = TrackerFields /\ t.archive = NoEntries /\ t.rounds = NoEntries
        /\ t.defaultValidators = NoEntries /\ t.committedHeight = 0
        /\ t.archiveEvictedThrough = 0 /\ t.archiveLatestHeight = 0 /\ t.catalogueRevision = 0
    BY DEF Init, TrackerFields
  <1>2. /\ DOMAIN t.archive = {} /\ DOMAIN t.rounds = {} /\ IsFcn(t.rounds)
        /\ DOMAIN t.defaultValidators = {} /\ t.defaultValidators \in [{} -> Nat]
    BY <1>1 DEF NoEntries, IsFcn
  <1>3. IsFiniteSet(DOMAIN t.archive) /\ Cardinality(DOMAIN t.archive) <= HistorySize
    BY <1>2, FS_EmptySet, LimitAssumption
  <1>4. RosterOK(t.defaultValidators)
    BY <1>2, FS_EmptySet DEF RosterOK
  <1>5. ArchiveOK(t)
    BY <1>1, <1>2, <1>3, <1>4 DEF ArchiveOK
  <1>6. Inside(t) /\ AllLive(t) /\ CommitsKnown(t)
    BY <1>2 DEF Inside, AllLive, CommitsKnown
  <1>7. alerts = [k \in Keys |-> 0]
    BY DEF Init
  <1>8. alerts \in [Keys -> Nat] /\ \A k \in Keys : AlertOK(t, alerts[k], k)
    BY <1>7 DEF AlertOK
  <1> QED BY <1>5, <1>6, <1>8 DEF TrackerInv, TrackerOK

(* Every call keeps it in order and continues the archive.                 *)
LEMMA NextOK ==
  ASSUME TrackerInv, [Next]_vars
  PROVE  TrackerInv' /\ Continues(t, t')
  <1> USE DEF TrackerInv
  <1>1. ASSUME NEW m \in Rosters, SetValidators(m)
        PROVE  TrackerInv' /\ Continues(t, t')
    <2>1. RosterOK(m)
      BY RosterAssumption DEF RosterOK
    <2> DEFINE power == PowerOfAll(m, DOMAIN m)
    <2>2. t' = SetRoster(t, m, power) /\ alerts' = alerts
      BY <1>1 DEF SetValidators, SetRoster
    <2> HIDE DEF power
    <2>3. /\ TrackerOK(t') /\ Continues(t, t')
          /\ \A k \in Keys : \A n \in Nat : AlertOK(t, n, k) => AlertOK(t', n, k)
      BY <2>1, <2>2, SetValidatorsOK
    <2> QED BY <2>2, <2>3
  <1>2. ASSUME NEW h \in Heights, NEW r \in Rounds, NEW p \in Proposers, ObserveRound(h, r, p)
        PROVE  TrackerInv' /\ Continues(t, t')
    <2>1. t' = ObserveRoundLocked(t, h, r, p) /\ alerts' = alerts
      BY <1>2 DEF ObserveRound
    <2>2. Observed(t, t', h, r)
      BY <2>1, ObserveRoundOK DEF TrackerOK
    <2>3. /\ TrackerOK(t') /\ Continues(t, t')
          /\ \A k \in Keys : \A n \in Nat : AlertOK(t, n, k) => AlertOK(t', n, k)
      BY <2>2, ObservedOK
    <2> QED BY <2>1, <2>3
  <1>3. ASSUME NEW v \in Votes, ObserveVote(v)
        PROVE  TrackerInv' /\ Continues(t, t')
    <2>1. t' = ObserveVoteLocked(t, v) /\ alerts' = alerts
      BY <1>3 DEF ObserveVote
    <2>2. Observed(t, t', v.height, v.round)
      BY <2>1, ObserveVoteOK DEF TrackerOK
    <2>3. /\ TrackerOK(t') /\ Continues(t, t')
          /\ \A k \in Keys : \A n \in Nat : AlertOK(t, n, k) => AlertOK(t', n, k)
      BY <2>2, ObservedOK
    <2> QED BY <2>1, <2>3
  <1>4. ASSUME NEW v \in Votes, IngestVote(v)
        PROVE  TrackerInv' /\ Continues(t, t')
    <2> DEFINE trigger == IngestVoteLocked(t, v).trigger
    <2>1. /\ t' = IngestVoteLocked(t, v).tracker
          /\ alerts' = IF trigger THEN [alerts EXCEPT ![KeyOf(v)] = @ + 1] ELSE alerts
      BY <1>4 DEF IngestVote
    <2>2. /\ TrackerOK(t') /\ Continues(t, t')
          /\ \A k \in Keys : \A n \in Nat : k # KeyOf(v) => (AlertOK(t, n, k) => AlertOK(t', n, k))
          /\ \A n \in Nat : AlertOK(t, n, KeyOf(v)) =>
               AlertOK(t', IF trigger THEN n + 1 ELSE n, KeyOf(v))
      BY <2>1, IngestVoteOK
    <2> HIDE DEF trigger
    <2>3. alerts' \in [Keys -> Nat]
      <3>1. KeyOf(v) \in Keys
        BY DEF KeyOf, Keys, Votes
      <3>2. CASE trigger
        BY <2>1, <3>1, <3>2
      <3>3. CASE ~trigger
        BY <2>1, <3>3
      <3> QED BY <3>2, <3>3
    <2>4. ASSUME NEW k \in Keys
          PROVE  AlertOK(t', alerts'[k], k)
      <3>1. alerts[k] \in Nat /\ AlertOK(t, alerts[k], k)
        OBVIOUS
      <3>2. CASE k # KeyOf(v)
        <4>1. alerts'[k] = alerts[k]
          BY <2>1, <3>2
        <4> QED BY <2>2, <3>1, <3>2, <4>1
      <3>3. CASE k = KeyOf(v)
        <4>1. alerts'[k] = IF trigger THEN alerts[k] + 1 ELSE alerts[k]
          BY <2>1, <3>3
        <4> QED BY <2>2, <3>1, <3>3, <4>1
      <3> QED BY <3>2, <3>3
    <2> QED BY <2>2, <2>3, <2>4
  <1>5. ASSUME NEW h \in Heights, NEW r \in Rounds, MarkRoundAdvanced(h, r)
        PROVE  TrackerInv' /\ Continues(t, t')
    <2>1. t' = Advance(t, h, r) /\ alerts' = alerts
      BY <1>5 DEF MarkRoundAdvanced, Advance
    <2>2. /\ TrackerOK(t') /\ Continues(t, t')
          /\ \A k \in Keys : \A n \in Nat : AlertOK(t, n, k) => AlertOK(t', n, k)
      BY <2>1, MarkRoundAdvancedOK
    <2> QED BY <2>1, <2>2
  <1>6. ASSUME NEW h \in Heights, NEW hash \in BlockHashes, ResolveCommit(h, hash)
        PROVE  TrackerInv' /\ Continues(t, t')
    <2>1. t' = ResolveCommitLocked(t, h, hash) /\ alerts' = alerts
      BY <1>6 DEF ResolveCommit
    <2>2. /\ TrackerOK(t') /\ Continues(t, t')
          /\ \A k \in Keys : \A n \in Nat : AlertOK(t, n, k) => AlertOK(t', n, k)
      BY <2>1, ResolveCommitOK
    <2> QED BY <2>1, <2>2
  <1>7. CASE UNCHANGED vars
    <2>1. t' = t /\ alerts' = alerts
      BY <1>7 DEF vars
    <2>2. Continues(t, t)
      BY StaysPut DEF TrackerOK, MovesOn, Continues, Revised
    <2>3. TrackerOK(t') /\ \A k \in Keys : AlertOK(t', alerts'[k], k)
      BY <2>1
    <2> QED BY <2>1, <2>2, <2>3
  <1> QED BY <1>1, <1>2, <1>3, <1>4, <1>5, <1>6, <1>7 DEF Next

(* The invariant says what the limits, the alerts and the detector need.   *)
LEMMA InvImplies ==
  ASSUME TrackerInv
  PROVE  /\ Len(t.history) <= 4 * HistorySize => RetentionBounded
         /\ EvidenceBounded /\ OneAlertPerRound
         /\ DetectorInsideArchive /\ LiveAboveCommitted /\ CanonicalAgreement
  <1> USE DEF TrackerInv, TrackerOK
  <1>1. Len(t.history) <= 4 * HistorySize => RetentionBounded
    BY SMTT(30) DEF RetentionBounded, ArchiveOK, BlockOK, RoundsBounded
  <1>2. EvidenceBounded
    BY ZenonT(60) DEF EvidenceBounded, ArchiveOK, BlockOK, RoundsOK, RoundOK, VoteOK
  <1>3. OneAlertPerRound
    <2>1. ASSUME NEW k \in Keys PROVE alerts[k] <= 1
      BY <2>1 DEF AlertOK
    <2> QED BY <2>1 DEF OneAlertPerRound
  <1>4. DetectorInsideArchive
    BY DEF Inside, DetectorInsideArchive
  <1>5. LiveAboveCommitted /\ CanonicalAgreement
    BY DEF AllLive, LiveOK, LiveAboveCommitted, CanonicalAgreement
  <1> QED BY <1>1, <1>2, <1>3, <1>4, <1>5

(* Whatever the callers do, the tracker is in order.                       *)
THEOREM TrackerInvariant == Spec => []TrackerInv
  <1>1. Init => TrackerInv
    BY InitOK
  <1>2. TrackerInv /\ [Next]_vars => TrackerInv'
    BY NextOK
  <1> QED BY <1>1, <1>2, PTL DEF Spec

(* A round alerts at most once, however often it is pruned and its votes   *)
(* are delivered again.                                                    *)
THEOREM AlertsOnce == Spec => []OneAlertPerRound
  <1>1. TrackerInv => OneAlertPerRound
    BY InvImplies
  <1> QED BY <1>1, TrackerInvariant, PTL

(* The detector keeps no round that the archive has given up, no           *)
(* unresolved round that is already committed, and no canonical hash but   *)
(* the one the archive shows.                                              *)
THEOREM DetectorFollowsArchive ==
  Spec => [](DetectorInsideArchive /\ LiveAboveCommitted /\ CanonicalAgreement)
  <1>1. TrackerInv => DetectorInsideArchive /\ LiveAboveCommitted /\ CanonicalAgreement
    BY InvImplies
  <1> QED BY <1>1, TrackerInvariant, PTL

-----------------------------------------------------------------------------
(* What readers see: the tracker implements Archive *)

ViewOf(b) ==
  [evidence |-> b.revision,
   seal |-> IF ~b.committed THEN 0 ELSE IF b.canonicalHash = Nil THEN 1 ELSE 2,
   lost |-> b.roundsEvicted]

(* d is b after at most n changes of its evidence, of which at most one    *)
(* evicted a round; none did unless the height was open.                   *)
Counted(b, d, open, n) ==
  /\ d.committed = b.committed /\ d.canonicalHash = b.canonicalHash
  /\ d.revision \in b.revision..(b.revision + n)
  /\ \/ d.roundsEvicted = b.roundsEvicted
     \/ open /\ ~b.committed /\ d.revision > b.revision /\ d.roundsEvicted = b.roundsEvicted + 1

(* A changed vote or proposer counts once and evicts nothing.              *)
Once(b, d) ==
  /\ d.committed = b.committed /\ d.canonicalHash = b.canonicalHash
  /\ d.roundsEvicted = b.roundsEvicted /\ d.revision \in {b.revision, b.revision + 1}

(* A round that is archived counts once; the first of a height evicts none. *)
LEMMA RoundAddedCounts ==
  ASSUME NEW b, BlockOK(b), NEW roster, RosterOK(roster),
         NEW r \in Rounds \cap Nat, r \notin DOMAIN b.rounds, r > b.evictedThrough,
         NEW c, c = RoundAdded(b, r, roster)
  PROVE  /\ c.committed = b.committed /\ c.canonicalHash = b.canonicalHash
         /\ c.revision = b.revision + 1
         /\ \/ c.roundsEvicted = b.roundsEvicted
            \/ DOMAIN b.rounds # {} /\ c.roundsEvicted = b.roundsEvicted + 1
  <1> DEFINE a == AddArchiveRound(b, r, roster)
  <1>1. /\ BlockShape(a) /\ DOMAIN a.rounds = DOMAIN b.rounds \cup {r}
        /\ Cardinality(DOMAIN a.rounds) = Cardinality(DOMAIN b.rounds) + 1
        /\ a.roundsEvicted = b.roundsEvicted
    BY AddArchiveRoundIs
  <1>2. c.committed = b.committed /\ c.canonicalHash = b.canonicalHash /\ c.revision = b.revision + 1
    BY RoundAddedOK
  <1>3. c = IF Cardinality(DOMAIN a.rounds) > RoundLimit
            THEN EvictArchiveRound(a, Min(DOMAIN a.rounds)) ELSE a
    BY DEF RoundAdded
  <1> HIDE DEF a
  <1>4. CASE Cardinality(DOMAIN a.rounds) > RoundLimit
    <2> DEFINE low == Min(DOMAIN a.rounds)
    <2>1. c = EvictArchiveRound(a, low)
      BY <1>3, <1>4
    <2> HIDE DEF low
    <2>2. c.roundsEvicted = a.roundsEvicted + 1
      BY <1>1, <2>1 DEF EvictArchiveRound, BlockShape, BlockFields
    <2>3. DOMAIN b.rounds # {}
      <3>1. Cardinality({}) = 0
        BY FS_EmptySet
      <3> QED BY <1>1, <1>4, <3>1, LimitAssumption
    <2> QED BY <1>1, <1>2, <2>2, <2>3
  <1>5. CASE ~(Cardinality(DOMAIN a.rounds) > RoundLimit)
    BY <1>1, <1>2, <1>3, <1>5
  <1> QED BY <1>4, <1>5

(* A recorded vote counts once.                                            *)
LEMMA RecordVoteCounts ==
  ASSUME NEW b, BlockOK(b), NEW v, NEW c, c = RecordVote(b, v)
  PROVE  Once(b, c)
  <1> DEFINE r == v.round
  <1>1. DOMAIN b = BlockFields
    BY DEF BlockOK, BlockShape
  <1>2. c = b \/ \E n : \E x \in {b.revision, b.revision + 1} : c = Replaced(b, r, n, x)
    <2> DEFINE rd == b.rounds[r]  id == <<v.addr, v.type>>
               vote == IF id \in DOMAIN rd.votes THEN rd.votes[id] ELSE NoVote
               flagged == [rd EXCEPT !.truncated = TRUE]
               full == FlagVote(rd, id)
               more == [rd EXCEPT !.votes = Put(@, id, AppendHash(vote, v.hash))]
               up == b.revision + 1
    <2>1. CASE ~AdmitsVoter(rd, v.addr)
      <3> DEFINE x == IF ~rd.truncated THEN up ELSE b.revision
      <3>1. c = Replaced(b, r, flagged, x)
        BY SMTT(30), <1>1, <2>1 DEF Replaced, RecordVote, BlockFields
      <3> HIDE DEF flagged
      <3> QED BY <3>1
    <2>2. CASE AdmitsVoter(rd, v.addr) /\ v.hash \in Range(vote.hashes)
      BY <2>2 DEF RecordVote
    <2>3. CASE /\ AdmitsVoter(rd, v.addr) /\ v.hash \notin Range(vote.hashes)
               /\ Len(vote.hashes) >= HashLimit
      <3> DEFINE x == IF ~vote.truncated \/ ~vote.conflicting \/ ~rd.truncated THEN up ELSE b.revision
      <3>1. c = Replaced(b, r, full, x)
        BY <1>1, <2>3 DEF Replaced, FlagVote, RecordVote, BlockFields
      <3> HIDE DEF full
      <3> QED BY <3>1
    <2>4. CASE /\ AdmitsVoter(rd, v.addr) /\ v.hash \notin Range(vote.hashes)
               /\ ~(Len(vote.hashes) >= HashLimit)
      <3>1. c = Replaced(b, r, more, up)
        BY <1>1, <2>4 DEF Replaced, RecordVote, BlockFields
      <3> HIDE DEF more
      <3> QED BY SMTT(30), <3>1
    <2> QED BY <2>1, <2>2, <2>3, <2>4
  <1>3. CASE c = b
    BY <1>3 DEF Once
  <1>4. ASSUME NEW n, NEW x \in {b.revision, b.revision + 1}, c = Replaced(b, r, n, x)
        PROVE  Once(b, c)
    <2>1. /\ c.committed = b.committed /\ c.canonicalHash = b.canonicalHash
          /\ c.roundsEvicted = b.roundsEvicted /\ c.revision = x
      BY <1>1, <1>4 DEF Replaced, BlockFields
    <2> QED BY <1>4, <2>1 DEF Once
  <1> QED BY <1>2, <1>3, <1>4

(* So does a proposer.                                                     *)
LEMMA SetProposerCounts ==
  ASSUME NEW b, BlockOK(b), NEW r, NEW proposer, NEW c, c = SetProposer(b, r, proposer)
  PROVE  Once(b, c)
  <1>1. DOMAIN b = BlockFields
    BY DEF BlockOK, BlockShape
  <1> DEFINE n == [b.rounds[r] EXCEPT !.proposer = proposer]
  <1>2. c = b \/ c = Replaced(b, r, n, b.revision + 1)
    BY <1>1 DEF SetProposer, Replaced, BlockFields
  <1> HIDE DEF n
  <1>3. CASE c = b
    BY <1>3 DEF Once
  <1>4. CASE c = Replaced(b, r, n, b.revision + 1)
    BY <1>1, <1>4 DEF Once, Replaced, BlockFields
  <1> QED BY <1>2, <1>3, <1>4

(* u holds the heights of s and h, or all of these but the lowest, which is *)
(* then the eviction mark; only the block of h may differ.                 *)
HeightsAre(s, u, h) ==
  LET all == DOMAIN s.archive \cup {h}
      over == Cardinality(all) > HistorySize
  IN /\ DOMAIN u.archive = IF over THEN all \ {Min(all)} ELSE all
     /\ u.archiveEvictedThrough = IF over THEN Min(all) ELSE s.archiveEvictedThrough
     /\ u.archiveLatestHeight = Larger(h, s.archiveLatestHeight)
     /\ u.catalogueRevision = IF h \in DOMAIN s.archive THEN s.catalogueRevision
                              ELSE s.catalogueRevision + 1
     /\ u.committedHeight = s.committedHeight
     /\ \A x \in DOMAIN u.archive : x # h => u.archive[x] = s.archive[x]

(* The numbers that tell readers about the heights.                        *)
SameHeights(s, u) ==
  /\ DOMAIN u.archive = DOMAIN s.archive
  /\ u.archiveEvictedThrough = s.archiveEvictedThrough
  /\ u.archiveLatestHeight = s.archiveLatestHeight
  /\ u.catalogueRevision = s.catalogueRevision /\ u.committedHeight = s.committedHeight

(* Nothing changes for a height that is retained.                          *)
LEMMA HeldHeight ==
  ASSUME NEW s, ArchiveOK(s), NEW h \in DOMAIN s.archive, NEW u, SameHeights(s, u),
         \A x \in DOMAIN s.archive : x # h => u.archive[x] = s.archive[x]
  PROVE  HeightsAre(s, u, h)
  <1>1. DOMAIN s.archive \cup {h} = DOMAIN s.archive
    OBVIOUS
  <1>2. ~(Cardinality(DOMAIN s.archive) > HistorySize)
    BY FS_CardinalityType, LimitAssumption DEF ArchiveOK
  <1>3. Larger(h, s.archiveLatestHeight) = s.archiveLatestHeight
    BY DEF Larger, ArchiveOK
  <1> QED BY <1>1, <1>2, <1>3 DEF HeightsAre, SameHeights

(* A change of the block of h after the heights moved.                     *)
LEMMA HeightsThenBlock ==
  ASSUME NEW s, NEW w, NEW u, NEW h, HeightsAre(s, w, h), SameHeights(w, u),
         \A x \in DOMAIN w.archive : x # h => u.archive[x] = w.archive[x]
  PROVE  HeightsAre(s, u, h)
  BY DEF HeightsAre, SameHeights

(* createArchiveHeightLocked on a height it may create.                    *)
LEMMA CreateArchiveHeightIs ==
  ASSUME NEW s, ArchiveOK(s), Inside(s), NEW h \in Heights,
         h > 0, h > s.archiveEvictedThrough, h \notin DOMAIN s.archive,
         NEW u, u = CreateArchiveHeight(s, h)
  PROVE  HeightsAre(s, u, h)
  <1> DEFINE a == AddArchiveHeight(s, h)  all == DOMAIN s.archive \cup {h}
  <1>1. u = IF Cardinality(DOMAIN a.archive) > HistorySize
            THEN PruneDetectorRounds(EvictArchiveHeight(a, Min(DOMAIN a.archive))) ELSE a
    <2>1. ~(h <= 0 \/ h <= s.archiveEvictedThrough \/ h \in DOMAIN s.archive)
      BY DomainAssumption DEF ArchiveOK
    <2> QED BY <2>1 DEF CreateArchiveHeight
  <1>2. /\ DOMAIN a = TrackerFields /\ a.archive = Put(s.archive, h, NewArchivedHeight)
        /\ a.rounds = s.rounds /\ a.committedHeight = s.committedHeight
        /\ a.archiveEvictedThrough = s.archiveEvictedThrough
        /\ a.archiveLatestHeight = Larger(h, s.archiveLatestHeight)
        /\ a.catalogueRevision = s.catalogueRevision + 1
    BY DEF AddArchiveHeight, TrackerFields, ArchiveOK
  <1> HIDE DEF a
  <1>3. /\ DOMAIN a.archive = all
        /\ \A x \in DOMAIN s.archive : a.archive[x] = s.archive[x]
    BY <1>2 DEF Put
  <1> HIDE DEF all
  <1>4. CASE ~(Cardinality(all) > HistorySize)
    <2>1. u = a
      BY <1>1, <1>3, <1>4
    <2> QED BY <1>2, <1>3, <1>4, <2>1 DEF HeightsAre, all
  <1>5. CASE Cardinality(all) > HistorySize
    <2> DEFINE low == Min(all)  e == EvictArchiveHeight(a, low)
    <2>1. low \in all /\ low > s.archiveEvictedThrough /\ low \in Nat
      <3>1. all \in SUBSET Nat /\ all # {} /\ \A x \in all : x > s.archiveEvictedThrough
        BY DomainAssumption DEF all, ArchiveOK
      <3> QED BY <3>1, MinIsLeast
    <2>2. u = PruneDetectorRounds(e)
      BY <1>1, <1>3, <1>5
    <2> HIDE DEF low
    <2>3. /\ DOMAIN e = TrackerFields
          /\ e.archive = [x \in DOMAIN a.archive \ {low} |-> a.archive[x]]
          /\ e.rounds = s.rounds /\ e.committedHeight = s.committedHeight
          /\ e.archiveEvictedThrough = Larger(low, s.archiveEvictedThrough)
          /\ e.archiveLatestHeight = a.archiveLatestHeight
          /\ e.catalogueRevision = a.catalogueRevision
      BY <1>2 DEF EvictArchiveHeight, Restrict, TrackerFields
    <2> HIDE DEF e
    <2>4. e.archiveEvictedThrough = low
      BY <2>1, <2>3 DEF Larger, ArchiveOK
    <2>5. /\ u.archive = e.archive /\ u.committedHeight = e.committedHeight
          /\ u.archiveEvictedThrough = e.archiveEvictedThrough
          /\ u.archiveLatestHeight = e.archiveLatestHeight
          /\ u.catalogueRevision = e.catalogueRevision
      BY <2>2, <2>3, PruneIs DEF Inside
    <2>6. DOMAIN u.archive = all \ {low} /\ \A x \in DOMAIN u.archive : u.archive[x] = a.archive[x]
      BY <1>3, <2>3, <2>5
    <2>7. u.archiveEvictedThrough = Min(all) /\ DOMAIN u.archive = all \ {Min(all)}
      BY <2>4, <2>5, <2>6 DEF low
    <2> QED BY <1>2, <1>3, <1>5, <2>3, <2>5, <2>6, <2>7 DEF HeightsAre, all
  <1> QED BY <1>4, <1>5

(* archiveRoundLocked on a retained height: only its block changes, and a  *)
(* height that has no round yet takes any.                                 *)
LEMMA ArchiveRoundIs ==
  ASSUME NEW s, ArchiveOK(s), Inside(s), NEW h \in DOMAIN s.archive, NEW r \in Rounds \cap Nat,
         NEW u, u = ArchiveRound(s, h, r)
  PROVE  /\ SameHeights(s, u)
         /\ \A x \in DOMAIN s.archive : x # h => u.archive[x] = s.archive[x]
         /\ Counted(s.archive[h], u.archive[h],
                    h > s.committedHeight /\ DOMAIN s.archive[h].rounds # {}, 1)
         /\ s.archive[h] = NewArchivedHeight /\ h > s.committedHeight =>
              u.archive[h].revision = s.archive[h].revision + 1
  <1> DEFINE b == s.archive[h]  c == RoundAdded(b, r, s.defaultValidators)
             a == AddArchiveRound(b, r, s.defaultValidators)
  <1>1. /\ BlockOK(b) /\ b.revision \in Nat /\ b.evictedThrough \in Int
        /\ RosterOK(s.defaultValidators) /\ h \in Int /\ s.committedHeight \in Int
    BY DomainAssumption DEF ArchiveOK, BlockOK, BlockShape
  <1>2. CASE \/ r < 0 \/ r <= b.evictedThrough \/ r \in DOMAIN b.rounds
             \/ b.committed \/ h <= s.committedHeight
    <2>1. u = s
      BY <1>2 DEF ArchiveRound
    <2>2. SameHeights(s, s) /\ Counted(b, b, h > s.committedHeight /\ DOMAIN b.rounds # {}, 1)
      BY <1>1 DEF SameHeights, Counted
    <2>3. ~(b = NewArchivedHeight /\ h > s.committedHeight)
      <3> HIDE DEF b
      <3>1. /\ NewArchivedHeight.evictedThrough = -1 /\ NewArchivedHeight.committed = FALSE
            /\ DOMAIN NewArchivedHeight.rounds = {}
        BY DEF NewArchivedHeight, NoEntries
      <3> QED BY <1>1, <1>2, <3>1
    <2> QED BY <2>1, <2>2, <2>3
  <1>3. CASE ~(\/ r < 0 \/ r <= b.evictedThrough \/ r \in DOMAIN b.rounds
               \/ b.committed \/ h <= s.committedHeight)
    <2>1. r \notin DOMAIN b.rounds /\ r > b.evictedThrough /\ ~b.committed /\ h > s.committedHeight
      BY <1>1, <1>3
    <2>2. u = IF Cardinality(DOMAIN a.rounds) > RoundLimit
              THEN PruneDetectorRounds(SetBlock(s, h, c)) ELSE SetBlock(s, h, c)
      BY <1>3 DEF ArchiveRound, RoundAdded, SetBlock
    <2> DEFINE w == SetBlock(s, h, c)
    <2> HIDE DEF a, c, b
    <2>3. /\ c.committed = b.committed /\ c.canonicalHash = b.canonicalHash
          /\ c.revision = b.revision + 1
          /\ \/ c.roundsEvicted = b.roundsEvicted
             \/ DOMAIN b.rounds # {} /\ c.roundsEvicted = b.roundsEvicted + 1
      BY <1>1, <2>1, RoundAddedCounts DEF c
    <2>4. BlockOK(c) /\ Extends(b, c)
      BY <1>1, <2>1, RoundAddedOK DEF c
    <2>5. /\ ArchiveOK(w) /\ MovesOn(s, w) /\ w.rounds = s.rounds
          /\ DOMAIN w.archive = DOMAIN s.archive /\ w.archive[h] = c
          /\ \A x \in DOMAIN s.archive : x # h => w.archive[x] = s.archive[x]
          /\ w.archiveEvictedThrough = s.archiveEvictedThrough
          /\ w.archiveLatestHeight = s.archiveLatestHeight
          /\ w.catalogueRevision = s.catalogueRevision
      BY <2>4, SetBlockOK DEF b
    <2> HIDE DEF w
    <2>6. SameHeights(s, w)
      BY <2>5 DEF SameHeights, MovesOn
    <2>7. u.archive = w.archive /\ SameHeights(w, u)
      <3>1. CASE u = w
        BY <3>1 DEF SameHeights
      <3>2. CASE u = PruneDetectorRounds(w)
        <4>1. /\ u.archive = w.archive /\ u.committedHeight = w.committedHeight
              /\ u.archiveEvictedThrough = w.archiveEvictedThrough
              /\ u.archiveLatestHeight = w.archiveLatestHeight
              /\ u.catalogueRevision = w.catalogueRevision
          BY <2>5, <3>2, PruneIs DEF ArchiveOK, Inside
        <4> QED BY <4>1 DEF SameHeights
      <3> QED BY <2>2, <3>1, <3>2 DEF w
    <2>8. SameHeights(s, u)
      BY <2>6, <2>7 DEF SameHeights
    <2>9. Counted(b, c, h > s.committedHeight /\ DOMAIN b.rounds # {}, 1)
      BY <1>1, <2>1, <2>3 DEF Counted
    <2>10. /\ u.archive[h] = c /\ \A x \in DOMAIN s.archive : x # h => u.archive[x] = s.archive[x]
      BY <2>5, <2>7
    <2> QED BY <2>3, <2>8, <2>9, <2>10 DEF b
  <1> QED BY <1>2, <1>3

(* What readers may see of a call on a round of height h: nothing, or at   *)
(* most n changes of a height that was retained or is new.                 *)
Seen(s, u, h, n) ==
  \/ SameHeights(s, u) /\ u.archive = s.archive
  \/ /\ \/ h \in DOMAIN s.archive
        \/ h > 0 /\ h > s.archiveEvictedThrough /\ h > s.committedHeight
     /\ HeightsAre(s, u, h)
     /\ h \in DOMAIN u.archive =>
          /\ Counted(BlockAt(s, h), u.archive[h], h \in DOMAIN s.archive /\ h > s.committedHeight, n)
          /\ h \in DOMAIN s.archive \/ u.archive[h].revision > BlockAt(s, h).revision

(* archiveHeightLocked and archiveRoundLocked, one after the other.        *)
LEMMA AdmitRoundSeen ==
  ASSUME NEW s, ArchiveOK(s), Inside(s), NEW h \in Heights, NEW r \in Rounds \cap Nat,
         NEW u, u = AdmitRound(s, h, r)
  PROVE  Seen(s, u, h, 1)
  <1> DEFINE w == ArchiveHeight(s, h)
  <1>0. /\ h \in Int /\ s.committedHeight \in Nat /\ s.archiveEvictedThrough \in Nat
        /\ DOMAIN NewArchivedHeight.rounds = {}
    BY DomainAssumption DEF ArchiveOK, NewArchivedHeight, NoEntries
  <1>1. u = IF Retains(w, h) THEN ArchiveRound(w, h, r) ELSE w
    BY DEF AdmitRound
  <1>2. CASE h \in DOMAIN s.archive
    <2>1. w = s
      BY <1>2 DEF ArchiveHeight, CreateArchiveHeight
    <2>2. u = ArchiveRound(s, h, r)
      BY <1>1, <1>2, <2>1 DEF Retains, ArchiveOK
    <2>3. /\ SameHeights(s, u)
          /\ \A x \in DOMAIN s.archive : x # h => u.archive[x] = s.archive[x]
          /\ Counted(s.archive[h], u.archive[h],
                     h > s.committedHeight /\ DOMAIN s.archive[h].rounds # {}, 1)
      BY <1>2, <2>2, ArchiveRoundIs
    <2>4. HeightsAre(s, u, h)
      BY <1>2, <2>3, HeldHeight
    <2>5. Counted(BlockAt(s, h), u.archive[h], h \in DOMAIN s.archive /\ h > s.committedHeight, 1)
      BY <1>2, <2>3 DEF Counted, BlockAt
    <2> QED BY <1>2, <2>4, <2>5 DEF Seen
  <1>3. CASE h \notin DOMAIN s.archive /\ (h <= s.committedHeight \/ h <= 0 \/ h <= s.archiveEvictedThrough)
    <2>1. w = s
      BY <1>3 DEF ArchiveHeight, CreateArchiveHeight
    <2>2. u = s
      BY <1>1, <1>3, <2>1 DEF Retains
    <2> QED BY <2>2 DEF Seen, SameHeights
  <1>4. CASE /\ h \notin DOMAIN s.archive
             /\ h > s.committedHeight /\ h > 0 /\ h > s.archiveEvictedThrough
    <2>1. w = CreateArchiveHeight(s, h)
      BY <1>0, <1>4 DEF ArchiveHeight
    <2> HIDE DEF w
    <2>2. HeightsAre(s, w, h)
      BY <1>4, <2>1, CreateArchiveHeightIs
    <2>3. /\ ArchiveOK(w) /\ Inside(w)
          /\ h \in DOMAIN w.archive => w.archive[h] = NewArchivedHeight
      BY <1>4, <2>1, CreateArchiveHeightOK
    <2>4. CASE h \notin DOMAIN w.archive
      <3>1. u = w
        BY <1>1, <2>4 DEF Retains
      <3> QED BY <1>4, <2>2, <2>4, <3>1 DEF Seen
    <2>5. CASE h \in DOMAIN w.archive
      <3>1. u = ArchiveRound(w, h, r)
        BY <1>1, <2>3, <2>5 DEF Retains, ArchiveOK
      <3>2. w.archive[h] = NewArchivedHeight /\ w.committedHeight = s.committedHeight
            /\ BlockAt(s, h) = NewArchivedHeight
        BY <1>4, <2>2, <2>3, <2>5 DEF HeightsAre, BlockAt
      <3>3. /\ SameHeights(w, u)
            /\ \A x \in DOMAIN w.archive : x # h => u.archive[x] = w.archive[x]
            /\ Counted(w.archive[h], u.archive[h],
                       h > w.committedHeight /\ DOMAIN w.archive[h].rounds # {}, 1)
            /\ w.archive[h] = NewArchivedHeight /\ h > w.committedHeight =>
                 u.archive[h].revision = w.archive[h].revision + 1
        BY <2>3, <2>5, <3>1, ArchiveRoundIs
      <3>4. HeightsAre(s, u, h)
        BY <2>2, <3>3, HeightsThenBlock
      <3>5. u.archive[h].revision = NewArchivedHeight.revision + 1 /\ NewArchivedHeight.revision = 1
        BY <1>4, <3>2, <3>3 DEF NewArchivedHeight
      <3>6. Counted(NewArchivedHeight, u.archive[h], FALSE, 1)
        BY <1>0, <3>2, <3>3 DEF Counted
      <3> QED BY <1>4, <3>2, <3>4, <3>5, <3>6 DEF Seen, Counted
    <2> QED BY <2>4, <2>5
  <1> QED BY <1>0, <1>2, <1>3, <1>4

(* A vote or a proposer that is recorded after that.                       *)
LEMMA ThenOnceSeen ==
  ASSUME NEW s, ArchiveOK(s), NEW w, ArchiveOK(w), NEW h \in DOMAIN w.archive, Seen(s, w, h, 1),
         NEW c, BlockOK(c), Extends(w.archive[h], c), Once(w.archive[h], c),
         NEW u, u = SetBlock(w, h, c)
  PROVE  Seen(s, u, h, 2)
  <1> DEFINE b == BlockAt(s, h)  d == w.archive[h]
             open == h \in DOMAIN s.archive /\ h > s.committedHeight
  <1>1. /\ DOMAIN u.archive = DOMAIN w.archive /\ u.archive[h] = c
        /\ \A x \in DOMAIN w.archive : x # h => u.archive[x] = w.archive[x]
        /\ SameHeights(w, u)
    <2>1. /\ MovesOn(w, u) /\ DOMAIN u.archive = DOMAIN w.archive /\ u.archive[h] = c
          /\ \A x \in DOMAIN w.archive : x # h => u.archive[x] = w.archive[x]
          /\ u.archiveEvictedThrough = w.archiveEvictedThrough
          /\ u.archiveLatestHeight = w.archiveLatestHeight
          /\ u.catalogueRevision = w.catalogueRevision
      BY SetBlockOK
    <2> QED BY <2>1 DEF SameHeights, MovesOn
  <1>2. /\ \/ h \in DOMAIN s.archive
           \/ h > 0 /\ h > s.archiveEvictedThrough /\ h > s.committedHeight
        /\ HeightsAre(s, w, h) /\ Counted(b, d, open, 1)
        /\ h \in DOMAIN s.archive \/ d.revision > b.revision
    <2>1. CASE SameHeights(s, w) /\ w.archive = s.archive
      <3>1. h \in DOMAIN s.archive /\ d = b
        BY <2>1 DEF BlockAt
      <3>2. HeightsAre(s, w, h)
        BY <2>1, <3>1, HeldHeight
      <3>3. Counted(b, b, open, 1)
        <4>1. b.revision \in Nat
          BY <3>1 DEF ArchiveOK, BlockOK, BlockShape
        <4> QED BY <4>1 DEF Counted
      <3> QED BY <3>1, <3>2, <3>3
    <2> QED BY <2>1 DEF Seen
  <1>3. HeightsAre(s, u, h)
    BY <1>1, <1>2, HeightsThenBlock
  <1>4. b.revision \in Nat /\ d.revision \in Nat
    <2>1. BlockOK(b) /\ BlockOK(d)
      BY NewHeightOK DEF BlockAt, ArchiveOK
    <2> QED BY <2>1 DEF BlockOK, BlockShape
  <1> HIDE DEF b, d, open
  <1>5. Counted(b, c, open, 2)
    <2>1. Once(d, c)
      BY DEF d
    <2> QED BY <1>2, <1>4, <2>1 DEF Counted, Once
  <1>6. d.revision > b.revision => c.revision > b.revision
    <2>1. Once(d, c)
      BY DEF d
    <2> QED BY <1>4, <2>1 DEF Once
  <1> QED BY <1>1, <1>2, <1>3, <1>5, <1>6 DEF Seen, b, open

(* One change is not more than two.                                        *)
LEMMA SeenMore ==
  ASSUME NEW s, ArchiveOK(s), NEW u, NEW h, Seen(s, u, h, 1)
  PROVE  Seen(s, u, h, 2)
  <1>1. BlockAt(s, h).revision \in Nat
    <2>1. BlockOK(BlockAt(s, h))
      BY NewHeightOK DEF BlockAt, ArchiveOK
    <2> QED BY <2>1 DEF BlockOK, BlockShape
  <1> QED BY <1>1 DEF Seen, Counted

(* observeVoteLocked.                                                      *)
LEMMA ObserveVoteSeen ==
  ASSUME NEW s, ArchiveOK(s), Inside(s), NEW v \in Votes, NEW u, u = ObserveVoteLocked(s, v)
  PROVE  Seen(s, u, v.height, 2)
  <1> DEFINE h == v.height  r == v.round  w == AdmitRound(s, h, r)  b == w.archive[h]
             c == RecordVote(b, v)
  <1>1. h \in Heights /\ r \in Rounds /\ r \in Int
    BY DomainAssumption DEF Votes
  <1>2. CASE ~WellFormed(v)
    <2>1. u = s
      BY <1>2 DEF ObserveVoteLocked
    <2> QED BY <2>1 DEF Seen, SameHeights
  <1>3. CASE WellFormed(v)
    <2>1. r \in Rounds \cap Nat
      BY <1>1, <1>3 DEF WellFormed, ValidRound
    <2>2. Seen(s, w, h, 1) /\ ArchiveOK(w)
      <3> HIDE DEF h, r, w
      <3>1. w = AdmitRound(s, h, r)
        BY DEF w
      <3>2. Seen(s, w, h, 1)
        BY <1>1, <2>1, <3>1, AdmitRoundSeen
      <3>3. ArchiveOK(w)
        BY <1>1, <3>1, AdmitRoundOK
      <3> QED BY <3>2, <3>3
    <2>3. u = IF RetainsRound(w, h, r) THEN SetBlock(w, h, c) ELSE w
      BY <1>3 DEF ObserveVoteLocked, SetBlock
    <2>4. CASE ~RetainsRound(w, h, r)
      <3> HIDE DEF w, h
      <3>1. Seen(s, u, h, 2)
        BY <2>2, <2>3, <2>4, SeenMore
      <3> QED BY <3>1 DEF h
    <2>5. CASE RetainsRound(w, h, r)
      <3>1. h \in DOMAIN w.archive /\ r \in DOMAIN b.rounds
        BY <2>5 DEF RetainsRound, Retains
      <3>2. BlockOK(b)
        <4> HIDE DEF w, h
        <4> QED BY <2>2, <3>1 DEF ArchiveOK
      <3>3. BlockOK(c) /\ Extends(b, c)
        <4> HIDE DEF b
        <4> QED BY <3>1, <3>2, RecordVoteOK DEF Touched
      <3>4. Once(b, c)
        <4> HIDE DEF b
        <4> QED BY <3>2, RecordVoteCounts
      <3> HIDE DEF w, h, r, c
      <3>5. Seen(s, u, h, 2)
        BY <2>2, <2>3, <2>5, <3>1, <3>3, <3>4, ThenOnceSeen
      <3> QED BY <3>5 DEF h
    <2> QED BY <2>4, <2>5
  <1> QED BY <1>2, <1>3

(* observeRoundLocked.                                                     *)
LEMMA ObserveRoundSeen ==
  ASSUME NEW s, ArchiveOK(s), Inside(s), NEW h \in Heights, NEW r \in Rounds,
         NEW proposer \in Proposers, NEW u, u = ObserveRoundLocked(s, h, r, proposer)
  PROVE  Seen(s, u, h, 2)
  <1> DEFINE w == AdmitRound(s, h, r)  b == w.archive[h]  c == SetProposer(b, r, proposer)
             refused == h <= 0 \/ ~ValidRound(r) \/ proposer \in Oversized
  <1>1. CASE refused
    <2>1. u = s
      BY <1>1 DEF ObserveRoundLocked
    <2> QED BY <2>1 DEF Seen, SameHeights
  <1>2. CASE ~refused
    <2>1. r \in Rounds \cap Nat
      BY <1>2, DomainAssumption DEF ValidRound
    <2>2. Seen(s, w, h, 1) /\ ArchiveOK(w)
      <3> HIDE DEF w
      <3>1. w = AdmitRound(s, h, r)
        BY DEF w
      <3>2. Seen(s, w, h, 1)
        BY <2>1, <3>1, AdmitRoundSeen
      <3>3. ArchiveOK(w)
        BY <3>1, AdmitRoundOK
      <3> QED BY <3>2, <3>3
    <2>3. u = IF RetainsRound(w, h, r) THEN SetBlock(w, h, c) ELSE w
      BY <1>2 DEF ObserveRoundLocked, SetBlock
    <2>4. CASE ~RetainsRound(w, h, r)
      <3> HIDE DEF w
      <3> QED BY <2>2, <2>3, <2>4, SeenMore
    <2>5. CASE RetainsRound(w, h, r)
      <3>1. h \in DOMAIN w.archive /\ r \in DOMAIN b.rounds
        BY <2>5 DEF RetainsRound, Retains
      <3>2. BlockOK(b)
        <4> HIDE DEF w
        <4> QED BY <2>2, <3>1 DEF ArchiveOK
      <3>3. BlockOK(c) /\ Extends(b, c)
        <4> HIDE DEF b
        <4> QED BY <3>1, <3>2, SetProposerOK DEF Touched
      <3>4. Once(b, c)
        <4> HIDE DEF b
        <4> QED BY <3>2, SetProposerCounts
      <3> HIDE DEF w, c
      <3> QED BY <2>2, <2>3, <2>5, <3>1, <3>3, <3>4, ThenOnceSeen
    <2> QED BY <2>4, <2>5
  <1> QED BY <1>1, <1>2

(* SetValidators raises a revision at most once per round without roster.  *)
LEMMA FillRostersCounts ==
  ASSUME NEW b, BlockOK(b), NEW m, NEW c, c = FillRosters(b, m)
  PROVE  /\ c.committed = b.committed /\ c.canonicalHash = b.canonicalHash
         /\ c.roundsEvicted = b.roundsEvicted
         /\ \E n \in 0..RoundLimit : c.revision = b.revision + n
  <1> DEFINE empty == {r \in DOMAIN b.rounds : DOMAIN b.rounds[r].roster = {}}
             filled == [r \in DOMAIN b.rounds |->
                          IF r \in empty THEN [b.rounds[r] EXCEPT !.roster = m] ELSE b.rounds[r]]
  <1>1. /\ IsFiniteSet(DOMAIN b.rounds) /\ Cardinality(DOMAIN b.rounds) <= RoundLimit
        /\ DOMAIN b = BlockFields /\ b.revision \in Nat
    BY DEF BlockOK, BlockShape, RoundsBounded
  <1>2. Cardinality(empty) \in 0..RoundLimit
    <2>1. empty \subseteq DOMAIN b.rounds
      OBVIOUS
    <2>2. IsFiniteSet(empty) /\ Cardinality(empty) <= Cardinality(DOMAIN b.rounds)
      BY <1>1, <2>1, FS_Subset
    <2> QED BY <1>1, <2>2, FS_CardinalityType, LimitAssumption
  <1>3. c = [b EXCEPT !.rounds = filled,
                      !.revision = IF DOMAIN m = {} THEN @ ELSE @ + Cardinality(empty)]
    BY DEF FillRosters
  <1> HIDE DEF empty, filled
  <1>4. /\ c.committed = b.committed /\ c.canonicalHash = b.canonicalHash
        /\ c.roundsEvicted = b.roundsEvicted
        /\ c.revision = IF DOMAIN m = {} THEN b.revision ELSE b.revision + Cardinality(empty)
    BY <1>1, <1>3 DEF BlockFields
  <1>5. 0 \in 0..RoundLimit /\ b.revision + 0 = b.revision
    BY <1>1, LimitAssumption
  <1> QED BY <1>2, <1>4, <1>5

SealOf(hash) == IF hash \in Oversized THEN 0 ELSE IF hash = Nil THEN 1 ELSE 2

SealedView(b, seal) ==
  IF ViewOf(b).seal < seal
  THEN [evidence |-> b.revision + 1, seal |-> seal, lost |-> b.roundsEvicted] ELSE ViewOf(b)

(* What readers see of a commit notice.                                    *)
LEMMA ArchiveCommitSeen ==
  ASSUME NEW s, ArchiveOK(s), Inside(s), NEW h \in Heights, NEW hash \in BlockHashes,
         NEW u, u = ArchiveCommit(s, h, hash)
  PROVE  IF SealOf(hash) > 0 /\ (h \in DOMAIN s.archive \/ (h > 0 /\ h > s.archiveEvictedThrough))
         THEN /\ HeightsAre(s, u, h)
              /\ h \in DOMAIN u.archive =>
                   ViewOf(u.archive[h]) = SealedView(BlockAt(s, h), SealOf(hash))
         ELSE SameHeights(s, u) /\ u.archive = s.archive
  <1> DEFINE w == CreateArchiveHeight(s, h)  b == w.archive[h]  c == Seal(b, hash)
             news == ~b.committed \/ (b.canonicalHash = Nil /\ hash # Nil)
  <1>0. h \in Int /\ s.archiveEvictedThrough \in Nat
    BY DomainAssumption DEF ArchiveOK
  <1>1. CASE hash \in Oversized
    <2>1. u = s /\ ~(SealOf(hash) > 0)
      BY <1>1 DEF ArchiveCommit, SealOf
    <2> QED BY <2>1 DEF SameHeights
  <1>2. CASE hash \notin Oversized
    <2>1. u = IF Retains(w, h) /\ news THEN SetBlock(w, h, c) ELSE w
      BY <1>2 DEF ArchiveCommit, SetBlock, Seal
    <2>2. SealOf(hash) = (IF hash = Nil THEN 1 ELSE 2) /\ SealOf(hash) > 0
      BY <1>2 DEF SealOf
    <2>3. CASE h \notin DOMAIN s.archive /\ ~(h > 0 /\ h > s.archiveEvictedThrough)
      <3>1. w = s
        BY <1>0, <2>3 DEF CreateArchiveHeight
      <3>2. u = s
        BY <2>1, <2>3, <3>1 DEF Retains
      <3> QED BY <2>3, <3>2 DEF SameHeights
    <2>4. CASE h \in DOMAIN s.archive \/ (h > 0 /\ h > s.archiveEvictedThrough)
      <3>1. HeightsAre(s, w, h)
        <4>1. CASE h \in DOMAIN s.archive
          <5>1. w = s
            BY <4>1 DEF CreateArchiveHeight
          <5> HIDE DEF w
          <5> QED BY <4>1, <5>1, HeldHeight DEF SameHeights
        <4>2. CASE h \notin DOMAIN s.archive
          <5> HIDE DEF w
          <5>1. w = CreateArchiveHeight(s, h)
            BY DEF w
          <5> QED BY <2>4, <4>2, <5>1, CreateArchiveHeightIs
        <4> QED BY <4>1, <4>2
      <3>2. /\ ArchiveOK(w)
            /\ h \in DOMAIN w.archive => b = BlockAt(s, h) /\ BlockOK(b)
        <4>1. /\ ArchiveOK(w)
              /\ \A x \in DOMAIN w.archive :
                   IF x \in DOMAIN s.archive THEN w.archive[x] = s.archive[x]
                   ELSE x = h /\ w.archive[x] = NewArchivedHeight
          <5> HIDE DEF w
          <5>1. w = CreateArchiveHeight(s, h)
            BY DEF w
          <5> QED BY <5>1, CreateArchiveHeightOK
        <4> HIDE DEF w
        <4> QED BY <4>1 DEF BlockAt, ArchiveOK
      <3> HIDE DEF w
      <3>3. CASE h \notin DOMAIN w.archive
        <4>1. u = w
          BY <2>1, <3>3 DEF Retains
        <4> QED BY <2>2, <2>4, <3>1, <3>3, <4>1
      <3>4. CASE h \in DOMAIN w.archive
        <4>1. Retains(w, h) /\ DOMAIN b = BlockFields /\ b.committed \in BOOLEAN
              /\ (b.canonicalHash # Nil => b.committed)
          BY <3>2, <3>4 DEF Retains, ArchiveOK, BlockOK, BlockShape
        <4>2. news <=> ViewOf(b).seal < SealOf(hash)
          <5>1. ViewOf(b).seal = IF ~b.committed THEN 0 ELSE IF b.canonicalHash = Nil THEN 1 ELSE 2
            BY DEF ViewOf
          <5> QED BY <2>2, <4>1, <5>1
        <4>3. CASE news
          <5>1. u = SetBlock(w, h, c)
            BY <2>1, <4>1, <4>3
          <5>2. BlockOK(c) /\ Extends(b, c)
            <6> HIDE DEF b
            <6> QED BY <3>2, <3>4, <4>3, SealOK DEF Touched
          <5>3. ViewOf(c) = SealedView(b, SealOf(hash))
            <6>1. /\ c.committed = TRUE /\ c.canonicalHash = hash /\ c.revision = b.revision + 1
                  /\ c.roundsEvicted = b.roundsEvicted
              BY <4>1 DEF Seal, BlockFields
            <6> HIDE DEF b, c
            <6>2. SealedView(b, SealOf(hash))
                  = [evidence |-> b.revision + 1, seal |-> SealOf(hash), lost |-> b.roundsEvicted]
              BY <4>2, <4>3 DEF SealedView
            <6>3. ViewOf(c) = [evidence |-> b.revision + 1,
                               seal |-> IF hash = Nil THEN 1 ELSE 2, lost |-> b.roundsEvicted]
              BY <6>1 DEF ViewOf
            <6> QED BY <2>2, <6>2, <6>3
          <5> HIDE DEF c
          <5>4. /\ MovesOn(w, u) /\ DOMAIN u.archive = DOMAIN w.archive /\ u.archive[h] = c
                /\ \A x \in DOMAIN w.archive : x # h => u.archive[x] = w.archive[x]
                /\ u.archiveEvictedThrough = w.archiveEvictedThrough
                /\ u.archiveLatestHeight = w.archiveLatestHeight
                /\ u.catalogueRevision = w.catalogueRevision
            BY <3>2, <3>4, <5>1, <5>2, SetBlockOK
          <5>5. HeightsAre(s, u, h)
            BY <3>1, <5>4, HeightsThenBlock DEF SameHeights, MovesOn
          <5> QED BY <2>2, <2>4, <3>2, <3>4, <5>3, <5>4, <5>5
        <4>4. CASE ~news
          <5>1. u = w
            BY <2>1, <4>4
          <5>2. ViewOf(b) = SealedView(b, SealOf(hash))
            BY <4>2, <4>4 DEF SealedView
          <5> QED BY <2>2, <2>4, <3>1, <3>2, <3>4, <5>1, <5>2
        <4> QED BY <4>3, <4>4
      <3> QED BY <3>3, <3>4
    <2> QED BY <2>3, <2>4
  <1> QED BY <1>1, <1>2

(* The instance's copies of library operators are the operators.           *)
LEMMA SameOperators ==
  /\ \A S : ReaderView!Min(S) = Min(S) /\ ReaderView!Cardinality(S) = Cardinality(S)
  /\ \A f, S : ReaderView!Restrict(f, S) = Restrict(f, S)
  /\ \A a, b : ReaderView!Larger(a, b) = Larger(a, b)
  <1>1. ASSUME NEW S PROVE ReaderView!Min(S) = Min(S)
    BY DEF ReaderView!Min, Min
  <1>2. ASSUME NEW S PROVE ReaderView!Cardinality(S) = Cardinality(S)
    BY DEF ReaderView!Cardinality, Cardinality
  <1>3. ASSUME NEW f, NEW S PROVE ReaderView!Restrict(f, S) = Restrict(f, S)
    BY DEF ReaderView!Restrict, Restrict
  <1>4. ASSUME NEW a, NEW b PROVE ReaderView!Larger(a, b) = Larger(a, b)
    BY DEF ReaderView!Larger, Larger
  <1> QED BY <1>1, <1>2, <1>3, <1>4

View(s) == [h \in DOMAIN s.archive |-> ViewOf(s.archive[h])]

(* What Archive retains when the tracker's heights move.                   *)
LEMMA RetainView ==
  ASSUME ArchiveOK(t), NEW w, NEW h, HeightsAre(t, w, h), NEW b,
         h \in DOMAIN w.archive => ViewOf(w.archive[h]) = b,
         t'.archive = w.archive, t'.archiveEvictedThrough = w.archiveEvictedThrough,
         t'.archiveLatestHeight = w.archiveLatestHeight
  PROVE  ReaderView!Retain(h, b)
  <1> DEFINE all == DOMAIN t.archive \cup {h}  low == Min(all)
             grown == [x \in all |-> IF x = h THEN b ELSE View(t)[x]]
             over == Cardinality(all) > HistorySize
  <1>1. /\ DOMAIN View(t) = DOMAIN t.archive
        /\ \A x \in DOMAIN t.archive : View(t)[x] = ViewOf(t.archive[x])
    BY DEF View
  <1>2. /\ DOMAIN w.archive = IF over THEN all \ {low} ELSE all
        /\ \A x \in DOMAIN w.archive : x # h => w.archive[x] = t.archive[x]
        /\ w.archiveEvictedThrough = IF over THEN low ELSE t.archiveEvictedThrough
        /\ w.archiveLatestHeight = Larger(h, t.archiveLatestHeight)
    BY DEF HeightsAre
  <1>3. \A x \in DOMAIN w.archive : ViewOf(w.archive[x]) = IF x = h THEN b ELSE View(t)[x]
    <2>1. DOMAIN w.archive \subseteq all
      BY <1>2
    <2> QED BY <1>1, <1>2, <2>1
  <1> HIDE DEF all, low, over
  <1>4. View(w) = IF over THEN [x \in all \ {low} |-> grown[x]] ELSE grown
    BY <1>2, <1>3 DEF View
  <1>5. View(t)' = View(w)
    BY DEF View
  <1>6. DOMAIN grown = all
    OBVIOUS
  <1> HIDE DEF grown
  <1>7. View(t)' = IF over THEN Restrict(grown, all \ {low}) ELSE grown
    BY <1>4, <1>5 DEF Restrict
  <1>8. ReaderView!Held = DOMAIN t.archive
    BY DEF ReaderView!Held
  <1>9. ReaderView!Retain(h, b) <=>
          /\ View(t)' = IF ReaderView!Cardinality(DOMAIN grown) > HistorySize
                        THEN ReaderView!Restrict(grown, DOMAIN grown \ {ReaderView!Min(DOMAIN grown)})
                        ELSE grown
          /\ t'.archiveEvictedThrough = IF ReaderView!Cardinality(DOMAIN grown) > HistorySize
                                        THEN ReaderView!Min(DOMAIN grown)
                                        ELSE t.archiveEvictedThrough
          /\ t'.archiveLatestHeight = ReaderView!Larger(h, t.archiveLatestHeight)
    BY <1>8 DEF ReaderView!Retain, View, ViewOf, grown, all
  <1> QED BY <1>2, <1>6, <1>7, <1>9, SameOperators DEF low, over

(* The archive as Archive sees it.                                         *)
LEMMA ReadersSee ==
  /\ ReaderView!Held = DOMAIN t.archive
  /\ \A h \in DOMAIN t.archive : ReaderView!BlockAt(h) = ViewOf(t.archive[h])
  /\ \A h : h \notin DOMAIN t.archive => ReaderView!BlockAt(h) = ViewOf(NewArchivedHeight)
  /\ \A h : ReaderView!MayHold(h) <=>
              h \in DOMAIN t.archive \/ (h > 0 /\ h > t.archiveEvictedThrough)
  /\ \A h : ReaderView!New(h) = IF h \in DOMAIN t.archive THEN 0 ELSE 1
  <1>1. ReaderView!Held = DOMAIN t.archive
    BY DEF ReaderView!Held
  <1>2. \A h \in DOMAIN t.archive : ReaderView!BlockAt(h) = ViewOf(t.archive[h])
    BY <1>1 DEF ReaderView!BlockAt, ViewOf
  <1>3. ViewOf(NewArchivedHeight) = [evidence |-> 1, seal |-> 0, lost |-> 0]
    BY DEF ViewOf, NewArchivedHeight
  <1>4. \A h : h \notin DOMAIN t.archive => ReaderView!BlockAt(h) = ViewOf(NewArchivedHeight)
    BY <1>1, <1>3 DEF ReaderView!BlockAt, ReaderView!NewHeight
  <1>5. \A h : ReaderView!MayHold(h) <=>
                 h \in DOMAIN t.archive \/ (h > 0 /\ h > t.archiveEvictedThrough)
    BY <1>1 DEF ReaderView!MayHold
  <1>6. \A h : ReaderView!New(h) = IF h \in DOMAIN t.archive THEN 0 ELSE 1
    BY <1>1 DEF ReaderView!New
  <1> QED BY <1>1, <1>2, <1>4, <1>5, <1>6

(* Nothing that readers see has changed.                                   *)
LEMMA NothingSeen ==
  ASSUME SameHeights(t, t'), t'.archive = t.archive
  PROVE  ReaderView!ArchiveNext
  <1>1. ReaderView!ObserveNothing
    BY DEF ReaderView!ObserveNothing, ReaderView!archiveVars, SameHeights
  <1> QED BY <1>1 DEF ReaderView!ArchiveNext

(* An observation is a step of the archive's readers.                      *)
LEMMA SeenIsStep ==
  ASSUME ArchiveOK(t), NEW h \in Heights, Seen(t, t', h, 2)
  PROVE  ReaderView!ArchiveNext
  <1> DEFINE b == BlockAt(t, h)  d == t'.archive[h]
             open == h \in DOMAIN t.archive /\ h > t.committedHeight
  <1>1. CASE SameHeights(t, t') /\ t'.archive = t.archive
    BY <1>1, NothingSeen
  <1>2. CASE ~(SameHeights(t, t') /\ t'.archive = t.archive)
    <2>1. /\ \/ h \in DOMAIN t.archive
             \/ h > 0 /\ h > t.archiveEvictedThrough /\ h > t.committedHeight
          /\ HeightsAre(t, t', h)
          /\ h \in DOMAIN t'.archive =>
               Counted(b, d, open, 2) /\ (h \in DOMAIN t.archive \/ d.revision > b.revision)
      BY <1>2 DEF Seen
    <2>2. b.revision \in Nat /\ b.roundsEvicted \in Nat /\ ReaderView!BlockAt(h) = ViewOf(b)
      <3>1. BlockOK(b)
        BY NewHeightOK DEF BlockAt, ArchiveOK
      <3> QED BY <3>1, ReadersSee DEF BlockOK, BlockShape, BlockAt
    <2> DEFINE Is(n, lost) ==
                 /\ n \in 1..(RoundLimit + 1) /\ lost \in {0, 1}
                 /\ lost > 0 => open /\ ~b.committed
                 /\ h \in DOMAIN t'.archive =>
                      d.revision = b.revision + n /\ d.roundsEvicted = b.roundsEvicted + lost
    <2>3. CASE \E n, lost : Is(n, lost)
      <3>1. PICK n, lost : Is(n, lost)
        BY <2>3
      <3>0. PICK new : new = [ViewOf(b) EXCEPT !.evidence = @ + n, !.lost = @ + lost]
        OBVIOUS
      <3>2. h \in DOMAIN t'.archive => ViewOf(t'.archive[h]) = new
        <4>1. new = [evidence |-> b.revision + n, seal |-> ViewOf(b).seal,
                     lost |-> b.roundsEvicted + lost]
          <5> HIDE DEF b
          <5> QED BY <3>0 DEF ViewOf
        <4>2. h \in DOMAIN t'.archive => ViewOf(d).seal = ViewOf(b).seal
          BY <2>1 DEF Counted, ViewOf
        <4>3. ViewOf(d) = [evidence |-> d.revision, seal |-> ViewOf(d).seal, lost |-> d.roundsEvicted]
          BY DEF ViewOf
        <4> HIDE DEF b, d
        <4>4. h \in DOMAIN t'.archive => ViewOf(d) = new
          BY <3>1, <4>1, <4>2, <4>3
        <4> QED BY <4>4 DEF d
      <3>3. ReaderView!Retain(h, new)
        BY <2>1, <3>2, RetainView
      <3>4. ReaderView!MayHold(h) /\ (h \in DOMAIN t.archive \/ h > t.committedHeight)
        BY <2>1, ReadersSee
      <3>5. lost > 0 => h \in DOMAIN t.archive /\ ViewOf(b).seal = 0 /\ h > t.committedHeight
        BY <3>1 DEF ViewOf
      <3>6. /\ t'.catalogueRevision = t.catalogueRevision + ReaderView!New(h)
            /\ t'.committedHeight = t.committedHeight
        <4>1. t.catalogueRevision \in Nat
          BY DEF ArchiveOK
        <4> QED BY <2>1, <4>1, ReadersSee DEF HeightsAre
      <3>7. n \in 1..(RoundLimit + 1) /\ lost \in {0, 1}
        BY <3>1
      <3> HIDE DEF b, d, open, Is
      <3>8. ReaderView!Observe(h, n, lost)
        <4>1. ReaderView!Held = DOMAIN t.archive
          BY ReadersSee
        <4>2. new = [ReaderView!BlockAt(h) EXCEPT !.evidence = @ + n, !.lost = @ + lost]
          BY <2>2, <3>0
        <4>3. ReaderView!Retain(h, [ReaderView!BlockAt(h) EXCEPT !.evidence = @ + n, !.lost = @ + lost])
          BY <3>3, <4>2 DEF ReaderView!Retain
        <4> QED BY <2>2, <3>3, <3>4, <3>5, <3>6, <4>1, <4>3 DEF ReaderView!Observe
      <3> QED BY <3>7, <3>8 DEF ReaderView!ArchiveNext
    <2>4. CASE h \notin DOMAIN t'.archive
      <3>1. Is(1, 0)
        BY <2>4, LimitAssumption
      <3> HIDE DEF Is
      <3> QED BY <2>3, <3>1
    <2>5. CASE h \in DOMAIN t'.archive /\ d.revision # b.revision
      <3>1. Counted(b, d, open, 2)
        BY <2>1, <2>5
      <3>2. \E n \in {1, 2} : d.revision = b.revision + n
        <4> HIDE DEF b, d, open
        <4> QED BY <2>2, <2>5, <3>1 DEF Counted
      <3>3. \E lost \in {0, 1} : /\ d.roundsEvicted = b.roundsEvicted + lost
                                 /\ lost > 0 => open /\ ~b.committed
        <4> HIDE DEF b, d, open
        <4>1. CASE d.roundsEvicted = b.roundsEvicted
          <5>1. d.roundsEvicted = b.roundsEvicted + 0
            BY <2>2, <4>1
          <5> QED BY <5>1
        <4> QED BY <3>1, <4>1 DEF Counted
      <3>4. PICK n \in {1, 2}, lost \in {0, 1} : /\ d.revision = b.revision + n
                                                 /\ d.roundsEvicted = b.roundsEvicted + lost
                                                 /\ lost > 0 => open /\ ~b.committed
        BY <3>2, <3>3
      <3>5. n \in 1..(RoundLimit + 1)
        BY LimitAssumption
      <3>6. Is(n, lost)
        <4> HIDE DEF b, d, open
        <4> QED BY <3>4, <3>5
      <3> HIDE DEF Is
      <3> QED BY <2>3, <3>6
    <2>6. CASE h \in DOMAIN t'.archive /\ d.revision = b.revision
      <3>1. h \in DOMAIN t.archive /\ Counted(b, d, open, 2)
        BY <2>1, <2>2, <2>6
      <3>2. ViewOf(d) = ViewOf(t.archive[h])
        <4>1. d.roundsEvicted = b.roundsEvicted /\ d.committed = b.committed
              /\ d.canonicalHash = b.canonicalHash
          <5> HIDE DEF b, d, open
          <5> QED BY <2>2, <2>6, <3>1 DEF Counted
        <4> QED BY <2>6, <3>1, <4>1 DEF ViewOf, BlockAt
      <3>3. DOMAIN t.archive \cup {h} = DOMAIN t.archive
            /\ ~(Cardinality(DOMAIN t.archive) > HistorySize)
        BY <3>1, FS_CardinalityType, LimitAssumption DEF ArchiveOK
      <3>4. SameHeights(t, t') /\ \A x \in DOMAIN t.archive : x # h => t'.archive[x] = t.archive[x]
        <4>1. Larger(h, t.archiveLatestHeight) = t.archiveLatestHeight
          BY <3>1 DEF Larger, ArchiveOK
        <4> QED BY <2>1, <3>1, <3>3, <4>1 DEF HeightsAre, SameHeights
      <3>5. View(t)' = View(t)
        <4>1. \A x \in DOMAIN t.archive : ViewOf(t'.archive[x]) = ViewOf(t.archive[x])
          BY <3>2, <3>4
        <4> QED BY <3>4, <4>1 DEF View, SameHeights
      <3>6. ReaderView!ObserveNothing
        BY <3>4, <3>5 DEF ReaderView!ObserveNothing, ReaderView!archiveVars, SameHeights, View, ViewOf
      <3> QED BY <3>6 DEF ReaderView!ArchiveNext
    <2> QED BY <2>4, <2>5, <2>6
  <1> QED BY <1>1, <1>2

(* SetValidators is FillRosters.                                           *)
LEMMA RosterIsStep ==
  ASSUME ArchiveOK(t), NEW m, NEW power, t' = SetRoster(t, m, power)
  PROVE  ReaderView!ArchiveNext
  <1>1. /\ t'.archive = [h \in DOMAIN t.archive |-> FillRosters(t.archive[h], m)]
        /\ t'.committedHeight = t.committedHeight
        /\ t'.archiveEvictedThrough = t.archiveEvictedThrough
        /\ t'.archiveLatestHeight = t.archiveLatestHeight
        /\ t'.catalogueRevision = t.catalogueRevision
    BY DEF SetRoster, ArchiveOK, TrackerFields
  <1>2. ASSUME NEW h \in DOMAIN t.archive
        PROVE  \E n \in 0..RoundLimit : ViewOf(t'.archive[h]) = [ViewOf(t.archive[h]) EXCEPT !.evidence = @ + n]
    <2>1. BlockOK(t.archive[h]) /\ t'.archive[h] = FillRosters(t.archive[h], m)
      BY <1>1 DEF ArchiveOK
    <2>2. /\ t'.archive[h].committed = t.archive[h].committed
          /\ t'.archive[h].canonicalHash = t.archive[h].canonicalHash
          /\ t'.archive[h].roundsEvicted = t.archive[h].roundsEvicted
          /\ \E n \in 0..RoundLimit : t'.archive[h].revision = t.archive[h].revision + n
      BY <2>1, FillRostersCounts
    <2> QED BY <2>2 DEF ViewOf
  <1>3. PICK n \in [DOMAIN t.archive -> (1..(RoundLimit + 1)) \cup {0}] :
          \A h \in DOMAIN t.archive :
            ViewOf(t'.archive[h]) = [ViewOf(t.archive[h]) EXCEPT !.evidence = @ + n[h]]
    <2> DEFINE up(h, k) == ViewOf(t'.archive[h]) = [ViewOf(t.archive[h]) EXCEPT !.evidence = @ + k]
               n == [h \in DOMAIN t.archive |-> CHOOSE k \in 0..RoundLimit : up(h, k)]
    <2>1. \A h \in DOMAIN t.archive : n[h] \in 0..RoundLimit /\ up(h, n[h])
      BY <1>2
    <2>2. \A x : x \in 0..RoundLimit => x \in (1..(RoundLimit + 1)) \cup {0}
      BY LimitAssumption
    <2> HIDE DEF up
    <2>3. n \in [DOMAIN t.archive -> (1..(RoundLimit + 1)) \cup {0}]
      BY <2>1, <2>2
    <2>4. \A h \in DOMAIN t.archive : up(h, n[h])
      BY <2>1
    <2> HIDE DEF n
    <2> QED BY <2>3, <2>4 DEF up
  <1>4. n \in [DOMAIN t.archive -> (1..(RoundLimit + 1)) \cup {0}]
    BY <1>3
  <1>5. View(t)' = [h \in DOMAIN t.archive |-> [View(t)[h] EXCEPT !.evidence = @ + n[h]]]
    BY <1>1, <1>3 DEF View
  <1>6. ReaderView!FillRosters(n)
    BY <1>1, <1>5, ReadersSee DEF ReaderView!FillRosters, View, ViewOf
  <1>7. ReaderView!Held = DOMAIN t.archive
    BY ReadersSee
  <1>8. n \in [ReaderView!Held -> (1..(RoundLimit + 1)) \cup {0}]
    BY <1>4, <1>7
  <1> QED BY <1>6, <1>8 DEF ReaderView!ArchiveNext

(* ResolveCommit is Commit.                                                *)
LEMMA CommitIsStep ==
  ASSUME TrackerOK(t), NEW h \in Heights, NEW hash \in BlockHashes,
         t' = ResolveCommitLocked(t, h, hash)
  PROVE  ReaderView!ArchiveNext
  <1> DEFINE w == ArchiveCommit(t, h, hash)
  <1>1. PICK seal \in 0..2 : seal = SealOf(hash)
    BY DEF SealOf
  <1> DEFINE files == seal > 0 /\ (h \in DOMAIN t.archive \/ (h > 0 /\ h > t.archiveEvictedThrough))
             b == BlockAt(t, h)
  <1>2. /\ ArchiveOK(w) /\ MovesOn(t, w)
        /\ IF files
           THEN /\ HeightsAre(t, w, h)
                /\ h \in DOMAIN w.archive => ViewOf(w.archive[h]) = SealedView(b, seal)
           ELSE SameHeights(t, w) /\ w.archive = t.archive
    <2>1. ArchiveOK(t) /\ Inside(t)
      BY DEF TrackerOK
    <2> HIDE DEF w
    <2>2. w = ArchiveCommit(t, h, hash)
      BY DEF w
    <2>3. ArchiveOK(w) /\ MovesOn(t, w)
      BY <2>1, <2>2, ArchiveCommitOK
    <2> QED BY <1>1, <2>1, <2>2, <2>3, ArchiveCommitSeen
  <1>3. /\ t'.archive = w.archive
        /\ t'.archiveEvictedThrough = w.archiveEvictedThrough
        /\ t'.archiveLatestHeight = w.archiveLatestHeight
        /\ t'.committedHeight = Larger(h, w.committedHeight)
        /\ t'.catalogueRevision = IF h > w.committedHeight THEN w.catalogueRevision + 1
                                  ELSE w.catalogueRevision
    <2> HIDE DEF w
    <2>1. DOMAIN w = TrackerFields
      BY <1>2 DEF ArchiveOK
    <2> QED BY <2>1 DEF ResolveCommitLocked, TrackerFields, w
  <1> HIDE DEF w
  <1>4. PICK new : new = IF ReaderView!BlockAt(h).seal < seal
                         THEN [ReaderView!BlockAt(h) EXCEPT !.seal = seal, !.evidence = @ + 1]
                         ELSE ReaderView!BlockAt(h)
    OBVIOUS
  <1>5. new = SealedView(b, seal)
    <2>1. ReaderView!BlockAt(h) = ViewOf(b)
      BY ReadersSee DEF BlockAt
    <2> HIDE DEF b
    <2>2. [ViewOf(b) EXCEPT !.seal = seal, !.evidence = @ + 1]
          = [evidence |-> b.revision + 1, seal |-> seal, lost |-> b.roundsEvicted]
      <3> DEFINE v == ViewOf(b)  q == [v EXCEPT !.seal = seal, !.evidence = @ + 1]
      <3>1. DOMAIN v = {"evidence", "seal", "lost"} /\ IsFcn(v)
            /\ v.evidence = b.revision /\ v.lost = b.roundsEvicted
        BY DEF ViewOf, IsFcn
      <3> HIDE DEF v
      <3>2. /\ q.evidence = b.revision + 1 /\ q.seal = seal /\ q.lost = b.roundsEvicted
            /\ DOMAIN q = {"evidence", "seal", "lost"} /\ IsFcn(q)
        BY <3>1 DEF IsFcn
      <3> HIDE DEF q
      <3>3. q = [evidence |-> b.revision + 1, seal |-> seal, lost |-> b.roundsEvicted]
        BY <3>2 DEF IsFcn
      <3> QED BY <3>3 DEF q, v
    <2> QED BY <1>4, <2>1, <2>2 DEF SealedView
  <1>6. /\ t'.committedHeight = Larger(h, t.committedHeight)
        /\ t'.catalogueRevision = t.catalogueRevision
                                  + (IF files THEN ReaderView!New(h) ELSE 0)
                                  + (IF h > t.committedHeight THEN 1 ELSE 0)
    <2>1. t.catalogueRevision \in Nat /\ w.committedHeight = t.committedHeight
      BY <1>2 DEF TrackerOK, ArchiveOK, MovesOn
    <2>2. w.catalogueRevision = t.catalogueRevision + (IF files THEN ReaderView!New(h) ELSE 0)
      <3>1. CASE files
        <4>1. w.catalogueRevision = IF h \in DOMAIN t.archive THEN t.catalogueRevision
                                    ELSE t.catalogueRevision + 1
          BY <1>2, <3>1 DEF HeightsAre
        <4> HIDE DEF files
        <4> QED BY <2>1, <3>1, <4>1, ReadersSee
      <3>2. CASE ~files
        <4>1. w.catalogueRevision = t.catalogueRevision
          BY <1>2, <3>2 DEF SameHeights
        <4> HIDE DEF files
        <4> QED BY <2>1, <3>2, <4>1
      <3> QED BY <3>1, <3>2
    <2>3. w.catalogueRevision \in Nat
      BY <1>2 DEF ArchiveOK
    <2> HIDE DEF files
    <2> QED BY <1>3, <2>1, <2>2, <2>3
  <1>7. IF files THEN ReaderView!Retain(h, new)
        ELSE /\ View(t)' = View(t) /\ t'.archiveLatestHeight = t.archiveLatestHeight
             /\ t'.archiveEvictedThrough = t.archiveEvictedThrough
    <2>1. CASE files
      <3>1. ArchiveOK(t) /\ HeightsAre(t, w, h)
            /\ (h \in DOMAIN w.archive => ViewOf(w.archive[h]) = new)
        BY <1>2, <1>5, <2>1 DEF TrackerOK
      <3>2. ReaderView!Retain(h, new)
        <4> HIDE DEF files, b
        <4> QED BY <1>3, <3>1, RetainView
      <3> QED BY <2>1, <3>2
    <2>2. CASE ~files
      <3>1. SameHeights(t, w) /\ w.archive = t.archive
        BY <1>2, <2>2
      <3>2. View(t)' = View(t)
        BY <1>3, <3>1 DEF View
      <3> QED BY <1>3, <2>2, <3>1, <3>2 DEF SameHeights
    <2> QED BY <2>1, <2>2
  <1>8. ReaderView!MayHold(h) <=> h \in DOMAIN t.archive \/ (h > 0 /\ h > t.archiveEvictedThrough)
    BY ReadersSee
  <1>9. ReaderView!Larger(h, t.committedHeight) = Larger(h, t.committedHeight)
    BY SameOperators
  <1>10. seal > 0 /\ ReaderView!MayHold(h) =>
           ReaderView!Retain(h, IF ReaderView!BlockAt(h).seal < seal
                                THEN [ReaderView!BlockAt(h) EXCEPT !.seal = seal, !.evidence = @ + 1]
                                ELSE ReaderView!BlockAt(h))
    <2> SUFFICES ASSUME seal > 0, ReaderView!MayHold(h)
                 PROVE  ReaderView!Retain(h, IF ReaderView!BlockAt(h).seal < seal
                                THEN [ReaderView!BlockAt(h) EXCEPT !.seal = seal, !.evidence = @ + 1]
                                ELSE ReaderView!BlockAt(h))
      OBVIOUS
    <2>1. ReaderView!Retain(h, new)
      BY <1>7, <1>8
    <2> HIDE DEF b, files
    <2> QED BY <1>4, <2>1 DEF ReaderView!Retain
  <1>11. ReaderView!Commit(h, seal)
    <2>1. files <=> seal > 0 /\ ReaderView!MayHold(h)
      BY <1>8
    <2> HIDE DEF b, files
    <2> QED BY <1>6, <1>7, <1>9, <1>10, <2>1 DEF ReaderView!Commit, View, ViewOf
  <1> HIDE DEF b, files
  <1> QED BY <1>1, <1>11 DEF ReaderView!ArchiveNext

(* Every call of the tracker is a step of Archive.                         *)
LEMMA NextIsStep ==
  ASSUME TrackerInv, [Next]_vars
  PROVE  [ReaderView!ArchiveNext]_ReaderView!archiveVars
  <1>0. TrackerOK(t) /\ ArchiveOK(t) /\ Inside(t)
    BY DEF TrackerInv, TrackerOK
  <1>1. ASSUME NEW m \in Rosters, SetValidators(m)
        PROVE  ReaderView!ArchiveNext
    <2> DEFINE power == PowerOfAll(m, DOMAIN m)
    <2>1. t' = SetRoster(t, m, power)
      BY <1>1 DEF SetValidators, SetRoster
    <2> HIDE DEF power
    <2> QED BY <1>0, <2>1, RosterIsStep
  <1>2. ASSUME NEW h \in Heights, NEW r \in Rounds, NEW p \in Proposers, ObserveRound(h, r, p)
        PROVE  ReaderView!ArchiveNext
    <2>1. t' = ObserveRoundLocked(t, h, r, p)
      BY <1>2 DEF ObserveRound
    <2>2. Seen(t, t', h, 2)
      BY <1>0, <2>1, ObserveRoundSeen
    <2> QED BY <1>0, <2>2, SeenIsStep
  <1>3. ASSUME NEW v \in Votes, ObserveVote(v)
        PROVE  ReaderView!ArchiveNext
    <2>1. t' = ObserveVoteLocked(t, v) /\ v.height \in Heights
      BY <1>3 DEF ObserveVote, Votes
    <2>2. Seen(t, t', v.height, 2)
      BY <1>0, <2>1, ObserveVoteSeen
    <2> QED BY <1>0, <2>1, <2>2, SeenIsStep
  <1>4. ASSUME NEW v \in Votes, IngestVote(v)
        PROVE  ReaderView!ArchiveNext
    <2> DEFINE w == ObserveVoteLocked(t, v)
    <2>1. t' = IngestVoteLocked(t, v).tracker /\ v.height \in Heights
      BY <1>4 DEF IngestVote, Votes
    <2>2. Seen(t, w, v.height, 2) /\ DOMAIN w = TrackerFields
      <3> HIDE DEF w
      <3>1. w = ObserveVoteLocked(t, v)
        BY DEF w
      <3>2. Observed(t, w, v.height, v.round)
        BY <1>0, <3>1, ObserveVoteOK
      <3>3. Seen(t, w, v.height, 2)
        BY <1>0, <3>1, ObserveVoteSeen
      <3> QED BY <3>2, <3>3 DEF Observed, ArchiveOK
    <2>3. t' = w \/ \E k, rd : t' = SetRound(w, k, rd)
      BY <2>1 DEF IngestVoteLocked, SetRound
    <2> HIDE DEF w
    <2>4. t'.archive = w.archive /\ SameHeights(w, t')
      BY <2>2, <2>3 DEF SetRound, TrackerFields, SameHeights
    <2>5. Seen(t, t', v.height, 2)
      BY <2>2, <2>4 DEF Seen, SameHeights, HeightsAre
    <2> QED BY <1>0, <2>1, <2>5, SeenIsStep
  <1>5. ASSUME NEW h \in Heights, NEW r \in Rounds, MarkRoundAdvanced(h, r)
        PROVE  ReaderView!ArchiveNext
    <2>1. t' = Advance(t, h, r)
      BY <1>5 DEF MarkRoundAdvanced, Advance
    <2>2. SameHeights(t, t') /\ t'.archive = t.archive
      BY <1>0, <2>1 DEF Advance, ArchiveOK, TrackerFields, SameHeights
    <2> QED BY <2>2, NothingSeen
  <1>6. ASSUME NEW h \in Heights, NEW hash \in BlockHashes, ResolveCommit(h, hash)
        PROVE  ReaderView!ArchiveNext
    <2>1. t' = ResolveCommitLocked(t, h, hash)
      BY <1>6 DEF ResolveCommit
    <2> QED BY <1>0, <2>1, CommitIsStep
  <1>7. CASE UNCHANGED vars
    <2>1. SameHeights(t, t') /\ t'.archive = t.archive
      BY <1>7 DEF vars, SameHeights
    <2> QED BY <2>1, NothingSeen
  <1> QED BY <1>1, <1>2, <1>3, <1>4, <1>5, <1>6, <1>7 DEF Next

(* For all limits, the tracker is an archive as its readers know it: what  *)
(* was evicted never comes back, rounds are lost before the commit only, a *)
(* commit and its hash are never taken back, and every change of the       *)
(* status of a height has its own revision.                                *)
THEOREM ArchiveImplemented == Spec => ImplementsArchive
  <1>1. Init => ReaderView!ArchiveInit
    <2> SUFFICES ASSUME Init PROVE ReaderView!ArchiveInit
      OBVIOUS
    <2>1. DOMAIN t.archive = {} /\ t.archiveLatestHeight = 0 /\ t.archiveEvictedThrough = 0
          /\ t.committedHeight = 0 /\ t.catalogueRevision = 0
      BY DEF Init, NoEntries
    <2> QED BY <2>1 DEF ReaderView!ArchiveInit
  <1>2. TrackerInv /\ [Next]_vars => [ReaderView!ArchiveNext]_ReaderView!archiveVars
    BY NextIsStep
  <1> QED BY <1>1, <1>2, TrackerInvariant, PTL DEF Spec, ImplementsArchive, ReaderView!ArchiveSpec

-----------------------------------------------------------------------------
(* Sums over finite sets *)

(* Induction over a finite set: G is the set of its subsets of which the   *)
(* claim is known.  The smallest set outside G would lack one element of   *)
(* itself.                                                                 *)
LEMMA FiniteInduction ==
  ASSUME NEW D, IsFiniteSet(D), NEW G,
         {} \in G, \A T \in SUBSET D, x \in D : T \in G /\ x \notin T => T \cup {x} \in G
  PROVE  D \in G
  <1> SUFFICES ASSUME D \notin G PROVE FALSE
    OBVIOUS
  <1> DEFINE Missing(n) == \E T \in SUBSET D : T \notin G /\ Cardinality(T) = n
             S == {n \in Nat : Missing(n)}
  <1>1. \A T \in SUBSET D : IsFiniteSet(T) /\ Cardinality(T) \in Nat
    BY FS_Subset, FS_CardinalityType
  <1>2. Cardinality(D) \in S
    BY <1>1
  <1>3. PICK n \in S : \A k \in S : n <= k
    BY <1>2, LeastNatural
  <1>4. PICK T \in SUBSET D : T \notin G /\ Cardinality(T) = n
    BY <1>3
  <1>5. PICK x \in T : TRUE
    BY <1>4
  <1>6. Cardinality(T \ {x}) = n - 1 /\ T \ {x} \in SUBSET D /\ n \in Nat
    BY <1>1, <1>4, <1>5, FS_RemoveElement
  <1>7. T \ {x} \in G
    <2> SUFFICES ASSUME T \ {x} \notin G PROVE FALSE
      OBVIOUS
    <2>1. Cardinality(T \ {x}) \in S
      BY <1>1, <1>6
    <2> QED BY <1>3, <1>6, <2>1
  <1>8. (T \ {x}) \cup {x} = T /\ x \in D
    BY <1>4, <1>5
  <1> QED BY <1>4, <1>5, <1>6, <1>7, <1>8

Chosen(T) == CHOOSE x \in T : TRUE

(* f gives the sum of the weights w over each subset of their domain.      *)
Sums(w, f) ==
  f = [T \in SUBSET DOMAIN w |-> IF T = {} THEN 0 ELSE w[Chosen(T)] + f[T \ {Chosen(T)}]]

Total(w) == (CHOOSE f : Sums(w, f))[DOMAIN w]

Weights(w) == IsFiniteSet(DOMAIN w) /\ w \in [DOMAIN w -> Int]

(* The recursion that defines a sum has a solution.                        *)
LEMMA SumsExist == ASSUME NEW w, Weights(w) PROVE \E f : Sums(w, f)
  <1> DEFINE D == DOMAIN w
             Part(E, f) == f = [T \in SUBSET E |-> IF T = {} THEN 0 ELSE w[Chosen(T)] + f[T \ {Chosen(T)}]]
             Small(n) == {T \in SUBSET D : Cardinality(T) <= n}
             Upto(n, f) == f = [T \in Small(n) |-> IF T = {} THEN 0 ELSE w[Chosen(T)] + f[T \ {Chosen(T)}]]
             S == {n \in Nat : ~ \E f : Upto(n, f)}
  <1>1. \A T \in SUBSET D : IsFiniteSet(T) /\ Cardinality(T) \in Nat
    BY FS_Subset, FS_CardinalityType DEF Weights
  <1>2. \A T \in SUBSET D : T # {} => Chosen(T) \in T /\ Cardinality(T \ {Chosen(T)}) = Cardinality(T) - 1
    BY <1>1, FS_RemoveElement DEF Chosen
  <1>3. \A n \in Nat : \E f : Upto(n, f)
    <2> SUFFICES ASSUME S # {} PROVE FALSE
      OBVIOUS
    <2>1. PICK n \in S : \A k \in S : n <= k
      BY LeastNatural
    <2>2. CASE n = 0
      <3>1. \A T \in Small(0) : T = {}
        <4> SUFFICES ASSUME NEW T \in SUBSET D, Cardinality(T) <= 0, T # {} PROVE FALSE
          OBVIOUS
        <4>1. Cardinality(T) \in Nat /\ Cardinality(T) - 1 \in Nat
          BY <1>1, <1>2
        <4> QED BY <4>1
      <3>2. Upto(0, [T \in Small(0) |-> 0])
        BY <3>1
      <3> QED BY <2>1, <2>2, <3>2
    <2>3. CASE n # 0
      <3>1. n - 1 \in Nat /\ n - 1 \notin S /\ n \in Nat
        <4>1. n \in Nat
          BY <2>1
        <4> HIDE DEF S
        <4> QED BY <2>1, <2>3, <4>1
      <3>2. PICK f : Upto(n - 1, f)
        BY <3>1
      <3> DEFINE g == [T \in Small(n) |-> IF T = {} THEN 0 ELSE w[Chosen(T)] + f[T \ {Chosen(T)}]]
      <3>3. \A T \in Small(n - 1) : T \in Small(n) /\ g[T] = f[T]
        <4> SUFFICES ASSUME NEW T \in Small(n - 1) PROVE T \in Small(n) /\ g[T] = f[T]
          OBVIOUS
        <4>1. T \in Small(n)
          BY <1>1, <3>1
        <4>2. f[T] = IF T = {} THEN 0 ELSE w[Chosen(T)] + f[T \ {Chosen(T)}]
          BY <3>2
        <4> QED BY <4>1, <4>2
      <3>4. \A T \in Small(n) : T # {} => T \ {Chosen(T)} \in Small(n - 1)
        BY <1>1, <1>2, <3>1
      <3> HIDE DEF Small
      <3>5. \A T \in Small(n) : g[T] = IF T = {} THEN 0 ELSE w[Chosen(T)] + g[T \ {Chosen(T)}]
        BY <3>3, <3>4
      <3>6. Upto(n, g)
        BY <3>5
      <3> QED BY <2>1, <3>6
    <2> QED BY <2>2, <2>3
  <1>4. Small(Cardinality(D)) = SUBSET D /\ Cardinality(D) \in Nat
    BY <1>1, FS_Subset DEF Weights
  <1> QED BY <1>3, <1>4 DEF Sums

(* It does not depend on the order in which the elements are chosen.       *)
LEMMA SumStep ==
  ASSUME NEW w, Weights(w), NEW f, Sums(w, f)
  PROVE  /\ f[{}] = 0
         /\ \A T \in SUBSET DOMAIN w : f[T] \in Int /\ \A x \in T : f[T] = w[x] + f[T \ {x}]
  <1> DEFINE D == DOMAIN w
             Right(T) == f[T] \in Int /\ \A x \in T : f[T] = w[x] + f[T \ {x}]
             S == {n \in Nat : \E T \in SUBSET D : Cardinality(T) = n /\ ~Right(T)}
  <1>1. \A T \in SUBSET D : /\ IsFiniteSet(T) /\ Cardinality(T) \in Nat
                            /\ \A x \in T : Cardinality(T \ {x}) = Cardinality(T) - 1
    BY FS_Subset, FS_CardinalityType, FS_RemoveElement DEF Weights
  <1>2. \A T \in SUBSET D : f[T] = IF T = {} THEN 0 ELSE w[Chosen(T)] + f[T \ {Chosen(T)}]
    BY DEF Sums
  <1>3. \A T \in SUBSET D : T # {} => Chosen(T) \in T
    BY DEF Chosen
  <1>4. \A x \in D : w[x] \in Int
    BY DEF Weights
  <1>5. S = {}
    <2> SUFFICES ASSUME S # {} PROVE FALSE
      OBVIOUS
    <2>1. PICK n \in S : \A k \in S : n <= k
      BY LeastNatural
    <2>2. PICK T \in SUBSET D : Cardinality(T) = n /\ ~Right(T)
      BY <2>1
    <2>3. \A U \in SUBSET D : Cardinality(U) < n => Right(U)
      <3> SUFFICES ASSUME NEW U \in SUBSET D, Cardinality(U) < n, ~Right(U) PROVE FALSE
        OBVIOUS
      <3>1. Cardinality(U) \in S /\ n \in Nat /\ Cardinality(U) \in Nat
        BY <1>1, <2>1
      <3> HIDE DEF S
      <3> QED BY <2>1, <3>1
    <2>4. T # {}
      <3>1. f[{}] = 0
        BY <1>2
      <3> QED BY <2>2, <3>1
    <2>5. n \in Nat
      BY <2>1
    <2> DEFINE c == Chosen(T)
    <2>6. c \in T /\ f[T] = w[c] + f[T \ {c}]
      BY <1>2, <1>3, <2>4
    <2> HIDE DEF c
    <2>7. Right(T \ {c})
      BY <1>1, <2>2, <2>3, <2>5, <2>6
    <2>8. f[T] \in Int
      BY <1>4, <2>6, <2>7
    <2>9. ASSUME NEW x \in T PROVE f[T] = w[x] + f[T \ {x}]
      <3>1. CASE x = c
        BY <2>6, <3>1
      <3>2. CASE x # c
        <4>1. Right(T \ {x})
          BY <1>1, <2>2, <2>3, <2>5
        <4>2. (T \ {c}) \ {x} = (T \ {x}) \ {c} /\ x \in T \ {c} /\ c \in T \ {x}
          BY <2>6, <3>2
        <4>3. f[T \ {c}] = w[x] + f[(T \ {x}) \ {c}]
          BY <2>7, <4>2
        <4>4. f[T \ {x}] = w[c] + f[(T \ {x}) \ {c}]
          BY <4>1, <4>2
        <4>5. Right((T \ {x}) \ {c})
          <5>1. Cardinality(T \ {x}) = n - 1 /\ T \ {x} \in SUBSET D /\ n - 1 \in Nat
            BY <1>1, <2>2, <2>9
          <5>2. Cardinality((T \ {x}) \ {c}) = n - 2 /\ (T \ {x}) \ {c} \in SUBSET D
            BY <1>1, <4>2, <5>1
          <5>3. n - 2 < n
            BY <2>5
          <5> HIDE DEF Right, D
          <5> QED BY <2>3, <5>2, <5>3
        <4>6. f[(T \ {x}) \ {c}] \in Int /\ w[x] \in Int /\ w[c] \in Int
          BY <1>4, <2>6, <4>5
        <4> HIDE DEF Right
        <4> QED BY <2>6, <4>3, <4>4, <4>6
      <3> QED BY <3>1, <3>2
    <2> QED BY <2>2, <2>8, <2>9
  <1>6. \A T \in SUBSET D : Right(T)
    BY <1>1, <1>5
  <1> QED BY <1>2, <1>6

(* Two sums agree where their weights do.                                  *)
LEMMA SumsAgree ==
  ASSUME NEW w, NEW u, NEW f, NEW g, Weights(w), Weights(u), Sums(w, f), Sums(u, g),
         NEW E, E \subseteq DOMAIN w, E \subseteq DOMAIN u, \A x \in E : w[x] = u[x]
  PROVE  f[E] = g[E]
  <1> DEFINE G == {T \in SUBSET E : f[T] = g[T]}
  <1>1. IsFiniteSet(E)
    BY FS_Subset DEF Weights
  <1>4. f[{}] = 0 /\ \A T \in SUBSET DOMAIN w : f[T] \in Int /\ \A x \in T : f[T] = w[x] + f[T \ {x}]
    BY SumStep
  <1>5. g[{}] = 0 /\ \A T \in SUBSET DOMAIN u : g[T] \in Int /\ \A x \in T : g[T] = u[x] + g[T \ {x}]
    BY SMTT(30), SumStep
  <1>2. {} \in G
    BY <1>4, <1>5
  <1>3. ASSUME NEW T \in SUBSET E, NEW x \in E, T \in G, x \notin T
        PROVE  T \cup {x} \in G
    <2>1. (T \cup {x}) \ {x} = T /\ T \cup {x} \in SUBSET E /\ w[x] = u[x]
      BY <1>3
    <2> DEFINE U == T \cup {x}
    <2>2. f[U] = w[x] + f[U \ {x}]
      <3>1. U \in SUBSET DOMAIN w /\ x \in U
        BY <2>1
      <3> HIDE DEF U
      <3> QED BY <3>1, <1>4, <1>5
    <2>3. g[U] = u[x] + g[U \ {x}]
      <3>1. U \in SUBSET DOMAIN u /\ x \in U
        BY <2>1
      <3> HIDE DEF U
      <3> QED BY <3>1, <1>4, <1>5
    <2> QED BY <1>3, <2>1, <2>2, <2>3
  <1> HIDE DEF G
  <1>6. E \in G
    BY <1>1, <1>2, <1>3, FiniteInduction
  <1> QED BY <1>6 DEF G

(* A total grows by the weight of each element.                            *)
LEMMA TotalStep ==
  ASSUME NEW w, Weights(w)
  PROVE  /\ Total(w) \in Int /\ (DOMAIN w = {} => Total(w) = 0)
         /\ \A x \in DOMAIN w : Total(w) = w[x] + Total([a \in DOMAIN w \ {x} |-> w[a]])
  <1> DEFINE f == CHOOSE f : Sums(w, f)
  <1>1. Sums(w, f) /\ Total(w) = f[DOMAIN w]
    BY SumsExist DEF Total
  <1> HIDE DEF f
  <1>2. f[{}] = 0 /\ \A T \in SUBSET DOMAIN w : f[T] \in Int /\ \A x \in T : f[T] = w[x] + f[T \ {x}]
    BY <1>1, SumStep
  <1>3. ASSUME NEW x \in DOMAIN w PROVE Total(w) = w[x] + Total([a \in DOMAIN w \ {x} |-> w[a]])
    <2> DEFINE u == [a \in DOMAIN w \ {x} |-> w[a]]
               g == CHOOSE g : Sums(u, g)
    <2>1. Weights(u) /\ DOMAIN u = DOMAIN w \ {x} /\ \A a \in DOMAIN u : u[a] = w[a]
      BY FS_Subset DEF Weights
    <2> HIDE DEF u
    <2>2. Sums(u, g) /\ Total(u) = g[DOMAIN u]
      BY <2>1, SumsExist DEF Total
    <2> HIDE DEF g
    <2>3. f[DOMAIN u] = g[DOMAIN u]
      <3>1. PICK E : E = DOMAIN u
        OBVIOUS
      <3>2. E \subseteq DOMAIN w /\ E \subseteq DOMAIN u /\ \A a \in E : w[a] = u[a]
        BY <2>1, <3>1
      <3>3. f[E] = g[E]
        BY <1>1, <2>1, <2>2, <3>2, SumsAgree
      <3> QED BY <3>1, <3>3
    <2>4. Total(w) = w[x] + f[DOMAIN w \ {x}]
      BY <1>1, <1>2
    <2>5. Total(w) = w[x] + Total(u)
      BY <2>1, <2>2, <2>3, <2>4
    <2> QED BY <2>5 DEF u
  <1> QED BY <1>1, <1>2, <1>3

(* The power of a set of validators is such a total.                       *)
LEMMA PowerIsTotal ==
  ASSUME NEW m, NEW S, NEW w, w = [a \in S |-> PowerOf(m, a)]
  PROVE  PowerOfAll(m, S) = Total(w)
  <1> DEFINE Given(f) == f = [T \in SUBSET S |-> IF T = {} THEN 0
                               ELSE PowerOf(m, CHOOSE x \in T : TRUE) + f[T \ {CHOOSE x \in T : TRUE}]]
  <1>1. PowerOfAll(m, S) = (CHOOSE f : Given(f))[S]
    BY DEF PowerOfAll, MapThenSumSet, MapThenFoldSet
  <1>2. \A T \in SUBSET S : T # {} => w[Chosen(T)] = PowerOf(m, Chosen(T))
    BY DEF Chosen
  <1>3. ASSUME NEW f PROVE Given(f) <=> Sums(w, f)
    <2> DEFINE A(T) == IF T = {} THEN 0 ELSE PowerOf(m, Chosen(T)) + f[T \ {Chosen(T)}]
               B(T) == IF T = {} THEN 0 ELSE w[Chosen(T)] + f[T \ {Chosen(T)}]
    <2>1. \A T \in SUBSET S : A(T) = B(T)
      BY <1>2
    <2>2. [T \in SUBSET S |-> A(T)] = [T \in SUBSET S |-> B(T)]
      BY <2>1
    <2>3. DOMAIN w = S
      OBVIOUS
    <2>4. Given(f) <=> f = [T \in SUBSET S |-> A(T)]
      BY DEF Chosen
    <2>5. Sums(w, f) <=> f = [T \in SUBSET S |-> B(T)]
      BY <2>3 DEF Sums
    <2> HIDE DEF A, B, Given
    <2> QED BY <2>2, <2>4, <2>5
  <1> HIDE DEF Given
  <1>4. (CHOOSE f : Given(f)) = (CHOOSE f : Sums(w, f))
    BY <1>3
  <1> QED BY <1>1, <1>4 DEF Total

Powers(m) == m \in [DOMAIN m -> Nat]

(* The power of a set grows by the power of each validator.                *)
LEMMA PowerStep ==
  ASSUME NEW m, Powers(m), NEW S, IsFiniteSet(S)
  PROVE  /\ PowerOfAll(m, S) \in Int /\ (S = {} => PowerOfAll(m, S) = 0)
         /\ \A x \in S : PowerOfAll(m, S) = PowerOf(m, x) + PowerOfAll(m, S \ {x})
  <1> DEFINE w(T) == [a \in T |-> PowerOf(m, a)]
  <1>1. \A a : PowerOf(m, a) \in Nat
    BY DEF PowerOf, Powers
  <1>2. Weights(w(S))
    BY <1>1 DEF Weights
  <1>3. \A T : PowerOfAll(m, T) = Total(w(T))
    BY PowerIsTotal
  <1>4. \A x \in S : [a \in DOMAIN w(S) \ {x} |-> w(S)[a]] = w(S \ {x}) /\ w(S)[x] = PowerOf(m, x)
    OBVIOUS
  <1>5. DOMAIN w(S) = S
    OBVIOUS
  <1>6. PICK u : u = w(S)
    OBVIOUS
  <1>7. /\ Total(u) \in Int /\ (DOMAIN u = {} => Total(u) = 0)
        /\ \A x \in DOMAIN u : Total(u) = u[x] + Total([a \in DOMAIN u \ {x} |-> u[a]])
    BY <1>2, <1>6, TotalStep
  <1> HIDE DEF w
  <1>8. \A x \in S : Total(u) = PowerOf(m, x) + Total(w(S \ {x}))
    <2> TAKE x \in S
    <2>1. x \in DOMAIN u /\ u[x] = PowerOf(m, x)
      BY <1>4, <1>5, <1>6
    <2>2. [a \in DOMAIN u \ {x} |-> u[a]] = w(S \ {x})
      BY <1>4, <1>6
    <2> QED BY <1>7, <2>1, <2>2
  <1> QED BY <1>3, <1>5, <1>6, <1>7, <1>8

(* The power of two sets without a common member is the sum of theirs.     *)
LEMMA PowerOfUnion ==
  ASSUME NEW m, Powers(m), NEW S, IsFiniteSet(S), NEW T, IsFiniteSet(T), S \cap T = {}
  PROVE  PowerOfAll(m, S \cup T) = PowerOfAll(m, S) + PowerOfAll(m, T)
  <1> DEFINE G == {U \in SUBSET S : PowerOfAll(m, U \cup T) = PowerOfAll(m, U) + PowerOfAll(m, T)}
  <1>1. \A U : IsFiniteSet(U) =>
          /\ PowerOfAll(m, U) \in Int /\ (U = {} => PowerOfAll(m, U) = 0)
          /\ \A x \in U : PowerOfAll(m, U) = PowerOf(m, x) + PowerOfAll(m, U \ {x})
    BY PowerStep
  <1>2. {} \in G
    <2>1. {} \cup T = T /\ IsFiniteSet({})
      BY FS_EmptySet
    <2>2. PowerOfAll(m, {}) = 0 /\ PowerOfAll(m, T) \in Int
      BY <1>1, <2>1
    <2> QED BY <2>1, <2>2
  <1>3. ASSUME NEW U \in SUBSET S, NEW x \in S, U \in G, x \notin U
        PROVE  U \cup {x} \in G
    <2>1. PICK V : V = U \cup {x}
      OBVIOUS
    <2>2. PICK W : W = V \cup T
      OBVIOUS
    <2>3. IsFiniteSet(V) /\ IsFiniteSet(W) /\ IsFiniteSet(U) /\ IsFiniteSet(U \cup T)
      <3>1. V \subseteq S
        BY <1>3, <2>1
      <3>2. IsFiniteSet(V) /\ IsFiniteSet(U)
        BY <3>1, FS_Subset
      <3>3. IsFiniteSet(W) /\ IsFiniteSet(U \cup T)
        BY <2>2, <3>2, FS_Union
      <3> QED BY <3>2, <3>3
    <2>4. x \in V /\ V \ {x} = U /\ x \in W /\ W \ {x} = U \cup T
      BY <1>3, <2>1, <2>2
    <2>5. PowerOfAll(m, V) = PowerOf(m, x) + PowerOfAll(m, U)
      BY <1>1, <2>3, <2>4
    <2>6. PowerOfAll(m, W) = PowerOf(m, x) + PowerOfAll(m, U \cup T)
      BY <1>1, <2>3, <2>4
    <2>7. PowerOfAll(m, U \cup T) = PowerOfAll(m, U) + PowerOfAll(m, T)
      BY <1>3
    <2>8. PowerOfAll(m, U) \in Int /\ PowerOfAll(m, T) \in Int /\ PowerOf(m, x) \in Int
      BY <1>1, <2>3 DEF PowerOf, Powers
    <2>9. PowerOfAll(m, W) = PowerOfAll(m, V) + PowerOfAll(m, T)
      BY <2>5, <2>6, <2>7, <2>8
    <2> QED BY <2>1, <2>2, <2>9
  <1> HIDE DEF G
  <1>4. S \in G
    BY <1>2, <1>3, FiniteInduction
  <1> QED BY <1>4 DEF G

(* It is never negative, and those without a weight add nothing.           *)
LEMMA PowerIsNatural ==
  ASSUME NEW m, Powers(m), NEW S, IsFiniteSet(S)
  PROVE  PowerOfAll(m, S) \in Nat /\ (S \cap DOMAIN m = {} => PowerOfAll(m, S) = 0)
  <1> DEFINE G == {U \in SUBSET S : /\ PowerOfAll(m, U) \in Nat
                                    /\ (S \cap DOMAIN m = {} => PowerOfAll(m, U) = 0)}
  <1>1. \A U : IsFiniteSet(U) =>
          /\ (U = {} => PowerOfAll(m, U) = 0)
          /\ \A x \in U : PowerOfAll(m, U) = PowerOf(m, x) + PowerOfAll(m, U \ {x})
    BY PowerStep
  <1>2. {} \in G
    BY <1>1, FS_EmptySet
  <1>3. ASSUME NEW U \in SUBSET S, NEW x \in S, U \in G, x \notin U
        PROVE  U \cup {x} \in G
    <2>1. PICK V : V = U \cup {x}
      OBVIOUS
    <2>2. IsFiniteSet(V) /\ x \in V /\ V \ {x} = U /\ V \in SUBSET S
      BY <1>3, <2>1, FS_Subset
    <2>3. PowerOfAll(m, V) = PowerOf(m, x) + PowerOfAll(m, U)
      BY <1>1, <2>2
    <2>4. PowerOf(m, x) \in Nat /\ (x \notin DOMAIN m => PowerOf(m, x) = 0)
      BY DEF PowerOf, Powers
    <2>5. PowerOfAll(m, V) \in Nat /\ (S \cap DOMAIN m = {} => PowerOfAll(m, V) = 0)
      BY <1>3, <2>3, <2>4
    <2> QED BY <2>1, <2>2, <2>5
  <1> HIDE DEF G
  <1>4. S \in G
    BY <1>2, <1>3, FiniteInduction
  <1> QED BY <1>4 DEF G

(* No set outweighs one that holds it or the whole roster, and a set with  *)
(* every member of the roster weighs as much as the roster.                *)
LEMMA PowerBounds ==
  ASSUME NEW m, Powers(m), IsFiniteSet(DOMAIN m), NEW S, IsFiniteSet(S)
  PROVE  /\ \A T \in SUBSET S : PowerOfAll(m, T) <= PowerOfAll(m, S)
         /\ \A T \in SUBSET S : PowerOfAll(m, T) + PowerOfAll(m, S \ T) = PowerOfAll(m, S)
         /\ PowerOfAll(m, S) <= PowerOfAll(m, DOMAIN m)
         /\ DOMAIN m \subseteq S => PowerOfAll(m, S) = PowerOfAll(m, DOMAIN m)
  <1>1. ASSUME NEW A, IsFiniteSet(A), NEW T \in SUBSET A
        PROVE  /\ PowerOfAll(m, A) = PowerOfAll(m, T) + PowerOfAll(m, A \ T)
               /\ PowerOfAll(m, A) \in Nat /\ PowerOfAll(m, T) \in Nat /\ PowerOfAll(m, A \ T) \in Nat
    <2>1. PICK B : B = A \ T
      OBVIOUS
    <2>2. IsFiniteSet(T) /\ IsFiniteSet(B) /\ T \cup B = A /\ T \cap B = {}
      BY <1>1, <2>1, FS_Subset
    <2>3. PowerOfAll(m, T \cup B) = PowerOfAll(m, T) + PowerOfAll(m, B)
      BY <2>2, PowerOfUnion
    <2>4. PowerOfAll(m, A) \in Nat /\ PowerOfAll(m, T) \in Nat /\ PowerOfAll(m, B) \in Nat
      BY <1>1, <2>2, PowerIsNatural
    <2> QED BY <2>1, <2>2, <2>3, <2>4
  <1>2. PICK C : C = S \cap DOMAIN m
    OBVIOUS
  <1>3. PowerOfAll(m, S \ C) = 0
    <2>1. PICK B : B = S \ C
      OBVIOUS
    <2>2. IsFiniteSet(B) /\ B \cap DOMAIN m = {}
      BY <1>2, <2>1, FS_Subset
    <2> QED BY <2>1, <2>2, PowerIsNatural
  <1>4. /\ PowerOfAll(m, S) = PowerOfAll(m, C) + PowerOfAll(m, S \ C)
        /\ PowerOfAll(m, C) \in Nat
    BY <1>1, <1>2
  <1>5. /\ PowerOfAll(m, DOMAIN m) = PowerOfAll(m, C) + PowerOfAll(m, DOMAIN m \ C)
        /\ PowerOfAll(m, DOMAIN m \ C) \in Nat
    BY <1>1, <1>2
  <1>6. DOMAIN m \subseteq S => C = DOMAIN m
    BY <1>2
  <1>7. PowerOfAll(m, S) = PowerOfAll(m, C)
    BY <1>3, <1>4
  <1>8. PowerOfAll(m, S) <= PowerOfAll(m, DOMAIN m)
    BY <1>4, <1>5, <1>7
  <1>9. DOMAIN m \subseteq S => PowerOfAll(m, S) = PowerOfAll(m, DOMAIN m)
    BY <1>6, <1>7
  <1>10. \A T \in SUBSET S : /\ PowerOfAll(m, T) <= PowerOfAll(m, S)
                             /\ PowerOfAll(m, T) + PowerOfAll(m, S \ T) = PowerOfAll(m, S)
    <2> TAKE T \in SUBSET S
    <2>1. /\ PowerOfAll(m, S) = PowerOfAll(m, T) + PowerOfAll(m, S \ T)
          /\ PowerOfAll(m, S) \in Nat /\ PowerOfAll(m, T) \in Nat /\ PowerOfAll(m, S \ T) \in Nat
      BY <1>1
    <2> QED BY <2>1
  <1> QED BY <1>8, <1>9, <1>10

-----------------------------------------------------------------------------
(* The history of reports *)

(* The reports of one height are ordered by round and phase.               *)
OneHeight(S) == \E h : \A k \in S : k.height = h

(* Of the rounds of one height there is one that no other is filed after.  *)
LEMMA LastReport ==
  ASSUME NEW S \in SUBSET Keys, IsFiniteSet(S), OneHeight(S), S # {}
  PROVE  \E k \in S : \A x \in S : x # k => ReportBefore(x, k)
  <1> DEFINE Has(T) == \E k \in T : \A x \in T : x # k => ReportBefore(x, k)
             G == {T \in SUBSET S : T = {} \/ Has(T)}
  <1>1. \A x, k \in S : /\ x # k => ReportBefore(x, k) \/ ReportBefore(k, x)
                        /\ \A y \in S : ReportBefore(x, k) /\ ReportBefore(k, y) => ReportBefore(x, y)
    <2>1. PICK h : \A k \in S : k.height = h
      BY DEF OneHeight
    <2>2. \A k \in S : k.round \in Int /\ k.type \in {"prevote", "precommit"}
      BY DomainAssumption DEF Keys
    <2>3. \A x, k \in S : x.round = k.round /\ x.type = k.type => x = k
      BY <2>1 DEF Keys
    <2> QED BY <2>2, <2>3 DEF ReportBefore
  <1>2. {} \in G
    OBVIOUS
  <1>3. ASSUME NEW T \in SUBSET S, NEW x \in S, T \in G, x \notin T
        PROVE  T \cup {x} \in G
    <2>1. CASE T = {}
      BY <2>1
    <2>2. CASE T # {}
      <3>1. PICK k \in T : \A y \in T : y # k => ReportBefore(y, k)
        BY <1>3, <2>2
      <3>2. CASE ReportBefore(x, k)
        <4>1. \A y \in T \cup {x} : y # k => ReportBefore(y, k)
          BY <3>1, <3>2
        <4> QED BY <4>1
      <3>3. CASE ReportBefore(k, x)
        <4>1. \A y \in T \cup {x} : y # x => ReportBefore(y, x)
          BY <1>1, <3>1, <3>3
        <4> QED BY <4>1
      <3> QED BY <1>1, <1>3, <3>1, <3>2, <3>3
    <2> QED BY <2>1, <2>2
  <1> HIDE DEF G
  <1>4. S \in G
    BY <1>2, <1>3, FiniteInduction
  <1> QED BY <1>4 DEF G

Filed(q) == \A i, j \in DOMAIN q : i < j => ReportBefore(q[i], q[j])

(* So they can be put in order.                                            *)
LEMMA OrderExists ==
  ASSUME NEW S \in SUBSET Keys, IsFiniteSet(S), OneHeight(S)
  PROVE  \E q \in [1..Cardinality(S) -> S] : Filed(q)
  <1> DEFINE Orderly(T) == \E q \in [1..Cardinality(T) -> T] : Filed(q)
             Bad == {n \in Nat : \E T \in SUBSET S : Cardinality(T) = n /\ ~Orderly(T)}
  <1>1. \A T \in SUBSET S : IsFiniteSet(T) /\ Cardinality(T) \in Nat
    BY FS_Subset, FS_CardinalityType
  <1>2. Bad = {}
    <2> SUFFICES ASSUME Bad # {} PROVE FALSE
      OBVIOUS
    <2>1. PICK n \in Bad : \A k \in Bad : n <= k
      BY LeastNatural
    <2>2. n \in Nat
      BY <2>1
    <2>3. PICK T \in SUBSET S : Cardinality(T) = n /\ ~Orderly(T)
      BY <2>1
    <2>4. CASE T = {}
      <3>1. Cardinality(T) = 0
        BY <2>4, FS_EmptySet
      <3>2. <<>> \in [1..0 -> T] /\ Filed(<<>>)
        BY DEF Filed
      <3> QED BY <2>3, <3>1, <3>2
    <2>5. CASE T # {}
      <3>1. T \in SUBSET Keys /\ IsFiniteSet(T) /\ OneHeight(T)
        BY <1>1 DEF OneHeight
      <3>2. PICK last \in T : \A x \in T : x # last => ReportBefore(x, last)
        BY <2>5, <3>1, LastReport
      <3>3. Cardinality(T \ {last}) = n - 1 /\ n - 1 \in Nat /\ T \ {last} \in SUBSET S
        <4>1. Cardinality(T \ {last}) = n - 1
          BY <2>3, <3>1, FS_RemoveElement
        <4>2. T \ {last} \in SUBSET S /\ Cardinality(T \ {last}) \in Nat
          BY <1>1
        <4> QED BY <4>1, <4>2
      <3>4. n - 1 \notin Bad
        <4> HIDE DEF Bad
        <4> QED BY <2>1, <2>2, <3>3
      <3>5. PICK p \in [1..(n - 1) -> T \ {last}] : Filed(p)
        BY <3>3, <3>4
      <3> DEFINE q == [i \in 1..n |-> IF i = n THEN last ELSE p[i]]
      <3>6. \A i \in 1..n : i # n => i \in 1..(n - 1)
        BY <2>2
      <3>7. q \in [1..n -> T]
        BY <3>5, <3>6
      <3>8. Filed(q)
        <4> SUFFICES ASSUME NEW i \in 1..n, NEW j \in 1..n, i < j
                     PROVE  ReportBefore(q[i], q[j])
          BY DEF Filed
        <4>1. i # n /\ i \in 1..(n - 1) /\ q[i] = p[i] /\ p[i] \in T \ {last}
          BY <2>2, <3>5, <3>6
        <4>2. CASE j = n
          BY <3>2, <4>1, <4>2
        <4>3. CASE j # n
          BY <3>5, <3>6, <4>1, <4>3 DEF Filed
        <4> QED BY <4>2, <4>3
      <3> HIDE DEF q
      <3> QED BY <2>3, <3>7, <3>8
    <2> QED BY <2>4, <2>5
  <1>3. \A T \in SUBSET S : Orderly(T)
    BY <1>1, <1>2
  <1> QED BY <1>3

(* InOrder returns them in order.                                          *)
LEMMA InOrderIs ==
  ASSUME NEW S \in SUBSET Keys, IsFiniteSet(S), OneHeight(S)
  PROVE  InOrder(S) \in [1..Cardinality(S) -> S] /\ Filed(InOrder(S))
  <1> DEFINE D == 1..Cardinality(S)
  <1>1. SetToSeqs(S) = {f \in [D -> S] : \A i, j \in D : i # j => f[i] # f[j]}
    BY DEF SetToSeqs
  <1>2. PICK q \in [D -> S] : Filed(q)
    BY OrderExists
  <1>3. \A k \in S : ~ReportBefore(k, k)
    <2>1. \A k \in S : k.round \in Int
      BY DomainAssumption DEF Keys
    <2> QED BY <2>1 DEF ReportBefore
  <1>4. \A i, j \in D : i # j => q[i] # q[j]
    <2> SUFFICES ASSUME NEW i \in D, NEW j \in D, i # j PROVE q[i] # q[j]
      OBVIOUS
    <2>1. i \in Int /\ j \in Int /\ DOMAIN q = D /\ q[i] \in S /\ q[j] \in S
      BY <1>2
    <2>2. i < j \/ j < i
      BY <2>1
    <2> QED BY <1>2, <1>3, <2>1, <2>2 DEF Filed
  <1>5. q \in SetToSeqs(S) /\ \A i, j \in DOMAIN q : i < j => ReportBefore(q[i], q[j])
    BY <1>1, <1>2, <1>4 DEF Filed
  <1>6. InOrder(S) \in SetToSeqs(S) /\ Filed(InOrder(S))
    BY <1>5 DEF InOrder, Filed
  <1> QED BY <1>1, <1>6

Reports == [key : Keys, divergent : BOOLEAN]

FiledAfter(a, b) == b.height < a.height \/ (b.height = a.height /\ ReportBefore(b, a))

FiledHistory(q) == \A i, j \in DOMAIN q : i < j => FiledAfter(q[j].key, q[i].key)

(* The history is in order, within its limit, and tells of committed       *)
(* heights.                                                                *)
HistoryOK(s) ==
  /\ s.history \in Seq(Reports) /\ FiledHistory(s.history) /\ Len(s.history) <= 4 * HistorySize
  /\ \A i \in DOMAIN s.history : s.history[i].key.height <= s.committedHeight

TailOf(p, q) ==
  \E d \in Nat : \A i \in DOMAIN p : i \in Nat /\ i + d \in DOMAIN q /\ p[i] = q[i + d]

(* What is left of a sequence that is cut is its end.                      *)
LEMMA LatestIs ==
  ASSUME NEW q \in Seq(Reports), NEW n \in Nat, NEW p, p = Latest(q, n)
  PROVE  p \in Seq(Reports) /\ TailOf(p, q) /\ Len(p) <= n
  <1>1. PICK l \in Nat : l = Len(q)
    OBVIOUS
  <1>2. CASE l > n
    <2> DEFINE a == l - n + 1
    <2>1. p = SubSeq(q, a, l)
      BY <1>1, <1>2 DEF Latest
    <2>2. a \in 1..(Len(q) + 1) /\ l \in a-1..Len(q)
      BY <1>1, <1>2
    <2>3. p = [i \in 1..n |-> q[i + (l - n)]]
      BY <1>1, <1>2, <2>1
    <2>4. DOMAIN q = 1..l /\ DOMAIN p = 1..n /\ l - n \in Nat
      BY <1>1, <1>2, <2>3
    <2>5. \A i \in DOMAIN p : i \in Nat /\ i + (l - n) \in DOMAIN q /\ p[i] = q[i + (l - n)]
      BY <2>3, <2>4
    <2>6. p \in Seq(Reports)
      <3>1. \A i \in 1..n : p[i] \in Reports
        BY <2>4, <2>5
      <3> QED BY <2>3, <3>1, IsASeq
    <2>7. Len(p) <= n
      BY <2>4, <2>6
    <2> QED BY <2>4, <2>5, <2>6, <2>7 DEF TailOf
  <1>3. CASE ~(l > n)
    <2>1. p = q /\ Len(p) <= n
      BY <1>1, <1>3 DEF Latest
    <2>2. \A i \in DOMAIN p : i \in Nat /\ i + 0 \in DOMAIN q /\ p[i] = q[i + 0]
      BY <1>1, <2>1
    <2> QED BY <2>1, <2>2 DEF TailOf
  <1> QED BY <1>2, <1>3

(* Cutting a history leaves it in order.                                   *)
LEMMA HistoryCut ==
  ASSUME NEW c \in Seq(Reports), NEW h, NEW n \in Nat, FiledHistory(c),
         \A i \in DOMAIN c : c[i].key.height <= h,
         NEW p, p = Latest(c, n)
  PROVE  /\ p \in Seq(Reports) /\ FiledHistory(p) /\ Len(p) <= n
         /\ \A i \in DOMAIN p : p[i].key.height <= h
  <1>1. p \in Seq(Reports) /\ TailOf(p, c) /\ Len(p) <= n
    BY LatestIs
  <1>2. PICK d \in Nat : \A i \in DOMAIN p : i \in Nat /\ i + d \in DOMAIN c /\ p[i] = c[i + d]
    BY <1>1 DEF TailOf
  <1>3. FiledHistory(p)
    <2> SUFFICES ASSUME NEW i \in DOMAIN p, NEW j \in DOMAIN p, i < j
                 PROVE  FiledAfter(p[j].key, p[i].key)
      BY DEF FiledHistory
    <2>1. i + d < j + d /\ i + d \in DOMAIN c /\ j + d \in DOMAIN c /\ p[i] = c[i + d] /\ p[j] = c[j + d]
      BY <1>2
    <2> QED BY <2>1 DEF FiledHistory
  <1> QED BY <1>1, <1>2, <1>3

(* Reports of a height above all others may follow, and the oldest go.     *)
LEMMA HistoryGrows ==
  ASSUME NEW q \in Seq(Reports), NEW r \in Seq(Reports), NEW low \in Int, NEW h \in Int, low < h,
         NEW n \in Nat, FiledHistory(q), FiledHistory(r),
         \A i \in DOMAIN q : q[i].key.height <= low, \A i \in DOMAIN r : r[i].key.height = h,
         NEW p, p = Latest(q \o r, n)
  PROVE  /\ p \in Seq(Reports) /\ FiledHistory(p) /\ Len(p) <= n
         /\ \A i \in DOMAIN p : p[i].key.height <= h
  <1>1. PICK c : c = q \o r
    OBVIOUS
  <1>2. PICK l \in Nat, k \in Nat : l = Len(q) /\ k = Len(r)
    OBVIOUS
  <1>3. /\ c \in Seq(Reports) /\ DOMAIN c = 1..(l + k) /\ DOMAIN q = 1..l /\ DOMAIN r = 1..k
        /\ \A i \in 1..(l + k) : c[i] = IF i <= l THEN q[i] ELSE r[i - l]
    <2>1. DOMAIN q = 1..l /\ DOMAIN r = 1..k
      BY <1>2
    <2>2. c \in Seq(Reports) /\ Len(c) = l + k
      BY <1>1, <1>2, ConcatProperties
    <2>3. \A i \in 1..(l + k) : c[i] = IF i <= l THEN q[i] ELSE r[i - l]
      BY <1>1, <1>2, ConcatProperties
    <2> QED BY <2>1, <2>2, <2>3
  <1>4. \A x \in Reports : x.key.height \in Int
    BY DomainAssumption DEF Reports, Keys
  <1>5. \A i \in DOMAIN c : c[i] \in Reports /\ c[i].key.height \in Int
    BY <1>3, <1>4
  <1>6. \A i \in DOMAIN c : c[i].key.height <= h
    <2> SUFFICES ASSUME NEW i \in 1..(l + k) PROVE c[i].key.height <= h
      BY <1>3
    <2>1. CASE i <= l
      <3>1. i \in 1..l /\ c[i] = q[i]
        BY <1>3, <2>1
      <3>2. c[i].key.height <= low /\ c[i].key.height \in Int
        BY <1>3, <1>5, <3>1
      <3> QED BY <3>2
    <2>2. CASE i > l
      <3>1. i - l \in 1..k /\ c[i] = r[i - l]
        BY <1>3, <2>2
      <3>2. c[i].key.height = h
        BY <1>3, <3>1
      <3> QED BY <3>2
    <2> QED BY <2>1, <2>2
  <1>7. FiledHistory(c)
    <2> SUFFICES ASSUME NEW i \in 1..(l + k), NEW j \in 1..(l + k), i < j
                 PROVE  FiledAfter(c[j].key, c[i].key)
      BY <1>3 DEF FiledHistory
    <2>1. CASE j <= l
      <3>1. i \in Int /\ j \in Int /\ i >= 1 /\ j >= 1 /\ i <= l /\ l \in Nat
        BY <1>2, <2>1
      <3>2. i \in 1..l /\ j \in 1..l
        BY <2>1, <3>1
      <3>3. c[i] = q[i] /\ c[j] = q[j]
        BY <1>3, <2>1, <3>1
      <3> QED BY <1>3, <3>2, <3>3 DEF FiledHistory
    <2>2. CASE i <= l /\ j > l
      <3>1. i \in 1..l /\ j - l \in 1..k /\ c[i] = q[i] /\ c[j] = r[j - l]
        BY <1>3, <2>2
      <3>2. c[i].key.height <= low /\ c[i].key.height \in Int /\ c[j].key.height = h
        BY <1>3, <1>5, <3>1
      <3> QED BY <3>2 DEF FiledAfter
    <2>3. CASE i > l
      <3>1. i - l \in 1..k /\ j - l \in 1..k /\ i - l < j - l /\ c[i] = r[i - l] /\ c[j] = r[j - l]
        BY <1>3, <2>3
      <3> QED BY <1>3, <3>1 DEF FiledHistory
    <2> QED BY <2>1, <2>2, <2>3
  <1>8. p = Latest(c, n)
    BY <1>1
  <1> QED BY <1>3, <1>6, <1>7, <1>8, HistoryCut

-----------------------------------------------------------------------------
(* The power of the live rounds *)

(* The sum over the groups of votes is such a total.                       *)
LEMMA SumIsTotal ==
  ASSUME NEW w PROVE MapThenSumSet(LAMBDA x : w[x], DOMAIN w) = Total(w)
  <1> DEFINE S == DOMAIN w
             Given(f) == f = [T \in SUBSET S |-> IF T = {} THEN 0
                               ELSE w[CHOOSE x \in T : TRUE] + f[T \ {CHOOSE x \in T : TRUE}]]
  <1>1. MapThenSumSet(LAMBDA x : w[x], S) = (CHOOSE f : Given(f))[S]
    BY DEF MapThenSumSet, MapThenFoldSet
  <1>2. ASSUME NEW f PROVE Given(f) <=> Sums(w, f)
    BY DEF Chosen, Sums
  <1> HIDE DEF Given
  <1>3. (CHOOSE f : Given(f)) = (CHOOSE f : Sums(w, f))
    BY <1>2
  <1> QED BY <1>1, <1>3 DEF Total

(* The validators who voted for a hash, for one of a set of hashes.        *)
Signed(votes, x) == {a \in DOMAIN votes : votes[a] = x}
SignedAny(votes, X) == {a \in DOMAIN votes : votes[a] \in X}

(* Every vote counts in one group.                                         *)
LEMMA GroupsAddUp ==
  ASSUME NEW m, Powers(m), NEW votes, IsFiniteSet(DOMAIN votes), NEW w, IsFcn(w), IsFiniteSet(DOMAIN w),
         \A x \in DOMAIN w : w[x] = PowerOfAll(m, Signed(votes, x)),
         \A a \in DOMAIN votes : votes[a] \in DOMAIN w
  PROVE  MapThenSumSet(LAMBDA x : w[x], DOMAIN w) = PowerOfAll(m, DOMAIN votes)
  <1> DEFINE part(X) == [x \in X |-> w[x]]
             Right(X) == Total(part(X)) = PowerOfAll(m, SignedAny(votes, X))
             G == {X \in SUBSET DOMAIN w : Right(X)}
  <1>1. \A x \in DOMAIN w : w[x] \in Int
    <2> TAKE x \in DOMAIN w
    <2>1. PICK S : S = Signed(votes, x)
      OBVIOUS
    <2>2. IsFiniteSet(S)
      BY <2>1, FS_Subset DEF Signed
    <2>3. PowerOfAll(m, S) \in Nat
      BY <2>2, PowerIsNatural
    <2> QED BY <2>1, <2>3
  <1>2. ASSUME NEW X \in SUBSET DOMAIN w
        PROVE  /\ Total(part(X)) \in Int /\ (X = {} => Total(part(X)) = 0)
               /\ \A x \in X : Total(part(X)) = w[x] + Total(part(X \ {x}))
    <2>1. PICK u : u = part(X)
      OBVIOUS
    <2>2. Weights(u) /\ DOMAIN u = X
      BY <1>1, <2>1, FS_Subset DEF Weights
    <2>3. /\ Total(u) \in Int /\ (DOMAIN u = {} => Total(u) = 0)
          /\ \A x \in DOMAIN u : Total(u) = u[x] + Total([a \in DOMAIN u \ {x} |-> u[a]])
      BY <2>2, TotalStep
    <2>4. \A x \in X : [a \in DOMAIN u \ {x} |-> u[a]] = part(X \ {x}) /\ u[x] = w[x]
      BY <2>1, <2>2
    <2> HIDE DEF part
    <2>5. \A x \in X : Total(u) = w[x] + Total(part(X \ {x}))
      BY <2>2, <2>3, <2>4
    <2> QED BY <2>1, <2>2, <2>3, <2>5
  <1> HIDE DEF part
  <1>3. {} \in G
    <2>1. SignedAny(votes, {}) = {}
      BY DEF SignedAny
    <2>2. PowerOfAll(m, {}) = 0
      BY PowerIsNatural, FS_EmptySet
    <2>3. Total(part({})) = 0
      BY <1>2
    <2> QED BY <2>1, <2>2, <2>3
  <1>4. ASSUME NEW X \in SUBSET DOMAIN w, NEW x \in DOMAIN w, X \in G, x \notin X
        PROVE  X \cup {x} \in G
    <2>1. PICK Y : Y = X \cup {x}
      OBVIOUS
    <2>2. Y \in SUBSET DOMAIN w /\ x \in Y /\ Y \ {x} = X
      BY <1>4, <2>1
    <2>3. Total(part(Y)) = w[x] + Total(part(X))
      BY <1>2, <2>2
    <2>4. PICK A, B : A = SignedAny(votes, X) /\ B = Signed(votes, x)
      OBVIOUS
    <2>5. IsFiniteSet(A) /\ IsFiniteSet(B)
      BY <2>4, FS_Subset DEF Signed, SignedAny
    <2>6. SignedAny(votes, Y) = A \cup B /\ A \cap B = {}
      BY <1>4, <2>1, <2>4 DEF Signed, SignedAny
    <2>7. PowerOfAll(m, A \cup B) = PowerOfAll(m, A) + PowerOfAll(m, B)
      BY <2>5, <2>6, PowerOfUnion
    <2>8. PowerOfAll(m, A) \in Nat /\ PowerOfAll(m, B) \in Nat
      BY <2>5, PowerIsNatural
    <2>9. Total(part(X)) = PowerOfAll(m, A) /\ w[x] = PowerOfAll(m, B)
      BY <1>4, <2>4
    <2> QED BY <2>1, <2>2, <2>3, <2>6, <2>7, <2>8, <2>9
  <1> HIDE DEF G
  <1>5. DOMAIN w \in G
    BY <1>3, <1>4, FiniteInduction
  <1>6. Total(part(DOMAIN w)) = PowerOfAll(m, SignedAny(votes, DOMAIN w))
    BY <1>5 DEF G
  <1>7. SignedAny(votes, DOMAIN w) = DOMAIN votes
    BY DEF SignedAny
  <1>8. part(DOMAIN w) = w
    BY DEF part, IsFcn
  <1> QED BY <1>6, <1>7, <1>8, SumIsTotal

Weighable(m) == Powers(m) /\ IsFiniteSet(DOMAIN m)

(* A round whose powers are those of a recount.                            *)
Weighed(rd) ==
  /\ DOMAIN rd = LiveFields /\ Weighable(rd.validators)
  /\ DOMAIN rd.votes \subseteq Addresses /\ IsFiniteSet(DOMAIN rd.votes)
  /\ DOMAIN rd.power \subseteq BlockHashes /\ IsFiniteSet(DOMAIN rd.power)
  /\ \A a \in DOMAIN rd.votes : rd.votes[a] \in DOMAIN rd.power
  /\ \A x \in DOMAIN rd.power : rd.power[x] = PowerOfAll(rd.validators, Signed(rd.votes, x))
  /\ rd.totalVotedPower = PowerOfAll(rd.validators, DOMAIN rd.votes)
  /\ rd.totalVotingPower = PowerOfAll(rd.validators, DOMAIN rd.validators)
  /\ rd.canonicalHash \in BlockHashes
  /\ rd.resolved \in BOOLEAN /\ rd.advanced \in BOOLEAN /\ rd.detected \in BOOLEAN

(* Such a round has the type of the struct and its powers are in order.    *)
LEMMA WeighedSays ==
  ASSUME NEW rd, Weighed(rd)
  PROVE  RoundDataOK(rd) /\ rd.totalVotedPower <= rd.totalVotingPower
  <1>1. PICK m, V : m = rd.validators /\ V = DOMAIN rd.votes
    OBVIOUS
  <1>2. Powers(m) /\ IsFiniteSet(DOMAIN m) /\ IsFiniteSet(V)
    BY <1>1 DEF Weighed, Weighable
  <1>3. PowerOfAll(m, V) <= PowerOfAll(m, DOMAIN m)
    BY <1>2, PowerBounds
  <1>4. PowerOfAll(m, V) \in Nat /\ PowerOfAll(m, DOMAIN m) \in Nat
    BY <1>2, PowerIsNatural
  <1>5. \A x \in DOMAIN rd.power : rd.power[x] \in Nat
    <2> TAKE x \in DOMAIN rd.power
    <2>1. PICK S : S = Signed(rd.votes, x)
      OBVIOUS
    <2>2. IsFiniteSet(S)
      BY <1>1, <1>2, <2>1, FS_Subset DEF Signed
    <2>3. PowerOfAll(m, S) \in Nat
      BY <1>2, <2>2, PowerIsNatural
    <2> QED BY <1>1, <2>1, <2>3 DEF Weighed
  <1> QED BY <1>1, <1>3, <1>4, <1>5 DEF Weighed, RoundDataOK

(* A round opens with the roster of the moment and no votes.               *)
LEMMA NewRoundWeighed ==
  ASSUME NEW s, Weighable(s.defaultValidators), NEW rd, rd = NewRoundData(s),
         s.defaultTotalPower = PowerOfAll(s.defaultValidators, DOMAIN s.defaultValidators)
  PROVE  Weighed(rd)
  <1>1. /\ DOMAIN rd = LiveFields /\ rd.validators = s.defaultValidators
        /\ rd.votes = NoEntries /\ rd.power = NoEntries
        /\ rd.totalVotingPower = s.defaultTotalPower /\ rd.totalVotedPower = 0
        /\ rd.canonicalHash = Nil
        /\ rd.resolved = FALSE /\ rd.advanced = FALSE /\ rd.detected = FALSE
    BY DEF NewRoundData, LiveFields
  <1>2. DOMAIN rd.votes = {} /\ DOMAIN rd.power = {} /\ IsFiniteSet({})
    BY <1>1, FS_EmptySet DEF NoEntries
  <1>3. Powers(rd.validators)
    BY <1>1 DEF Weighable
  <1>4. PowerOfAll(rd.validators, {}) = 0
    BY <1>2, <1>3, PowerIsNatural
  <1> QED BY <1>1, <1>2, <1>4 DEF Weighed, BlockHashes

(* A first vote of a validator moves its power to one group and the total. *)
LEMMA TallyWeighed ==
  ASSUME NEW rd, Weighed(rd), NEW v \in Votes, v.addr \notin DOMAIN rd.votes,
         NEW new, new = Tally(rd, v)
  PROVE  Weighed(new)
  <1>1. PICK m, a, h : m = rd.validators /\ a = v.addr /\ h = v.hash
    OBVIOUS
  <1>2. PICK group : group = IF h \in DOMAIN rd.power THEN rd.power[h] ELSE 0
    OBVIOUS
  <1>3. /\ DOMAIN new = LiveFields /\ new.validators = m
        /\ new.votes = Put(rd.votes, a, h) /\ new.power = Put(rd.power, h, group + PowerOf(m, a))
        /\ new.totalVotedPower = rd.totalVotedPower + PowerOf(m, a)
        /\ new.totalVotingPower = rd.totalVotingPower /\ new.canonicalHash = rd.canonicalHash
        /\ new.resolved = rd.resolved /\ new.advanced = rd.advanced /\ new.detected = rd.detected
    BY <1>1, <1>2 DEF Tally, Weighed, LiveFields
  <1>4. a \in Addresses /\ h \in BlockHashes /\ a \notin DOMAIN rd.votes
    BY <1>1 DEF Votes
  <1>5. Powers(m) /\ PowerOf(m, a) \in Nat
    BY <1>1 DEF Weighed, Weighable, Powers, PowerOf
  <1>6. \A S : IsFiniteSet(S) /\ a \notin S => PowerOfAll(m, S \cup {a}) = PowerOfAll(m, S) + PowerOf(m, a)
    <2> SUFFICES ASSUME NEW S, IsFiniteSet(S), a \notin S
                 PROVE  PowerOfAll(m, S \cup {a}) = PowerOfAll(m, S) + PowerOf(m, a)
      OBVIOUS
    <2>1. PICK T : T = S \cup {a}
      OBVIOUS
    <2>2. IsFiniteSet(T) /\ a \in T /\ T \ {a} = S
      BY <2>1, FS_AddElement
    <2>3. PowerOfAll(m, T) = PowerOf(m, a) + PowerOfAll(m, S)
      BY <1>5, <2>2, PowerStep
    <2>4. PowerOfAll(m, S) \in Nat
      BY <1>5, PowerIsNatural
    <2> QED BY <1>5, <2>1, <2>3, <2>4
  <1>7. /\ DOMAIN new.votes = DOMAIN rd.votes \cup {a} /\ DOMAIN new.power = DOMAIN rd.power \cup {h}
        /\ new.votes[a] = h /\ \A b \in DOMAIN rd.votes : new.votes[b] = rd.votes[b]
        /\ new.power[h] = group + PowerOf(m, a)
        /\ \A x \in DOMAIN rd.power : x # h => new.power[x] = rd.power[x]
    BY <1>3, <1>4 DEF Put
  <1>8. /\ IsFiniteSet(DOMAIN new.votes) /\ IsFiniteSet(DOMAIN new.power)
        /\ DOMAIN new.votes \subseteq Addresses /\ DOMAIN new.power \subseteq BlockHashes
    <2>1. \A S, x : IsFiniteSet(S) => IsFiniteSet(S \cup {x})
      BY FS_AddElement
    <2>2. IsFiniteSet(DOMAIN rd.votes) /\ IsFiniteSet(DOMAIN rd.power)
      BY DEF Weighed
    <2>3. IsFiniteSet(DOMAIN rd.votes \cup {a}) /\ IsFiniteSet(DOMAIN rd.power \cup {h})
      BY <2>1, <2>2
    <2>4. DOMAIN new.votes = DOMAIN rd.votes \cup {a} /\ DOMAIN new.power = DOMAIN rd.power \cup {h}
      BY <1>7
    <2>5. IsFiniteSet(DOMAIN new.votes) /\ IsFiniteSet(DOMAIN new.power)
      BY <2>3, <2>4
    <2> QED BY <1>4, <2>4, <2>5 DEF Weighed
  <1>9. \A b \in DOMAIN new.votes : new.votes[b] \in DOMAIN new.power
    BY <1>7 DEF Weighed
  <1>10. new.totalVotedPower = PowerOfAll(m, DOMAIN new.votes)
    <2>1. IsFiniteSet(DOMAIN rd.votes) /\ rd.totalVotedPower = PowerOfAll(m, DOMAIN rd.votes)
      BY <1>1 DEF Weighed
    <2> QED BY <1>3, <1>4, <1>6, <1>7, <2>1
  <1>11. group = PowerOfAll(m, Signed(rd.votes, h))
    <2>1. CASE h \in DOMAIN rd.power
      BY <1>1, <1>2, <2>1 DEF Weighed
    <2>2. CASE h \notin DOMAIN rd.power
      <3>1. Signed(rd.votes, h) = {}
        BY <2>2 DEF Weighed, Signed
      <3>2. PowerOfAll(m, {}) = 0
        BY <1>5, FS_EmptySet, PowerIsNatural
      <3> QED BY <1>2, <2>2, <3>1, <3>2
    <2> QED BY <2>1, <2>2
  <1>12. new.power[h] = PowerOfAll(m, Signed(new.votes, h))
    <2>1. PICK S : S = Signed(rd.votes, h)
      OBVIOUS
    <2>2. IsFiniteSet(S) /\ a \notin S
      BY <1>4, <2>1, FS_Subset DEF Signed, Weighed
    <2>3. Signed(new.votes, h) = S \cup {a}
      BY <1>4, <1>7, <2>1 DEF Signed
    <2> QED BY <1>6, <1>7, <1>11, <2>1, <2>2, <2>3
  <1>13. \A x \in DOMAIN rd.power : x # h => new.power[x] = PowerOfAll(m, Signed(new.votes, x))
    <2> SUFFICES ASSUME NEW x \in DOMAIN rd.power, x # h
                 PROVE  new.power[x] = PowerOfAll(m, Signed(new.votes, x))
      OBVIOUS
    <2>1. Signed(new.votes, x) = Signed(rd.votes, x)
      BY <1>4, <1>7 DEF Signed
    <2>2. rd.power[x] = PowerOfAll(m, Signed(rd.votes, x))
      BY <1>1 DEF Weighed
    <2> QED BY <1>7, <2>1, <2>2
  <1>14. \A x \in DOMAIN new.power : new.power[x] = PowerOfAll(m, Signed(new.votes, x))
    BY <1>7, <1>12, <1>13
  <1> QED BY <1>1, <1>3, <1>8, <1>9, <1>10, <1>14 DEF Weighed

(* A round without power to weigh its votes with is weighed again.         *)
LEMMA ReweighWeighed ==
  ASSUME NEW rd, Weighed(rd), NEW m, Weighable(m), NEW new, new = Reweigh(rd, m)
  PROVE  Weighed(new)
  <1>1. CASE rd.totalVotingPower # 0
    BY <1>1 DEF Reweigh
  <1>2. CASE rd.totalVotingPower = 0
    <2> DEFINE power == [x \in DOMAIN rd.power |-> PowerOfAll(m, {a \in DOMAIN rd.votes : rd.votes[a] = x})]
               total == PowerOfAll(m, DOMAIN m)
               voted == MapThenSumSet(LAMBDA x : power[x], DOMAIN power)
    <2>1. new = [rd EXCEPT !.validators = m, !.totalVotingPower = total,
                           !.power = power, !.totalVotedPower = voted]
      BY <1>2 DEF Reweigh
    <2>2. PICK w : w = power
      OBVIOUS
    <2>3. voted = MapThenSumSet(LAMBDA x : w[x], DOMAIN w)
      BY <2>2
    <2>4. /\ IsFcn(w) /\ DOMAIN w = DOMAIN rd.power
          /\ \A x \in DOMAIN w : w[x] = PowerOfAll(m, Signed(rd.votes, x))
      BY <2>2 DEF Signed, IsFcn
    <2> HIDE DEF power, voted
    <2>5. /\ DOMAIN new = LiveFields /\ new.validators = m /\ new.votes = rd.votes /\ new.power = w
          /\ new.totalVotedPower = voted /\ new.totalVotingPower = total
          /\ new.canonicalHash = rd.canonicalHash
          /\ new.resolved = rd.resolved /\ new.advanced = rd.advanced /\ new.detected = rd.detected
      <3> HIDE DEF total
      <3> QED BY <2>1, <2>2 DEF Weighed, LiveFields
    <2>6. Powers(m) /\ IsFiniteSet(DOMAIN w) /\ \A a \in DOMAIN rd.votes : rd.votes[a] \in DOMAIN w
      BY <2>4 DEF Weighed, Weighable
    <2>7. PICK votes : votes = rd.votes
      OBVIOUS
    <2>8. IsFiniteSet(DOMAIN votes)
      BY <2>7 DEF Weighed
    <2>9. MapThenSumSet(LAMBDA x : w[x], DOMAIN w) = PowerOfAll(m, DOMAIN votes)
      BY <2>4, <2>6, <2>7, <2>8, GroupsAddUp
    <2> QED BY <2>3, <2>4, <2>5, <2>6, <2>7, <2>9 DEF Weighed
  <1> QED BY <1>1, <1>2

(* The powers of the detector and the order of its reports.                *)
DetectorOK(s) ==
  /\ Weighable(s.defaultValidators)
  /\ s.defaultTotalPower = PowerOfAll(s.defaultValidators, DOMAIN s.defaultValidators)
  /\ IsFiniteSet(DOMAIN s.rounds) /\ \A k \in DOMAIN s.rounds : Weighed(s.rounds[k])
  /\ HistoryOK(s)

(* A call on the archive leaves the live rounds it keeps as they are.      *)
LEMMA DetectorStays ==
  ASSUME NEW s, DetectorOK(s), NEW u, SameRounds(s, u), MovesOn(s, u)
  PROVE  DetectorOK(u)
  <1>1. IsFiniteSet(DOMAIN u.rounds)
    BY FS_Subset DEF DetectorOK, SameRounds
  <1>2. \A k \in DOMAIN u.rounds : Weighed(u.rounds[k])
    BY DEF DetectorOK, SameRounds
  <1>3. HistoryOK(u)
    BY DEF DetectorOK, MovesOn, HistoryOK
  <1> QED BY <1>1, <1>2, <1>3 DEF DetectorOK, MovesOn

(* The marks of a round have no part in its powers.                        *)
LEMMA MarkedWeighed ==
  ASSUME NEW rd, Weighed(rd), NEW new, DOMAIN new = LiveFields, new.validators = rd.validators,
         new.votes = rd.votes, new.power = rd.power, new.totalVotedPower = rd.totalVotedPower,
         new.totalVotingPower = rd.totalVotingPower, new.canonicalHash \in BlockHashes,
         new.resolved \in BOOLEAN, new.advanced \in BOOLEAN, new.detected \in BOOLEAN
  PROVE  Weighed(new)
  <1> QED BY DEF Weighed

(* IngestVote tallies the first vote of a validator in a round.            *)
LEMMA IngestVoteWeighed ==
  ASSUME NEW s, TrackerOK(s), DetectorOK(s), NEW v \in Votes,
         NEW u, u = IngestVoteLocked(s, v).tracker
  PROVE  DetectorOK(u)
  <1> DEFINE w == ObserveVoteLocked(s, v)  k == KeyOf(v)
             rd == IF k \in DOMAIN w.rounds THEN w.rounds[k] ELSE NewRoundData(w)
             tallied == Tally(rd, v)
             fires == Triggers(tallied, v.type)
             judged == [tallied EXCEPT !.detected = @ \/ fires]
             skip == ~Archived(w, v) \/ v.height <= w.committedHeight \/ v.addr \in DOMAIN rd.votes
  <1>1. Observed(s, w, v.height, v.round)
    BY ObserveVoteOK DEF TrackerOK
  <1>2. DetectorOK(w) /\ DOMAIN w = TrackerFields
    <2> HIDE DEF w
    <2> QED BY <1>1, DetectorStays DEF Observed, ArchiveOK
  <1>3. CASE skip
    <2>1. u = w
      BY <1>3 DEF IngestVoteLocked
    <2> HIDE DEF w
    <2> QED BY <1>2, <2>1
  <1>4. CASE ~skip
    <2>1. u = [w EXCEPT !.rounds = Put(@, k, judged)] /\ v.addr \notin DOMAIN rd.votes
      BY <1>4 DEF IngestVoteLocked
    <2>2. Weighed(rd)
      <3>1. CASE k \in DOMAIN w.rounds
        <4> HIDE DEF w, k
        <4> QED BY <1>2, <3>1 DEF DetectorOK
      <3>2. CASE k \notin DOMAIN w.rounds
        <4>1. rd = NewRoundData(w)
          BY <3>2
        <4> HIDE DEF rd, w, k
        <4> QED BY <1>2, <4>1, NewRoundWeighed DEF DetectorOK
      <3> QED BY <3>1, <3>2
    <2> HIDE DEF rd
    <2>3. Weighed(tallied)
      BY <2>1, <2>2, TallyWeighed
    <2> HIDE DEF tallied, fires
    <2>4. /\ DOMAIN judged = LiveFields /\ judged.validators = tallied.validators
          /\ judged.votes = tallied.votes /\ judged.power = tallied.power
          /\ judged.totalVotedPower = tallied.totalVotedPower
          /\ judged.totalVotingPower = tallied.totalVotingPower
          /\ judged.canonicalHash = tallied.canonicalHash
          /\ judged.resolved = tallied.resolved /\ judged.advanced = tallied.advanced
          /\ judged.detected = (tallied.detected \/ fires)
      BY <2>3 DEF Weighed, LiveFields
    <2>5. /\ judged.canonicalHash \in BlockHashes /\ judged.resolved \in BOOLEAN
          /\ judged.advanced \in BOOLEAN
      BY <2>3, <2>4 DEF Weighed
    <2>6. judged.detected \in BOOLEAN
      <3>1. (tallied.detected \/ fires) \in BOOLEAN
        OBVIOUS
      <3> QED BY <2>4, <3>1
    <2> HIDE DEF judged
    <2>7. Weighed(judged)
      BY <2>3, <2>4, <2>5, <2>6, MarkedWeighed
    <2> HIDE DEF w, k
    <2>8. /\ u.rounds = Put(w.rounds, k, judged) /\ u.defaultValidators = w.defaultValidators
          /\ u.defaultTotalPower = w.defaultTotalPower /\ u.history = w.history
          /\ u.committedHeight = w.committedHeight
      BY <1>2, <2>1 DEF TrackerFields
    <2>9. DOMAIN u.rounds = DOMAIN w.rounds \cup {k} /\ \A x \in DOMAIN u.rounds : Weighed(u.rounds[x])
      BY <1>2, <2>7, <2>8 DEF Put, DetectorOK
    <2>10. IsFiniteSet(DOMAIN u.rounds)
      <3>1. IsFiniteSet(DOMAIN w.rounds \cup {k})
        BY <1>2, FS_AddElement DEF DetectorOK
      <3> QED BY <2>9, <3>1
    <2>11. HistoryOK(u)
      BY <1>2, <2>8 DEF DetectorOK, HistoryOK
    <2> QED BY <1>2, <2>8, <2>9, <2>10, <2>11 DEF DetectorOK
  <1> QED BY <1>3, <1>4

(* SetValidators weighs the rounds that had no roster.                     *)
LEMMA SetValidatorsWeighed ==
  ASSUME NEW s, TrackerOK(s), DetectorOK(s), NEW m, Weighable(m),
         NEW power, power = PowerOfAll(m, DOMAIN m), NEW u, u = SetRoster(s, m, power)
  PROVE  DetectorOK(u)
  <1>1. /\ u.defaultValidators = m /\ u.defaultTotalPower = power
        /\ u.rounds = [k \in DOMAIN s.rounds |-> Reweigh(s.rounds[k], m)]
        /\ u.history = s.history /\ u.committedHeight = s.committedHeight
    BY DEF SetRoster, TrackerOK, ArchiveOK, TrackerFields
  <1>2. \A k \in DOMAIN u.rounds : Weighed(u.rounds[k])
    <2> SUFFICES ASSUME NEW k \in DOMAIN s.rounds PROVE Weighed(u.rounds[k])
      BY <1>1
    <2>1. Weighed(s.rounds[k]) /\ u.rounds[k] = Reweigh(s.rounds[k], m)
      BY <1>1 DEF DetectorOK
    <2> QED BY <2>1, ReweighWeighed
  <1>3. HistoryOK(u) /\ IsFiniteSet(DOMAIN u.rounds)
    BY <1>1 DEF DetectorOK, HistoryOK
  <1> QED BY <1>1, <1>2, <1>3 DEF DetectorOK

(* MarkRoundAdvanced sets a mark.                                          *)
LEMMA AdvancedWeighed ==
  ASSUME NEW s, TrackerOK(s), DetectorOK(s), NEW h, NEW r, NEW u, u = Advance(s, h, r)
  PROVE  DetectorOK(u)
  <1>1. /\ u.defaultValidators = s.defaultValidators /\ u.defaultTotalPower = s.defaultTotalPower
        /\ u.rounds = [k \in DOMAIN s.rounds |->
              IF k.height = h /\ k.round = r THEN [s.rounds[k] EXCEPT !.advanced = TRUE]
              ELSE s.rounds[k]]
        /\ u.history = s.history /\ u.committedHeight = s.committedHeight
    BY DEF Advance, TrackerOK, ArchiveOK, TrackerFields
  <1>2. \A k \in DOMAIN u.rounds : Weighed(u.rounds[k])
    <2> SUFFICES ASSUME NEW k \in DOMAIN s.rounds PROVE Weighed(u.rounds[k])
      BY <1>1
    <2>1. Weighed(s.rounds[k])
      BY DEF DetectorOK
    <2>2. PICK new : new = [s.rounds[k] EXCEPT !.advanced = TRUE]
      OBVIOUS
    <2>3. Weighed(new)
      BY <2>1, <2>2 DEF Weighed, LiveFields
    <2> QED BY <1>1, <2>1, <2>2, <2>3
  <1>3. HistoryOK(u) /\ IsFiniteSet(DOMAIN u.rounds)
    BY <1>1 DEF DetectorOK, HistoryOK
  <1> QED BY <1>1, <1>2, <1>3 DEF DetectorOK

(* ResolveCommit files its reports after all earlier ones.                 *)
LEMMA CommitWeighed ==
  ASSUME NEW s, TrackerOK(s), DetectorOK(s), NEW h \in Heights, NEW hash \in BlockHashes,
         NEW u, u = ResolveCommitLocked(s, h, hash)
  PROVE  DetectorOK(u)
  <1> DEFINE w == ArchiveCommit(s, h, hash)
             fresh == {k \in DOMAIN w.rounds : k.height = h /\ ~w.rounds[k].resolved}
             inOrder == InOrder(fresh)
             reports == [i \in DOMAIN inOrder |-> Report(w.rounds[inOrder[i]], inOrder[i])]
             kept == {k \in DOMAIN w.rounds : k.height >= h - HistorySize}
             n == 4 * HistorySize
  <1>1. ArchiveOK(w) /\ Inside(w) /\ SameRounds(s, w) /\ MovesOn(s, w)
    BY ArchiveCommitOK DEF TrackerOK
  <1>2. DetectorOK(w)
    <2> HIDE DEF w
    <2> QED BY <1>1, DetectorStays
  <1>3. /\ u.defaultValidators = w.defaultValidators /\ u.defaultTotalPower = w.defaultTotalPower
        /\ u.rounds = [k \in kept |-> Resolve(w.rounds[k], k, h, hash)]
        /\ u.committedHeight = Larger(h, w.committedHeight)
        /\ u.history = Latest(w.history \o reports, n)
    <2>1. DOMAIN w = TrackerFields
      BY <1>1 DEF ArchiveOK
    <2>2. u = [w EXCEPT !.committedHeight = Larger(h, @),
                        !.catalogueRevision = IF h > w.committedHeight THEN @ + 1 ELSE @,
                        !.rounds = [k \in kept |-> Resolve(@[k], k, h, hash)],
                        !.history = Latest(@ \o reports, n)]
      BY DEF ResolveCommitLocked
    <2> HIDE DEF w, kept, reports, n
    <2> QED BY <2>1, <2>2 DEF TrackerFields
  <1>4. n \in Nat /\ h \in Int /\ w.committedHeight \in Nat
    BY <1>1, LimitAssumption, DomainAssumption DEF ArchiveOK
  <1>5. w.committedHeight = s.committedHeight
    BY <1>1 DEF MovesOn
  <1> HIDE DEF n
  <1>6. fresh \in SUBSET Keys /\ IsFiniteSet(fresh) /\ OneHeight(fresh) /\ \A k \in fresh : k.height = h
    <2> HIDE DEF w
    <2>1. fresh \in SUBSET DOMAIN w.rounds
      OBVIOUS
    <2>2. DOMAIN w.rounds \subseteq Keys /\ IsFiniteSet(DOMAIN w.rounds)
      BY <1>1, <1>2 DEF Inside, DetectorOK
    <2>3. \A k \in fresh : k.height = h
      OBVIOUS
    <2> HIDE DEF fresh
    <2> QED BY <2>1, <2>2, <2>3, FS_Subset DEF OneHeight
  <1>7. fresh # {} => s.committedHeight < h
    <2> HIDE DEF w
    <2> SUFFICES ASSUME NEW k \in fresh PROVE s.committedHeight < h
      OBVIOUS
    <2>1. k \in DOMAIN s.rounds /\ w.rounds[k] = s.rounds[k] /\ k.height = h /\ ~w.rounds[k].resolved
      BY <1>1 DEF SameRounds
    <2>2. s.committedHeight \in Nat
      BY <1>4, <1>5
    <2>3. k.height > s.committedHeight
      BY <2>1 DEF TrackerOK, AllLive, LiveOK
    <2> QED BY <1>4, <2>1, <2>2, <2>3
  <1> HIDE DEF fresh
  <1>8. inOrder \in [1..Cardinality(fresh) -> fresh] /\ Filed(inOrder)
    BY <1>6, InOrderIs
  <1>9. Cardinality(fresh) \in Nat /\ (fresh = {} => Cardinality(fresh) = 0)
    BY <1>6, FS_CardinalityType, FS_EmptySet
  <1> HIDE DEF inOrder
  <1>10. PICK c \in Nat : c = Cardinality(fresh)
    BY <1>9
  <1>11. PICK q : q = reports
    OBVIOUS
  <1>12. /\ DOMAIN q = 1..c /\ q = [i \in 1..c |-> Report(w.rounds[inOrder[i]], inOrder[i])]
         /\ \A i \in 1..c : inOrder[i] \in fresh
    BY <1>8, <1>10, <1>11
  <1> HIDE DEF w
  <1>13. \A i \in 1..c : q[i] \in Reports /\ q[i].key = inOrder[i] /\ q[i].key.height = h
    <2> TAKE i \in 1..c
    <2>1. inOrder[i] \in Keys /\ inOrder[i].height = h
      BY <1>6, <1>12
    <2>2. q[i] = [key |-> inOrder[i], divergent |-> IsDivergent(w.rounds[inOrder[i]])]
      BY <1>12 DEF Report
    <2>3. IsDivergent(w.rounds[inOrder[i]]) \in BOOLEAN
      BY DEF IsDivergent
    <2> QED BY <2>1, <2>2, <2>3 DEF Reports
  <1>14. q \in Seq(Reports)
    BY <1>12, <1>13, IsASeq
  <1>15. FiledHistory(q)
    <2> SUFFICES ASSUME NEW i \in 1..c, NEW j \in 1..c, i < j PROVE FiledAfter(q[j].key, q[i].key)
      BY <1>12 DEF FiledHistory
    <2>1. ReportBefore(inOrder[i], inOrder[j])
      BY <1>8, <1>10 DEF Filed
    <2> QED BY <1>13, <2>1 DEF FiledAfter
  <1>16. PICK old, low : old = w.history /\ low = w.committedHeight
    OBVIOUS
  <1>17. old \in Seq(Reports) /\ FiledHistory(old) /\ \A i \in DOMAIN old : old[i].key.height <= low
    BY <1>2, <1>16 DEF DetectorOK, HistoryOK
  <1>18. PICK p : p = Latest(old \o q, n)
    OBVIOUS
  <1>19. /\ p \in Seq(Reports) /\ FiledHistory(p) /\ Len(p) <= n
         /\ \A i \in DOMAIN p : p[i].key.height <= Larger(h, low)
    <2>1. \A x \in Reports : x.key.height \in Int
      BY DomainAssumption DEF Reports, Keys
    <2>2. CASE fresh # {}
      <3>1. low < h /\ low \in Int /\ Larger(h, low) = h
        BY <1>4, <1>5, <1>7, <1>16, <2>2 DEF Larger
      <3>2. \A i \in DOMAIN q : q[i].key.height = h
        BY <1>12, <1>13
      <3>3. /\ p \in Seq(Reports) /\ FiledHistory(p) /\ Len(p) <= n
            /\ \A i \in DOMAIN p : p[i].key.height <= h
        BY <1>4, <1>14, <1>15, <1>17, <1>18, <3>1, <3>2, HistoryGrows
      <3> QED BY <3>1, <3>3
    <2>3. CASE fresh = {}
      <3>1. old \o q = old
        <4>1. Len(q) = 0
          BY <1>9, <1>10, <1>12, <2>3, <1>14
        <4>2. q = <<>>
          BY <1>14, <4>1, EmptySeq
        <4> QED BY <1>17, <4>2
      <3>2. p = Latest(old, n)
        BY <1>18, <3>1
      <3>3. /\ p \in Seq(Reports) /\ FiledHistory(p) /\ Len(p) <= n
            /\ \A i \in DOMAIN p : p[i].key.height <= low
        BY <1>4, <1>17, <3>2, HistoryCut
      <3>4. low <= Larger(h, low) /\ Larger(h, low) \in Int /\ low \in Int
        BY <1>4, <1>16 DEF Larger
      <3>5. \A i \in DOMAIN p : p[i].key.height <= Larger(h, low)
        <4> TAKE i \in DOMAIN p
        <4>1. p[i].key.height \in Int /\ p[i].key.height <= low
          BY <2>1, <3>3
        <4> QED BY <3>4, <4>1
      <3> QED BY <3>3, <3>5
    <2> QED BY <2>2, <2>3
  <1>20. HistoryOK(u)
    BY <1>3, <1>11, <1>16, <1>18, <1>19 DEF HistoryOK, n
  <1>21. IsFiniteSet(DOMAIN u.rounds)
    BY <1>2, <1>3, FS_Subset DEF DetectorOK
  <1>22. \A k \in DOMAIN u.rounds : Weighed(u.rounds[k])
    <2> SUFFICES ASSUME NEW k \in kept PROVE Weighed(u.rounds[k])
      BY <1>3
    <2>1. Weighed(w.rounds[k]) /\ u.rounds[k] = Resolve(w.rounds[k], k, h, hash)
      BY <1>2, <1>3 DEF DetectorOK
    <2>2. PICK rd, new : rd = w.rounds[k] /\ new = u.rounds[k]
      OBVIOUS
    <2>3. Weighed(rd) /\ new = Resolve(rd, k, h, hash)
      BY <2>1, <2>2
    <2>4. Weighed(new)
      <3>1. CASE rd.resolved \/ k.height > h
        BY <2>3, <3>1 DEF Resolve
      <3>2. CASE ~(rd.resolved \/ k.height > h)
        <4>1. new = [rd EXCEPT !.resolved = TRUE, !.canonicalHash = IF k.height = h THEN hash ELSE @]
          BY <2>3, <3>2 DEF Resolve
        <4> QED BY <2>3, <4>1 DEF Weighed, LiveFields
      <3> QED BY <3>1, <3>2
    <2> QED BY <2>2, <2>4
  <1> QED BY <1>2, <1>3, <1>20, <1>21, <1>22 DEF DetectorOK

(* What the detector says is exact, and everSeen is a set of rounds.       *)
DetectorInv == TrackerInv /\ DetectorOK(t) /\ everSeen \in [Heights -> SUBSET Rounds]

(* It is so from the start.                                                *)
LEMMA DetectorStarts == Init => DetectorInv
  <1> SUFFICES ASSUME Init PROVE DetectorInv
    OBVIOUS
  <1>1. /\ t.rounds = NoEntries /\ t.history = <<>> /\ t.committedHeight = 0
        /\ t.defaultValidators = NoEntries /\ t.defaultTotalPower = 0
        /\ everSeen = [h \in Heights |-> {}]
    BY DEF Init
  <1>2. DOMAIN t.rounds = {} /\ DOMAIN t.defaultValidators = {} /\ IsFiniteSet({})
    BY <1>1, FS_EmptySet DEF NoEntries
  <1>3. Powers(t.defaultValidators)
    BY <1>1 DEF Powers, NoEntries
  <1>4. PowerOfAll(t.defaultValidators, {}) = 0
    BY <1>2, <1>3, PowerIsNatural
  <1>5. HistoryOK(t)
    BY <1>1, LimitAssumption DEF HistoryOK, FiledHistory
  <1>6. DetectorOK(t)
    BY <1>1, <1>2, <1>3, <1>4, <1>5 DEF DetectorOK, Weighable
  <1> QED BY <1>1, <1>6, InitOK DEF DetectorInv

(* Every call keeps it so.                                                 *)
LEMMA DetectorNext == DetectorInv /\ [Next]_vars => DetectorInv'
  <1> SUFFICES ASSUME DetectorInv, [Next]_vars PROVE DetectorInv'
    OBVIOUS
  <1>1. TrackerInv' /\ TrackerOK(t) /\ DetectorOK(t)
    BY NextOK DEF DetectorInv, TrackerInv
  <1>2. \A h \in Heights, r \in Rounds : Remember(h, r) => everSeen' \in [Heights -> SUBSET Rounds]
    BY DEF Remember, DetectorInv
  <1>3. ASSUME NEW m \in Rosters, SetValidators(m)
        PROVE  DetectorOK(t') /\ everSeen' \in [Heights -> SUBSET Rounds]
    <2>1. Weighable(m)
      BY RosterAssumption DEF Weighable, Powers
    <2>2. PICK power : power = PowerOfAll(m, DOMAIN m)
      OBVIOUS
    <2>3. t' = SetRoster(t, m, power) /\ everSeen' = everSeen
      BY <1>3, <2>2 DEF SetValidators, SetRoster
    <2> QED BY <1>1, <2>1, <2>2, <2>3, SetValidatorsWeighed DEF DetectorInv
  <1>4. ASSUME NEW h \in Heights, NEW r \in Rounds, NEW p \in Proposers, ObserveRound(h, r, p)
        PROVE  DetectorOK(t') /\ everSeen' \in [Heights -> SUBSET Rounds]
    <2>1. t' = ObserveRoundLocked(t, h, r, p) /\ Remember(h, r)
      BY <1>4 DEF ObserveRound
    <2>2. Observed(t, t', h, r)
      BY <1>1, <2>1, ObserveRoundOK DEF TrackerOK
    <2> QED BY <1>1, <1>2, <2>1, <2>2, DetectorStays DEF Observed
  <1>5. ASSUME NEW v \in Votes, ObserveVote(v)
        PROVE  DetectorOK(t') /\ everSeen' \in [Heights -> SUBSET Rounds]
    <2>1. t' = ObserveVoteLocked(t, v) /\ Remember(v.height, v.round)
      BY <1>5 DEF ObserveVote
    <2>2. Observed(t, t', v.height, v.round)
      BY <1>1, <2>1, ObserveVoteOK DEF TrackerOK
    <2>3. v.height \in Heights /\ v.round \in Rounds
      BY DEF Votes
    <2> QED BY <1>1, <1>2, <2>1, <2>2, <2>3, DetectorStays DEF Observed
  <1>6. ASSUME NEW v \in Votes, IngestVote(v)
        PROVE  DetectorOK(t') /\ everSeen' \in [Heights -> SUBSET Rounds]
    <2>1. t' = IngestVoteLocked(t, v).tracker /\ Remember(v.height, v.round)
      BY <1>6 DEF IngestVote
    <2>2. v.height \in Heights /\ v.round \in Rounds
      BY DEF Votes
    <2> QED BY <1>1, <1>2, <2>1, <2>2, IngestVoteWeighed
  <1>7. ASSUME NEW h \in Heights, NEW r \in Rounds, MarkRoundAdvanced(h, r)
        PROVE  DetectorOK(t') /\ everSeen' \in [Heights -> SUBSET Rounds]
    <2>1. t' = Advance(t, h, r) /\ everSeen' = everSeen
      BY <1>7 DEF MarkRoundAdvanced, Advance
    <2> QED BY <1>1, <2>1, AdvancedWeighed DEF DetectorInv
  <1>8. ASSUME NEW h \in Heights, NEW hash \in BlockHashes, ResolveCommit(h, hash)
        PROVE  DetectorOK(t') /\ everSeen' \in [Heights -> SUBSET Rounds]
    <2>1. t' = ResolveCommitLocked(t, h, hash) /\ everSeen' = everSeen
      BY <1>8 DEF ResolveCommit
    <2> QED BY <1>1, <2>1, CommitWeighed DEF DetectorInv
  <1>9. CASE UNCHANGED vars
    BY <1>1, <1>9 DEF vars, DetectorInv
  <1>10. DetectorOK(t') /\ everSeen' \in [Heights -> SUBSET Rounds]
    BY <1>3, <1>4, <1>5, <1>6, <1>7, <1>8, <1>9 DEF Next, DetectorInv
  <1> QED BY <1>1, <1>10 DEF DetectorInv

(* The detector never disagrees with the archive, with a recount of its    *)
(* votes or with the order of the commits, for any roster and any limits.  *)
THEOREM DetectorIsSound == Spec => []DetectorSound
  <1>1. DetectorInv => DetectorSound
    <2> SUFFICES ASSUME DetectorInv PROVE DetectorSound
      OBVIOUS
    <2>1. TrackerInv /\ TrackerOK(t) /\ DetectorOK(t)
      BY DEF DetectorInv, TrackerInv
    <2>2. DetectorInsideArchive /\ LiveAboveCommitted /\ CanonicalAgreement
      BY <2>1, InvImplies
    <2>3. \A k \in DOMAIN t.rounds : RoundDataOK(t.rounds[k]) /\ t.rounds[k].totalVotedPower <= t.rounds[k].totalVotingPower
      BY <2>1, WeighedSays DEF DetectorOK
    <2>4. PowerAccounting
      BY <2>1, <2>3 DEF PowerAccounting, DetectorOK, Weighed, Signed
    <2>5. HistoryOrdered /\ \A i \in DOMAIN t.history : t.history[i].key \in Keys
      <3>1. t.history \in Seq(Reports) /\ FiledHistory(t.history)
        BY <2>1 DEF DetectorOK, HistoryOK
      <3>2. HistoryOrdered
        BY <3>1 DEF HistoryOrdered, FiledHistory, FiledAfter
      <3>3. \A i \in DOMAIN t.history : t.history[i] \in Reports
        BY SMTT(30), <3>1
      <3> QED BY <3>2, <3>3 DEF Reports
    <2>6. \A h \in DOMAIN t.archive : ArchivedHeightOK(t.archive[h])
      BY <2>1 DEF TrackerOK, ArchiveOK, BlockOK, BlockShape, RoundsBounded, RoundsOK, RoundOK,
                  RosterOK, VoteOK, ArchivedHeightOK, ArchivedRoundOK
    <2>7. TypeOK
      BY <2>1, <2>3, <2>5, <2>6 DEF TypeOK, DetectorInv, TrackerInv, TrackerOK, ArchiveOK, Inside
    <2> QED BY <2>2, <2>4, <2>5, <2>7 DEF DetectorSound
  <1> QED BY <1>1, DetectorStarts, DetectorNext, PTL DEF Spec

-----------------------------------------------------------------------------
(* The coverage of a report *)

(* The counters of a block tell how many rounds of E, those ever archived, *)
(* it has seen and lost; what is lost is at or below the eviction mark.    *)
Covered(b, E) ==
  /\ E \subseteq Rounds \cap Nat /\ IsFiniteSet(E) /\ DOMAIN b.rounds \subseteq E
  /\ b.roundsObserved = Cardinality(E) /\ b.roundsEvicted = Cardinality(E \ DOMAIN b.rounds)
  /\ \A r \in E : r <= b.lastRound /\ (r \in DOMAIN b.rounds \/ r <= b.evictedThrough)
  /\ E # {} => b.lastRound \in E

(* A height that is new has seen nothing.                                  *)
LEMMA NewHeightCovered == Covered(NewArchivedHeight, {})
  <1>1. PICK b : b = NewArchivedHeight
    OBVIOUS
  <1>2. b.roundsObserved = 0 /\ b.roundsEvicted = 0 /\ DOMAIN b.rounds = {}
    BY <1>1 DEF NewArchivedHeight, NoEntries
  <1>3. {} \ DOMAIN b.rounds = {} /\ Cardinality({}) = 0 /\ IsFiniteSet({})
    BY FS_EmptySet
  <1> QED BY <1>1, <1>2, <1>3 DEF Covered

(* Votes, proposers, rosters and commits have no part in it.               *)
LEMMA TouchedCovered ==
  ASSUME NEW b, NEW c, Touched(b, c), NEW E, Covered(b, E)
  PROVE  Covered(c, E)
  <1> QED BY DEF Touched, Covered

(* A round that is archived was not seen before, and is counted as seen    *)
(* and, if a round is given up for it, that one as lost.                   *)
LEMMA RoundAddedCovered ==
  ASSUME NEW b, BlockOK(b), NEW roster, RosterOK(roster),
         NEW r \in Rounds \cap Nat, r \notin DOMAIN b.rounds, r > b.evictedThrough,
         NEW c, c = RoundAdded(b, r, roster), NEW E, Covered(b, E)
  PROVE  Covered(c, E \cup {r}) /\ c.roundsObserved # b.roundsObserved
  <1>1. PICK a : a = AddArchiveRound(b, r, roster)
    OBVIOUS
  <1>2. /\ BlockShape(a) /\ DOMAIN a.rounds = DOMAIN b.rounds \cup {r}
        /\ a.roundsObserved = b.roundsObserved + 1
        /\ a.evictedThrough = b.evictedThrough /\ a.roundsEvicted = b.roundsEvicted
        /\ a.lastRound = IF b.roundsObserved = 0 \/ r > b.lastRound THEN r ELSE b.lastRound
    BY <1>1, AddArchiveRoundIs
  <1>3. /\ b.lastRound \in Nat /\ b.roundsObserved \in Nat /\ b.evictedThrough \in Int
        /\ b.roundsEvicted \in Nat /\ DOMAIN b.rounds \subseteq Nat
        /\ \A x \in DOMAIN b.rounds : x > b.evictedThrough
    BY DEF BlockOK, BlockShape, RoundsBounded
  <1>4. PICK F : F = E \cup {r}
    OBVIOUS
  <1>5. r \notin E
    BY <1>3 DEF Covered
  <1>6. F \subseteq Rounds \cap Nat /\ IsFiniteSet(F) /\ Cardinality(F) = Cardinality(E) + 1
    <2>1. IsFiniteSet(E) /\ E \subseteq Rounds \cap Nat
      BY DEF Covered
    <2>2. PICK n \in Nat : Cardinality(E) = n
      BY <2>1, FS_CardinalityType
    <2>3. IsFiniteSet(F) /\ Cardinality(F) = n + 1
      BY <1>4, <1>5, <2>1, <2>2, OneMore
    <2> QED BY <1>4, <2>1, <2>2, <2>3
  <1>7. \A x \in F : x <= a.lastRound
    <2>1. b.roundsObserved = 0 => E = {}
      <3>1. IsFiniteSet(E) /\ b.roundsObserved = Cardinality(E)
        BY DEF Covered
      <3> QED BY <3>1, FS_EmptySet
    <2> QED BY <1>2, <1>3, <1>4, <2>1 DEF Covered
  <1>8. a.lastRound \in F
    <2>1. b.roundsObserved # 0 => b.lastRound \in E
      <3>1. b.roundsObserved = Cardinality(E)
        BY DEF Covered
      <3> QED BY <3>1, FS_EmptySet DEF Covered
    <2> QED BY <1>2, <1>4, <2>1
  <1>9. F \ DOMAIN a.rounds = E \ DOMAIN b.rounds
    BY <1>2, <1>4, <1>5
  <1>10. c = IF Cardinality(DOMAIN a.rounds) > RoundLimit
             THEN EvictArchiveRound(a, Min(DOMAIN a.rounds)) ELSE a
    BY <1>1 DEF RoundAdded
  <1>11. CASE ~(Cardinality(DOMAIN a.rounds) > RoundLimit)
    <2>1. c = a
      BY <1>10, <1>11
    <2>2. \A x \in F : x \in DOMAIN a.rounds \/ x <= a.evictedThrough
      BY <1>2, <1>4 DEF Covered
    <2>3. a.roundsObserved = Cardinality(F) /\ a.roundsEvicted = Cardinality(F \ DOMAIN a.rounds)
      BY <1>2, <1>6, <1>9 DEF Covered
    <2>4. DOMAIN a.rounds \subseteq F
      BY <1>2, <1>4 DEF Covered
    <2>5. Covered(a, F)
      BY <1>6, <1>7, <1>8, <2>2, <2>3, <2>4 DEF Covered
    <2> QED BY <1>2, <1>3, <1>4, <2>1, <2>5
  <1>12. CASE Cardinality(DOMAIN a.rounds) > RoundLimit
    <2>1. PICK low : low = Min(DOMAIN a.rounds)
      OBVIOUS
    <2>2. low \in DOMAIN a.rounds /\ \A x \in DOMAIN a.rounds : low <= x
      <3>1. DOMAIN a.rounds \in SUBSET Nat /\ DOMAIN a.rounds # {}
        BY <1>2, <1>3
      <3> QED BY <2>1, <3>1, MinIsLeast
    <2>3. c = EvictArchiveRound(a, low)
      BY <1>10, <1>12, <2>1
    <2>4. /\ DOMAIN c.rounds = DOMAIN a.rounds \ {low}
          /\ c.evictedThrough = low /\ c.roundsEvicted = a.roundsEvicted + 1
          /\ c.lastRound = a.lastRound /\ c.roundsObserved = a.roundsObserved
      <3>1. c = [a EXCEPT !.rounds = [x \in DOMAIN a.rounds \ {low} |-> a.rounds[x]],
                          !.evictedThrough = low, !.roundsEvicted = a.roundsEvicted + 1]
        BY <2>3 DEF EvictArchiveRound, Restrict
      <3>2. DOMAIN a = BlockFields
        BY <1>2 DEF BlockShape
      <3> QED BY <3>1, <3>2 DEF BlockFields
    <2>5. \A x \in F : x \in DOMAIN c.rounds \/ x <= c.evictedThrough
      <3>1. low \in Nat /\ low > b.evictedThrough /\ E \subseteq Nat /\ r \in Nat
        BY <1>2, <1>3, <2>2 DEF Covered
      <3>2. \A x \in E : x \in DOMAIN b.rounds \/ x <= b.evictedThrough
        BY DEF Covered
      <3>3. \A x \in F : x \in DOMAIN a.rounds \/ (x \in E /\ x <= b.evictedThrough)
        BY <1>2, <1>4, <3>2
      <3>4. \A x \in E : x <= b.evictedThrough => x <= low
        BY <1>3, <3>1
      <3>5. \A x \in DOMAIN a.rounds : x \in DOMAIN c.rounds \/ x <= low
        BY <2>4, <3>1
      <3> QED BY <2>4, <3>3, <3>4, <3>5
    <2>6. c.roundsEvicted = Cardinality(F \ DOMAIN c.rounds)
      <3>1. PICK X : X = E \ DOMAIN b.rounds
        OBVIOUS
      <3>2. IsFiniteSet(X) /\ b.roundsEvicted = Cardinality(X)
        BY <3>1, FS_Subset DEF Covered
      <3>3. low \notin X /\ F \ DOMAIN c.rounds = X \cup {low}
        BY <1>2, <1>4, <1>5, <1>9, <2>2, <2>4, <3>1 DEF Covered
      <3>4. PICK n \in Nat : Cardinality(X) = n
        BY <3>2, FS_CardinalityType
      <3>5. PICK Y : Y = X \cup {low}
        OBVIOUS
      <3>6. Cardinality(Y) = n + 1
        BY <3>2, <3>3, <3>4, <3>5, OneMore
      <3> QED BY <1>2, <2>4, <3>2, <3>3, <3>4, <3>5, <3>6
    <2>7. DOMAIN c.rounds \subseteq F /\ c.roundsObserved = Cardinality(F)
      BY <1>2, <1>4, <1>6, <2>4 DEF Covered
    <2>8. Covered(c, F)
      BY <1>6, <1>7, <1>8, <2>4, <2>5, <2>6, <2>7 DEF Covered
    <2> QED BY <1>2, <1>3, <1>4, <2>4, <2>8
  <1> QED BY <1>11, <1>12

(* A height that is neither retained nor evicted has not been archived.    *)
CoverageOK(s, seen) ==
  \A h \in Heights : IF h \in DOMAIN s.archive THEN Covered(s.archive[h], seen[h])
                     ELSE h <= s.archiveEvictedThrough \/ seen[h] = {}

(* What Remember makes of seen when a call on round r of height h turns s  *)
(* into u.                                                                 *)
Remembered(s, u, h, r, seen) ==
  IF /\ h \in DOMAIN u.archive
     /\ u.archive[h].roundsObserved # (IF h \in DOMAIN s.archive THEN s.archive[h].roundsObserved ELSE 0)
  THEN [seen EXCEPT ![h] = @ \cup {r}] ELSE seen

(* A call on a round counts it if it is archived, and no other.            *)
LEMMA ObservedCovered ==
  ASSUME NEW s, ArchiveOK(s), NEW seen \in [Heights -> SUBSET Rounds], CoverageOK(s, seen),
         NEW h \in Heights, NEW r, NEW u, Observed(s, u, h, r),
         NEW new, new = Remembered(s, u, h, r, seen)
  PROVE  CoverageOK(u, new)
  <1>1. /\ ArchiveOK(u) /\ Later(s, u)
        /\ \A x \in DOMAIN u.archive : x # h => x \in DOMAIN s.archive /\ u.archive[x] = s.archive[x]
    BY DEF Observed, MovesOn
  <1>2. \A x \in Heights : x # h => new[x] = seen[x]
    BY DEF Remembered
  <1>3. ASSUME NEW x \in Heights, x \notin DOMAIN u.archive
        PROVE  x <= u.archiveEvictedThrough \/ new[x] = {}
    <2>1. /\ x \in Int /\ s.archiveEvictedThrough \in Int /\ u.archiveEvictedThrough \in Int
          /\ s.archiveEvictedThrough <= u.archiveEvictedThrough
          /\ x \in DOMAIN s.archive => x <= u.archiveEvictedThrough
      BY <1>1, <1>3, DomainAssumption DEF ArchiveOK, Later
    <2>2. new[x] = seen[x]
      BY <1>3 DEF Remembered
    <2>3. x \notin DOMAIN s.archive => x <= s.archiveEvictedThrough \/ seen[x] = {}
      BY DEF CoverageOK
    <2> QED BY <2>1, <2>2, <2>3
  <1>4. ASSUME h \in DOMAIN u.archive
        PROVE  Covered(u.archive[h], new[h])
    <2>1. PICK b, d, E : b = BlockAt(s, h) /\ d = u.archive[h] /\ E = seen[h]
      OBVIOUS
    <2>2. BlockOK(b)
      BY <2>1, NewHeightOK DEF BlockAt, ArchiveOK
    <2>3. Covered(b, E)
      <3>1. CASE h \in DOMAIN s.archive
        BY <2>1, <3>1 DEF CoverageOK, BlockAt
      <3>2. CASE h \notin DOMAIN s.archive
        <4>1. h > u.archiveEvictedThrough /\ u.archiveEvictedThrough >= s.archiveEvictedThrough
              /\ h \in Int /\ s.archiveEvictedThrough \in Int /\ u.archiveEvictedThrough \in Int
          BY <1>1, <1>4, DomainAssumption DEF ArchiveOK, Later
        <4>2. seen[h] = {}
          BY <3>2, <4>1 DEF CoverageOK
        <4> QED BY <2>1, <3>2, <4>2, NewHeightCovered DEF BlockAt
      <3> QED BY <3>1, <3>2
    <2>4. PICK c : Admits(b, c, r) /\ Touched(c, d)
      BY <1>4, <2>1 DEF Observed
    <2>5. b.roundsObserved = IF h \in DOMAIN s.archive THEN s.archive[h].roundsObserved ELSE 0
      BY <2>1 DEF BlockAt, NewArchivedHeight
    <2>6. new[h] = IF d.roundsObserved # b.roundsObserved THEN E \cup {r} ELSE E
      BY <1>4, <2>1, <2>5 DEF Remembered
    <2>7. d.roundsObserved = c.roundsObserved
      BY <2>4 DEF Touched
    <2>8. CASE c = b
      <3>1. Covered(d, E)
        BY <2>3, <2>4, <2>8, TouchedCovered
      <3> QED BY <2>1, <2>6, <2>7, <2>8, <3>1
    <2>9. CASE c # b
      <3>1. r \in Rounds \cap Nat /\ r \notin DOMAIN b.rounds /\ r > b.evictedThrough
        BY <2>4, <2>9 DEF Admits
      <3>2. PICK m : RosterOK(m) /\ c = RoundAdded(b, r, m)
        BY <2>4, <2>9 DEF Admits
      <3>3. Covered(c, E \cup {r}) /\ c.roundsObserved # b.roundsObserved
        BY <2>2, <2>3, <3>1, <3>2, RoundAddedCovered
      <3>4. PICK F : F = E \cup {r}
        OBVIOUS
      <3>5. Covered(d, F)
        BY <2>4, <3>3, <3>4, TouchedCovered
      <3> QED BY <2>1, <2>6, <2>7, <3>3, <3>4, <3>5
    <2> QED BY <2>8, <2>9
  <1>5. ASSUME NEW x \in DOMAIN u.archive, x # h
        PROVE  Covered(u.archive[x], new[x])
    <2>1. x \in DOMAIN s.archive /\ u.archive[x] = s.archive[x] /\ x \in Heights
      BY <1>1, <1>5 DEF ArchiveOK
    <2> QED BY <1>2, <1>5, <2>1 DEF CoverageOK
  <1> QED BY <1>3, <1>4, <1>5 DEF CoverageOK

(* A commit notice may bring its height into the archive, without rounds.  *)
LEMMA CommitCovered ==
  ASSUME NEW s, TrackerOK(s), NEW seen, CoverageOK(s, seen),
         NEW h \in Heights, NEW hash \in BlockHashes, NEW u, u = ResolveCommitLocked(s, h, hash)
  PROVE  CoverageOK(u, seen)
  <1>1. PICK w : w = ArchiveCommit(s, h, hash)
    OBVIOUS
  <1>2. /\ ArchiveOK(w) /\ Later(s, w)
        /\ \A x \in DOMAIN w.archive : x # h => x \in DOMAIN s.archive /\ w.archive[x] = s.archive[x]
        /\ h \in DOMAIN w.archive => Touched(BlockAt(s, h), w.archive[h])
    BY <1>1, ArchiveCommitOK DEF TrackerOK, MovesOn
  <1>3. u.archive = w.archive /\ u.archiveEvictedThrough = w.archiveEvictedThrough
    <2>1. DOMAIN w = TrackerFields
      BY <1>2 DEF ArchiveOK
    <2> QED BY <1>1, <2>1 DEF ResolveCommitLocked, TrackerFields
  <1>4. \A x \in Heights : /\ x \in Int /\ s.archiveEvictedThrough \in Int /\ w.archiveEvictedThrough \in Int
                           /\ s.archiveEvictedThrough <= w.archiveEvictedThrough
                           /\ x \in DOMAIN w.archive => x > w.archiveEvictedThrough
                           /\ x \in DOMAIN s.archive => x \in DOMAIN w.archive \/ x <= w.archiveEvictedThrough
    BY <1>2, DomainAssumption DEF ArchiveOK, Later, TrackerOK
  <1>5. ASSUME NEW x \in Heights, x \notin DOMAIN w.archive
        PROVE  x <= w.archiveEvictedThrough \/ seen[x] = {}
    <2>1. x \notin DOMAIN s.archive => x <= s.archiveEvictedThrough \/ seen[x] = {}
      BY DEF CoverageOK
    <2> QED BY <1>4, <1>5, <2>1
  <1>6. ASSUME h \in DOMAIN w.archive
        PROVE  Covered(w.archive[h], seen[h])
    <2>1. Covered(BlockAt(s, h), seen[h])
      <3>1. CASE h \in DOMAIN s.archive
        BY <3>1 DEF CoverageOK, BlockAt
      <3>2. CASE h \notin DOMAIN s.archive
        <4>1. seen[h] = {}
          BY <1>4, <1>6, <3>2 DEF CoverageOK
        <4> QED BY <3>2, <4>1, NewHeightCovered DEF BlockAt
      <3> QED BY <3>1, <3>2
    <2> QED BY <1>2, <1>6, <2>1, TouchedCovered
  <1>7. ASSUME NEW x \in DOMAIN w.archive, x # h
        PROVE  Covered(w.archive[x], seen[x])
    BY <1>2, <1>7 DEF CoverageOK, ArchiveOK
  <1> QED BY <1>3, <1>5, <1>6, <1>7 DEF CoverageOK

(* A roster changes no coverage.                                           *)
LEMMA RosterCovered ==
  ASSUME NEW s, TrackerOK(s), NEW seen, CoverageOK(s, seen), NEW m, RosterOK(m), NEW power,
         NEW u, u = SetRoster(s, m, power)
  PROVE  CoverageOK(u, seen)
  <1>1. DOMAIN u.archive = DOMAIN s.archive /\ u.archiveEvictedThrough = s.archiveEvictedThrough
    BY DEF SetRoster, TrackerOK, ArchiveOK, TrackerFields
  <1>2. \A h \in DOMAIN s.archive : Touched(s.archive[h], u.archive[h])
    BY SetValidatorsOK
  <1>3. \A h \in DOMAIN s.archive : Covered(s.archive[h], seen[h]) => Covered(u.archive[h], seen[h])
    BY <1>2, TouchedCovered
  <1> QED BY <1>1, <1>3 DEF CoverageOK

(* The rounds that are missing are those below the last one that were      *)
(* never seen.                                                             *)
LEMMA MissingAre ==
  ASSUME NEW b, BlockOK(b), NEW E, Covered(b, E), E # {}
  PROVE  /\ b.roundsObserved > 0
         /\ b.lastRound - b.roundsObserved + 1 = Cardinality((0..Max(E)) \ E)
  <1>1. /\ E \subseteq Nat /\ IsFiniteSet(E) /\ b.roundsObserved = Cardinality(E)
        /\ b.lastRound \in E /\ \A x \in E : x <= b.lastRound
    BY DEF Covered
  <1>2. PICK l \in Nat : l = b.lastRound
    BY <1>1
  <1>3. Max(E) = l
    <2>1. \A x, y \in E : x >= y /\ y >= x => x = y
      BY <1>1
    <2>2. l \in E /\ \A y \in E : l >= y
      BY <1>1, <1>2
    <2>3. Max(E) \in E /\ \A y \in E : Max(E) >= y
      BY <2>2 DEF Max
    <2> QED BY <2>1, <2>2, <2>3
  <1>4. PICK I : I = 0..l
    OBVIOUS
  <1>5. IsFiniteSet(I) /\ Cardinality(I) = l + 1
    BY <1>2, <1>4, FS_Interval
  <1>6. I \cap E = E
    <2>1. \A x \in E : x \in Nat /\ x <= l
      BY <1>1, <1>2
    <2>2. \A x \in E : x \in I
      BY <1>4, <2>1
    <2> QED BY <2>2
  <1>7. Cardinality(I \ E) = l + 1 - Cardinality(E)
    <2>1. Cardinality(I \ E) = Cardinality(I) - Cardinality(I \cap E)
      BY <1>5, FS_Difference
    <2>2. Cardinality(I \cap E) = Cardinality(E)
      BY <1>6
    <2>3. Cardinality(I) = l + 1
      BY <1>5
    <2>4. Cardinality(E) \in Nat
      BY <1>1, FS_CardinalityType
    <2> QED BY <2>1, <2>2, <2>3, <2>4
  <1>8. Cardinality(E) \in Nat /\ Cardinality(E) # 0
    BY <1>1, FS_CardinalityType, FS_EmptySet
  <1> QED BY <1>1, <1>2, <1>3, <1>4, <1>7, <1>8

(* The powers of a phase add up, and a validator is listed as conflicting  *)
(* if and only if it is in two groups.                                     *)
LEMMA PhaseConsistent ==
  ASSUME HashLimit > 1, NEW rd, RoundOK(rd), NEW type \in VoteTypes, NEW canonical, NEW committed,
         NEW p, p = Phase(rd, type, canonical, committed)
  PROVE  /\ p.observedPower + p.notObservedPower = PowerOfAll(rd.roster, DOMAIN rd.roster)
         /\ p.conflicting = {a \in Addresses :
              Cardinality({x \in DOMAIN p.groups : a \in p.groups[x].validators}) > 1}
         /\ \A x \in DOMAIN p.groups : p.groups[x].power <= p.observedPower
  <1> DEFINE shown == DOMAIN rd.roster \cup Voters(rd)
             seen == {a \in shown : <<a, type>> \in DOMAIN rd.votes}
             HashesOf(a) == Range(rd.votes[<<a, type>>].hashes)
             Signers(x) == {a \in seen : x \in HashesOf(a)}
  <1>1. /\ DOMAIN p.groups = UNION {HashesOf(a) : a \in seen}
        /\ \A x \in DOMAIN p.groups : /\ p.groups[x].validators = Signers(x)
                                      /\ p.groups[x].power = PowerOfAll(rd.roster, Signers(x))
        /\ p.observedPower = PowerOfAll(rd.roster, seen)
        /\ p.notObservedPower = PowerOfAll(rd.roster, shown \ seen)
        /\ p.conflicting = {a \in seen : rd.votes[<<a, type>>].conflicting}
    BY DEF Phase
  <1>2. /\ Powers(rd.roster) /\ IsFiniteSet(DOMAIN rd.roster) /\ DOMAIN rd.roster \subseteq Addresses
        /\ IsFiniteSet(Voters(rd)) /\ DOMAIN rd.votes \subseteq Addresses \X VoteTypes
        /\ \A i \in DOMAIN rd.votes : VoteOK(rd.votes[i])
    BY DEF RoundOK, RosterOK, Powers
  <1>3. Voters(rd) \subseteq Addresses
    BY <1>2 DEF Voters
  <1>4. PICK S : S = shown
    OBVIOUS
  <1>5. IsFiniteSet(S) /\ DOMAIN rd.roster \subseteq S /\ S \subseteq Addresses
    <2>1. IsFiniteSet(DOMAIN rd.roster \cup Voters(rd))
      BY <1>2, FS_Union
    <2> QED BY <1>2, <1>3, <1>4, <2>1
  <1>6. PICK T : T = seen
    OBVIOUS
  <1>7. T \in SUBSET S /\ IsFiniteSet(T)
    BY <1>4, <1>5, <1>6, FS_Subset
  <1>8. PICK m : m = rd.roster
    OBVIOUS
  <1>9. Powers(m) /\ IsFiniteSet(DOMAIN m)
    BY <1>2, <1>8
  <1>10. p.observedPower + p.notObservedPower = PowerOfAll(rd.roster, DOMAIN rd.roster)
    <2>1. PowerOfAll(m, T) + PowerOfAll(m, S \ T) = PowerOfAll(m, S)
      BY <1>5, <1>7, <1>9, PowerBounds
    <2>2. PowerOfAll(m, S) = PowerOfAll(m, DOMAIN m)
      BY <1>5, <1>8, <1>9, PowerBounds
    <2> QED BY <1>1, <1>4, <1>6, <1>8, <2>1, <2>2
  <1>11. \A x \in DOMAIN p.groups : p.groups[x].power <= p.observedPower
    <2> TAKE x \in DOMAIN p.groups
    <2>1. PICK U : U = Signers(x)
      OBVIOUS
    <2>2. U \in SUBSET T
      BY <1>6, <2>1
    <2>3. PowerOfAll(m, U) <= PowerOfAll(m, T)
      BY <1>7, <1>9, <2>2, PowerBounds
    <2> QED BY <1>1, <1>6, <1>8, <2>1, <2>3
  <1>12. ASSUME NEW a \in Addresses
         PROVE  a \in p.conflicting <=> Cardinality({x \in DOMAIN p.groups : a \in p.groups[x].validators}) > 1
    <2> DEFINE groups == {x \in DOMAIN p.groups : a \in p.groups[x].validators}
    <2>1. CASE a \in seen
      <3>1. groups = HashesOf(a)
        <4>1. \A x \in DOMAIN p.groups : a \in p.groups[x].validators <=> x \in HashesOf(a)
          BY <1>1, <2>1
        <4>2. HashesOf(a) \subseteq DOMAIN p.groups
          BY <1>1, <2>1
        <4> QED BY <4>1, <4>2
      <3>2. PICK vote : vote = rd.votes[<<a, type>>]
        OBVIOUS
      <3>3. VoteOK(vote)
        BY <1>2, <2>1, <3>2
      <3>4. /\ Cardinality(Range(vote.hashes)) = Len(vote.hashes) /\ vote.conflicting \in BOOLEAN
            /\ vote.conflicting = TRUE <=> Len(vote.hashes) > 1
        BY <3>3 DEF VoteOK, ArchivedVoteOK, ConflictKnown
      <3>5. Cardinality(groups) = Len(vote.hashes)
        BY <3>1, <3>2, <3>4
      <3>6. a \in p.conflicting <=> vote.conflicting = TRUE
        BY <1>1, <2>1, <3>2, <3>4
      <3> HIDE DEF groups
      <3>7. a \in p.conflicting <=> Cardinality(groups) > 1
        BY <3>4, <3>5, <3>6
      <3> QED BY <3>7 DEF groups
    <2>2. CASE a \notin seen
      <3>1. groups = {} /\ a \notin p.conflicting
        BY ZenonT(60), <1>1, <2>2
      <3>2. Cardinality(groups) = 0
        BY <3>1, FS_EmptySet
      <3> HIDE DEF groups
      <3>3. ~(Cardinality(groups) > 1)
        BY <3>2
      <3> QED BY <3>1, <3>3 DEF groups
    <2> QED BY <2>1, <2>2
  <1>13. p.conflicting \subseteq Addresses
    BY <1>1, <1>4, <1>5
  <1> QED BY <1>10, <1>11, <1>12, <1>13

CoverageInv == DetectorInv /\ CoverageOK(t, everSeen)

(* Every call keeps the coverage.                                          *)
LEMMA CoverageNext == CoverageInv /\ [Next]_vars => CoverageInv'
  <1> SUFFICES ASSUME CoverageInv, [Next]_vars PROVE CoverageInv'
    OBVIOUS
  <1>1. /\ DetectorInv' /\ TrackerOK(t) /\ ArchiveOK(t) /\ Inside(t) /\ CoverageOK(t, everSeen)
        /\ everSeen \in [Heights -> SUBSET Rounds]
    BY DetectorNext DEF CoverageInv, DetectorInv, TrackerInv, TrackerOK
  <1>2. \A h \in Heights, r \in Rounds : Remember(h, r) => everSeen' = Remembered(t, t', h, r, everSeen)
    BY DEF Remember, Remembered
  <1>3. ASSUME NEW m \in Rosters, SetValidators(m)
        PROVE  CoverageOK(t', everSeen')
    <2>1. RosterOK(m)
      BY RosterAssumption DEF RosterOK
    <2>2. PICK power : power = PowerOfAll(m, DOMAIN m)
      OBVIOUS
    <2>3. t' = SetRoster(t, m, power) /\ everSeen' = everSeen
      BY <1>3, <2>2 DEF SetValidators, SetRoster
    <2> QED BY <1>1, <2>1, <2>3, RosterCovered
  <1>4. ASSUME NEW h \in Heights, NEW r \in Rounds, NEW p \in Proposers, ObserveRound(h, r, p)
        PROVE  CoverageOK(t', everSeen')
    <2>1. t' = ObserveRoundLocked(t, h, r, p) /\ Remember(h, r)
      BY <1>4 DEF ObserveRound
    <2>2. Observed(t, t', h, r)
      BY <1>1, <2>1, ObserveRoundOK
    <2>3. everSeen' = Remembered(t, t', h, r, everSeen)
      BY <1>2, <2>1
    <2> QED BY <1>1, <2>2, <2>3, ObservedCovered
  <1>5. ASSUME NEW v \in Votes, ObserveVote(v)
        PROVE  CoverageOK(t', everSeen')
    <2>1. t' = ObserveVoteLocked(t, v) /\ Remember(v.height, v.round)
      BY <1>5 DEF ObserveVote
    <2>2. PICK h \in Heights, r \in Rounds : h = v.height /\ r = v.round
      BY DEF Votes
    <2>3. Observed(t, t', h, r)
      BY <1>1, <2>1, <2>2, ObserveVoteOK
    <2>4. everSeen' = Remembered(t, t', h, r, everSeen)
      BY <1>2, <2>1, <2>2
    <2> QED BY <1>1, <2>3, <2>4, ObservedCovered
  <1>6. ASSUME NEW v \in Votes, IngestVote(v)
        PROVE  CoverageOK(t', everSeen')
    <2>1. t' = IngestVoteLocked(t, v).tracker /\ Remember(v.height, v.round)
      BY <1>6 DEF IngestVote
    <2>2. PICK h \in Heights, r \in Rounds : h = v.height /\ r = v.round
      BY DEF Votes
    <2>3. PICK w : /\ Observed(t, w, h, r) /\ t'.archive = w.archive
                   /\ t'.archiveEvictedThrough = w.archiveEvictedThrough
      <3> DEFINE trigger == IngestVoteLocked(t, v).trigger
      <3>1. \E w : /\ Observed(t, w, v.height, v.round) /\ t'.archive = w.archive
                   /\ w = ObserveVoteLocked(t, v)
                   /\ t'.archiveEvictedThrough = w.archiveEvictedThrough
        BY <1>1, <2>1, IngestVoteOK
      <3> QED BY <2>2, <3>1
    <2>4. everSeen' = Remembered(t, w, h, r, everSeen)
      BY <1>2, <2>1, <2>2, <2>3 DEF Remembered
    <2>5. CoverageOK(w, everSeen')
      BY <1>1, <2>3, <2>4, ObservedCovered
    <2> QED BY <2>3, <2>5 DEF CoverageOK
  <1>7. ASSUME NEW h \in Heights, NEW r \in Rounds, MarkRoundAdvanced(h, r)
        PROVE  CoverageOK(t', everSeen')
    <2>1. t' = Advance(t, h, r) /\ everSeen' = everSeen
      BY <1>7 DEF MarkRoundAdvanced, Advance
    <2>2. t'.archive = t.archive /\ t'.archiveEvictedThrough = t.archiveEvictedThrough
      BY <1>1, <2>1 DEF Advance, ArchiveOK, TrackerFields
    <2> QED BY <1>1, <2>1, <2>2 DEF CoverageOK
  <1>8. ASSUME NEW h \in Heights, NEW hash \in BlockHashes, ResolveCommit(h, hash)
        PROVE  CoverageOK(t', everSeen')
    <2>1. t' = ResolveCommitLocked(t, h, hash) /\ everSeen' = everSeen
      BY <1>8 DEF ResolveCommit
    <2> QED BY <1>1, <2>1, CommitCovered
  <1>9. ASSUME UNCHANGED vars
        PROVE  CoverageOK(t', everSeen')
    <2>1. t' = t /\ everSeen' = everSeen
      BY <1>9 DEF vars
    <2> QED BY <1>1, <2>1
  <1>10. CoverageOK(t', everSeen')
    BY <1>3, <1>4, <1>5, <1>6, <1>7, <1>8, <1>9 DEF Next
  <1> QED BY <1>1, <1>10 DEF CoverageInv

(* What the invariants say of the report of a height.                      *)
LEMMA ReportOK ==
  ASSUME HashLimit > 1, CoverageInv PROVE ReportExact
  <1>1. ArchiveOK(t) /\ CoverageOK(t, everSeen)
    BY DEF CoverageInv, DetectorInv, TrackerInv, TrackerOK
  <1>2. ASSUME NEW h \in DOMAIN t.archive
        PROVE  BlockOK(t.archive[h]) /\ Covered(t.archive[h], everSeen[h])
    BY <1>1 DEF ArchiveOK, CoverageOK
  <1>3. CoverageExact
    <2> SUFFICES ASSUME NEW h \in DOMAIN t.archive
                 PROVE  /\ t.archive[h].roundsObserved = Cardinality(everSeen[h])
                        /\ t.archive[h].roundsEvicted = Cardinality(everSeen[h] \ DOMAIN t.archive[h].rounds)
                        /\ everSeen[h] # {} =>
                             Header(t, h).missingRounds = Cardinality((0..Max(everSeen[h])) \ everSeen[h])
      BY DEF CoverageExact
    <2>1. PICK b, E : b = t.archive[h] /\ E = everSeen[h]
      OBVIOUS
    <2>2. BlockOK(b) /\ Covered(b, E)
      BY <1>2, <2>1
    <2>3. b.roundsObserved = Cardinality(E) /\ b.roundsEvicted = Cardinality(E \ DOMAIN b.rounds)
      BY <2>2 DEF Covered
    <2>4. Header(t, h).missingRounds
            = IF b.roundsObserved > 0 THEN b.lastRound - b.roundsObserved + 1 ELSE 0
      BY <2>1 DEF Header
    <2>5. E # {} => /\ b.roundsObserved > 0
                    /\ b.lastRound - b.roundsObserved + 1 = Cardinality((0..Max(E)) \ E)
      BY <2>2, MissingAre
    <2> QED BY <2>1, <2>3, <2>4, <2>5
  <1>4. ReportConsistent
    <2> SUFFICES ASSUME NEW h \in DOMAIN t.archive, NEW r \in DOMAIN t.archive[h].rounds,
                        NEW type \in VoteTypes
                 PROVE  LET round == Investigation(t, h).rounds[r]
                            p == round.phases[type]
                            groupsOf(a) == {x \in DOMAIN p.groups : a \in p.groups[x].validators}
                        IN /\ p.observedPower + p.notObservedPower = round.totalVotingPower
                           /\ p.conflicting = {a \in Addresses : Cardinality(groupsOf(a)) > 1}
                           /\ \A x \in DOMAIN p.groups : p.groups[x].power <= p.observedPower
      BY DEF ReportConsistent
    <2>1. PICK b, rd : b = t.archive[h] /\ rd = b.rounds[r]
      OBVIOUS
    <2>2. RoundOK(rd)
      BY <1>2, <2>1 DEF BlockOK, RoundsOK
    <2>3. PICK round : round = Investigation(t, h).rounds[r]
      OBVIOUS
    <2>4. round = SnapshotRound(rd, b.canonicalHash, b.committed)
      BY <2>1, <2>3 DEF Investigation
    <2>5. PICK p : p = round.phases[type]
      OBVIOUS
    <2>6. /\ p = Phase(rd, type, b.canonicalHash, b.committed)
          /\ round.totalVotingPower = PowerOfAll(rd.roster, DOMAIN rd.roster)
      BY <2>4, <2>5 DEF SnapshotRound
    <2>7. /\ p.observedPower + p.notObservedPower = PowerOfAll(rd.roster, DOMAIN rd.roster)
          /\ p.conflicting = {a \in Addresses :
               Cardinality({x \in DOMAIN p.groups : a \in p.groups[x].validators}) > 1}
          /\ \A x \in DOMAIN p.groups : p.groups[x].power <= p.observedPower
      BY <2>2, <2>6, PhaseConsistent
    <2> QED BY <2>3, <2>5, <2>6, <2>7
  <1> QED BY <1>3, <1>4 DEF ReportExact

(* The coverage and the powers that a report shows are exact, if a second  *)
(* hash of a validator can be kept at all.                                 *)
THEOREM ReportIsExact == ASSUME HashLimit > 1 PROVE Spec => []ReportExact
  <1>1. Init => CoverageInv
    <2> SUFFICES ASSUME Init PROVE CoverageInv
      OBVIOUS
    <2>1. DetectorInv
      BY DetectorStarts
    <2>2. DOMAIN t.archive = {} /\ everSeen = [h \in Heights |-> {}]
      BY DEF Init, NoEntries
    <2> QED BY <2>1, <2>2 DEF CoverageInv, CoverageOK
  <1>2. CoverageInv => ReportExact
    BY ReportOK
  <1> QED BY <1>1, <1>2, CoverageNext, PTL DEF Spec

-----------------------------------------------------------------------------
(* How far the callers have got *)

(* Round r of height h is not above a caller's position: height H and      *)
(* round R, with the heights up to c committed.                            *)
UpTo(c, H, R, h, r) == h <= c \/ h < H \/ (h = H /\ r <= R)

BlockWithin(b, R) == b.evictedThrough < R /\ \A r \in DOMAIN b.rounds : r <= R

(* Neither the archive nor what it evicted is above the position.          *)
Within(s, c, H, R) ==
  /\ s.committedHeight <= c
  /\ s.archiveEvictedThrough <= c \/ s.archiveEvictedThrough < H
  /\ \A h \in DOMAIN s.archive :
       h <= c \/ h < H \/ (h = H /\ BlockWithin(s.archive[h], R))

(* The position H2, R2, c2 is not before H, R, c.                          *)
Onward(c, H, R, c2, H2, R2) ==
  c <= c2 /\ (H2 > H \/ (H2 = H /\ R2 >= R) \/ H <= c2)

(* What is within a position is within every later one.                    *)
LEMMA OnwardKeeps ==
  ASSUME NEW c \in Int, NEW H \in Int, NEW R \in Int,
         NEW c2 \in Int, NEW H2 \in Int, NEW R2 \in Int, Onward(c, H, R, c2, H2, R2)
  PROVE  /\ \A h, r \in Int : UpTo(c, H, R, h, r) => UpTo(c2, H2, R2, h, r)
         /\ \A s : ArchiveOK(s) /\ Within(s, c, H, R) => Within(s, c2, H2, R2)
<1>1. \A h, r \in Int : UpTo(c, H, R, h, r) => UpTo(c2, H2, R2, h, r)
  BY DEF UpTo, Onward
<1>2. ASSUME NEW s, ArchiveOK(s), Within(s, c, H, R)
      PROVE  Within(s, c2, H2, R2)
  <2>1. s.committedHeight \in Int /\ s.archiveEvictedThrough \in Int
    BY <1>2 DEF ArchiveOK
  <2>2. s.committedHeight <= c2
    BY <1>2, <2>1 DEF Within, Onward
  <2>3. s.archiveEvictedThrough <= c2 \/ s.archiveEvictedThrough < H2
    BY <1>2, <2>1 DEF Within, Onward
  <2>4. ASSUME NEW h \in DOMAIN s.archive
        PROVE  h <= c2 \/ h < H2 \/ (h = H2 /\ BlockWithin(s.archive[h], R2))
    <3>1. h \in Int /\ BlockOK(s.archive[h])
      BY <1>2, <2>4 DEF ArchiveOK
    <3>2. h <= c \/ h < H \/ (h = H /\ BlockWithin(s.archive[h], R))
      BY <1>2, <2>4 DEF Within
    <3>3. CASE h <= c \/ h < H
      BY <3>1, <3>3 DEF Onward
    <3>4. CASE h = H /\ BlockWithin(s.archive[h], R)
      <4>1. CASE H2 = H /\ R2 >= R
        <5> DEFINE b == s.archive[h]
        <5>1. b.evictedThrough \in Int /\ \A r \in DOMAIN b.rounds : r \in Int
          BY <3>1 DEF BlockOK, BlockShape, RoundsBounded
        <5>2. BlockWithin(b, R)
          BY <3>4
        <5> HIDE DEF b
        <5>3. BlockWithin(b, R2)
          BY <4>1, <5>1, <5>2 DEF BlockWithin
        <5> QED BY <3>4, <4>1, <5>3 DEF b
      <4>2. CASE H2 > H \/ H <= c2
        BY <3>1, <3>4, <4>2
      <4> QED BY <4>1, <4>2 DEF Onward
    <3> QED BY <3>2, <3>3, <3>4
  <2> QED BY <2>2, <2>3, <2>4 DEF Within
<1> QED BY <1>1, <1>2

(* The least of several heights is below another of them.                  *)
LEMMA LeastOfMany ==
  ASSUME NEW S \in SUBSET Nat, IsFiniteSet(S), NEW n \in Nat \ {0}, Cardinality(S) > n
  PROVE  Min(S) \in S /\ \E y \in S : Min(S) < y
<1>1. S # {}
  BY FS_EmptySet
<1>2. Min(S) \in S /\ \A y \in S : Min(S) <= y
  BY <1>1, MinIsLeast
<1>3. PICK y \in S : y # Min(S)
  <2>1. SUFFICES ASSUME \A y \in S : y = Min(S) PROVE FALSE
    OBVIOUS
  <2>2. S = {Min(S)}
    BY <1>2, <2>1
  <2>3. Cardinality({Min(S)}) = 1
    BY FS_Singleton
  <2> QED BY <2>2, <2>3
<1> DEFINE low == Min(S)
<1>4. low \in Nat /\ y \in Nat /\ low <= y /\ y # low
  BY <1>2, <1>3
<1> HIDE DEF low
<1>5. low < y
  BY <1>4
<1> QED BY <1>2, <1>5 DEF low

(* When a height at most as high as the position enters the archive, no    *)
(* more than the position is retained or evicted.                          *)
LEMMA HeightsWithin ==
  ASSUME NEW c \in Nat, NEW H \in Nat, NEW R \in Nat,
         NEW s, ArchiveOK(s), Within(s, c, H, R), NEW h \in Heights \cap Nat, h <= c \/ h <= H,
         NEW u, ArchiveOK(u), HeightsAre(s, u, h),
         h \in DOMAIN u.archive => h <= c \/ h < H \/ BlockWithin(u.archive[h], R)
  PROVE  Within(u, c, H, R)
<1> DEFINE all == DOMAIN s.archive \cup {h}
<1>1. all \in SUBSET Nat /\ IsFiniteSet(all)
  BY FS_AddElement DEF ArchiveOK
<1>2. \A y \in all : y <= c \/ y <= H
  BY <1>1 DEF Within
<1>3. /\ DOMAIN u.archive \subseteq all
      /\ u.archiveEvictedThrough = s.archiveEvictedThrough
         \/ (Cardinality(all) > HistorySize /\ u.archiveEvictedThrough = Min(all))
      /\ u.committedHeight = s.committedHeight
      /\ \A x \in DOMAIN u.archive : x # h => u.archive[x] = s.archive[x]
  BY DEF HeightsAre
<1> HIDE DEF all
<1>4. u.archiveEvictedThrough <= c \/ u.archiveEvictedThrough < H
  <2>1. CASE u.archiveEvictedThrough = s.archiveEvictedThrough
    BY <2>1 DEF Within
  <2>2. CASE Cardinality(all) > HistorySize /\ u.archiveEvictedThrough = Min(all)
    <3>1. Min(all) \in all /\ \E y \in all : Min(all) < y
      BY <1>1, <2>2, LeastOfMany, LimitAssumption
    <3>2. PICK y \in all : Min(all) < y
      BY <3>1
    <3> DEFINE low == Min(all)
    <3>3. low \in Nat /\ y \in Nat /\ low < y /\ (y <= c \/ y <= H)
      BY <1>1, <1>2, <3>1, <3>2
    <3> HIDE DEF low
    <3>4. low <= c \/ low < H
      BY <3>3
    <3> QED BY <2>2, <3>4 DEF low
  <2> QED BY <1>3, <2>1, <2>2
<1>5. ASSUME NEW x \in DOMAIN u.archive
      PROVE  x <= c \/ x < H \/ (x = H /\ BlockWithin(u.archive[x], R))
  <2>1. x \in Nat
    BY <1>1, <1>3, <1>5
  <2>2. CASE x = h
    BY <2>1, <2>2, <1>5
  <2>3. CASE x # h
    BY <1>3, <1>5, <2>3 DEF all, Within
  <2> QED BY <2>2, <2>3
<1>6. u.committedHeight <= c
  BY <1>3 DEF Within
<1> QED BY <1>4, <1>5, <1>6 DEF Within

(* A round at most as high as the position keeps its block within it.      *)
LEMMA BlockStaysWithin ==
  ASSUME NEW b, BlockOK(b), NEW R \in Nat, BlockWithin(b, R), NEW r \in Int, r <= R,
         NEW c, Admits(b, c, r), NEW d, Touched(c, d)
  PROVE  BlockWithin(d, R)
<1>1. BlockWithin(c, R)
  <2>1. CASE c = b
    BY <2>1
  <2>2. CASE c # b
    <3>1. PICK m : RosterOK(m) /\ c = RoundAdded(b, r, m)
      BY <2>2 DEF Admits
    <3>2. r \in Rounds \cap Nat /\ r \notin DOMAIN b.rounds /\ r > b.evictedThrough
      BY <2>2 DEF Admits
    <3> DEFINE a == AddArchiveRound(b, r, m)
    <3>3. /\ DOMAIN a.rounds = DOMAIN b.rounds \cup {r} /\ a.evictedThrough = b.evictedThrough
          /\ IsFiniteSet(DOMAIN a.rounds) /\ BlockShape(a)
      BY <3>1, <3>2, AddArchiveRoundIs
    <3>4. c = IF Cardinality(DOMAIN a.rounds) > RoundLimit
              THEN EvictArchiveRound(a, Min(DOMAIN a.rounds)) ELSE a
      BY <3>1 DEF RoundAdded
    <3>5. DOMAIN a.rounds \in SUBSET Nat
      BY <3>2, <3>3 DEF BlockOK, RoundsBounded
    <3>6. \A x \in DOMAIN a.rounds : x <= R
      BY <3>3 DEF BlockWithin
    <3> HIDE DEF a
    <3>7. \A x \in DOMAIN c.rounds : x <= R
      <4>1. DOMAIN c.rounds \subseteq DOMAIN b.rounds \cup {r}
        BY <3>1, <3>2, RoundAddedOK
      <4> QED BY <3>3, <3>6, <4>1
    <3>8. c.evictedThrough < R
      <4>1. CASE Cardinality(DOMAIN a.rounds) > RoundLimit
        <5> DEFINE low == Min(DOMAIN a.rounds)
        <5>1. low \in DOMAIN a.rounds /\ \E y \in DOMAIN a.rounds : low < y
          BY <3>3, <3>5, <4>1, LeastOfMany, LimitAssumption
        <5>2. c.evictedThrough = low
          BY <3>3, <3>4, <4>1 DEF EvictArchiveRound, BlockShape, BlockFields
        <5> HIDE DEF low
        <5> QED BY <3>5, <3>6, <5>1, <5>2
      <4>2. CASE ~(Cardinality(DOMAIN a.rounds) > RoundLimit)
        BY <3>3, <3>4, <4>2 DEF BlockWithin
      <4> QED BY <4>1, <4>2
    <3> QED BY <3>7, <3>8 DEF BlockWithin
  <2> QED BY <2>1, <2>2
<1>2. DOMAIN d.rounds = DOMAIN c.rounds /\ d.evictedThrough = c.evictedThrough
  BY DEF Touched
<1> QED BY <1>1, <1>2 DEF BlockWithin

(* A call on a round that the position has reached.                        *)
LEMMA ObservedWithin ==
  ASSUME NEW c \in Nat, NEW H \in Nat, NEW R \in Nat,
         NEW s, ArchiveOK(s), Within(s, c, H, R), NEW h \in Heights, NEW r \in Rounds,
         UpTo(c, H, R, h, r), NEW u, Observed(s, u, h, r), NEW n, Seen(s, u, h, n)
  PROVE  Within(u, c, H, R)
<1>1. h \in Int /\ r \in Int
  BY DomainAssumption
<1>2. CASE SameHeights(s, u) /\ u.archive = s.archive
  BY <1>2 DEF SameHeights, Within
<1>3. CASE ~(SameHeights(s, u) /\ u.archive = s.archive)
  <2>1. /\ h \in DOMAIN s.archive \/ h > 0
        /\ HeightsAre(s, u, h)
    BY <1>3 DEF Seen
  <2>2. h \in Heights \cap Nat /\ ArchiveOK(u) /\ (h <= c \/ h <= H)
    BY <1>1, <2>1 DEF ArchiveOK, Observed, UpTo
  <2>3. ASSUME h \in DOMAIN u.archive
        PROVE  h <= c \/ h < H \/ BlockWithin(u.archive[h], R)
    <3> SUFFICES ASSUME ~(h <= c), ~(h < H) PROVE BlockWithin(u.archive[h], R)
      OBVIOUS
    <3> DEFINE b == BlockAt(s, h)
    <3>1. h = H /\ r <= R
      BY <1>1, <2>2 DEF UpTo
    <3>2. PICK d : Admits(b, d, r) /\ Touched(d, u.archive[h])
      BY <2>3 DEF Observed
    <3>3. BlockOK(b) /\ BlockWithin(b, R)
      <4>1. CASE h \in DOMAIN s.archive
        BY <3>1, <4>1 DEF BlockAt, ArchiveOK, Within
      <4>2. CASE h \notin DOMAIN s.archive
        <5>1. b = NewArchivedHeight
          BY <4>2 DEF BlockAt
        <5>2. BlockWithin(NewArchivedHeight, R)
          BY DEF BlockWithin, NewArchivedHeight, NoEntries
        <5> QED BY <5>1, <5>2, NewHeightOK
      <4> QED BY <4>1, <4>2
    <3> DEFINE e == u.archive[h]
    <3>4. Touched(d, e)
      BY <3>2
    <3> HIDE DEF b, e
    <3>5. BlockWithin(e, R)
      BY <1>1, <3>1, <3>2, <3>3, <3>4, BlockStaysWithin
    <3> QED BY <3>5 DEF e
  <2> QED BY <2>1, <2>2, <2>3, HeightsWithin
<1> QED BY <1>2, <1>3

(* A call that moves no height and archives no round.                      *)
LEMMA TouchedWithin ==
  ASSUME NEW c, NEW H, NEW R, NEW s, Within(s, c, H, R), NEW u,
         DOMAIN u.archive = DOMAIN s.archive,
         u.archiveEvictedThrough = s.archiveEvictedThrough, u.committedHeight = s.committedHeight,
         \A h \in DOMAIN s.archive :
           u.archive[h] = s.archive[h] \/ Touched(s.archive[h], u.archive[h])
  PROVE  Within(u, c, H, R)
<1>1. ASSUME NEW h \in DOMAIN u.archive
      PROVE  h <= c \/ h < H \/ (h = H /\ BlockWithin(u.archive[h], R))
  <2>1. h <= c \/ h < H \/ (h = H /\ BlockWithin(s.archive[h], R))
    BY DEF Within
  <2>2. BlockWithin(s.archive[h], R) => BlockWithin(u.archive[h], R)
    BY DEF Touched, BlockWithin
  <2> QED BY <2>1, <2>2
<1> QED BY <1>1 DEF Within

(* A commit notice for a height that is committed at the position.         *)
LEMMA CommitWithin ==
  ASSUME NEW c \in Nat, NEW H \in Nat, NEW R \in Nat, NEW s, TrackerOK(s), Within(s, c, H, R),
         NEW h \in Heights, h <= c, NEW hash \in BlockHashes,
         NEW u, u = ResolveCommitLocked(s, h, hash)
  PROVE  Within(u, c, H, R)
<1> DEFINE w == ArchiveCommit(s, h, hash)
<1>1. ArchiveOK(w) /\ MovesOn(s, w)
  BY ArchiveCommitOK DEF TrackerOK
<1>2. /\ u.archive = w.archive /\ u.committedHeight = Larger(h, w.committedHeight)
      /\ u.archiveEvictedThrough = w.archiveEvictedThrough
  <2> HIDE DEF w
  <2>1. DOMAIN w = TrackerFields
    BY <1>1 DEF ArchiveOK
  <2> QED BY <2>1 DEF ResolveCommitLocked, TrackerFields, w
<1>3. Within(w, c, H, R)
  <2>1. \/ SameHeights(s, w) /\ w.archive = s.archive
        \/ /\ h \in DOMAIN s.archive \/ h > 0
           /\ HeightsAre(s, w, h)
    BY ArchiveCommitSeen DEF TrackerOK
  <2> HIDE DEF w
  <2>2. CASE SameHeights(s, w) /\ w.archive = s.archive
    BY <2>2 DEF SameHeights, Within
  <2>3. CASE (h \in DOMAIN s.archive \/ h > 0) /\ HeightsAre(s, w, h)
    <3>1. h \in Heights \cap Nat /\ ArchiveOK(s)
      BY <2>3, DomainAssumption DEF TrackerOK, ArchiveOK
    <3> QED BY <1>1, <2>3, <3>1, HeightsWithin
  <2> QED BY <2>1, <2>2, <2>3
<1> HIDE DEF w
<1>4. u.committedHeight <= c
  <2>1. w.committedHeight \in Int /\ h \in Int
    BY <1>1, DomainAssumption DEF ArchiveOK
  <2> QED BY <1>2, <1>3, <2>1 DEF Larger, Within
<1> QED BY <1>2, <1>3, <1>4 DEF Within

-----------------------------------------------------------------------------
(* What the archive holds, it keeps *)

(* No vote, hash or flag of the rounds that b and c share is missing in c. *)
BlockGrows(b, c) ==
  \A r \in DOMAIN b.rounds \cap DOMAIN c.rounds : RoundKept(b.rounds[r], c.rounds[r])

(* Nor of the heights that s and u share.                                  *)
Grows(s, u) ==
  \A h \in DOMAIN s.archive \cap DOMAIN u.archive : BlockGrows(s.archive[h], u.archive[h])

(* What grows holds what it held, and stays as crowded as it was.          *)
LEMMA GrowthHolds ==
  ASSUME NEW rd, NEW n, RoundKept(rd, n), RoundOK(n), NEW v
  PROVE  (Holds(rd, v) => Holds(n, v)) /\ (Crowded(rd) => Crowded(n))
<1>1. Holds(rd, v) => Holds(n, v)
  BY DEF RoundKept, Holds
<1>2. ASSUME Crowded(rd) PROVE Crowded(n)
  <2>1. Voters(rd) \subseteq Voters(n) /\ IsFiniteSet(Voters(n))
    BY DEF RoundKept, Voters, RoundOK
  <2>2. IsFiniteSet(Voters(rd)) /\ Cardinality(Voters(rd)) <= Cardinality(Voters(n))
    BY <2>1, FS_Subset
  <2>3. Cardinality(Voters(rd)) \in Nat /\ Cardinality(Voters(n)) \in Nat
    BY <2>1, <2>2, FS_CardinalityType
  <2>4. Cardinality(Voters(n)) >= UnknownLimit
    BY <1>2, <2>2, <2>3, LimitAssumption DEF Crowded
  <2> QED BY <1>2, <2>4 DEF Crowded, RoundKept
<1> QED BY <1>1, <1>2

(* Nothing is lost by no change, nor by a change that keeps the rounds.    *)
LEMMA SameRoundsGrow ==
  ASSUME NEW b, NEW c,
         \A r \in DOMAIN b.rounds \cap DOMAIN c.rounds :
           \/ c.rounds[r] = b.rounds[r]
           \/ /\ c.rounds[r].votes = b.rounds[r].votes /\ c.rounds[r].truncated = b.rounds[r].truncated
              /\ c.rounds[r].roster = b.rounds[r].roster \/ DOMAIN b.rounds[r].roster = {}
  PROVE  BlockGrows(b, c)
BY DEF BlockGrows, RoundKept

(* Changing one round of a block.                                          *)
LEMMA ReplacedGrows ==
  ASSUME NEW b, BlockOK(b), NEW r \in DOMAIN b.rounds, NEW n, NEW x, NEW c, c = Replaced(b, r, n, x),
         RoundKept(b.rounds[r], n)
  PROVE  BlockGrows(b, c) /\ c.rounds[r] = n
<1>1. /\ DOMAIN c.rounds = DOMAIN b.rounds /\ c.rounds[r] = n
      /\ \A y \in DOMAIN b.rounds : y # r => c.rounds[y] = b.rounds[y]
  BY DEF Replaced, BlockOK, BlockShape, BlockFields
<1>2. ASSUME NEW y \in DOMAIN b.rounds PROVE RoundKept(b.rounds[y], c.rounds[y])
  <2>1. CASE y = r
    BY <1>1, <2>1
  <2>2. CASE y # r
    BY <1>1, <2>2 DEF RoundKept
  <2> QED BY <2>1, <2>2
<1> QED BY <1>1, <1>2 DEF BlockGrows

(* A further hash of a vote, and the flag of a full one.                   *)
LEMMA VoteGrows ==
  ASSUME NEW rd, RoundOK(rd), NEW id, NEW vote,
         IF id \in DOMAIN rd.votes THEN vote = rd.votes[id] ELSE vote = NoVote
  PROVE  /\ \A hash \in BlockHashes :
              LET n == [rd EXCEPT !.votes = Put(@, id, AppendHash(vote, hash))]
              IN RoundKept(rd, n) /\ id \in DOMAIN n.votes
                 /\ hash \in Range(n.votes[id].hashes)
         /\ id \in DOMAIN rd.votes =>
              /\ RoundKept(rd, FlagVote(rd, id)) /\ id \in DOMAIN FlagVote(rd, id).votes
              /\ FlagVote(rd, id).votes[id].truncated
<1>1. ASSUME NEW hash \in BlockHashes, NEW n, n = [rd EXCEPT !.votes = Put(@, id, AppendHash(vote, hash))]
      PROVE  RoundKept(rd, n) /\ id \in DOMAIN n.votes /\ hash \in Range(n.votes[id].hashes)
  <2> DEFINE new == AppendHash(vote, hash)
  <2>1. /\ vote.hashes \in Seq(BlockHashes) /\ DOMAIN vote = VoteFields
        /\ id \in DOMAIN rd.votes => Len(vote.hashes) >= 1
    <3>1. CASE id \in DOMAIN rd.votes
      <4>1. VoteOK(vote)
        BY <3>1 DEF RoundOK
      <4>2. Len(vote.hashes) >= 1
        BY <4>1, LimitAssumption DEF VoteOK
      <4> QED BY <4>1, <4>2 DEF VoteOK, ArchivedVoteOK
    <3>2. CASE id \notin DOMAIN rd.votes
      <4>1. vote = NoVote /\ <<>> \in Seq(BlockHashes)
        BY <3>2
      <4> QED BY <3>2, <4>1 DEF NoVote, VoteFields
    <3> QED BY <3>1, <3>2
  <2>2. /\ new.hashes = Append(vote.hashes, hash) /\ new.truncated = vote.truncated
        /\ id \in DOMAIN rd.votes => new.conflicting
    <3>1. /\ new.hashes = Append(vote.hashes, hash) /\ new.truncated = vote.truncated
          /\ new.conflicting = (Len(vote.hashes) + 1 > 1)
      BY <2>1 DEF AppendHash, VoteFields
    <3>2. id \in DOMAIN rd.votes => Len(vote.hashes) + 1 > 1
      BY <2>1
    <3> HIDE DEF new
    <3> QED BY <3>1, <3>2, Zenon
  <2>3. hash \in Range(new.hashes) /\ Range(vote.hashes) \subseteq Range(new.hashes)
    <3> DEFINE q == vote.hashes  p == Append(q, hash)
    <3>1. q \in Seq(BlockHashes)
      BY <2>1
    <3> HIDE DEF q
    <3>2. DOMAIN p = 1..(Len(q) + 1) /\ p[Len(q) + 1] = hash /\ \A i \in DOMAIN q : i \in DOMAIN p /\ p[i] = q[i]
      BY <3>1
    <3>3. Len(q) + 1 \in DOMAIN p
      BY <3>1, <3>2
    <3> HIDE DEF p
    <3>4. hash \in Range(p) /\ Range(q) \subseteq Range(p)
      BY <3>2, <3>3 DEF Range
    <3> QED BY <2>2, <3>4 DEF p, q
  <2> HIDE DEF new
  <2>4. n.votes = Put(rd.votes, id, new) /\ n.truncated = rd.truncated /\ n.roster = rd.roster
    BY <1>1 DEF RoundOK, RoundFields, new
  <2>5. /\ DOMAIN n.votes = DOMAIN rd.votes \cup {id} /\ n.votes[id] = new
        /\ \A x \in DOMAIN rd.votes : x # id => n.votes[x] = rd.votes[x]
    BY <2>4 DEF Put
  <2>6. RoundKept(rd, n)
    <3>1. ASSUME NEW i \in DOMAIN rd.votes
          PROVE  /\ i \in DOMAIN n.votes /\ Range(rd.votes[i].hashes) \subseteq Range(n.votes[i].hashes)
                 /\ rd.votes[i].conflicting => n.votes[i].conflicting
                 /\ rd.votes[i].truncated => n.votes[i].truncated
      <4>1. CASE i = id
        BY <2>2, <2>3, <2>5, <4>1
      <4>2. CASE i # id
        BY <2>5, <4>2
      <4> QED BY <4>1, <4>2
    <3> QED BY <2>4, <3>1 DEF RoundKept
  <2> QED BY <2>3, <2>5, <2>6
<1>2. ASSUME id \in DOMAIN rd.votes, NEW n, n = FlagVote(rd, id)
      PROVE  RoundKept(rd, n) /\ id \in DOMAIN n.votes /\ n.votes[id].truncated
  <2>1. DOMAIN rd = RoundFields /\ DOMAIN rd.votes[id] = VoteFields
    BY <1>2 DEF RoundOK, VoteOK
  <2>2. /\ DOMAIN n.votes = DOMAIN rd.votes /\ n.votes[id].truncated /\ n.votes[id].conflicting
        /\ n.votes[id].hashes = rd.votes[id].hashes /\ n.truncated /\ n.roster = rd.roster
        /\ \A x \in DOMAIN rd.votes : x # id => n.votes[x] = rd.votes[x]
    BY <1>2, <2>1 DEF FlagVote, RoundFields, VoteFields
  <2>3. RoundKept(rd, n)
    <3>1. ASSUME NEW i \in DOMAIN rd.votes
          PROVE  /\ i \in DOMAIN n.votes /\ Range(rd.votes[i].hashes) \subseteq Range(n.votes[i].hashes)
                 /\ rd.votes[i].conflicting => n.votes[i].conflicting
                 /\ rd.votes[i].truncated => n.votes[i].truncated
      <4>1. CASE i = id
        BY <2>2, <4>1
      <4>2. CASE i # id
        BY <2>2, <4>2
      <4> QED BY <4>1, <4>2
    <3> QED BY <2>2, <3>1 DEF RoundKept
  <2> QED BY <1>2, <2>2, <2>3
<1> QED BY <1>1, <1>2

(* The round has the vote, or says that it dropped it.                     *)
Accounted(rd, v) ==
  Holds(rd, v) \/ (Crowded(rd) /\ v.addr \notin Voters(rd) \cup DOMAIN rd.roster)

(* The vote part of observeVoteLocked loses nothing, and files the vote or *)
(* flags the round that has no place for its voter.                        *)
LEMMA RecordVoteGrows ==
  ASSUME NEW b, BlockOK(b), NEW v \in Votes, v.round \in DOMAIN b.rounds,
         NEW c, c = RecordVote(b, v)
  PROVE  /\ BlockGrows(b, c)
         /\ Accounted(c.rounds[v.round], v)
<1> DEFINE r == v.round  rd == b.rounds[r]  id == <<v.addr, v.type>>
           vote == IF id \in DOMAIN rd.votes THEN rd.votes[id] ELSE NoVote
           flagged == [rd EXCEPT !.truncated = TRUE]
           full == FlagVote(rd, id)
           more == [rd EXCEPT !.votes = Put(@, id, AppendHash(vote, v.hash))]
<1>1. /\ RoundOK(rd) /\ v.hash \in BlockHashes
      /\ r \in DOMAIN b.rounds /\ IsFcn(b.rounds) /\ DOMAIN b = BlockFields
  BY DEF BlockOK, RoundsOK, BlockShape, Votes
<1>2. CASE ~AdmitsVoter(rd, v.addr)
  <2> DEFINE x == IF ~rd.truncated THEN b.revision + 1 ELSE b.revision
  <2>1. c = Replaced(b, r, flagged, x)
    BY SMTT(30), <1>1, <1>2 DEF Replaced, RecordVote, BlockFields
  <2>2. /\ RoundKept(rd, flagged) /\ flagged.votes = rd.votes /\ flagged.roster = rd.roster
        /\ flagged.truncated
    BY <1>1 DEF RoundKept, RoundOK, RoundFields
  <2>3. Accounted(flagged, v)
    <3> DEFINE X == Voters(rd) \ DOMAIN rd.roster
    <3>1. v.addr \notin Voters(rd) \cup DOMAIN rd.roster /\ ~(Cardinality(X) < UnknownLimit)
      BY <1>2 DEF AdmitsVoter
    <3>2. IsFiniteSet(Voters(rd)) /\ X \subseteq Voters(rd) /\ Voters(flagged) = Voters(rd)
      BY <1>1, <2>2 DEF RoundOK, Voters
    <3> HIDE DEF X, rd, flagged
    <3>3. IsFiniteSet(X) /\ Cardinality(X) <= Cardinality(Voters(rd))
      BY <3>2, FS_Subset
    <3>4. Cardinality(X) \in Nat /\ Cardinality(Voters(rd)) \in Nat
      BY <3>2, <3>3, FS_CardinalityType
    <3>5. Cardinality(Voters(rd)) >= UnknownLimit
      BY <3>1, <3>3, <3>4, LimitAssumption
    <3> QED BY <2>2, <3>1, <3>2, <3>5 DEF Accounted, Crowded
  <2> HIDE DEF flagged, x, r
  <2>4. BlockGrows(b, c) /\ c.rounds[r] = flagged
    BY <1>1, <2>1, <2>2, ReplacedGrows
  <2> QED BY <2>3, <2>4 DEF r
<1>3. CASE AdmitsVoter(rd, v.addr) /\ v.hash \in Range(vote.hashes)
  <2>1. c = b
    BY <1>3 DEF RecordVote
  <2>2. id \in DOMAIN rd.votes
    <3>1. Range(NoVote.hashes) = {}
      BY DEF NoVote, Range
    <3> QED BY <1>3, <3>1
  <2> QED BY <1>3, <2>1, <2>2, SameRoundsGrow DEF Holds, Accounted
<1>4. CASE /\ AdmitsVoter(rd, v.addr) /\ v.hash \notin Range(vote.hashes)
           /\ Len(vote.hashes) >= HashLimit
  <2> DEFINE x == IF ~vote.truncated \/ ~vote.conflicting \/ ~rd.truncated
                  THEN b.revision + 1 ELSE b.revision
  <2>1. c = Replaced(b, r, full, x)
    BY <1>1, <1>4 DEF Replaced, FlagVote, RecordVote, BlockFields
  <2>2. id \in DOMAIN rd.votes
    <3>1. NoVote.hashes = <<>> /\ Len(<<>>) = 0
      BY DEF NoVote
    <3> QED BY <1>4, <3>1, LimitAssumption
  <2>3. RoundKept(rd, full) /\ id \in DOMAIN full.votes /\ full.votes[id].truncated
    <3> HIDE DEF id, rd, r
    <3> QED BY <1>1, <2>2, VoteGrows
  <2> HIDE DEF full, x, r
  <2>4. BlockGrows(b, c) /\ c.rounds[r] = full
    BY <1>1, <2>1, <2>3, ReplacedGrows
  <2> QED BY <2>3, <2>4 DEF Holds, Accounted, r
<1>5. CASE /\ AdmitsVoter(rd, v.addr) /\ v.hash \notin Range(vote.hashes)
           /\ ~(Len(vote.hashes) >= HashLimit)
  <2> DEFINE x == b.revision + 1
  <2>1. c = Replaced(b, r, more, x)
    BY <1>1, <1>5 DEF Replaced, RecordVote, BlockFields
  <2>2. RoundKept(rd, more) /\ id \in DOMAIN more.votes /\ v.hash \in Range(more.votes[id].hashes)
    <3>1. IF id \in DOMAIN rd.votes THEN vote = rd.votes[id] ELSE vote = NoVote
      OBVIOUS
    <3> HIDE DEF id, rd, r, vote
    <3> QED BY <1>1, <3>1, VoteGrows
  <2> HIDE DEF more, x, r
  <2>3. BlockGrows(b, c) /\ c.rounds[r] = more
    BY <1>1, <2>1, <2>2, ReplacedGrows
  <2> QED BY <2>2, <2>3 DEF Holds, Accounted, r
<1> QED BY <1>2, <1>3, <1>4, <1>5

(* Neither does archiving a round, also when another is evicted for it.    *)
LEMMA AdmitsGrows ==
  ASSUME NEW b, BlockOK(b), NEW r, NEW c, Admits(b, c, r)
  PROVE  BlockGrows(b, c)
<1>1. CASE c = b
  BY <1>1, SameRoundsGrow
<1>2. CASE c # b
  <2>1. PICK m : RosterOK(m) /\ c = RoundAdded(b, r, m)
    BY <1>2 DEF Admits
  <2>2. r \in Rounds \cap Nat /\ r \notin DOMAIN b.rounds /\ r > b.evictedThrough
    BY <1>2 DEF Admits
  <2>3. \A x \in DOMAIN c.rounds : x # r => c.rounds[x] = b.rounds[x]
    BY <2>1, <2>2, RoundAddedOK
  <2> QED BY <2>2, <2>3, SameRoundsGrow
<1> QED BY <1>1, <1>2

(* One call after the other, if the second loses no round.                 *)
LEMMA GrowsTwice ==
  ASSUME NEW b, NEW c, NEW d, BlockGrows(b, c), BlockGrows(c, d), DOMAIN d.rounds = DOMAIN c.rounds
  PROVE  BlockGrows(b, d)
<1>1. ASSUME NEW r \in DOMAIN b.rounds \cap DOMAIN d.rounds
      PROVE  RoundKept(b.rounds[r], d.rounds[r])
  <2>1. PICK x, y, z : x = b.rounds[r] /\ y = c.rounds[r] /\ z = d.rounds[r]
    OBVIOUS
  <2>2. RoundKept(x, y) /\ RoundKept(y, z)
    BY <1>1, <2>1 DEF BlockGrows
  <2>3. ASSUME NEW i \in DOMAIN x.votes
        PROVE  /\ i \in DOMAIN z.votes
               /\ Range(x.votes[i].hashes) \subseteq Range(z.votes[i].hashes)
               /\ x.votes[i].conflicting => z.votes[i].conflicting
               /\ x.votes[i].truncated => z.votes[i].truncated
    <3>1. /\ i \in DOMAIN y.votes
          /\ Range(x.votes[i].hashes) \subseteq Range(y.votes[i].hashes)
          /\ x.votes[i].conflicting => y.votes[i].conflicting
          /\ x.votes[i].truncated => y.votes[i].truncated
      BY <2>2 DEF RoundKept
    <3>2. /\ i \in DOMAIN z.votes
          /\ Range(y.votes[i].hashes) \subseteq Range(z.votes[i].hashes)
          /\ y.votes[i].conflicting => z.votes[i].conflicting
          /\ y.votes[i].truncated => z.votes[i].truncated
      BY <2>2, <3>1 DEF RoundKept
    <3>3. Range(x.votes[i].hashes) \subseteq Range(z.votes[i].hashes)
      BY <3>1, <3>2
    <3> QED BY <3>1, <3>2, <3>3
  <2>4. (x.truncated => z.truncated) /\ (DOMAIN x.roster # {} => z.roster = x.roster)
    BY <2>2 DEF RoundKept
  <2> QED BY <2>1, <2>3, <2>4 DEF RoundKept
<1> QED BY <1>1 DEF BlockGrows

(* A call that changes the block of one height only.                       *)
LEMMA OneBlockGrows ==
  ASSUME NEW s, NEW u, NEW h,
         \A x \in DOMAIN u.archive : x # h => x \in DOMAIN s.archive /\ u.archive[x] = s.archive[x],
         h \in DOMAIN u.archive => BlockGrows(BlockAt(s, h), u.archive[h])
  PROVE  Grows(s, u)
<1>1. ASSUME NEW x \in DOMAIN s.archive \cap DOMAIN u.archive
      PROVE  BlockGrows(s.archive[x], u.archive[x])
  <2>1. CASE x = h
    BY <1>1, <2>1 DEF BlockAt
  <2>2. CASE x # h
    BY <1>1, <2>2, SameRoundsGrow
  <2> QED BY <2>1, <2>2
<1> QED BY <1>1 DEF Grows

(* The block of a height, also of one that is new, is in order.            *)
LEMMA BlockAtOK ==
  ASSUME NEW s, ArchiveOK(s), NEW h
  PROVE  BlockOK(BlockAt(s, h))
BY NewHeightOK DEF BlockAt, ArchiveOK

(* observeVoteLocked and observeRoundLocked up to the round's admission.   *)
LEMMA AdmitRoundGrows ==
  ASSUME NEW s, ArchiveOK(s), Inside(s), NEW h \in Heights, NEW r \in Rounds,
         NEW u, u = AdmitRound(s, h, r)
  PROVE  Grows(s, u) /\ (h \in DOMAIN u.archive => BlockGrows(BlockAt(s, h), u.archive[h]))
<1>1. /\ \A x \in DOMAIN u.archive : x # h => x \in DOMAIN s.archive /\ u.archive[x] = s.archive[x]
      /\ h \in DOMAIN u.archive => Admits(BlockAt(s, h), u.archive[h], r)
  BY AdmitRoundOK
<1>2. h \in DOMAIN u.archive => BlockGrows(BlockAt(s, h), u.archive[h])
  BY <1>1, BlockAtOK, AdmitsGrows
<1> QED BY <1>1, <1>2, OneBlockGrows

(* A call that then changes the block of the height.                       *)
LEMMA ThenBlockGrows ==
  ASSUME NEW s, ArchiveOK(s), Inside(s), NEW h \in Heights, NEW r \in Rounds,
         NEW w, w = AdmitRound(s, h, r), h \in DOMAIN w.archive,
         NEW c, BlockGrows(w.archive[h], c), DOMAIN c.rounds = DOMAIN w.archive[h].rounds,
         NEW u, u = SetBlock(w, h, c)
  PROVE  Grows(s, u) /\ DOMAIN u.archive = DOMAIN w.archive /\ u.archive[h] = c
<1>1. /\ ArchiveOK(w)
      /\ \A x \in DOMAIN w.archive : x # h => x \in DOMAIN s.archive /\ w.archive[x] = s.archive[x]
      /\ BlockGrows(BlockAt(s, h), w.archive[h])
  BY AdmitRoundOK, AdmitRoundGrows
<1>2. /\ DOMAIN u.archive = DOMAIN w.archive /\ u.archive[h] = c
      /\ \A x \in DOMAIN w.archive : x # h => u.archive[x] = w.archive[x]
  BY <1>1 DEF SetBlock, ArchiveOK, TrackerFields
<1>3. BlockGrows(BlockAt(s, h), c)
  <2> DEFINE b == BlockAt(s, h)  d == w.archive[h]
  <2>1. BlockGrows(b, d) /\ BlockGrows(d, c) /\ DOMAIN c.rounds = DOMAIN d.rounds
    BY <1>1
  <2> HIDE DEF b, d
  <2>2. BlockGrows(b, c)
    BY <2>1, GrowsTwice
  <2> QED BY <2>2 DEF b
<1>4. Grows(s, u)
  BY <1>1, <1>2, <1>3, OneBlockGrows
<1> QED BY <1>2, <1>4

(* observeVoteLocked, observeRoundLocked and archiveCommitLocked.          *)
LEMMA ObserveVoteGrows ==
  ASSUME NEW s, ArchiveOK(s), Inside(s), NEW v \in Votes, NEW u, u = ObserveVoteLocked(s, v)
  PROVE  Grows(s, u)
<1> DEFINE h == v.height  r == v.round  w == AdmitRound(s, h, r)  b == w.archive[h]
           c == RecordVote(b, v)
<1>1. h \in Heights /\ r \in Rounds
  BY DEF Votes
<1>2. CASE u = s
  BY <1>2, SameRoundsGrow DEF Grows
<1>3. CASE u = w
  <2> HIDE DEF h, r
  <2> QED BY <1>1, <1>3, AdmitRoundGrows
<1>4. CASE RetainsRound(w, h, r) /\ u = SetBlock(w, h, c)
  <2>1. h \in DOMAIN w.archive /\ r \in DOMAIN b.rounds
    BY <1>4 DEF RetainsRound, Retains
  <2>2. BlockOK(b)
    <3> HIDE DEF h, r, w
    <3>1. ArchiveOK(w)
      BY <1>1, AdmitRoundOK DEF w
    <3> QED BY <2>1, <3>1 DEF ArchiveOK
  <2>3. BlockGrows(b, c) /\ DOMAIN c.rounds = DOMAIN b.rounds
    <3> HIDE DEF b
    <3> QED BY <2>1, <2>2, RecordVoteOK, RecordVoteGrows DEF Touched
  <2> HIDE DEF h, r, w, c
  <2>4. w = AdmitRound(s, h, r)
    BY DEF w
  <2> QED BY <1>1, <1>4, <2>1, <2>3, <2>4, ThenBlockGrows DEF b
<1>5. \/ u = s \/ u = w
      \/ RetainsRound(w, h, r) /\ u = SetBlock(w, h, c)
  BY DEF ObserveVoteLocked, SetBlock
<1> QED BY <1>2, <1>3, <1>4, <1>5

(* The proposer of a round has no part in its votes.                       *)
LEMMA ObserveRoundGrows ==
  ASSUME NEW s, ArchiveOK(s), Inside(s), NEW h \in Heights, NEW r \in Rounds,
         NEW proposer \in Proposers, NEW u, u = ObserveRoundLocked(s, h, r, proposer)
  PROVE  Grows(s, u)
<1> DEFINE w == AdmitRound(s, h, r)  b == w.archive[h]  c == SetProposer(b, r, proposer)
<1>1. CASE u = s
  BY <1>1, SameRoundsGrow DEF Grows
<1>2. CASE u = w
  BY <1>2, AdmitRoundGrows
<1>3. CASE RetainsRound(w, h, r) /\ u = SetBlock(w, h, c)
  <2>1. h \in DOMAIN w.archive /\ r \in DOMAIN b.rounds
    BY <1>3 DEF RetainsRound, Retains
  <2>2. BlockOK(b)
    <3> HIDE DEF w
    <3>1. ArchiveOK(w)
      BY AdmitRoundOK DEF w
    <3> QED BY <2>1, <3>1 DEF ArchiveOK
  <2>3. BlockGrows(b, c) /\ DOMAIN c.rounds = DOMAIN b.rounds
    <3> HIDE DEF b
    <3>1. DOMAIN c.rounds = DOMAIN b.rounds
      BY <2>1, <2>2, SetProposerOK DEF Touched
    <3>2. \A x \in DOMAIN b.rounds :
            /\ c.rounds[x].votes = b.rounds[x].votes /\ c.rounds[x].truncated = b.rounds[x].truncated
            /\ c.rounds[x].roster = b.rounds[x].roster
      BY <2>1, <2>2 DEF SetProposer, BlockOK, BlockShape, BlockFields, RoundsOK, RoundOK, RoundFields
    <3> QED BY <3>1, <3>2, SameRoundsGrow
  <2> HIDE DEF w, c
  <2>4. w = AdmitRound(s, h, r)
    BY DEF w
  <2> QED BY <1>3, <2>1, <2>3, <2>4, ThenBlockGrows DEF b
<1>4. \/ u = s \/ u = w
      \/ RetainsRound(w, h, r) /\ u = SetBlock(w, h, c)
  BY DEF ObserveRoundLocked, SetBlock
<1> QED BY <1>1, <1>2, <1>3, <1>4

(* A commit notice changes no round.                                       *)
LEMMA ArchiveCommitGrows ==
  ASSUME NEW s, ArchiveOK(s), Inside(s), NEW h \in Heights, NEW hash \in BlockHashes,
         NEW u, u = ArchiveCommit(s, h, hash)
  PROVE  Grows(s, u)
<1> DEFINE w == CreateArchiveHeight(s, h)  b == w.archive[h]
<1>1. /\ ArchiveOK(w)
      /\ \A x \in DOMAIN w.archive :
           IF x \in DOMAIN s.archive THEN w.archive[x] = s.archive[x]
           ELSE x = h /\ w.archive[x] = NewArchivedHeight
  BY CreateArchiveHeightOK
<1>2. CASE u = s
  BY <1>2, SameRoundsGrow DEF Grows
<1>3. CASE u = w
  <2> HIDE DEF w
  <2> QED BY <1>1, <1>3, SameRoundsGrow DEF Grows
<1>4. CASE Retains(w, h) /\ u = SetBlock(w, h, Seal(b, hash))
  <2> HIDE DEF w
  <2>1. h \in DOMAIN w.archive /\ BlockOK(b)
    BY <1>1, <1>4 DEF Retains, ArchiveOK
  <2>2. Seal(b, hash).rounds = b.rounds
    <3> HIDE DEF b
    <3> QED BY <2>1 DEF Seal, BlockOK, BlockShape, BlockFields
  <2>3. /\ DOMAIN u.archive = DOMAIN w.archive /\ u.archive[h] = Seal(b, hash)
        /\ \A x \in DOMAIN w.archive : x # h => u.archive[x] = w.archive[x]
    BY <1>1, <1>4, <2>1 DEF SetBlock, ArchiveOK, TrackerFields
  <2>4. BlockGrows(BlockAt(s, h), u.archive[h])
    <3>1. b = BlockAt(s, h)
      BY <1>1, <2>1 DEF BlockAt
    <3> QED BY <2>2, <2>3, <3>1, SameRoundsGrow
  <2>5. \A x \in DOMAIN u.archive : x # h => x \in DOMAIN s.archive /\ u.archive[x] = s.archive[x]
    BY <1>1, <2>3
  <2> QED BY <2>4, <2>5, OneBlockGrows
<1>5. \/ u = s \/ u = w
      \/ Retains(w, h) /\ u = SetBlock(w, h, Seal(b, hash))
  BY DEF ArchiveCommit, Seal, SetBlock
<1> QED BY <1>2, <1>3, <1>4, <1>5

(* A validator set fills empty rosters, it changes no vote.                *)
LEMMA FillRostersGrows ==
  ASSUME NEW b, BlockOK(b), NEW m, NEW c, c = FillRosters(b, m)
  PROVE  BlockGrows(b, c)
<1>1. /\ DOMAIN c.rounds = DOMAIN b.rounds
      /\ \A r \in DOMAIN b.rounds :
           \/ c.rounds[r] = b.rounds[r]
           \/ DOMAIN b.rounds[r].roster = {} /\ c.rounds[r] = [b.rounds[r] EXCEPT !.roster = m]
  BY DEF FillRosters, BlockOK, BlockShape, BlockFields
<1>2. \A r \in DOMAIN b.rounds :
        \/ c.rounds[r] = b.rounds[r]
        \/ /\ c.rounds[r].votes = b.rounds[r].votes /\ c.rounds[r].truncated = b.rounds[r].truncated
           /\ DOMAIN b.rounds[r].roster = {}
  BY <1>1 DEF BlockOK, RoundsOK, RoundOK, RoundFields
<1> QED BY <1>2, SameRoundsGrow

(* SetValidators on the blocks of the archive.                             *)
LEMMA SetRosterGrows ==
  ASSUME NEW s, ArchiveOK(s), NEW m, NEW power, NEW u, u = SetRoster(s, m, power)
  PROVE  Grows(s, u)
<1>1. u.archive = [h \in DOMAIN s.archive |-> FillRosters(s.archive[h], m)]
  BY DEF SetRoster, ArchiveOK, TrackerFields
<1>2. ASSUME NEW h \in DOMAIN s.archive PROVE BlockGrows(s.archive[h], u.archive[h])
  <2>1. BlockOK(s.archive[h]) /\ u.archive[h] = FillRosters(s.archive[h], m)
    BY <1>1 DEF ArchiveOK
  <2> QED BY <2>1, FillRostersGrows
<1> QED BY <1>2 DEF Grows

(* The remaining calls change no round but for empty rosters.              *)
LEMMA NextGrows ==
  ASSUME TrackerInv, [Next]_vars
  PROVE  Grows(t, t')
<1>1. TrackerOK(t) /\ ArchiveOK(t) /\ Inside(t) /\ DOMAIN t = TrackerFields
  BY DEF TrackerInv, TrackerOK, ArchiveOK
<1>2. t'.archive = t.archive => Grows(t, t')
  BY SameRoundsGrow DEF Grows
<1>3. ASSUME NEW m \in Rosters, SetValidators(m) PROVE Grows(t, t')
  <2> DEFINE power == PowerOfAll(m, DOMAIN m)
  <2>1. t' = SetRoster(t, m, power)
    BY <1>3 DEF SetValidators, SetRoster
  <2> HIDE DEF power
  <2> QED BY <1>1, <2>1, SetRosterGrows
<1>4. ASSUME NEW h \in Heights, NEW r \in Rounds, NEW p \in Proposers, ObserveRound(h, r, p)
      PROVE  Grows(t, t')
  BY <1>1, <1>4, ObserveRoundGrows DEF ObserveRound
<1>5. ASSUME NEW v \in Votes, ObserveVote(v) PROVE Grows(t, t')
  BY <1>1, <1>5, ObserveVoteGrows DEF ObserveVote
<1>6. ASSUME NEW v \in Votes, IngestVote(v) PROVE Grows(t, t')
  <2>1. t' = IngestVoteLocked(t, v).tracker
    BY <1>6 DEF IngestVote
  <2>2. PICK w : t'.archive = w.archive /\ w = ObserveVoteLocked(t, v)
    BY <1>1, <2>1, IngestVoteOK
  <2>3. Grows(t, w)
    BY <1>1, <2>2, ObserveVoteGrows
  <2> QED BY <2>2, <2>3 DEF Grows
<1>7. ASSUME NEW h \in Heights, NEW r \in Rounds, MarkRoundAdvanced(h, r) PROVE Grows(t, t')
  <2>1. t' = Advance(t, h, r)
    BY <1>7 DEF MarkRoundAdvanced, Advance
  <2> QED BY <1>1, <1>2, <2>1, MarkRoundAdvancedOK
<1>8. ASSUME NEW h \in Heights, NEW hash \in BlockHashes, ResolveCommit(h, hash)
      PROVE  Grows(t, t')
  <2> DEFINE w == ArchiveCommit(t, h, hash)
  <2>1. t' = ResolveCommitLocked(t, h, hash)
    BY <1>8 DEF ResolveCommit
  <2>2. t'.archive = w.archive
    BY <1>1, <2>1, ResolveCommitOK
  <2>3. Grows(t, w)
    BY <1>1, ArchiveCommitGrows
  <2> HIDE DEF w
  <2> QED BY <2>2, <2>3 DEF Grows
<1>9. CASE UNCHANGED vars
  BY <1>2, <1>9 DEF vars
<1> QED BY <1>3, <1>4, <1>5, <1>6, <1>7, <1>8, <1>9 DEF Next

(* A vote for a round that is retained is filed there or accounted for.    *)
LEMMA VoteAccounted ==
  ASSUME NEW s, ArchiveOK(s), NEW v \in Votes, WellFormed(v),
         v.height \in DOMAIN s.archive, v.round \in DOMAIN s.archive[v.height].rounds
  PROVE  Accounted(ObserveVoteLocked(s, v).archive[v.height].rounds[v.round], v)
<1> DEFINE h == v.height  r == v.round  b == s.archive[h]  c == RecordVote(b, v)
           u == ObserveVoteLocked(s, v)
<1>1. BlockOK(b) /\ h > s.archiveEvictedThrough /\ DOMAIN s = TrackerFields
  BY DEF ArchiveOK
<1>2. r > b.evictedThrough
  BY <1>1 DEF BlockOK, RoundsBounded
<1>3. AdmitRound(s, h, r) = s /\ RetainsRound(s, h, r)
  <2>1. ArchiveHeight(s, h) = s
    BY DEF ArchiveHeight, CreateArchiveHeight
  <2>2. ArchiveRound(s, h, r) = s
    BY DEF ArchiveRound
  <2>3. AdmitRound(s, h, r) = s
    BY <2>1, <2>2 DEF AdmitRound
  <2> QED BY <1>1, <1>2, <2>3 DEF RetainsRound, Retains
<1>4. u.archive[h] = c
  BY <1>1, <1>3 DEF ObserveVoteLocked, TrackerFields
<1>5. Accounted(c.rounds[r], v)
  <2> HIDE DEF b, c
  <2>1. c = RecordVote(b, v) /\ r \in DOMAIN b.rounds
    BY DEF b, c
  <2> QED BY <1>1, <2>1, RecordVoteGrows
<1> HIDE DEF c, u
<1> QED BY <1>4, <1>5 DEF u

(* The archive stays within its limits on heights, rounds, hashes, unknown *)
(* voters and filed reports, with nothing at or below an eviction mark,    *)
(* and no vote for a retained round is dropped without a flag.             *)
THEOREM RetentionIsBounded == Spec => []WithinLimits
<1>1. DetectorInv => WithinLimits
  <2> SUFFICES ASSUME DetectorInv PROVE WithinLimits
    OBVIOUS
  <2>1. TrackerInv /\ ArchiveOK(t) /\ DetectorOK(t)
    BY DEF DetectorInv, TrackerInv, TrackerOK
  <2>2. RetentionBounded /\ EvidenceBounded
    BY <2>1, InvImplies DEF DetectorOK, HistoryOK
  <2>3. ASSUME NEW h \in DOMAIN t.archive, NEW r \in DOMAIN t.archive[h].rounds,
               NEW a \in Addresses, NEW type \in VoteTypes, NEW x \in BlockHashes,
               NEW v, v = [height |-> h, round |-> r, type |-> type, addr |-> a, hash |-> x],
               WellFormed(v)
        PROVE  Accounted(ObserveVoteLocked(t, v).archive[h].rounds[r], v)
    <3>1. h \in Heights /\ r \in Rounds
      BY <2>1 DEF ArchiveOK, BlockOK, RoundsBounded
    <3>2. v \in Votes /\ v.height = h /\ v.round = r
      BY <2>3, <3>1 DEF Votes
    <3> QED BY <2>1, <2>3, <3>2, VoteAccounted
  <2>4. NothingDroppedSilently
    BY <2>3 DEF NothingDroppedSilently, Accounted
  <2> QED BY <2>2, <2>4 DEF WithinLimits
<1> QED BY <1>1, DetectorStarts, DetectorNext, PTL DEF Spec

(* Readers that compare the two revisions miss no change and see no false  *)
(* one, commit evidence is final while it is retained, and no step moves   *)
(* an eviction mark back or rewrites a retained round.                     *)
THEOREM RevisionsTellTheTruth == Spec => ArchiveHistory
<1>1. TrackerInv /\ [Next]_vars =>
        EvidenceRevision /\ VersionIdentifiesReport /\ CommitEvidenceStable /\ EvidenceKept
  <2> SUFFICES ASSUME TrackerInv, [Next]_vars
               PROVE  /\ EvidenceRevision /\ VersionIdentifiesReport
                      /\ CommitEvidenceStable /\ EvidenceKept
    OBVIOUS
  <2>1. TrackerInv' /\ Continues(t, t') /\ Grows(t, t')
    BY NextOK, NextGrows
  <2>2. ArchiveOK(t) /\ ArchiveOK(t')
    BY <2>1 DEF TrackerInv, TrackerOK
  <2>3. EvidenceKept
    BY <2>1 DEF EvidenceKept, Continues, Later, Extends, Grows, BlockGrows
  <2> QED BY <2>1, <2>2, <2>3, ContinuesHistory
<1> QED BY <1>1, TrackerInvariant, PTL DEF Spec, ArchiveHistory

-----------------------------------------------------------------------------
(* The votes at a position *)

(* The archive takes no identity of this length.                           *)
Unkeepable(v) == v.addr \in Oversized \/ v.hash \in Oversized

(* The archive has the vote, or says that it dropped its hash or that more *)
(* validators voted than it has places for.                                *)
OnFile(s, v) ==
  \/ Unkeepable(v)
  \/ /\ v.height \in DOMAIN s.archive /\ v.round \in DOMAIN s.archive[v.height].rounds
     /\ LET rd == s.archive[v.height].rounds[v.round] IN Holds(rd, v) \/ Crowded(rd)

(* The detector counted a vote of the validator in the round.              *)
Seated(s, v) == KeyOf(v) \in DOMAIN s.rounds /\ v.addr \in DOMAIN s.rounds[KeyOf(v)].votes

(* The vote is on file, and counted unless its round is crowded.           *)
Tallied(s, v) ==
  /\ OnFile(s, v)
  /\ Unkeepable(v) \/ Crowded(s.archive[v.height].rounds[v.round]) \/ Seated(s, v)

(* The votes that the detector counted stay counted in an open round.      *)
VotesStay(s, u) ==
  \A k \in DOMAIN s.rounds :
     \/ k \in DOMAIN u.rounds /\ DOMAIN s.rounds[k].votes \subseteq DOMAIN u.rounds[k].votes
     \/ Closed(u, k)

(* A position above what is committed, and neither archived nor evicted    *)
(* beyond: what is on file there is kept.                                  *)
LEMMA FiledStays ==
  ASSUME NEW c \in Nat, NEW H \in Nat, NEW R \in Nat, c < H,
         NEW s, ArchiveOK(s), NEW u, ArchiveOK(u), Later(s, u), Grows(s, u), VotesStay(s, u),
         Within(u, c, H, R), NEW v \in Votes, v.height = H, v.round = R
  PROVE  (OnFile(s, v) => OnFile(u, v)) /\ (Tallied(s, v) => Tallied(u, v))
<1>1. /\ u.committedHeight < H /\ u.archiveEvictedThrough < H
      /\ u.committedHeight \in Nat /\ u.archiveEvictedThrough \in Nat
  BY DEF Within, ArchiveOK
<1>2. H \in DOMAIN u.archive =>
        BlockWithin(u.archive[H], R) /\ u.archive[H].evictedThrough \in Int
  BY DEF Within, ArchiveOK, BlockOK, BlockShape
<1> DEFINE old == s.archive[H].rounds[R]  new == u.archive[H].rounds[R]
<1>3. ASSUME H \in DOMAIN s.archive, R \in DOMAIN s.archive[H].rounds
      PROVE  /\ H \in DOMAIN u.archive /\ R \in DOMAIN u.archive[H].rounds
             /\ Holds(old, v) => Holds(new, v)
             /\ Crowded(old) => Crowded(new)
  <2>1. H \in DOMAIN u.archive
    BY <1>1, <1>3 DEF Later
  <2>2. R \in DOMAIN u.archive[H].rounds
    <3>1. R \in DOMAIN u.archive[H].rounds \/ R <= u.archive[H].evictedThrough
      BY <1>3, <2>1 DEF Later, Extends
    <3>2. u.archive[H].evictedThrough < R /\ u.archive[H].evictedThrough \in Int
      BY <1>2, <2>1 DEF BlockWithin
    <3> QED BY <3>1, <3>2
  <2>3. RoundKept(old, new)
    BY <1>3, <2>1, <2>2 DEF Grows, BlockGrows
  <2>4. RoundOK(new)
    BY <2>1, <2>2 DEF ArchiveOK, BlockOK, RoundsOK
  <2> HIDE DEF old, new
  <2> QED BY <2>1, <2>2, <2>3, <2>4, GrowthHolds
<1>4. Seated(s, v) => Seated(u, v)
  <2> DEFINE k == KeyOf(v)
  <2>1. k.height = H /\ k.round = R
    BY DEF KeyOf
  <2> HIDE DEF k
  <2>2. ~Closed(u, k)
    BY <1>1, <1>2, <2>1 DEF Closed, BlockWithin
  <2>3. k \in DOMAIN s.rounds /\ v.addr \in DOMAIN s.rounds[k].votes
          => k \in DOMAIN u.rounds /\ v.addr \in DOMAIN u.rounds[k].votes
    BY <2>2 DEF VotesStay
  <2> QED BY <2>3 DEF Seated, k
<1> HIDE DEF old, new
<1>5. OnFile(s, v) => OnFile(u, v)
  BY <1>3 DEF OnFile, old, new
<1>6. Tallied(s, v) => Tallied(u, v)
  BY <1>3, <1>4, <1>5 DEF Tallied, OnFile, old, new
<1> QED BY <1>5, <1>6

(* Live rounds that are not touched keep their votes.                      *)
LEMMA SameRoundsStay ==
  ASSUME NEW s, NEW u, SameRounds(s, u)
  PROVE  VotesStay(s, u)
BY DEF SameRounds, VotesStay

(* At a position that the callers have reached, archiving succeeds: the    *)
(* height and the round are neither evicted nor committed.                 *)
LEMMA AdmitRoundRetains ==
  ASSUME NEW c \in Nat, NEW H \in Heights \cap Nat, NEW R \in Rounds \cap Nat, c < H,
         NEW s, TrackerOK(s), Within(s, c, H, R), NEW u, u = AdmitRound(s, H, R)
  PROVE  RetainsRound(u, H, R)
<1> DEFINE w == ArchiveHeight(s, H)
<1>1. /\ ArchiveOK(s) /\ Inside(s) /\ CommitsKnown(s)
      /\ s.committedHeight \in Nat /\ s.committedHeight < H
      /\ s.archiveEvictedThrough \in Nat /\ s.archiveEvictedThrough < H
  BY DEF TrackerOK, ArchiveOK, Within
<1>2. /\ ArchiveOK(w) /\ Inside(w) /\ Within(w, c, H, R) /\ H \in DOMAIN w.archive
      /\ w.committedHeight = s.committedHeight /\ ~w.archive[H].committed
  <2>1. CASE H \in DOMAIN s.archive
    <3>1. w = s
      BY <2>1 DEF ArchiveHeight, CreateArchiveHeight
    <3>2. ~s.archive[H].committed
      BY <1>1, <2>1 DEF CommitsKnown
    <3> HIDE DEF w
    <3> QED BY <1>1, <2>1, <3>1, <3>2
  <2>2. CASE H \notin DOMAIN s.archive
    <3>1. w = CreateArchiveHeight(s, H)
      BY <1>1, <2>2 DEF ArchiveHeight
    <3> HIDE DEF w
    <3>2. HeightsAre(s, w, H)
      BY <1>1, <2>2, <3>1, CreateArchiveHeightIs
    <3>3. /\ ArchiveOK(w) /\ Inside(w)
          /\ H \in DOMAIN w.archive => w.archive[H] = NewArchivedHeight
      BY <1>1, <2>2, <3>1, CreateArchiveHeightOK
    <3>4. BlockWithin(NewArchivedHeight, R) /\ NewArchivedHeight.committed = FALSE
      BY DEF BlockWithin, NewArchivedHeight, NoEntries
    <3>5. Within(w, c, H, R)
      BY <1>1, <3>2, <3>3, <3>4, HeightsWithin
    <3>6. w.archiveEvictedThrough \in Nat /\ w.archiveEvictedThrough < H
      BY <3>3, <3>5 DEF ArchiveOK, Within
    <3>7. w.committedHeight = s.committedHeight /\ H \in DOMAIN w.archive
      <4> DEFINE all == DOMAIN s.archive \cup {H}  low == Min(all)
      <4>1. \/ DOMAIN w.archive = all
            \/ DOMAIN w.archive = all \ {low} /\ w.archiveEvictedThrough = low
        BY <3>2 DEF HeightsAre
      <4> HIDE DEF low
      <4> QED BY <3>2, <3>6, <4>1 DEF HeightsAre
    <3> QED BY <3>3, <3>4, <3>5, <3>7
  <2> QED BY <2>1, <2>2
<1>3. u = ArchiveRound(w, H, R)
  <2> HIDE DEF w
  <2>1. Retains(w, H)
    BY <1>2 DEF Retains, ArchiveOK
  <2> QED BY <2>1 DEF AdmitRound, w
<1> HIDE DEF w
<1> DEFINE b == w.archive[H]  m == w.defaultValidators  d == RoundAdded(b, R, m)
<1>4. /\ BlockOK(b) /\ BlockWithin(b, R) /\ RosterOK(m) /\ H > w.archiveEvictedThrough
      /\ b.evictedThrough \in Int
  BY <1>2 DEF ArchiveOK, Within, BlockOK, BlockShape
<1>5. CASE R \in DOMAIN b.rounds
  <2>1. u = w
    BY <1>3, <1>5 DEF ArchiveRound
  <2>2. R > b.evictedThrough
    BY <1>4, <1>5 DEF BlockOK, RoundsBounded
  <2> QED BY <1>2, <1>4, <1>5, <2>1, <2>2 DEF RetainsRound, Retains
<1>6. CASE R \notin DOMAIN b.rounds
  <2>1. R > b.evictedThrough
    BY <1>4 DEF BlockWithin
  <2>2. BlockOK(d) /\ Extends(b, d) /\ (R \in DOMAIN d.rounds \/ R <= d.evictedThrough)
    <3> HIDE DEF b, m
    <3> QED BY <1>4, <1>6, <2>1, RoundAddedOK
  <2>3. BlockWithin(d, R)
    <3> HIDE DEF b, m, d
    <3>1. Admits(b, d, R)
      BY <1>4, <1>6, <2>1 DEF Admits, d
    <3>2. Touched(d, d)
      BY <2>2, TouchesItself
    <3> QED BY <1>4, <3>1, <3>2, BlockStaysWithin
  <2> HIDE DEF d
  <2>4. R \in DOMAIN d.rounds /\ R > d.evictedThrough
    BY <2>2, <2>3 DEF BlockWithin, BlockOK, BlockShape
  <2> DEFINE x == SetBlock(w, H, d)
  <2>5. u = x \/ u = PruneDetectorRounds(x)
    <3>1. ~(R < 0 \/ R <= b.evictedThrough \/ R \in DOMAIN b.rounds
            \/ b.committed \/ H <= w.committedHeight)
      BY <1>1, <1>2, <1>4, <1>6, <2>1
    <3> QED BY <1>3, <3>1 DEF ArchiveRound, RoundAdded, SetBlock, d
  <2>6. /\ ArchiveOK(x) /\ DOMAIN x.archive = DOMAIN w.archive /\ x.archive[H] = d
        /\ x.archiveEvictedThrough = w.archiveEvictedThrough /\ x.rounds = w.rounds
    <3> HIDE DEF x
    <3> QED BY <1>2, <2>2, SetBlockOK DEF x
  <2> HIDE DEF x, b
  <2>7. u.archive = x.archive /\ u.archiveEvictedThrough = x.archiveEvictedThrough
    <3>1. CASE u = x
      BY <3>1
    <3>2. CASE u = PruneDetectorRounds(x)
      <4>1. DOMAIN x = TrackerFields /\ DOMAIN x.rounds \subseteq Keys
        BY <1>2, <2>6 DEF ArchiveOK, Inside
      <4> QED BY <3>2, <4>1, PruneIs
    <3> QED BY <2>5, <3>1, <3>2
  <2> QED BY <1>2, <1>4, <2>4, <2>6, <2>7 DEF RetainsRound, Retains
<1> QED BY <1>5, <1>6

(* There a vote is on file after observeVoteLocked.                        *)
LEMMA ObserveVoteFiles ==
  ASSUME NEW c \in Nat, NEW v \in Votes, WellFormed(v), c < v.height,
         NEW s, TrackerOK(s), Within(s, c, v.height, v.round),
         NEW u, u = ObserveVoteLocked(s, v)
  PROVE  OnFile(u, v)
<1> DEFINE H == v.height  R == v.round  w == AdmitRound(s, H, R)  b == w.archive[H]
           d == RecordVote(b, v)
<1>1. H \in Heights \cap Nat /\ R \in Rounds \cap Nat
  <2>1. v.height \in Heights /\ v.round \in Rounds
    BY DEF Votes
  <2>2. v.height > 0 /\ v.round >= 0
    BY DEF WellFormed, ValidRound
  <2>3. v.height \in Int /\ v.round \in Int
    BY <2>1, DomainAssumption
  <2> QED BY <2>1, <2>2, <2>3
<1>2. RetainsRound(w, H, R) /\ ArchiveOK(w)
  <2> HIDE DEF w, H, R
  <2>1. TrackerOK(s) /\ Within(s, c, H, R) /\ c < H
    BY DEF H, R
  <2>2. RetainsRound(w, H, R)
    BY <1>1, <2>1, AdmitRoundRetains DEF w
  <2>3. ArchiveOK(w)
    BY <1>1, <2>1, AdmitRoundOK DEF w, TrackerOK
  <2> QED BY <2>2, <2>3
<1>3. u = SetBlock(w, H, d)
  BY <1>2 DEF ObserveVoteLocked, SetBlock
<1> HIDE DEF w
<1>4. H \in DOMAIN w.archive /\ R \in DOMAIN b.rounds /\ BlockOK(b)
  BY <1>2 DEF RetainsRound, Retains, ArchiveOK
<1>5. Accounted(d.rounds[R], v) /\ R \in DOMAIN d.rounds
  <2> HIDE DEF b
  <2> QED BY <1>4, RecordVoteOK, RecordVoteGrows DEF Touched
<1> HIDE DEF d
<1>6. H \in DOMAIN u.archive /\ u.archive[H] = d
  BY <1>2, <1>3, <1>4 DEF SetBlock, ArchiveOK, TrackerFields
<1> QED BY <1>5, <1>6 DEF OnFile, Accounted

(* IngestVote does to the archive what observeVoteLocked does, counts in   *)
(* one live round at most, and counts the vote that it finds on file.      *)
LEMMA IngestVoteCounts ==
  ASSUME NEW s, TrackerOK(s), NEW v \in Votes, NEW w, w = ObserveVoteLocked(s, v),
         NEW u, u = IngestVoteLocked(s, v).tracker
  PROVE  /\ u.archive = w.archive /\ u.archiveEvictedThrough = w.archiveEvictedThrough
         /\ u.committedHeight = w.committedHeight
         /\ VotesStay(s, u)
         /\ OnFile(w, v) /\ v.height > w.committedHeight => Tallied(u, v)
<1> DEFINE k == KeyOf(v)
           rd == IF k \in DOMAIN w.rounds THEN w.rounds[k] ELSE NewRoundData(w)
           tallied == Tally(rd, v)
           fires == Triggers(tallied, v.type)
           judged == [tallied EXCEPT !.detected = @ \/ fires]
           skip == ~Archived(w, v) \/ v.height <= w.committedHeight \/ v.addr \in DOMAIN rd.votes
<1>1. Observed(s, w, v.height, v.round) /\ TrackerOK(w) /\ SameRounds(s, w)
  <2>1. Observed(s, w, v.height, v.round)
    BY ObserveVoteOK DEF TrackerOK
  <2> QED BY <2>1, ObservedOK DEF Observed
<1>2. k \in Keys /\ v.height \in Int /\ w.committedHeight \in Nat
  BY <1>1, DomainAssumption DEF KeyOf, Keys, Votes, TrackerOK, ArchiveOK
<1>3. CASE skip
  <2>1. u = w
    BY <1>3 DEF IngestVoteLocked
  <2>2. ASSUME OnFile(w, v), v.height > w.committedHeight PROVE Tallied(u, v)
    <3>1. CASE Archived(w, v)
      <4>1. v.addr \in DOMAIN rd.votes
        BY <1>2, <1>3, <2>2, <3>1
      <4>2. k \in DOMAIN w.rounds
        <5>1. DOMAIN NewRoundData(w).votes = {}
          BY SMTT(30) DEF NewRoundData, NoEntries
        <5> QED BY <4>1, <5>1
      <4> QED BY <2>1, <2>2, <4>1, <4>2 DEF Tallied, Seated
    <3>2. CASE ~Archived(w, v)
      BY <2>1, <2>2, <3>2 DEF OnFile, Tallied, Holds, Archived
    <3> QED BY <3>1, <3>2
  <2> QED BY <1>1, <2>1, <2>2, SameRoundsStay
<1>4. CASE ~skip
  <2>1. u = SetRound(w, k, judged)
    BY <1>4 DEF IngestVoteLocked, SetRound
  <2>2. DOMAIN judged.votes = DOMAIN rd.votes \cup {v.addr}
    <3>1. DOMAIN rd = LiveFields
      <4>1. CASE k \in DOMAIN w.rounds
        <5> HIDE DEF k
        <5> QED BY <1>1, <4>1 DEF TrackerOK, AllLive, LiveOK
      <4>2. CASE k \notin DOMAIN w.rounds
        BY <4>2 DEF NewRoundData, LiveFields
      <4> QED BY <4>1, <4>2
    <3> HIDE DEF rd, fires
    <3>2. DOMAIN tallied = LiveFields /\ tallied.votes = Put(rd.votes, v.addr, v.hash)
      BY <3>1 DEF Tally, LiveFields
    <3> HIDE DEF tallied
    <3>3. judged.votes = tallied.votes
      BY <3>2 DEF LiveFields
    <3> HIDE DEF judged
    <3> QED BY <3>2, <3>3 DEF Put
  <2> HIDE DEF judged, tallied, fires
  <2>3. /\ u.archive = w.archive /\ u.archiveEvictedThrough = w.archiveEvictedThrough
        /\ u.committedHeight = w.committedHeight
        /\ u.rounds = Put(w.rounds, k, judged)
    BY <1>1, <2>1 DEF SetRound, TrackerOK, ArchiveOK, TrackerFields
  <2>4. /\ u.rounds[k] = judged /\ DOMAIN u.rounds = DOMAIN w.rounds \cup {k}
        /\ \A x \in DOMAIN w.rounds : x # k => u.rounds[x] = w.rounds[x]
    <3> HIDE DEF k
    <3> QED BY <2>3 DEF Put
  <2>5. VotesStay(s, u)
    <3>1. ASSUME NEW x \in DOMAIN s.rounds, ~Closed(u, x)
          PROVE  x \in DOMAIN u.rounds /\ DOMAIN s.rounds[x].votes \subseteq DOMAIN u.rounds[x].votes
      <4>1. ~Closed(w, x)
        BY <2>3, <3>1 DEF Closed
      <4>2. x \in DOMAIN w.rounds /\ w.rounds[x] = s.rounds[x]
        BY <1>1, <3>1, <4>1 DEF SameRounds
      <4>3. CASE x = k
        BY <2>2, <2>4, <4>2, <4>3
      <4>4. CASE x # k
        <5> HIDE DEF k
        <5> QED BY <2>4, <4>2, <4>4
      <4> QED BY <4>3, <4>4
    <3> QED BY <3>1 DEF VotesStay
  <2>6. ASSUME OnFile(w, v) PROVE Tallied(u, v)
    <3>1. OnFile(u, v)
      BY <2>3, <2>6 DEF OnFile
    <3>2. v.addr \in DOMAIN u.rounds[k].votes
      <4> HIDE DEF rd, k
      <4> QED BY <2>2, <2>4
    <3> QED BY <2>4, <3>1, <3>2 DEF Tallied, Seated
  <2> QED BY <2>3, <2>5, <2>6
<1> QED BY <1>3, <1>4

(* SetValidators, MarkRoundAdvanced and ResolveCommit count no vote and    *)
(* lose none of an open round.                                             *)
LEMMA OthersStay ==
  ASSUME NEW s, TrackerOK(s), NEW u
  PROVE  /\ \A m, power : u = SetRoster(s, m, power) => VotesStay(s, u)
         /\ \A h, r : u = Advance(s, h, r) => VotesStay(s, u)
         /\ \A h \in Heights, hash \in BlockHashes :
              u = ResolveCommitLocked(s, h, hash) => VotesStay(s, u)
<1>1. /\ DOMAIN s = TrackerFields /\ DOMAIN s.rounds \subseteq Keys
      /\ \A k \in DOMAIN s.rounds : DOMAIN s.rounds[k] = LiveFields
  BY DEF TrackerOK, ArchiveOK, Inside, AllLive, LiveOK
<1>2. ASSUME NEW m, NEW power, u = SetRoster(s, m, power) PROVE VotesStay(s, u)
  <2>1. u.rounds = [k \in DOMAIN s.rounds |-> Reweigh(s.rounds[k], m)]
    BY <1>1, <1>2 DEF SetRoster, TrackerFields
  <2>2. ASSUME NEW k \in DOMAIN s.rounds PROVE u.rounds[k].votes = s.rounds[k].votes
    <3> DEFINE rd == s.rounds[k]
    <3>1. DOMAIN rd = LiveFields /\ u.rounds[k] = Reweigh(rd, m)
      BY <1>1, <2>1
    <3> HIDE DEF rd
    <3>2. Reweigh(rd, m).votes = rd.votes
      BY <3>1 DEF Reweigh, LiveFields
    <3> QED BY <3>1, <3>2 DEF rd
  <2> QED BY <2>1, <2>2 DEF VotesStay
<1>3. ASSUME NEW h, NEW r, u = Advance(s, h, r) PROVE VotesStay(s, u)
  <2>1. /\ DOMAIN u.rounds = DOMAIN s.rounds
        /\ \A k \in DOMAIN s.rounds : \/ u.rounds[k] = s.rounds[k]
                                      \/ u.rounds[k] = [s.rounds[k] EXCEPT !.advanced = TRUE]
    BY <1>1, <1>3 DEF Advance, TrackerFields
  <2>2. \A k \in DOMAIN s.rounds : u.rounds[k].votes = s.rounds[k].votes
    BY <1>1, <2>1 DEF LiveFields
  <2> QED BY <2>1, <2>2 DEF VotesStay
<1>4. ASSUME NEW h \in Heights, NEW hash \in BlockHashes, u = ResolveCommitLocked(s, h, hash)
      PROVE  VotesStay(s, u)
  <2> DEFINE w == ArchiveCommit(s, h, hash)
             kept == {k \in DOMAIN w.rounds : k.height >= h - HistorySize}
  <2>1. ArchiveOK(w) /\ Inside(w) /\ SameRounds(s, w)
    BY ArchiveCommitOK DEF TrackerOK
  <2>2. /\ u.rounds = [k \in kept |-> Resolve(w.rounds[k], k, h, hash)]
        /\ u.archive = w.archive /\ u.committedHeight = Larger(h, w.committedHeight)
        /\ u.archiveEvictedThrough = w.archiveEvictedThrough
    <3> HIDE DEF w
    <3>1. DOMAIN w = TrackerFields
      BY <2>1 DEF ArchiveOK
    <3> QED BY <1>4, <3>1 DEF ResolveCommitLocked, TrackerFields, w
  <2> HIDE DEF w
  <2>3. h \in Int /\ w.committedHeight \in Nat /\ HistorySize \in Nat
    BY <2>1, DomainAssumption, LimitAssumption DEF ArchiveOK
  <2>4. h <= u.committedHeight /\ w.committedHeight <= u.committedHeight
    BY <2>2, <2>3 DEF Larger
  <2>5. ASSUME NEW k \in DOMAIN s.rounds, ~Closed(u, k)
        PROVE  k \in DOMAIN u.rounds /\ u.rounds[k].votes = s.rounds[k].votes
    <3>1. k.height \in Int /\ u.committedHeight \in Int
      <4>1. k \in Keys
        BY <1>1
      <4>2. k.height \in Int
        BY <4>1, DomainAssumption DEF Keys
      <4> QED BY <2>2, <2>3, <4>2 DEF Larger
    <3>2. ~Closed(w, k)
      BY <2>2, <2>3, <2>4, <2>5, <3>1 DEF Closed
    <3>3. k \in DOMAIN w.rounds /\ w.rounds[k] = s.rounds[k]
      BY <2>1, <2>5, <3>2 DEF SameRounds
    <3>4. k \in kept
      BY <2>3, <2>4, <2>5, <3>1, <3>3 DEF Closed
    <3> HIDE DEF kept
    <3>5. u.rounds[k] = Resolve(s.rounds[k], k, h, hash) /\ k \in DOMAIN u.rounds
      BY <2>2, <3>3, <3>4
    <3>6. Resolve(s.rounds[k], k, h, hash).votes = s.rounds[k].votes
      <4> DEFINE rd == s.rounds[k]
      <4>1. DOMAIN rd = LiveFields
        BY <1>1
      <4> HIDE DEF rd
      <4>2. Resolve(rd, k, h, hash).votes = rd.votes
        BY <4>1 DEF Resolve, LiveFields
      <4> QED BY <4>2 DEF rd
    <3> QED BY <3>5, <3>6
  <2> QED BY <2>5 DEF VotesStay
<1> QED BY <1>2, <1>3, <1>4

(* The tracker stays within a position, and what is on file or counted at  *)
(* the position stays so.                                                  *)
Keeps(s, u, c, H, R) ==
  /\ Within(u, c, H, R)
  /\ \A v \in Votes : v.height = H /\ v.round = R /\ c < H =>
       (OnFile(s, v) => OnFile(u, v)) /\ (Tallied(s, v) => Tallied(u, v))

(* What the lemmas say of one call.                                        *)
LEMMA CallKeeps ==
  ASSUME NEW c \in Nat, NEW H \in Nat, NEW R \in Nat, NEW s, TrackerOK(s), NEW u, TrackerOK(u),
         Continues(s, u), Grows(s, u), VotesStay(s, u), Within(u, c, H, R)
  PROVE  Keeps(s, u, c, H, R)
<1>1. ArchiveOK(s) /\ ArchiveOK(u) /\ Later(s, u)
  BY DEF TrackerOK, Continues
<1>2. ASSUME NEW v \in Votes, v.height = H, v.round = R, c < H
      PROVE  (OnFile(s, v) => OnFile(u, v)) /\ (Tallied(s, v) => Tallied(u, v))
  BY <1>1, <1>2, FiledStays
<1> QED BY <1>2 DEF Keeps

(* Every call on what the callers have reached keeps it.                   *)
LEMMA VoteKeeps ==
  ASSUME NEW c \in Nat, NEW H \in Nat, NEW R \in Nat, TrackerOK(t), Within(t, c, H, R),
         NEW v \in Votes, UpTo(c, H, R, v.height, v.round) \/ ~WellFormed(v), ObserveVote(v)
  PROVE  Keeps(t, t', c, H, R)
<1>1. t' = ObserveVoteLocked(t, v) /\ ArchiveOK(t) /\ Inside(t)
  BY DEF ObserveVote, TrackerOK
<1>2. Observed(t, t', v.height, v.round) /\ Seen(t, t', v.height, 2) /\ Grows(t, t')
  BY <1>1, ObserveVoteOK, ObserveVoteSeen, ObserveVoteGrows
<1>3. TrackerOK(t') /\ Continues(t, t') /\ VotesStay(t, t')
  BY <1>2, ObservedOK, SameRoundsStay DEF Observed
<1>4. Within(t', c, H, R)
  <2>1. CASE UpTo(c, H, R, v.height, v.round)
    <3>1. v.height \in Heights /\ v.round \in Rounds
      BY DEF Votes
    <3> QED BY <1>1, <1>2, <2>1, <3>1, ObservedWithin
  <2>2. CASE ~WellFormed(v)
    BY <1>1, <2>2 DEF ObserveVoteLocked
  <2> QED BY <2>1, <2>2
<1> QED BY <1>2, <1>3, <1>4, CallKeeps

(* The report of a round.                                                  *)
LEMMA RoundKeeps ==
  ASSUME NEW c \in Nat, NEW H \in Nat, NEW R \in Nat, TrackerOK(t), Within(t, c, H, R),
         NEW h \in Heights, NEW r \in Rounds, NEW p \in Proposers, UpTo(c, H, R, h, r),
         ObserveRound(h, r, p)
  PROVE  Keeps(t, t', c, H, R)
<1>1. t' = ObserveRoundLocked(t, h, r, p) /\ ArchiveOK(t) /\ Inside(t)
  BY DEF ObserveRound, TrackerOK
<1>2. Observed(t, t', h, r) /\ Seen(t, t', h, 2) /\ Grows(t, t')
  BY <1>1, ObserveRoundOK, ObserveRoundSeen, ObserveRoundGrows
<1>3. TrackerOK(t') /\ Continues(t, t') /\ VotesStay(t, t')
  BY <1>2, ObservedOK, SameRoundsStay DEF Observed
<1>4. Within(t', c, H, R)
  BY <1>1, <1>2, ObservedWithin
<1> QED BY <1>2, <1>3, <1>4, CallKeeps

(* A vote for the detector, which counts it if it is on file.              *)
LEMMA IngestKeeps ==
  ASSUME NEW c \in Nat, NEW H \in Nat, NEW R \in Nat, TrackerOK(t), Within(t, c, H, R),
         NEW v \in Votes, UpTo(c, H, R, v.height, v.round), IngestVote(v)
  PROVE  /\ Keeps(t, t', c, H, R)
         /\ v.height = H /\ v.round = R /\ c < H /\ OnFile(t, v) => Tallied(t', v)
<1> DEFINE w == ObserveVoteLocked(t, v)
<1>1. t' = IngestVoteLocked(t, v).tracker /\ ArchiveOK(t) /\ Inside(t)
  BY DEF IngestVote, TrackerOK
<1>2. Observed(t, w, v.height, v.round) /\ Seen(t, w, v.height, 2) /\ Grows(t, w)
  BY <1>1, ObserveVoteOK, ObserveVoteSeen, ObserveVoteGrows
<1>3. /\ t'.archive = w.archive /\ t'.archiveEvictedThrough = w.archiveEvictedThrough
      /\ t'.committedHeight = w.committedHeight /\ VotesStay(t, t')
      /\ OnFile(w, v) /\ v.height > w.committedHeight => Tallied(t', v)
  <2> HIDE DEF w
  <2>1. w = ObserveVoteLocked(t, v)
    BY DEF w
  <2> QED BY <1>1, <2>1, IngestVoteCounts
<1> HIDE DEF w
<1>4. TrackerOK(w) /\ Continues(t, w) /\ VotesStay(t, w)
  BY <1>2, ObservedOK, SameRoundsStay DEF Observed
<1>5. TrackerOK(t') /\ Continues(t, t')
  BY <1>1, IngestVoteOK
<1>6. Within(w, c, H, R)
  <2>1. v.height \in Heights /\ v.round \in Rounds
    BY DEF Votes
  <2> QED BY <1>1, <1>2, <2>1, ObservedWithin
<1>7. Within(t', c, H, R) /\ Grows(t, t')
  BY <1>2, <1>3, <1>6 DEF Within, Grows
<1>8. Keeps(t, t', c, H, R)
  BY <1>3, <1>5, <1>7, CallKeeps
<1>9. ASSUME v.height = H, v.round = R, c < H, OnFile(t, v)
      PROVE  Tallied(t', v)
  <2>1. Keeps(t, w, c, H, R)
    BY <1>2, <1>4, <1>6, CallKeeps
  <2>2. OnFile(w, v)
    BY <1>9, <2>1 DEF Keeps
  <2>3. w.committedHeight \in Nat /\ w.committedHeight <= c
    BY <1>4, <1>6 DEF TrackerOK, ArchiveOK, Within
  <2>4. v.height > w.committedHeight
    BY <1>9, <2>3
  <2> QED BY <1>3, <2>2, <2>4
<1> QED BY <1>8, <1>9

(* The remaining calls; a commit notice is for a height that is committed. *)
LEMMA OthersKeep ==
  ASSUME NEW c \in Nat, NEW H \in Nat, NEW R \in Nat, TrackerOK(t), Within(t, c, H, R)
  PROVE  /\ \A m \in Rosters : SetValidators(m) => Keeps(t, t', c, H, R)
         /\ \A h, r : MarkRoundAdvanced(h, r) => Keeps(t, t', c, H, R)
         /\ \A h \in Heights, hash \in BlockHashes :
              h <= c /\ ResolveCommit(h, hash) => Keeps(t, t', c, H, R)
         /\ t' = t => Keeps(t, t', c, H, R)
<1>1. ArchiveOK(t) /\ Inside(t) /\ DOMAIN t = TrackerFields
  BY DEF TrackerOK, ArchiveOK
<1>2. ASSUME NEW m \in Rosters, SetValidators(m) PROVE Keeps(t, t', c, H, R)
  <2> DEFINE power == PowerOfAll(m, DOMAIN m)
  <2>1. RosterOK(m)
    BY RosterAssumption DEF RosterOK
  <2>2. t' = SetRoster(t, m, power)
    BY <1>2 DEF SetValidators, SetRoster
  <2> HIDE DEF power
  <2>3. /\ TrackerOK(t') /\ Continues(t, t')
        /\ \A h \in DOMAIN t.archive : Touched(t.archive[h], t'.archive[h])
    BY <2>1, <2>2, SetValidatorsOK
  <2>4. Grows(t, t') /\ VotesStay(t, t')
    BY <1>1, <2>2, SetRosterGrows, OthersStay
  <2>5. /\ DOMAIN t'.archive = DOMAIN t.archive /\ t'.committedHeight = t.committedHeight
        /\ t'.archiveEvictedThrough = t.archiveEvictedThrough
    BY <1>1, <2>2 DEF SetRoster, TrackerFields
  <2>6. Within(t', c, H, R)
    BY <2>3, <2>5, TouchedWithin
  <2> QED BY <2>3, <2>4, <2>6, CallKeeps
<1>3. ASSUME NEW h, NEW r, MarkRoundAdvanced(h, r) PROVE Keeps(t, t', c, H, R)
  <2>1. t' = Advance(t, h, r)
    BY <1>3 DEF MarkRoundAdvanced, Advance
  <2>2. TrackerOK(t') /\ Continues(t, t') /\ t'.archive = t.archive
    BY <2>1, MarkRoundAdvancedOK
  <2>3. /\ t'.committedHeight = t.committedHeight
        /\ t'.archiveEvictedThrough = t.archiveEvictedThrough
    BY <1>1, <2>1 DEF Advance, TrackerFields
  <2>4. Within(t', c, H, R) /\ Grows(t, t')
    BY <2>2, <2>3, SameRoundsGrow DEF Within, Grows
  <2>5. VotesStay(t, t')
    BY <2>1, OthersStay
  <2> QED BY <2>2, <2>4, <2>5, CallKeeps
<1>4. ASSUME NEW h \in Heights, NEW hash \in BlockHashes, h <= c, ResolveCommit(h, hash)
      PROVE  Keeps(t, t', c, H, R)
  <2> DEFINE w == ArchiveCommit(t, h, hash)
  <2>1. t' = ResolveCommitLocked(t, h, hash)
    BY <1>4 DEF ResolveCommit
  <2>2. TrackerOK(t') /\ Continues(t, t') /\ t'.archive = w.archive
    BY <2>1, ResolveCommitOK
  <2>3. Grows(t, w)
    BY <1>1, ArchiveCommitGrows
  <2> HIDE DEF w
  <2>4. Grows(t, t')
    BY <2>2, <2>3 DEF Grows
  <2>5. VotesStay(t, t') /\ Within(t', c, H, R)
    BY <1>4, <2>1, OthersStay, CommitWithin
  <2> QED BY <2>2, <2>4, <2>5, CallKeeps
<1>5. ASSUME t' = t PROVE Keeps(t, t', c, H, R)
  BY <1>5 DEF Keeps
<1> QED BY <1>2, <1>3, <1>4, <1>5

=============================================================================
