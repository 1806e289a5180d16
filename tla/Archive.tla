------------------------------- MODULE Archive -------------------------------
(***************************************************************************)
(* What the investigation archive of the divergence tracker promises to    *)
(* its readers (src/internal/divergence/archive.go): the heights retained, *)
(* and for each of them a revision of its evidence, how far its commit is  *)
(* known and how many of its rounds were evicted.  Module Tracker          *)
(* implements this specification; modules RoundsService and RoundsCache    *)
(* read the archive through it.                                            *)
(*                                                                         *)
(* seal is 0 until the height is committed, 1 when its commit is known and *)
(* the block's hash is not, 2 when the hash is known.                      *)
(***************************************************************************)
EXTENDS Integers, FiniteSets, FiniteSetsExt, Functions

CONSTANTS
  Heights,       \* heights that are reported or asked for
  HistorySize,   \* Config.HistorySize
  Jumps,         \* by how much one call may raise an evidence revision
  Seals          \* what a commit notice may say: see Commit

ASSUME ArchiveAssumption ==
  /\ Heights \subseteq Int /\ HistorySize \in Nat \ {0} /\ Jumps \subseteq Nat \ {0}
  /\ Seals \subseteq 0..2

VARIABLES
  archive,           \* the retained heights, as [evidence, seal, lost]
  archiveLatest,     \* the highest height ever retained
  evictedThrough,    \* the highest height evicted
  committedHeight,   \* the highest height known as committed
  catalogue          \* revision of everything derived from more than one height

archiveVars == <<archive, archiveLatest, evictedThrough, committedHeight, catalogue>>

Larger(a, b) == IF a > b THEN a ELSE b

Held == DOMAIN archive
NewHeight == [evidence |-> 1, seal |-> 0, lost |-> 0]
BlockAt(h) == IF h \in Held THEN archive[h] ELSE NewHeight

(* archiveHeightLocked and createArchiveHeightLocked refuse a height that  *)
(* was evicted.                                                            *)
MayHold(h) == h \in Held \/ (h > 0 /\ h > evictedThrough)

(* Height h is retained as b; if it is new the oldest height makes room.   *)
Retain(h, b) ==
  LET grown == [x \in Held \cup {h} |-> IF x = h THEN b ELSE archive[x]]
      oldest == Min(DOMAIN grown)
      over == Cardinality(DOMAIN grown) > HistorySize
  IN /\ archive' = IF over THEN Restrict(grown, DOMAIN grown \ {oldest}) ELSE grown
     /\ evictedThrough' = IF over THEN oldest ELSE evictedThrough
     /\ archiveLatest' = Larger(h, archiveLatest)

New(h) == IF h \in Held THEN 0 ELSE 1

(* ObserveRound and ObserveVote: n changes of the evidence, of which at    *)
(* most one evicts a round.  A committed height gains no round, and the    *)
(* first round of a height evicts none.                                    *)
Observe(h, n, lost) ==
  LET b == BlockAt(h) IN
  /\ MayHold(h) /\ (h \in Held \/ h > committedHeight)
  /\ lost > 0 => h \in Held /\ b.seal = 0 /\ h > committedHeight
  /\ Retain(h, [b EXCEPT !.evidence = @ + n, !.lost = @ + lost])
  /\ catalogue' = catalogue + New(h)
  /\ UNCHANGED committedHeight

(* SetValidators fills the rosters of rounds that had none.                *)
FillRosters(n) ==
  /\ archive' = [h \in Held |-> [archive[h] EXCEPT !.evidence = @ + n[h]]]
  /\ UNCHANGED <<archiveLatest, evictedThrough, committedHeight, catalogue>>

(* Mutant: the catalogue revision does not move with the committed height. *)
Commit_Silent(h, seal) ==
  LET b == BlockAt(h)
      files == seal > 0 /\ MayHold(h)
      sealed == [b EXCEPT !.seal = seal, !.evidence = @ + 1]
  IN /\ IF files THEN Retain(h, IF b.seal < seal THEN sealed ELSE b)
        ELSE UNCHANGED <<archive, archiveLatest, evictedThrough>>
     /\ committedHeight' = Larger(h, committedHeight)
     /\ catalogue' = catalogue + (IF files THEN New(h) ELSE 0)

(* ResolveCommit with a hash (seal 2), without one (1) or with one that is *)
(* too long (0).  A notice that says nothing new leaves the block alone.   *)
Commit(h, seal) ==
  LET b == BlockAt(h)
      files == seal > 0 /\ MayHold(h)
      sealed == [b EXCEPT !.seal = seal, !.evidence = @ + 1]
  IN /\ IF files THEN Retain(h, IF b.seal < seal THEN sealed ELSE b)
        ELSE UNCHANGED <<archive, archiveLatest, evictedThrough>>
     /\ committedHeight' = Larger(h, committedHeight)
     /\ catalogue' = catalogue + (IF files THEN New(h) ELSE 0)
                               + (IF h > committedHeight THEN 1 ELSE 0)

ArchiveInit ==
  /\ archive = [h \in {} |-> NewHeight]
  /\ archiveLatest = 0 /\ evictedThrough = 0 /\ committedHeight = 0 /\ catalogue = 0

(* A late, repeated or malformed observation.                              *)
ObserveNothing == UNCHANGED archiveVars

ArchiveNext ==
  \/ ObserveNothing
  \/ \E h \in Heights, n \in Jumps, lost \in {0, 1} : Observe(h, n, lost)
  \/ \E n \in [Held -> Jumps \cup {0}] : FillRosters(n)
  \/ \E h \in Heights, seal \in Seals : Commit(h, seal)

ArchiveSpec == ArchiveInit /\ [][ArchiveNext]_archiveVars

-----------------------------------------------------------------------------
(* InvestigationVersion: the header of one height and the two revisions    *)
(* that go with it.                                                        *)
Statuses == {"evicted", "not_observed", "committed", "passed", "live"}

Status(h) ==
  IF h \notin Held THEN IF h > 0 /\ h <= evictedThrough THEN "evicted" ELSE "not_observed"
  ELSE IF archive[h].seal > 0 THEN "committed"
  ELSE IF h < archiveLatest \/ h <= committedHeight THEN "passed"
  ELSE "live"

Version(h) ==
  [found |-> h \in Held,
   evidence |-> IF h \in Held THEN archive[h].evidence ELSE 0,
   seal |-> IF h \in Held THEN archive[h].seal ELSE 0,
   lost |-> IF h \in Held THEN archive[h].lost ELSE 0,
   catalogue |-> catalogue, status |-> Status(h), retained |-> Held]
=============================================================================
