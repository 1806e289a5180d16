CONSTANTS
  a1 = a1
  a2 = a2
  A = A
  B = B
  Nil = Nil
  NoProposer = NoProposer
  Heights = {1}
  Rounds = {0}
  Steps = {1, 3}
  Addresses = {a1, a2}
  Hashes = {A, B}
  VoteTypes = {"precommit"}
  MaxRound = 2
  BlockHistoryLimit = 2
  Oversized = {}
  Rosters <- SingleOrBoth
  HistorySize = 1
  RoundLimit = 1
  HashLimit = 2
  UnknownLimit = 1
  ThresholdPct = 5
  IncludePrevotes = FALSE
  Events <- Conflicting
  StatusHeights = {}
  RosterReplies <- RosterAtOne
  RoundReplies <- FirstRound
  Canonical <- CanonicalA
  QueueLimit = 1
SPECIFICATION ConflictSpec
INVARIANTS FirstObservationAgreement
