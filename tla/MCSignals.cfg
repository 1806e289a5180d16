CONSTANTS
  a1 = a1
  a2 = a2
  A = A
  B = B
  Nil = Nil
  NoProposer = NoProposer
  Heights = {1}
  Rounds = {0}
  Steps = {1, 3}
  Addresses = {a1}
  Hashes = {A, B}
  VoteTypes = {"precommit"}
  MaxRound = 2
  BlockHistoryLimit = 2
  Oversized = {}
  Rosters <- Single
  HistorySize = 1
  RoundLimit = 1
  HashLimit = 1
  UnknownLimit = 1
  ThresholdPct = 5
  IncludePrevotes = FALSE
  Events <- Updates
  StatusHeights = {1}
  RosterReplies <- RosterAtOne
  RoundReplies <- FirstRound
  Canonical <- CanonicalA
  QueueLimit = 1
  p1 = p1
  p2 = p2
  i1 = i1
  k1 = k1
  k2 = k2
  Publishers = {p1, p2}
  Subscribers = {i1}
  Kinds = {k1, k2}
  Wants <- OneKind
  BufCap = 2
  MaxEvents = 3
SPECIFICATION SignalSpec
INVARIANTS NoPanic Delivery
PROPERTIES UpdateRefreshes PublishReturns
CHECK_DEADLOCK FALSE
