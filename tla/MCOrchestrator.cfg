CONSTANTS
  a1 = a1
  a2 = a2
  A = A
  B = B
  Nil = Nil
  NoProposer = NoProposer
  Heights = {1, 2}
  Rounds = {0, 1}
  Steps = {1, 3}
  Addresses = {a1, a2}
  Hashes = {A, B}
  VoteTypes = {"precommit"}
  MaxRound = 2
  BlockHistoryLimit = 2
  Oversized = {}
  Rosters <- SingleOrBoth
  HistorySize = 1
  RoundLimit = 1
  HashLimit = 1
  UnknownLimit = 1
  ThresholdPct = 5
  IncludePrevotes = FALSE
  Events <- AllEvents
  StatusHeights = {1, 2}
  RosterReplies <- RostersAtOne
  RoundReplies <- SecondRound
  Canonical <- CanonicalA
  QueueLimit = 1
SPECIFICATION MCSpec
INVARIANTS TrackerBehindDashboard DisplayedIsAccounted
PROPERTIES ImplementsDashboard
