CONSTANTS
  a1 = a1
  a2 = a2
  a3 = a3
  A = A
  B = B
  Long = Long
  Nil = Nil
  NoProposer = NoProposer
  Oversized = {Long}
  Heights <- MCHeights
  Rounds <- MCRounds
  Addresses = {a1, a2, a3}
  Hashes = {A, B, Long}
  Proposers = {NoProposer, a1}
  VoteTypes = {"precommit"}
  Rosters <- MCRosters
  MaxRound = 2
  HistorySize = 2
  RoundLimit = 1
  HashLimit = 2
  UnknownLimit = 1
  ThresholdPct = 5
  IncludePrevotes = FALSE
SPECIFICATION MCSpec
INVARIANTS DetectorSound WithinLimits ReportExact OneAlertPerRound
PROPERTIES ArchiveHistory ImplementsArchive
