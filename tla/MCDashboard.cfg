CONSTANTS
  a1 = a1
  a2 = a2
  Heights <- MCHeights
  Rounds <- MCRounds
  Steps = {1, 3}
  Addresses = {a1, a2}
  Hashes = {A}
  Nil = Nil
  NoProposer = NoProposer
  VoteTypes = {"precommit"}
  ValidatorSets = {{a1}, {a1, a2}}
  MaxRound = 1
  BlockHistoryLimit = 2
  BusCap = 1
  N = 3
  MaxHead = 2
  Chains = {"ours", "other"}
  AppHashes = {"same", "fork"}
SPECIFICATION MCSpec
INVARIANTS TypeOK ActiveAboveCommitted DisplayIsCurrent BlocksOrdered ViewOfOneRound ViewAgrees ComparisonSound
PROPERTIES NeverBackwards ViewNeverBackwards
