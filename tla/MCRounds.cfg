CONSTANTS
  Nothing = Nothing
  r1 = r1
  r2 = r2
  Readers = {r1, r2}
  Heights = {1, 2}
  Requests <- MCRequests
  HistorySize = 1
  Jumps = {1}
  Watched = {r1}
  Seals = {0, 2}
  Builders = 1
  LaneLimit <- MCLaneLimit
  MaxEntries = 2
  MaxVariants = 1
  CacheBytes = 4
  ReportSize = 2
  VariantSize = 1
  MaxEvidence = 3
  MaxCatalogue = 2
SPECIFICATION MCSpec
INVARIANTS ChargeExact SingleFlight RevisionIdentifies
PROPERTIES ImplementsService
