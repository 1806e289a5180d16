CONSTANTS
  N = 2
  MaxHead = 2
  status = status
  fallback = fallback
  roster = roster
  Callers = {status, fallback, roster}
  RosterCallers = {roster}
  Trip = 2
  PerPage = 1
  SetAt <- MCSetAt
SPECIFICATION MCSpec
INVARIANTS EveryEndpointTried RosterSound
PROPERTIES LiveAgain CallsSucceedAgain
CHECK_DEADLOCK FALSE
