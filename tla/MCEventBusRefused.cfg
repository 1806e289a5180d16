CONSTANTS
  p1 = p1
  p2 = p2
  i1 = i1
  k1 = k1
  k2 = k2
  Publishers = {p1, p2}
  Subscribers = {i1}
  Kinds = {k1}
  Wants <- EveryKind
  BufCap = 1
  MaxEvents = 3
SPECIFICATION BusSpec
INVARIANTS NewEventKept
CHECK_DEADLOCK FALSE
