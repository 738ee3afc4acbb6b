CONSTANTS
  Main = Main
  Servers = {s}
  c1 = c1
  c2 = c2
  CallsOf <- MCCallsOf
  Clients = {c1, c2}
  Devices = {card}
  CallOrder <- MCCallOrder
  None = None
SPECIFICATION Spec
INVARIANT UnfitIsAnnounced
CHECK_DEADLOCK FALSE
