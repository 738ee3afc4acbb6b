\* The system may stop: nobody has to call, and the daemon may be gone.
CONSTANTS
  Main = Main
  Servers = {s}
  c1 = c1
  c2 = c2
  CallsOf <- MCCallsOf
  Clients = {c1, c2}
  Devices = {card}
  CallOrder <- MCCallOrder
  None = None
SPECIFICATION FairSpec
INVARIANTS TypeOK AnnouncedIsOnItsWay HeardOnce HeardIsListed CrashNeedsUnsetPointer NoCallIsForgotten WaitingIsForTheBusOnly
PROPERTIES ImplementsDeviceTable CallsReturn AnnouncedIsHeard
CHECK_DEADLOCK FALSE
