\* The system may stop: a cancelled monitor can keep the mutex for ever.
CONSTANTS
  disk = disk
  card = card
  emmc = emmc
  Paths = {1, 2}
  Objects = {disk, emmc}
  TypeOf <- MCTypeOf
  Clients = {c1, c2}
  Workers = {w1, w2}
  Hotplug = Hotplug
  None = None
SPECIFICATION Spec
INVARIANTS TypeOK LoopsTouchLiveObjects ListenersKnowWhatLives OneMonitorIsMeantToRun OrphanedByBlockingMedia NobodyWaitsInVain
PROPERTY ImplementsDeviceTable
CHECK_DEADLOCK FALSE
