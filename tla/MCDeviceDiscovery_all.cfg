SPECIFICATION FairSpec
CONSTANTS
  card = card
  disk = disk
  emmc = emmc
  stick = stick
  flash = flash
  Paths = {1, 2, 3}
  Devices = {card, disk, emmc, stick, flash}
  KindOf <- MCKindOf
  Takes <- MCTakes
  EmmcNode = 1
  SocketSize = 2
  UdevdSize = 1
  None = None
INVARIANTS TypeOK RightWhenQuiet EventsAreWaitedForOnly
PROPERTY CatchesUp
CHECK_DEADLOCK FALSE
