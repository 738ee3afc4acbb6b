SPECIFICATION Spec
CONSTANTS
  card = card
  disk = disk
  emmc = emmc
  stick = stick
  flash = flash
  Paths = {1, 2, 3}
  Devices = {card}
  KindOf <- MCKindOf
  Takes <- MCTakes
  EmmcNode = 1
  SocketSize = 2
  UdevdSize = 2
  None = None
INVARIANT GoneIsRemoved
CHECK_DEADLOCK FALSE
