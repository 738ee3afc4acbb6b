\* The system may stop: a cancelled monitor can keep the mutex for ever.
CONSTANTS
  disk = disk
  card = card
  emmc = emmc
  Paths = {1}
  Objects = {card, emmc}
  TypeOf <- MCTypeOf
  Clients = {c1}
  Workers = {w1, w2}
  Hotplug = Hotplug
  None = None
SPECIFICATION FairSpec
INVARIANT ThreadsWaitAtLocksOnly
PROPERTY CallsReturn
CHECK_DEADLOCK FALSE
