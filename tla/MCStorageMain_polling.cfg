\* The system may stop: a cancelled monitor can keep the mutex for ever.
CONSTANTS
  disk = disk
  card = card
  emmc = emmc
  Paths = {1}
  Objects = {disk, emmc}
  TypeOf <- MCTypeOf
  Clients = {c1}
  Workers = {w1, w2}
  Hotplug = Hotplug
  None = None
SPECIFICATION FairSpec
PROPERTY PollingGoesOn
CHECK_DEADLOCK FALSE
