SPECIFICATION Spec
CONSTANTS
  Limit = 2
  MaxEC = 4
  WearEnd = 6
  None = None
INVARIANTS TypeOK HealthIsTrue
PROPERTY ChipIsFoundOnce
