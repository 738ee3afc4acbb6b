SPECIFICATION Spec
CONSTANTS
  Slots = {1, 2}
  TypesAt <- MCTypesAt
  Minutes = {1, 25, 30}
  Spaces = {0, 1, 40, 8192, 8195}
  UShort = 8192
  ULongLong = 100000
  MinMinutes = 25
  Reserve = 30
  ReserveMinutes = 60
  None = None
INVARIANTS TypeOK MediaKeepTheirWord OfferHasPath
PROPERTY OfferIsHonoured
