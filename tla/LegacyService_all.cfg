SPECIFICATION ServiceSpec
CONSTANTS
  SocketSize = 2
  None = None
  Sizes = {5, 9}
  Requests = {4, 7}
  ConfMax = 6
  DefaultMax = 4
  UShort = 8
  Events = 5
INVARIANTS ServiceTypeOK LengthFits GrantsAreTrue
