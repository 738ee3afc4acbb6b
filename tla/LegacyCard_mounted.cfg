SPECIFICATION Spec
CONSTANTS
  SocketSize = 3
  None = None
INVARIANT MountedIsReported
