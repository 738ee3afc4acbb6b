SPECIFICATION FairSpec
CONSTANTS
  SocketSize = 3
  None = None
INVARIANTS TypeOK ScriptsTakeTurns OfferedIsGood PresenceFollowsSlot MountedUnlessOverlapped HandlersWaitForTheLockOnly
PROPERTY HandlersFinish
