SPECIFICATION ConfigSpec
CONSTANTS
  None = "none"
  Typed <- MCTyped
  Starter <- MCStarter
  InitialFiles <- MCInitialFiles
  MaxProfiles = 2
  MaxWindows = 2
  MaxOps = 6
  MaxFaults = 1
CHECK_DEADLOCK FALSE
INVARIANTS FileNeverTorn MemoryIsSaved RememberedIsConnected
