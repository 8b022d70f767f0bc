SPECIFICATION Spec
CONSTANTS
  MaxSessions = 2
  TrayActs = FALSE
PROPERTIES ConnectingResolves StoppedThreadsEnd
