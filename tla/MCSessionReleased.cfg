SPECIFICATION Spec
CONSTANTS
  MaxSessions = 1
  TrayActs = TRUE
INVARIANT SessionsAreReleased
