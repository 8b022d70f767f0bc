SPECIFICATION Spec
CONSTANTS
  MaxSessions = 2
  TrayActs = TRUE
INVARIANT ConnectedIsUp
PROPERTIES OldSessionsEnd LogoutOnlyAtTheEnd DisconnectIsFinal ErrorsAreShownUnlessLate
