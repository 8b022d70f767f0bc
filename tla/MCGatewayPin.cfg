SPECIFICATION Spec
CONSTANTS
  Pins = {p, q}
  NoPin = NoPin
  MaxSessions = 2
  MaxChanges = 1
SYMMETRY Paths
CHECK_DEADLOCK FALSE
INVARIANTS PinsAreRegistered CurrentClaimIsKept ClaimedPinsAreRecorded
PROPERTIES UsersRouteStays NewerPinStays
