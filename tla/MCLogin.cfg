SPECIFICATION LoginSpec
CONSTANTS
  SamlTimeout = 3
  ClientTimeout = 1
  MaxClients = 3
  MaxResponse = 9
  Framings = {"length", "chunked", "close", "none"}
  Bodies <- MCBodies
  Payloads <- MCPayloads
  Garbage <- MCGarbage
  HttpText <- MCHttpText
  Base = 16
  Magic = 7
CHECK_DEADLOCK FALSE
INVARIANTS ExchangesStayFramed TunnelNeedsSlot FramesAsSent SamlIsBounded
PROPERTIES CallbackIsTaken LoginEnds
