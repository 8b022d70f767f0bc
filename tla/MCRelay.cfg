SPECIFICATION RelaySpec
CONSTANTS
  NegotiationTimeout = 1
  EchoInterval = 2
  WriteStallTimeout = 2
  MaxEchoOutstanding = 2
  MaxQueued = 2
  MaxOut = 3
  EchoMaxBacklog = 1
  TunBatch = 2
  TlsBuffer = 1
  SockBuffer = 1
  DownBuffer = 2
CHECK_DEADLOCK FALSE
INVARIANTS HealthyGatewayKept SilenceIsNoticed
PROPERTIES OnlyAFloodOverflows StopEnds
