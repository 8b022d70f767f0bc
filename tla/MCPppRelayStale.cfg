SPECIFICATION RelaySpec
CONSTANTS
  MaxConfReq = 2
  MaxEchoOutstanding = 1
  IdSpace = 3
  MagicCount = 2
  MinMru = 2
  DefaultMru = 3
  MaxMtu = 4
  Mrus = {2, 3, 4}
  Addrs = {"unspecified", "a", "b"}
  Unspecified = "unspecified"
  ConfiguredAddrs = {"unspecified"}
  NoOpt = NoOpt
  MaxOutbox = 1
  ReqMrus = {2, 3}
  MrusTold = {3}
  LcpIds = {1}
  IpcpIds = {0, 1, 2}
  GatewayFrames <- BatchFrames
CHECK_DEADLOCK FALSE
INVARIANT DeviceIsAsNegotiated
