SPECIFICATION RelaySpec
CONSTANTS
  MaxConfReq = 2
  MaxEchoOutstanding = 1
  IdSpace = 3
  MagicCount = 2
  MinMru = 2
  DefaultMru = 3
  MaxMtu = 4
  Mrus = {1, 3, 4, 5}
  Addrs = {"unspecified", "a"}
  Unspecified = "unspecified"
  ConfiguredAddrs = {"unspecified"}
  NoOpt = NoOpt
  MaxOutbox = 1
  ReqMrus = {1, 5}
  MrusTold = {3}
  LcpIds = {1, 2}
  IpcpIds = {0, 2}
  GatewayFrames <- BatchFrames
CHECK_DEADLOCK FALSE
INVARIANTS TypeOK GivingUpIsDeath LayersConsented MtuFitsPeer
PROPERTIES DeviceGetsLease LifecycleSpec
