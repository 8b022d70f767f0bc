SPECIFICATION LinkSpec
CONSTANTS
  MaxConfReq = 3
  MaxEchoOutstanding = 2
  IdSpace = 4
  MagicCount = 2
  MinMru = 2
  DefaultMru = 3
  MaxMtu = 4
  Mrus = {1, 3, 4}
  Addrs = {"unspecified", "a", "b", "d"}
  Unspecified = "unspecified"
  ConfiguredAddrs = {"unspecified", "a", "b"}
  NoOpt = NoOpt
  MaxOutbox = 1
  GatewayFrames <- NoFrames
  Assigned = "a"
  GwDns = "d"
  Objections = 2
  Retransmits = 2
CHECK_DEADLOCK FALSE
INVARIANTS LeaseAgreed MruAgreed
PROPERTIES NegotiationCompletes LoopIsGivenUp
