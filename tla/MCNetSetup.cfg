SPECIFICATION NetSpec
CONSTANTS
  Width = 3
  MaxDns = 2
  Tun = "vpn0"
  Mtus = {1, 2}
  MaxOps = 6
  PhysicalDevs = {"eth", "lan", "wlan"}
  Locals <- MCLocals
  MaxChanges = 2
  Scenarios <- MCScenarios
CHECK_DEADLOCK FALSE
INVARIANTS UpMeansRouted GatewayStaysOutside OtherDeviceSpared FullTunnelIsMeant CalmSetupSucceeds
