SPECIFICATION Spec
CONSTANTS
  Payload = {"d"}
  Iface <- HostIface
  FirstIndex <- HostIndex
  Users <- Accounts
  Input <- BothWays
  Output <- BothWays
  UserOptions = {"nobody"}
  NoDrop = FALSE
  Credentials <- JustRoot
  ConfigLoads = {TRUE}
  Broadcasts <- FixedAddrs
  Dests <- OneDest
  MaxFrames = 1
  MaxEvents = 0
CHECK_DEADLOCK FALSE
INVARIANTS
  NeverEchoes
