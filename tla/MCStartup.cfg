SPECIFICATION Spec
CONSTANTS
  Payload = {"d"}
  Iface <- HostIface
  FirstIndex <- HostIndex
  Users <- Accounts
  Input <- OneIn
  Output <- BothWays
  UserOptions <- AnyUser
  NoDrop = FALSE
  Credentials <- AllStarts
  ConfigLoads = {TRUE, FALSE}
  Broadcasts <- HostAddrs
  Dests <- AllDests
  MaxFrames = 1
  MaxEvents = 1
CHECK_DEADLOCK FALSE
INVARIANTS
  StartInv
  RunsUnprivileged
  NeverHalfStarted
  OnlyEarlyStray
  OwnSegmentOnly
