SPECIFICATION FairSpec
CONSTANTS
  Payload = {"d"}
  Iface <- HostIface
  FirstIndex <- HostIndex
  Users <- Accounts
  Input <- OneIn
  Output <- OneOut
  UserOptions = {"nobody"}
  NoDrop = FALSE
  Credentials <- JustRoot
  ConfigLoads = {TRUE}
  Broadcasts <- HostAddrs
  Dests <- AllDests
  MaxFrames = 0
  MaxEvents = 3
CHECK_DEADLOCK FALSE
PROPERTY
  EventuallyRunning
