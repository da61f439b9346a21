SPECIFICATION FairSpec
CONSTANTS
    Payload = {"d"}
    TicksPerSec = 1
    Inst <- GwInst
    Iface <- GwIface
    Segment <- GwSegment
    SegmentOf <- GwSegmentOf
    BroadcastAddrs <- GwBroadcasts
    Inputs <- GwInputs
    Outputs <- GwOutputs
    Rules <- DhcpRules
    RateLimit <- GwUnlimited
    RateBurst <- GwBurst
    Verbose <- GwVerbose
    Frames <- DhcpFrames
    QueueCap = 3
    MaxInject = 1
    MaxTime = 0
    MaxFaults = 0
    MaxLost = 0
PROPERTIES AllowedIsRelayed
