SPECIFICATION Spec
CONSTANTS
    Payload = {"d"}
    TicksPerSec = 1
    Inst <- GwInst
    Iface <- GwIface
    Segment <- GwSegment
    SegmentOf <- GwSegmentOf
    BroadcastAddrs <- GwBroadcasts
    Inputs <- GwInputs
    Outputs <- GwOutputs
    Rules <- GwRules
    RateLimit <- GwUnlimited
    RateBurst <- GwBurst
    Verbose <- GwVerbose
    Frames <- GwFrames
    QueueCap = 3
    MaxInject = 2
    MaxTime = 0
    MaxFaults = 0
    MaxLost = 0
INVARIANTS OriginInv OrderInv PolicyOnly IntactChecksums DeliverableOnSegment FanoutCannotFail
