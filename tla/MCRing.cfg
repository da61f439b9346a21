SPECIFICATION Spec
CONSTANTS
    Payload = {"d"}
    TicksPerSec = 1
    Inst <- RingInst
    Iface <- RingIface
    Segment <- RingSegment
    SegmentOf <- RingSegmentOf
    BroadcastAddrs <- RingBroadcasts
    Inputs <- RingPorts
    Outputs <- RingPorts
    Rules <- RingRules
    RateLimit <- RingUnlimited
    RateBurst <- RingBurst
    Verbose <- RingVerbose
    Frames <- RingFrames
    QueueCap = 4
    MaxInject = 2
    MaxTime = 0
    MaxFaults = 0
    MaxLost = 0
INVARIANTS LoopFree OrderedOnce
