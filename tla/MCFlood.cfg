SPECIFICATION Spec
CONSTANTS
    Payload = {"d"}
    TicksPerSec = 2
    Inst <- FloodInst
    Iface <- FloodIface
    Segment <- FloodSegment
    SegmentOf <- FloodSegmentOf
    BroadcastAddrs <- FloodBroadcasts
    Inputs <- FloodInputs
    Outputs <- FloodOutputs
    Rules <- FloodRules
    RateLimit <- FloodLimit
    RateBurst <- FloodBurst
    Verbose <- FloodVerbose
    Frames <- FloodFrames
    QueueCap = 3
    MaxInject = 4
    MaxTime = 2
    MaxFaults = 1
    MaxLost = 0
INVARIANTS TypeOK StormInv StormCap BypassInv BoundedBypass ReportStands
