SPECIFICATION FairSpec
CONSTANTS
    Payload = {"d"}
    TicksPerSec = 1
    Inst <- TwinInst
    Iface <- TwinIface
    Segment <- TwinSegment
    SegmentOf <- TwinSegmentOf
    BroadcastAddrs <- TwinBroadcasts
    Inputs <- TwinInputs
    Outputs <- TwinOutputs
    Rules <- TwinRules
    RateLimit <- TwinUnlimited
    RateBurst <- TwinBurst
    Verbose <- TwinVerbose
    Frames <- TwinFrames
    QueueCap = 4
    MaxInject = 1
    MaxTime = 0
    MaxFaults = 1
    MaxLost = 1
PROPERTIES Quiescence EventualDelivery RefinesRelayContract
