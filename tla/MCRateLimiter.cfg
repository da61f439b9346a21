SPECIFICATION Spec
CONSTANTS
    TicksPerSec = 5
    Rate = 2
    BurstOpt = 2
    MaxTime = 12
INVARIANTS WindowBound BucketIsLeastSlack
PROPERTIES RefinesContract
