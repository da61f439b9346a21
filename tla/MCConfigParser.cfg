SPECIFICATION Spec
CONSTANTS
    Payload = {"d"}
    Files <- PairFiles
    Probes <- PoolProbes
CHECK_DEADLOCK FALSE
INVARIANTS ParseInv MeaningInv MeansWhatItSays StrictlyParsed
