SPECIFICATION Spec
CONSTANTS
    Payload = {"d"}
    Captured <- FilterFrames
CHECK_DEADLOCK FALSE
INVARIANTS FilterInv FilterExact FilterLosesNothing
