------------------------------ MODULE MCFlood -------------------------------
(* One instance under load: two input interfaces compete for it, and what  *)
(* arrives is multiplied onto two outputs, behind the rate limiter.        *)
EXTENDS MCFrames

FloodInst       == {"bcr"}
FloodSegment    == {"A", "B", "C"}
FloodIface      == FloodSegment
FloodSegmentOf  == [f \in FloodIface |-> f]
FloodBroadcasts == [A |-> <<BcastA>>, B |-> <<BcastB>>, C |-> <<BcastC>>]
FloodInputs     == [bcr |-> <<"A", "B">>]
FloodOutputs    == [bcr |-> <<"B", "C">>]
FloodRules      == [bcr |-> allow_all]
FloodLimit      == [bcr |-> 1]
FloodBurst      == [bcr |-> {1}]
FloodVerbose    == [bcr |-> FALSE]
FloodFrames     == {Limited}
=============================================================================
