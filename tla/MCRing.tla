------------------------------- MODULE MCRing -------------------------------
(* Three bidirectional instances that join three segments into a ring: the *)
(* topology in which an unmarked frame would circulate for ever.           *)
EXTENDS MCFrames

RingInst    == {"r1", "r2", "r3"}
RingSegment == {"A", "B", "C"}
RingIface   == {"r1a", "r1b", "r2b", "r2c", "r3c", "r3a"}
RingSegmentOf ==
    [f \in RingIface |-> CASE f \in {"r1a", "r3a"} -> "A"
                           [] f \in {"r1b", "r2b"} -> "B"
                           [] f \in {"r2c", "r3c"} -> "C"]
RingBroadcasts ==
    [f \in RingIface |-> CASE RingSegmentOf[f] = "A" -> <<BcastA>>
                           [] RingSegmentOf[f] = "B" -> <<BcastB>>
                           [] RingSegmentOf[f] = "C" -> <<BcastC>>]
RingPorts == [r1 |-> <<"r1a", "r1b">>, r2 |-> <<"r2b", "r2c">>,
              r3 |-> <<"r3c", "r3a">>]
RingRules     == [i \in RingInst |-> allow_all]
RingUnlimited == [i \in RingInst |-> 0]
RingBurst     == [i \in RingInst |-> {}]
RingVerbose   == [i \in RingInst |-> i = "r1"]
\* A group address is not rewritten, so a multicast frame is the one that could
\* go round: a limited broadcast becomes a directed one of the next segment,
\* which no other segment owns.
RingFrames    == {Multicast}
=============================================================================
