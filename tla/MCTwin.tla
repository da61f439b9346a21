------------------------------- MODULE MCTwin -------------------------------
(* Two instances between the segments A and B that capture what the other *)
(* sends: one relays both ways (-i a -i b -o a -o b), the other to B and   *)
(* to a third segment (-i a -i b -o b -o c), so that a frame of A has an   *)
(* output behind the one where sendto fails.  A rule in front denies the   *)
(* NetBIOS ports.                                                          *)
EXTENDS MCFrames

TwinInst       == {"r1", "r2"}
TwinSegment    == {"A", "B", "C"}
TwinIface      == {"r1a", "r1b", "r1c", "r2a", "r2b"}
TwinSegmentOf  == [r1a |-> "A", r1b |-> "B", r1c |-> "C", r2a |-> "A", r2b |-> "B"]
TwinBroadcasts == [f \in TwinIface |->
                      CASE TwinSegmentOf[f] = "A" -> <<BcastA>>
                        [] TwinSegmentOf[f] = "B" -> <<BcastB>>
                        [] TwinSegmentOf[f] = "C" -> <<BcastC>>]
TwinInputs     == [r1 |-> <<"r1a", "r1b">>, r2 |-> <<"r2a", "r2b">>]
TwinOutputs    == [r1 |-> <<"r1b", "r1c">>, r2 |-> <<"r2a", "r2b">>]
TwinRules      == [i \in TwinInst |-> <<[allow_all[1] EXCEPT !.action = "deny",
                                          !.dst_port = RangePort(137, 139)],
                                        allow_all[1]>>]
TwinUnlimited  == [i \in TwinInst |-> 0]
TwinBurst      == [i \in TwinInst |-> {}]
TwinVerbose    == [i \in TwinInst |-> FALSE]
Netbios        == Datagram(HostA, LIMITED_BROADCAST, 138, 138)
TwinFrames     == {Multicast, Netbios}
=============================================================================
