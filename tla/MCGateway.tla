----------------------------- MODULE MCGateway ------------------------------
(* One instance between three segments, with a configuration that has a    *)
(* deny rule in front of allow rules and every kind of matcher and         *)
(* rewriting, and the frames that tell them apart.                         *)
EXTENDS MCFrames

GwInst    == {"gw"}
GwSegment == {"A", "B", "C"}
GwIface   == {"lan", "iot", "guest"}
GwSegmentOf  == [lan |-> "A", iot |-> "B", guest |-> "C"]
\* guest has an alias, so two broadcast addresses; the /26 of the second one
\* does not end in 255.
BcastC26 == <<10, 0, 4, 63>>
GwBroadcasts == [lan |-> <<BcastA>>, iot |-> <<BcastB>>,
                 guest |-> <<BcastC, BcastC26>>]
GwInputs  == [gw |-> <<"lan", "iot">>]
GwOutputs == [gw |-> <<"iot", "lan", "guest">>]

RuleFor(action, src, dst_port, type, nat) ==
    [action |-> action, protocol |-> "udp", src_ip |-> src,
     src_port |-> AnyPort, dst_ip |-> AnyIp, dst_port |-> dst_port,
     broadcast_type |-> type, nat |-> nat]
HostB  == <<10, 0, 2, 77>>
Router == <<10, 0, 2, 1>>
GwRules == [gw |->
    << RuleFor("deny", AnyIp, RangePort(137, 139), "any", NoNat),
       RuleFor("allow", CidrIp(HostA, 24), ExactPort(5353), "any", NoNat),
       RuleFor("allow", ExactIp(HostA), ExactPort(5001), "limited",
               [NoNat EXCEPT !.source_ip = {Router}, !.source_port = {6000},
                             !.dest_port = {6001}]),
       RuleFor("allow", AnyIp, ExactPort(9), "limited",
               [NoNat EXCEPT !.dest_ip = {HostB}]),
       RuleFor("allow", AnyIp, AnyPort, "directed", NoNat) >>]
GwUnlimited == [gw |-> 0]
GwBurst     == [gw |-> {}]
GwVerbose   == [gw |-> TRUE]

\* Frames the rules above decide about ...
Wol      == Datagram(HostA, LIMITED_BROADCAST, 5000, 9)
Netbios  == Datagram(HostA, BcastB, 138, 138)
NoRule   == Datagram(HostA, LIMITED_BROADCAST, 5000, 80)
DirectedC == Datagram(HostA, BcastC, 5000, 7000)
\* ... and frames that are not plain: marked by coincidence, with IP options,
\* announcing more than was captured, padded to the Ethernet minimum, from an
\* address nobody can have, without a UDP checksum, fragments of a datagram.
Marked    == [Limited EXCEPT !.ttl = 1, !.id = RELAY_MARKER_IP_ID]
TtlOne    == [DirectedB EXCEPT !.ttl = 1]
Options   == [DirectedB EXCEPT !.ihl = 6, !.len = 44, !.total = 44]
Truncated == [Limited EXCEPT !.total = 60, !.ulen = 40]
ShortUdp  == [Limited EXCEPT !.len = 26, !.total = 26]
Padded    == [Limited EXCEPT !.len = 46,
                             !.cksum = {UdpSum(Limited, 20)}]
FromAll   == Datagram(BcastA, LIMITED_BROADCAST, 5000, 5001)
NoSum     == [DirectedC EXCEPT !.cksum = {}]
FirstPart == [DirectedC EXCEPT !.ulen = 60, !.more = TRUE]
LaterPart == [DirectedC EXCEPT !.off = 5, !.sport = 257, !.dport = 138]

GwFrames == {Limited, Multicast, DirectedB, DirectedC, Wol, Netbios, NoRule,
             Marked, TtlOne, Options, Truncated, ShortUdp, Padded, FromAll,
             NoSum, FirstPart, LaterPart}
=============================================================================
