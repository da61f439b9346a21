------------------------------ MODULE MCFrames ------------------------------
(* Addresses and frames shared by the model-checking instances.            *)
EXTENDS Relay

\* A host's datagram of 12 bytes of payload, captured exactly.
Datagram(src, dst, sport, dport) ==
    LET q == [version |-> 4, ihl |-> 5, len |-> 40, total |-> 40, proto |-> UDP,
              ttl |-> 64, id |-> 7, off |-> 0, more |-> FALSE, src |-> src, dst |-> dst,
              sport |-> sport, dport |-> dport, ulen |-> 20, data |-> "d"]
    IN  [hsum |-> HeaderSum(q), cksum |-> {UdpSum(q, 20)}] @@ q

HostA == <<10, 0, 1, 5>>
BcastA == <<10, 0, 1, 255>>
BcastB == <<10, 0, 2, 255>>
BcastC == <<10, 0, 3, 255>>
Mdns == <<224, 0, 0, 251>>

Limited   == Datagram(HostA, LIMITED_BROADCAST, 5000, 5001)
Multicast == Datagram(HostA, Mdns, 5353, 5353)
DirectedB == Datagram(HostA, BcastB, 5000, 5001)
=============================================================================
