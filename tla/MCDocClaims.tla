---------------------------- MODULE MCDocClaims -----------------------------
(* What the documentation and the comments of bcr say of relayed frames,   *)
(* on the gateway of MCGateway, with the frames that put it to the test.   *)
EXTENDS MCGateway

AllowAll == [gw |-> allow_all]
\* allow udp any:67-68 255.255.255.255:67-68, as in examples/sample.conf.
DhcpRules == [gw |-> <<[RuleFor("allow", AnyIp, RangePort(67, 68), "limited", NoNat)
                          EXCEPT !.src_port = RangePort(67, 68),
                                 !.dst_ip = ExactIp(LIMITED_BROADCAST)]>>]

\* A DHCPDISCOVER, from a host that has no address yet.
Dhcp         == Datagram(UNSPECIFIED, LIMITED_BROADCAST, 68, 67)
DhcpFrames   == {Dhcp}
PaddedFrames == {Padded}

\* Frame n of the hosts arrived on input k of instance i.
ArrivedAt(i, k, n) ==
    n \in DOMAIN originals /\ originals[n].seg = SegmentOf[Inputs[i][k]]

\* Every frame the configuration allows is relayed to the other interfaces
\* (here: the DHCP requests that examples/sample.conf allows).
AllowedIsRelayed ==
    \A i \in Inst : \A k \in DOMAIN Inputs[i] : \A l \in DOMAIN Outputs[i] :
    \A n \in 1..MaxInject :
        LET f == Outputs[i][l]
        IN  (/\ ArrivedAt(i, k, n)
             /\ f # Inputs[i][k]
             /\ originals[n].pkt.dst = LIMITED_BROADCAST
             /\ should_relay(Rules[i], PacketInfo(originals[n].pkt)))
            ~> Delivered(i, f, n)

\* Every relayed packet has a valid UDP checksum.
RelayedSumValid == \A x \in OnWire : ValidUdpSum(SentAt(x).pkt)
=============================================================================
