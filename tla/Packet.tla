------------------------------- MODULE Packet -------------------------------
(***************************************************************************)
(* IPv4/UDP frames as an AF_PACKET SOCK_DGRAM socket hands them to bcr     *)
(* (no Ethernet header), and the checks of src/packet.rs on them.          *)
(*                                                                         *)
(* A frame is a record of the header fields bcr reads or writes.  len is   *)
(* the number of captured bytes, total the IP total length, ulen the UDP   *)
(* length field.  A checksum is the record of what it was computed over,   *)
(* so it is valid exactly when that is what the receiver computes it over; *)
(* cksum is {} when the sender left the UDP checksum at zero.  off and     *)
(* more are the fragment offset and the more-fragments flag, which bcr     *)
(* never reads: in a later fragment (off > 0) sport, dport, ulen and cksum *)
(* are the payload bytes at the place of the UDP header.                   *)
(***************************************************************************)
EXTENDS Integers, Sequences

CONSTANT Payload  \* identities of UDP payloads

Nibble == 0..15
Octet  == 0..255
Word   == 0..65535
Addr   == Octet \X Octet \X Octet \X Octet

LIMITED_BROADCAST  == <<255, 255, 255, 255>>
UNSPECIFIED        == <<0, 0, 0, 0>>
UDP                == 17
RELAY_MARKER_IP_ID == 48316            \* 0xBCBC

\* Ipv4Addr::is_multicast of the standard library: 224.0.0.0/4.
IsMulticast(ip) == ip[1] \in 224..239

HeaderCoverage == [ttl: Octet, id: Word, src: Addr, dst: Addr]
UdpCoverage    == [src: Addr, dst: Addr, sport: Word, dport: Word,
                   n: Nat, data: Payload]

Packet == [version: Nibble, ihl: Nibble, len: Nat, total: Word,
           proto: Octet, ttl: Octet, id: Word, off: Word, more: BOOLEAN,
           hsum: HeaderCoverage,
           src: Addr, dst: Addr, sport: Word, dport: Word,
           ulen: Word, cksum: SUBSET UdpCoverage, data: Payload]

\* p is a part of a datagram only.
IsFragment(p) == p.off > 0 \/ p.more

\* The header checksum of p (pnet ipv4::checksum), by the fields bcr rewrites.
HeaderSum(p) == [ttl |-> p.ttl, id |-> p.id, src |-> p.src, dst |-> p.dst]

\* The UDP checksum of p over a pseudo-header that announces n bytes.
UdpSum(p, n) == [src |-> p.src, dst |-> p.dst, sport |-> p.sport,
                 dport |-> p.dport, n |-> n, data |-> p.data]
-----------------------------------------------------------------------------
HeaderLen(p) == p.ihl * 4

\* validate_ipv4_header(buf).is_some(); the header length is HeaderLen(p).
validate_ipv4_header(p) ==
    /\ p.len >= 20
    /\ p.version = 4
    /\ p.ihl >= 5
    /\ HeaderLen(p) <= p.len

\* Limited broadcast, a last octet of 255, or multicast.
is_broadcast(ip) == ip = LIMITED_BROADCAST \/ ip[4] = 255 \/ IsMulticast(ip)

\* extract_packet_info(buf).is_some(); the information itself is PacketInfo(p).
\* The last conjunct is UdpPacket::new on pnet's payload(), which ends at
\* total_length and must hold the eight bytes of a UDP header.
extract_packet_info(p) ==
    /\ validate_ipv4_header(p)
    /\ p.total >= 20 /\ p.total <= p.len
    /\ is_broadcast(p.dst)
    /\ p.src # UNSPECIFIED /\ ~is_broadcast(p.src)
    /\ p.proto = UDP
    /\ p.total - HeaderLen(p) >= 8

PacketInfo(p) == [protocol |-> "udp", src_ip |-> p.src, dst_ip |-> p.dst,
                  src_port |-> p.sport, dst_port |-> p.dport]

is_already_relayed(p) ==
    /\ validate_ipv4_header(p)
    /\ p.ttl = 1
    /\ p.id = RELAY_MARKER_IP_ID
=============================================================================
