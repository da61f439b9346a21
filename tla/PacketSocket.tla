---------------------------- MODULE PacketSocket ----------------------------
(***************************************************************************)
(* What src/socket.rs does to single frames: the kernel filter it attaches *)
(* to every socket and the link-layer destination it sends to.             *)
(***************************************************************************)
EXTENDS NatRewrite

\* b & 0xf0, for a byte b.
HighBits(b) == b - (b % 16)

\* The filter program of attach_packet_filter.  It is run on the IP header; a
\* load beyond the end of the frame rejects it.
bpf_accepts(p) ==
    /\ p.len > 0  /\ p.version = 4
    /\ p.len > 9  /\ p.proto = UDP
    /\ p.len > 16
    /\ \/ HighBits(p.dst[1]) = 224
       \/ p.len > 19 /\ p.dst[4] = 255

BROADCAST_MAC == <<255, 255, 255, 255, 255, 255>>

\* Mutant: every frame goes to the broadcast MAC, as in earlier versions.
dest_mac_always_broadcast(p) == BROADCAST_MAC

\* 01:00:5e and the low 23 bits of a group address, else the broadcast MAC.
dest_mac(p) ==
    IF p.len >= 20 /\ p.dst[1] \in 224..239
    THEN <<1, 0, 94, p.dst[2] % 128, p.dst[3], p.dst[4]>>
    ELSE BROADCAST_MAC
=============================================================================
