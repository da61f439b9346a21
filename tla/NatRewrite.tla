----------------------------- MODULE NatRewrite -----------------------------
(***************************************************************************)
(* Which outputs a frame goes to and how it is rewritten for them:         *)
(* src/nat.rs, with should_relay_to and nat_rewrite_target of src/relay.rs.*)
(***************************************************************************)
EXTENDS Config

\* Option::unwrap
unwrap(opt) == CHOOSE v \in opt : TRUE

\* if let Some(v) = opt { field = v }
SetIfSome(opt, old) == IF opt = {} THEN old ELSE unwrap(opt)

\* Mutant: the frame may go back out of the interface it came from.
should_relay_to_echo(dst, ingress_if, out_if, out_broadcasts) ==
    \/ IsMulticast(dst)
    \/ dst = LIMITED_BROADCAST
    \/ Contains(out_broadcasts, dst)

\* A frame goes to an output other than its ingress: always if it is multicast or
\* a limited broadcast, a directed broadcast if the output owns its address.
should_relay_to(dst, ingress_if, out_if, out_broadcasts) ==
    /\ ingress_if # out_if
    /\ \/ IsMulticast(dst)
       \/ dst = LIMITED_BROADCAST
       \/ Contains(out_broadcasts, dst)

\* A directed broadcast of the output interface is kept, anything else goes to
\* the interface's first broadcast address.
nat_rewrite_target(dst, out_broadcasts) ==
    IF Contains(out_broadcasts, dst) THEN dst
    ELSE IF out_broadcasts = <<>> THEN LIMITED_BROADCAST
    ELSE Head(out_broadcasts)

\* IP-level rewriting; a multicast destination survives unless dnat is given.
RewriteIp(p, nat, dest_broadcast) ==
    [p EXCEPT !.src = SetIfSome(nat.source_ip, @),
              !.dst = IF nat.dest_ip # {} THEN SetIfSome(nat.dest_ip, @)
                      ELSE IF IsMulticast(@) THEN @ ELSE dest_broadcast]

\* Mutant: only half of the marker is written.
MarkRelayed_ttl_only(p) == [p EXCEPT !.ttl = 1]

\* The loop-prevention marker.
MarkRelayed(p) == [p EXCEPT !.ttl = 1, !.id = RELAY_MARKER_IP_ID]

RewritePorts(p, nat) == [p EXCEPT !.sport = SetIfSome(nat.source_port, @),
                                  !.dport = SetIfSome(nat.dest_port, @)]

\* Mutant: the checksum is taken before the ports are rewritten.
apply_udp_nat_stale_sum(p, nat) ==
    RewritePorts([p EXCEPT !.cksum = {UdpSum(p, p.len - HeaderLen(p))}], nat)

\* Ports, then the UDP checksum over everything captured behind the IP header:
\* pnet takes the pseudo-header length from the slice it is given.
apply_udp_nat(p, nat) ==
    LET q == RewritePorts(p, nat)
    IN  [q EXCEPT !.cksum = {UdpSum(q, q.len - HeaderLen(q))}]

\* apply_nat(..).is_ok(): the header is valid and, for UDP, a UDP header fits
\* behind it.
apply_nat_ok(p) ==
    /\ validate_ipv4_header(p)
    /\ p.proto = UDP => p.len - HeaderLen(p) >= 8

\* The buffer apply_nat leaves behind.
apply_nat(p, nat, dest_broadcast) ==
    LET ip == MarkRelayed(RewriteIp(p, nat, dest_broadcast))
        q  == IF ip.proto = UDP THEN apply_udp_nat(ip, nat) ELSE ip
    IN  [q EXCEPT !.hsum = HeaderSum(q)]
=============================================================================
