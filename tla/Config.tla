------------------------------- MODULE Config -------------------------------
(***************************************************************************)
(* The rules of a configuration and how a packet is matched against them:  *)
(* src/config.rs (matchers, Rule, Config) and src/filter.rs.               *)
(*                                                                         *)
(* An Option<T> is a set with at most one element.                         *)
(***************************************************************************)
EXTENDS Packet, SequencesExt

IpMatcher   == [kind: {"any", "exact", "cidr"}, addr: Addr, bits: 0..32]
PortMatcher == [kind: {"any", "exact", "range"}, lo: Word, hi: Word]
NatOptions  == [source_ip: SUBSET Addr, dest_ip: SUBSET Addr,
                source_port: SUBSET Word, dest_port: SUBSET Word]
Rule == [action: {"allow", "deny"}, protocol: {"udp", "any"},
         src_ip: IpMatcher, src_port: PortMatcher,
         dst_ip: IpMatcher, dst_port: PortMatcher,
         broadcast_type: {"any", "limited", "directed"}, nat: NatOptions]

NoNat == [source_ip |-> {}, dest_ip |-> {}, source_port |-> {}, dest_port |-> {}]
-----------------------------------------------------------------------------
\* 2^(8 - n) for n = 0..8.
BlockSize == <<256, 128, 64, 32, 16, 8, 4, 2, 1>>

\* ip & mask for a mask of n leading ones, octet by octet.
Mask(ip, n) ==
    LET kept(j) == IF n >= 8 * j THEN 8 ELSE IF n <= 8 * (j - 1) THEN 0
                                        ELSE n - 8 * (j - 1)
        octet(j) == ip[j] - (ip[j] % BlockSize[kept(j) + 1])
    IN  <<octet(1), octet(2), octet(3), octet(4)>>

AnyIp      == [kind |-> "any", addr |-> UNSPECIFIED, bits |-> 0]
ExactIp(a) == [kind |-> "exact", addr |-> a, bits |-> 32]
\* Mutant: the host bits of a block that is written with some are kept.
CidrIp_unmasked(a, n) == [kind |-> "cidr", addr |-> a, bits |-> n]

\* The parser stores a CIDR block with its host bits already cleared.
CidrIp(a, n) == [kind |-> "cidr", addr |-> Mask(a, n), bits |-> n]

AnyPort          == [kind |-> "any", lo |-> 0, hi |-> 0]
ExactPort(p)     == [kind |-> "exact", lo |-> p, hi |-> p]
RangePort(p, q)  == [kind |-> "range", lo |-> p, hi |-> q]

ip_matches(m, ip) ==
    \/ m.kind = "any"
    \/ m.kind = "exact" /\ m.addr = ip
    \/ m.kind = "cidr" /\ Mask(ip, m.bits) = m.addr

port_matches(m, port) ==
    \/ m.kind = "any"
    \/ m.kind = "exact" /\ port = m.lo
    \/ m.kind = "range" /\ m.lo <= port /\ port <= m.hi

broadcast_type_matches(t, dst) ==
    \/ t = "any"
    \/ t = "limited" /\ dst = LIMITED_BROADCAST
    \/ t = "directed" /\ dst[4] = 255 /\ dst # LIMITED_BROADCAST

\* Rule::matches.
rule_matches(rule, info) ==
    /\ rule.protocol = "any" \/ rule.protocol = info.protocol
    /\ port_matches(rule.src_port, info.src_port)
    /\ port_matches(rule.dst_port, info.dst_port)
    /\ ip_matches(rule.src_ip, info.src_ip)
    /\ ip_matches(rule.dst_ip, info.dst_ip)
    /\ broadcast_type_matches(rule.broadcast_type, info.dst_ip)

\* Mutant: the last matching rule decides.
find_match_last(rules, info) ==
    SelectLastInSeq(rules, LAMBDA r : rule_matches(r, info))

\* Config::find_match: the index of the first rule that matches, 0 if none.
find_match(rules, info) ==
    SelectInSeq(rules, LAMBDA r : rule_matches(r, info))

\* Config::allow_all, the rules used when no -c option is given.
allow_all == << [action |-> "allow", protocol |-> "any",
                 src_ip |-> AnyIp, src_port |-> AnyPort,
                 dst_ip |-> AnyIp, dst_port |-> AnyPort,
                 broadcast_type |-> "any", nat |-> NoNat] >>
-----------------------------------------------------------------------------
\* Mutant: a packet no rule matches is relayed.
should_relay_default_allow(rules, info) ==
    LET k == find_match(rules, info) IN k # 0 => rules[k].action = "allow"

\* Filter::should_relay: deny unless the first match is an allow rule.
should_relay(rules, info) ==
    LET k == find_match(rules, info) IN k # 0 /\ rules[k].action = "allow"

\* Filter::get_nat_rule, an option: the first match, if it is an allow rule.
get_nat_rule(rules, info) ==
    {r \in {rules[k] : k \in {find_match(rules, info)} \ {0}} : r.action = "allow"}
=============================================================================
