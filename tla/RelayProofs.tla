---------------------------- MODULE RelayProofs -----------------------------
(***************************************************************************)
(* Proofs about Relay, for every number of instances, every topology, rule *)
(* list, rate limit and bound.                                             *)
(*                                                                         *)
(* LoopInv is the inductive invariant.  LoopFree alone is not inductive:   *)
(* it speaks of the frames already sent, and what an instance may send     *)
(* next depends on what waits in its sockets.  LoopInv adds that a frame   *)
(* waiting there is either fresh or carries the marker, and that a frame   *)
(* being fanned out is fresh, because is_already_relayed dropped the       *)
(* marked ones.  It is proved in four parts, by the variables they are     *)
(* about (ProcOK, LimiterOK, NetOK, HistoryOK).                            *)
(***************************************************************************)
EXTENDS Relay, MinMaxLemmas

\* The rule found is one of the rules.
LEMMA FindMatchType ==
    ASSUME NEW rules \in Seq(Rule), NEW info
    PROVE  find_match(rules, info) \in 0..Len(rules)
  <1> DEFINE I == {k \in 1..Len(rules) : rule_matches(rules[k], info)}
  <1>1. find_match(rules, info) = IF I # {} THEN Min(I) ELSE 0
    BY DEF find_match, SelectInSeq
  <1>2. I \in SUBSET Nat /\ I \subseteq 1..Len(rules) /\ Len(rules) \in Nat
    OBVIOUS
  <1> HIDE DEF I
  <1>3. I # {} => Min(I) \in I
    BY <1>2, MinIn
  <1>4. CASE I = {}
    BY <1>1, <1>2, <1>4
  <1>5. CASE I # {}
    <2>1. find_match(rules, info) \in 1..Len(rules)
      BY <1>1, <1>2, <1>3, <1>5
    <2>2. QED
      BY <2>1, <1>2
  <1>6. QED
    BY <1>4, <1>5

\* get_nat_rule yields rules of the configuration, and one at least when
\* should_relay has said yes.
LEMMA GetNatRuleType ==
    ASSUME NEW rules \in Seq(Rule), NEW info
    PROVE  /\ get_nat_rule(rules, info) \in SUBSET Rule
           /\ should_relay(rules, info) => get_nat_rule(rules, info) # {}
  <1> DEFINE k == find_match(rules, info)
  <1>1. k \in 0..Len(rules)
    BY FindMatchType
  <1> HIDE DEF k
  <1>2. k # 0 => rules[k] \in Rule
    BY <1>1
  <1>3. get_nat_rule(rules, info)
          = {r \in {rules[j] : j \in {k} \ {0}} : r.action = "allow"}
    BY DEF get_nat_rule, k
  <1>4. should_relay(rules, info) <=> k # 0 /\ rules[k].action = "allow"
    BY DEF should_relay, k
  <1>5. QED
    BY <1>2, <1>3, <1>4

\* Setting a field to an option of its type.
LEMMA SetIfSomeType ==
    ASSUME NEW S, NEW opt \in SUBSET S, NEW old \in S
    PROVE  SetIfSome(opt, old) \in S
  BY DEF SetIfSome, unwrap

\* The destination nat_rewrite_target chooses is an address.
LEMMA NatTargetType ==
    ASSUME NEW dst \in Addr, NEW bs \in Seq(Addr)
    PROVE  nat_rewrite_target(dst, bs) \in Addr
  <1>1. bs # <<>> => Head(bs) \in Addr
    OBVIOUS
  <1>2. LIMITED_BROADCAST \in Addr
    BY DEF LIMITED_BROADCAST, Addr, Octet
  <1>3. QED
    BY <1>1, <1>2 DEF nat_rewrite_target

\* The IP rewriting of apply_nat keeps a frame a frame and leaves its lengths
\* alone.
LEMMA RewriteIpType ==
    ASSUME NEW p \in Packet, NEW nat \in NatOptions, NEW d \in Addr
    PROVE  LET q == MarkRelayed(RewriteIp(p, nat, d))
           IN  /\ q \in Packet
               /\ q.version = p.version /\ q.ihl = p.ihl /\ q.len = p.len
               /\ q.total = p.total /\ q.ulen = p.ulen /\ q.proto = p.proto
               /\ q.ttl = 1 /\ q.id = RELAY_MARKER_IP_ID
  <1> DEFINE s == SetIfSome(nat.source_ip, p.src)
             t == IF nat.dest_ip # {} THEN SetIfSome(nat.dest_ip, p.dst)
                  ELSE IF IsMulticast(p.dst) THEN p.dst ELSE d
             r == [p EXCEPT !.src = s, !.dst = t]
             q == [r EXCEPT !.ttl = 1, !.id = RELAY_MARKER_IP_ID]
  <1>1. p.src \in Addr /\ p.dst \in Addr
    BY DEF Packet
  <1>2. nat.source_ip \in SUBSET Addr /\ nat.dest_ip \in SUBSET Addr
    BY DEF NatOptions
  <1>3. s \in Addr /\ t \in Addr
    BY <1>1, <1>2, SetIfSomeType
  <1>4. MarkRelayed(RewriteIp(p, nat, d)) = q
    BY DEF MarkRelayed, RewriteIp
  <1> HIDE DEF s, t
  <1>5. /\ r \in Packet
        /\ r.version = p.version /\ r.ihl = p.ihl /\ r.len = p.len
        /\ r.total = p.total /\ r.ulen = p.ulen /\ r.proto = p.proto
    BY <1>3 DEF Packet
  <1> HIDE DEF r
  <1>6. /\ q \in Packet
        /\ q.version = r.version /\ q.ihl = r.ihl /\ q.len = r.len
        /\ q.total = r.total /\ q.ulen = r.ulen /\ q.proto = r.proto
        /\ q.ttl = 1 /\ q.id = RELAY_MARKER_IP_ID
    <2>1. 1 \in Octet /\ RELAY_MARKER_IP_ID \in Word
      BY DEF Octet, Word, RELAY_MARKER_IP_ID
    <2>2. QED
      BY <1>5, <2>1 DEF Packet
  <1> HIDE DEF q
  <1>7. QED
    BY <1>4, <1>5, <1>6

\* So does the UDP part, on a frame with a valid IP header.
LEMMA UdpNatType ==
    ASSUME NEW p \in Packet, NEW nat \in NatOptions, HeaderLen(p) <= p.len
    PROVE  LET q == apply_udp_nat(p, nat)
           IN  /\ q \in Packet
               /\ q.version = p.version /\ q.ihl = p.ihl /\ q.len = p.len
               /\ q.total = p.total /\ q.ulen = p.ulen /\ q.proto = p.proto
               /\ q.ttl = p.ttl /\ q.id = p.id
  <1> DEFINE r == RewritePorts(p, nat)
             c == UdpSum(r, r.len - HeaderLen(r))
             q == [r EXCEPT !.cksum = {c}]
  <1>1. p.sport \in Word /\ p.dport \in Word
    BY DEF Packet
  <1>2. nat.source_port \in SUBSET Word /\ nat.dest_port \in SUBSET Word
    BY DEF NatOptions
  <1>3. /\ SetIfSome(nat.source_port, p.sport) \in Word
        /\ SetIfSome(nat.dest_port, p.dport) \in Word
    BY <1>1, <1>2, SetIfSomeType
  <1>4. /\ r \in Packet
        /\ r.version = p.version /\ r.ihl = p.ihl /\ r.len = p.len
        /\ r.total = p.total /\ r.ulen = p.ulen /\ r.proto = p.proto
        /\ r.ttl = p.ttl /\ r.id = p.id
    BY <1>3 DEF RewritePorts, Packet
  <1>5. apply_udp_nat(p, nat) = q
    BY DEF apply_udp_nat
  <1> HIDE DEF r
  <1>6. r.len - HeaderLen(r) \in Nat
    <2>1. p.len \in Nat /\ p.ihl \in Nibble
      BY DEF Packet
    <2>2. r.len - HeaderLen(r) = p.len - HeaderLen(p)
      BY <1>4 DEF HeaderLen
    <2>3. HeaderLen(p) \in Nat
      BY <2>1 DEF HeaderLen, Nibble
    <2>4. QED
      BY <2>1, <2>2, <2>3
  <1>7. c \in UdpCoverage
    <2>1. /\ r.src \in Addr /\ r.dst \in Addr /\ r.sport \in Word /\ r.dport \in Word
          /\ r.data \in Payload
      BY <1>4 DEF Packet
    <2>2. QED
      BY <1>6, <2>1 DEF UdpSum, UdpCoverage
  <1> HIDE DEF c
  <1>8. /\ q \in Packet
        /\ q.version = r.version /\ q.ihl = r.ihl /\ q.len = r.len
        /\ q.total = r.total /\ q.ulen = r.ulen /\ q.proto = r.proto
        /\ q.ttl = r.ttl /\ q.id = r.id
    BY <1>4, <1>7 DEF Packet
  <1> HIDE DEF q
  <1>9. QED
    BY <1>4, <1>5, <1>8

\* What apply_nat makes of a frame with a valid header is a frame with a valid
\* header that carries the marker: every instance drops it.
LEMMA ApplyNatMarks ==
    ASSUME NEW p \in Packet, NEW nat \in NatOptions, NEW d \in Addr,
           validate_ipv4_header(p)
    PROVE  /\ apply_nat(p, nat, d) \in Packet
           /\ is_already_relayed(apply_nat(p, nat, d))
  <1> DEFINE ip == MarkRelayed(RewriteIp(p, nat, d))
             q  == IF ip.proto = UDP THEN apply_udp_nat(ip, nat) ELSE ip
             w  == [q EXCEPT !.hsum = HeaderSum(q)]
  <1>1. /\ ip \in Packet
        /\ ip.version = p.version /\ ip.ihl = p.ihl /\ ip.len = p.len
        /\ ip.ttl = 1 /\ ip.id = RELAY_MARKER_IP_ID
    BY RewriteIpType
  <1> HIDE DEF ip
  <1>2. HeaderLen(ip) <= ip.len
    BY <1>1 DEF validate_ipv4_header, HeaderLen
  <1>3. /\ q \in Packet
        /\ q.version = p.version /\ q.ihl = p.ihl /\ q.len = p.len
        /\ q.ttl = 1 /\ q.id = RELAY_MARKER_IP_ID
    BY <1>1, <1>2, UdpNatType
  <1> HIDE DEF q
  <1>4. HeaderSum(q) \in HeaderCoverage
    <2>1. q.ttl \in Octet /\ q.id \in Word /\ q.src \in Addr /\ q.dst \in Addr
      BY <1>3 DEF Packet
    <2>2. QED
      BY <2>1 DEF HeaderSum, HeaderCoverage
  <1>5. /\ w \in Packet
        /\ w.version = p.version /\ w.ihl = p.ihl /\ w.len = p.len
        /\ w.ttl = 1 /\ w.id = RELAY_MARKER_IP_ID
    BY <1>3, <1>4 DEF Packet
  <1>6. apply_nat(p, nat, d) = w
    BY DEF apply_nat, ip, q
  <1> HIDE DEF w
  <1>7. is_already_relayed(w)
    BY <1>5 DEF is_already_relayed, validate_ipv4_header, HeaderLen
  <1>8. QED
    BY <1>5, <1>6, <1>7

\* What extract_packet_info lets through apply_nat can rewrite.
LEMMA ParsedCanBeRewritten ==
    ASSUME NEW p \in Packet, extract_packet_info(p)
    PROVE  apply_nat_ok(p)
  <1>1. p.len \in Nat /\ p.total \in Word /\ p.ihl \in Nibble
    BY DEF Packet
  <1>2. p.total \in Nat
    <2>1. Word \subseteq Nat
      BY DEF Word
    <2>2. QED
      BY <1>1, <2>1
  <1>3. HeaderLen(p) \in Nat
    BY <1>1 DEF HeaderLen, Nibble
  <1>4. /\ validate_ipv4_header(p)
        /\ p.total <= p.len /\ p.total - HeaderLen(p) >= 8
    BY DEF extract_packet_info
  <1>5. p.len - HeaderLen(p) >= 8
    BY <1>1, <1>2, <1>3, <1>4
  <1>6. QED
    BY <1>4, <1>5 DEF apply_nat_ok

\* The link-layer destination is a sequence of octets.
LEMMA DestMacType ==
    ASSUME NEW p \in Packet
    PROVE  dest_mac(p) \in Seq(Octet)
  <1>1. /\ p.dst[2] \in Octet /\ p.dst[3] \in Octet /\ p.dst[4] \in Octet
    <2>1. p.dst \in Addr
      BY DEF Packet
    <2>2. QED
      BY <2>1 DEF Addr
  <1>2. p.dst[2] % 128 \in Octet
    BY <1>1 DEF Octet
  <1>3. {0, 1, 94, 255} \subseteq Octet
    BY DEF Octet
  <1>4. <<1, 0, 94, p.dst[2] % 128, p.dst[3], p.dst[4]>> \in Seq(Octet)
    BY <1>1, <1>2, <1>3
  <1>5. <<255, 255, 255, 255, 255, 255>> \in Seq(Octet)
    BY <1>3
  <1>6. QED
    BY <1>4, <1>5 DEF dest_mac, BROADCAST_MAC

-----------------------------------------------------------------------------
\* A socket index of an instance is an input socket.
LEMMA SocketIn ==
    ASSUME NEW i \in Inst, NEW k \in 1..Len(Inputs[i])
    PROVE  <<i, k>> \in InSock
  BY DEF InSock

\* An input socket is bound to an interface.
LEMMA SocketType ==
    ASSUME NEW s \in InSock
    PROVE  /\ s[1] \in Inst /\ s[2] \in 1..Len(Inputs[s[1]]) /\ s = <<s[1], s[2]>>
           /\ IfOf(s) \in Iface
  <1>1. PICK i \in Inst : s \in {i} \X (1..Len(Inputs[i]))
    BY DEF InSock
  <1>2. s[1] = i /\ s[2] \in 1..Len(Inputs[i]) /\ s = <<s[1], s[2]>>
    BY <1>1
  <1>3. Inputs[i] \in Seq(Iface)
    BY RelayAssumption
  <1>4. Inputs[i][s[2]] \in Iface
    BY <1>2, <1>3
  <1>5. QED
    BY <1>2, <1>4 DEF IfOf

\* Sending a frame of a kind adds only frames of that kind to the queues.
LEMMA DeliverType ==
    ASSUME NEW S, queue \in [InSock -> Seq(S)], NEW e \in S, NEW g
    PROVE  Deliver(g, e) \in [InSock -> Seq(S)]
  <1>1. \A s \in InSock : queue[s] \in Seq(S) /\ Append(queue[s], e) \in Seq(S)
    OBVIOUS
  <1>2. QED
    BY <1>1 DEF Deliver

\* The limiter a process starts with.
LEMMA LimiterType ==
    ASSUME NEW i \in Inst, NEW t \in Nat
    PROVE  limiter(i, t) \in RateLimiter /\ limiter(i, t).last = t
  <1> DEFINE b == SetIfSome(RateBurst[i], RateLimit[i])
             c == (IF b < 1 THEN 1 ELSE b) * TicksPerSec
  <1>1. RateLimit[i] \in Nat /\ RateBurst[i] \in SUBSET Nat
    BY RelayAssumption
  <1>2. b \in Nat
    BY <1>1, SetIfSomeType
  <1> HIDE DEF b
  <1>3. \A x, y \in Nat : x * y \in Nat
    OBVIOUS
  <1>4. c \in Nat
    BY <1>2, <1>3, TicksPerSecAssumption
  <1>5. limiter(i, t) = [rate |-> RateLimit[i], burst |-> c, tokens |-> c, last |-> t]
    BY DEF limiter, new, b
  <1> HIDE DEF c
  <1>6. QED
    BY <1>1, <1>4, <1>5 DEF RateLimiter

\* A call of allow() leaves a limiter that was last used now.
LEMMA AfterAllowType ==
    ASSUME NEW r \in RateLimiter, NEW t \in Nat, r.last <= t
    PROVE  after_allow(r, t) \in RateLimiter /\ after_allow(r, t).last = t
  <1> DEFINE R == refill(r, t)
             x == R - (IF allow(r, t) THEN TicksPerSec ELSE 0)
  <1>1. r.tokens \in Nat /\ r.burst \in Nat /\ r.rate \in Nat /\ r.last \in Nat
    BY DEF RateLimiter
  <1>2. (t - r.last) * r.rate \in Nat
    <2>1. \A a, b \in Nat : a * b \in Nat
      OBVIOUS
    <2>2. t - r.last \in Nat
      BY <1>1
    <2>3. QED
      BY <1>1, <2>1, <2>2
  <1>3. R \in Nat
    BY <1>1, <1>2 DEF refill, AtMost
  <1>4. allow(r, t) <=> R >= TicksPerSec
    BY DEF allow
  <1> HIDE DEF R
  <1>5. x \in Nat
    BY <1>3, <1>4, TicksPerSecAssumption
  <1>6. after_allow(r, t) = [r EXCEPT !.last = t, !.tokens = x]
    BY DEF after_allow, R
  <1> HIDE DEF x
  <1>7. QED
    BY <1>5, <1>6 DEF RateLimiter

-----------------------------------------------------------------------------
(* The invariant, by the variables its parts are about. *)

ProcOK ==
    /\ pc \in [Inst -> {"select", "scan", "fanout", "stopped"}]
    /\ ready \in [Inst -> SUBSET Nat]
    /\ cur \in [Inst -> Nat \ {0}]
    /\ buf \in [Inst -> Seq(Fanout)]
    /\ out \in [Inst -> Nat \ {0}]
    /\ \A i \in Inst :
          /\ ready[i] \subseteq 1..Len(Inputs[i])
          /\ cur[i] <= Len(Inputs[i]) + 1
          /\ out[i] <= Len(Outputs[i]) + 1
          /\ pc[i] = "fanout" =>
                Len(buf[i]) = 1 /\ cur[i] <= Len(Inputs[i]) /\ Fresh(i)
LimiterOK ==
    /\ now \in Nat
    /\ rl \in [Inst -> RateLimiter]
    /\ \A i \in Inst : rl[i].last <= now
NetOK ==
    /\ queue \in [InSock -> Seq(MarkedEntry)]
    /\ sockerr \in [InSock -> BOOLEAN]
    /\ outerr \in [OutSock -> BOOLEAN]
    /\ up \in [Iface -> BOOLEAN]
    /\ bypass \in [InSock -> Nat]
HistoryOK ==
    /\ originals \in Seq([seg: Segment, pkt: Packet])
    /\ wire \in [Segment -> Seq(SentOnce)]
    /\ lost \subseteq Lost
    /\ faults \in Nat

\* The parts make up the invariant.
LEMMA Parts == LoopInv <=> ProcOK /\ LimiterOK /\ NetOK /\ HistoryOK
  <1>1. \A q : q \in [InSock -> Seq(MarkedEntry)] => q \in [InSock -> Seq(Entry)]
    <2>1. MarkedEntry \subseteq Entry
      BY DEF MarkedEntry
    <2>2. Seq(MarkedEntry) \subseteq Seq(Entry)
      BY <2>1
    <2>3. QED
      BY <2>2
  <1>2. \A w : w \in [Segment -> Seq(SentOnce)] => w \in [Segment -> Seq(Sent)]
    <2>1. SentOnce \subseteq Sent
      BY DEF SentOnce
    <2>2. Seq(SentOnce) \subseteq Seq(Sent)
      BY <2>1
    <2>3. QED
      BY <2>2
  <1>3. LoopInv => ProcOK
    BY DEF LoopInv, TypeOK, ProcOK
  <1>4. LoopInv => LimiterOK /\ NetOK /\ HistoryOK
    BY DEF LoopInv, TypeOK, LimiterOK, NetOK, HistoryOK
  <1>5. ProcOK /\ LimiterOK /\ NetOK /\ HistoryOK => TypeOK
    BY <1>1, <1>2 DEF TypeOK, ProcOK, LimiterOK, NetOK, HistoryOK
  <1>6. ProcOK /\ LimiterOK /\ NetOK /\ HistoryOK => LoopInv
    BY <1>5 DEF LoopInv, ProcOK, LimiterOK, NetOK, HistoryOK
  <1>7. QED
    BY <1>3, <1>4, <1>6

\* It holds initially.
LEMMA InitLoopInv == Init => LoopInv
  <1> SUFFICES ASSUME Init PROVE LoopInv
    OBVIOUS
  <1>1. Inputs \in [Inst -> Seq(Iface)] /\ Outputs \in [Inst -> Seq(Iface)]
    BY RelayAssumption
  <1>2. ProcOK
    BY <1>1 DEF Init, ProcOK
  <1>3. LimiterOK
    <2>1. 0 \in Nat
      OBVIOUS
    <2>2. QED
      BY <2>1, LimiterType DEF Init, LimiterOK
  <1>4. NetOK
    BY DEF Init, NetOK
  <1>5. HistoryOK
    BY DEF Init, HistoryOK
  <1>6. QED
    BY <1>2, <1>3, <1>4, <1>5, Parts

\* A socket the scan finds ready exists.
LEMMA CurrentSocket ==
    ASSUME ProcOK, NEW i \in Inst, AtReady(i)
    PROVE  cur[i] \in 1..Len(Inputs[i]) /\ <<i, cur[i]>> \in InSock
  <1>1. cur[i] \in 1..Len(Inputs[i])
    BY DEF ProcOK, AtReady
  <1>2. QED
    BY <1>1, SocketIn

\* What read() returns is a frame from a queue.
LEMMA ReceivedType ==
    ASSUME ProcOK, NetOK, NEW i \in Inst, Recv(i)
    PROVE  /\ Received(i) \in MarkedEntry
           /\ cur[i] \in 1..Len(Inputs[i])
           /\ queue' \in [InSock -> Seq(MarkedEntry)]
  <1>1. cur[i] \in 1..Len(Inputs[i]) /\ <<i, cur[i]>> \in InSock
    BY CurrentSocket DEF Recv
  <1>2. queue[<<i, cur[i]>>] \in Seq(MarkedEntry) /\ queue[<<i, cur[i]>>] # <<>>
    BY <1>1 DEF NetOK, Recv
  <1>3. /\ Head(queue[<<i, cur[i]>>]) \in MarkedEntry
        /\ Tail(queue[<<i, cur[i]>>]) \in Seq(MarkedEntry)
    BY <1>2
  <1>4. queue' = [queue EXCEPT ![<<i, cur[i]>>] = Tail(queue[<<i, cur[i]>>])]
    BY DEF Recv
  <1>5. queue' \in [InSock -> Seq(MarkedEntry)]
    BY <1>1, <1>3, <1>4 DEF NetOK
  <1>6. QED
    BY <1>1, <1>3, <1>5 DEF Received

\* The part of ProcOK that is about one instance.
InPlace(i) ==
    /\ ready[i] \subseteq 1..Len(Inputs[i])
    /\ cur[i] <= Len(Inputs[i]) + 1
    /\ out[i] <= Len(Outputs[i]) + 1
    /\ pc[i] = "fanout" =>
          Len(buf[i]) = 1 /\ cur[i] <= Len(Inputs[i]) /\ Fresh(i)

\* A step of instance i need only be checked for i.
LEMMA ProcUpdate ==
    ASSUME ProcOK, NEW i \in Inst,
           NEW p \in {"select", "scan", "fanout", "stopped"}, NEW r \in SUBSET Nat,
           NEW c \in Nat \ {0}, NEW b \in Seq(Fanout), NEW o \in Nat \ {0},
           pc' = [pc EXCEPT ![i] = p], ready' = [ready EXCEPT ![i] = r],
           cur' = [cur EXCEPT ![i] = c], buf' = [buf EXCEPT ![i] = b],
           out' = [out EXCEPT ![i] = o],
           r \subseteq 1..Len(Inputs[i]), c <= Len(Inputs[i]) + 1,
           o <= Len(Outputs[i]) + 1,
           p = "fanout" => /\ Len(b) = 1 /\ c <= Len(Inputs[i])
                           /\ Head(b).hops = 0 /\ Head(b).nat_rule # {}
                           /\ extract_packet_info(Head(b).pkt)
    PROVE  ProcOK'
  <1>1. /\ pc' \in [Inst -> {"select", "scan", "fanout", "stopped"}]
        /\ ready' \in [Inst -> SUBSET Nat] /\ cur' \in [Inst -> Nat \ {0}]
        /\ buf' \in [Inst -> Seq(Fanout)] /\ out' \in [Inst -> Nat \ {0}]
    BY DEF ProcOK
  <1>2. /\ pc'[i] = p /\ ready'[i] = r /\ cur'[i] = c /\ buf'[i] = b /\ out'[i] = o
    BY DEF ProcOK
  <1>3. InPlace(i)'
    BY <1>2 DEF InPlace, Fresh
  <1>4. ASSUME NEW j \in Inst, j # i
        PROVE  InPlace(j)'
    <2>1. /\ pc'[j] = pc[j] /\ ready'[j] = ready[j] /\ cur'[j] = cur[j]
          /\ buf'[j] = buf[j] /\ out'[j] = out[j]
      BY <1>4 DEF ProcOK
    <2>2. InPlace(j)
      BY DEF ProcOK, InPlace
    <2>3. QED
      BY <2>1, <2>2 DEF InPlace, Fresh
  <1>5. \A j \in Inst : InPlace(j)'
    BY <1>3, <1>4
  <1>6. QED
    BY <1>1, <1>5 DEF ProcOK, InPlace

\* The program counters, indices and buffers stay in place through every step
\* of an instance, and what is accepted is fresh.
LEMMA ProcStep ==
    ASSUME ProcOK, NetOK, NEW i \in Inst, RelayStep(i) \/ Exit(i) \/ Restart(i)
    PROVE  ProcOK'
  <1>1. /\ Len(Inputs[i]) \in Nat /\ Len(Outputs[i]) \in Nat
        /\ pc[i] \in {"select", "scan", "fanout", "stopped"} /\ ready[i] \in SUBSET Nat
        /\ cur[i] \in Nat \ {0} /\ buf[i] \in Seq(Fanout) /\ out[i] \in Nat \ {0}
        /\ InPlace(i)
    BY RelayAssumption DEF ProcOK, InPlace
  <1>2. /\ UNCHANGED pc    => pc' = [pc EXCEPT ![i] = pc[i]]
        /\ UNCHANGED ready => ready' = [ready EXCEPT ![i] = ready[i]]
        /\ UNCHANGED cur   => cur' = [cur EXCEPT ![i] = cur[i]]
        /\ UNCHANGED buf   => buf' = [buf EXCEPT ![i] = buf[i]]
        /\ UNCHANGED out   => out' = [out EXCEPT ![i] = out[i]]
    BY DEF ProcOK
  <1>3. CASE Select(i)
    <2>1. readable(i) \subseteq 1..Len(Inputs[i]) /\ readable(i) \in SUBSET Nat
      BY DEF readable
    <2>2. /\ pc' = [pc EXCEPT ![i] = "scan"] /\ ready' = [ready EXCEPT ![i] = readable(i)]
          /\ cur' = [cur EXCEPT ![i] = 1] /\ UNCHANGED <<buf, out>>
      BY <1>3 DEF Select
    <2>3. 1 \in Nat \ {0} /\ 1 <= Len(Inputs[i]) + 1 /\ out[i] <= Len(Outputs[i]) + 1
      BY <1>1 DEF InPlace
    <2>4. buf' = [buf EXCEPT ![i] = buf[i]] /\ out' = [out EXCEPT ![i] = out[i]]
      BY <1>2, <2>2
    <2>5. /\ pc' = [pc EXCEPT ![i] = "scan"] /\ ready' = [ready EXCEPT ![i] = readable(i)]
          /\ cur' = [cur EXCEPT ![i] = 1]
      BY <2>2
    <2>6. QED
      BY <1>1, <2>1, <2>3, <2>4, <2>5, ProcUpdate
  <1>4. ASSUME pc' = [pc EXCEPT ![i] = "select"], UNCHANGED <<ready, cur, buf, out>>
         PROVE  ProcOK'
    <2>1. /\ pc' = [pc EXCEPT ![i] = "select"]
          /\ ready' = [ready EXCEPT ![i] = ready[i]] /\ cur' = [cur EXCEPT ![i] = cur[i]]
          /\ buf' = [buf EXCEPT ![i] = buf[i]] /\ out' = [out EXCEPT ![i] = out[i]]
      BY <1>2, <1>4
    <2>2. /\ ready[i] \subseteq 1..Len(Inputs[i]) /\ cur[i] <= Len(Inputs[i]) + 1
          /\ out[i] <= Len(Outputs[i]) + 1
      BY <1>1 DEF InPlace
    <2>3. QED
      BY <1>1, <2>1, <2>2, ProcUpdate
  <1>5. CASE SelectTimeout(i)
    BY <1>5 DEF SelectTimeout, vars, procVars, ProcOK, Fresh
  <1>6. ASSUME pc[i] \in {"scan", "fanout"}, cur[i] \in 1..Len(Inputs[i]), NextSocket(i),
               pc' = [pc EXCEPT ![i] = "scan"], UNCHANGED ready,
               NEW b \in Seq(Fanout), buf' = [buf EXCEPT ![i] = b],
               NEW o \in {out[i], 1}, out' = [out EXCEPT ![i] = o]
        PROVE  ProcOK'
    <2>1. cur' = [cur EXCEPT ![i] = cur[i] + 1]
      BY <1>6 DEF NextSocket
    <2>2. /\ cur[i] + 1 \in Nat \ {0} /\ cur[i] + 1 <= Len(Inputs[i]) + 1
          /\ o \in Nat \ {0} /\ o <= Len(Outputs[i]) + 1
          /\ ready[i] \subseteq 1..Len(Inputs[i])
      BY <1>1, <1>6 DEF InPlace
    <2>3. QED
      BY <1>1, <1>2, <1>6, <2>1, <2>2, ProcUpdate
  <1>7. ASSUME pc[i] = "scan", cur[i] \in 1..Len(Inputs[i]), NextSocket(i),
               UNCHANGED <<pc, ready, buf, out>>
        PROVE  ProcOK'
    BY <1>1, <1>2, <1>6, <1>7
  <1>8. CASE SkipSocket(i)
    <2>1. cur[i] \in 1..Len(Inputs[i])
      BY <1>1, <1>8 DEF SkipSocket
    <2>2. QED
      BY <1>7, <1>8, <2>1 DEF SkipSocket
  <1>9. CASE RecvError(i)
    BY <1>7, <1>9, CurrentSocket DEF RecvError, AtReady
  <1>10. CASE DropFrame(i)
    BY <1>7, <1>10, CurrentSocket DEF DropFrame, Recv, AtReady
  <1>11. CASE RateLimited(i)
    BY <1>7, <1>11, CurrentSocket DEF RateLimited, Recv, AtReady
  <1>12. CASE Accept(i)
    <2> DEFINE e == Received(i)
               f == [pkt |-> e.pkt, orig |-> e.orig, hops |-> e.hops,
                     nat_rule |-> get_nat_rule(Rules[i], PacketInfo(e.pkt))]
    <2>1. e \in MarkedEntry /\ cur[i] \in 1..Len(Inputs[i])
      BY <1>12, ReceivedType DEF Accept
    <2>2. /\ ~is_already_relayed(e.pkt) /\ extract_packet_info(e.pkt)
          /\ should_relay(Rules[i], PacketInfo(e.pkt))
      BY <1>12 DEF Accept, Passes
    <2>3. Rules[i] \in Seq(Rule)
      BY RelayAssumption
    <2>4. /\ get_nat_rule(Rules[i], PacketInfo(e.pkt)) \in SUBSET Rule
          /\ get_nat_rule(Rules[i], PacketInfo(e.pkt)) # {}
      BY <2>2, <2>3, GetNatRuleType
    <2>5. e \in Entry /\ e.hops = 0
      BY <2>1, <2>2 DEF MarkedEntry
    <2>6. /\ f \in Fanout /\ f.hops = 0 /\ f.nat_rule # {}
          /\ extract_packet_info(f.pkt)
      BY <2>2, <2>4, <2>5 DEF Entry, Fanout
    <2>7. /\ buf' = [buf EXCEPT ![i] = <<f>>] /\ out' = [out EXCEPT ![i] = 1]
          /\ pc' = [pc EXCEPT ![i] = "fanout"] /\ UNCHANGED <<ready, cur>>
      BY <1>12 DEF Accept
    <2> HIDE DEF e, f
    <2>8. <<f>> \in Seq(Fanout) /\ Len(<<f>>) = 1 /\ Head(<<f>>) = f
      BY <2>6
    <2>9. /\ cur[i] <= Len(Inputs[i]) + 1 /\ cur[i] <= Len(Inputs[i])
          /\ 1 \in Nat \ {0} /\ 1 <= Len(Outputs[i]) + 1
          /\ ready[i] \subseteq 1..Len(Inputs[i])
      BY <1>1, <2>1 DEF InPlace
    <2>10. /\ buf' = [buf EXCEPT ![i] = <<f>>] /\ out' = [out EXCEPT ![i] = 1]
           /\ pc' = [pc EXCEPT ![i] = "fanout"]
           /\ ready' = [ready EXCEPT ![i] = ready[i]] /\ cur' = [cur EXCEPT ![i] = cur[i]]
      BY <1>2, <2>7
    <2>11. QED
      BY <1>1, <2>6, <2>8, <2>9, <2>10, ProcUpdate
  <1>13. CASE EndScan(i)
    <2>1. /\ pc' = [pc EXCEPT ![i] = "select"] /\ UNCHANGED <<ready, cur, buf, out>>
      BY <1>13 DEF EndScan
    <2>2. QED
      BY <1>4, <2>1
  <1>14. ASSUME AtOutput(i), NextOutput(i), UNCHANGED <<pc, ready, cur, buf>>
         PROVE  ProcOK'
    <2>1. out' = [out EXCEPT ![i] = out[i] + 1] /\ pc[i] = "fanout"
      BY <1>14 DEF NextOutput, AtOutput
    <2>2. out[i] + 1 \in Nat \ {0} /\ out[i] + 1 <= Len(Outputs[i]) + 1
      BY <1>1, <1>14 DEF AtOutput
    <2>3. /\ pc' = [pc EXCEPT ![i] = pc[i]] /\ ready' = [ready EXCEPT ![i] = ready[i]]
          /\ cur' = [cur EXCEPT ![i] = cur[i]] /\ buf' = [buf EXCEPT ![i] = buf[i]]
      BY <1>2, <1>14
    <2>4. /\ ready[i] \subseteq 1..Len(Inputs[i]) /\ cur[i] <= Len(Inputs[i]) + 1
          /\ Len(buf[i]) = 1 /\ cur[i] <= Len(Inputs[i])
          /\ Head(buf[i]).hops = 0 /\ Head(buf[i]).nat_rule # {}
          /\ extract_packet_info(Head(buf[i]).pkt)
      BY <1>1, <2>1 DEF InPlace, Fresh
    <2>5. QED
      BY <1>1, <2>1, <2>2, <2>3, <2>4, ProcUpdate
  <1>15. CASE SkipOutput(i)
    BY <1>14, <1>15 DEF SkipOutput
  <1>16. CASE Send(i)
    BY <1>14, <1>16 DEF Send
  <1>17. CASE SendError(i)
    BY <1>14, <1>17 DEF SendError
  <1>18. CASE EndFanout(i)
    <2>1. /\ pc[i] = "fanout" /\ pc' = [pc EXCEPT ![i] = "scan"]
          /\ buf' = [buf EXCEPT ![i] = <<>>] /\ out' = [out EXCEPT ![i] = 1]
          /\ NextSocket(i) /\ UNCHANGED ready
      BY <1>18 DEF EndFanout
    <2>2. cur[i] \in 1..Len(Inputs[i]) /\ <<>> \in Seq(Fanout)
      BY <1>1, <2>1 DEF InPlace
    <2>3. QED
      BY <1>6, <2>1, <2>2
  <1>19. CASE Exit(i)
    <2>1. /\ pc' = [pc EXCEPT ![i] = "stopped"] /\ ready' = [ready EXCEPT ![i] = {}]
          /\ cur' = [cur EXCEPT ![i] = 1] /\ buf' = [buf EXCEPT ![i] = <<>>]
          /\ out' = [out EXCEPT ![i] = 1]
      BY <1>19 DEF Exit
    <2>2. /\ 1 \in Nat \ {0} /\ {} \in SUBSET Nat /\ <<>> \in Seq(Fanout)
          /\ 1 <= Len(Inputs[i]) + 1 /\ 1 <= Len(Outputs[i]) + 1
          /\ {} \subseteq 1..Len(Inputs[i])
      BY <1>1
    <2>3. QED
      BY <2>1, <2>2, ProcUpdate
  <1>20. CASE Restart(i)
    <2>1. /\ pc' = [pc EXCEPT ![i] = "select"] /\ UNCHANGED <<ready, cur, buf, out>>
      BY <1>20 DEF Restart
    <2>2. QED
      BY <1>4, <2>1
  <1>21. QED
    BY <1>3, <1>5, <1>8, <1>9, <1>10, <1>11, <1>12, <1>13, <1>15, <1>16, <1>17,
       <1>18, <1>19, <1>20 DEF RelayStep

\* What the fan-out sends: a marked frame, on a segment the instance is
\* attached to.
LEMMA RewrittenType ==
    ASSUME ProcOK, NEW i \in Inst, AtOutput(i)
    PROVE  /\ rewritten(i) \in Packet /\ is_already_relayed(rewritten(i))
           /\ egress(i) \in Iface /\ ingress(i) \in Iface
           /\ SegmentOf[egress(i)] \in Segment
           /\ Head(buf[i]) \in Fanout /\ Head(buf[i]).hops = 0
  <1> DEFINE e == Head(buf[i])
  <1>1. pc[i] = "fanout" /\ out[i] <= Len(Outputs[i])
    BY DEF AtOutput
  <1>2. /\ buf[i] \in Seq(Fanout) /\ Len(buf[i]) = 1 /\ Fresh(i)
        /\ cur[i] \in Nat \ {0} /\ cur[i] <= Len(Inputs[i]) /\ out[i] \in Nat \ {0}
    BY <1>1 DEF ProcOK
  <1>3. e \in Fanout /\ e.hops = 0 /\ e.nat_rule # {} /\ extract_packet_info(e.pkt)
    BY <1>2 DEF Fresh
  <1>4. Inputs[i] \in Seq(Iface) /\ Outputs[i] \in Seq(Iface)
    BY RelayAssumption
  <1>5. egress(i) \in Iface /\ ingress(i) \in Iface
    BY <1>1, <1>2, <1>4 DEF egress, ingress, IfOf
  <1>6. SegmentOf[egress(i)] \in Segment /\ BroadcastAddrs[egress(i)] \in Seq(Addr)
    BY <1>5, RelayAssumption
  <1>7. e.pkt \in Packet /\ e.nat_rule \in SUBSET Rule
    BY <1>3 DEF Fanout
  <1>8. unwrap(e.nat_rule).nat \in NatOptions
    <2>1. unwrap(e.nat_rule) \in Rule
      BY <1>3, <1>7 DEF unwrap
    <2>2. QED
      BY <2>1 DEF Rule
  <1>9. nat_rewrite_target(e.pkt.dst, BroadcastAddrs[egress(i)]) \in Addr
    <2>1. e.pkt.dst \in Addr
      BY <1>7 DEF Packet
    <2>2. QED
      BY <1>6, <2>1, NatTargetType
  <1>10. validate_ipv4_header(e.pkt)
    BY <1>3 DEF extract_packet_info
  <1>11. rewritten(i) \in Packet /\ is_already_relayed(rewritten(i))
    BY <1>7, <1>8, <1>9, <1>10, ApplyNatMarks DEF rewritten
  <1>12. QED
    BY <1>3, <1>5, <1>6, <1>11

\* The queues of an instance's steps.
LEMMA NetStep ==
    ASSUME ProcOK, NetOK, NEW i \in Inst, RelayStep(i) \/ Exit(i) \/ Restart(i)
    PROVE  NetOK'
  <1>1. CountBypass(i) => bypass' \in [InSock -> Nat]
    BY DEF NetOK, CountBypass
  <1>2. CASE RecvError(i)
    <2>1. <<i, cur[i]>> \in InSock
      BY <1>2, CurrentSocket DEF RecvError
    <2>2. sockerr' \in [InSock -> BOOLEAN]
      BY <1>2, <2>1 DEF RecvError, NetOK
    <2>3. QED
      BY <1>1, <1>2, <2>2 DEF RecvError, NetOK
  <1>3. ASSUME Recv(i), UNCHANGED <<sockerr, outerr, up>>
        PROVE  NetOK'
    BY <1>1, <1>3, ReceivedType DEF Recv, NetOK
  <1>4. CASE DropFrame(i)
    BY <1>3, <1>4 DEF DropFrame
  <1>5. CASE RateLimited(i)
    BY <1>3, <1>5 DEF RateLimited
  <1>6. CASE Accept(i)
    BY <1>3, <1>6 DEF Accept
  <1>7. CASE Send(i)
    <2> DEFINE p == rewritten(i)
               m == Head(buf[i])
               e == [pkt |-> p, orig |-> m.orig, hops |-> m.hops + 1]
    <2>1. p \in Packet /\ is_already_relayed(p) /\ m \in Fanout /\ m.hops = 0
      BY <1>7, RewrittenType DEF Send
    <2>2. queue' = Deliver(SegmentOf[egress(i)], e)
      BY <1>7 DEF Send
    <2>3. m.orig \in Nat
      BY <2>1 DEF Fanout
    <2> HIDE DEF p, m
    <2>4. e \in MarkedEntry
      BY <2>1, <2>3 DEF MarkedEntry, Entry
    <2> HIDE DEF e
    <2>5. queue' \in [InSock -> Seq(MarkedEntry)]
      BY <2>2, <2>4, DeliverType DEF NetOK
    <2>6. QED
      BY <1>7, <2>5 DEF Send, NetOK
  <1>8. CASE Exit(i)
    <2>1. <<>> \in Seq(MarkedEntry)
      OBVIOUS
    <2>2. queue' \in [InSock -> Seq(MarkedEntry)]
      BY <1>8, <2>1 DEF Exit, NetOK
    <2>3. sockerr' \in [InSock -> BOOLEAN]
      BY <1>8 DEF Exit, NetOK
    <2>4. bypass' \in [InSock -> Nat]
      BY <1>8 DEF Exit, NetOK
    <2>5. outerr' \in [OutSock -> BOOLEAN]
      BY <1>8 DEF Exit, NetOK
    <2>6. QED
      BY <1>8, <2>2, <2>3, <2>4, <2>5 DEF Exit, NetOK
  <1>9. CASE UNCHANGED <<queue, sockerr, outerr, up, bypass>>
    BY <1>9 DEF NetOK
  <1>10. CASE SendError(i)
    <2>1. outerr' \in [OutSock -> BOOLEAN]
      BY <1>10 DEF SendError, SendFails, NetOK
    <2>2. UNCHANGED <<queue, sockerr, up, bypass>>
      BY <1>10 DEF SendError
    <2>3. QED
      BY <2>1, <2>2 DEF NetOK
  <1>11. QED
    BY <1>2, <1>4, <1>5, <1>6, <1>7, <1>8, <1>9, <1>10
       DEF RelayStep, Select, SelectTimeout, vars, SkipSocket, EndScan, SkipOutput,
           EndFanout, Restart, histories

\* The limiter of an instance is used at the current time only.
LEMMA LimiterStep ==
    ASSUME LimiterOK, NEW i \in Inst, RelayStep(i) \/ Exit(i) \/ Restart(i)
    PROVE  LimiterOK'
  <1>1. ASSUME NEW r \in RateLimiter, r.last <= now, rl' = [rl EXCEPT ![i] = r],
               UNCHANGED now
        PROVE  LimiterOK'
    BY <1>1 DEF LimiterOK
  <1>2. rl[i] \in RateLimiter /\ rl[i].last <= now /\ now \in Nat
    BY DEF LimiterOK
  <1>3. /\ after_allow(rl[i], now) \in RateLimiter
        /\ after_allow(rl[i], now).last <= now
    BY <1>2, AfterAllowType
  <1>4. CASE RateLimited(i)
    BY <1>1, <1>3, <1>4 DEF RateLimited
  <1>5. CASE Accept(i)
    <2>1. charge(i) \in RateLimiter /\ charge(i).last <= now
      BY <1>2, <1>3 DEF charge
    <2>2. QED
      BY <1>1, <1>5, <2>1 DEF Accept
  <1>6. CASE Restart(i)
    <2>1. limiter(i, now) \in RateLimiter /\ limiter(i, now).last <= now
      BY <1>2, LimiterType
    <2>2. QED
      BY <1>1, <1>6, <2>1 DEF Restart
  <1>7. CASE UNCHANGED <<rl, now>>
    BY <1>7 DEF LimiterOK
  <1>8. QED
    BY <1>4, <1>5, <1>6, <1>7
       DEF RelayStep, Select, SelectTimeout, vars, procVars, SkipSocket, RecvError,
           DropFrame, EndScan, SkipOutput, Send, SendError, EndFanout, Exit

\* What an instance puts on the wire has been relayed once.
LEMMA HistoryStep ==
    ASSUME ProcOK, HistoryOK, NEW i \in Inst, RelayStep(i) \/ Exit(i) \/ Restart(i)
    PROVE  HistoryOK'
  <1>1. CASE Send(i)
    <2> DEFINE p == rewritten(i)
               m == Head(buf[i])
               g == SegmentOf[egress(i)]
               w == [inst |-> i, ingress |-> ingress(i), egress |-> egress(i),
                     orig |-> m.orig, hops |-> m.hops + 1, pkt |-> p,
                     mac |-> dest_mac(p), logged |-> Verbose[i]]
    <2>1. /\ p \in Packet /\ m \in Fanout /\ m.hops = 0 /\ g \in Segment
          /\ ingress(i) \in Iface /\ egress(i) \in Iface
      BY <1>1, RewrittenType DEF Send
    <2>2. dest_mac(p) \in Seq(Octet)
      BY <2>1, DestMacType
    <2>3. m.orig \in Nat /\ Verbose[i] \in BOOLEAN
      BY <2>1, RelayAssumption DEF Fanout
    <2>4. wire' = [wire EXCEPT ![g] = Append(wire[g], w)]
      BY <1>1 DEF Send
    <2> HIDE DEF p, m, g
    <2>5. w \in SentOnce
      BY <2>1, <2>2, <2>3 DEF SentOnce, Sent
    <2> HIDE DEF w
    <2>6. Append(wire[g], w) \in Seq(SentOnce)
      BY <2>1, <2>5 DEF HistoryOK
    <2>7. wire' \in [Segment -> Seq(SentOnce)]
      BY <2>1, <2>4, <2>6 DEF HistoryOK
    <2>8. QED
      BY <1>1, <2>7 DEF Send, HistoryOK
  <1>2. CASE /\ UNCHANGED <<originals, wire, lost>>
             /\ faults' = faults \/ faults' = faults + 1
    BY <1>2 DEF HistoryOK
  <1>3. CASE SendError(i)
    <2> DEFINE m == Head(buf[i])
    <2>1. m \in Fanout /\ egress(i) \in Iface
      BY <1>3, RewrittenType DEF SendError
    <2>2. m.orig \in Nat
      BY <2>1 DEF Fanout
    <2>3. lost' = lost \cup {[inst |-> i, egress |-> egress(i), orig |-> m.orig]}
      BY <1>3 DEF SendError, LoseFrame
    <2> HIDE DEF m
    <2>4. lost' \subseteq Lost
      BY <2>1, <2>2, <2>3 DEF Lost, HistoryOK
    <2>5. QED
      BY <1>3, <2>4 DEF SendError, HistoryOK
  <1>4. QED
    BY <1>1, <1>2, <1>3
       DEF RelayStep, Select, SelectTimeout, vars, histories, SkipSocket, RecvError,
           DropFrame, RateLimited, Accept, EndScan, SkipOutput, EndFanout, Exit,
           Restart

-----------------------------------------------------------------------------
(* Hosts, links and the clock *)

\* A frame of a host has not been relayed, so it enters the queues as one that
\* may still be.
LEMMA HostSendStep ==
    ASSUME LoopInv, NEW g \in Segment, NEW p \in Frames, HostSend(g, p)
    PROVE  LoopInv'
  <1> DEFINE e == [pkt |-> p, orig |-> Len(originals) + 1, hops |-> 0]
  <1>1. ProcOK /\ LimiterOK /\ NetOK /\ HistoryOK
    BY Parts
  <1>2. /\ originals' = Append(originals, [seg |-> g, pkt |-> p])
        /\ queue' = Deliver(g, e)
        /\ UNCHANGED <<pc, ready, cur, buf, out>> /\ UNCHANGED <<rl, now>>
        /\ UNCHANGED <<sockerr, outerr, up, bypass>>
        /\ UNCHANGED <<wire, lost, faults>>
    BY DEF HostSend, procVars
  <1>3. p \in Packet /\ Len(originals) + 1 \in Nat
    BY <1>1, RelayAssumption DEF HistoryOK
  <1>4. e \in MarkedEntry
    BY <1>3 DEF MarkedEntry, Entry
  <1> HIDE DEF e
  <1>5. NetOK'
    <2>1. queue' \in [InSock -> Seq(MarkedEntry)]
      BY <1>1, <1>2, <1>4, DeliverType DEF NetOK
    <2>2. QED
      BY <1>1, <1>2, <2>1 DEF NetOK
  <1>6. HistoryOK'
    <2>1. [seg |-> g, pkt |-> p] \in [seg: Segment, pkt: Packet]
      BY <1>3
    <2>2. originals' \in Seq([seg: Segment, pkt: Packet])
      BY <1>1, <1>2, <2>1 DEF HistoryOK
    <2>3. QED
      BY <1>1, <1>2, <2>2 DEF HistoryOK
  <1>7. ProcOK'
    BY <1>1, <1>2 DEF ProcOK, Fresh
  <1>8. LimiterOK'
    BY <1>1, <1>2 DEF LimiterOK
  <1>9. (ProcOK /\ LimiterOK /\ NetOK /\ HistoryOK)'
    BY <1>5, <1>6, <1>7, <1>8
  <1>10. QED
    BY <1>9, Parts, PTL

\* Links and the clock touch no frame and no process.
LEMMA LinkClockStep ==
    ASSUME LoopInv, Tick \/ \E f \in Iface : LinkDown(f) \/ LinkUp(f)
    PROVE  LoopInv'
  <1>1. ProcOK /\ LimiterOK /\ NetOK /\ HistoryOK
    BY Parts
  <1>2. /\ UNCHANGED <<pc, ready, cur, buf, out>>
        /\ UNCHANGED rl /\ (now' = now \/ now' = now + 1)
        /\ UNCHANGED <<queue, bypass>>
        /\ UNCHANGED <<originals, wire, lost>>
        /\ faults' = faults \/ faults' = faults + 1
    BY DEF Tick, LinkDown, LinkUp, procVars, histories
  <1>3. /\ sockerr' \in [InSock -> BOOLEAN] /\ up' \in [Iface -> BOOLEAN]
        /\ outerr' \in [OutSock -> BOOLEAN]
    BY <1>1 DEF NetOK, Tick, LinkDown, LinkUp
  <1>4. ProcOK'
    BY <1>1, <1>2 DEF ProcOK, Fresh
  <1>5. LimiterOK'
    <2>1. /\ rl \in [Inst -> RateLimiter] /\ now \in Nat
          /\ \A i \in Inst : rl[i].last \in Nat /\ rl[i].last <= now
      BY <1>1 DEF LimiterOK, RateLimiter
    <2>2. QED
      BY <1>2, <2>1 DEF LimiterOK
  <1>6. NetOK'
    BY <1>1, <1>2, <1>3 DEF NetOK
  <1>7. HistoryOK'
    BY <1>1, <1>2 DEF HistoryOK
  <1>8. (ProcOK /\ LimiterOK /\ NetOK /\ HistoryOK)'
    BY <1>4, <1>5, <1>6, <1>7
  <1>9. QED
    BY <1>8, Parts, PTL

\* The invariant is inductive.
LEMMA NextLoopInv == LoopInv /\ [Next]_vars => LoopInv'
  <1> SUFFICES ASSUME LoopInv, [Next]_vars PROVE LoopInv'
    OBVIOUS
  <1>1. ProcOK /\ LimiterOK /\ NetOK /\ HistoryOK
    BY Parts
  <1>2. ASSUME NEW i \in Inst, RelayStep(i) \/ Exit(i) \/ Restart(i)
        PROVE  LoopInv'
    <2>1. (ProcOK /\ LimiterOK /\ NetOK /\ HistoryOK)'
      BY <1>1, <1>2, ProcStep, LimiterStep, NetStep, HistoryStep
    <2>2. QED
      BY <2>1, Parts, PTL
  <1>3. CASE UNCHANGED vars
    BY <1>3 DEF vars, procVars, histories, LoopInv, TypeOK, Fresh
  <1>4. QED
    BY <1>2, <1>3, HostSendStep, LinkClockStep DEF Next

-----------------------------------------------------------------------------
(* Theorems *)

\* Relay::run keeps the inductive invariant: whatever waits in a socket has
\* been relayed at most once, and carries the marker if it has been.
THEOREM LoopInvTheorem == Spec => []LoopInv
  BY InitLoopInv, NextLoopInv, PTL DEF Spec

\* Every variable of the relays keeps its type: indices into the -i and -o
\* lists stay in range, the rate limiter's tokens never go below zero.
THEOREM TypeOKTheorem == Spec => []TypeOK
  <1>1. LoopInv => TypeOK
    BY DEF LoopInv
  <1>2. QED
    BY <1>1, LoopInvTheorem, PTL

\* No frame is ever relayed twice, for any number of bcr instances, any
\* topology of segments between them, any rules and any faults: the marker
\* apply_nat writes is what is_already_relayed looks for, in every instance.
THEOREM LoopFreeTheorem == Spec => []LoopFree
  <1>1. LoopInv => LoopFree
    <2> SUFFICES ASSUME LoopInv, NEW x \in OnWire PROVE SentAt(x).hops = 1
      BY DEF LoopFree
    <2>1. PICK g \in Segment : x \in {<<g, k>> : k \in DOMAIN wire[g]}
      BY DEF OnWire
    <2>2. PICK k \in DOMAIN wire[g] : x = <<g, k>>
      BY <2>1
    <2>3. wire[g] \in Seq(SentOnce)
      BY DEF LoopInv
    <2>4. wire[g][k] \in SentOnce
      BY <2>2, <2>3
    <2>5. QED
      BY <2>2, <2>4 DEF SentAt, SentOnce
  <1>2. QED
    BY <1>1, LoopInvTheorem, PTL

\* Once a frame is accepted the unwrap() of its rule in Relay::run cannot panic
\* and apply_nat returns Ok for every output, whatever the frame's length
\* fields say: extract_packet_info has checked all that apply_nat and
\* apply_udp_nat index into.
THEOREM FanoutCannotFailTheorem == Spec => []FanoutCannotFail
  <1>1. LoopInv => FanoutCannotFail
    <2> SUFFICES ASSUME LoopInv, NEW i \in Inst, pc[i] = "fanout"
                 PROVE  Head(buf[i]).nat_rule # {} /\ apply_nat_ok(Head(buf[i]).pkt)
      BY DEF FanoutCannotFail
    <2> DEFINE e == Head(buf[i])
    <2>1. e.nat_rule # {} /\ extract_packet_info(e.pkt)
      BY DEF LoopInv, Fresh
    <2>2. buf[i] \in Seq(Fanout) /\ Len(buf[i]) = 1
      BY DEF LoopInv, TypeOK
    <2>3. e \in Fanout
      BY <2>2
    <2> HIDE DEF e
    <2>4. e.pkt \in Packet
      BY <2>3 DEF Fanout
    <2>5. apply_nat_ok(e.pkt)
      BY <2>1, <2>4, ParsedCanBeRewritten
    <2>6. QED
      BY <2>1, <2>5 DEF e
  <1>2. QED
    BY <1>1, LoopInvTheorem, PTL
=============================================================================
