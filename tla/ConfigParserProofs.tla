------------------------- MODULE ConfigParserProofs -------------------------
(***************************************************************************)
(* What the parser lets through, for every file: rules of the types the    *)
(* other modules assume of a configuration, from lines with nothing wrong  *)
(* in them; and that they decide every packet as the lines say.            *)
(***************************************************************************)
EXTENDS ConfigParser, MinMaxLemmas

\* An octet whose low bits are cleared is an octet.
LEMMA ClearedOctet ==
    ASSUME NEW x \in 0..255, NEW k \in 0..8
    PROVE  x - (x % BlockSize[k + 1]) \in 0..255
  <1>1. /\ BlockSize[1] = 256 /\ BlockSize[2] = 128 /\ BlockSize[3] = 64
        /\ BlockSize[4] = 32  /\ BlockSize[5] = 16  /\ BlockSize[6] = 8
        /\ BlockSize[7] = 4   /\ BlockSize[8] = 2   /\ BlockSize[9] = 1
    BY DEF BlockSize
  <1>2. /\ x - (x % 256) \in 0..255 /\ x - (x % 128) \in 0..255 /\ x - (x % 64) \in 0..255
        /\ x - (x % 32) \in 0..255 /\ x - (x % 16) \in 0..255 /\ x - (x % 8) \in 0..255
        /\ x - (x % 4) \in 0..255 /\ x - (x % 2) \in 0..255 /\ x - (x % 1) \in 0..255
    OBVIOUS
  <1>3. k + 1 \in {1, 2, 3, 4, 5, 6, 7, 8, 9}
    OBVIOUS
  <1> DEFINE m == k + 1
  <1>4. m \in {1, 2, 3, 4, 5, 6, 7, 8, 9}
    BY <1>3
  <1> HIDE DEF m
  <1>5. x - (x % BlockSize[m]) \in 0..255
    <2> DEFINE ok(n) == x - (x % n) \in 0..255
    <2>1. ok(256) /\ ok(128) /\ ok(64) /\ ok(32) /\ ok(16) /\ ok(8) /\ ok(4) /\ ok(2) /\ ok(1)
      BY <1>2
    <2> HIDE DEF ok
    <2>2. ok(BlockSize[m])
      BY <1>1, <1>4, <2>1
    <2>3. QED
      BY <2>2 DEF ok
  <1>6. QED
    BY <1>5 DEF m

\* Clearing the host bits of an address yields an address.
LEMMA MaskType ==
    ASSUME NEW a \in Addr, NEW n \in 0..32
    PROVE  Mask(a, n) \in Addr
  <1> DEFINE kept(j) == IF n >= 8 * j THEN 8 ELSE IF n <= 8 * (j - 1) THEN 0
                                            ELSE n - 8 * (j - 1)
             octet(j) == a[j] - (a[j] % BlockSize[kept(j) + 1])
  <1>1. \A j \in 1..4 : kept(j) \in 0..8
    OBVIOUS
  <1>2. \A j \in 1..4 : a[j] \in 0..255
    BY DEF Addr, Octet
  <1>3. Mask(a, n) = <<octet(1), octet(2), octet(3), octet(4)>>
    BY DEF Mask
  <1> HIDE DEF kept
  <1>4. \A j \in 1..4 : octet(j) \in 0..255
    BY <1>1, <1>2, ClearedOctet
  <1> HIDE DEF octet
  <1>5. octet(1) \in Octet /\ octet(2) \in Octet /\ octet(3) \in Octet /\ octet(4) \in Octet
    BY <1>4 DEF Octet
  <1>6. QED
    BY <1>3, <1>5 DEF Addr

\* An address matcher that is built is one.
LEMMA IpMatcherType ==
    ASSUME NEW w \in IpWord
    PROVE  parse_ip_matcher(w) \subseteq IpMatcher
  <1>1. UNSPECIFIED \in Addr /\ LIMITED_BROADCAST \in Addr
    BY DEF UNSPECIFIED, LIMITED_BROADCAST, Addr, Octet
  <1>2. AnyIp \in IpMatcher
    BY <1>1 DEF AnyIp, IpMatcher
  <1>3. \A a \in Addr : ExactIp(a) \in IpMatcher
    BY DEF ExactIp, IpMatcher
  <1>4. \A a \in Addr : \A n \in 0..32 : CidrIp(a, n) \in IpMatcher
    BY MaskType DEF CidrIp, IpMatcher
  <1>5. parse_ipv4(w.addr) \subseteq Addr
    BY DEF parse_ipv4
  <1>6. CASE w.form = "any"
    BY <1>2, <1>6 DEF parse_ip_matcher
  <1>7. CASE w.form = "cidr"
    BY <1>4, <1>5, <1>7 DEF parse_ip_matcher
  <1>8. CASE w.form = "addr"
    BY <1>3, <1>5, <1>8 DEF parse_ip_matcher
  <1>9. CASE w.form \notin {"any", "cidr", "addr"}
    BY <1>9 DEF parse_ip_matcher
  <1>10. QED
    BY <1>6, <1>7, <1>8, <1>9

\* So is a port matcher.
LEMMA PortMatcherType ==
    ASSUME NEW w \in PortWord
    PROVE  parse_port_matcher(w) \subseteq PortMatcher
  <1>1. AnyPort \in PortMatcher
    <2>1. 0 \in Word
      BY DEF Word
    <2>2. QED
      BY <2>1 DEF AnyPort, PortMatcher
  <1>2. \A p \in Word : ExactPort(p) \in PortMatcher
    BY DEF ExactPort, PortMatcher
  <1>3. \A p, q \in Word : RangePort(p, q) \in PortMatcher
    BY DEF RangePort, PortMatcher
  <1>4. parse_u16(w.lo) \subseteq Word /\ parse_u16(w.hi) \subseteq Word
    BY DEF parse_u16
  <1>5. CASE w.form = "any"
    BY <1>1, <1>5 DEF parse_port_matcher
  <1>6. CASE w.form = "range"
    BY <1>3, <1>4, <1>6 DEF parse_port_matcher
  <1>7. CASE w.form = "number"
    BY <1>2, <1>4, <1>7 DEF parse_port_matcher
  <1>8. CASE w.form \notin {"any", "range", "number"}
    BY <1>8 DEF parse_port_matcher
  <1>9. QED
    BY <1>5, <1>6, <1>7, <1>8

\* The last option with a key, if there is one.
LEMMA LastAddr ==
    ASSUME NEW opts \in Seq(OptWord), NEW key,
           \A k \in DOMAIN opts : opts[k].key = key => opts[k].addr \in Addr
    PROVE  /\ LastOf(opts, key, LAMBDA o : o.addr) \in SUBSET Addr
           /\ LastOf(opts, key, LAMBDA o : o.addr) = {}
                 <=> \A k \in DOMAIN opts : opts[k].key # key
  <1> DEFINE I == {k \in 1..Len(opts) : opts[k].key = key}
             m == IF I # {} THEN Max(I) ELSE 0
  <1>1. LastOf(opts, key, LAMBDA o : o.addr) = IF m = 0 THEN {} ELSE {opts[m].addr}
    BY DEF LastOf, SelectLastInSeq
  <1>2. Len(opts) \in Nat /\ I \in SUBSET (1..Len(opts)) /\ DOMAIN opts = 1..Len(opts)
    OBVIOUS
  <1>3. I # {} => Max(I) \in I
    <2> HIDE DEF I
    <2>1. QED
      BY <1>2, MaxIn
  <1> DEFINE L == LastOf(opts, key, LAMBDA o : o.addr)
  <1>4. L = IF m = 0 THEN {} ELSE {opts[m].addr}
    BY <1>1
  <1> HIDE DEF L
  <1>5. CASE I = {}
    <2>1. L = {}
      BY <1>4, <1>5
    <2>2. \A k \in DOMAIN opts : opts[k].key # key
      BY <1>2, <1>5
    <2>3. QED
      BY <2>1, <2>2 DEF L
  <1>6. CASE I # {}
    <2>1. m \in 1..Len(opts) /\ opts[m].key = key
      BY <1>3, <1>6
    <2> HIDE DEF m, I
    <2>2. m # 0 /\ m \in DOMAIN opts
      BY <1>2, <2>1
    <2>3. L = {opts[m].addr} /\ opts[m].addr \in Addr
      BY <1>4, <2>1, <2>2
    <2>4. QED
      BY <2>1, <2>2, <2>3 DEF L
  <1>7. QED
    BY <1>5, <1>6

LEMMA LastPort ==
    ASSUME NEW opts \in Seq(OptWord), NEW key,
           \A k \in DOMAIN opts : opts[k].key = key => opts[k].port \in Word
    PROVE  /\ LastOf(opts, key, LAMBDA o : o.port) \in SUBSET Word
           /\ LastOf(opts, key, LAMBDA o : o.port) = {}
                 <=> \A k \in DOMAIN opts : opts[k].key # key
  <1> DEFINE I == {k \in 1..Len(opts) : opts[k].key = key}
             m == IF I # {} THEN Max(I) ELSE 0
  <1>1. LastOf(opts, key, LAMBDA o : o.port) = IF m = 0 THEN {} ELSE {opts[m].port}
    BY DEF LastOf, SelectLastInSeq
  <1>2. Len(opts) \in Nat /\ I \in SUBSET (1..Len(opts)) /\ DOMAIN opts = 1..Len(opts)
    OBVIOUS
  <1>3. I # {} => Max(I) \in I
    <2> HIDE DEF I
    <2>1. QED
      BY <1>2, MaxIn
  <1> DEFINE L == LastOf(opts, key, LAMBDA o : o.port)
  <1>4. L = IF m = 0 THEN {} ELSE {opts[m].port}
    BY <1>1
  <1> HIDE DEF L
  <1>5. CASE I = {}
    <2>1. L = {}
      BY <1>4, <1>5
    <2>2. \A k \in DOMAIN opts : opts[k].key # key
      BY <1>2, <1>5
    <2>3. QED
      BY <2>1, <2>2 DEF L
  <1>6. CASE I # {}
    <2>1. m \in 1..Len(opts) /\ opts[m].key = key
      BY <1>3, <1>6
    <2> HIDE DEF m, I
    <2>2. m # 0 /\ m \in DOMAIN opts
      BY <1>2, <2>1
    <2>3. L = {opts[m].port} /\ opts[m].port \in Word
      BY <1>4, <2>1, <2>2
    <2>4. QED
      BY <2>1, <2>2, <2>3 DEF L
  <1>7. QED
    BY <1>5, <1>6

-----------------------------------------------------------------------------
(* When the functions fail *)

\* The parts of Faulty: words that mean nothing.
BadIp(w) ==
    \/ w.form \in {"junk", "directed"}
    \/ w.form \in {"addr", "cidr"} /\ w.addr \notin Addr
    \/ w.form = "cidr" /\ w.len \notin 0..32
BadPort(w) ==
    \/ w.form = "junk"
    \/ w.form # "any" /\ w.lo \notin Word
    \/ w.form = "range" /\ ~(w.hi \in Word /\ w.lo <= w.hi)
BadOpt(o) ==
    \/ o.key \notin {"snat", "dnat", "sport", "dport"}
    \/ o.key \in {"snat", "dnat"} /\ o.addr \notin Addr
    \/ o.key \in {"sport", "dport"} /\ o.port \notin Word

\* parse_ip_matcher fails exactly on those.
LEMMA IpFails ==
    ASSUME NEW w \in IpWord
    PROVE  parse_ip_matcher(w) = {} <=> BadIp(w)
  <1>1. w.form \in {"any", "directed", "addr", "cidr", "junk"}
    BY DEF IpWord
  <1>2. parse_ipv4(w.addr) = {} <=> w.addr \notin Addr
    BY DEF parse_ipv4
  <1>3. CASE w.form = "any"
    BY <1>3 DEF parse_ip_matcher, BadIp
  <1>4. CASE w.form = "cidr"
    <2>1. parse_ip_matcher(w)
            = {CidrIp(a, w.len) : a \in {a \in parse_ipv4(w.addr) : w.len \in 0..32}}
      BY <1>4 DEF parse_ip_matcher
    <2>2. BadIp(w) <=> w.addr \notin Addr \/ w.len \notin 0..32
      BY <1>4 DEF BadIp
    <2>3. QED
      BY <1>2, <2>1, <2>2
  <1>5. CASE w.form = "addr"
    <2>1. parse_ip_matcher(w) = {ExactIp(a) : a \in parse_ipv4(w.addr)}
      BY <1>5 DEF parse_ip_matcher
    <2>2. BadIp(w) <=> w.addr \notin Addr
      BY <1>5 DEF BadIp
    <2>3. QED
      BY <1>2, <2>1, <2>2
  <1>6. CASE w.form \in {"junk", "directed"}
    BY <1>6 DEF parse_ip_matcher, BadIp
  <1>7. QED
    BY <1>1, <1>3, <1>4, <1>5, <1>6

\* So does parse_port_matcher.
LEMMA PortFails ==
    ASSUME NEW w \in PortWord
    PROVE  parse_port_matcher(w) = {} <=> BadPort(w)
  <1>1. w.form \in {"any", "number", "range", "junk"} /\ w.lo \in Int /\ w.hi \in Int
    BY DEF PortWord
  <1>2. /\ parse_u16(w.lo) = {x \in {w.lo} : x \in Word}
        /\ parse_u16(w.hi) = {x \in {w.hi} : x \in Word}
    BY DEF parse_u16
  <1>3. CASE w.form = "any"
    BY <1>3 DEF parse_port_matcher, BadPort
  <1>4. CASE w.form = "number"
    <2>1. parse_port_matcher(w) = {ExactPort(p) : p \in parse_u16(w.lo)}
      BY <1>4 DEF parse_port_matcher
    <2>2. BadPort(w) <=> w.lo \notin Word
      BY <1>4 DEF BadPort
    <2>3. QED
      BY <1>2, <2>1, <2>2
  <1>5. CASE w.form = "range"
    <2> DEFINE Q == {q \in parse_u16(w.hi) : w.lo <= q}
    <2>1. parse_port_matcher(w) = {RangePort(p, q) : p \in parse_u16(w.lo), q \in Q}
      BY <1>5 DEF parse_port_matcher
    <2>2. BadPort(w) <=> w.lo \notin Word \/ ~(w.hi \in Word /\ w.lo <= w.hi)
      BY <1>5 DEF BadPort
    <2>3. parse_u16(w.lo) = {} <=> w.lo \notin Word
      BY <1>2
    <2>4. Q = {} <=> ~(w.hi \in Word /\ w.lo <= w.hi)
      BY <1>2
    <2> HIDE DEF Q
    <2>5. parse_port_matcher(w) = {} <=> (parse_u16(w.lo) = {} \/ Q = {})
      <3>1. ASSUME NEW p \in parse_u16(w.lo), NEW q \in Q
            PROVE  RangePort(p, q) \in parse_port_matcher(w)
        BY <2>1
      <3>2. ASSUME NEW x \in parse_port_matcher(w)
            PROVE  parse_u16(w.lo) # {} /\ Q # {}
        BY <2>1
      <3>3. QED
        BY <3>1, <3>2
    <2>6. QED
      BY <2>2, <2>3, <2>4, <2>5
  <1>6. CASE w.form = "junk"
    BY <1>6 DEF parse_port_matcher, BadPort
  <1>7. QED
    BY <1>1, <1>3, <1>4, <1>5, <1>6

\* And the loop over the options; NoNat comes out of it only without options.
LEMMA NatParsed ==
    ASSUME NEW opts \in Seq(OptWord)
    PROVE  /\ parse_nat(opts) = {} <=> \E k \in DOMAIN opts : BadOpt(opts[k])
           /\ \A n \in parse_nat(opts) :
                 n \in NatOptions /\ (n = NoNat <=> DOMAIN opts = {})
  <1> DEFINE sa == LastOf(opts, "snat", LAMBDA o : o.addr)
             da == LastOf(opts, "dnat", LAMBDA o : o.addr)
             sp == LastOf(opts, "sport", LAMBDA o : o.port)
             dp == LastOf(opts, "dport", LAMBDA o : o.port)
             n  == [source_ip |-> sa, dest_ip |-> da, source_port |-> sp, dest_port |-> dp]
  <1>1. parse_nat(opts) = {x \in {n} : \A k \in DOMAIN opts : OptOk(opts[k])}
    BY DEF parse_nat
  <1>2. \A o : OptOk(o) <=> ~BadOpt(o)
    BY DEF OptOk, BadOpt, parse_ipv4, parse_u16
  <1>3. ASSUME \A k \in DOMAIN opts : ~BadOpt(opts[k])
        PROVE  n \in NatOptions /\ (n = NoNat <=> DOMAIN opts = {})
    <2>1. \A k \in DOMAIN opts :
             /\ opts[k].key \in {"snat", "dnat", "sport", "dport"}
             /\ opts[k].key = "snat" => opts[k].addr \in Addr
             /\ opts[k].key = "dnat" => opts[k].addr \in Addr
             /\ opts[k].key = "sport" => opts[k].port \in Word
             /\ opts[k].key = "dport" => opts[k].port \in Word
      BY <1>3 DEF BadOpt
    <2>2. sa \in SUBSET Addr /\ (sa = {} <=> \A k \in DOMAIN opts : opts[k].key # "snat")
      BY <2>1, LastAddr
    <2>3. da \in SUBSET Addr /\ (da = {} <=> \A k \in DOMAIN opts : opts[k].key # "dnat")
      BY <2>1, LastAddr
    <2>4. sp \in SUBSET Word /\ (sp = {} <=> \A k \in DOMAIN opts : opts[k].key # "sport")
      BY <2>1, LastPort
    <2>5. dp \in SUBSET Word /\ (dp = {} <=> \A k \in DOMAIN opts : opts[k].key # "dport")
      BY <2>1, LastPort
    <2> HIDE DEF sa, da, sp, dp
    <2>6. n \in NatOptions
      BY <2>2, <2>3, <2>4, <2>5 DEF NatOptions
    <2>7. n = NoNat <=> sa = {} /\ da = {} /\ sp = {} /\ dp = {}
      BY DEF NoNat
    <2>8. QED
      BY <2>1, <2>2, <2>3, <2>4, <2>5, <2>6, <2>7
  <1> HIDE DEF n
  <1>4. QED
    BY <1>1, <1>2, <1>3

\* A line's two endpoints.
LEMMA EndpointsParsed ==
    ASSUME NEW e \in Endpoint
    PROVE  /\ parse_addr_port(e) = {}
                 <=> (BadIp(e.ip) \/ BadPort(e.port) \/ e.colons # 1)
           /\ \A s \in parse_addr_port(e) : s.ip \in IpMatcher /\ s.port \in PortMatcher
           /\ parse_dest_addr_port(e) = {}
                 <=> \/ (BadIp(e.ip) /\ e.ip.form # "directed")
                     \/ BadPort(e.port) \/ e.colons # 1
           /\ \A d \in parse_dest_addr_port(e) :
                 /\ d.ip \in IpMatcher /\ d.port \in PortMatcher
                 /\ d.type \in {"any", "limited", "directed"}
  <1>1. e.ip \in IpWord /\ e.port \in PortWord
    BY DEF Endpoint
  <1>2. /\ parse_ip_matcher(e.ip) = {} <=> BadIp(e.ip)
        /\ parse_ip_matcher(e.ip) \subseteq IpMatcher
        /\ parse_port_matcher(e.port) = {} <=> BadPort(e.port)
        /\ parse_port_matcher(e.port) \subseteq PortMatcher
    BY <1>1, IpFails, IpMatcherType, PortFails, PortMatcherType
  <1> DEFINE P == {p \in parse_port_matcher(e.port) : e.colons = 1}
             D == DestMatcher(e.ip)
  <1>3. P \subseteq PortMatcher /\ (P = {} <=> (BadPort(e.port) \/ e.colons # 1))
    BY <1>2
  <1>4. /\ D = {} <=> (BadIp(e.ip) /\ e.ip.form # "directed")
        /\ \A d \in D : d.ip \in IpMatcher /\ d.type \in {"any", "limited", "directed"}
    <2>1. LIMITED_BROADCAST \in Addr /\ UNSPECIFIED \in Addr
      BY DEF UNSPECIFIED, LIMITED_BROADCAST, Addr, Octet
    <2>2. ExactIp(LIMITED_BROADCAST) \in IpMatcher /\ AnyIp \in IpMatcher
      BY <2>1 DEF ExactIp, AnyIp, IpMatcher
    <2> DEFINE Good == \A d \in D : /\ d.ip \in IpMatcher
                                     /\ d.type \in {"any", "limited", "directed"}
    <2>3. CASE e.ip.form = "addr" /\ e.ip.addr = LIMITED_BROADCAST
      <3> DEFINE x == [ip |-> ExactIp(LIMITED_BROADCAST), type |-> "limited"]
      <3>1. D = {x}
        BY <2>3 DEF DestMatcher
      <3>2. ~BadIp(e.ip)
        BY <2>1, <2>3 DEF BadIp
      <3>3. x.ip \in IpMatcher /\ x.type = "limited"
        BY <2>2
      <3> HIDE DEF x, D
      <3>4. QED
        BY <3>1, <3>2, <3>3
    <2>4. CASE e.ip.form = "directed"
      <3> DEFINE x == [ip |-> AnyIp, type |-> "directed"]
      <3>1. D = {x}
        BY <2>4 DEF DestMatcher
      <3>2. x.ip \in IpMatcher /\ x.type = "directed"
        BY <2>2
      <3> HIDE DEF x, D
      <3>3. QED
        BY <2>4, <3>1, <3>2
    <2>5. CASE /\ ~(e.ip.form = "addr" /\ e.ip.addr = LIMITED_BROADCAST)
               /\ e.ip.form # "directed"
      <3>1. D = {[ip |-> i, type |-> "any"] : i \in parse_ip_matcher(e.ip)}
        BY <2>5 DEF DestMatcher
      <3> HIDE DEF D
      <3>2. D = {} <=> parse_ip_matcher(e.ip) = {}
        BY <3>1
      <3>3. Good
        BY <1>2, <3>1
      <3>4. QED
        BY <1>2, <2>5, <3>2, <3>3
    <2>6. QED
      BY <2>3, <2>4, <2>5
  <1>5. parse_addr_port(e) = {[ip |-> i, port |-> p] : i \in parse_ip_matcher(e.ip), p \in P}
    BY DEF parse_addr_port
  <1>6. parse_dest_addr_port(e)
          = {[ip |-> d.ip, port |-> p, type |-> d.type] : d \in D, p \in P}
    BY DEF parse_dest_addr_port
  <1> HIDE DEF P, D
  <1>7. /\ parse_addr_port(e) = {} <=> (parse_ip_matcher(e.ip) = {} \/ P = {})
        /\ \A s \in parse_addr_port(e) : s.ip \in IpMatcher /\ s.port \in PortMatcher
    <2>1. ASSUME NEW i \in parse_ip_matcher(e.ip), NEW p \in P
          PROVE  [ip |-> i, port |-> p] \in parse_addr_port(e)
      BY <1>5
    <2>2. ASSUME NEW s \in parse_addr_port(e)
          PROVE  /\ parse_ip_matcher(e.ip) # {} /\ P # {}
                 /\ s.ip \in IpMatcher /\ s.port \in PortMatcher
      <3>1. PICK i \in parse_ip_matcher(e.ip), p \in P : s = [ip |-> i, port |-> p]
        BY <1>5
      <3>2. QED
        BY <1>2, <1>3, <3>1
    <2>3. QED
      BY <2>1, <2>2
  <1>8. /\ parse_dest_addr_port(e) = {} <=> (D = {} \/ P = {})
        /\ \A d \in parse_dest_addr_port(e) :
              /\ d.ip \in IpMatcher /\ d.port \in PortMatcher
              /\ d.type \in {"any", "limited", "directed"}
    <2>1. ASSUME NEW d \in D, NEW p \in P
          PROVE  [ip |-> d.ip, port |-> p, type |-> d.type] \in parse_dest_addr_port(e)
      BY <1>6
    <2>2. ASSUME NEW x \in parse_dest_addr_port(e)
          PROVE  /\ D # {} /\ P # {} /\ x.ip \in IpMatcher /\ x.port \in PortMatcher
                 /\ x.type \in {"any", "limited", "directed"}
      <3>1. PICK d \in D, p \in P : x = [ip |-> d.ip, port |-> p, type |-> d.type]
        BY <1>6
      <3>2. QED
        BY <1>3, <1>4, <3>1
    <2>3. QED
      BY <2>1, <2>2
  <1>9. QED
    BY <1>2, <1>3, <1>4, <1>7, <1>8

\* parse_rule fails exactly on a line to be refused, and else yields one rule.
LEMMA ParseRule ==
    ASSUME NEW w \in Line, w.kind = "words"
    PROVE  /\ parse_rule(w) = {} <=> Refused(w)
           /\ parse_rule(w) \subseteq Rule
  <1> DEFINE S == parse_addr_port(w.src)
             D == parse_dest_addr_port(w.dst)
             N == parse_nat(w.opts)
             rec(s, d, n) ==
                 [action |-> w.action, protocol |-> w.protocol,
                  src_ip |-> s.ip, src_port |-> s.port, dst_ip |-> d.ip,
                  dst_port |-> d.port, broadcast_type |-> d.type, nat |-> n]
             words == /\ w.words >= 4 /\ w.action \in {"allow", "deny"}
                      /\ w.protocol \in {"udp", "any"}
  <1>1. w.src \in Endpoint /\ w.dst \in Endpoint /\ w.opts \in Seq(OptWord)
    BY DEF Line
  <1>2. /\ S = {} <=> (BadIp(w.src.ip) \/ BadPort(w.src.port) \/ w.src.colons # 1)
        /\ \A s \in S : s.ip \in IpMatcher /\ s.port \in PortMatcher
    BY <1>1, EndpointsParsed
  <1>3. /\ D = {} <=> \/ (BadIp(w.dst.ip) /\ w.dst.ip.form # "directed")
                      \/ BadPort(w.dst.port) \/ w.dst.colons # 1
        /\ \A d \in D : /\ d.ip \in IpMatcher /\ d.port \in PortMatcher
                        /\ d.type \in {"any", "limited", "directed"}
    BY <1>1, EndpointsParsed
  <1>4. /\ N = {} <=> \E k \in DOMAIN w.opts : BadOpt(w.opts[k])
        /\ \A n \in N : n \in NatOptions /\ (n = NoNat <=> DOMAIN w.opts = {})
    BY <1>1, NatParsed
  <1>5. parse_rule(w) = {r \in {rec(s, d, n) : s \in S, d \in D, n \in N} :
                           words /\ (w.action = "deny" => r.nat = NoNat)}
    BY DEF parse_rule
  <1> DEFINE ok == words /\ (w.action = "deny" => DOMAIN w.opts = {})
  <1>6. ASSUME NEW s \in S, NEW d \in D, NEW n \in N
        PROVE  /\ rec(s, d, n).nat = n
               /\ words => rec(s, d, n) \in Rule
    <2>1. /\ s.ip \in IpMatcher /\ s.port \in PortMatcher /\ d.ip \in IpMatcher
          /\ d.port \in PortMatcher /\ d.type \in {"any", "limited", "directed"}
          /\ n \in NatOptions
      BY <1>2, <1>3, <1>4
    <2>2. QED
      BY <2>1 DEF Rule
  <1> HIDE DEF S, D, N, rec, words
  <1>7. \A r \in parse_rule(w) :
           words /\ \E s \in S, d \in D, n \in N : r = rec(s, d, n)
    BY <1>5
  <1>8. parse_rule(w) \subseteq Rule
    BY <1>6, <1>7
  <1>9. parse_rule(w) # {} <=> (S # {} /\ D # {} /\ N # {} /\ ok)
    <2>1. ASSUME NEW r \in parse_rule(w)
          PROVE  S # {} /\ D # {} /\ N # {} /\ ok
      <3>1. PICK s \in S, d \in D, n \in N : r = rec(s, d, n)
        BY <1>7
      <3>2. words /\ (w.action = "deny" => r.nat = NoNat)
        BY <1>5
      <3>3. QED
        BY <1>4, <1>6, <3>1, <3>2
    <2>2. ASSUME NEW s \in S, NEW d \in D, NEW n \in N, ok
          PROVE  rec(s, d, n) \in parse_rule(w)
      <3>1. w.action = "deny" => rec(s, d, n).nat = NoNat
        BY <1>4, <1>6, <2>2
      <3>2. QED
        BY <1>5, <2>2, <3>1
    <2>3. QED
      BY <2>1, <2>2
  <1>10. Refused(w) <=>
           \/ w.words < 4 \/ w.src.colons # 1 \/ w.dst.colons # 1
           \/ w.action \notin {"allow", "deny"} \/ w.protocol \notin {"udp", "any"}
           \/ BadIp(w.src.ip) \/ (BadIp(w.dst.ip) /\ w.dst.ip.form # "directed")
           \/ BadPort(w.src.port) \/ BadPort(w.dst.port)
           \/ \E o \in Range(w.opts) : w.action = "deny" \/ BadOpt(o)
    BY DEF Refused, OmitsPort, Faulty, BadIp, BadPort, BadOpt
  <1>11. Range(w.opts) = {w.opts[k] : k \in DOMAIN w.opts}
    BY DEF Range
  <1>12. (\E o \in Range(w.opts) : w.action = "deny" \/ BadOpt(o))
           <=> \/ \E k \in DOMAIN w.opts : BadOpt(w.opts[k])
               \/ w.action = "deny" /\ DOMAIN w.opts # {}
    BY <1>11
  <1>13. w.words < 4 <=> ~(w.words >= 4)
    BY DEF Line
  <1>14. QED
    BY <1>2, <1>3, <1>4, <1>8, <1>9, <1>10, <1>12, <1>13 DEF words

-----------------------------------------------------------------------------
(* Prefixes bit by bit *)

\* Two octets have the same n leading bits iff they are equal once the others
\* are cleared.
LEMMA OctetPrefix ==
    ASSUME NEW x \in 0..255, NEW y \in 0..255, NEW n \in 0..8
    PROVE  x - (x % BlockSize[n + 1]) = y - (y % BlockSize[n + 1])
             <=> \A b \in 1..n : (x \div Weight[b]) % 2 = (y \div Weight[b]) % 2
  <1> DEFINE C(v) == x - (x % v) = y - (y % v)
             D(v) == x \div v = y \div v
             E(v) == (x \div v) % 2 = (y \div v) % 2
             All(k) == \A b \in 1..k : E(Weight[b])
  <1>1. /\ Weight[1] = 128 /\ Weight[2] = 64 /\ Weight[3] = 32 /\ Weight[4] = 16
        /\ Weight[5] = 8 /\ Weight[6] = 4 /\ Weight[7] = 2 /\ Weight[8] = 1
    BY DEF Weight
  <1>2. /\ BlockSize[1] = 256 /\ BlockSize[2] = 128 /\ BlockSize[3] = 64
        /\ BlockSize[4] = 32  /\ BlockSize[5] = 16  /\ BlockSize[6] = 8
        /\ BlockSize[7] = 4   /\ BlockSize[8] = 2   /\ BlockSize[9] = 1
    BY DEF BlockSize
  \* Clearing low bits is dividing ...
  <1>3. ASSUME NEW m \in 1..9
        PROVE  C(BlockSize[m]) <=> D(BlockSize[m])
    <2>1. (C(256) <=> D(256)) /\ (C(128) <=> D(128)) /\ (C(64) <=> D(64))
      OBVIOUS
    <2>2. (C(32) <=> D(32)) /\ (C(16) <=> D(16)) /\ (C(8) <=> D(8))
      OBVIOUS
    <2>3. (C(4) <=> D(4)) /\ (C(2) <=> D(2)) /\ (C(1) <=> D(1))
      OBVIOUS
    <2>4. m \in {1, 2, 3, 4, 5, 6, 7, 8, 9}
      OBVIOUS
    <2> HIDE DEF C, D
    <2>5. QED
      BY <1>2, <2>1, <2>2, <2>3, <2>4
  \* ... and a quotient is the next coarser one and a bit.
  <1>4. ASSUME NEW m \in 1..8
        PROVE  D(BlockSize[m + 1]) <=> (D(BlockSize[m]) /\ E(Weight[m]))
    <2>1. D(128) <=> (D(256) /\ E(128))
      OBVIOUS
    <2>2. D(64) <=> (D(128) /\ E(64))
      OBVIOUS
    <2>3. D(32) <=> (D(64) /\ E(32))
      OBVIOUS
    <2>4. D(16) <=> (D(32) /\ E(16))
      OBVIOUS
    <2>5. D(8) <=> (D(16) /\ E(8))
      OBVIOUS
    <2>6. D(4) <=> (D(8) /\ E(4))
      OBVIOUS
    <2>7. D(2) <=> (D(4) /\ E(2))
      OBVIOUS
    <2>8. D(1) <=> (D(2) /\ E(1))
      OBVIOUS
    <2>9. m \in {1, 2, 3, 4, 5, 6, 7, 8}
      OBVIOUS
    <2> HIDE DEF D, E
    <2>10. QED
      BY <1>1, <1>2, <2>1, <2>2, <2>3, <2>4, <2>5, <2>6, <2>7, <2>8, <2>9
  <1>5. D(BlockSize[1]) /\ All(0)
    <2>1. D(256)
      OBVIOUS
    <2>2. QED
      BY <1>2, <2>1
  <1> HIDE DEF C, D, E
  <1>6. ASSUME NEW m \in 1..8
        PROVE  All(m) <=> (All(m - 1) /\ E(Weight[m]))
    <2>1. \A b \in 1..m : b \in 1..(m - 1) \/ b = m
      OBVIOUS
    <2>2. \A b \in 1..(m - 1) : b \in 1..m
      OBVIOUS
    <2>3. m \in 1..m
      OBVIOUS
    <2>4. QED
      BY <2>1, <2>2, <2>3
  <1> HIDE DEF All
  <1> DEFINE P(m) == D(BlockSize[m + 1]) <=> All(m)
  <1>7. ASSUME NEW m \in 1..8, P(m - 1)
        PROVE  P(m)
    <2>1. (m - 1) + 1 = m
      OBVIOUS
    <2>2. D(BlockSize[m]) <=> All(m - 1)
      BY <1>7, <2>1
    <2>3. QED
      BY <1>4, <1>6, <2>2
  <1>8. P(0) /\ P(1) /\ P(2) /\ P(3) /\ P(4) /\ P(5) /\ P(6) /\ P(7) /\ P(8)
    <2>1. P(0)
      BY <1>5
    <2> HIDE DEF P
    <2>2. P(1) /\ P(2) /\ P(3) /\ P(4)
      <3>1. P(1 - 1)
        BY <2>1
      <3>2. P(1)
        BY <1>7, <3>1
      <3>3. P(2)
        BY <1>7, <3>2
      <3>4. P(3)
        BY <1>7, <3>3
      <3>5. QED
        BY <1>7, <3>2, <3>3, <3>4
    <2>3. P(5) /\ P(6) /\ P(7) /\ P(8)
      <3>1. P(5)
        BY <1>7, <2>2
      <3>2. P(6)
        BY <1>7, <3>1
      <3>3. P(7)
        BY <1>7, <3>2
      <3>4. QED
        BY <1>7, <3>1, <3>2, <3>3
    <2>4. QED
      BY <2>1, <2>2, <2>3
  <1>9. P(n)
    <2>1. n \in {0, 1, 2, 3, 4, 5, 6, 7, 8}
      OBVIOUS
    <2> HIDE DEF P
    <2>2. QED
      BY <1>8, <2>1
  <1>10. n + 1 \in 1..9
    OBVIOUS
  <1>11. C(BlockSize[n + 1]) <=> All(n)
    BY <1>3, <1>9, <1>10
  <1>12. QED
    BY <1>11 DEF C, All, E

\* The masks of two addresses agree iff their first n bits do.
LEMMA MaskBits ==
    ASSUME NEW a \in Addr, NEW c \in Addr, NEW n \in 0..32
    PROVE  Mask(a, n) = Mask(c, n) <=> \A j \in 1..n : Bit(a, j) = Bit(c, j)
  <1> DEFINE kept(o) == IF n >= 8 * o THEN 8 ELSE IF n <= 8 * (o - 1) THEN 0
                                            ELSE n - 8 * (o - 1)
             octet(x, o) == x[o] - (x[o] % BlockSize[kept(o) + 1])
             bit(x, o, b) == (x[o] \div Weight[b]) % 2
             same(o) == \A b \in 1..kept(o) : bit(a, o, b) = bit(c, o, b)
  <1>1. \A o \in 1..4 : kept(o) \in 0..8
    OBVIOUS
  <1>2. \A o \in 1..4 : a[o] \in 0..255 /\ c[o] \in 0..255
    BY DEF Addr, Octet
  <1>3. /\ Mask(a, n) = <<octet(a, 1), octet(a, 2), octet(a, 3), octet(a, 4)>>
        /\ Mask(c, n) = <<octet(c, 1), octet(c, 2), octet(c, 3), octet(c, 4)>>
    BY DEF Mask
  \* Place b of octet o is place 8 * (o - 1) + b of the address.
  <1>4. \A o \in 1..4, b \in 1..8 : b \in 1..kept(o) <=> 8 * (o - 1) + b \in 1..n
    OBVIOUS
  <1>5. \A j \in 1..32 : \E o \in 1..4, b \in 1..8 : j = 8 * (o - 1) + b
    <2> TAKE j \in 1..32
    <2>1. ((j - 1) \div 8) + 1 \in 1..4 /\ ((j - 1) % 8) + 1 \in 1..8
      OBVIOUS
    <2>2. j = 8 * ((((j - 1) \div 8) + 1) - 1) + (((j - 1) % 8) + 1)
      OBVIOUS
    <2>3. QED
      BY <2>1, <2>2
  <1>6. ASSUME NEW o \in 1..4, NEW b \in 1..8, NEW x
        PROVE  Bit(x, 8 * (o - 1) + b) = bit(x, o, b)
    <2> DEFINE j == 8 * (o - 1) + b
    <2>1. ((j - 1) \div 8) + 1 = o /\ ((j - 1) % 8) + 1 = b
      OBVIOUS
    <2> HIDE DEF j
    <2>2. Bit(x, j) = bit(x, o, b)
      BY <2>1 DEF Bit
    <2>3. QED
      BY <2>2 DEF j
  <1>7. \A o \in 1..4 : kept(o) <= 8
    BY <1>1
  <1> HIDE DEF kept
  <1>8. \A o \in 1..4 : octet(a, o) = octet(c, o) <=> same(o)
    BY <1>1, <1>2, OctetPrefix
  <1> HIDE DEF octet
  <1>9. Mask(a, n) = Mask(c, n) <=> \A o \in 1..4 : octet(a, o) = octet(c, o)
    <2>1. Mask(a, n) = Mask(c, n)
            <=> /\ octet(a, 1) = octet(c, 1) /\ octet(a, 2) = octet(c, 2)
                /\ octet(a, 3) = octet(c, 3) /\ octet(a, 4) = octet(c, 4)
      BY <1>3
    <2>2. \A o \in 1..4 : o \in {1, 2, 3, 4}
      OBVIOUS
    <2>3. QED
      BY <2>1, <2>2
  <1>10. ASSUME \A o \in 1..4 : same(o), NEW j \in 1..n
         PROVE  Bit(a, j) = Bit(c, j)
    <2>1. j \in 1..32
      OBVIOUS
    <2>2. PICK o \in 1..4, b \in 1..8 : j = 8 * (o - 1) + b
      BY <1>5, <2>1
    <2>3. b \in 1..kept(o)
      BY <1>4, <2>2
    <2>4. bit(a, o, b) = bit(c, o, b)
      BY <1>10, <2>3
    <2> HIDE DEF bit
    <2>5. QED
      BY <1>6, <2>2, <2>4
  <1>11. ASSUME \A j \in 1..n : Bit(a, j) = Bit(c, j), NEW o \in 1..4
         PROVE  same(o)
    <2> SUFFICES ASSUME NEW b \in 1..kept(o) PROVE bit(a, o, b) = bit(c, o, b)
      OBVIOUS
    <2>1. b \in 1..8
      BY <1>1
    <2>2. 8 * (o - 1) + b \in 1..n
      BY <1>4, <2>1
    <2> HIDE DEF bit
    <2>3. QED
      BY <1>6, <1>11, <2>1, <2>2
  <1> HIDE DEF same
  <1>12. QED
    BY <1>8, <1>9, <1>10, <1>11

-----------------------------------------------------------------------------
(* What a rule matches *)

\* An address matcher matches the addresses its word speaks of.
LEMMA IpSays ==
    ASSUME NEW w \in IpWord, NEW m \in parse_ip_matcher(w), NEW ip \in Addr
    PROVE  ip_matches(m, ip) <=> SaysIp(w, ip)
  <1>1. parse_ipv4(w.addr) = {x \in {w.addr} : x \in Addr}
    BY DEF parse_ipv4
  <1>2. w.form \in {"any", "cidr", "addr"}
    BY DEF parse_ip_matcher
  <1>3. CASE w.form = "any"
    <2>1. m = AnyIp
      BY <1>3 DEF parse_ip_matcher
    <2>2. m.kind = "any"
      BY <2>1 DEF AnyIp
    <2>3. QED
      BY <1>3, <2>2 DEF ip_matches, SaysIp
  <1>4. CASE w.form = "cidr"
    <2>1. m = CidrIp(w.addr, w.len) /\ w.addr \in Addr /\ w.len \in 0..32
      BY <1>1, <1>4 DEF parse_ip_matcher
    <2>2. m.kind = "cidr" /\ m.addr = Mask(w.addr, w.len) /\ m.bits = w.len
      BY <2>1 DEF CidrIp
    <2>3. ip_matches(m, ip) <=> Mask(ip, w.len) = Mask(w.addr, w.len)
      BY <2>2 DEF ip_matches
    <2>4. SaysIp(w, ip) <=> \A j \in 1..w.len : Bit(ip, j) = Bit(w.addr, j)
      BY <1>4 DEF SaysIp
    <2>5. QED
      BY <2>1, <2>3, <2>4, MaskBits
  <1>5. CASE w.form = "addr"
    <2>1. m = ExactIp(w.addr)
      BY <1>1, <1>5 DEF parse_ip_matcher
    <2>2. m.kind = "exact" /\ m.addr = w.addr
      BY <2>1 DEF ExactIp
    <2>3. QED
      BY <1>5, <2>2 DEF ip_matches, SaysIp
  <1>6. QED
    BY <1>2, <1>3, <1>4, <1>5

\* A destination is matched by its address and its broadcast type together.
LEMMA DestSays ==
    ASSUME NEW w \in IpWord, NEW d \in DestMatcher(w), NEW ip \in Addr,
           ~(w.form = "directed" /\ IsMulticast(ip) /\ ip[4] = 255)
    PROVE  (ip_matches(d.ip, ip) /\ broadcast_type_matches(d.type, ip)) <=> SaysIp(w, ip)
  <1>1. CASE w.form = "addr" /\ w.addr = LIMITED_BROADCAST
    <2>1. d = [ip |-> ExactIp(LIMITED_BROADCAST), type |-> "limited"]
      BY <1>1 DEF DestMatcher
    <2>2. d.ip = ExactIp(LIMITED_BROADCAST) /\ d.type = "limited"
      BY <2>1
    <2>3. d.ip.kind = "exact" /\ d.ip.addr = LIMITED_BROADCAST
      BY <2>2 DEF ExactIp
    <2>4. QED
      BY <1>1, <2>2, <2>3 DEF ip_matches, broadcast_type_matches, SaysIp
  <1>2. CASE w.form = "directed"
    <2>1. d = [ip |-> AnyIp, type |-> "directed"]
      BY <1>2 DEF DestMatcher
    <2>2. d.ip.kind = "any" /\ d.type = "directed"
      BY <2>1 DEF AnyIp
    <2>3. QED
      BY <1>2, <2>2 DEF ip_matches, broadcast_type_matches, SaysIp
  <1>3. CASE /\ ~(w.form = "addr" /\ w.addr = LIMITED_BROADCAST)
             /\ w.form # "directed"
    <2>1. PICK m \in parse_ip_matcher(w) : d = [ip |-> m, type |-> "any"]
      BY <1>3 DEF DestMatcher
    <2>2. d.ip = m /\ d.type = "any"
      BY <2>1
    <2>3. QED
      BY <2>2, IpSays DEF broadcast_type_matches
  <1>4. QED
    BY <1>1, <1>2, <1>3

\* A port matcher matches the ports its word speaks of.
LEMMA PortSays ==
    ASSUME NEW w \in PortWord, NEW m \in parse_port_matcher(w), NEW port \in Word
    PROVE  port_matches(m, port) <=> SaysPort(w, port)
  <1>1. /\ parse_u16(w.lo) = {x \in {w.lo} : x \in Word}
        /\ parse_u16(w.hi) = {x \in {w.hi} : x \in Word}
    BY DEF parse_u16
  <1>2. w.form \in {"any", "range", "number"}
    BY DEF parse_port_matcher
  <1>3. CASE w.form = "any"
    <2>1. m = AnyPort
      BY <1>3 DEF parse_port_matcher
    <2>2. m.kind = "any"
      BY <2>1 DEF AnyPort
    <2>3. QED
      BY <1>3, <2>2 DEF port_matches, SaysPort
  <1>4. CASE w.form = "range"
    <2>1. m = RangePort(w.lo, w.hi) /\ w.lo \in Word /\ w.hi \in Word
      BY <1>1, <1>4 DEF parse_port_matcher
    <2>2. m.kind = "range" /\ m.lo = w.lo /\ m.hi = w.hi
      BY <2>1 DEF RangePort
    <2>3. port_matches(m, port) <=> (w.lo <= port /\ port <= w.hi)
      BY <2>2 DEF port_matches
    <2>4. SaysPort(w, port) <=> port \in w.lo..w.hi
      BY <1>4 DEF SaysPort
    <2>5. port \in Int /\ w.lo \in Int /\ w.hi \in Int
      <3>1. \A x \in Word : x \in Int
        BY DEF Word
      <3>2. QED
        BY <2>1, <3>1
    <2>6. QED
      BY <2>3, <2>4, <2>5
  <1>5. CASE w.form = "number"
    <2>1. m = ExactPort(w.lo)
      BY <1>1, <1>5 DEF parse_port_matcher
    <2>2. m.kind = "exact" /\ m.lo = w.lo
      BY <2>1 DEF ExactPort
    <2>3. QED
      BY <1>5, <2>2 DEF port_matches, SaysPort
  <1>6. QED
    BY <1>2, <1>3, <1>4, <1>5

\* The rule of a line matches the packets the line speaks of, and keeps its
\* action and its options.
LEMMA RuleSays ==
    ASSUME NEW w \in Line, w.kind = "words", NEW r \in parse_rule(w), NEW info \in Info,
           ~DirectedGroup(w, info)
    PROVE  /\ rule_matches(r, info) <=> Says(w, info)
           /\ r.action = w.action
           /\ r.nat \in parse_nat(w.opts)
  <1>1. w.src \in Endpoint /\ w.dst \in Endpoint
    BY DEF Line
  <1>2. /\ w.src.ip \in IpWord /\ w.src.port \in PortWord
        /\ w.dst.ip \in IpWord /\ w.dst.port \in PortWord
    BY <1>1 DEF Endpoint
  <1>3. /\ info.protocol = "udp" /\ info.src_ip \in Addr /\ info.dst_ip \in Addr
        /\ info.src_port \in Word /\ info.dst_port \in Word
    BY DEF Info
  <1>4. PICK s \in parse_addr_port(w.src), d \in parse_dest_addr_port(w.dst),
             n \in parse_nat(w.opts) :
          r = [action |-> w.action, protocol |-> w.protocol,
               src_ip |-> s.ip, src_port |-> s.port, dst_ip |-> d.ip,
               dst_port |-> d.port, broadcast_type |-> d.type, nat |-> n]
    BY DEF parse_rule
  <1>5. /\ r.action = w.action /\ r.protocol = w.protocol /\ r.nat = n
        /\ r.src_ip = s.ip /\ r.src_port = s.port
        /\ r.dst_ip = d.ip /\ r.dst_port = d.port /\ r.broadcast_type = d.type
    BY <1>4
  <1>6. w.protocol \in {"udp", "any"}
    BY DEF parse_rule
  <1>7. s.ip \in parse_ip_matcher(w.src.ip) /\ s.port \in parse_port_matcher(w.src.port)
    <2>1. PICK i \in parse_ip_matcher(w.src.ip), p \in parse_port_matcher(w.src.port) :
             s = [ip |-> i, port |-> p]
      BY DEF parse_addr_port
    <2>2. QED
      BY <2>1
  <1>8. PICK e \in DestMatcher(w.dst.ip) :
          d.ip = e.ip /\ d.type = e.type /\ d.port \in parse_port_matcher(w.dst.port)
    <2>1. PICK e \in DestMatcher(w.dst.ip), p \in parse_port_matcher(w.dst.port) :
             d = [ip |-> e.ip, port |-> p, type |-> e.type]
      BY DEF parse_dest_addr_port
    <2>2. d.ip = e.ip /\ d.type = e.type /\ d.port = p
      BY <2>1
    <2>3. QED
      BY <2>2
  <1>9. ip_matches(r.src_ip, info.src_ip) <=> SaysIp(w.src.ip, info.src_ip)
    BY <1>2, <1>3, <1>5, <1>7, IpSays
  <1>10. port_matches(r.src_port, info.src_port) <=> SaysPort(w.src.port, info.src_port)
    BY <1>2, <1>3, <1>5, <1>7, PortSays
  <1>11. port_matches(r.dst_port, info.dst_port) <=> SaysPort(w.dst.port, info.dst_port)
    BY <1>2, <1>3, <1>5, <1>8, PortSays
  <1>12. (/\ ip_matches(r.dst_ip, info.dst_ip)
          /\ broadcast_type_matches(r.broadcast_type, info.dst_ip))
            <=> SaysIp(w.dst.ip, info.dst_ip)
    BY <1>2, <1>3, <1>5, <1>8, DestSays DEF DirectedGroup
  <1>13. rule_matches(r, info) <=> Says(w, info)
    BY <1>3, <1>5, <1>6, <1>9, <1>10, <1>11, <1>12 DEF rule_matches, Says
  <1>14. QED
    BY <1>5, <1>13

\* The value that ends up in the rule is one of those written on the line.
LEMMA WrittenAddr ==
    ASSUME NEW opts \in Seq(OptWord), NEW key
    PROVE  Written(LastOf(opts, key, LAMBDA o : o.addr), opts, key, LAMBDA o : o.addr)
  <1> DEFINE I == {k \in 1..Len(opts) : opts[k].key = key}
             m == IF I # {} THEN Max(I) ELSE 0
             L == LastOf(opts, key, LAMBDA o : o.addr)
             vs == {o.addr : o \in {o \in Range(opts) : o.key = key}}
  <1>1. L = IF m = 0 THEN {} ELSE {opts[m].addr}
    BY DEF LastOf, SelectLastInSeq
  <1>2. Len(opts) \in Nat /\ I \in SUBSET (1..Len(opts)) /\ DOMAIN opts = 1..Len(opts)
    OBVIOUS
  <1>3. I # {} => Max(I) \in I
    <2> HIDE DEF I
    <2>1. QED
      BY <1>2, MaxIn
  <1>4. vs = {opts[k].addr : k \in I}
    BY <1>2 DEF Range
  <1> HIDE DEF vs, L
  <1>5. L \subseteq vs /\ (L = {} <=> vs = {})
    <2>1. CASE I = {}
      <3>1. L = {} /\ vs = {}
        BY <1>1, <1>4, <2>1
      <3>2. QED
        BY <3>1
    <2>2. CASE I # {}
      <3>1. m \in I /\ m # 0
        BY <1>2, <1>3, <2>2
      <3> HIDE DEF m, I
      <3>2. QED
        BY <1>1, <1>4, <3>1
    <2>3. QED
      BY <2>1, <2>2
  <1>6. QED
    BY <1>5 DEF Written, vs, L

LEMMA WrittenPort ==
    ASSUME NEW opts \in Seq(OptWord), NEW key
    PROVE  Written(LastOf(opts, key, LAMBDA o : o.port), opts, key, LAMBDA o : o.port)
  <1> DEFINE I == {k \in 1..Len(opts) : opts[k].key = key}
             m == IF I # {} THEN Max(I) ELSE 0
             L == LastOf(opts, key, LAMBDA o : o.port)
             vs == {o.port : o \in {o \in Range(opts) : o.key = key}}
  <1>1. L = IF m = 0 THEN {} ELSE {opts[m].port}
    BY DEF LastOf, SelectLastInSeq
  <1>2. Len(opts) \in Nat /\ I \in SUBSET (1..Len(opts)) /\ DOMAIN opts = 1..Len(opts)
    OBVIOUS
  <1>3. I # {} => Max(I) \in I
    <2> HIDE DEF I
    <2>1. QED
      BY <1>2, MaxIn
  <1>4. vs = {opts[k].port : k \in I}
    BY <1>2 DEF Range
  <1> HIDE DEF vs, L
  <1>5. L \subseteq vs /\ (L = {} <=> vs = {})
    <2>1. CASE I = {}
      <3>1. L = {} /\ vs = {}
        BY <1>1, <1>4, <2>1
      <3>2. QED
        BY <3>1
    <2>2. CASE I # {}
      <3>1. m \in I /\ m # 0
        BY <1>2, <1>3, <2>2
      <3> HIDE DEF m, I
      <3>2. QED
        BY <1>1, <1>4, <3>1
    <2>3. QED
      BY <2>1, <2>2
  <1>6. QED
    BY <1>5 DEF Written, vs, L

\* So every rewriting of a rule is written on its line.
LEMMA NatWritten ==
    ASSUME NEW opts \in Seq(OptWord), NEW n \in parse_nat(opts)
    PROVE  /\ Written(n.source_ip, opts, "snat", LAMBDA o : o.addr)
           /\ Written(n.dest_ip, opts, "dnat", LAMBDA o : o.addr)
           /\ Written(n.source_port, opts, "sport", LAMBDA o : o.port)
           /\ Written(n.dest_port, opts, "dport", LAMBDA o : o.port)
  <1> DEFINE sa == LastOf(opts, "snat", LAMBDA o : o.addr)
             da == LastOf(opts, "dnat", LAMBDA o : o.addr)
             sp == LastOf(opts, "sport", LAMBDA o : o.port)
             dp == LastOf(opts, "dport", LAMBDA o : o.port)
  <1>1. n = [source_ip |-> sa, dest_ip |-> da, source_port |-> sp, dest_port |-> dp]
    BY DEF parse_nat
  <1>2. Written(sa, opts, "snat", LAMBDA o : o.addr)
    BY WrittenAddr
  <1>3. Written(da, opts, "dnat", LAMBDA o : o.addr)
    BY WrittenAddr
  <1>4. Written(sp, opts, "sport", LAMBDA o : o.port)
    BY WrittenPort
  <1>5. Written(dp, opts, "dport", LAMBDA o : o.port)
    BY WrittenPort
  <1> HIDE DEF sa, da, sp, dp
  <1>6. n.source_ip = sa /\ n.dest_ip = da /\ n.source_port = sp /\ n.dest_port = dp
    BY <1>1
  <1>7. QED
    BY <1>2, <1>3, <1>4, <1>5, <1>6

-----------------------------------------------------------------------------
\* The invariant holds initially and is inductive.
LEMMA InitParseInv == Init => ParseInv
  BY FilesAssumption DEF Init, ParseInv, TypeOK

LEMMA NextParseInv == ParseInv /\ [Next]_vars => ParseInv'
  <1> SUFFICES ASSUME ParseInv, [Next]_vars PROVE ParseInv'
    OBVIOUS
  <1>1. /\ text \in Seq(Line) /\ line \in Nat \ {0} /\ line <= Len(text) + 1
        /\ rules \in Seq(Rule) /\ Len(text) \in Nat
        /\ \A k \in 1..(line - 1) : ~Refused(text[k])
    BY DEF ParseInv, TypeOK
  <1>2. AtLine => line \in DOMAIN text /\ text[line] \in Line
    BY <1>1 DEF AtLine
  <1>3. ASSUME AtLine, ~Refused(text[line]), line' = line + 1, UNCHANGED <<text, outcome>>,
               rules' \in Seq(Rule)
        PROVE  ParseInv'
    <2>1. \A k \in 1..line : ~Refused(text[k])
      <3>1. \A k \in 1..line : k \in 1..(line - 1) \/ k = line
        BY <1>1
      <3>2. QED
        BY <1>1, <1>3, <3>1
    <2>2. line' \in Nat \ {0} /\ line' <= Len(text) + 1 /\ line' - 1 = line
      BY <1>1, <1>3 DEF AtLine
    <2>3. outcome' = "parsing"
      BY <1>3 DEF AtLine
    <2>4. QED
      BY <1>1, <1>3, <2>1, <2>2, <2>3 DEF ParseInv, TypeOK
  <1>4. CASE Read
    BY <1>1, <1>4 DEF Read, ParseInv, TypeOK
  <1>5. CASE SkipLine
    <2>1. ~Refused(text[line])
      BY <1>5 DEF SkipLine, Refused, OmitsPort, Faulty
    <2>2. QED
      BY <1>1, <1>3, <1>5, <2>1 DEF SkipLine
  <1>6. CASE PushRule
    <2>1. PICK r \in parse_rule(text[line]) : rules' = Append(rules, r)
      BY <1>6 DEF PushRule
    <2>2. ~Refused(text[line]) /\ r \in Rule
      BY <1>2, <1>6, <2>1, ParseRule DEF PushRule
    <2>3. rules' \in Seq(Rule)
      BY <1>1, <2>1, <2>2
    <2>4. QED
      BY <1>3, <1>6, <2>2, <2>3 DEF PushRule
  <1>7. CASE Reject
    <2>1. Refused(text[line]) /\ line <= Len(text)
      BY <1>2, <1>7, ParseRule DEF Reject, AtLine
    <2>2. QED
      BY <1>1, <1>7, <2>1 DEF Reject, ParseInv, TypeOK
  <1>8. CASE Accept
    BY <1>1, <1>8 DEF Accept, ParseInv, TypeOK
  <1>9. CASE UNCHANGED vars
    BY <1>9 DEF vars, ParseInv, TypeOK
  <1>10. QED
    BY <1>4, <1>5, <1>6, <1>7, <1>8, <1>9 DEF Next

-----------------------------------------------------------------------------
(* Rules and lines *)

\* at leads from each of the rules rs to the line of t it stems from, one of the
\* first n: in the order of the file, and from every line with words.
Traces(at, rs, t, n) ==
    /\ at \in [DOMAIN rs -> 1..n]
    /\ \A j, k \in DOMAIN rs : j < k => at[j] < at[k]
    /\ Range(at) = {k \in 1..n : t[k].kind = "words"}
    /\ \A j \in DOMAIN rs : rs[j] \in parse_rule(t[at[j]])

LEMMA MeaningTraces == MeaningInv <=> (ParseInv /\ \E at : Traces(at, rules, text, line - 1))
  BY DEF MeaningInv, Traces

\* A line without words leaves no trace.
LEMMA TracesSkip ==
    ASSUME NEW rs \in Seq(Rule), NEW t, NEW n \in Nat, NEW at,
           Traces(at, rs, t, n), t[n + 1].kind # "words"
    PROVE  Traces(at, rs, t, n + 1)
  <1>1. \A k \in 1..(n + 1) : k \in 1..n \/ k = n + 1
    OBVIOUS
  <1>2. \A k \in 1..n : k \in 1..(n + 1)
    OBVIOUS
  <1>3. {k \in 1..(n + 1) : t[k].kind = "words"} = {k \in 1..n : t[k].kind = "words"}
    BY <1>1, <1>2
  <1>4. at \in [DOMAIN rs -> 1..(n + 1)]
    BY <1>2 DEF Traces
  <1>5. QED
    BY <1>3, <1>4 DEF Traces

\* The rule of a line with words comes last.
LEMMA TracesPush ==
    ASSUME NEW rs \in Seq(Rule), NEW t, NEW n \in Nat, NEW at,
           Traces(at, rs, t, n), t[n + 1].kind = "words",
           NEW r \in Rule, r \in parse_rule(t[n + 1])
    PROVE  \E b : Traces(b, Append(rs, r), t, n + 1)
  <1> DEFINE l  == Len(rs)
             us == Append(rs, r)
             b  == [j \in 1..(l + 1) |-> IF j = l + 1 THEN n + 1 ELSE at[j]]
  <1>1. l \in Nat /\ DOMAIN rs = 1..l /\ DOMAIN us = 1..(l + 1)
    OBVIOUS
  <1>2. us[l + 1] = r /\ \A j \in 1..l : us[j] = rs[j]
    OBVIOUS
  <1>3. /\ at \in [1..l -> 1..n]
        /\ \A j, k \in 1..l : j < k => at[j] < at[k]
        /\ Range(at) = {k \in 1..n : t[k].kind = "words"}
        /\ \A j \in 1..l : rs[j] \in parse_rule(t[at[j]])
    BY <1>1 DEF Traces
  <1>4. b[l + 1] = n + 1 /\ \A j \in 1..l : b[j] = at[j] /\ at[j] \in 1..n
    <2>1. l + 1 \in 1..(l + 1)
      BY <1>1
    <2>2. \A j \in 1..l : j \in 1..(l + 1) /\ j # l + 1
      BY <1>1
    <2>3. QED
      BY <1>3, <2>1, <2>2
  <1>5. \A j \in 1..(l + 1) : j \in 1..l \/ j = l + 1
    BY <1>1
  <1>6. DOMAIN b = 1..(l + 1)
    OBVIOUS
  <1>7. b \in [1..(l + 1) -> 1..(n + 1)]
    <2>1. n + 1 \in 1..(n + 1) /\ \A x \in 1..n : x \in 1..(n + 1)
      OBVIOUS
    <2>2. \A j \in 1..(l + 1) : b[j] \in 1..(n + 1)
      <3> HIDE DEF b, l
      <3>1. QED
        BY <1>4, <1>5, <2>1
    <2>3. QED
      BY <2>2
  <1> HIDE DEF b, us, l
  <1>8. ASSUME NEW j \in 1..(l + 1), NEW k \in 1..(l + 1), j < k
        PROVE  b[j] < b[k]
    <2>1. j \in 1..l
      BY <1>1, <1>8
    <2>2. CASE k \in 1..l
      BY <1>3, <1>4, <1>8, <2>1, <2>2
    <2>3. CASE k = l + 1
      <3>1. b[j] \in 1..n /\ b[k] = n + 1
        BY <1>4, <2>1, <2>3
      <3>2. QED
        BY <3>1
    <2>4. QED
      BY <1>5, <2>2, <2>3
  <1>9. Range(b) = {k \in 1..(n + 1) : t[k].kind = "words"}
    <2>1. Range(b) = {b[j] : j \in 1..(l + 1)} /\ Range(at) = {at[j] : j \in 1..l}
      BY <1>3, <1>6 DEF Range
    <2>2. ASSUME NEW k \in Range(b)
          PROVE  k \in 1..(n + 1) /\ t[k].kind = "words"
      <3>1. PICK j \in 1..(l + 1) : k = b[j]
        BY <2>1
      <3>2. CASE j \in 1..l
        <4>1. k \in Range(at)
          BY <1>4, <2>1, <3>1, <3>2
        <4>2. k \in 1..n /\ t[k].kind = "words"
          BY <1>3, <4>1
        <4>3. QED
          BY <4>2
      <3>3. CASE j = l + 1
        BY <1>4, <3>1, <3>3
      <3>4. QED
        BY <1>5, <3>2, <3>3
    <2>3. ASSUME NEW k \in 1..(n + 1), t[k].kind = "words"
          PROVE  k \in Range(b)
      <3>1. CASE k \in 1..n
        <4>1. k \in Range(at)
          BY <1>3, <2>3, <3>1
        <4>2. PICK j \in 1..l : k = at[j]
          BY <2>1, <4>1
        <4>3. j \in 1..(l + 1) /\ b[j] = k
          BY <1>1, <1>4, <4>2
        <4>4. QED
          BY <2>1, <4>3
      <3>2. CASE k = n + 1
        <4>1. l + 1 \in 1..(l + 1)
          BY <1>1
        <4>2. QED
          BY <1>4, <2>1, <3>2, <4>1
      <3>3. QED
        BY <3>1, <3>2
    <2>4. QED
      BY <2>2, <2>3
  <1>10. \A j \in 1..(l + 1) : us[j] \in parse_rule(t[b[j]])
    BY <1>2, <1>3, <1>4, <1>5
  <1>11. Traces(b, us, t, n + 1)
    BY <1>1, <1>7, <1>8, <1>9, <1>10 DEF Traces
  <1>12. QED
    BY <1>11 DEF us

LEMMA InitMeaningInv == Init => MeaningInv
  <1> SUFFICES ASSUME Init PROVE MeaningInv
    OBVIOUS
  <1>1. ParseInv
    BY InitParseInv
  <1>2. rules = <<>> /\ line = 1 /\ DOMAIN rules = {} /\ 1..(line - 1) = {}
    BY DEF Init
  <1> DEFINE at == [j \in {} |-> 0]
  <1>3. at \in [DOMAIN rules -> 1..(line - 1)] /\ Range(at) = {}
    BY <1>2 DEF Range
  <1> HIDE DEF at
  <1>4. Traces(at, rules, text, line - 1)
    BY <1>2, <1>3 DEF Traces
  <1>5. QED
    BY <1>1, <1>4, MeaningTraces

LEMMA NextMeaningInv == MeaningInv /\ [Next]_vars => MeaningInv'
  <1> SUFFICES ASSUME MeaningInv, [Next]_vars PROVE MeaningInv'
    OBVIOUS
  <1>1. ParseInv /\ ParseInv'
    BY NextParseInv DEF MeaningInv
  <1>2. PICK at : Traces(at, rules, text, line - 1)
    BY MeaningTraces
  <1>3. /\ line \in Nat \ {0} /\ rules \in Seq(Rule) /\ line - 1 \in Nat
        /\ (line - 1) + 1 = line /\ (line + 1) - 1 = line
        /\ text \in Seq(Line)
    BY <1>1 DEF ParseInv, TypeOK
  <1>4. MeaningInv' <=> (ParseInv' /\ \E b : Traces(b, rules', text', line' - 1))
    BY DEF MeaningInv, Traces
  <1>5. CASE SkipLine
    <2>1. text[(line - 1) + 1].kind # "words"
      BY <1>3, <1>5 DEF SkipLine
    <2>2. Traces(at, rules, text, (line - 1) + 1)
      BY <1>2, <1>3, <2>1, TracesSkip
    <2>3. rules' = rules /\ text' = text /\ line' - 1 = line
      BY <1>3, <1>5 DEF SkipLine
    <2>4. QED
      BY <1>1, <1>3, <1>4, <2>2, <2>3
  <1>6. CASE PushRule
    <2>1. PICK r \in parse_rule(text[line]) : rules' = Append(rules, r)
      BY <1>6 DEF PushRule
    <2>2. text[line].kind = "words" /\ text[line] \in Line
      BY <1>3, <1>6 DEF PushRule, AtLine
    <2>3. r \in Rule
      BY <2>1, <2>2, ParseRule
    <2>4. \E b : Traces(b, Append(rules, r), text, (line - 1) + 1)
      <3>1. text[(line - 1) + 1].kind = "words" /\ r \in parse_rule(text[(line - 1) + 1])
        BY <1>3, <2>1, <2>2
      <3>2. QED
        BY <1>2, <1>3, <2>3, <3>1, TracesPush
    <2>5. text' = text /\ line' - 1 = line
      BY <1>3, <1>6 DEF PushRule
    <2>6. QED
      BY <1>1, <1>3, <1>4, <2>1, <2>4, <2>5
  <1>7. CASE UNCHANGED <<text, line, rules>>
    BY <1>1, <1>2, <1>4, <1>7
  <1>8. QED
    BY <1>5, <1>6, <1>7 DEF Next, Read, Reject, Accept, vars

-----------------------------------------------------------------------------
(* Theorems *)

\* Config::parse passes a line exactly when nothing in it is wrong, and what it
\* has collected are rules whose addresses, prefix lengths and ports are in
\* range: what the relay assumes of its configuration.
THEOREM ParseInvTheorem == Spec => []ParseInv
  BY InitParseInv, NextParseInv, PTL DEF Spec

\* A file with a faulty line is never accepted by Config::parse, and the line its
\* error names is the first that is faulty or omits a port.
THEOREM StrictlyParsedTheorem == Spec => []StrictlyParsed
  <1>1. ParseInv => StrictlyParsed
    <2> SUFFICES ASSUME ParseInv PROVE StrictlyParsed
      OBVIOUS
    <2>1. /\ text \in Seq(Line) /\ line \in Nat \ {0} /\ line <= Len(text) + 1
          /\ \A k \in 1..(line - 1) : ~Refused(text[k])
          /\ Len(text) \in Nat /\ DOMAIN text = 1..Len(text)
      BY DEF ParseInv, TypeOK
    <2>2. ASSUME outcome = "accepted"
          PROVE  \A k \in DOMAIN text : ~Faulty(text[k])
      <3>1. line > Len(text)
        BY <2>2 DEF ParseInv
      <3>2. \A k \in DOMAIN text : k \in 1..(line - 1)
        BY <2>1, <3>1
      <3>3. QED
        BY <2>1, <3>2 DEF Refused
    <2>3. ASSUME outcome = "rejected"
          PROVE  line = SelectInSeq(text, Refused)
      <3> DEFINE I == {k \in 1..Len(text) : Refused(text[k])}
      <3>1. line <= Len(text) /\ Refused(text[line])
        BY <2>3 DEF ParseInv
      <3>2. line \in I
        BY <2>1, <3>1
      <3>3. SelectInSeq(text, Refused) = IF I # {} THEN Min(I) ELSE 0
        BY DEF SelectInSeq
      <3>4. I \in SUBSET Nat /\ \A k \in I : k \in Nat /\ ~(k \in 1..(line - 1)) /\ k > 0
        BY <2>1
      <3> HIDE DEF I
      <3>5. Min(I) \in I /\ Min(I) <= line
        BY <3>2, <3>4, MinIn
      <3>6. Min(I) = line
        <4> DEFINE m == Min(I)
        <4>1. m \in Nat /\ ~(m \in 1..(line - 1)) /\ m > 0 /\ m <= line
          BY <3>4, <3>5
        <4> HIDE DEF m
        <4>2. m = line
          BY <2>1, <4>1
        <4>3. QED
          BY <4>2 DEF m
      <3>7. QED
        BY <3>2, <3>3, <3>6
    <2>4. QED
      BY <2>2, <2>3 DEF StrictlyParsed
  <1>2. QED
    BY <1>1, ParseInvTheorem, PTL

\* Config::parse turns the lines of a file into rules one by one and in order,
\* leaving out blank lines and comments and nothing else.
THEOREM MeaningInvTheorem == Spec => []MeaningInv
  BY InitMeaningInv, NextMeaningInv, PTL DEF Spec

\* A file of any length that Config::parse accepts decides every packet by the
\* first of its lines that speaks of it, prefixes bit by bit, and rewrites it by
\* what is written there and nothing else; excepted are packets for a group that
\* ends in 255 in a file that says "directed".
THEOREM MeansWhatItSaysTheorem == Spec => []MeansWhatItSays
  <1>1. MeaningInv => MeansWhatItSays
    <2> SUFFICES ASSUME MeaningInv, outcome = "accepted", NEW info \in Probes,
                        \A l \in DOMAIN text : ~DirectedGroup(text[l], info), NEW k,
                        k = SelectInSeq(text, LAMBDA l : Says(l, info))
                 PROVE  /\ should_relay(rules, info) <=> (k # 0 /\ text[k].action = "allow")
                        /\ \A r \in get_nat_rule(rules, info) :
                             /\ Written(r.nat.source_ip, text[k].opts, "snat", LAMBDA o : o.addr)
                             /\ Written(r.nat.dest_ip, text[k].opts, "dnat", LAMBDA o : o.addr)
                             /\ Written(r.nat.source_port, text[k].opts, "sport", LAMBDA o : o.port)
                             /\ Written(r.nat.dest_port, text[k].opts, "dport", LAMBDA o : o.port)
      BY DEF MeansWhatItSays
    <2>1. /\ text \in Seq(Line) /\ line \in Nat \ {0} /\ line <= Len(text) + 1
          /\ rules \in Seq(Rule) /\ line > Len(text)
      BY DEF MeaningInv, ParseInv, TypeOK
    <2>2. /\ Len(text) \in Nat /\ Len(rules) \in Nat /\ line - 1 = Len(text)
          /\ DOMAIN rules = 1..Len(rules)
          /\ \A l \in 1..Len(text) : text[l] \in Line
      BY <2>1
    <2>3. PICK at : Traces(at, rules, text, Len(text))
      BY <2>2, MeaningTraces
    <2>4. /\ at \in [1..Len(rules) -> 1..Len(text)]
          /\ \A i, j \in 1..Len(rules) : i < j => at[i] < at[j]
          /\ Range(at) = {l \in 1..Len(text) : text[l].kind = "words"}
          /\ \A j \in 1..Len(rules) : rules[j] \in parse_rule(text[at[j]])
      BY <2>2, <2>3 DEF Traces
    <2>5. \A l : l \in Range(at) <=> \E j \in 1..Len(rules) : l = at[j]
      BY <2>4 DEF Range
    <2>6. info \in Info
      BY ProbesAssumption
    <2>7. ASSUME NEW j \in 1..Len(rules)
          PROVE  /\ at[j] \in 1..Len(text) /\ text[at[j]] \in Line
                 /\ rule_matches(rules[j], info) <=> Says(text[at[j]], info)
                 /\ rules[j].action = text[at[j]].action
                 /\ rules[j].nat \in parse_nat(text[at[j]].opts)
      <3>1. at[j] \in 1..Len(text) /\ text[at[j]] \in Line /\ at[j] \in Range(at)
        BY <2>2, <2>4, <2>5
      <3>2. text[at[j]].kind = "words" /\ rules[j] \in parse_rule(text[at[j]])
        BY <2>4, <3>1
      <3>3. ~DirectedGroup(text[at[j]], info)
        BY <2>1, <3>1
      <3>4. QED
        BY <2>6, <3>1, <3>2, <3>3, RuleSays
    <2> DEFINE M == {j \in 1..Len(rules) : rule_matches(rules[j], info)}
               T == {l \in 1..Len(text) : Says(text[l], info)}
    <2>8. find_match(rules, info) = IF M # {} THEN Min(M) ELSE 0
      BY DEF find_match, SelectInSeq
    <2>9. k = IF T # {} THEN Min(T) ELSE 0
      BY DEF SelectInSeq
    <2>10. \A l \in T : \E j \in M : l = at[j]
      <3> TAKE l \in T
      <3>1. l \in Range(at)
        BY <2>4 DEF Says
      <3>2. PICK j \in 1..Len(rules) : l = at[j]
        BY <2>5, <3>1
      <3>3. j \in M
        BY <2>7, <3>2
      <3>4. QED
        BY <3>2, <3>3
    <2>11. \A j \in M : at[j] \in T
      BY <2>7
    <2>12. M \in SUBSET Nat /\ T \in SUBSET Nat /\ \A j \in M : j \in 1..Len(rules)
      BY <2>2
    <2> HIDE DEF M, T
    <2>13. CASE M = {}
      <3>1. T = {}
        BY <2>10, <2>13
      <3>2. k = 0 /\ find_match(rules, info) = 0
        BY <2>8, <2>9, <2>13, <3>1
      <3>3. ~should_relay(rules, info) /\ get_nat_rule(rules, info) = {}
        BY <3>2 DEF should_relay, get_nat_rule
      <3>4. QED
        BY <3>2, <3>3
    <2>14. CASE M # {}
      <3>1. PICK m \in M : m = Min(M) /\ \A j \in M : m <= j
        BY <2>12, <2>14, MinIn
      <3>2. at[m] \in T /\ T # {}
        BY <2>11, <3>1
      <3>3. Min(T) \in T /\ \A l \in T : Min(T) <= l
        BY <2>12, <3>2, MinIn
      <3>4. PICK j \in M : Min(T) = at[j]
        BY <2>10, <3>3
      <3>5. at[j] = at[m]
        <4>1. j \in 1..Len(rules) /\ m \in 1..Len(rules) /\ m <= j
          BY <2>12, <3>1, <3>4
        <4>2. at[j] <= at[m] /\ at[j] \in Nat /\ at[m] \in Nat
          BY <2>4, <3>2, <3>3, <3>4, <4>1
        <4>3. m < j => at[m] < at[j]
          BY <2>4, <4>1
        <4>4. m = j
          BY <4>1, <4>2, <4>3
        <4>5. QED
          BY <4>4
      <3>6. k = at[m] /\ k # 0 /\ m \in 1..Len(rules) /\ m # 0
        <4>1. k = at[m] /\ m \in 1..Len(rules)
          BY <2>9, <2>12, <3>1, <3>2, <3>4, <3>5
        <4>2. at[m] \in 1..Len(text)
          BY <2>7, <4>1
        <4>3. QED
          BY <4>1, <4>2
      <3>7. find_match(rules, info) = m
        BY <2>8, <2>14, <3>1
      <3>8. rules[m].action = text[k].action
        BY <2>7, <3>6
      <3>9. should_relay(rules, info) <=> (k # 0 /\ text[k].action = "allow")
        BY <3>6, <3>7, <3>8 DEF should_relay
      <3>10. \A r \in get_nat_rule(rules, info) : r = rules[m]
        BY <3>7 DEF get_nat_rule
      <3>11. rules[m].nat \in parse_nat(text[k].opts) /\ text[k].opts \in Seq(OptWord)
        <4>1. text[k] \in Line
          BY <2>7, <3>6
        <4>2. QED
          BY <2>7, <3>6, <4>1 DEF Line
      <3>12. /\ Written(rules[m].nat.source_ip, text[k].opts, "snat", LAMBDA o : o.addr)
             /\ Written(rules[m].nat.dest_ip, text[k].opts, "dnat", LAMBDA o : o.addr)
             /\ Written(rules[m].nat.source_port, text[k].opts, "sport", LAMBDA o : o.port)
             /\ Written(rules[m].nat.dest_port, text[k].opts, "dport", LAMBDA o : o.port)
        BY <3>11, NatWritten
      <3>13. QED
        BY <3>9, <3>10, <3>12
    <2>15. QED
      BY <2>13, <2>14
  <1>2. QED
    BY <1>1, MeaningInvTheorem, PTL
=============================================================================
