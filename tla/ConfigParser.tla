---------------------------- MODULE ConfigParser ----------------------------
(***************************************************************************)
(* Loading a configuration: Config::from_file, Config::parse and the       *)
(* functions it calls for a line, in src/config.rs.                        *)
(*                                                                         *)
(* A word of a line is kept as what distinguishes it for the parser: a     *)
(* keyword, four numbers with dots, an address with a prefix length, a     *)
(* number, a pair of numbers, or junk.  Numbers are those of the text and  *)
(* may exceed any width; NaN is one that is not made of digits.  A Result  *)
(* is a set: {} for an Err (its wording is left out), {v} for Ok(v).       *)
(***************************************************************************)
EXTENDS NatRewrite

CONSTANTS
    Files,  \* the files, as sequences of lines
    Probes  \* packets (as PacketInfo) the rules are asked about

NaN == -1

IpWord   == [form: {"any", "directed", "addr", "cidr", "junk"},
             addr: Seq(Int), len: Int]
PortWord == [form: {"any", "number", "range", "junk"}, lo: Int, hi: Int]
\* An address, a port, and how many colons there are: one if both are given,
\* none if the port is left out.
Endpoint == [ip: IpWord, port: PortWord, colons: Nat]
OptWord  == [key: STRING, addr: Seq(Int), port: Int]
\* A line that is not blank and not a comment has at least one word; words is
\* their number, and src, dst and opts are what stands at their places.
Line == [kind: {"blank", "comment", "words"}, words: Nat, action: STRING,
         protocol: STRING, src: Endpoint, dst: Endpoint, opts: Seq(OptWord)]

ASSUME FilesAssumption == Files \subseteq Seq(Line)

\* What extract_packet_info makes of a packet.
Info == [protocol: {"udp"}, src_ip: Addr, dst_ip: Addr, src_port: Word, dst_port: Word]
ASSUME ProbesAssumption == Probes \subseteq Info
-----------------------------------------------------------------------------
\* Mutant: ports are parsed as wider integers.
parse_u16_wide(n) == {x \in {n} : x \in Nat}

\* Ipv4Addr::from_str, and str::parse::<u16>.
parse_ipv4(a) == {x \in {a} : x \in Addr}
parse_u16(n)  == {x \in {n} : x \in Word}

parse_ip_matcher(w) ==
    CASE w.form = "any"  -> {AnyIp}
      [] w.form = "cidr" -> {CidrIp(a, w.len) :
                                a \in {a \in parse_ipv4(w.addr) : w.len \in 0..32}}
      [] w.form = "addr" -> {ExactIp(a) : a \in parse_ipv4(w.addr)}
      [] OTHER -> {}

\* Mutant: start > end is not refused.
parse_port_matcher_any_order(w) ==
    CASE w.form = "any"    -> {AnyPort}
      [] w.form = "range"  -> {RangePort(p, q) : p \in parse_u16(w.lo), q \in parse_u16(w.hi)}
      [] w.form = "number" -> {ExactPort(p) : p \in parse_u16(w.lo)}
      [] OTHER -> {}

parse_port_matcher(w) ==
    CASE w.form = "any"    -> {AnyPort}
      [] w.form = "range"  -> {RangePort(p, q) : p \in parse_u16(w.lo),
                                  q \in {q \in parse_u16(w.hi) : w.lo <= q}}
      [] w.form = "number" -> {ExactPort(p) : p \in parse_u16(w.lo)}
      [] OTHER -> {}

parse_addr_port(e) ==
    {[ip |-> i, port |-> p] : i \in parse_ip_matcher(e.ip),
                              p \in {p \in parse_port_matcher(e.port) : e.colons = 1}}

\* The address and the broadcast type of a destination.
DestMatcher(w) ==
    CASE w.form = "addr" /\ w.addr = LIMITED_BROADCAST ->
                {[ip |-> ExactIp(LIMITED_BROADCAST), type |-> "limited"]}
      [] w.form = "directed" -> {[ip |-> AnyIp, type |-> "directed"]}
      [] OTHER -> {[ip |-> i, type |-> "any"] : i \in parse_ip_matcher(w)}

parse_dest_addr_port(e) ==
    {[ip |-> d.ip, port |-> p, type |-> d.type] :
        d \in DestMatcher(e.ip),
        p \in {p \in parse_port_matcher(e.port) : e.colons = 1}}

\* The values of the options with this key that end up in the rule: the last one
\* overwrites the others.
LastOf(opts, key, Value(_)) ==
    LET k == SelectLastInSeq(opts, LAMBDA o : o.key = key)
    IN  IF k = 0 THEN {} ELSE {Value(opts[k])}

OptOk(o) == \/ o.key \in {"snat", "dnat"} /\ parse_ipv4(o.addr) # {}
            \/ o.key \in {"sport", "dport"} /\ parse_u16(o.port) # {}

\* The loop over the options of a rule.
parse_nat(opts) ==
    {n \in {[source_ip   |-> LastOf(opts, "snat", LAMBDA o : o.addr),
             dest_ip     |-> LastOf(opts, "dnat", LAMBDA o : o.addr),
             source_port |-> LastOf(opts, "sport", LAMBDA o : o.port),
             dest_port   |-> LastOf(opts, "dport", LAMBDA o : o.port)]} :
        \A k \in DOMAIN opts : OptOk(opts[k])}

parse_rule(w) ==
    {r \in {[action |-> w.action, protocol |-> w.protocol,
             src_ip |-> s.ip, src_port |-> s.port,
             dst_ip |-> d.ip, dst_port |-> d.port,
             broadcast_type |-> d.type, nat |-> n] :
               s \in parse_addr_port(w.src), d \in parse_dest_addr_port(w.dst),
               n \in parse_nat(w.opts)} :
        /\ w.words >= 4
        /\ w.action \in {"allow", "deny"}
        /\ w.protocol \in {"udp", "any"}
        /\ w.action = "deny" => r.nat = NoNat}
-----------------------------------------------------------------------------
VARIABLES text, line, rules, outcome
vars == <<text, line, rules, outcome>>

Init == text \in Files /\ line = 1 /\ rules = <<>> /\ outcome = "reading"

\* fs::read_to_string
Read ==
    /\ outcome = "reading"
    /\ outcome' \in {"parsing", "unreadable"}
    /\ UNCHANGED <<text, line, rules>>

AtLine == outcome = "parsing" /\ line <= Len(text)

SkipLine ==
    /\ AtLine
    /\ text[line].kind # "words"
    /\ line' = line + 1
    /\ UNCHANGED <<text, rules, outcome>>

\* Mutant: a rule is put in front of the others.
PushRule_in_front ==
    /\ AtLine
    /\ text[line].kind = "words"
    /\ \E r \in parse_rule(text[line]) : rules' = <<r>> \o rules
    /\ line' = line + 1
    /\ UNCHANGED <<text, outcome>>

PushRule ==
    /\ AtLine
    /\ text[line].kind = "words"
    /\ \E r \in parse_rule(text[line]) : rules' = Append(rules, r)
    /\ line' = line + 1
    /\ UNCHANGED <<text, outcome>>

\* The error names the line.
Reject ==
    /\ AtLine
    /\ text[line].kind = "words" /\ parse_rule(text[line]) = {}
    /\ outcome' = "rejected"
    /\ UNCHANGED <<text, line, rules>>

Accept ==
    /\ outcome = "parsing" /\ line > Len(text)
    /\ outcome' = "accepted"
    /\ UNCHANGED <<text, line, rules>>

Next == Read \/ SkipLine \/ PushRule \/ Reject \/ Accept

Spec == Init /\ [][Next]_vars
-----------------------------------------------------------------------------
(* Properties *)

TypeOK ==
    /\ text \in Seq(Line) /\ line \in Nat \ {0} /\ line <= Len(text) + 1
    /\ rules \in Seq(Rule)
    /\ outcome \in {"reading", "parsing", "unreadable", "rejected", "accepted"}

\* Bit j of an address, counted from the left.
Weight == <<128, 64, 32, 16, 8, 4, 2, 1>>
Bit(a, j) == (a[((j - 1) \div 8) + 1] \div Weight[((j - 1) % 8) + 1]) % 2

\* What the words of a line say of a packet, as the documentation explains them.
\* "directed" is a subnet-directed broadcast such as 192.168.1.255 (README.md:135,
\* packaging/bcr.8:147): the last address of a network of hosts, which is taken
\* to be a /24 as in that example, since a line does not tell the networks.
SaysIp(w, ip) ==
    \/ w.form = "any"
    \/ w.form = "addr" /\ ip = w.addr
    \/ w.form = "cidr" /\ \A j \in 1..w.len : Bit(ip, j) = Bit(w.addr, j)
    \/ /\ w.form = "directed"
       /\ ip[4] = 255 /\ ip # LIMITED_BROADCAST /\ ~IsMulticast(ip)
SaysPort(w, port) ==
    \/ w.form = "any"
    \/ w.form = "number" /\ port = w.lo
    \/ w.form = "range" /\ port \in w.lo..w.hi
Says(l, info) ==
    /\ l.kind = "words"
    /\ SaysIp(l.src.ip, info.src_ip) /\ SaysPort(l.src.port, info.src_port)
    /\ SaysIp(l.dst.ip, info.dst_ip) /\ SaysPort(l.dst.port, info.dst_port)

\* The value of an option is one that is written on the line, if any is.
Written(value, opts, key, V(_)) ==
    LET vs == {V(o) : o \in {o \in Range(opts) : o.key = key}}
    IN  value \subseteq vs /\ (value = {} <=> vs = {})

\* The case in which code and documentation disagree about a line: it says
\* "directed", and the packet is for a multicast group that ends in 255. No
\* broadcast of a subnet, but BroadcastType::Directed looks at the last octet
\* only (config.rs:135-139).
DirectedGroup(l, info) ==
    /\ l.kind = "words" /\ l.dst.ip.form = "directed"
    /\ IsMulticast(info.dst_ip) /\ info.dst_ip[4] = 255

\* A file that is accepted decides every packet as its text says: by the first
\* line that speaks of the packet, with prefixes taken bit by bit, ranges with
\* both ends, and every rewriting written on that line and no other.  Excepted
\* are packets for a group that ends in 255 if some line says "directed", which
\* the documentation gives another meaning than the code.
MeansWhatItSays ==
    outcome = "accepted" =>
    \A info \in {p \in Probes : \A k \in DOMAIN text : ~DirectedGroup(text[k], p)} :
        LET k == SelectInSeq(text, LAMBDA l : Says(l, info))
        IN  /\ should_relay(rules, info) <=> (k # 0 /\ text[k].action = "allow")
            /\ \A r \in get_nat_rule(rules, info) :
                  /\ Written(r.nat.source_ip, text[k].opts, "snat", LAMBDA o : o.addr)
                  /\ Written(r.nat.dest_ip, text[k].opts, "dnat", LAMBDA o : o.addr)
                  /\ Written(r.nat.source_port, text[k].opts, "sport", LAMBDA o : o.port)
                  /\ Written(r.nat.dest_port, text[k].opts, "dport", LAMBDA o : o.port)

\* By the documentation the line is wrong: somewhere in it is a word that means
\* nothing, a number out of range or out of order, a misspelt keyword or option,
\* a missing word; or an option that would do nothing.  The ports are optional
\* there, "SRC_IP[:SRC_PORT] DST_IP[:DST_PORT]" (README.md:111,
\* packaging/bcr.8:117, examples/sample.conf:4), so leaving one out is no fault.
Faulty(l) ==
    LET ips   == {l.src.ip, l.dst.ip}
        ports == {l.src.port, l.dst.port}
    IN  /\ l.kind = "words"
        /\ \/ l.words < 4 \/ ~({l.src.colons, l.dst.colons} \subseteq {0, 1})
           \/ l.action \notin {"allow", "deny"} \/ l.protocol \notin {"udp", "any"}
           \/ l.src.ip.form = "directed"
           \/ \E w \in ips : w.form = "junk"
           \/ \E w \in ips : w.form \in {"addr", "cidr"} /\ w.addr \notin Addr
           \/ \E w \in ips : w.form = "cidr" /\ w.len \notin 0..32
           \/ \E w \in ports : w.form = "junk"
           \/ \E w \in ports : w.form # "any" /\ w.lo \notin Word
           \/ \E w \in ports : w.form = "range" /\ ~(w.hi \in Word /\ w.lo <= w.hi)
           \/ \E o \in Range(l.opts) : \/ l.action = "deny"
                                       \/ o.key \notin {"snat", "dnat", "sport", "dport"}
                                       \/ o.key \in {"snat", "dnat"} /\ o.addr \notin Addr
                                       \/ o.key \in {"sport", "dport"} /\ o.port \notin Word

\* An address without a port: right by the documentation, and yet an error for
\* parse_addr_port and parse_dest_addr_port (config.rs:286 and 364).
OmitsPort(l) == l.kind = "words" /\ 0 \in {l.src.colons, l.dst.colons}

\* The lines the parser refuses: the faulty ones, and those that omit a port.
Refused(l) == Faulty(l) \/ OmitsPort(l)

\* Parsing stops at a line that is to be refused and nowhere else.
ParseInv ==
    /\ TypeOK
    /\ \A k \in 1..(line - 1) : ~Refused(text[k])
    /\ outcome = "accepted" => line > Len(text)
    /\ outcome = "rejected" => line <= Len(text) /\ Refused(text[line])

\* Why MeansWhatItSays holds: the rules are those of the lines with words that
\* have been passed, one for each, in the order of the file.
MeaningInv ==
    /\ ParseInv
    /\ \E at \in [DOMAIN rules -> 1..(line - 1)] :
          /\ \A j, k \in DOMAIN rules : j < k => at[j] < at[k]
          /\ Range(at) = {k \in 1..(line - 1) : text[k].kind = "words"}
          /\ \A j \in DOMAIN rules : rules[j] \in parse_rule(text[at[j]])

\* A file is accepted only if no line of it is faulty.  One that is rejected is
\* rejected at its first line that is faulty or, which the documentation allows
\* and the code does not, omits a port; the error names that line.
StrictlyParsed ==
    /\ outcome = "accepted" => \A k \in DOMAIN text : ~Faulty(text[k])
    /\ outcome = "rejected" => line = SelectInSeq(text, Refused)
=============================================================================
