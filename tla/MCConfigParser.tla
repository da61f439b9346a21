--------------------------- MODULE MCConfigParser ---------------------------
(* Files of up to two lines: every pair out of a pool in which each kind of *)
(* word appears with its boundary values, and packets that tell them apart. *)
EXTENDS ConfigParser

Ip(form, addr, len)  == [form |-> form, addr |-> addr, len |-> len]
Port(form, lo, hi)   == [form |-> form, lo |-> lo, hi |-> hi]
WAny    == Ip("any", <<>>, 0)
WPort   == Port("any", 0, 0)
At(ip, port) == [ip |-> ip, port |-> port, colons |-> 1]
Plain(action, src, dst, opts) ==
    [kind |-> "words", words |-> 4 + Len(opts), action |-> action,
     protocol |-> "udp", src |-> src, dst |-> dst, opts |-> opts]
Opt(key, addr, port) == [key |-> key, addr |-> addr, port |-> port]

Net  == <<10, 0, 1, 5>>
Host == <<10, 0, 129, 9>>
Bad  == <<10, 0, 1, 256>>
Dots == <<10, 0, 1>>

IpWords == {WAny, Ip("addr", Net, 0), Ip("addr", Bad, 0), Ip("addr", Dots, 0),
            Ip("junk", <<>>, 0), Ip("directed", <<>>, 0),
            Ip("addr", LIMITED_BROADCAST, 0)} \cup
           {Ip("cidr", a, n) : a \in {Net}, n \in {0, 16, 17, 24, 31, 32, 33, NaN}}
PortWords == {WPort, Port("junk", 0, 0)} \cup
             {Port("number", n, 0) : n \in {0, 138, 65535, 65536, NaN}} \cup
             {Port("range", 137, q) : q \in {136, 137, 139, 65536}}
OptWords == {Opt("snat", Host, 0), Opt("snat", Dots, 0), Opt("dnat", Host, 0),
             Opt("sport", <<>>, 9), Opt("dport", <<>>, 65536), Opt("snnat", Host, 0)}

AnyAny == At(WAny, WPort)
Pool ==
    {Plain("allow", At(w, WPort), AnyAny, <<>>) : w \in IpWords} \cup
    {Plain("deny", AnyAny, At(w, WPort), <<>>) : w \in IpWords} \cup
    {Plain("allow", AnyAny, At(Ip("addr", LIMITED_BROADCAST, 0), p), <<>>) : p \in PortWords} \cup
    {Plain(a, AnyAny, AnyAny, <<o>>) : a \in {"allow", "deny"}, o \in OptWords} \cup
    {Plain("allow", AnyAny, AnyAny, <<Opt("snat", Host, 0), Opt("snat", Net, 0)>>),
     [Plain("allow", AnyAny, AnyAny, <<>>) EXCEPT !.protocol = "tcp"],
     [Plain("allow", AnyAny, AnyAny, <<>>) EXCEPT !.protocol = "any"],
     [Plain("permit", AnyAny, AnyAny, <<>>) EXCEPT !.words = 5],
     [Plain("allow", AnyAny, AnyAny, <<>>) EXCEPT !.words = 3],
     [Plain("allow", AnyAny, AnyAny, <<>>) EXCEPT !.src.colons = 0],
     [Plain("allow", AnyAny, AnyAny, <<>>) EXCEPT !.dst.colons = 2],
     [Plain("allow", AnyAny, AnyAny, <<>>) EXCEPT !.dst.colons = 0],
     [Plain("allow", AnyAny, AnyAny, <<>>) EXCEPT !.kind = "comment"],
     [Plain("allow", AnyAny, AnyAny, <<>>) EXCEPT !.kind = "blank"]}

PairFiles == {<<>>} \cup {<<l>> : l \in Pool} \cup {<<l, m>> : l, m \in Pool}

PoolProbes ==
    [protocol: {"udp"}, dst_port: {0, 137, 138, 139, 140, 65535}, src_port: {7},
     src_ip: {Net, <<10, 0, 1, 4>>, <<10, 0, 127, 1>>, Host, <<11, 0, 1, 5>>},
     dst_ip: {LIMITED_BROADCAST, Net, <<10, 0, 1, 255>>, <<224, 0, 0, 251>>,
              <<239, 255, 255, 255>>}]
=============================================================================
