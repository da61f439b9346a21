------------------------------- MODULE Relay --------------------------------
(***************************************************************************)
(* bcr instances relaying between network segments: the loop of            *)
(* src/relay.rs (Relay::run) in every running instance, composed with the  *)
(* kernel's packet sockets, the segments, and the faults the code meets    *)
(* (a link going down, a process dying and being started again).           *)
(*                                                                         *)
(* An instance is one thread.  What it does between two system calls is    *)
(* one action; select, each read and each sendto are separate actions, so  *)
(* hosts, links and other instances interleave with them.  A frame on a    *)
(* segment reaches every running input socket bound to an interface of     *)
(* that segment, the sender's own ones included: an AF_PACKET socket bound *)
(* with ETH_P_ALL also captures what other sockets send on its interface.  *)
(***************************************************************************)
EXTENDS PacketSocket, TokenBucket, FiniteSets

CONSTANTS
    Inst,            \* bcr processes
    Iface,           \* network interfaces, of all hosts
    Segment,         \* broadcast domains
    SegmentOf,       \* the segment an interface is attached to
    BroadcastAddrs,  \* its IPv4 broadcast addresses, as found at startup
    Inputs, Outputs, \* the -i and -o options of an instance, in order
    Rules,           \* its configuration
    RateLimit,       \* --rate-limit, 0 for none
    RateBurst,       \* --rate-burst, an option
    Verbose,         \* -v
    Frames,          \* the frames hosts may send
    QueueCap,        \* frames a socket's receive queue holds
    MaxInject,       \* bound: frames sent by hosts
    MaxTime,         \* bound: ticks of the clock
    MaxFaults,       \* bound: links going down and processes dying
    MaxLost          \* bound: frames lost before sendto fails only for a link

ASSUME RelayAssumption ==
    /\ Frames \subseteq Packet
    /\ SegmentOf \in [Iface -> Segment]
    /\ BroadcastAddrs \in [Iface -> Seq(Addr)]
    /\ Inputs \in [Inst -> Seq(Iface)]
    /\ Outputs \in [Inst -> Seq(Iface)]
    /\ Rules \in [Inst -> Seq(Rule)]
    /\ RateLimit \in [Inst -> Nat]
    /\ RateBurst \in [Inst -> SUBSET Nat]
    /\ Verbose \in [Inst -> BOOLEAN]
    /\ {QueueCap, MaxInject, MaxTime, MaxFaults, MaxLost} \subseteq Nat

\* An interface address is never a group address, so neither is its broadcast.
ASSUME BroadcastAssumption ==
    \A f \in Iface : \A k \in DOMAIN BroadcastAddrs[f] :
        ~IsMulticast(BroadcastAddrs[f][k])

VARIABLES
    pc,        \* where each instance's thread is
    ready,     \* read_fds: the input sockets select() reported
    cur,       \* the input socket the scan has reached
    buf,       \* recv_buf: <<>>, or the frame being fanned out
    out,       \* the output socket the fan-out has reached
    rl,        \* rate_limiter
    queue,     \* receive queue of each input socket
    sockerr,   \* pending error of each input socket
    outerr,    \* pending error of each output socket
    up,        \* link state of each interface
    now,       \* the monotonic clock
    originals, \* history: the frames hosts have sent, and where
    wire,      \* history: what the instances have sent on each segment
    bypass,    \* history: reads of sibling sockets since a socket was last read
    lost,      \* history: the frames sendto failed for, and on which output
    faults     \* number of faults so far

procVars  == <<pc, ready, cur, buf, out, rl>>
histories == <<originals, wire, bypass, lost>>
vars      == <<procVars, queue, sockerr, outerr, up, now, histories, faults>>

\* Input socket k of instance i, and the interface it is bound to.
InSock  == UNION {{i} \X (1..Len(Inputs[i])) : i \in Inst}
IfOf(s) == Inputs[s[1]][s[2]]

\* Output socket l of instance i, and the interface it is bound to.
OutSock    == UNION {{i} \X (1..Len(Outputs[i])) : i \in Inst}
OutIfOf(s) == Outputs[s[1]][s[2]]

\* A frame in a queue: orig is the host frame it stems from (an index into
\* originals), hops how often it has been relayed.
Entry == [pkt: Packet, orig: Nat, hops: Nat]
\* The frame in recv_buf with the rule found for it, while it is fanned out.
Fanout == [pkt: Packet, orig: Nat, hops: Nat, nat_rule: SUBSET Rule]
Sent  == [inst: Inst, ingress: Iface, egress: Iface, orig: Nat, hops: Nat,
          pkt: Packet, mac: Seq(Octet), logged: BOOLEAN]
Lost  == [inst: Inst, egress: Iface, orig: Nat]

\* The rate limiter main() builds at time t.
limiter(i, t) == new(RateLimit[i], SetIfSome(RateBurst[i], RateLimit[i]), t)

Init ==
    /\ pc = [i \in Inst |-> "select"]
    /\ ready = [i \in Inst |-> {}]
    /\ cur = [i \in Inst |-> 1]
    /\ buf = [i \in Inst |-> <<>>]
    /\ out = [i \in Inst |-> 1]
    /\ rl = [i \in Inst |-> limiter(i, 0)]
    /\ queue = [s \in InSock |-> <<>>]
    /\ sockerr = [s \in InSock |-> FALSE]
    /\ outerr = [s \in OutSock |-> FALSE]
    /\ up = [f \in Iface |-> TRUE]
    /\ now = 0
    /\ originals = <<>>
    /\ wire = [g \in Segment |-> <<>>]
    /\ bypass = [s \in InSock |-> 0]
    /\ lost = {}
    /\ faults = 0
-----------------------------------------------------------------------------
(* Kernel and hosts *)

\* The queues after frame e has been sent on segment g: a full queue drops it.
Deliver(g, e) ==
    [s \in InSock |->
        IF /\ SegmentOf[IfOf(s)] = g
           /\ up[IfOf(s)]
           /\ pc[s[1]] # "stopped"
           /\ bpf_accepts(e.pkt)
           /\ Len(queue[s]) < QueueCap
        THEN Append(queue[s], e) ELSE queue[s]]

\* A host sends a frame of its own on segment g.
HostSend(g, p) ==
    /\ Len(originals) < MaxInject
    /\ originals' = Append(originals, [seg |-> g, pkt |-> p])
    /\ queue' = Deliver(g, [pkt |-> p, orig |-> Len(originals) + 1, hops |-> 0])
    /\ UNCHANGED <<procVars, sockerr, outerr, up, now, wire, bypass, lost,
                   faults>>

\* An interface is taken down; the kernel posts ENETDOWN to every socket bound
\* to it, input or output.
LinkDown(f) ==
    /\ up[f]
    /\ faults < MaxFaults
    /\ faults' = faults + 1
    /\ up' = [up EXCEPT ![f] = FALSE]
    /\ sockerr' = [s \in InSock |->
                      sockerr[s] \/ (IfOf(s) = f /\ pc[s[1]] # "stopped")]
    /\ outerr' = [s \in OutSock |->
                     outerr[s] \/ (OutIfOf(s) = f /\ pc[s[1]] # "stopped")]
    /\ UNCHANGED <<procVars, queue, now, histories>>

LinkUp(f) ==
    /\ ~up[f]
    /\ up' = [up EXCEPT ![f] = TRUE]
    /\ UNCHANGED <<procVars, queue, sockerr, outerr, now, histories, faults>>

Tick ==
    /\ now < MaxTime
    /\ now' = now + 1
    /\ UNCHANGED <<procVars, queue, sockerr, outerr, up, histories, faults>>
-----------------------------------------------------------------------------
(* The relay loop *)

\* Mutant: the descriptor set is not rebuilt before select() is called again.
readable_kept_set(i) ==
    {k \in IF ready[i] = {} THEN 1..Len(Inputs[i]) ELSE ready[i] :
        queue[<<i, k>>] # <<>> \/ sockerr[<<i, k>>]}

\* Mutant: select() reports only the first readable socket.
readable_first_only(i) ==
    LET r == {k \in 1..Len(Inputs[i]) :
                 queue[<<i, k>>] # <<>> \/ sockerr[<<i, k>>]}
    IN  {k \in r : \A j \in r : k <= j}

\* The input sockets select() reports as readable.
readable(i) == {k \in 1..Len(Inputs[i]) :
                   queue[<<i, k>>] # <<>> \/ sockerr[<<i, k>>]}

Select(i) ==
    /\ pc[i] = "select"
    /\ readable(i) # {}
    /\ ready' = [ready EXCEPT ![i] = readable(i)]
    /\ cur' = [cur EXCEPT ![i] = 1]
    /\ pc' = [pc EXCEPT ![i] = "scan"]
    /\ UNCHANGED <<buf, out, rl, queue, sockerr, outerr, up, now, histories,
                   faults>>

\* Nothing readable for three seconds: the loop starts over.
SelectTimeout(i) ==
    /\ pc[i] = "select"
    /\ readable(i) = {}
    /\ UNCHANGED vars

\* The scan is at input socket cur[i], which select() reported.
AtReady(i) == pc[i] = "scan" /\ cur[i] \in ready[i]

NextSocket(i) == cur' = [cur EXCEPT ![i] = @ + 1]

\* A visit of the current socket, as the bypass counters record it.
CountBypass(i) ==
    bypass' = [s \in InSock |->
                  IF s[1] # i THEN bypass[s]
                  ELSE IF s[2] = cur[i] \/ queue[s] = <<>> THEN 0
                  ELSE bypass[s] + 1]

SkipSocket(i) ==
    /\ pc[i] = "scan"
    /\ cur[i] <= Len(Inputs[i])
    /\ cur[i] \notin ready[i]
    /\ NextSocket(i)
    /\ UNCHANGED <<pc, ready, buf, out, rl, queue, sockerr, outerr, up, now,
                   histories, faults>>

\* read() fails: it returns the pending error and clears it (queued frames
\* stay), or the non-blocking socket has nothing to read after all.
RecvError(i) ==
    /\ AtReady(i)
    /\ sockerr[<<i, cur[i]>>] \/ queue[<<i, cur[i]>>] = <<>>
    /\ sockerr' = [sockerr EXCEPT ![<<i, cur[i]>>] = FALSE]
    /\ NextSocket(i)
    /\ CountBypass(i)
    /\ UNCHANGED <<pc, ready, buf, out, rl, queue, outerr, up, now, originals,
                   wire, lost, faults>>

\* Mutant: the frame is peeked at and stays in the queue.
Recv_peek(i) ==
    /\ AtReady(i)
    /\ ~sockerr[<<i, cur[i]>>]
    /\ queue[<<i, cur[i]>>] # <<>>
    /\ queue' = queue
    /\ CountBypass(i)

\* read() takes the first frame off the current socket's queue.
Recv(i) ==
    /\ AtReady(i)
    /\ ~sockerr[<<i, cur[i]>>]
    /\ queue[<<i, cur[i]>>] # <<>>
    /\ queue' = [queue EXCEPT ![<<i, cur[i]>>] = Tail(@)]
    /\ CountBypass(i)

\* Steps 1 to 3 of the hot path: loop check, parsing, rules.
Passes(i, p) ==
    /\ ~is_already_relayed(p)
    /\ extract_packet_info(p)
    /\ should_relay(Rules[i], PacketInfo(p))

Received(i) == Head(queue[<<i, cur[i]>>])

\* The frame is dropped by one of them.
DropFrame(i) ==
    /\ Recv(i)
    /\ ~Passes(i, Received(i).pkt)
    /\ NextSocket(i)
    /\ UNCHANGED <<pc, ready, buf, out, rl, sockerr, outerr, up, now,
                   originals, wire, lost, faults>>

\* Step 4: the bucket is empty.
RateLimited(i) ==
    /\ Recv(i)
    /\ Passes(i, Received(i).pkt)
    /\ RateLimit[i] > 0
    /\ ~allow(rl[i], now)
    /\ rl' = [rl EXCEPT ![i] = after_allow(@, now)]
    /\ NextSocket(i)
    /\ UNCHANGED <<pc, ready, buf, out, sockerr, outerr, up, now, originals,
                   wire, lost, faults>>

\* Mutant: the token is not taken out of the bucket.
charge_nothing(i) == rl[i]

\* The limiter after an accepted packet (untouched when there is none).
charge(i) == IF RateLimit[i] > 0 THEN after_allow(rl[i], now) ELSE rl[i]

\* The frame is accepted and its fan-out starts.
Accept(i) ==
    /\ Recv(i)
    /\ Passes(i, Received(i).pkt)
    /\ RateLimit[i] > 0 => allow(rl[i], now)
    /\ rl' = [rl EXCEPT ![i] = charge(i)]
    /\ LET e == Received(i)
       IN  buf' = [buf EXCEPT ![i] =
              <<[pkt |-> e.pkt, orig |-> e.orig, hops |-> e.hops,
                 nat_rule |-> get_nat_rule(Rules[i], PacketInfo(e.pkt))]>>]
    /\ out' = [out EXCEPT ![i] = 1]
    /\ pc' = [pc EXCEPT ![i] = "fanout"]
    /\ UNCHANGED <<ready, cur, sockerr, outerr, up, now, originals, wire, lost,
                   faults>>

\* Every socket has been looked at: back to select().
EndScan(i) ==
    /\ pc[i] = "scan"
    /\ cur[i] > Len(Inputs[i])
    /\ pc' = [pc EXCEPT ![i] = "select"]
    /\ UNCHANGED <<ready, cur, buf, out, rl, queue, sockerr, outerr, up, now,
                   histories, faults>>
-----------------------------------------------------------------------------
(* Fan-out *)

ingress(i) == IfOf(<<i, cur[i]>>)
egress(i)  == Outputs[i][out[i]]

\* The frame the current output gets: a copy of recv_buf, rewritten by the
\* rule that matched, for the broadcast address of that output.
rewritten(i) ==
    LET e == Head(buf[i])
    IN  apply_nat(e.pkt, unwrap(e.nat_rule).nat,
                  nat_rewrite_target(e.pkt.dst, BroadcastAddrs[egress(i)]))

AtOutput(i) == pc[i] = "fanout" /\ out[i] <= Len(Outputs[i])

\* The current output is one apply_nat and sendto are reached for.
Eligible(i) ==
    LET p == Head(buf[i]).pkt
    IN  /\ should_relay_to(p.dst, ingress(i), egress(i),
                           BroadcastAddrs[egress(i)])
        /\ apply_nat_ok(p)

NextOutput(i) == out' = [out EXCEPT ![i] = @ + 1]

SkipOutput(i) ==
    /\ AtOutput(i)
    /\ ~Eligible(i)
    /\ NextOutput(i)
    /\ UNCHANGED <<pc, ready, cur, buf, rl, queue, sockerr, outerr, up, now,
                   histories, faults>>

\* sendto() succeeds; one line is logged when -v is given.
Send(i) ==
    LET e == Head(buf[i])
        g == SegmentOf[egress(i)]
    IN  /\ AtOutput(i)
        /\ Eligible(i)
        /\ up[egress(i)] /\ ~outerr[<<i, out[i]>>]
        /\ \E p \in {rewritten(i)} :
              /\ wire' = [wire EXCEPT ![g] = Append(@,
                    [inst |-> i, ingress |-> ingress(i), egress |-> egress(i),
                     orig |-> e.orig, hops |-> e.hops + 1, pkt |-> p,
                     mac |-> dest_mac(p), logged |-> Verbose[i]])]
              /\ queue' = Deliver(g, [pkt |-> p, orig |-> e.orig,
                                      hops |-> e.hops + 1])
        /\ NextOutput(i)
        /\ UNCHANGED <<pc, ready, cur, buf, rl, sockerr, outerr, up, now,
                       originals, bypass, lost, faults>>

\* sendto() on the current output fails, for one of three reasons: its link is
\* down (this is found before the pending error is looked at, which stays); its
\* link has been down since the last sendto, whose error is still pending and is
\* returned now, with the link up again; or anything else (the rewritten frame
\* is too long, the buffer of the non-blocking socket or the device is full).
SendFails(i) ==
    \/ ~up[egress(i)] /\ UNCHANGED outerr
    \/ /\ up[egress(i)] /\ outerr[<<i, out[i]>>]
       /\ outerr' = [outerr EXCEPT ![<<i, out[i]>>] = FALSE]
    \/ Cardinality(lost) < MaxLost /\ UNCHANGED outerr

\* The frame sendto() failed for, as the history of lost frames records it.
LoseFrame(i) ==
    lost' = lost \cup {[inst |-> i, egress |-> egress(i),
                       orig |-> Head(buf[i]).orig]}

\* Mutant: an error on one output ends the fan-out.
SendError_gives_up(i) ==
    /\ AtOutput(i)
    /\ Eligible(i)
    /\ SendFails(i)
    /\ LoseFrame(i)
    /\ out' = [out EXCEPT ![i] = Len(Outputs[i]) + 1]
    /\ UNCHANGED <<pc, ready, cur, buf, rl, queue, sockerr, up, now, originals,
                   wire, bypass, faults>>

\* The error is swallowed and the frame is lost for this output.
SendError(i) ==
    /\ AtOutput(i)
    /\ Eligible(i)
    /\ SendFails(i)
    /\ LoseFrame(i)
    /\ NextOutput(i)
    /\ UNCHANGED <<pc, ready, cur, buf, rl, queue, sockerr, up, now, originals,
                   wire, bypass, faults>>

\* Mutant: the same socket is read again until there is nothing to accept.
EndFanout_drain(i) ==
    /\ pc[i] = "fanout"
    /\ out[i] > Len(Outputs[i])
    /\ pc' = [pc EXCEPT ![i] = "scan"]
    /\ buf' = [buf EXCEPT ![i] = <<>>]
    /\ out' = [out EXCEPT ![i] = 1]
    /\ UNCHANGED <<ready, cur, rl, queue, sockerr, outerr, up, now, histories,
                   faults>>

EndFanout(i) ==
    /\ pc[i] = "fanout"
    /\ out[i] > Len(Outputs[i])
    /\ pc' = [pc EXCEPT ![i] = "scan"]
    /\ buf' = [buf EXCEPT ![i] = <<>>]
    /\ out' = [out EXCEPT ![i] = 1]
    /\ NextSocket(i)
    /\ UNCHANGED <<ready, rl, queue, sockerr, outerr, up, now, histories,
                   faults>>
-----------------------------------------------------------------------------
(* Processes that die and are started again *)

\* The process ends (select() failed, a panic, a signal) and its sockets are
\* closed with whatever is queued in them.
Exit(i) ==
    /\ pc[i] # "stopped"
    /\ faults < MaxFaults
    /\ faults' = faults + 1
    /\ pc' = [pc EXCEPT ![i] = "stopped"]
    /\ ready' = [ready EXCEPT ![i] = {}]
    /\ cur' = [cur EXCEPT ![i] = 1]
    /\ buf' = [buf EXCEPT ![i] = <<>>]
    /\ out' = [out EXCEPT ![i] = 1]
    /\ queue' = [s \in InSock |-> IF s[1] = i THEN <<>> ELSE queue[s]]
    /\ sockerr' = [s \in InSock |-> s[1] # i /\ sockerr[s]]
    /\ outerr' = [s \in OutSock |-> s[1] # i /\ outerr[s]]
    /\ bypass' = [s \in InSock |-> IF s[1] = i THEN 0 ELSE bypass[s]]
    /\ UNCHANGED <<rl, up, now, originals, wire, lost>>

\* systemd starts it again: main() requires every interface to be up, opens
\* fresh sockets and a full token bucket.
Restart(i) ==
    /\ pc[i] = "stopped"
    /\ \A k \in DOMAIN Inputs[i] : up[Inputs[i][k]]
    /\ \A k \in DOMAIN Outputs[i] : up[Outputs[i][k]]
    /\ rl' = [rl EXCEPT ![i] = limiter(i, now)]
    /\ pc' = [pc EXCEPT ![i] = "select"]
    /\ UNCHANGED <<ready, cur, buf, out, queue, sockerr, outerr, up, now,
                   histories, faults>>
-----------------------------------------------------------------------------
\* A step of the thread of instance i.
RelayStep(i) ==
    \/ Select(i) \/ SelectTimeout(i)
    \/ SkipSocket(i) \/ RecvError(i)
    \/ DropFrame(i) \/ RateLimited(i) \/ Accept(i) \/ EndScan(i)
    \/ SkipOutput(i) \/ Send(i) \/ SendError(i) \/ EndFanout(i)

Next ==
    \/ \E g \in Segment, p \in Frames : HostSend(g, p)
    \/ \E f \in Iface : LinkDown(f) \/ LinkUp(f)
    \/ Tick
    \/ \E i \in Inst : RelayStep(i) \/ Exit(i) \/ Restart(i)

Spec == Init /\ [][Next]_vars

\* A running instance's thread keeps being scheduled; hosts, links, faults
\* and restarts are under no obligation.
FairSpec == Spec /\ \A i \in Inst : WF_vars(RelayStep(i))
-----------------------------------------------------------------------------
(* Properties *)

Contract == INSTANCE RelayContract

\* All instances together, with their queues, faults and interleavings, do what
\* the contract says: each sendto is the one-step copy of a frame that a host
\* sent on the segment of an input interface, and no frame an instance sent,
\* whichever sockets capture it, ever causes another.
RefinesRelayContract == Contract!Spec

TypeOK ==
    /\ pc \in [Inst -> {"select", "scan", "fanout", "stopped"}]
    /\ ready \in [Inst -> SUBSET Nat]
    /\ cur \in [Inst -> Nat \ {0}]
    /\ buf \in [Inst -> Seq(Fanout)]
    /\ out \in [Inst -> Nat \ {0}]
    /\ \A i \in Inst :
          /\ ready[i] \subseteq 1..Len(Inputs[i])
          /\ cur[i] <= Len(Inputs[i]) + 1
          /\ out[i] <= Len(Outputs[i]) + 1
          /\ pc[i] = "fanout" => Len(buf[i]) = 1 /\ cur[i] <= Len(Inputs[i])
    /\ rl \in [Inst -> RateLimiter]
    /\ queue \in [InSock -> Seq(Entry)]
    /\ sockerr \in [InSock -> BOOLEAN]
    /\ outerr \in [OutSock -> BOOLEAN]
    /\ up \in [Iface -> BOOLEAN]
    /\ now \in Nat
    /\ originals \in Seq([seg: Segment, pkt: Packet])
    /\ wire \in [Segment -> Seq(Sent)]
    /\ bypass \in [InSock -> Nat]
    /\ lost \subseteq Lost
    /\ faults \in Nat

\* The frames the instances have sent, with the segment they were sent on.
OnWire == UNION {{<<g, k>> : k \in DOMAIN wire[g]} : g \in Segment}
SentAt(x) == wire[x[1]][x[2]]
OriginalOf(w) == originals[w.orig].pkt

\* No frame is relayed twice, whatever the topology: neither by the instance
\* that sent it, whose own input sockets capture it, nor by another one, even
\* if frames circulate between segments in a ring.
LoopFree == \A x \in OnWire : SentAt(x).hops = 1

\* Why LoopFree holds: what waits in a queue is either fresh from a host or
\* carries the marker, what is fanned out is fresh, parsed and has a rule, and
\* no limiter is ahead of the clock.
MarkedEntry == {e \in Entry : e.hops = 0 \/ (e.hops = 1 /\ is_already_relayed(e.pkt))}
SentOnce    == {w \in Sent : w.hops = 1}
Fresh(i) ==
    LET e == Head(buf[i])
    IN  e.hops = 0 /\ e.nat_rule # {} /\ extract_packet_info(e.pkt)
LoopInv ==
    /\ TypeOK
    /\ \A i \in Inst : rl[i].last <= now
    /\ queue \in [InSock -> Seq(MarkedEntry)]
    /\ wire \in [Segment -> Seq(SentOnce)]
    /\ \A i \in Inst : pc[i] = "fanout" => Fresh(i)

\* e is what a host has sent on segment g.
FromHost(e, g) ==
    /\ e.orig \in DOMAIN originals
    /\ originals[e.orig] = [seg |-> g, pkt |-> e.pkt]

\* The frame of a fan-out is what a host sent on the segment of the input it was
\* read from, and its rule is the one found for it.
FanoutFromHost(i) ==
    LET e == Head(buf[i])
    IN  /\ FromHost(e, SegmentOf[ingress(i)])
        /\ Passes(i, e.pkt)
        /\ e.nat_rule = get_nat_rule(Rules[i], PacketInfo(e.pkt))

\* w is a copy of the host frame it is said to stem from.
IsCopy(w) ==
    LET p   == OriginalOf(w)
        own == BroadcastAddrs[w.egress]
    IN  /\ w.orig \in DOMAIN originals
        /\ Passes(w.inst, p)
        /\ w.pkt = apply_nat(p, unwrap(get_nat_rule(Rules[w.inst], PacketInfo(p))).nat,
                             nat_rewrite_target(p.dst, own))
        /\ should_relay_to(p.dst, w.ingress, w.egress, own)
        /\ w.mac = dest_mac(w.pkt)

QueueOrigin ==
    \A s \in InSock : \A k \in DOMAIN queue[s] :
        queue[s][k].hops = 0 => FromHost(queue[s][k], SegmentOf[IfOf(s)])
FanoutOrigin == \A i \in Inst : pc[i] = "fanout" => FanoutFromHost(i)
WireOrigin == \A g \in Segment : \A k \in DOMAIN wire[g] : IsCopy(wire[g][k])

\* Where frames come from: an unrelayed frame in a queue is what a host sent on
\* the segment of that socket, a frame being fanned out has been read there,
\* and everything on the wire is a copy.
OriginInv == LoopInv /\ QueueOrigin /\ FanoutOrigin /\ WireOrigin

\* Every interface of instance i is named once and has a segment of its own.
DistinctSegments(i) ==
    LET used == Range(Inputs[i]) \cup Range(Outputs[i])
    IN  /\ IsInjective(Inputs[i]) /\ IsInjective(Outputs[i])
        /\ \A f, h \in used : SegmentOf[f] = SegmentOf[h] => f = h

\* An instance whose interfaces are on different segments sends a host's frame
\* at most once on each of them and never on the one the host is on, and keeps
\* the order in which the frames of an interface arrived.
OrderedOnce ==
    \A g \in Segment : \A j, k \in DOMAIN wire[g] :
        LET v == wire[g][j]
            w == wire[g][k]
        IN  DistinctSegments(w.inst) =>
               /\ originals[w.orig].seg # g
               /\ (v.inst = w.inst /\ j < k) =>
                     /\ v.orig # w.orig
                     /\ v.ingress = w.ingress => v.orig < w.orig

\* The places in the queue of socket s that hold a frame not relayed yet.
FreshIn(s) == {k \in DOMAIN queue[s] : queue[s][k].hops = 0}

\* w was sent by the instance of socket s, for a frame read from the interface
\* of s.
ReadFrom(w, s) == w.inst = s[1] /\ w.ingress = IfOf(s)

QueueOrder ==
    \A s \in InSock : \A j, k \in FreshIn(s) :
        j < k => queue[s][j].orig < queue[s][k].orig
FanoutOrder ==
    \A i \in Inst : pc[i] = "fanout" =>
        \A k \in FreshIn(<<i, cur[i]>>) :
            Head(buf[i]).orig < queue[<<i, cur[i]>>][k].orig
\* What has been sent came in and went out where its history says.
Placed(g, w) ==
    /\ w.ingress \in Range(Inputs[w.inst]) /\ w.egress \in Range(Outputs[w.inst])
    /\ SegmentOf[w.egress] = g
    /\ originals[w.orig].seg = SegmentOf[w.ingress]
WirePlaced == \A g \in Segment : \A k \in DOMAIN wire[g] : Placed(g, wire[g][k])
\* w was sent for a frame that came before those waiting, and not after the one
\* being fanned out; if for that one, then on an output already passed.
InTurn(w) ==
    /\ \A s \in InSock : ReadFrom(w, s) =>
          \A k \in FreshIn(s) : w.orig < queue[s][k].orig
    /\ \A i \in Inst : (pc[i] = "fanout" /\ ReadFrom(w, <<i, cur[i]>>)) =>
          /\ w.orig <= Head(buf[i]).orig
          /\ w.orig = Head(buf[i]).orig =>
                \E l \in 1..(out[i] - 1) : w.egress = Outputs[i][l]
WireInTurn ==
    \A g \in Segment : \A k \in DOMAIN wire[g] :
        DistinctSegments(wire[g][k].inst) => InTurn(wire[g][k])
WireOrder ==
    \A g \in Segment : \A j, k \in DOMAIN wire[g] :
        LET v == wire[g][j]
            w == wire[g][k]
        IN  (/\ j < k
             /\ v.inst = w.inst /\ v.ingress = w.ingress
             /\ DistinctSegments(w.inst)) => v.orig < w.orig

\* Why OrderedOnce holds: the frames of an interface are numbered upwards from
\* the wire over the fan-out to the end of its queue.
OrderInv ==
    /\ OriginInv
    /\ QueueOrder /\ FanoutOrder
    /\ WirePlaced /\ WireInTurn /\ WireOrder

\* Rule k of instance i is the one that decides about p: it matches and no
\* rule before it does.
Decides(i, k, p) ==
    /\ rule_matches(Rules[i][k], PacketInfo(p))
    /\ \A j \in 1..(k - 1) : ~rule_matches(Rules[i][j], PacketInfo(p))

\* Whatever is relayed was allowed, as the host sent it, by the first rule that
\* matches it, and carries that rule's addresses and ports; a rewritten frame
\* that another instance's rules would let through is never taken for a new one.
PolicyOnly ==
    \A x \in OnWire :
        LET w == SentAt(x)
            p == OriginalOf(w)
        IN  \E k \in DOMAIN Rules[w.inst] :
               LET nat == Rules[w.inst][k].nat
               IN  /\ Rules[w.inst][k].action = "allow"
                   /\ Decides(w.inst, k, p)
                   /\ w.pkt.src = SetIfSome(nat.source_ip, p.src)
                   /\ w.pkt.sport = SetIfSome(nat.source_port, p.sport)
                   /\ w.pkt.dport = SetIfSome(nat.dest_port, p.dport)
                   /\ nat.dest_ip # {} => w.pkt.dst \in nat.dest_ip

\* p is a whole datagram and ends where its capture ends.
Exact(p) == /\ ~IsFragment(p)
            /\ p.len = p.total /\ p.ulen = p.total - HeaderLen(p)

\* The checksum a receiver of p verifies is right.
ValidUdpSum(p) == p.cksum = {} \/ p.cksum = {UdpSum(p, p.ulen)}

\* Every relayed frame is complete, its IP header checksum is valid after all
\* rewriting, and so is its UDP checksum if the frame was captured exactly.
IntactChecksums ==
    \A x \in OnWire :
        LET p == SentAt(x).pkt
        IN  /\ p.total <= p.len
            /\ p.hsum = HeaderSum(p)
            /\ Exact(OriginalOf(SentAt(x))) => ValidUdpSum(p)

\* Unless a rule says dnat, what is sent on a segment is addressed to hosts of
\* that segment: a group keeps its address and gets its group MAC; anything
\* else is a broadcast of the output interface, which is the original address
\* if that was a directed broadcast.
DeliverableOnSegment ==
    \A x \in OnWire :
        LET w   == SentAt(x)
            p   == OriginalOf(w)
            own == Range(BroadcastAddrs[w.egress])
        IN  (\A r \in get_nat_rule(Rules[w.inst], PacketInfo(p)) :
                r.nat.dest_ip = {}) =>
               IF IsMulticast(p.dst)
               THEN w.pkt.dst = p.dst /\ w.mac[1] = 1
               ELSE /\ w.mac = BROADCAST_MAC
                    /\ own # {} => w.pkt.dst \in own
                    /\ p.dst # LIMITED_BROADCAST => w.pkt.dst = p.dst

\* While a frame is fanned out a rule for it exists (get_nat_rule(..).unwrap()
\* cannot panic) and apply_nat cannot fail, for every output interface.
FanoutCannotFail ==
    \A i \in Inst : pc[i] = "fanout" =>
        Head(buf[i]).nat_rule # {} /\ apply_nat_ok(Head(buf[i]).pkt)

\* A socket with frames waiting is overtaken by at most two reads of each
\* sibling, whatever traffic the siblings get: no input interface starves.
BoundedBypass ==
    \A s \in InSock : bypass[s] <= 2 * (Len(Inputs[s[1]]) - 1)

\* The place in the -i list the scan goes on from.
Position(i) == IF pc[i] = "fanout" THEN cur[i] + 1 ELSE cur[i]

\* What select() reported of the sockets a scan has yet to visit is still so,
\* though other sockets have been read, frames fanned out and links gone down
\* since: no read() finds a socket with neither a frame nor an error.
ReportStands ==
    \A i \in Inst : pc[i] \in {"scan", "fanout"} =>
        \A k \in ready[i] : k >= Position(i) => k \in readable(i)

\* How often socket s can have been passed over at this place of the loop: a
\* socket that is not waiting in the descriptor set starts from zero.
BypassBound(s) ==
    LET i == s[1]
        n == Len(Inputs[i])
    IN  IF pc[i] \in {"select", "stopped"} THEN n - 1
        ELSE IF Position(i) > s[2] THEN Position(i) - 2
        ELSE IF s[2] \in ready[i] THEN (n - 1) + (Position(i) - 1)
        ELSE Position(i) - 1

\* Why BoundedBypass holds: between two scans a socket is behind by one read of
\* each sibling at most, and a scan that will read it adds only the siblings
\* that come before it.
BypassInv ==
    /\ LoopInv
    /\ \A s \in InSock :
          /\ queue[s] = <<>> => bypass[s] = 0
          /\ bypass[s] <= BypassBound(s)

SentBy(i) == {x \in OnWire : SentAt(x).inst = i}
SendsOf(i) == Cardinality(SentBy(i))

\* With --rate-limit, what an instance puts on all segments together stays
\* below the burst and the rate over time, for each output; a process that is
\* started again may spend one more burst.
StormCap ==
    \A i \in Inst : RateLimit[i] > 0 =>
        TicksPerSec * SendsOf(i) <=
            Len(Outputs[i]) * ((1 + faults) * rl[i].burst + RateLimit[i] * now)

\* The outputs the frame being fanned out may still go to.
OutputsLeft(i) ==
    IF pc[i] = "fanout" THEN Len(Outputs[i]) - (out[i] - 1) ELSE 0

\* What instance i may have sent by time t, having been started n times.
Allowance(i, n, t) == Len(Outputs[i]) * (n * rl[i].burst + RateLimit[i] * t)

\* What has been sent, what is left of the current fan-out and what the tokens
\* in the bucket are good for.
WithinAllowance(i) ==
    IF pc[i] = "stopped"
    THEN TicksPerSec * SendsOf(i) <= Allowance(i, faults, now)
    ELSE TicksPerSec * SendsOf(i) + TicksPerSec * OutputsLeft(i)
             + Len(Outputs[i]) * rl[i].tokens
           <= Allowance(i, 1 + faults, rl[i].last)

\* Why StormCap holds: a frame that is let through moves what its fan-out may
\* send from the bucket to the outputs left, sending moves it on to the wire,
\* and the sum stays within the allowance at the time of the last refill.
StormInv ==
    /\ LoopInv
    /\ \A i \in Inst :
          /\ rl[i].rate = RateLimit[i] /\ rl[i].burst = limiter(i, 0).burst
          /\ IsFiniteSet(SentBy(i))
          /\ RateLimit[i] > 0 => WithinAllowance(i)

\* Frame n of the hosts waits on input socket s, and will be accepted.
Waiting(s, n) ==
    \E k \in DOMAIN queue[s] :
        LET e == queue[s][k]
        IN  e.orig = n /\ e.hops = 0 /\ Passes(s[1], e.pkt)

\* The frame instance i got as frame n of the hosts is on the wire of f.
Delivered(i, f, n) ==
    \E x \in OnWire :
        SentAt(x).inst = i /\ SentAt(x).egress = f /\ SentAt(x).orig = n

\* Sending the frame instance i got as frame n of the hosts on f has failed.
LostOn(i, f, n) == [inst |-> i, egress |-> f, orig |-> n] \in lost

\* Without a rate limit, a frame that waits on an input socket and passes the
\* checks is given to sendto for every output interface it is meant for, unless
\* the process ends: it goes out of each of them where sendto does not fail. A
\* link that goes down or any other error of a read or of a sendto may delay the
\* frame, and loses it for the output it happens on, but for no other.
EventualDelivery ==
    \A s \in InSock : \A n \in 1..MaxInject : \A l \in DOMAIN Outputs[s[1]] :
        LET f == Outputs[s[1]][l]
        IN  (/\ Waiting(s, n)
             /\ RateLimit[s[1]] = 0
             /\ should_relay_to(originals[n].pkt.dst, IfOf(s), f,
                                BroadcastAddrs[f]))
            ~> (\/ Delivered(s[1], f, n) \/ LostOn(s[1], f, n)
                \/ pc[s[1]] = "stopped")

\* When the hosts fall silent so do the relays: every queue drains and every
\* instance is back in select(), for good.
Quiescence ==
    <>[](/\ \A s \in InSock : queue[s] = <<>>
         /\ \A i \in Inst : pc[i] \in {"select", "stopped"})
=============================================================================
