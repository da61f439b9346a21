-------------------------- MODULE RelayOriginProofs -------------------------
(***************************************************************************)
(* That everything the instances send is a copy of what a host sent, and   *)
(* what follows from it: Relay implements RelayContract, relays only what  *)
(* the rules allow, and leaves checksums and addresses a receiver accepts. *)
(*                                                                         *)
(* OriginInv is the inductive invariant, on top of LoopInv: the marker is  *)
(* what tells a host's frame from a relayed one in a queue, so the origin  *)
(* of a frame that passes the loop check can be traced to a host.          *)
(***************************************************************************)
EXTENDS RelayProofs

\* What hosts have sent is never forgotten.
Kept ==
    \A n \in DOMAIN originals :
        n \in DOMAIN originals' /\ originals'[n] = originals[n]

\* Appending a frame keeps the others.
LEMMA AppendKept ==
    ASSUME HistoryOK, NEW o \in [seg: Segment, pkt: Packet],
           originals' = Append(originals, o)
    PROVE  /\ Kept
           /\ Len(originals) + 1 \in DOMAIN originals'
           /\ originals'[Len(originals) + 1] = o
  BY DEF HistoryOK, Kept

\* A frame sent on segment g, if it is a host's, is one the host sent there.
LEMMA DeliverOrigin ==
    ASSUME NetOK, QueueOrigin, Kept, NEW g, NEW e \in MarkedEntry,
           queue' = Deliver(g, e),
           e.hops = 0 => /\ e.orig \in DOMAIN originals'
                         /\ originals'[e.orig] = [seg |-> g, pkt |-> e.pkt]
    PROVE  QueueOrigin'
  <1> SUFFICES ASSUME NEW s \in InSock, NEW k \in DOMAIN queue'[s],
                      queue'[s][k].hops = 0
               PROVE  /\ queue'[s][k].orig \in DOMAIN originals'
                      /\ originals'[queue'[s][k].orig]
                           = [seg |-> SegmentOf[IfOf(s)], pkt |-> queue'[s][k].pkt]
    BY DEF QueueOrigin, FromHost
  <1>1. queue[s] \in Seq(MarkedEntry)
    BY DEF NetOK
  <1>2. ASSUME k \in DOMAIN queue[s], queue'[s][k] = queue[s][k]
        PROVE  /\ queue'[s][k].orig \in DOMAIN originals'
               /\ originals'[queue'[s][k].orig]
                    = [seg |-> SegmentOf[IfOf(s)], pkt |-> queue'[s][k].pkt]
    BY <1>2 DEF QueueOrigin, FromHost, Kept
  <1>3. CASE queue'[s] = queue[s]
    BY <1>2, <1>3
  <1>4. CASE queue'[s] = Append(queue[s], e) /\ SegmentOf[IfOf(s)] = g
    <2>1. \/ k \in DOMAIN queue[s] /\ queue'[s][k] = queue[s][k]
          \/ queue'[s][k] = e
      BY <1>1, <1>4
    <2>2. QED
      BY <1>2, <1>4, <2>1
  <1>5. QED
    BY <1>3, <1>4 DEF Deliver

\* Reading a frame leaves the others where they are.
LEMMA RecvOrigin ==
    ASSUME ProcOK, NetOK, QueueOrigin, NEW i \in Inst, Recv(i), UNCHANGED originals
    PROVE  QueueOrigin'
  <1> DEFINE c == <<i, cur[i]>>
  <1> SUFFICES ASSUME NEW s \in InSock, NEW k \in DOMAIN queue'[s],
                      queue'[s][k].hops = 0
               PROVE  /\ queue'[s][k].orig \in DOMAIN originals
                      /\ originals[queue'[s][k].orig]
                           = [seg |-> SegmentOf[IfOf(s)], pkt |-> queue'[s][k].pkt]
    BY DEF QueueOrigin, FromHost
  <1>1. c \in InSock /\ queue[c] # <<>> /\ queue' = [queue EXCEPT ![c] = Tail(queue[c])]
    BY CurrentSocket DEF Recv
  <1> HIDE DEF c
  <1>2. queue[s] \in Seq(MarkedEntry)
    BY DEF NetOK
  <1>3. CASE s = c
    <2>1. queue'[s] = Tail(queue[s])
      BY <1>1, <1>3 DEF NetOK
    <2>2. k + 1 \in DOMAIN queue[s] /\ queue'[s][k] = queue[s][k + 1]
      <3> DEFINE q == queue[s]
      <3>1. q \in Seq(MarkedEntry) /\ q # <<>> /\ k \in DOMAIN Tail(q)
        BY <1>1, <1>2, <1>3, <2>1
      <3> HIDE DEF q
      <3>2. Len(Tail(q)) = Len(q) - 1 /\ k \in 1..(Len(q) - 1)
        BY <3>1
      <3>3. k + 1 \in DOMAIN q /\ Tail(q)[k] = q[k + 1]
        BY <3>1, <3>2
      <3>4. QED
        BY <2>1, <3>3 DEF q
    <2>3. QED
      BY <2>2 DEF QueueOrigin, FromHost
  <1>4. CASE s # c
    <2>1. queue'[s] = queue[s]
      BY <1>1, <1>4 DEF NetOK
    <2>2. QED
      BY <2>1 DEF QueueOrigin, FromHost
  <1>5. QED
    BY <1>3, <1>4

\* A step that does not touch an instance in its fan-out keeps the origin of
\* what is fanned out.
LEMMA FanoutKept ==
    ASSUME FanoutOrigin, Kept, NEW j \in Inst,
           pc'[j] = "fanout" => /\ pc[j] = "fanout" /\ buf'[j] = buf[j]
                                /\ cur'[j] = cur[j]
    PROVE  (pc[j] = "fanout" => FanoutFromHost(j))'
  <1> SUFFICES ASSUME pc'[j] = "fanout" PROVE FanoutFromHost(j)'
    OBVIOUS
  <1>1. pc[j] = "fanout" /\ buf'[j] = buf[j] /\ cur'[j] = cur[j]
    OBVIOUS
  <1>2. FanoutFromHost(j)
    BY <1>1 DEF FanoutOrigin
  <1>3. QED
    BY <1>1, <1>2 DEF FanoutFromHost, FromHost, ingress, Passes, Kept

\* What is on the wire stays a copy of what it was a copy of.
LEMMA WireKept ==
    ASSUME WireOrigin, Kept, UNCHANGED wire
    PROVE  WireOrigin'
  <1> SUFFICES ASSUME NEW g \in Segment, NEW k \in DOMAIN wire[g]
               PROVE  IsCopy(wire[g][k])'
    BY DEF WireOrigin
  <1>1. IsCopy(wire[g][k])
    BY DEF WireOrigin
  <1>2. QED
    BY <1>1 DEF IsCopy, OriginalOf, Kept, Passes

-----------------------------------------------------------------------------
(* The steps *)

\* Only Recv, sendto and the end of a process touch the queues.
LEMMA QueueOriginStep ==
    ASSUME LoopInv, QueueOrigin, NEW i \in Inst,
           RelayStep(i) \/ Exit(i) \/ Restart(i)
    PROVE  QueueOrigin'
  <1>1. ProcOK /\ NetOK /\ HistoryOK
    BY Parts
  <1>2. CASE Send(i)
    <2> DEFINE m == Head(buf[i])
               e == [pkt |-> rewritten(i), orig |-> m.orig, hops |-> m.hops + 1]
    <2>1. /\ rewritten(i) \in Packet /\ is_already_relayed(rewritten(i))
          /\ m \in Fanout /\ m.hops = 0
      BY <1>1, <1>2, RewrittenType DEF Send
    <2>2. queue' = Deliver(SegmentOf[egress(i)], e) /\ UNCHANGED originals
      BY <1>2 DEF Send
    <2>3. m.orig \in Nat
      BY <2>1 DEF Fanout
    <2> HIDE DEF m
    <2>4. e \in MarkedEntry /\ e.hops # 0
      BY <2>1, <2>3 DEF MarkedEntry, Entry
    <2> HIDE DEF e
    <2>5. Kept
      BY <2>2 DEF Kept
    <2>6. QED
      BY <1>1, <2>2, <2>4, <2>5, DeliverOrigin
  <1>3. CASE Exit(i)
    <2>1. \A s \in InSock : queue'[s] = <<>> \/ queue'[s] = queue[s]
      BY <1>3 DEF Exit
    <2>2. UNCHANGED originals /\ DOMAIN <<>> = {}
      BY <1>3 DEF Exit
    <2>3. QED
      BY <2>1, <2>2 DEF QueueOrigin, FromHost
  <1>4. CASE Recv(i) /\ UNCHANGED originals
    BY <1>1, <1>4, RecvOrigin
  <1>5. CASE UNCHANGED <<queue, originals>>
    BY <1>5 DEF QueueOrigin, FromHost
  <1>6. QED
    BY <1>2, <1>3, <1>4, <1>5
       DEF RelayStep, Select, SelectTimeout, vars, histories, SkipSocket, RecvError,
           DropFrame, RateLimited, Accept, EndScan, SkipOutput, SendError,
           EndFanout, Restart

\* An accepted frame is the first of its queue, and a host's because it has no
\* marker; its rule is the one Filter::get_nat_rule finds.
LEMMA AcceptOrigin ==
    ASSUME LoopInv, QueueOrigin, NEW i \in Inst, Accept(i)
    PROVE  FanoutFromHost(i)'
  <1> DEFINE s == <<i, cur[i]>>
             e == Received(i)
             f == [pkt |-> e.pkt, orig |-> e.orig, hops |-> e.hops,
                   nat_rule |-> get_nat_rule(Rules[i], PacketInfo(e.pkt))]
  <1>1. ProcOK /\ NetOK /\ HistoryOK
    BY Parts
  <1>2. e \in MarkedEntry /\ Passes(i, e.pkt)
    BY <1>1, ReceivedType DEF Accept
  <1>3. e.hops = 0
    BY <1>2 DEF MarkedEntry, Passes
  <1>4. s \in InSock /\ queue[s] # <<>>
    BY <1>1, CurrentSocket DEF Accept, Recv
  <1>5. queue[s] \in Seq(MarkedEntry)
    BY <1>1, <1>4 DEF NetOK
  <1>6. 1 \in DOMAIN queue[s] /\ e = queue[s][1]
    BY <1>4, <1>5 DEF Received
  <1>7. FromHost(e, SegmentOf[IfOf(s)])
    BY <1>3, <1>4, <1>6 DEF QueueOrigin
  <1>8. buf'[i] = <<f>> /\ cur' = cur /\ originals' = originals
    BY <1>1 DEF Accept, ProcOK
  <1> HIDE DEF e
  <1>9. Head(buf'[i]) = f
    BY <1>8
  <1>10. f.pkt = e.pkt /\ f.orig = e.orig
    OBVIOUS
  <1>11. f.nat_rule = get_nat_rule(Rules[i], PacketInfo(f.pkt))
    OBVIOUS
  <1> HIDE DEF f
  <1>12. QED
    BY <1>2, <1>7, <1>8, <1>9, <1>10, <1>11
       DEF FanoutFromHost, FromHost, ingress, Passes

\* The frame in recv_buf stays what it is until its fan-out ends.
LEMMA FanoutOriginStep ==
    ASSUME LoopInv, QueueOrigin, FanoutOrigin, NEW i \in Inst,
           RelayStep(i) \/ Exit(i) \/ Restart(i)
    PROVE  FanoutOrigin'
  <1>1. ProcOK
    BY Parts
  <1>2. UNCHANGED originals
    BY DEF RelayStep, Select, SelectTimeout, vars, histories, SkipSocket, RecvError,
           DropFrame, RateLimited, Accept, EndScan, SkipOutput, Send, SendError,
           EndFanout, Exit, Restart
  <1>3. Kept
    BY <1>2 DEF Kept
  <1>4. ASSUME NEW j \in Inst, j # i
        PROVE  pc'[j] = pc[j] /\ buf'[j] = buf[j] /\ cur'[j] = cur[j]
    BY <1>1, <1>4
       DEF ProcOK, RelayStep, Select, SelectTimeout, vars, procVars, SkipSocket,
           RecvError, DropFrame, RateLimited, Accept, EndScan, SkipOutput, Send,
           SendError, EndFanout, Exit, Restart, NextSocket
  <1>5. \/ Accept(i)
        \/ pc'[i] # "fanout"
        \/ pc[i] = "fanout" /\ buf'[i] = buf[i] /\ cur'[i] = cur[i]
    <2>1. CASE Select(i) \/ EndScan(i) \/ EndFanout(i) \/ Exit(i) \/ Restart(i)
      BY <1>1, <2>1 DEF ProcOK, Select, EndScan, EndFanout, Exit, Restart
    <2>2. CASE SelectTimeout(i)
      BY <2>2 DEF SelectTimeout, vars, procVars
    <2>3. CASE SkipSocket(i) \/ RecvError(i) \/ DropFrame(i) \/ RateLimited(i)
      BY <2>3 DEF SkipSocket, RecvError, DropFrame, RateLimited, Recv, AtReady
    <2>4. CASE SkipOutput(i) \/ Send(i) \/ SendError(i)
      BY <2>4 DEF SkipOutput, Send, SendError, AtOutput
    <2>5. QED
      BY <2>1, <2>2, <2>3, <2>4 DEF RelayStep
  <1>6. ASSUME NEW j \in Inst
        PROVE  (pc[j] = "fanout" => FanoutFromHost(j))'
    <2>1. CASE j = i /\ Accept(i)
      BY <2>1, AcceptOrigin
    <2>2. CASE ~(j = i /\ Accept(i))
      BY <1>3, <1>4, <1>5, <2>2, FanoutKept
    <2>3. QED
      BY <2>1, <2>2
  <1>7. QED
    BY <1>6 DEF FanoutOrigin

\* What sendto puts on the wire is a copy.
LEMMA SendOrigin ==
    ASSUME LoopInv, FanoutOrigin, NEW i \in Inst, Send(i)
    PROVE  \E w \in Sent :
              /\ wire' = [wire EXCEPT ![SegmentOf[egress(i)]] = Append(@, w)]
              /\ IsCopy(w) /\ w.hops = 1 /\ w.inst = i
              /\ w.ingress = ingress(i) /\ w.egress = egress(i)
              /\ w.orig = Head(buf[i]).orig /\ w.logged = Verbose[i]
  <1> DEFINE e == Head(buf[i])
             own == BroadcastAddrs[egress(i)]
             w == [inst |-> i, ingress |-> ingress(i), egress |-> egress(i),
                   orig |-> e.orig, hops |-> e.hops + 1, pkt |-> rewritten(i),
                   mac |-> dest_mac(rewritten(i)), logged |-> Verbose[i]]
  <1>1. ProcOK
    BY Parts
  <1>2. AtOutput(i) /\ Eligible(i) /\ pc[i] = "fanout"
    BY DEF Send, AtOutput
  <1>3. /\ rewritten(i) \in Packet /\ e \in Fanout /\ e.hops = 0
        /\ ingress(i) \in Iface /\ egress(i) \in Iface
    BY <1>1, <1>2, RewrittenType
  <1>4. dest_mac(rewritten(i)) \in Seq(Octet) /\ Verbose[i] \in BOOLEAN
    BY <1>3, DestMacType, RelayAssumption
  <1>5. FanoutFromHost(i)
    BY <1>2 DEF FanoutOrigin
  <1>6. /\ e.orig \in DOMAIN originals /\ originals[e.orig].pkt = e.pkt
        /\ Passes(i, e.pkt) /\ e.nat_rule = get_nat_rule(Rules[i], PacketInfo(e.pkt))
    BY <1>5 DEF FanoutFromHost, FromHost
  <1>7. should_relay_to(e.pkt.dst, ingress(i), egress(i), own)
    BY <1>2 DEF Eligible
  <1>8. rewritten(i) = apply_nat(e.pkt, unwrap(e.nat_rule).nat,
                                 nat_rewrite_target(e.pkt.dst, own))
    BY DEF rewritten
  <1>9. wire' = [wire EXCEPT ![SegmentOf[egress(i)]] = Append(@, w)]
    BY DEF Send
  <1>10. e.orig \in Nat
    BY <1>3 DEF Fanout
  <1> HIDE DEF e, own
  <1>11. w \in Sent
    BY <1>3, <1>4, <1>10 DEF Sent
  <1>12. /\ w.inst = i /\ w.ingress = ingress(i) /\ w.egress = egress(i)
         /\ w.orig = e.orig /\ w.hops = 1 /\ w.pkt = rewritten(i)
         /\ w.mac = dest_mac(rewritten(i)) /\ w.logged = Verbose[i]
    BY <1>3
  <1> HIDE DEF w
  <1>13. IsCopy(w)
    BY <1>6, <1>7, <1>8, <1>12 DEF IsCopy, OriginalOf, own
  <1>14. QED
    BY <1>9, <1>11, <1>12, <1>13 DEF e

\* Only sendto puts anything there.
LEMMA WireOriginStep ==
    ASSUME LoopInv, FanoutOrigin, WireOrigin, NEW i \in Inst,
           RelayStep(i) \/ Exit(i) \/ Restart(i)
    PROVE  WireOrigin'
  <1>1. UNCHANGED originals
    BY DEF RelayStep, Select, SelectTimeout, vars, histories, SkipSocket, RecvError,
           DropFrame, RateLimited, Accept, EndScan, SkipOutput, Send, SendError,
           EndFanout, Exit, Restart
  <1>2. CASE Send(i)
    <2> DEFINE h == SegmentOf[egress(i)]
    <2>1. PICK w \in Sent : IsCopy(w) /\ wire' = [wire EXCEPT ![h] = Append(@, w)]
      BY <1>2, SendOrigin
    <2>2. h \in Segment /\ wire \in [Segment -> Seq(SentOnce)]
      BY <1>2, Parts, RewrittenType DEF Send, HistoryOK
    <2> HIDE DEF h
    <2>3. ASSUME NEW g \in Segment, NEW k \in DOMAIN wire'[g]
          PROVE  IsCopy(wire[g][k])'
      <3>1. wire'[g] = wire[g] \/ (g = h /\ wire'[g] = Append(wire[g], w))
        BY <2>1, <2>2
      <3>2. wire[g] \in Seq(SentOnce)
        BY <2>2
      <3>3. \/ k \in DOMAIN wire[g] /\ wire'[g][k] = wire[g][k]
            \/ wire'[g][k] = w
        BY <3>1, <3>2
      <3>4. ASSUME NEW x, IsCopy(x), wire'[g][k] = x
            PROVE  IsCopy(wire[g][k])'
        BY <1>1, <3>4 DEF IsCopy, OriginalOf, Passes
      <3>5. QED
        BY <2>1, <3>3, <3>4 DEF WireOrigin
    <2>4. QED
      BY <2>3 DEF WireOrigin
  <1>3. CASE UNCHANGED wire
    BY <1>1, <1>3, WireKept DEF Kept
  <1>4. QED
    BY <1>2, <1>3
       DEF RelayStep, Select, SelectTimeout, vars, histories, SkipSocket, RecvError,
           DropFrame, RateLimited, Accept, EndScan, SkipOutput, SendError,
           EndFanout, Exit, Restart

\* A host's frame enters the queues of its segment as what the host sent.
LEMMA HostSendOrigin ==
    ASSUME OriginInv, NEW g \in Segment, NEW p \in Frames, HostSend(g, p)
    PROVE  (QueueOrigin /\ FanoutOrigin /\ WireOrigin)'
  <1> DEFINE o == [seg |-> g, pkt |-> p]
             e == [pkt |-> p, orig |-> Len(originals) + 1, hops |-> 0]
  <1>1. /\ LoopInv /\ QueueOrigin /\ FanoutOrigin /\ WireOrigin
        /\ ProcOK /\ NetOK /\ HistoryOK
    BY Parts DEF OriginInv
  <1>2. /\ originals' = Append(originals, o) /\ queue' = Deliver(g, e)
        /\ UNCHANGED <<pc, cur, buf, wire>>
    BY DEF HostSend, procVars
  <1>3. p \in Packet /\ Len(originals) + 1 \in Nat /\ o \in [seg: Segment, pkt: Packet]
    BY <1>1, RelayAssumption DEF HistoryOK
  <1>4. /\ Kept /\ Len(originals) + 1 \in DOMAIN originals'
        /\ originals'[Len(originals) + 1] = o
    BY <1>1, <1>2, <1>3, AppendKept
  <1>5. /\ e \in MarkedEntry /\ e.orig \in DOMAIN originals'
        /\ originals'[e.orig] = [seg |-> g, pkt |-> e.pkt]
    BY <1>3, <1>4 DEF MarkedEntry, Entry
  <1> HIDE DEF e
  <1>6. QueueOrigin'
    BY <1>1, <1>2, <1>4, <1>5, DeliverOrigin
  <1>7. ASSUME NEW j \in Inst
        PROVE  (pc[j] = "fanout" => FanoutFromHost(j))'
    BY <1>1, <1>2, <1>4, FanoutKept
  <1>8. FanoutOrigin'
    BY <1>7 DEF FanoutOrigin
  <1>9. WireOrigin'
    BY <1>1, <1>2, <1>4, WireKept
  <1>10. QED
    BY <1>6, <1>8, <1>9

\* Steps that touch no frame.
LEMMA QuietOrigin ==
    ASSUME OriginInv, UNCHANGED <<pc, cur, buf, queue, originals, wire>>
    PROVE  (QueueOrigin /\ FanoutOrigin /\ WireOrigin)'
  <1>1. QueueOrigin /\ FanoutOrigin /\ WireOrigin /\ Kept
    BY DEF OriginInv, Kept
  <1>2. QueueOrigin'
    BY <1>1 DEF QueueOrigin, FromHost
  <1>3. ASSUME NEW j \in Inst
        PROVE  (pc[j] = "fanout" => FanoutFromHost(j))'
    BY <1>1, FanoutKept
  <1>4. FanoutOrigin'
    BY <1>3 DEF FanoutOrigin
  <1>5. WireOrigin'
    BY <1>1, WireKept
  <1>6. QED
    BY <1>2, <1>4, <1>5

\* The invariant holds initially and is inductive.
LEMMA InitOriginInv == Init => OriginInv
  <1> SUFFICES ASSUME Init PROVE OriginInv
    OBVIOUS
  <1>1. LoopInv
    BY InitLoopInv
  <1>2. DOMAIN <<>> = {}
    OBVIOUS
  <1>3. QED
    BY <1>1, <1>2 DEF Init, OriginInv, QueueOrigin, FanoutOrigin, WireOrigin

LEMMA NextOriginInv == OriginInv /\ [Next]_vars => OriginInv'
  <1> SUFFICES ASSUME OriginInv, [Next]_vars PROVE OriginInv'
    OBVIOUS
  <1>1. LoopInv /\ QueueOrigin /\ FanoutOrigin /\ WireOrigin
    BY DEF OriginInv
  <1>2. LoopInv'
    BY <1>1, NextLoopInv
  <1>3. CASE \E i \in Inst : RelayStep(i) \/ Exit(i) \/ Restart(i)
    BY <1>1, <1>2, <1>3, QueueOriginStep, FanoutOriginStep, WireOriginStep
       DEF OriginInv
  <1>4. CASE \E g \in Segment, p \in Frames : HostSend(g, p)
    BY <1>2, <1>4, HostSendOrigin DEF OriginInv
  <1>5. CASE \/ Tick \/ UNCHANGED vars
             \/ \E f \in Iface : LinkDown(f) \/ LinkUp(f)
    <2>1. UNCHANGED <<pc, cur, buf, queue, originals, wire>>
      BY <1>5 DEF Tick, LinkDown, LinkUp, vars, procVars, histories
    <2>2. QED
      BY <1>2, <2>1, QuietOrigin DEF OriginInv
  <1>6. QED
    BY <1>3, <1>4, <1>5 DEF Next

\* Everything that waits, is fanned out or has been sent stems from a host.
THEOREM OriginInvTheorem == Spec => []OriginInv
  BY InitOriginInv, NextOriginInv, PTL DEF Spec

-----------------------------------------------------------------------------
(* What a copy looks like *)

\* When Filter::should_relay says yes, the rule Filter::get_nat_rule returns is
\* the first that matches, and it allows.
LEMMA FirstMatch ==
    ASSUME NEW rules \in Seq(Rule), NEW info, should_relay(rules, info)
    PROVE  LET k == find_match(rules, info)
           IN  /\ k \in DOMAIN rules /\ rules[k] \in Rule
               /\ rule_matches(rules[k], info)
               /\ \A j \in 1..(k - 1) : ~rule_matches(rules[j], info)
               /\ rules[k].action = "allow"
               /\ get_nat_rule(rules, info) = {rules[k]}
               /\ unwrap(get_nat_rule(rules, info)) = rules[k]
  <1> DEFINE k == find_match(rules, info)
             I == {j \in 1..Len(rules) : rule_matches(rules[j], info)}
  <1>1. k = IF I # {} THEN Min(I) ELSE 0
    BY DEF find_match, SelectInSeq
  <1>2. k # 0 /\ rules[k].action = "allow"
    BY DEF should_relay
  <1>3. I \in SUBSET Nat /\ I # {}
    BY <1>1, <1>2
  <1>4. get_nat_rule(rules, info)
          = {r \in {rules[j] : j \in {k} \ {0}} : r.action = "allow"}
    BY DEF get_nat_rule
  <1> HIDE DEF k
  <1>5. k \in I /\ \A j \in I : k <= j
    <2> HIDE DEF I
    <2>1. QED
      BY <1>1, <1>3, MinIn
  <1>6. k \in 1..Len(rules) /\ rule_matches(rules[k], info)
    BY <1>5
  <1>7. ASSUME NEW j \in 1..(k - 1)
        PROVE  ~rule_matches(rules[j], info)
    <2>1. j \in 1..Len(rules) /\ ~(k <= j)
      BY <1>6
    <2>2. QED
      BY <1>5, <2>1
  <1>8. get_nat_rule(rules, info) = {rules[k]}
    BY <1>2, <1>4
  <1>9. unwrap(get_nat_rule(rules, info)) = rules[k]
    BY <1>8 DEF unwrap
  <1>10. k \in DOMAIN rules /\ rules[k] \in Rule
    BY <1>6
  <1>11. QED
    BY <1>2, <1>6, <1>7, <1>8, <1>9, <1>10 DEF k

\* The fields apply_nat leaves in a UDP frame.
LEMMA ApplyNatFields ==
    ASSUME NEW p \in Packet, NEW nat \in NatOptions, NEW d \in Addr, p.proto = UDP
    PROVE  LET q == apply_nat(p, nat, d)
           IN  /\ q.src = SetIfSome(nat.source_ip, p.src)
               /\ q.dst = IF nat.dest_ip # {} THEN SetIfSome(nat.dest_ip, p.dst)
                          ELSE IF IsMulticast(p.dst) THEN p.dst ELSE d
               /\ q.sport = SetIfSome(nat.source_port, p.sport)
               /\ q.dport = SetIfSome(nat.dest_port, p.dport)
               /\ q.len = p.len /\ q.total = p.total /\ q.ulen = p.ulen
               /\ q.ihl = p.ihl
               /\ q.hsum = HeaderSum(q)
               /\ q.cksum = {UdpSum(q, q.len - HeaderLen(q))}
  <1> DEFINE s == SetIfSome(nat.source_ip, p.src)
             t == IF nat.dest_ip # {} THEN SetIfSome(nat.dest_ip, p.dst)
                  ELSE IF IsMulticast(p.dst) THEN p.dst ELSE d
             a == [p EXCEPT !.src = s, !.dst = t]
             b == [a EXCEPT !.ttl = 1, !.id = RELAY_MARKER_IP_ID]
             sp == SetIfSome(nat.source_port, p.sport)
             dp == SetIfSome(nat.dest_port, p.dport)
             c == [b EXCEPT !.sport = sp, !.dport = dp]
             e == [c EXCEPT !.cksum = {UdpSum(c, c.len - HeaderLen(c))}]
             q == [e EXCEPT !.hsum = HeaderSum(e)]
  <1>1. /\ a.src = s /\ a.dst = t /\ a.sport = p.sport /\ a.dport = p.dport
        /\ a.len = p.len /\ a.total = p.total /\ a.ulen = p.ulen /\ a.ihl = p.ihl
        /\ a.proto = p.proto /\ a.data = p.data
        /\ DOMAIN a = DOMAIN p
    BY DEF Packet
  <1>2. MarkRelayed(RewriteIp(p, nat, d)) = b
    BY DEF MarkRelayed, RewriteIp
  <1>d. DOMAIN p = {"version", "ihl", "len", "total", "proto", "ttl", "id", "off", "more",
                    "hsum", "src", "dst", "sport", "dport", "ulen", "cksum", "data"}
    BY DEF Packet
  <1> HIDE DEF s, t, a, sp, dp
  <1>3. /\ b.src = s /\ b.dst = t /\ b.sport = p.sport /\ b.dport = p.dport
        /\ b.len = p.len /\ b.total = p.total /\ b.ulen = p.ulen /\ b.ihl = p.ihl
        /\ b.proto = p.proto /\ b.data = p.data
        /\ DOMAIN b = DOMAIN p
    BY <1>1, <1>d
  <1> HIDE DEF b
  <1>4. RewritePorts(b, nat) = c
    BY <1>3 DEF RewritePorts, sp, dp
  <1>5. /\ c.src = s /\ c.dst = t /\ c.sport = sp /\ c.dport = dp
        /\ c.len = p.len /\ c.total = p.total /\ c.ulen = p.ulen /\ c.ihl = p.ihl
        /\ c.data = p.data /\ DOMAIN c = DOMAIN p
    BY <1>3, <1>d
  <1> HIDE DEF c
  <1>6. apply_udp_nat(b, nat) = e
    BY <1>4 DEF apply_udp_nat
  <1>7. /\ e.src = s /\ e.dst = t /\ e.sport = sp /\ e.dport = dp
        /\ e.len = p.len /\ e.total = p.total /\ e.ulen = p.ulen /\ e.ihl = p.ihl
        /\ e.data = p.data /\ DOMAIN e = DOMAIN p
        /\ e.cksum = {UdpSum(c, c.len - HeaderLen(c))}
    BY <1>5, <1>d
  <1> HIDE DEF e
  <1>8. apply_nat(p, nat, d) = q
    <2>1. b.proto = UDP
      BY <1>3
    <2>2. QED
      BY <1>2, <1>6, <2>1 DEF apply_nat
  <1>9. /\ q.src = s /\ q.dst = t /\ q.sport = sp /\ q.dport = dp
        /\ q.len = p.len /\ q.total = p.total /\ q.ulen = p.ulen /\ q.ihl = p.ihl
        /\ q.data = p.data /\ q.cksum = e.cksum /\ q.hsum = HeaderSum(e)
        /\ q.ttl = e.ttl /\ q.id = e.id
    BY <1>7, <1>d
  <1> HIDE DEF q
  <1>10. HeaderSum(e) = HeaderSum(q)
    BY <1>7, <1>9 DEF HeaderSum
  <1>11. UdpSum(c, c.len - HeaderLen(c)) = UdpSum(q, q.len - HeaderLen(q))
    BY <1>5, <1>9 DEF UdpSum, HeaderLen
  <1>12. QED
    BY <1>7, <1>8, <1>9, <1>10, <1>11 DEF s, t, sp, dp

\* The rule, the addresses and the rewriting behind a frame on the wire.
LEMMA CopyFacts ==
    ASSUME OriginInv, NEW x \in OnWire
    PROVE  LET w   == SentAt(x)
               p   == OriginalOf(w)
               r   == find_match(Rules[w.inst], PacketInfo(p))
               bs  == BroadcastAddrs[w.egress]
           IN  /\ w.inst \in Inst /\ w.egress \in Iface /\ bs \in Seq(Addr)
               /\ p \in Packet /\ p.dst \in Addr
               /\ extract_packet_info(p) /\ p.proto = UDP
               /\ Rules[w.inst] \in Seq(Rule)
               /\ should_relay(Rules[w.inst], PacketInfo(p))
               /\ Rules[w.inst][r].nat \in NatOptions
               /\ nat_rewrite_target(p.dst, bs) \in Addr
               /\ w.pkt = apply_nat(p, Rules[w.inst][r].nat,
                                    nat_rewrite_target(p.dst, bs))
               /\ should_relay_to(p.dst, w.ingress, w.egress, bs)
               /\ w.mac = dest_mac(w.pkt)
  <1> DEFINE w  == SentAt(x)
             p  == OriginalOf(w)
             r  == find_match(Rules[w.inst], PacketInfo(p))
             bs == BroadcastAddrs[w.egress]
  <1>1. PICK g \in Segment : x \in {<<g, k>> : k \in DOMAIN wire[g]}
    BY DEF OnWire
  <1>2. PICK k \in DOMAIN wire[g] : x = <<g, k>>
    BY <1>1
  <1>3. wire[g] \in Seq(SentOnce) /\ originals \in Seq([seg: Segment, pkt: Packet])
    BY DEF OriginInv, LoopInv, TypeOK
  <1>4. w = wire[g][k] /\ w \in SentOnce
    BY <1>2, <1>3 DEF SentAt
  <1>5. IsCopy(w)
    BY <1>4 DEF OriginInv, WireOrigin
  <1>6. w.inst \in Inst /\ w.egress \in Iface
    BY <1>4 DEF SentOnce, Sent
  <1>7. w.orig \in DOMAIN originals /\ Passes(w.inst, p)
    BY <1>5 DEF IsCopy
  <1>8. w.pkt = apply_nat(p, unwrap(get_nat_rule(Rules[w.inst], PacketInfo(p))).nat,
                          nat_rewrite_target(p.dst, bs))
    BY <1>5 DEF IsCopy
  <1>9. should_relay_to(p.dst, w.ingress, w.egress, bs) /\ w.mac = dest_mac(w.pkt)
    BY <1>5 DEF IsCopy
  <1> HIDE DEF w
  <1>10. p \in Packet
    <2> DEFINE S == [seg: Segment, pkt: Packet]
    <2>1. originals[w.orig] \in S
      <3>1. originals \in Seq(S) /\ w.orig \in DOMAIN originals
        BY <1>3, <1>7
      <3> HIDE DEF S
      <3>2. QED
        BY <3>1
    <2>2. QED
      BY <2>1 DEF OriginalOf
  <1> HIDE DEF p
  <1>11. /\ extract_packet_info(p) /\ p.proto = UDP
         /\ should_relay(Rules[w.inst], PacketInfo(p))
    BY <1>7 DEF Passes, extract_packet_info
  <1>12. Rules[w.inst] \in Seq(Rule) /\ bs \in Seq(Addr)
    BY <1>6, RelayAssumption
  <1>13. /\ Rules[w.inst][r] \in Rule
         /\ unwrap(get_nat_rule(Rules[w.inst], PacketInfo(p))) = Rules[w.inst][r]
    BY <1>11, <1>12, FirstMatch
  <1>14. p.dst \in Addr
    BY <1>10 DEF Packet
  <1> HIDE DEF r, bs
  <1>15. Rules[w.inst][r].nat \in NatOptions
    BY <1>13 DEF Rule
  <1>16. nat_rewrite_target(p.dst, bs) \in Addr
    BY <1>12, <1>14, NatTargetType
  <1>17. w.pkt = apply_nat(p, Rules[w.inst][r].nat, nat_rewrite_target(p.dst, bs))
    BY <1>8, <1>13
  <1>18. QED
    BY <1>6, <1>9, <1>10, <1>11, <1>12, <1>14, <1>15, <1>16, <1>17 DEF w, p, r, bs

-----------------------------------------------------------------------------
(* The contract *)

\* The contract's own copies of the operators are Relay's.
LEMMA SameOperators ==
    /\ \A p : Contract!is_already_relayed(p) = is_already_relayed(p)
    /\ \A p : Contract!extract_packet_info(p) = extract_packet_info(p)
    /\ \A p : Contract!PacketInfo(p) = PacketInfo(p)
    /\ \A p : Contract!dest_mac(p) = dest_mac(p)
    /\ \A d, f, h, bs : Contract!should_relay_to(d, f, h, bs) = should_relay_to(d, f, h, bs)
    /\ \A d, bs : Contract!nat_rewrite_target(d, bs) = nat_rewrite_target(d, bs)
  <1>1. \A p : Contract!validate_ipv4_header(p) = validate_ipv4_header(p)
    BY Zenon DEF Contract!validate_ipv4_header, validate_ipv4_header, Contract!HeaderLen,
                 HeaderLen
  <1>2. \A a : Contract!is_broadcast(a) = is_broadcast(a)
    BY Zenon DEF Contract!is_broadcast, is_broadcast, Contract!LIMITED_BROADCAST,
       LIMITED_BROADCAST, Contract!IsMulticast, IsMulticast
  <1>3. \A p : Contract!is_already_relayed(p) = is_already_relayed(p)
    <2>1. Contract!RELAY_MARKER_IP_ID = RELAY_MARKER_IP_ID
      BY DEF Contract!RELAY_MARKER_IP_ID, RELAY_MARKER_IP_ID
    <2>2. QED
      BY <1>1, <2>1, Zenon DEF Contract!is_already_relayed, is_already_relayed
  <1>4. \A p : Contract!extract_packet_info(p) = extract_packet_info(p)
    BY <1>1, <1>2, Zenon DEF Contract!extract_packet_info, extract_packet_info,
       Contract!UNSPECIFIED, UNSPECIFIED, Contract!UDP, UDP, Contract!HeaderLen, HeaderLen
  <1>5. \A p : Contract!PacketInfo(p) = PacketInfo(p)
    BY DEF Contract!PacketInfo, PacketInfo
  <1>6. \A p : Contract!dest_mac(p) = dest_mac(p)
    BY DEF Contract!dest_mac, dest_mac, Contract!BROADCAST_MAC, BROADCAST_MAC
  <1>7. \A d, f, h, bs :
           Contract!should_relay_to(d, f, h, bs) = should_relay_to(d, f, h, bs)
    BY Zenon DEF Contract!should_relay_to, should_relay_to, Contract!IsMulticast, IsMulticast,
       Contract!LIMITED_BROADCAST, LIMITED_BROADCAST, Contract!Contains, Contains
  <1>8. \A d, bs : Contract!nat_rewrite_target(d, bs) = nat_rewrite_target(d, bs)
    BY DEF Contract!nat_rewrite_target, nat_rewrite_target, Contract!LIMITED_BROADCAST,
       LIMITED_BROADCAST, Contract!Contains, Contains
  <1>9. QED
    BY <1>3, <1>4, <1>5, <1>6, <1>7, <1>8

LEMMA SameMatching ==
    \A r, info : Contract!rule_matches(r, info) = rule_matches(r, info)
  <1>1. \A m, a : Contract!ip_matches(m, a) = ip_matches(m, a)
    <2>1. \A a, n : Contract!Mask(a, n) = Mask(a, n)
      BY DEF Contract!Mask, Mask, Contract!BlockSize, BlockSize
    <2>2. QED
      BY <2>1, Zenon DEF Contract!ip_matches, ip_matches
  <1>2. \A m, n : Contract!port_matches(m, n) = port_matches(m, n)
    BY Zenon DEF Contract!port_matches, port_matches
  <1>3. \A t, d : Contract!broadcast_type_matches(t, d) = broadcast_type_matches(t, d)
    BY Zenon DEF Contract!broadcast_type_matches, broadcast_type_matches,
                 Contract!LIMITED_BROADCAST, LIMITED_BROADCAST
  <1>4. QED
    BY <1>1, <1>2, <1>3, Zenon DEF Contract!rule_matches, rule_matches

LEMMA SameRewriting ==
    \A p, nat, d : Contract!apply_nat(p, nat, d) = apply_nat(p, nat, d)
  <1>1. \A opt, old : Contract!SetIfSome(opt, old) = SetIfSome(opt, old)
    BY Zenon DEF Contract!SetIfSome, SetIfSome, Contract!unwrap, unwrap
  <1>2. \A p, nat, d : Contract!RewriteIp(p, nat, d) = RewriteIp(p, nat, d)
    BY <1>1 DEF Contract!RewriteIp, RewriteIp, Contract!IsMulticast, IsMulticast
  <1>3. \A p : Contract!MarkRelayed(p) = MarkRelayed(p)
    BY DEF Contract!MarkRelayed, MarkRelayed, Contract!RELAY_MARKER_IP_ID,
           RELAY_MARKER_IP_ID
  <1>4. \A p, nat : Contract!RewritePorts(p, nat) = RewritePorts(p, nat)
    BY <1>1 DEF Contract!RewritePorts, RewritePorts
  <1>5. \A p : Contract!HeaderSum(p) = HeaderSum(p)
    BY DEF Contract!HeaderSum, HeaderSum
  <1>6. \A p, n : Contract!UdpSum(p, n) = UdpSum(p, n)
    BY DEF Contract!UdpSum, UdpSum
  <1>7. \A p, nat : Contract!apply_udp_nat(p, nat) = apply_udp_nat(p, nat)
    BY <1>4, <1>6 DEF Contract!apply_udp_nat, apply_udp_nat, Contract!HeaderLen, HeaderLen
  <1>8. QED
    BY <1>2, <1>3, <1>5, <1>7 DEF Contract!apply_nat, apply_nat, Contract!UDP, UDP

-----------------------------------------------------------------------------
(* Theorems *)

\* All instances together implement the contract: nothing but a sendto changes
\* what is on a segment, and each sendto is the relaying, by the deciding rule,
\* of one frame that a host sent on the segment of an input interface.
THEOREM RelayContractTheorem == Spec => RefinesRelayContract
  <1>1. Init => Contract!Init
    BY DEF Init, Contract!Init
  <1>2. OriginInv /\ [Next]_vars => [Contract!Next]_<<originals, wire>>
    <2> SUFFICES ASSUME OriginInv, [Next]_vars
                 PROVE  Contract!Next \/ UNCHANGED <<originals, wire>>
      OBVIOUS
    <2>1. LoopInv /\ FanoutOrigin /\ ProcOK /\ HistoryOK
      BY Parts DEF OriginInv
    <2>2. CASE \E g \in Segment, p \in Frames : HostSend(g, p)
      BY <2>2 DEF HostSend, Contract!Next, Contract!HostSend
    <2>3. ASSUME NEW i \in Inst, Send(i)
          PROVE  Contract!Next
      <3> DEFINE k == cur[i]
                 l == out[i]
                 n == Head(buf[i]).orig
                 p == originals[n].pkt
                 r == find_match(Rules[i], PacketInfo(p))
                 own == BroadcastAddrs[Outputs[i][l]]
                 copy == apply_nat(p, Rules[i][r].nat, nat_rewrite_target(p.dst, own))
      <3>1. PICK w \in Sent :
               /\ wire' = [wire EXCEPT ![SegmentOf[egress(i)]] = Append(@, w)]
               /\ IsCopy(w) /\ w.hops = 1 /\ w.inst = i
               /\ w.ingress = ingress(i) /\ w.egress = egress(i)
               /\ w.orig = n /\ w.logged = Verbose[i]
        BY <2>1, <2>3, SendOrigin
      <3>2. pc[i] = "fanout" /\ out[i] <= Len(Outputs[i]) /\ UNCHANGED originals
        BY <2>3 DEF Send, AtOutput
      <3>3. k \in DOMAIN Inputs[i] /\ l \in DOMAIN Outputs[i]
        <4>1. /\ cur[i] \in Nat \ {0} /\ out[i] \in Nat \ {0}
              /\ cur[i] <= Len(Inputs[i])
          BY <2>1, <3>2 DEF ProcOK
        <4>2. Inputs[i] \in Seq(Iface) /\ Outputs[i] \in Seq(Iface)
          BY RelayAssumption
        <4>3. QED
          BY <3>2, <4>1, <4>2
      <3>4. n \in DOMAIN originals /\ originals[n].seg = SegmentOf[Inputs[i][k]]
        <4>1. FanoutFromHost(i)
          BY <2>1, <3>2 DEF FanoutOrigin
        <4>2. QED
          BY <4>1 DEF FanoutFromHost, FromHost, ingress, IfOf
      <3>5. /\ Passes(i, p)
            /\ w.pkt = apply_nat(p, unwrap(get_nat_rule(Rules[i], PacketInfo(p))).nat,
                                 nat_rewrite_target(p.dst, own))
            /\ should_relay_to(p.dst, Inputs[i][k], Outputs[i][l], own)
            /\ w.mac = dest_mac(w.pkt)
        BY <3>1 DEF IsCopy, OriginalOf, ingress, egress, IfOf
      <3>6. Rules[i] \in Seq(Rule) /\ should_relay(Rules[i], PacketInfo(p))
        BY <3>5, RelayAssumption DEF Passes
      <3>7. /\ r \in DOMAIN Rules[i] /\ rule_matches(Rules[i][r], PacketInfo(p))
            /\ \A j \in 1..(r - 1) : ~rule_matches(Rules[i][j], PacketInfo(p))
            /\ Rules[i][r].action = "allow"
            /\ unwrap(get_nat_rule(Rules[i], PacketInfo(p))) = Rules[i][r]
        BY <3>6, FirstMatch
      <3> HIDE DEF n, p, r, own
      <3>8. w.pkt = copy
        BY <3>5, <3>7
      <3> HIDE DEF copy
      <3>9. w = [inst |-> i, ingress |-> Inputs[i][k], egress |-> Outputs[i][l],
                 orig |-> n, hops |-> 1, pkt |-> copy, mac |-> dest_mac(copy),
                 logged |-> Verbose[i]]
        BY <3>1, <3>5, <3>8 DEF Sent, ingress, egress, IfOf
      <3>10. wire' = [wire EXCEPT ![SegmentOf[Outputs[i][l]]] = Append(@,
                [inst |-> i, ingress |-> Inputs[i][k], egress |-> Outputs[i][l],
                 orig |-> n, hops |-> 1, pkt |-> copy, mac |-> dest_mac(copy),
                 logged |-> Verbose[i]])]
        BY <3>1, <3>9 DEF egress
      <3>11. Contract!FirstMatchAllows(Rules[i], r, p)
        BY <3>7, SameMatching, SameOperators DEF Contract!FirstMatchAllows
      <3>12. ~is_already_relayed(p) /\ extract_packet_info(p)
        BY <3>5 DEF Passes
      <3> HIDE DEF k, l
      <3>13. Contract!Relay(i, k, l, n, r)
        BY <3>2, <3>4, <3>5, <3>10, <3>11, <3>12, SameOperators, SameRewriting
           DEF Contract!Relay, p, own, copy
      <3>14. QED
        BY <3>3, <3>4, <3>7, <3>13 DEF Contract!Next
    <2>4. CASE UNCHANGED <<originals, wire>>
      BY <2>4
    <2>5. QED
      BY <2>2, <2>3, <2>4
         DEF Next, RelayStep, Tick, LinkDown, LinkUp, Select, SelectTimeout, vars,
             histories, SkipSocket, RecvError, DropFrame, RateLimited, Accept, EndScan,
             SkipOutput, SendError, EndFanout, Exit, Restart
  <1>3. QED
    BY <1>1, <1>2, OriginInvTheorem, PTL DEF Spec, RefinesRelayContract, Contract!Spec

\* Relay::run puts nothing on a segment that the first matching rule of its
\* configuration does not allow, as the host sent it, and rewrites it by that
\* rule and no other, for every configuration and topology.
THEOREM PolicyOnlyTheorem == Spec => []PolicyOnly
  <1>1. OriginInv => PolicyOnly
    <2> SUFFICES ASSUME OriginInv, NEW x \in OnWire
                 PROVE  LET w == SentAt(x)
                            p == OriginalOf(w)
                        IN  \E k \in DOMAIN Rules[w.inst] :
                               LET nat == Rules[w.inst][k].nat
                               IN  /\ Rules[w.inst][k].action = "allow"
                                   /\ Decides(w.inst, k, p)
                                   /\ w.pkt.src = SetIfSome(nat.source_ip, p.src)
                                   /\ w.pkt.sport = SetIfSome(nat.source_port, p.sport)
                                   /\ w.pkt.dport = SetIfSome(nat.dest_port, p.dport)
                                   /\ nat.dest_ip # {} => w.pkt.dst \in nat.dest_ip
      BY DEF PolicyOnly
    <2> DEFINE w   == SentAt(x)
               p   == OriginalOf(w)
               r   == find_match(Rules[w.inst], PacketInfo(p))
               nat == Rules[w.inst][r].nat
               d   == nat_rewrite_target(p.dst, BroadcastAddrs[w.egress])
    <2>1. /\ p \in Packet /\ p.proto = UDP
          /\ Rules[w.inst] \in Seq(Rule)
          /\ should_relay(Rules[w.inst], PacketInfo(p))
          /\ nat \in NatOptions /\ d \in Addr /\ w.pkt = apply_nat(p, nat, d)
      BY CopyFacts
    <2>2. /\ r \in DOMAIN Rules[w.inst]
          /\ rule_matches(Rules[w.inst][r], PacketInfo(p))
          /\ \A j \in 1..(r - 1) : ~rule_matches(Rules[w.inst][j], PacketInfo(p))
          /\ Rules[w.inst][r].action = "allow"
      BY <2>1, FirstMatch
    <2> HIDE DEF w, p, r
    <2>3. Decides(w.inst, r, p)
      BY <2>2 DEF Decides
    <2> HIDE DEF d, nat
    <2>4. /\ w.pkt.src = SetIfSome(nat.source_ip, p.src)
          /\ w.pkt.dst = IF nat.dest_ip # {} THEN SetIfSome(nat.dest_ip, p.dst)
                         ELSE IF IsMulticast(p.dst) THEN p.dst ELSE d
          /\ w.pkt.sport = SetIfSome(nat.source_port, p.sport)
          /\ w.pkt.dport = SetIfSome(nat.dest_port, p.dport)
      BY <2>1, ApplyNatFields
    <2>5. nat.dest_ip # {} => w.pkt.dst \in nat.dest_ip
      BY <2>4 DEF SetIfSome, unwrap
    <2>6. QED
      BY <2>2, <2>3, <2>4, <2>5 DEF nat, p, w
  <1>2. QED
    BY <1>1, OriginInvTheorem, PTL

\* After all rewriting of apply_nat the IP header checksum is valid, the frame is
\* as long as it says, and the UDP checksum is valid if the captured frame was
\* a whole datagram without padding.
THEOREM IntactChecksumsTheorem == Spec => []IntactChecksums
  <1>1. OriginInv => IntactChecksums
    <2> SUFFICES ASSUME OriginInv, NEW x \in OnWire
                 PROVE  LET q == SentAt(x).pkt
                        IN  /\ q.total <= q.len /\ q.hsum = HeaderSum(q)
                            /\ Exact(OriginalOf(SentAt(x))) => ValidUdpSum(q)
      BY DEF IntactChecksums
    <2> DEFINE w   == SentAt(x)
               p   == OriginalOf(w)
               r   == find_match(Rules[w.inst], PacketInfo(p))
               nat == Rules[w.inst][r].nat
               d   == nat_rewrite_target(p.dst, BroadcastAddrs[w.egress])
    <2>1. /\ p \in Packet /\ p.proto = UDP /\ extract_packet_info(p)
          /\ nat \in NatOptions /\ d \in Addr /\ w.pkt = apply_nat(p, nat, d)
      BY CopyFacts
    <2> HIDE DEF w, p, r, nat, d
    <2>2. /\ w.pkt.len = p.len /\ w.pkt.total = p.total /\ w.pkt.ulen = p.ulen
          /\ w.pkt.ihl = p.ihl /\ w.pkt.hsum = HeaderSum(w.pkt)
          /\ w.pkt.cksum = {UdpSum(w.pkt, w.pkt.len - HeaderLen(w.pkt))}
      BY <2>1, ApplyNatFields
    <2>3. p.total <= p.len
      BY <2>1 DEF extract_packet_info
    <2>4. Exact(p) => w.pkt.len - HeaderLen(w.pkt) = w.pkt.ulen
      BY <2>2 DEF Exact, HeaderLen
    <2>5. QED
      BY <2>2, <2>3, <2>4 DEF ValidUdpSum, w, p
  <1>2. QED
    BY <1>1, OriginInvTheorem, PTL

\* Unless the rule says dnat, Relay::run sends every frame to an address and a
\* MAC that hosts of the output's segment listen to.
THEOREM DeliverableTheorem == Spec => []DeliverableOnSegment
  <1>1. OriginInv => DeliverableOnSegment
    <2> SUFFICES ASSUME OriginInv, NEW x \in OnWire,
                        \A c \in get_nat_rule(Rules[SentAt(x).inst],
                                              PacketInfo(OriginalOf(SentAt(x)))) :
                           c.nat.dest_ip = {}
                 PROVE  LET w   == SentAt(x)
                            p   == OriginalOf(w)
                            own == Range(BroadcastAddrs[w.egress])
                        IN  IF IsMulticast(p.dst)
                            THEN w.pkt.dst = p.dst /\ w.mac[1] = 1
                            ELSE /\ w.mac = BROADCAST_MAC
                                 /\ own # {} => w.pkt.dst \in own
                                 /\ p.dst # LIMITED_BROADCAST => w.pkt.dst = p.dst
      BY DEF DeliverableOnSegment
    <2> DEFINE w   == SentAt(x)
               p   == OriginalOf(w)
               r   == find_match(Rules[w.inst], PacketInfo(p))
               nat == Rules[w.inst][r].nat
               bs  == BroadcastAddrs[w.egress]
               d   == nat_rewrite_target(p.dst, bs)
    <2>1. /\ p \in Packet /\ p.proto = UDP /\ extract_packet_info(p)
          /\ Rules[w.inst] \in Seq(Rule) /\ w.egress \in Iface /\ bs \in Seq(Addr)
          /\ should_relay(Rules[w.inst], PacketInfo(p))
          /\ nat \in NatOptions /\ d \in Addr /\ w.pkt = apply_nat(p, nat, d)
          /\ should_relay_to(p.dst, w.ingress, w.egress, bs)
          /\ w.mac = dest_mac(w.pkt)
      BY CopyFacts
    <2>2. nat.dest_ip = {}
      <3>1. get_nat_rule(Rules[w.inst], PacketInfo(p)) = {Rules[w.inst][r]}
        BY <2>1, FirstMatch
      <3>2. QED
        BY <3>1
    <2>3. \A k \in DOMAIN bs : ~IsMulticast(bs[k])
      BY <2>1, BroadcastAssumption
    <2> HIDE DEF w, p, r, nat, d
    <2>4. /\ w.pkt.dst = IF IsMulticast(p.dst) THEN p.dst ELSE d
          /\ w.pkt.len = p.len
      BY <2>1, <2>2, ApplyNatFields
    <2>5. w.pkt.len >= 20
      BY <2>1, <2>4 DEF extract_packet_info, validate_ipv4_header
    <2>6. CASE IsMulticast(p.dst)
      <3>1. w.mac[1] = 1
        BY <2>1, <2>4, <2>5, <2>6 DEF dest_mac, IsMulticast
      <3>2. QED
        BY <2>4, <2>6, <3>1 DEF w, p
    <2>7. CASE ~IsMulticast(p.dst)
      <3> HIDE DEF bs
      <3>1. p.dst = LIMITED_BROADCAST \/ Contains(bs, p.dst)
        BY <2>1, <2>7 DEF should_relay_to
      <3>2. d = IF Contains(bs, p.dst) THEN p.dst
                ELSE IF bs = <<>> THEN LIMITED_BROADCAST ELSE Head(bs)
        BY DEF d, nat_rewrite_target
      <3>3. bs # <<>> => 1 \in DOMAIN bs /\ Head(bs) = bs[1]
        BY <2>1
      <3>4. ~IsMulticast(LIMITED_BROADCAST)
        BY DEF IsMulticast, LIMITED_BROADCAST
      <3>5. ~IsMulticast(d)
        BY <2>3, <2>7, <3>2, <3>3, <3>4
      <3>6. w.mac = BROADCAST_MAC
        BY <2>1, <2>4, <2>7, <3>5 DEF dest_mac, IsMulticast
      <3>7. Range(bs) # {} => d \in Range(bs)
        <4>1. Contains(bs, p.dst) => p.dst \in Range(bs)
          BY <2>1 DEF Contains, Range
        <4>2. bs # <<>> => Head(bs) \in Range(bs)
          BY <3>3 DEF Range
        <4>3. bs = <<>> => Range(bs) = {}
          BY DEF Range
        <4>4. QED
          BY <3>2, <4>1, <4>2, <4>3
      <3>8. p.dst # LIMITED_BROADCAST => d = p.dst
        BY <3>1, <3>2
      <3>9. QED
        BY <2>4, <2>7, <3>6, <3>7, <3>8 DEF bs, w, p
    <2>8. QED
      BY <2>6, <2>7
  <1>2. QED
    BY <1>1, OriginInvTheorem, PTL
=============================================================================
