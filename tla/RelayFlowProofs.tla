-------------------------- MODULE RelayFlowProofs ---------------------------
(***************************************************************************)
(* How frames flow through the instances: no input interface starves, what *)
(* an instance sends stays within its rate limit, and the frames of an     *)
(* interface leave once and in the order they arrived.  For every number   *)
(* of instances, every topology, rule list, rate limit and bound.          *)
(*                                                                         *)
(* None of these properties is inductive: each speaks of a history         *)
(* whose next entry depends on where the threads are.  BypassInv, StormInv *)
(* and OrderInv say what each history owes at every place of the loop; the *)
(* first two rest on LoopInv, the third on OriginInv.  A fourth property,  *)
(* that a report of select() stays true, is inductive with LoopInv.        *)
(***************************************************************************)
EXTENDS RelayOriginProofs, FiniteSetTheorems

-----------------------------------------------------------------------------
(* No input interface starves *)

\* The part of BypassInv that is about one socket.
BypassOK(s) ==
    /\ queue[s] = <<>> => bypass[s] = 0
    /\ bypass[s] <= BypassBound(s)

\* What a step does to the queue of a socket it does not read: at most a frame
\* is added.
LEMMA DeliverGrows ==
    ASSUME NetOK, NEW s \in InSock, NEW g, NEW e \in MarkedEntry,
           queue' = Deliver(g, e)
    PROVE  queue'[s] = <<>> => queue[s] = <<>>
  <1>1. queue[s] \in Seq(MarkedEntry)
    BY DEF NetOK
  <1>2. queue'[s] \in {queue[s], Append(queue[s], e)}
    BY DEF Deliver
  <1>3. Append(queue[s], e) # <<>>
    BY <1>1
  <1>4. QED
    BY <1>2, <1>3

\* The frame a fan-out sends is one a queue may hold.
LEMMA SendDelivers ==
    ASSUME LoopInv, NEW i \in Inst, Send(i)
    PROVE  \E e \in MarkedEntry :
              queue' = Deliver(SegmentOf[egress(i)], e) /\ e.hops = 1
  <1> DEFINE p == rewritten(i)
             m == Head(buf[i])
             e == [pkt |-> p, orig |-> m.orig, hops |-> m.hops + 1]
  <1>1. p \in Packet /\ is_already_relayed(p) /\ m \in Fanout /\ m.hops = 0
    BY Parts, RewrittenType DEF Send
  <1>2. queue' = Deliver(SegmentOf[egress(i)], e)
    BY DEF Send
  <1>3. m.orig \in Nat
    BY <1>1 DEF Fanout
  <1> HIDE DEF p, m
  <1>4. e \in MarkedEntry /\ e.hops = 1
    BY <1>1, <1>3 DEF MarkedEntry, Entry
  <1>5. QED
    BY <1>2, <1>4

\* A socket keeps its bound while its instance stands still.
LEMMA BypassStill ==
    ASSUME NEW s \in InSock, BypassOK(s),
           pc'[s[1]] = pc[s[1]], ready'[s[1]] = ready[s[1]], cur'[s[1]] = cur[s[1]],
           bypass'[s] = bypass[s], queue'[s] = <<>> => queue[s] = <<>>
    PROVE  BypassOK(s)'
  BY DEF BypassOK, BypassBound, Position

\* The variables of an instance that other instances leave alone.
LEMMA OthersUntouched ==
    ASSUME LoopInv, NEW i \in Inst, RelayStep(i) \/ Exit(i) \/ Restart(i),
           NEW j \in Inst, j # i
    PROVE  /\ pc'[j] = pc[j] /\ ready'[j] = ready[j] /\ cur'[j] = cur[j]
           /\ buf'[j] = buf[j] /\ out'[j] = out[j] /\ rl'[j] = rl[j]
  <1>1. ProcOK /\ LimiterOK
    BY Parts
  <1>2. pc'[j] = pc[j] /\ ready'[j] = ready[j] /\ cur'[j] = cur[j]
    BY <1>1 DEF ProcOK, RelayStep, Select, SelectTimeout, vars, procVars, SkipSocket,
           RecvError, DropFrame, RateLimited, Accept, EndScan, SkipOutput, Send,
           SendError, EndFanout, Exit, Restart, NextSocket
  <1>3. buf'[j] = buf[j] /\ out'[j] = out[j]
    BY <1>1 DEF ProcOK, RelayStep, Select, SelectTimeout, vars, procVars, SkipSocket,
           RecvError, DropFrame, RateLimited, Accept, EndScan, SkipOutput, Send,
           SendError, EndFanout, Exit, Restart, NextOutput
  <1>4. rl'[j] = rl[j]
    BY <1>1 DEF LimiterOK, RelayStep, Select, SelectTimeout, vars, procVars, SkipSocket,
           RecvError, DropFrame, RateLimited, Accept, EndScan, SkipOutput, Send,
           SendError, EndFanout, Exit, Restart
  <1>5. QED
    BY <1>2, <1>3, <1>4

\* A step of another instance.
LEMMA BypassOther ==
    ASSUME LoopInv, NEW i \in Inst, RelayStep(i) \/ Exit(i) \/ Restart(i),
           NEW s \in InSock, s[1] # i, BypassOK(s)
    PROVE  BypassOK(s)'
  <1>1. s[1] \in Inst
    BY SocketType
  <1>2. /\ pc'[s[1]] = pc[s[1]] /\ ready'[s[1]] = ready[s[1]]
        /\ cur'[s[1]] = cur[s[1]]
    BY <1>1, OthersUntouched
  <1>3. ProcOK /\ NetOK
    BY Parts
  <1>4. CountBypass(i) => bypass'[s] = bypass[s]
    BY DEF CountBypass
  <1>5. Recv(i) => queue'[s] = queue[s]
    BY <1>3, CurrentSocket DEF Recv, NetOK
  <1>6. CASE Send(i)
    <2>1. queue'[s] = <<>> => queue[s] = <<>>
      BY <1>3, <1>6, SendDelivers, DeliverGrows
    <2>2. bypass'[s] = bypass[s]
      BY <1>6 DEF Send
    <2>3. QED
      BY <1>2, <2>1, <2>2, BypassStill
  <1>7. CASE ~Send(i)
    <2>1. bypass'[s] = bypass[s]
      BY <1>4, <1>7
         DEF RelayStep, Select, SelectTimeout, vars, histories, SkipSocket, RecvError,
             DropFrame, RateLimited, Accept, EndScan, SkipOutput, SendError,
             EndFanout, Exit, Restart, Recv
    <2>2. queue'[s] = queue[s]
      BY <1>5, <1>7
         DEF RelayStep, Select, SelectTimeout, vars, SkipSocket, RecvError,
             DropFrame, RateLimited, Accept, EndScan, SkipOutput, SendError,
             EndFanout, Exit, Restart
    <2>3. QED
      BY <1>2, <2>1, <2>2, BypassStill
  <1>8. QED
    BY <1>6, <1>7

\* A visit of the socket the scan is at, after which the scan goes on from the
\* next one: the visited socket starts from zero, and its siblings are one read
\* further behind.
LEMMA BypassVisit ==
    ASSUME LoopInv, NEW i \in Inst, AtReady(i), CountBypass(i),
           pc'[i] \in {"scan", "fanout"}, ready'[i] = ready[i],
           Position(i)' = cur[i] + 1,
           NEW s \in InSock, s[1] = i, BypassOK(s),
           s[2] # cur[i] => queue'[s] = queue[s]
    PROVE  BypassOK(s)'
  <1> DEFINE n == Len(Inputs[i])
             c == cur[i]
             k == s[2]
             b == bypass[s]
  <1>1. /\ k \in 1..n /\ n \in Nat /\ s = <<i, k>>
    BY SocketType
  <1>2. /\ c \in 1..n /\ c \in ready[i] /\ pc[i] = "scan" /\ b \in Nat
    <2>1. ProcOK /\ NetOK
      BY Parts
    <2>2. QED
      BY <2>1, CurrentSocket DEF AtReady, NetOK
  <1>3. b <= IF c > k THEN c - 2
             ELSE IF k \in ready[i] THEN (n - 1) + (c - 1) ELSE c - 1
    BY <1>2 DEF BypassOK, BypassBound, Position
  <1>4. BypassBound(s)' = IF c + 1 > k THEN c - 1
                          ELSE IF k \in ready[i] THEN (n - 1) + c ELSE c
    BY <1>1, <1>2 DEF BypassBound
  <1>5. bypass'[s] = IF k = c \/ queue[s] = <<>> THEN 0 ELSE b + 1
    BY DEF CountBypass
  <1> HIDE DEF n, c, k, b
  <1>6. bypass'[s] <= BypassBound(s)'
    BY <1>1, <1>2, <1>3, <1>4, <1>5
  <1>7. queue'[s] = <<>> => bypass'[s] = 0
    BY <1>5 DEF c, k
  <1>8. QED
    BY <1>6, <1>7 DEF BypassOK

\* A step of the instance itself.
LEMMA BypassOwn ==
    ASSUME LoopInv, NEW i \in Inst, RelayStep(i) \/ Exit(i) \/ Restart(i),
           NEW s \in InSock, s[1] = i, BypassOK(s)
    PROVE  BypassOK(s)'
  <1> DEFINE n == Len(Inputs[i])
             k == s[2]
  <1>1. k \in 1..n /\ n \in Nat /\ s = <<i, k>>
    BY SocketType
  <1>2. ProcOK /\ NetOK
    BY Parts
  <1>3. /\ pc[i] \in {"select", "scan", "fanout", "stopped"} /\ cur[i] \in 1..(n + 1)
        /\ bypass[s] \in Nat
        /\ pc[i] = "fanout" => cur[i] \in 1..n
    BY <1>1, <1>2 DEF ProcOK, NetOK
  <1>4. ASSUME UNCHANGED <<pc, ready, cur, queue, bypass>>
        PROVE  BypassOK(s)'
    BY <1>4, BypassStill
  <1>5. CASE Select(i)
    <2>1. /\ pc'[i] = "scan" /\ cur'[i] = 1 /\ ready'[i] = readable(i)
          /\ pc[i] = "select" /\ UNCHANGED <<queue, bypass>>
      BY <1>2, <1>5 DEF Select, ProcOK, histories
    <2>2. Position(i)' = 1
      BY <2>1 DEF Position
    <2>3. k \notin readable(i) => bypass[s] = 0
      BY <1>1 DEF readable, BypassOK
    <2>4. bypass[s] <= n - 1
      BY <2>1 DEF BypassOK, BypassBound
    <2>5. BypassBound(s)' = IF k \in readable(i) THEN (n - 1) + (1 - 1) ELSE 1 - 1
      BY <1>1, <2>1, <2>2 DEF BypassBound
    <2>6. bypass[s] <= BypassBound(s)'
      BY <1>1, <1>3, <2>3, <2>4, <2>5
    <2>7. QED
      BY <2>1, <2>6 DEF BypassOK
  <1>6. CASE SkipSocket(i)
    <2>1. /\ pc[i] = "scan" /\ cur[i] <= n /\ cur[i] \notin ready[i]
          /\ pc'[i] = "scan" /\ cur'[i] = cur[i] + 1 /\ ready'[i] = ready[i]
          /\ UNCHANGED <<queue, bypass>>
      BY <1>2, <1>6 DEF SkipSocket, NextSocket, ProcOK, histories
    <2>2. bypass[s] <= IF cur[i] > k THEN cur[i] - 2
                       ELSE IF k \in ready[i] THEN (n - 1) + (cur[i] - 1)
                       ELSE cur[i] - 1
      BY <2>1 DEF BypassOK, BypassBound, Position
    <2>3. BypassBound(s)' = IF cur[i] + 1 > k THEN (cur[i] + 1) - 2
                            ELSE IF k \in ready[i] THEN (n - 1) + ((cur[i] + 1) - 1)
                            ELSE (cur[i] + 1) - 1
      BY <2>1 DEF BypassBound, Position
    <2>4. k = cur[i] => k \notin ready[i]
      BY <2>1
    <2> HIDE DEF n, k
    <2>5. bypass[s] <= BypassBound(s)'
      BY <1>1, <1>3, <2>2, <2>3, <2>4
    <2>6. QED
      BY <2>1, <2>5 DEF BypassOK
  <1>7. CASE RecvError(i)
    <2>1. AtReady(i) /\ CountBypass(i) /\ UNCHANGED <<pc, ready, queue>>
      BY <1>7 DEF RecvError
    <2>2. Position(i)' = cur[i] + 1
      BY <1>2, <1>7, <2>1 DEF RecvError, NextSocket, Position, AtReady, ProcOK
    <2>3. pc'[i] \in {"scan", "fanout"}
      BY <2>1 DEF AtReady
    <2>4. QED
      BY <2>1, <2>2, <2>3, BypassVisit
  <1>8. ASSUME Recv(i)
        PROVE  AtReady(i) /\ CountBypass(i) /\ (k # cur[i] => queue'[s] = queue[s])
    <2>1. <<i, cur[i]>> \in InSock
      BY <1>2, <1>8, CurrentSocket DEF Recv
    <2>2. k # cur[i] => queue'[s] = queue[s]
      BY <1>1, <1>2, <1>8, <2>1 DEF Recv, NetOK
    <2>3. QED
      BY <1>8, <2>2 DEF Recv
  <1>9. CASE DropFrame(i) \/ RateLimited(i)
    <2>1. Recv(i) /\ UNCHANGED <<pc, ready>> /\ NextSocket(i)
      BY <1>9 DEF DropFrame, RateLimited
    <2>2. Position(i)' = cur[i] + 1 /\ pc'[i] \in {"scan", "fanout"}
      BY <1>2, <1>8, <2>1 DEF NextSocket, Position, AtReady, ProcOK
    <2>3. QED
      BY <1>8, <2>1, <2>2, BypassVisit
  <1>10. CASE Accept(i)
    <2>1. Recv(i) /\ UNCHANGED <<ready, cur>> /\ pc' = [pc EXCEPT ![i] = "fanout"]
      BY <1>10 DEF Accept
    <2>2. Position(i)' = cur[i] + 1 /\ pc'[i] \in {"scan", "fanout"}
      BY <1>2, <2>1 DEF Position, ProcOK
    <2>3. QED
      BY <1>8, <2>1, <2>2, BypassVisit
  <1>11. CASE EndScan(i)
    <2>1. /\ pc[i] = "scan" /\ cur[i] = n + 1 /\ pc'[i] = "select"
          /\ UNCHANGED <<queue, bypass>>
      BY <1>2, <1>3, <1>11 DEF EndScan, ProcOK, histories
    <2>2. bypass[s] <= (n + 1) - 2
      BY <1>1, <2>1 DEF BypassOK, BypassBound, Position
    <2>3. BypassBound(s)' = n - 1
      BY <2>1 DEF BypassBound
    <2> HIDE DEF n
    <2>4. QED
      BY <1>1, <1>3, <2>1, <2>2, <2>3 DEF BypassOK
  <1>12. CASE SkipOutput(i) \/ SendError(i)
    BY <1>4, <1>12 DEF SkipOutput, SendError, histories
  <1>13. CASE Send(i)
    <2>1. queue'[s] = <<>> => queue[s] = <<>>
      BY <1>2, <1>13, SendDelivers, DeliverGrows
    <2>2. UNCHANGED <<pc, ready, cur, bypass>>
      BY <1>13 DEF Send
    <2>3. QED
      BY <2>1, <2>2, BypassStill
  <1>14. CASE EndFanout(i)
    <2>1. /\ pc[i] = "fanout" /\ pc'[i] = "scan" /\ cur'[i] = cur[i] + 1
          /\ ready'[i] = ready[i] /\ UNCHANGED <<queue, bypass>>
      BY <1>2, <1>14 DEF EndFanout, NextSocket, ProcOK, histories
    <2>2. BypassBound(s)' = BypassBound(s)
      BY <2>1 DEF BypassBound, Position
    <2>3. QED
      BY <2>1, <2>2 DEF BypassOK
  <1>15. CASE Exit(i)
    <2>1. pc'[i] = "stopped" /\ bypass'[s] = 0
      BY <1>2, <1>15 DEF Exit, ProcOK
    <2>2. BypassBound(s)' = n - 1
      BY <2>1 DEF BypassBound
    <2>3. QED
      BY <1>1, <2>1, <2>2 DEF BypassOK
  <1>16. CASE Restart(i)
    <2>1. /\ pc[i] = "stopped" /\ pc'[i] = "select" /\ UNCHANGED <<queue, bypass>>
      BY <1>2, <1>16 DEF Restart, ProcOK, histories
    <2>2. BypassBound(s)' = BypassBound(s)
      BY <2>1 DEF BypassBound
    <2>3. QED
      BY <2>1, <2>2 DEF BypassOK
  <1>17. CASE SelectTimeout(i)
    BY <1>4, <1>17 DEF SelectTimeout, vars, procVars, histories
  <1>18. QED
    BY <1>5, <1>6, <1>7, <1>9, <1>10, <1>11, <1>12, <1>13, <1>14, <1>15, <1>16,
       <1>17 DEF RelayStep

\* Hosts only lengthen queues; links and the clock leave everything in place.
LEMMA BypassEnvironment ==
    ASSUME LoopInv, NEW s \in InSock, BypassOK(s),
           \/ \E g \in Segment, p \in Frames : HostSend(g, p)
           \/ \E f \in Iface : LinkDown(f) \/ LinkUp(f)
           \/ Tick \/ UNCHANGED vars
    PROVE  BypassOK(s)'
  <1>1. CASE \E g \in Segment, p \in Frames : HostSend(g, p)
    <2>1. PICK g \in Segment, p \in Frames : HostSend(g, p)
      BY <1>1
    <2> DEFINE e == [pkt |-> p, orig |-> Len(originals) + 1, hops |-> 0]
    <2>2. NetOK /\ HistoryOK
      BY Parts
    <2>3. p \in Packet /\ Len(originals) + 1 \in Nat
      BY <2>2, RelayAssumption DEF HistoryOK
    <2>4. e \in MarkedEntry
      BY <2>3 DEF MarkedEntry, Entry
    <2>5. queue' = Deliver(g, e) /\ UNCHANGED <<pc, ready, cur, bypass>>
      BY <2>1 DEF HostSend, procVars
    <2> HIDE DEF e
    <2>6. queue'[s] = <<>> => queue[s] = <<>>
      BY <2>2, <2>4, <2>5, DeliverGrows
    <2>7. QED
      BY <2>5, <2>6, BypassStill
  <1>2. CASE UNCHANGED <<pc, ready, cur, queue, bypass>>
    BY <1>2, BypassStill
  <1>3. QED
    BY <1>1, <1>2 DEF LinkDown, LinkUp, Tick, vars, procVars, histories

\* BypassInv holds initially and is inductive.
LEMMA InitBypassInv == Init => BypassInv
  <1> SUFFICES ASSUME Init PROVE BypassInv
    OBVIOUS
  <1>1. LoopInv
    BY InitLoopInv
  <1>2. ASSUME NEW s \in InSock
        PROVE  BypassOK(s)
    <2>1. /\ s[1] \in Inst /\ s[2] \in 1..Len(Inputs[s[1]])
          /\ pc[s[1]] = "select" /\ bypass[s] = 0 /\ Len(Inputs[s[1]]) \in Nat
      BY SocketType, RelayAssumption DEF Init
    <2>2. BypassBound(s) = Len(Inputs[s[1]]) - 1
      BY <2>1 DEF BypassBound
    <2>3. QED
      BY <2>1, <2>2 DEF BypassOK
  <1>3. QED
    BY <1>1, <1>2 DEF BypassInv, BypassOK

LEMMA NextBypassInv == BypassInv /\ [Next]_vars => BypassInv'
  <1> SUFFICES ASSUME BypassInv, [Next]_vars PROVE BypassInv'
    OBVIOUS
  <1>1. LoopInv /\ \A s \in InSock : BypassOK(s)
    BY DEF BypassInv, BypassOK
  <1>2. LoopInv'
    BY <1>1, NextLoopInv
  <1>3. ASSUME NEW s \in InSock
        PROVE  BypassOK(s)'
    <2>1. CASE \E i \in Inst : RelayStep(i) \/ Exit(i) \/ Restart(i)
      BY <1>1, <2>1, BypassOwn, BypassOther
    <2>2. CASE ~ \E i \in Inst : RelayStep(i) \/ Exit(i) \/ Restart(i)
      BY <1>1, <2>2, BypassEnvironment DEF Next
    <2>3. QED
      BY <2>1, <2>2
  <1>4. QED
    BY <1>2, <1>3 DEF BypassInv, BypassOK

\* At every place of the loop a socket is behind by no more than the siblings
\* the current scan, and the one before, have read.
THEOREM BypassInvTheorem == Spec => []BypassInv
  BY InitBypassInv, NextBypassInv, PTL DEF Spec

\* However the traffic on the interfaces is spread, Relay::run visits a socket
\* with frames waiting after at most two reads of each of its siblings, for any
\* number of input interfaces: each pass over read_fds reads a socket once, and
\* select() reports every socket that was readable when the pass began.
THEOREM BoundedBypassTheorem == Spec => []BoundedBypass
  <1>1. BypassInv => BoundedBypass
    <2> SUFFICES ASSUME BypassInv, NEW s \in InSock
                 PROVE  bypass[s] <= 2 * (Len(Inputs[s[1]]) - 1)
      BY DEF BoundedBypass
    <2> DEFINE i == s[1]
               n == Len(Inputs[i])
    <2>1. ProcOK /\ NetOK
      BY Parts DEF BypassInv
    <2>2. i \in Inst /\ s[2] \in 1..n /\ n \in Nat /\ bypass[s] \in Nat
      BY <2>1, SocketType, RelayAssumption DEF NetOK
    <2>3. cur[i] \in 1..(n + 1) /\ (pc[i] = "fanout" => cur[i] <= n)
      BY <2>1, <2>2 DEF ProcOK
    <2>4. Position(i) \in 1..(n + 1)
      BY <2>2, <2>3 DEF Position
    <2>5. bypass[s] <= BypassBound(s)
      BY DEF BypassInv
    <2>6. BypassBound(s) \in {n - 1, Position(i) - 2, (n - 1) + (Position(i) - 1),
                              Position(i) - 1}
          /\ (Position(i) > s[2] => BypassBound(s) \in {n - 1, Position(i) - 2})
      BY DEF BypassBound
    <2> HIDE DEF n, i
    <2>7. bypass[s] <= 2 * (n - 1)
      BY <2>2, <2>4, <2>5, <2>6
    <2>8. QED
      BY <2>7 DEF n, i
  <1>2. QED
    BY <1>1, BypassInvTheorem, PTL

-----------------------------------------------------------------------------
(* A report of select() stays true *)

\* Socket s has been reported and the scan has yet to visit it.
Awaits(s) ==
    pc[s[1]] \in {"scan", "fanout"} /\ s[2] \in ready[s[1]] /\ s[2] >= Position(s[1])
ReportOK(s) == Awaits(s) => (queue[s] # <<>> \/ sockerr[s])

LEMMA ReportSockets ==
    ASSUME ProcOK
    PROVE  ReportStands <=> \A s \in InSock : ReportOK(s)
  <1>1. ASSUME ReportStands, NEW s \in InSock
        PROVE  ReportOK(s)
    <2>1. s[1] \in Inst /\ s = <<s[1], s[2]>>
      BY SocketType
    <2>2. QED
      BY <1>1, <2>1 DEF ReportStands, ReportOK, Awaits, readable
  <1>2. ASSUME \A s \in InSock : ReportOK(s)
        PROVE  ReportStands
    <2> SUFFICES ASSUME NEW i \in Inst, pc[i] \in {"scan", "fanout"}, NEW k \in ready[i],
                        k >= Position(i)
                 PROVE  k \in readable(i)
      BY DEF ReportStands
    <2>1. k \in 1..Len(Inputs[i])
      BY DEF ProcOK
    <2>2. <<i, k>> \in InSock
      BY <2>1, SocketIn
    <2>3. queue[<<i, k>>] # <<>> \/ sockerr[<<i, k>>]
      BY <1>2, <2>2 DEF ReportOK, Awaits
    <2>4. QED
      BY <2>1, <2>3 DEF readable
  <1>3. QED
    BY <1>1, <1>2

\* A socket that is not read, and not reported anew, keeps what it has.
LEMMA ReportKept ==
    ASSUME NEW s \in InSock, ReportOK(s), Awaits(s)' => Awaits(s),
           Awaits(s)' => /\ queue'[s] = <<>> => queue[s] = <<>>
                         /\ sockerr[s] => sockerr'[s]
    PROVE  ReportOK(s)'
  BY DEF ReportOK

\* A step of the instance itself: the scan never comes back to a socket.
LEMMA ReportOwn ==
    ASSUME LoopInv, NEW i \in Inst, RelayStep(i) \/ Exit(i) \/ Restart(i),
           NEW s \in InSock, s[1] = i, ReportOK(s)
    PROVE  ReportOK(s)'
  <1> DEFINE k == s[2]
  <1>1. k \in 1..Len(Inputs[i]) /\ s = <<i, k>>
    BY SocketType
  <1>2. ProcOK /\ NetOK
    BY Parts
  <1>3. cur[i] \in Nat /\ pc[i] \in {"select", "scan", "fanout", "stopped"}
    BY <1>2 DEF ProcOK
  <1>4. ASSUME UNCHANGED <<pc, ready, cur, queue, sockerr>>
        PROVE  ReportOK(s)'
    BY <1>4 DEF ReportOK, Awaits, Position
  <1>5. ASSUME pc'[i] \in {"select", "stopped"}
        PROVE  ReportOK(s)'
    BY <1>5 DEF ReportOK, Awaits
  \* The scan has moved on to the next socket.
  <1>6. ASSUME pc[i] \in {"scan", "fanout"}, ready'[i] = ready[i], Position(i)' = cur[i] + 1,
               k # cur[i] => (queue'[s] = queue[s] /\ sockerr'[s] = sockerr[s])
        PROVE  ReportOK(s)'
    <2>1. Awaits(s)' => k >= cur[i] + 1 /\ k \in ready[i]
      BY <1>6 DEF Awaits
    <2>2. Awaits(s)' => k # cur[i] /\ k >= cur[i]
      BY <1>1, <1>3, <2>1
    <2>3. Position(i) \in {cur[i], cur[i] + 1}
      BY DEF Position
    <2>4. Awaits(s)' => k >= Position(i)
      BY <2>1, <2>2, <2>3
    <2>5. Awaits(s)' => Awaits(s)
      BY <1>6, <2>1, <2>4 DEF Awaits
    <2>6. QED
      BY <1>6, <2>2, <2>5, ReportKept
  <1>7. CASE Select(i)
    <2>1. ready'[i] = readable(i) /\ UNCHANGED <<queue, sockerr>>
      BY <1>2, <1>7 DEF Select, ProcOK
    <2>2. Awaits(s)' => k \in readable(i)
      BY <2>1 DEF Awaits
    <2>3. QED
      BY <1>1, <2>1, <2>2 DEF ReportOK, readable
  <1>8. CASE SkipSocket(i)
    <2>1. /\ pc[i] = "scan" /\ pc'[i] = "scan" /\ cur'[i] = cur[i] + 1
          /\ ready'[i] = ready[i] /\ UNCHANGED <<queue, sockerr>>
      BY <1>2, <1>8 DEF SkipSocket, NextSocket, ProcOK
    <2>2. Position(i)' = cur[i] + 1
      BY <2>1 DEF Position
    <2>3. QED
      BY <1>6, <2>1, <2>2
  <1>9. CASE RecvError(i)
    <2>1. /\ pc[i] = "scan" /\ pc'[i] = "scan" /\ cur'[i] = cur[i] + 1
          /\ ready'[i] = ready[i] /\ queue' = queue
      BY <1>2, <1>9 DEF RecvError, NextSocket, ProcOK, AtReady
    <2>2. Position(i)' = cur[i] + 1
      BY <2>1 DEF Position
    <2>3. <<i, cur[i]>> \in InSock
      BY <1>2, <1>9, CurrentSocket DEF RecvError
    <2>4. sockerr' = [sockerr EXCEPT ![<<i, cur[i]>>] = FALSE]
      BY <1>9 DEF RecvError
    <2>5. k # cur[i] => sockerr'[s] = sockerr[s]
      <3>1. k # cur[i] => s # <<i, cur[i]>>
        BY <1>1
      <3>2. DOMAIN sockerr = InSock
        BY <1>2 DEF NetOK
      <3>3. QED
        BY <2>4, <3>1, <3>2, Zenon
    <2>6. QED
      BY <1>6, <2>1, <2>2, <2>5
  <1>10. ASSUME Recv(i)
         PROVE  pc[i] = "scan" /\ (k # cur[i] => queue'[s] = queue[s])
    <2>1. <<i, cur[i]>> \in InSock
      BY <1>2, <1>10, CurrentSocket DEF Recv
    <2>2. k # cur[i] => queue'[s] = queue[s]
      BY <1>1, <1>2, <1>10, <2>1 DEF Recv, NetOK
    <2>3. QED
      BY <1>10, <2>2 DEF Recv, AtReady
  <1>11. CASE DropFrame(i) \/ RateLimited(i)
    <2>1. Recv(i) /\ UNCHANGED <<pc, ready, sockerr>> /\ NextSocket(i)
      BY <1>11 DEF DropFrame, RateLimited
    <2>2. Position(i)' = cur[i] + 1
      BY <1>2, <1>10, <2>1 DEF NextSocket, Position, ProcOK
    <2>3. QED
      BY <1>6, <1>10, <2>1, <2>2
  <1>12. CASE Accept(i)
    <2>1. Recv(i) /\ UNCHANGED <<ready, cur, sockerr>> /\ pc' = [pc EXCEPT ![i] = "fanout"]
      BY <1>12 DEF Accept
    <2>2. Position(i)' = cur[i] + 1
      BY <1>2, <2>1 DEF Position, ProcOK
    <2>3. QED
      BY <1>6, <1>10, <2>1, <2>2
  <1>13. CASE SkipOutput(i) \/ SendError(i)
    BY <1>4, <1>13 DEF SkipOutput, SendError
  <1>14. CASE Send(i)
    <2>1. queue'[s] = <<>> => queue[s] = <<>>
      BY <1>2, <1>14, SendDelivers, DeliverGrows
    <2>2. UNCHANGED <<pc, ready, cur, sockerr>>
      BY <1>14 DEF Send
    <2>3. Awaits(s)' => Awaits(s)
      BY <2>2 DEF Awaits, Position
    <2>4. QED
      BY <2>1, <2>2, <2>3, ReportKept
  <1>15. CASE EndFanout(i)
    <2>1. /\ pc[i] = "fanout" /\ pc'[i] = "scan" /\ cur'[i] = cur[i] + 1
          /\ ready'[i] = ready[i] /\ UNCHANGED <<queue, sockerr>>
      BY <1>2, <1>15 DEF EndFanout, NextSocket, ProcOK
    <2>2. Position(i)' = cur[i] + 1
      BY <2>1 DEF Position
    <2>3. QED
      BY <1>6, <2>1, <2>2
  <1>16. CASE EndScan(i) \/ Exit(i) \/ Restart(i)
    <2>1. pc'[i] \in {"select", "stopped"}
      BY <1>2, <1>16 DEF EndScan, Exit, Restart, ProcOK
    <2>2. QED
      BY <1>5, <2>1
  <1>17. CASE SelectTimeout(i)
    BY <1>4, <1>17 DEF SelectTimeout, vars, procVars
  <1>18. QED
    BY <1>7, <1>8, <1>9, <1>11, <1>12, <1>13, <1>14, <1>15, <1>16, <1>17 DEF RelayStep

\* A step of another instance: nobody else reads the socket.
LEMMA ReportOther ==
    ASSUME LoopInv, NEW i \in Inst, RelayStep(i) \/ Exit(i) \/ Restart(i),
           NEW s \in InSock, s[1] # i, ReportOK(s)
    PROVE  ReportOK(s)'
  <1>1. s[1] \in Inst /\ ProcOK /\ NetOK
    BY SocketType, Parts
  <1>2. /\ pc'[s[1]] = pc[s[1]] /\ ready'[s[1]] = ready[s[1]]
        /\ cur'[s[1]] = cur[s[1]]
    BY <1>1, OthersUntouched
  <1>3. Awaits(s)' => Awaits(s)
    BY <1>2 DEF Awaits, Position
  <1>4. CASE Send(i)
    <2>1. queue'[s] = <<>> => queue[s] = <<>>
      BY <1>1, <1>4, SendDelivers, DeliverGrows
    <2>2. sockerr' = sockerr
      BY <1>4 DEF Send
    <2>3. QED
      BY <1>3, <2>1, <2>2, ReportKept
  <1>5. CASE ~Send(i)
    <2>1. Recv(i) => queue'[s] = queue[s]
      BY <1>1, CurrentSocket DEF Recv, NetOK
    <2>2. queue'[s] = queue[s]
      BY <1>5, <2>1
         DEF RelayStep, Select, SelectTimeout, vars, SkipSocket, RecvError,
             DropFrame, RateLimited, Accept, EndScan, SkipOutput, SendError,
             EndFanout, Exit, Restart
    <2>3. RecvError(i) => sockerr'[s] = sockerr[s]
      <3>1. s # <<i, cur[i]>>
        OBVIOUS
      <3>2. DOMAIN sockerr = InSock
        BY <1>1 DEF NetOK
      <3>3. RecvError(i) => sockerr' = [sockerr EXCEPT ![<<i, cur[i]>>] = FALSE]
        BY DEF RecvError
      <3>4. QED
        BY <3>1, <3>2, <3>3, Zenon
    <2>4. Exit(i) => (sockerr[s] => sockerr'[s])
      BY DEF Exit
    <2>5. sockerr[s] => sockerr'[s]
      BY <1>5, <2>3, <2>4
         DEF RelayStep, Select, SelectTimeout, vars, SkipSocket,
             DropFrame, RateLimited, Accept, EndScan, SkipOutput, SendError,
             EndFanout, Restart
    <2>6. QED
      BY <1>3, <2>2, <2>5, ReportKept
  <1>6. QED
    BY <1>4, <1>5

\* Hosts only lengthen queues, links only post errors.
LEMMA ReportEnvironment ==
    ASSUME LoopInv, NEW s \in InSock, ReportOK(s),
           \/ \E g \in Segment, p \in Frames : HostSend(g, p)
           \/ \E f \in Iface : LinkDown(f) \/ LinkUp(f)
           \/ Tick \/ UNCHANGED vars
    PROVE  ReportOK(s)'
  <1>1. CASE \E g \in Segment, p \in Frames : HostSend(g, p)
    <2>1. PICK g \in Segment, p \in Frames : HostSend(g, p)
      BY <1>1
    <2> DEFINE e == [pkt |-> p, orig |-> Len(originals) + 1, hops |-> 0]
    <2>2. NetOK /\ HistoryOK
      BY Parts
    <2>3. p \in Packet /\ Len(originals) + 1 \in Nat
      BY <2>2, RelayAssumption DEF HistoryOK
    <2>4. e \in MarkedEntry
      BY <2>3 DEF MarkedEntry, Entry
    <2>5. queue' = Deliver(g, e) /\ UNCHANGED <<pc, ready, cur, sockerr>>
      BY <2>1 DEF HostSend, procVars
    <2> HIDE DEF e
    <2>6. queue'[s] = <<>> => queue[s] = <<>>
      BY <2>2, <2>4, <2>5, DeliverGrows
    <2>7. Awaits(s)' => Awaits(s)
      BY <2>5 DEF Awaits, Position
    <2>8. QED
      BY <2>5, <2>6, <2>7, ReportKept
  <1>2. CASE UNCHANGED <<pc, ready, cur, queue>> /\ (sockerr[s] => sockerr'[s])
    <2>1. Awaits(s)' => Awaits(s)
      BY <1>2 DEF Awaits, Position
    <2>2. QED
      BY <1>2, <2>1, ReportKept
  <1>3. QED
    BY <1>1, <1>2 DEF LinkDown, LinkUp, Tick, vars, procVars

\* Whatever happens while Relay::run works through the sockets select() has
\* reported, each of them still has a frame or an error when its turn comes, for
\* any number of interfaces: read() is never called in vain, so every pass over
\* the sockets takes something out of one of them.
THEOREM ReportStandsTheorem == Spec => []ReportStands
  <1> DEFINE Inv == LoopInv /\ \A s \in InSock : ReportOK(s)
  <1>1. Init => Inv
    <2> SUFFICES ASSUME Init PROVE Inv
      OBVIOUS
    <2>1. LoopInv
      BY InitLoopInv
    <2>2. \A i \in Inst : pc[i] = "select"
      BY DEF Init
    <2>3. \A s \in InSock : s[1] \in Inst
      BY SocketType
    <2>4. QED
      BY <2>1, <2>2, <2>3 DEF ReportOK, Awaits
  <1>2. Inv /\ [Next]_vars => Inv'
    <2> SUFFICES ASSUME Inv, [Next]_vars PROVE Inv'
      OBVIOUS
    <2>1. LoopInv'
      BY NextLoopInv
    <2>2. ASSUME NEW s \in InSock
          PROVE  ReportOK(s)'
      <3>1. CASE \E i \in Inst : RelayStep(i) \/ Exit(i) \/ Restart(i)
        BY <3>1, ReportOwn, ReportOther
      <3>2. CASE ~ \E i \in Inst : RelayStep(i) \/ Exit(i) \/ Restart(i)
        BY <3>2, ReportEnvironment DEF Next
      <3>3. QED
        BY <3>1, <3>2
    <2>3. QED
      BY <2>1, <2>2
  <1>3. Inv => ReportStands
    BY Parts, ReportSockets
  <1>4. QED
    BY <1>1, <1>2, <1>3, PTL DEF Spec

-----------------------------------------------------------------------------
(* The rate limit *)

\* Products of naturals, as the provers need them.
LEMMA Products ==
    /\ \A a, b \in Nat : a * b \in Nat
    /\ \A a, b, c \in Nat : a * (b + c) = a * b + a * c
    /\ \A a, b, c \in Nat : b <= c => a * b <= a * c
    /\ \A a, b \in Nat : a * b = b * a
  <1>1. \A a, b \in Nat : a * b \in Nat
    OBVIOUS
  <1>2. \A a, b, c \in Nat : a * (b + c) = a * b + a * c
    OBVIOUS
  <1>3. \A a, b, c \in Nat : b <= c => a * b <= a * c
    OBVIOUS
  <1>4. \A a, b \in Nat : a * b = b * a
    OBVIOUS
  <1>5. QED
    BY <1>1, <1>2, <1>3, <1>4

\* The allowance of l outputs, for bursts of size b and rate r: it grows with
\* the number of starts and with time, by a burst for each start and by what
\* the refill adds.
LEMMA AllowanceFacts ==
    ASSUME NEW l \in Nat, NEW b \in Nat, NEW r \in Nat, NEW n \in Nat, NEW t \in Nat
    PROVE  /\ l * (n * b + r * t) \in Nat
           /\ \A m, u \in Nat : (n <= m /\ t <= u) =>
                 l * (n * b + r * t) <= l * (m * b + r * u)
           /\ l * ((1 + n) * b + r * t) = l * (n * b + r * t) + l * b
           /\ \A d \in Nat : l * (n * b + r * (t + d)) = l * (n * b + r * t) + l * (r * d)
  <1> DEFINE x == n * b
             y == r * t
  <1>1. x \in Nat /\ y \in Nat
    BY Products
  <1>2. l * (x + y) \in Nat
    BY <1>1, Products
  <1>3. ASSUME NEW m \in Nat, NEW u \in Nat, n <= m, t <= u
        PROVE  l * (n * b + r * t) <= l * (m * b + r * u)
    <2>1. b * n <= b * m /\ r * t <= r * u
      BY <1>3, Products
    <2>2. n * b <= m * b
      BY <2>1, Products
    <2>3. m * b \in Nat /\ r * u \in Nat
      BY Products
    <2>4. /\ n * b + r * t <= m * b + r * u
          /\ n * b + r * t \in Nat /\ m * b + r * u \in Nat
      <3> DEFINE z == m * b
                 w == r * u
      <3>1. x <= z /\ y <= w /\ z \in Nat /\ w \in Nat
        BY <2>1, <2>2, <2>3
      <3> HIDE DEF x, y, z, w
      <3>2. x + y <= z + w /\ x + y \in Nat /\ z + w \in Nat
        BY <1>1, <3>1
      <3>3. QED
        BY <3>2 DEF x, y, z, w
    <2>5. QED
      BY <2>4, Products
  <1>4. l * ((1 + n) * b + r * t) = l * (n * b + r * t) + l * b
    <2>1. b * (1 + n) = b * 1 + b * n
      BY Products
    <2>2. (1 + n) * b = b + n * b
      BY <2>1, Products
    <2> HIDE DEF x, y
    <2>3. (b + x) + y = (x + y) + b /\ x + y \in Nat
      BY <1>1
    <2>4. l * ((x + y) + b) = l * (x + y) + l * b
      BY <2>3, Products
    <2>5. QED
      BY <2>2, <2>3, <2>4 DEF x, y
  <1>5. ASSUME NEW d \in Nat
        PROVE  l * (n * b + r * (t + d)) = l * (n * b + r * t) + l * (r * d)
    <2> DEFINE z == r * d
    <2>1. r * (t + d) = y + z /\ z \in Nat
      BY Products
    <2> HIDE DEF x, y, z
    <2>2. x + (y + z) = (x + y) + z /\ x + y \in Nat
      BY <1>1, <2>1
    <2>3. l * ((x + y) + z) = l * (x + y) + l * z
      BY <2>1, <2>2, Products
    <2>4. QED
      BY <2>1, <2>2, <2>3 DEF x, y, z
  <1>6. QED
    BY <1>2, <1>3, <1>4, <1>5

\* A call of allow() finds in the bucket at most what was left there and what
\* the time since then adds, and takes one packet's worth if it says yes.
LEMMA AllowSpends ==
    ASSUME NEW r \in RateLimiter, NEW t \in Nat, r.last <= t
    PROVE  LET a == after_allow(r, t)
           IN  /\ a \in RateLimiter /\ a.last = t /\ a.rate = r.rate /\ a.burst = r.burst
               /\ a.tokens + (IF allow(r, t) THEN TicksPerSec ELSE 0)
                    <= r.tokens + r.rate * (t - r.last)
  <1> DEFINE x == refill(r, t)
             c == IF allow(r, t) THEN TicksPerSec ELSE 0
             d == (t - r.last) * r.rate
             a == after_allow(r, t)
  <1>1. a \in RateLimiter /\ a.last = t
    BY AfterAllowType
  <1>2. /\ r.tokens \in Nat /\ r.burst \in Nat /\ r.rate \in Nat /\ r.last \in Nat
    BY DEF RateLimiter
  <1>3. t - r.last \in Nat /\ TicksPerSec \in Nat
    BY <1>2, TicksPerSecAssumption
  <1>4. d \in Nat /\ d = r.rate * (t - r.last)
    BY <1>2, <1>3, Products
  <1>5. x = AtMost(r.tokens + d, r.burst)
    BY DEF refill
  <1>6. a = [r EXCEPT !.last = t, !.tokens = x - c]
    BY DEF after_allow
  <1> HIDE DEF d
  <1>7. x \in Nat /\ x <= r.tokens + d
    BY <1>2, <1>4, <1>5 DEF AtMost
  <1> HIDE DEF x, c
  <1>8. a.tokens = x - c /\ a.rate = r.rate /\ a.burst = r.burst
    BY <1>6 DEF RateLimiter
  <1>9. c \in Nat
    BY <1>3 DEF c
  <1> HIDE DEF a
  <1>10. a.tokens + c <= r.tokens + d
    BY <1>2, <1>4, <1>7, <1>8, <1>9
  <1>11. QED
    BY <1>1, <1>4, <1>8, <1>10 DEF a, c

\* The frames instance j has sent, when W is what is on the wire.
LEMMA SentByElements ==
    ASSUME NEW W, NEW j
    PROVE  \A x : x \in {y \in UNION {{<<g, k>> : k \in DOMAIN W[g]} : g \in Segment} :
                            W[y[1]][y[2]].inst = j}
                  <=> \E g \in Segment : \E k \in DOMAIN W[g] :
                         x = <<g, k>> /\ W[g][k].inst = j
  OBVIOUS

\* sendto adds one frame to what the instance has sent, and nothing to what
\* the others have.
LEMMA SendAdds ==
    ASSUME LoopInv, NEW i \in Inst, Send(i)
    PROVE  /\ \E x : x \notin SentBy(i) /\ SentBy(i)' = SentBy(i) \cup {x}
           /\ \A j \in Inst : j # i => SentBy(j)' = SentBy(j)
  <1> DEFINE h == SegmentOf[egress(i)]
             e == Head(buf[i])
             w == [inst |-> i, ingress |-> ingress(i), egress |-> egress(i),
                   orig |-> e.orig, hops |-> e.hops + 1, pkt |-> rewritten(i),
                   mac |-> dest_mac(rewritten(i)), logged |-> Verbose[i]]
             x == <<h, Len(wire[h]) + 1>>
  <1>1. wire' = [wire EXCEPT ![h] = Append(wire[h], w)] /\ w.inst = i
    BY DEF Send
  <1>2. h \in Segment /\ wire \in [Segment -> Seq(SentOnce)]
    BY Parts, RewrittenType DEF Send, HistoryOK
  <1> HIDE DEF h, w
  <1>3. wire[h] \in Seq(SentOnce) /\ Len(wire[h]) \in Nat
    BY <1>2
  <1>4. ASSUME NEW g \in Segment
        PROVE  /\ DOMAIN wire'[g] = DOMAIN wire[g] \cup
                                    (IF g = h THEN {Len(wire[h]) + 1} ELSE {})
               /\ \A k \in DOMAIN wire[g] : wire'[g][k] = wire[g][k]
    BY <1>1, <1>2, <1>3
  <1>5. wire'[h][Len(wire[h]) + 1] = w /\ Len(wire[h]) + 1 \notin DOMAIN wire[h]
    BY <1>1, <1>2, <1>3
  <1>6. ASSUME NEW j
        PROVE  /\ \A y : y \in SentBy(j) <=> \E g \in Segment : \E k \in DOMAIN wire[g] :
                                                y = <<g, k>> /\ wire[g][k].inst = j
               /\ \A y : y \in SentBy(j)' <=> \E g \in Segment : \E k \in DOMAIN wire'[g] :
                                                y = <<g, k>> /\ wire'[g][k].inst = j
    BY SentByElements DEF SentBy, OnWire, SentAt
  <1>7. ASSUME NEW j
        PROVE  SentBy(j)' = SentBy(j) \cup (IF j = i THEN {x} ELSE {})
    <2>1. ASSUME NEW y \in SentBy(j)
          PROVE  y \in SentBy(j)'
      BY <1>4, <1>6
    <2>2. j = i => x \in SentBy(j)'
      BY <1>1, <1>2, <1>4, <1>5, <1>6
    <2>3. ASSUME NEW y \in SentBy(j)'
          PROVE  y \in SentBy(j) \/ (j = i /\ y = x)
      <3>1. PICK g \in Segment : \E k \in DOMAIN wire'[g] :
                                    y = <<g, k>> /\ wire'[g][k].inst = j
        BY <1>6
      <3>2. PICK k \in DOMAIN wire'[g] : y = <<g, k>> /\ wire'[g][k].inst = j
        BY <3>1
      <3>3. CASE k \in DOMAIN wire[g]
        BY <1>4, <1>6, <3>2, <3>3
      <3>4. CASE k \notin DOMAIN wire[g]
        BY <1>1, <1>4, <1>5, <3>2, <3>4
      <3>5. QED
        BY <3>3, <3>4
    <2>4. QED
      BY <2>1, <2>2, <2>3
  <1>8. x \notin SentBy(i)
    BY <1>5, <1>6
  <1>9. QED
    BY <1>7, <1>8

\* The part of StormInv that is about one instance.
StormOK(i) ==
    /\ rl[i].rate = RateLimit[i] /\ rl[i].burst = limiter(i, 0).burst
    /\ IsFiniteSet(SentBy(i))
    /\ RateLimit[i] > 0 => WithinAllowance(i)

\* What a running instance has used of its allowance.
Spent(i) == TicksPerSec * SendsOf(i) + TicksPerSec * OutputsLeft(i)
                + Len(Outputs[i]) * rl[i].tokens

\* The bucket a process starts with, whenever it starts.
LEMMA LimiterStart ==
    ASSUME NEW i \in Inst, NEW t \in Nat
    PROVE  /\ limiter(i, t) \in RateLimiter /\ limiter(i, t).rate = RateLimit[i]
           /\ limiter(i, t).burst = limiter(i, 0).burst
           /\ limiter(i, t).tokens = limiter(i, 0).burst /\ limiter(i, t).last = t
  <1>1. limiter(i, t) \in RateLimiter
    BY LimiterType
  <1>2. QED
    BY <1>1 DEF limiter, new

\* The numbers the allowance is made of.
LEMMA StormNumbers ==
    ASSUME LoopInv, NEW i \in Inst
    PROVE  /\ TicksPerSec \in Nat /\ Len(Outputs[i]) \in Nat /\ RateLimit[i] \in Nat
           /\ rl[i] \in RateLimiter /\ rl[i].rate \in Nat
           /\ rl[i].burst \in Nat /\ rl[i].tokens \in Nat
           /\ rl[i].last \in Nat /\ now \in Nat /\ rl[i].last <= now /\ faults \in Nat
           /\ OutputsLeft(i) \in Nat
           /\ IsFiniteSet(SentBy(i)) => SendsOf(i) \in Nat
  <1>1. ProcOK /\ LimiterOK /\ HistoryOK
    BY Parts
  <1>2. /\ TicksPerSec \in Nat /\ Len(Outputs[i]) \in Nat /\ RateLimit[i] \in Nat
    BY RelayAssumption, TicksPerSecAssumption
  <1>3. /\ rl[i] \in RateLimiter /\ now \in Nat /\ rl[i].last <= now /\ faults \in Nat
    BY <1>1 DEF LimiterOK, HistoryOK
  <1>4. /\ rl[i].burst \in Nat /\ rl[i].tokens \in Nat /\ rl[i].last \in Nat
        /\ rl[i].rate \in Nat
    BY <1>3 DEF RateLimiter
  <1>5. OutputsLeft(i) \in Nat
    <2>1. out[i] \in Nat \ {0} /\ out[i] <= Len(Outputs[i]) + 1
      BY <1>1 DEF ProcOK
    <2>2. QED
      BY <1>2, <2>1 DEF OutputsLeft
  <1>6. IsFiniteSet(SentBy(i)) => SendsOf(i) \in Nat
    BY FS_CardinalityType DEF SendsOf
  <1>7. QED
    BY <1>2, <1>3, <1>4, <1>5, <1>6

\* What has been spent is a number.
LEMMA SpentType ==
    ASSUME LoopInv, NEW i \in Inst, IsFiniteSet(SentBy(i))
    PROVE  Spent(i) \in Nat
  <1>1. /\ TicksPerSec * SendsOf(i) \in Nat /\ TicksPerSec * OutputsLeft(i) \in Nat
        /\ Len(Outputs[i]) * rl[i].tokens \in Nat
    BY StormNumbers, Products
  <1>2. QED
    BY <1>1 DEF Spent

\* A step of a running instance may spend what the refill adds.
LEMMA StormRunning ==
    ASSUME LoopInv, NEW i \in Inst, StormOK(i),
           pc[i] # "stopped", pc'[i] # "stopped", UNCHANGED faults,
           rl'[i].rate = rl[i].rate, rl'[i].burst = rl[i].burst,
           NEW d \in Nat, rl'[i].last = rl[i].last + d,
           IsFiniteSet(SentBy(i)'), Spent(i)' \in Nat,
           Spent(i)' <= Spent(i) + Len(Outputs[i]) * (RateLimit[i] * d)
    PROVE  StormOK(i)'
  <1> SUFFICES ASSUME RateLimit[i] > 0 PROVE WithinAllowance(i)'
    BY DEF StormOK
  <1> DEFINE l == Len(Outputs[i])
             b == rl[i].burst
             r == RateLimit[i]
             t == rl[i].last
             n == 1 + faults
             a == l * (n * b + r * t)
             z == l * (n * b + r * (t + d))
             y == l * (r * d)
  <1>1. l \in Nat /\ b \in Nat /\ r \in Nat /\ t \in Nat /\ n \in Nat
    BY StormNumbers
  <1>2. Spent(i) \in Nat
    BY SpentType DEF StormOK
  <1>3. Spent(i) <= a
    BY DEF StormOK, WithinAllowance, Spent, Allowance
  <1>4. WithinAllowance(i)' <=> Spent(i)' <= z
    BY DEF WithinAllowance, Spent, Allowance
  <1>5. Spent(i)' <= Spent(i) + y
    OBVIOUS
  <1> HIDE DEF l, b, r, t, n
  <1>6. a \in Nat /\ y \in Nat /\ z = a + y
    BY <1>1, AllowanceFacts, Products
  <1> HIDE DEF a, y, z
  <1>7. Spent(i)' <= z
    BY <1>2, <1>3, <1>5, <1>6
  <1>8. QED
    BY <1>4, <1>7

\* A step that leaves the instance alone: faults and the clock only grow.
LEMMA StormStill ==
    ASSUME LoopInv, NEW i \in Inst, StormOK(i),
           pc'[i] = pc[i], out'[i] = out[i], rl'[i] = rl[i], SentBy(i)' = SentBy(i),
           faults' \in Nat, faults <= faults', now' \in Nat, now <= now'
    PROVE  StormOK(i)'
  <1> SUFFICES ASSUME RateLimit[i] > 0 PROVE WithinAllowance(i)'
    BY DEF StormOK
  <1> DEFINE l == Len(Outputs[i])
             b == rl[i].burst
             r == RateLimit[i]
             t == rl[i].last
             s == TicksPerSec * SendsOf(i)
  <1>1. l \in Nat /\ b \in Nat /\ r \in Nat /\ t \in Nat /\ faults \in Nat /\ now \in Nat
    BY StormNumbers
  <1>2. SendsOf(i)' = SendsOf(i) /\ OutputsLeft(i)' = OutputsLeft(i)
    BY DEF SendsOf, OutputsLeft
  <1>3. IsFiniteSet(SentBy(i)) /\ WithinAllowance(i)
    BY DEF StormOK
  <1>4. s \in Nat /\ Spent(i) \in Nat
    BY <1>3, StormNumbers, SpentType, Products
  <1>5. CASE pc[i] = "stopped"
    <2> DEFINE x == l * (faults * b + r * now)
               y == l * (faults' * b + r * now')
    <2>1. s <= x
      BY <1>3, <1>5 DEF WithinAllowance, Allowance
    <2>2. WithinAllowance(i)' <=> s <= y
      BY <1>2, <1>5 DEF WithinAllowance, Allowance
    <2> HIDE DEF l, b, r, t, s
    <2>3. x \in Nat /\ y \in Nat /\ x <= y
      BY <1>1, AllowanceFacts
    <2> HIDE DEF x, y
    <2>4. QED
      BY <1>4, <2>1, <2>2, <2>3
  <1>6. CASE pc[i] # "stopped"
    <2> DEFINE n == 1 + faults
               m == 1 + faults'
               x == l * (n * b + r * t)
               y == l * (m * b + r * t)
    <2>1. Spent(i) <= x
      BY <1>3, <1>6 DEF WithinAllowance, Allowance, Spent
    <2>2. WithinAllowance(i)' <=> Spent(i) <= y
      BY <1>2, <1>6 DEF WithinAllowance, Allowance, Spent
    <2>3. n \in Nat /\ m \in Nat /\ n <= m
      BY <1>1
    <2> HIDE DEF l, b, r, t, n, m
    <2>4. x \in Nat /\ y \in Nat /\ x <= y
      BY <1>1, <2>3, AllowanceFacts
    <2> HIDE DEF x, y
    <2>5. QED
      BY <1>4, <2>1, <2>2, <2>4
  <1>7. QED
    BY <1>5, <1>6

\* A process that ends leaves what it has sent within the bursts so far ...
LEMMA StormExit ==
    ASSUME LoopInv, NEW i \in Inst, StormOK(i), Exit(i)
    PROVE  StormOK(i)'
  <1>1. /\ pc[i] # "stopped" /\ pc'[i] = "stopped" /\ faults' = faults + 1
        /\ UNCHANGED <<rl, now, wire>>
    BY Parts DEF Exit, ProcOK
  <1>2. SentBy(i)' = SentBy(i) /\ SendsOf(i)' = SendsOf(i)
    BY <1>1 DEF SentBy, SendsOf, OnWire, SentAt
  <1> SUFFICES ASSUME RateLimit[i] > 0 PROVE WithinAllowance(i)'
    BY <1>1, <1>2 DEF StormOK
  <1> DEFINE l == Len(Outputs[i])
             b == rl[i].burst
             r == RateLimit[i]
             t == rl[i].last
             s == TicksPerSec * SendsOf(i)
             p == TicksPerSec * OutputsLeft(i)
             k == l * rl[i].tokens
             n == faults + 1
             x == l * (n * b + r * t)
             y == l * (n * b + r * now)
  <1>3. /\ l \in Nat /\ b \in Nat /\ r \in Nat /\ t \in Nat /\ n \in Nat /\ now \in Nat
        /\ t <= now
    BY StormNumbers
  <1>4. s \in Nat /\ p \in Nat /\ k \in Nat
    BY StormNumbers, Products DEF StormOK
  <1>5. 1 + faults = n
    BY StormNumbers
  <1>6. s + p + k <= x
    BY <1>1, <1>5 DEF StormOK, WithinAllowance, Allowance
  <1>7. WithinAllowance(i)' <=> s <= y
    BY <1>1, <1>2 DEF WithinAllowance, Allowance
  <1> HIDE DEF l, b, r, t, s, p, k, n
  <1>8. x \in Nat /\ y \in Nat /\ x <= y
    BY <1>3, AllowanceFacts
  <1> HIDE DEF x, y
  <1>9. QED
    BY <1>4, <1>6, <1>7, <1>8

\* ... and one that is started again gets a full bucket, hence one more.
LEMMA StormRestart ==
    ASSUME LoopInv, NEW i \in Inst, StormOK(i), Restart(i)
    PROVE  StormOK(i)'
  <1>1. /\ pc[i] = "stopped" /\ pc'[i] = "select" /\ rl'[i] = limiter(i, now)
        /\ UNCHANGED <<now, wire, faults>>
    BY Parts DEF Restart, ProcOK, LimiterOK, histories
  <1>2. SentBy(i)' = SentBy(i) /\ SendsOf(i)' = SendsOf(i) /\ OutputsLeft(i)' = 0
    BY <1>1 DEF SentBy, SendsOf, OnWire, SentAt, OutputsLeft
  <1> DEFINE l == Len(Outputs[i])
             b == rl[i].burst
             r == RateLimit[i]
             s == TicksPerSec * SendsOf(i)
             x == l * (faults * b + r * now)
             y == l * ((1 + faults) * b + r * now)
             z == l * b
  <1>3. /\ l \in Nat /\ b \in Nat /\ r \in Nat /\ faults \in Nat /\ now \in Nat
        /\ TicksPerSec \in Nat
    BY StormNumbers
  <1>4. /\ rl'[i].rate = r /\ rl'[i].burst = b /\ rl'[i].tokens = b /\ rl'[i].last = now
        /\ b = limiter(i, 0).burst
    BY <1>1, <1>3, LimiterStart DEF StormOK
  <1> SUFFICES ASSUME r > 0 PROVE WithinAllowance(i)'
    BY <1>2, <1>4 DEF StormOK
  <1>5. s \in Nat
    BY StormNumbers, Products DEF StormOK
  <1>6. s <= x
    BY <1>1 DEF StormOK, WithinAllowance, Allowance
  <1>7. WithinAllowance(i)' <=> s + TicksPerSec * 0 + z <= y
    BY <1>1, <1>2, <1>4 DEF WithinAllowance, Allowance
  <1>8. TicksPerSec * 0 = 0
    BY <1>3
  <1> HIDE DEF l, b, r, s
  <1>9. x \in Nat /\ z \in Nat /\ y = x + z
    BY <1>3, AllowanceFacts, Products
  <1> HIDE DEF x, y, z
  <1>10. QED
    BY <1>5, <1>6, <1>7, <1>8, <1>9

\* A step of a running instance that neither calls allow() nor sends: what is
\* left of the fan-out can only shrink.
LEMMA StormPasses ==
    ASSUME LoopInv, LoopInv', NEW i \in Inst, StormOK(i),
           pc[i] # "stopped", pc'[i] # "stopped", UNCHANGED faults,
           rl'[i] = rl[i], SentBy(i)' = SentBy(i), OutputsLeft(i)' <= OutputsLeft(i)
    PROVE  StormOK(i)'
  <1> DEFINE s == TicksPerSec * SendsOf(i)
             p == TicksPerSec * OutputsLeft(i)
             q == TicksPerSec * OutputsLeft(i)'
             k == Len(Outputs[i]) * rl[i].tokens
  <1>1. IsFiniteSet(SentBy(i)) /\ SendsOf(i)' = SendsOf(i)
    BY DEF StormOK, SendsOf
  <1>2. /\ TicksPerSec \in Nat /\ OutputsLeft(i) \in Nat /\ OutputsLeft(i)' \in Nat
        /\ Len(Outputs[i]) \in Nat /\ RateLimit[i] \in Nat /\ rl[i].last \in Nat
    <2>1. OutputsLeft(i) \in Nat
      BY StormNumbers
    <2>2. OutputsLeft(i)' \in Nat
      <3>1. ProcOK'
        BY Parts, PTL
      <3>2. out'[i] \in Nat \ {0} /\ out'[i] <= Len(Outputs[i]) + 1
        BY <3>1 DEF ProcOK
      <3>3. Len(Outputs[i]) \in Nat
        BY RelayAssumption
      <3>4. QED
        BY <3>2, <3>3 DEF OutputsLeft
    <2>3. QED
      BY <2>1, <2>2, StormNumbers
  <1>3. s \in Nat /\ p \in Nat /\ q \in Nat /\ k \in Nat /\ q <= p
    BY <1>1, <1>2, StormNumbers, Products
  <1>4. Spent(i) = s + p + k /\ Spent(i)' = s + q + k
    BY <1>1 DEF Spent
  <1>5. Len(Outputs[i]) * (RateLimit[i] * 0) = 0
    BY <1>2
  <1> HIDE DEF s, p, q, k
  <1>6. Spent(i)' \in Nat /\ Spent(i)' <= Spent(i) + 0
    BY <1>3, <1>4
  <1>7. rl'[i].last = rl[i].last + 0
    BY <1>2
  <1>8. QED
    BY <1>1, <1>5, <1>6, <1>7, StormRunning

\* A send takes one of the outputs left.
LEMMA StormSend ==
    ASSUME LoopInv, NEW i \in Inst, StormOK(i), Send(i)
    PROVE  StormOK(i)'
  <1> DEFINE u == TicksPerSec
             s == SendsOf(i)
             p == OutputsLeft(i)
             k == Len(Outputs[i]) * rl[i].tokens
  <1>1. ProcOK
    BY Parts
  <1>2. /\ pc[i] = "fanout" /\ pc' = pc /\ rl' = rl /\ UNCHANGED faults
        /\ out[i] <= Len(Outputs[i]) /\ out'[i] = out[i] + 1
    BY <1>1 DEF Send, AtOutput, NextOutput, ProcOK
  <1>3. IsFiniteSet(SentBy(i)) /\ s \in Nat
    BY StormNumbers DEF StormOK
  <1>4. IsFiniteSet(SentBy(i)') /\ SendsOf(i)' = s + 1
    <2>1. PICK x : x \notin SentBy(i) /\ SentBy(i)' = SentBy(i) \cup {x}
      BY SendAdds
    <2>2. QED
      BY <1>3, <2>1, FS_AddElement DEF SendsOf
  <1>5. p \in Nat /\ p >= 1 /\ OutputsLeft(i)' = p - 1
    <2>1. out[i] \in Nat \ {0} /\ Len(Outputs[i]) \in Nat
      BY <1>1, RelayAssumption DEF ProcOK
    <2>2. QED
      BY <1>2, <2>1 DEF OutputsLeft
  <1>6. u \in Nat /\ k \in Nat /\ rl[i].last \in Nat
        /\ Len(Outputs[i]) \in Nat /\ RateLimit[i] \in Nat
    BY StormNumbers, Products
  <1>7. Spent(i) = u * s + u * p + k
    BY DEF Spent
  <1>8. Spent(i)' = u * (s + 1) + u * (p - 1) + k
    BY <1>2, <1>4, <1>5 DEF Spent
  <1>9. Len(Outputs[i]) * (RateLimit[i] * 0) = 0
    BY <1>6
  <1> HIDE DEF u, s, p, k
  <1>10. u * (s + 1) = u * s + u /\ u * p = u * (p - 1) + u
    <2>1. p - 1 \in Nat /\ p = (p - 1) + 1
      BY <1>5
    <2>2. u * ((p - 1) + 1) = u * (p - 1) + u * 1 /\ u * (s + 1) = u * s + u * 1
      BY <1>3, <1>6, <2>1, Products
    <2>3. QED
      BY <1>6, <2>1, <2>2
  <1>11. u * s \in Nat /\ u * (p - 1) \in Nat
    BY <1>3, <1>5, <1>6, Products
  <1>12. Spent(i)' = Spent(i) /\ Spent(i)' \in Nat
    <2> DEFINE x == u * s
               y == u * (p - 1)
    <2>1. Spent(i) = x + (y + u) + k /\ Spent(i)' = (x + u) + y + k
      BY <1>7, <1>8, <1>10
    <2> HIDE DEF x, y
    <2>2. x \in Nat /\ y \in Nat
      BY <1>11 DEF x, y
    <2>3. QED
      BY <1>6, <2>1, <2>2
  <1>13. Spent(i)' <= Spent(i) + 0 /\ rl'[i].last = rl[i].last + 0
    BY <1>2, <1>6, <1>12
  <1>14. QED
    BY <1>2, <1>4, <1>9, <1>12, <1>13, StormRunning

\* A call of allow() spends at most what was in the bucket and what the refill
\* adds: a packet let through is worth one sendto on each output.
LEMMA StormAllow ==
    ASSUME LoopInv, NEW i \in Inst, StormOK(i), RateLimit[i] > 0,
           RateLimited(i) \/ Accept(i)
    PROVE  StormOK(i)'
  <1> DEFINE l == Len(Outputs[i])
             a == after_allow(rl[i], now)
             s == TicksPerSec * SendsOf(i)
             d == now - rl[i].last
             c == IF Accept(i) THEN TicksPerSec ELSE 0
  <1>1. /\ l \in Nat /\ TicksPerSec \in Nat /\ RateLimit[i] \in Nat /\ now \in Nat
        /\ rl[i] \in RateLimiter /\ rl[i].last \in Nat /\ rl[i].tokens \in Nat
        /\ rl[i].last <= now /\ rl[i].rate = RateLimit[i] /\ IsFiniteSet(SentBy(i))
    BY StormNumbers DEF StormOK
  <1>2. d \in Nat /\ now = rl[i].last + d
    BY <1>1
  <1>3. Accept(i) => allow(rl[i], now)
    BY DEF Accept
  <1>4. Accept(i) \/ ~allow(rl[i], now)
    BY DEF RateLimited
  <1>5. c = IF allow(rl[i], now) THEN TicksPerSec ELSE 0
    BY <1>3, <1>4
  <1>6. /\ a \in RateLimiter /\ a.last = now /\ a.rate = rl[i].rate
        /\ a.burst = rl[i].burst
        /\ a.tokens + c <= rl[i].tokens + RateLimit[i] * d
    BY <1>1, <1>5, AllowSpends
  <1>7. rl'[i] = a /\ UNCHANGED <<wire, faults>>
    BY Parts DEF RateLimited, Accept, charge, LimiterOK
  <1>8. pc[i] = "scan" /\ pc'[i] = IF Accept(i) THEN "fanout" ELSE "scan"
    <2>1. ProcOK
      BY Parts
    <2>2. pc[i] = "scan"
      BY DEF RateLimited, Accept, Recv, AtReady
    <2>3. Accept(i) => pc'[i] = "fanout"
      BY <2>1 DEF Accept, ProcOK
    <2>4. ~Accept(i) => pc'[i] = "scan"
      BY <2>2 DEF RateLimited
    <2>5. QED
      BY <2>2, <2>3, <2>4
  <1>9. OutputsLeft(i) = 0 /\ OutputsLeft(i)' = IF Accept(i) THEN l ELSE 0
    <2>1. Accept(i) => out'[i] = 1
      BY Parts DEF Accept, ProcOK
    <2>2. QED
      BY <1>1, <1>8, <2>1 DEF OutputsLeft
  <1>10. SentBy(i)' = SentBy(i) /\ SendsOf(i)' = SendsOf(i)
    BY <1>7 DEF SentBy, SendsOf, OnWire, SentAt
  <1>11. TicksPerSec * OutputsLeft(i)' = l * c /\ TicksPerSec * OutputsLeft(i) = 0
    <2>1. TicksPerSec * l = l * TicksPerSec /\ TicksPerSec * 0 = 0 /\ l * 0 = 0
      BY <1>1, Products
    <2>2. QED
      BY <1>9, <2>1
  <1>12. s \in Nat /\ a.tokens \in Nat /\ c \in Nat /\ RateLimit[i] * d \in Nat
    BY <1>1, <1>2, <1>6, StormNumbers, Products DEF RateLimiter
  <1>13. Spent(i) = s + 0 + l * rl[i].tokens /\ Spent(i)' = s + l * c + l * a.tokens
    BY <1>7, <1>10, <1>11 DEF Spent
  <1>14. l * c + l * a.tokens <= l * rl[i].tokens + l * (RateLimit[i] * d)
    <2> DEFINE e == RateLimit[i] * d
               m == rl[i].tokens
               n == a.tokens
    <2>1. n + c <= m + e /\ n \in Nat /\ c \in Nat /\ m \in Nat /\ e \in Nat
      BY <1>1, <1>6, <1>12
    <2> HIDE DEF e, m, n, c, l
    <2>2. n + c \in Nat /\ m + e \in Nat /\ c + n = n + c
      BY <2>1
    <2>3. l * (c + n) <= l * (m + e)
      BY <1>1, <2>1, <2>2, Products
    <2>4. l * (c + n) = l * c + l * n /\ l * (m + e) = l * m + l * e
      BY <1>1, <2>1, Products
    <2>5. QED
      BY <2>3, <2>4 DEF e, m, n
  <1>15. /\ l * c \in Nat /\ l * a.tokens \in Nat /\ l * rl[i].tokens \in Nat
         /\ l * (RateLimit[i] * d) \in Nat
    BY <1>1, <1>12, Products
  <1>16. Spent(i)' \in Nat /\ Spent(i)' <= Spent(i) + l * (RateLimit[i] * d)
    <2> DEFINE v == l * c
               w == l * a.tokens
               x == l * rl[i].tokens
               y == l * (RateLimit[i] * d)
    <2>1. /\ v \in Nat /\ w \in Nat /\ x \in Nat /\ y \in Nat /\ v + w <= x + y
          /\ Spent(i) = s + 0 + x /\ Spent(i)' = s + v + w
      BY <1>13, <1>14, <1>15
    <2> HIDE DEF s, v, w, x, y
    <2>2. Spent(i)' \in Nat /\ Spent(i)' <= Spent(i) + y
      BY <1>12, <2>1
    <2>3. QED
      BY <2>2 DEF y
  <1>17. /\ rl'[i].rate = rl[i].rate /\ rl'[i].burst = rl[i].burst
         /\ rl'[i].last = rl[i].last + d
    BY <1>2, <1>6, <1>7
  <1> HIDE DEF d, l, s, a, c
  <1>18. Spent(i)' <= Spent(i) + Len(Outputs[i]) * (RateLimit[i] * d)
    BY <1>16 DEF l
  <1>19. QED
    BY <1>1, <1>2, <1>7, <1>8, <1>10, <1>16, <1>17, <1>18, StormRunning

\* A step of the instance itself.
LEMMA StormOwn ==
    ASSUME LoopInv, LoopInv', NEW i \in Inst, RelayStep(i) \/ Exit(i) \/ Restart(i),
           StormOK(i)
    PROVE  StormOK(i)'
  <1>1. ProcOK /\ LimiterOK
    BY Parts
  <1>2. ASSUME UNCHANGED wire
        PROVE  SentBy(i)' = SentBy(i)
    BY <1>2 DEF SentBy, OnWire, SentAt
  <1>3. Len(Outputs[i]) \in Nat /\ out[i] \in Nat \ {0} /\ OutputsLeft(i) \in Nat
    BY <1>1, StormNumbers DEF ProcOK
  <1>4. ASSUME pc[i] # "stopped", pc'[i] # "stopped", pc'[i] # "fanout",
               UNCHANGED <<rl, wire, faults>>
        PROVE  StormOK(i)'
    <2>1. OutputsLeft(i)' = 0
      BY <1>4 DEF OutputsLeft
    <2>2. OutputsLeft(i)' <= OutputsLeft(i)
      BY <1>3, <2>1
    <2>3. QED
      BY <1>2, <1>4, <2>2, StormPasses
  <1>5. CASE Select(i) \/ SkipSocket(i) \/ RecvError(i) \/ DropFrame(i) \/ EndScan(i)
             \/ EndFanout(i)
    <2>1. UNCHANGED <<rl, wire, faults>>
      BY <1>5 DEF Select, SkipSocket, RecvError, DropFrame, EndScan, EndFanout,
                  histories
    <2>2. pc[i] # "stopped" /\ pc'[i] \in {"select", "scan"}
      BY <1>1, <1>5 DEF Select, SkipSocket, RecvError, DropFrame, EndScan, EndFanout,
                        Recv, AtReady, ProcOK
    <2>3. QED
      BY <1>4, <2>1, <2>2
  <1>6. CASE SkipOutput(i) \/ SendError(i)
    <2>1. /\ pc[i] = "fanout" /\ UNCHANGED <<pc, rl, wire, faults>>
          /\ out'[i] = out[i] + 1
      BY <1>1, <1>6 DEF SkipOutput, SendError, AtOutput, NextOutput, histories, ProcOK
    <2>2. OutputsLeft(i)' <= OutputsLeft(i)
      BY <1>3, <2>1 DEF OutputsLeft
    <2>3. QED
      BY <1>2, <2>1, <2>2, StormPasses
  <1>7. CASE Send(i)
    BY <1>7, StormSend
  <1>8. CASE RateLimited(i)
    BY <1>8, StormAllow DEF RateLimited
  <1>9. CASE Accept(i)
    <2>1. CASE RateLimit[i] > 0
      BY <1>9, <2>1, StormAllow
    <2>2. CASE ~(RateLimit[i] > 0)
      <3>1. rl'[i] = rl[i] /\ UNCHANGED wire
        BY <1>1, <1>9, <2>2 DEF Accept, charge, LimiterOK
      <3>2. QED
        BY <1>2, <2>2, <3>1 DEF StormOK
    <2>3. QED
      BY <2>1, <2>2
  <1>10. CASE SelectTimeout(i)
    <2>1. /\ UNCHANGED <<pc, out, rl, wire, faults>>
          /\ pc[i] # "stopped" /\ pc'[i] \notin {"stopped", "fanout"}
      BY <1>10 DEF SelectTimeout, vars, procVars, histories
    <2>2. QED
      BY <1>4, <2>1
  <1>11. QED
    BY <1>5, <1>6, <1>7, <1>8, <1>9, <1>10, StormExit, StormRestart DEF RelayStep

\* A step of another instance.
LEMMA StormOther ==
    ASSUME LoopInv, NEW i \in Inst, RelayStep(i) \/ Exit(i) \/ Restart(i),
           NEW j \in Inst, j # i, StormOK(j)
    PROVE  StormOK(j)'
  <1>1. pc'[j] = pc[j] /\ out'[j] = out[j] /\ rl'[j] = rl[j]
    BY OthersUntouched
  <1>2. /\ UNCHANGED now /\ faults' \in {faults, faults + 1}
        /\ Send(i) \/ UNCHANGED wire
    BY DEF RelayStep, Select, SelectTimeout, vars, histories, SkipSocket, RecvError,
           DropFrame, RateLimited, Accept, EndScan, SkipOutput, Send, SendError,
           EndFanout, Exit, Restart
  <1>3. SentBy(j)' = SentBy(j)
    <2>1. CASE Send(i)
      BY <2>1, SendAdds
    <2>2. CASE UNCHANGED wire
      BY <2>2 DEF SentBy, OnWire, SentAt
    <2>3. QED
      BY <1>2, <2>1, <2>2
  <1>4. faults' \in Nat /\ faults <= faults' /\ now' \in Nat /\ now <= now'
    BY <1>2, StormNumbers
  <1>5. QED
    BY <1>1, <1>3, <1>4, StormStill

\* Hosts and links do not use the instance's allowance, and time adds to it.
LEMMA StormEnvironment ==
    ASSUME LoopInv, NEW j \in Inst, StormOK(j),
           \/ \E g \in Segment, p \in Frames : HostSend(g, p)
           \/ \E f \in Iface : LinkDown(f) \/ LinkUp(f)
           \/ Tick \/ UNCHANGED vars
    PROVE  StormOK(j)'
  <1>1. /\ UNCHANGED <<pc, out, rl, wire>> /\ now' \in {now, now + 1}
        /\ faults' \in {faults, faults + 1}
    BY DEF HostSend, LinkDown, LinkUp, Tick, vars, procVars, histories
  <1>2. SentBy(j)' = SentBy(j)
    BY <1>1 DEF SentBy, OnWire, SentAt
  <1>3. faults' \in Nat /\ faults <= faults' /\ now' \in Nat /\ now <= now'
    BY <1>1, StormNumbers
  <1>4. QED
    BY <1>1, <1>2, <1>3, StormStill

\* StormInv holds initially, every bucket being full, and is inductive.
LEMMA InitStormInv == Init => StormInv
  <1> SUFFICES ASSUME Init PROVE StormInv
    OBVIOUS
  <1>1. LoopInv
    BY InitLoopInv
  <1>2. ASSUME NEW i \in Inst
        PROVE  StormOK(i)
    <2> DEFINE l == Len(Outputs[i])
               b == rl[i].burst
    <2>1. /\ pc[i] = "select" /\ rl[i] = limiter(i, 0) /\ faults = 0 /\ 0 \in Nat
          /\ \A g \in Segment : wire[g] = <<>>
      BY DEF Init
    <2>2. /\ rl[i].rate = RateLimit[i] /\ rl[i].burst = limiter(i, 0).burst
          /\ rl[i].tokens = b /\ rl[i].last = 0
      BY <2>1, LimiterStart
    <2>3. SentBy(i) = {}
      BY <2>1 DEF SentBy, OnWire
    <2>4. IsFiniteSet(SentBy(i)) /\ SendsOf(i) = 0 /\ OutputsLeft(i) = 0
      BY <2>1, <2>3, FS_EmptySet DEF SendsOf, OutputsLeft
    <2>5. WithinAllowance(i)
            <=> TicksPerSec * 0 + TicksPerSec * 0 + l * b
                  <= l * ((1 + 0) * b + RateLimit[i] * 0)
      BY <2>1, <2>2, <2>4 DEF WithinAllowance, Allowance
    <2>6. /\ l \in Nat /\ b \in Nat /\ RateLimit[i] \in Nat /\ TicksPerSec \in Nat
      BY <1>1, StormNumbers
    <2> HIDE DEF l, b
    <2>7. /\ TicksPerSec * 0 = 0 /\ RateLimit[i] * 0 = 0 /\ (1 + 0) * b = b
          /\ b + 0 = b /\ l * b \in Nat
      BY <2>6, Products
    <2>8. WithinAllowance(i)
      BY <2>5, <2>6, <2>7
    <2>9. QED
      BY <2>2, <2>4, <2>8 DEF StormOK
  <1>3. QED
    BY <1>1, <1>2 DEF StormInv, StormOK

LEMMA NextStormInv == StormInv /\ [Next]_vars => StormInv'
  <1> SUFFICES ASSUME StormInv, [Next]_vars PROVE StormInv'
    OBVIOUS
  <1>1. LoopInv /\ \A j \in Inst : StormOK(j)
    BY DEF StormInv, StormOK
  <1>2. LoopInv'
    BY <1>1, NextLoopInv
  <1>3. ASSUME NEW j \in Inst
        PROVE  StormOK(j)'
    <2>1. CASE \E i \in Inst : RelayStep(i) \/ Exit(i) \/ Restart(i)
      BY <1>1, <1>2, <2>1, StormOwn, StormOther
    <2>2. CASE ~ \E i \in Inst : RelayStep(i) \/ Exit(i) \/ Restart(i)
      BY <1>1, <2>2, StormEnvironment DEF Next
    <2>3. QED
      BY <2>1, <2>2
  <1>4. QED
    BY <1>2, <1>3 DEF StormInv, StormOK

\* At every step what an instance has sent, may still send for the frame in
\* hand and has tokens for is what its buckets and the clock have allowed.
THEOREM StormInvTheorem == Spec => []StormInv
  BY InitStormInv, NextStormInv, PTL DEF Spec

\* With --rate-limit, whatever arrives and however the outputs fail, the frames
\* an instance puts on all segments together stay within the burst and the rate
\* over time for each output, plus one burst for every fault that may have
\* restarted it: allow() is asked once per accepted frame, and its fan-out
\* calls sendto at most once per output.
THEOREM StormCapTheorem == Spec => []StormCap
  <1>1. StormInv => StormCap
    <2> SUFFICES ASSUME StormInv, NEW i \in Inst, RateLimit[i] > 0
                 PROVE  TicksPerSec * SendsOf(i) <=
                          Len(Outputs[i]) * ((1 + faults) * rl[i].burst
                                             + RateLimit[i] * now)
      BY DEF StormCap
    <2> DEFINE l == Len(Outputs[i])
               b == rl[i].burst
               r == RateLimit[i]
               t == rl[i].last
               n == 1 + faults
               s == TicksPerSec * SendsOf(i)
               p == TicksPerSec * OutputsLeft(i)
               k == l * rl[i].tokens
               x == l * (faults * b + r * now)
               y == l * (n * b + r * t)
               z == l * (n * b + r * now)
    <2>1. LoopInv /\ IsFiniteSet(SentBy(i)) /\ WithinAllowance(i)
      BY DEF StormInv
    <2>2. /\ l \in Nat /\ b \in Nat /\ r \in Nat /\ t \in Nat /\ now \in Nat /\ t <= now
          /\ faults \in Nat /\ n \in Nat /\ faults <= n
      BY <2>1, StormNumbers
    <2>3. s \in Nat /\ p \in Nat /\ k \in Nat
      BY <2>1, StormNumbers, Products
    <2>4. s <= x \/ s + p + k <= y
      BY <2>1 DEF WithinAllowance, Allowance
    <2> HIDE DEF l, b, r, t, n, s, p, k
    <2>5. x \in Nat /\ y \in Nat /\ z \in Nat /\ x <= z /\ y <= z
      BY <2>2, AllowanceFacts
    <2> HIDE DEF x, y, z
    <2>6. s <= z
      BY <2>3, <2>4, <2>5
    <2>7. QED
      BY <2>6 DEF s, z, l, n, b, r
  <1>2. QED
    BY <1>1, StormInvTheorem, PTL

-----------------------------------------------------------------------------
(* Order *)

\* The fresh frames in the queue of s are those that were there before, moved
\* up by d places.
MovedUp(s, d) ==
    \A k \in FreshIn(s)' : k + d \in FreshIn(s) /\ queue'[s][k] = queue[s][k + d]

\* Taking the first frame off a queue moves the others up.
LEMMA TailMovesUp ==
    ASSUME NetOK, NEW s \in InSock, queue[s] # <<>>, queue'[s] = Tail(queue[s])
    PROVE  MovedUp(s, 1)
  <1> SUFFICES ASSUME NEW k \in DOMAIN queue'[s], queue'[s][k].hops = 0
               PROVE  k + 1 \in FreshIn(s) /\ queue'[s][k] = queue[s][k + 1]
    BY DEF MovedUp, FreshIn
  <1> DEFINE q == queue[s]
  <1>1. q \in Seq(MarkedEntry) /\ q # <<>> /\ k \in DOMAIN Tail(q)
    BY DEF NetOK
  <1> HIDE DEF q
  <1>2. Len(Tail(q)) = Len(q) - 1 /\ k \in 1..(Len(q) - 1)
    BY <1>1
  <1>3. k + 1 \in DOMAIN q /\ Tail(q)[k] = q[k + 1]
    BY <1>1, <1>2
  <1>4. QED
    BY <1>3 DEF q, FreshIn

\* A queue that is left alone, or gets a relayed frame, keeps its fresh ones
\* where they are.
LEMMA StaysInPlace ==
    ASSUME NetOK, NEW s \in InSock, NEW e \in MarkedEntry, e.hops = 1,
           queue'[s] \in {queue[s], Append(queue[s], e)}
    PROVE  MovedUp(s, 0)
  <1> SUFFICES ASSUME NEW k \in DOMAIN queue'[s], queue'[s][k].hops = 0
               PROVE  k + 0 \in FreshIn(s) /\ queue'[s][k] = queue[s][k + 0]
    BY DEF MovedUp, FreshIn
  <1> DEFINE q == queue[s]
  <1>1. q \in Seq(MarkedEntry)
    BY DEF NetOK
  <1>2. queue'[s] \in {q, Append(q, e)}
    OBVIOUS
  <1> HIDE DEF q
  <1>3. k \in DOMAIN q /\ queue'[s][k] = q[k] /\ k + 0 = k
    BY <1>1, <1>2
  <1>4. QED
    BY <1>3 DEF q, FreshIn

LEMMA SameInPlace ==
    ASSUME NetOK, NEW s \in InSock, queue'[s] = queue[s]
    PROVE  MovedUp(s, 0)
  <1>1. queue[s] \in Seq(MarkedEntry)
    BY DEF NetOK
  <1>2. \A k \in FreshIn(s) : k + 0 = k
    BY <1>1 DEF FreshIn
  <1>3. FreshIn(s)' = FreshIn(s)
    BY DEF FreshIn
  <1>4. QED
    BY <1>2, <1>3 DEF MovedUp

\* Reading the current socket moves its frames up and leaves the others alone.
LEMMA RecvMoves ==
    ASSUME ProcOK, NetOK, NEW i \in Inst, Recv(i), NEW s \in InSock
    PROVE  MovedUp(s, IF s = <<i, cur[i]>> THEN 1 ELSE 0)
  <1> DEFINE c == <<i, cur[i]>>
  <1>1. c \in InSock /\ queue[c] # <<>> /\ queue' = [queue EXCEPT ![c] = Tail(queue[c])]
    BY CurrentSocket DEF Recv
  <1> HIDE DEF c
  <1>2. CASE s = c
    <2>1. queue'[s] = Tail(queue[s])
      BY <1>1, <1>2 DEF NetOK
    <2>2. MovedUp(s, 1)
      BY <1>1, <1>2, <2>1, TailMovesUp
    <2>3. QED
      BY <1>2, <2>2 DEF c
  <1>3. CASE s # c
    <2>1. queue'[s] = queue[s]
      BY <1>1, <1>3 DEF NetOK
    <2>2. MovedUp(s, 0)
      BY <2>1, SameInPlace
    <2>3. QED
      BY <1>3, <2>2 DEF c
  <1>4. QED
    BY <1>2, <1>3

\* No step of an instance puts a fresh frame into a queue or changes the order
\* of those that are there.
LEMMA StepMoves ==
    ASSUME LoopInv, NEW i \in Inst, RelayStep(i) \/ Exit(i) \/ Restart(i),
           NEW s \in InSock
    PROVE  \E d \in {0, 1} : MovedUp(s, d)
  <1>1. ProcOK /\ NetOK
    BY Parts
  <1>2. CASE Recv(i)
    BY <1>1, <1>2, RecvMoves
  <1>3. CASE Send(i)
    <2>1. PICK e \in MarkedEntry : queue' = Deliver(SegmentOf[egress(i)], e) /\ e.hops = 1
      BY <1>3, SendDelivers
    <2>2. queue'[s] \in {queue[s], Append(queue[s], e)}
      BY <2>1 DEF Deliver
    <2>3. QED
      BY <1>1, <2>1, <2>2, StaysInPlace
  <1>4. CASE queue'[s] = queue[s]
    BY <1>1, <1>4, SameInPlace
  <1>5. CASE queue'[s] = <<>>
    <2>1. DOMAIN queue'[s] = {}
      BY <1>5
    <2>2. FreshIn(s)' = {}
      BY <2>1 DEF FreshIn
    <2>3. QED
      BY <2>2 DEF MovedUp
  <1>6. QED
    BY <1>2, <1>3, <1>4, <1>5
       DEF RelayStep, Select, SelectTimeout, vars, SkipSocket, RecvError, DropFrame,
           RateLimited, Accept, EndScan, SkipOutput, SendError, EndFanout, Exit, Restart

\* A host's frame goes behind the fresh ones and has a higher number.
LEMMA HostSendMoves ==
    ASSUME LoopInv, NEW g \in Segment, NEW p \in Frames, HostSend(g, p),
           NEW s \in InSock, NEW k \in FreshIn(s)'
    PROVE  \/ k \in FreshIn(s) /\ queue'[s][k] = queue[s][k]
           \/ /\ queue'[s][k].orig = Len(originals) + 1
              /\ k = Len(queue[s]) + 1
  <1> DEFINE e == [pkt |-> p, orig |-> Len(originals) + 1, hops |-> 0]
             q == queue[s]
  <1>1. NetOK
    BY Parts
  <1>2. queue' = Deliver(g, e)
    BY DEF HostSend
  <1>3. q \in Seq(MarkedEntry)
    BY <1>1 DEF NetOK
  <1>4. queue'[s] \in {q, Append(q, e)}
    BY <1>2 DEF Deliver
  <1>5. e.orig = Len(originals) + 1
    OBVIOUS
  <1>6. k \in DOMAIN queue'[s] /\ queue'[s][k].hops = 0
    BY DEF FreshIn
  <1> HIDE DEF e, q
  <1>7. \/ k \in DOMAIN q /\ queue'[s][k] = q[k]
        \/ k = Len(q) + 1 /\ queue'[s][k] = e
    BY <1>3, <1>4, <1>6
  <1>8. QED
    BY <1>5, <1>6, <1>7 DEF q, FreshIn

\* The numbers of the fresh frames in the queues, of a frame being fanned out
\* and of what has been sent are numbers of host frames.
LEMMA OrigTypes ==
    ASSUME OriginInv
    PROVE  /\ \A s \in InSock : \A k \in FreshIn(s) :
                 k \in Nat /\ k <= Len(queue[s]) /\ Len(queue[s]) \in Nat
                 /\ queue[s][k].orig \in 1..Len(originals)
           /\ \A i \in Inst : pc[i] = "fanout" => Head(buf[i]).orig \in 1..Len(originals)
           /\ \A g \in Segment : \A k \in DOMAIN wire[g] :
                 wire[g][k].orig \in 1..Len(originals)
           /\ Len(originals) \in Nat
  <1>1. NetOK /\ HistoryOK /\ QueueOrigin /\ FanoutOrigin /\ WireOrigin
    BY Parts DEF OriginInv
  <1>2. Len(originals) \in Nat /\ DOMAIN originals = 1..Len(originals)
    BY <1>1 DEF HistoryOK
  <1>3. ASSUME NEW s \in InSock, NEW k \in FreshIn(s)
        PROVE  k \in Nat /\ k <= Len(queue[s]) /\ Len(queue[s]) \in Nat
               /\ queue[s][k].orig \in 1..Len(originals)
    <2>1. queue[s] \in Seq(MarkedEntry) /\ k \in DOMAIN queue[s]
      BY <1>1 DEF NetOK, FreshIn
    <2>2. queue[s][k].orig \in DOMAIN originals
      BY <1>1 DEF QueueOrigin, FromHost, FreshIn
    <2>3. QED
      BY <1>2, <2>1, <2>2
  <1>4. \A i \in Inst : pc[i] = "fanout" => Head(buf[i]).orig \in 1..Len(originals)
    BY <1>1, <1>2 DEF FanoutOrigin, FanoutFromHost, FromHost
  <1>5. \A g \in Segment : \A k \in DOMAIN wire[g] : wire[g][k].orig \in 1..Len(originals)
    BY <1>1, <1>2 DEF WireOrigin, IsCopy
  <1>6. QED
    BY <1>2, <1>3, <1>4, <1>5

\* Where a frame being fanned out comes from: it was being fanned out before,
\* or it has just been taken off the current socket.
LEMMA FanoutCases ==
    ASSUME LoopInv, NEW i \in Inst, RelayStep(i) \/ Exit(i) \/ Restart(i),
           NEW j \in Inst, pc'[j] = "fanout"
    PROVE  \/ /\ pc[j] = "fanout" /\ buf'[j] = buf[j] /\ cur'[j] = cur[j]
              /\ out'[j] \in {out[j], out[j] + 1}
           \/ j = i /\ Accept(i)
  <1>1. CASE j # i
    BY <1>1, OthersUntouched
  <1>2. CASE j = i
    <2>1. ProcOK
      BY Parts
    <2>2. CASE SkipOutput(i) \/ Send(i) \/ SendError(i)
      BY <1>2, <2>1, <2>2 DEF SkipOutput, Send, SendError, NextOutput, ProcOK
    <2>3. CASE Accept(i)
      BY <1>2, <2>3
    <2>4. CASE \/ Select(i) \/ EndScan(i) \/ EndFanout(i) \/ Exit(i) \/ Restart(i)
               \/ SelectTimeout(i) \/ SkipSocket(i) \/ RecvError(i) \/ DropFrame(i)
               \/ RateLimited(i)
      <3>1. pc'[i] # "fanout"
        BY <2>1, <2>4
           DEF Select, EndScan, EndFanout, Exit, Restart, SelectTimeout, vars, procVars,
               SkipSocket, RecvError, DropFrame, RateLimited, Recv, AtReady, ProcOK
      <3>2. QED
        BY <1>2, <3>1
    <2>5. QED
      BY <2>2, <2>3, <2>4 DEF RelayStep
  <1>3. QED
    BY <1>1, <1>2

\* Accepting a frame takes the first fresh one of the current socket.
LEMMA AcceptTakesFirst ==
    ASSUME LoopInv, NEW i \in Inst, Accept(i)
    PROVE  \E s \in InSock :
              /\ s = <<i, cur[i]>> /\ 1 \in FreshIn(s) /\ MovedUp(s, 1)
              /\ Head(buf'[i]).orig = queue[s][1].orig
              /\ cur'[i] = cur[i]
  <1> DEFINE e == Received(i)
             f == [pkt |-> e.pkt, orig |-> e.orig, hops |-> e.hops,
                   nat_rule |-> get_nat_rule(Rules[i], PacketInfo(e.pkt))]
  <1>1. ProcOK /\ NetOK
    BY Parts
  <1>2. PICK s \in InSock : s = <<i, cur[i]>>
    BY <1>1, CurrentSocket DEF Accept, Recv
  <1>3. queue[s] # <<>> /\ queue[s] \in Seq(MarkedEntry)
    BY <1>1, <1>2 DEF Accept, Recv, NetOK
  <1>4. MovedUp(s, 1)
    BY <1>1, <1>2, RecvMoves DEF Accept
  <1>5. e = queue[s][1] /\ 1 \in DOMAIN queue[s] /\ e \in MarkedEntry
    BY <1>2, <1>3 DEF Received
  <1>6. e.hops = 0
    BY <1>5 DEF Accept, Passes, MarkedEntry
  <1>7. buf' = [buf EXCEPT ![i] = <<f>>] /\ cur' = cur
    BY DEF Accept
  <1>8. f.orig = e.orig
    OBVIOUS
  <1> HIDE DEF f, e
  <1>9. Head(buf'[i]) = f
    BY <1>1, <1>7 DEF ProcOK
  <1>10. QED
    BY <1>2, <1>4, <1>5, <1>6, <1>7, <1>8, <1>9 DEF FreshIn

\* The queues and the fan-out stay in order when an instance takes a step ...
LEMMA OrderStep ==
    ASSUME OriginInv, QueueOrder, FanoutOrder, NEW i \in Inst,
           RelayStep(i) \/ Exit(i) \/ Restart(i)
    PROVE  (QueueOrder /\ FanoutOrder)'
  <1>1. LoopInv /\ ProcOK
    BY Parts DEF OriginInv
  <1>2. ASSUME NEW s \in InSock
        PROVE  \E d \in {0, 1} : MovedUp(s, d)
    BY <1>1, StepMoves
  <1>3. ASSUME NEW s \in InSock, NEW j \in FreshIn(s)', NEW k \in FreshIn(s)', j < k
        PROVE  queue'[s][j].orig < queue'[s][k].orig
    <2>1. PICK d \in {0, 1} : MovedUp(s, d)
      BY <1>2
    <2>2. /\ j + d \in FreshIn(s) /\ queue'[s][j] = queue[s][j + d]
          /\ k + d \in FreshIn(s) /\ queue'[s][k] = queue[s][k + d]
      BY <2>1 DEF MovedUp
    <2>3. j \in Nat /\ k \in Nat
      <3>1. NetOK'
        <4>1. LoopInv'
          BY <1>1, NextLoopInv DEF Next
        <4>2. QED
          BY <4>1, Parts, PTL
      <3>2. queue'[s] \in Seq(MarkedEntry)
        BY <3>1 DEF NetOK
      <3>3. QED
        BY <3>2 DEF FreshIn
    <2>4. j + d < k + d
      BY <1>3, <2>3
    <2>5. QED
      BY <2>2, <2>4 DEF QueueOrder
  <1>4. ASSUME NEW j \in Inst, pc'[j] = "fanout", NEW k \in FreshIn(<<j, cur[j]>>)'
        PROVE  Head(buf'[j]).orig < queue'[<<j, cur'[j]>>][k].orig
    <2>1. CASE pc[j] = "fanout" /\ buf'[j] = buf[j] /\ cur'[j] = cur[j]
      <3>1. PICK s \in InSock : s = <<j, cur[j]>>
        <4>1. cur[j] \in 1..Len(Inputs[j])
          BY <1>1, <2>1 DEF ProcOK
        <4>2. QED
          BY <4>1, SocketIn
      <3>2. PICK d \in {0, 1} : MovedUp(s, d)
        BY <1>2
      <3>3. k \in FreshIn(s)'
        BY <1>4, <2>1, <3>1 DEF FreshIn
      <3>4. k + d \in FreshIn(s) /\ queue'[s][k] = queue[s][k + d]
        BY <3>2, <3>3 DEF MovedUp
      <3>5. Head(buf[j]).orig < queue[s][k + d].orig
        BY <2>1, <3>1, <3>4 DEF FanoutOrder
      <3>6. QED
        BY <2>1, <3>1, <3>4, <3>5
    <2>2. CASE j = i /\ Accept(i)
      <3>1. PICK s \in InSock :
                /\ s = <<i, cur[i]>> /\ 1 \in FreshIn(s) /\ MovedUp(s, 1)
                /\ Head(buf'[i]).orig = queue[s][1].orig /\ cur'[i] = cur[i]
        BY <1>1, <2>2, AcceptTakesFirst
      <3>2. k \in FreshIn(s)'
        BY <1>4, <2>2, <3>1 DEF FreshIn
      <3>3. k + 1 \in FreshIn(s) /\ queue'[s][k] = queue[s][k + 1]
        BY <3>1, <3>2 DEF MovedUp
      <3>4. 1 < k + 1
        <4>1. Recv(i) /\ NetOK
          BY <1>1, <2>2, Parts DEF Accept
        <4>2. queue'[s] \in Seq(MarkedEntry)
          BY <1>1, <4>1, ReceivedType
        <4>3. k \in DOMAIN queue'[s]
          BY <3>2 DEF FreshIn
        <4>4. k \in 1..Len(queue'[s])
          BY <4>2, <4>3
        <4>5. QED
          BY <4>4
      <3>5. queue[s][1].orig < queue[s][k + 1].orig
        BY <3>1, <3>3, <3>4 DEF QueueOrder
      <3>6. QED
        BY <2>2, <3>1, <3>3, <3>5
    <2>3. QED
      BY <1>1, <1>4, <2>1, <2>2, FanoutCases
  <1>5. QueueOrder'
    BY <1>3 DEF QueueOrder
  <1>6. FanoutOrder'
    BY <1>4 DEF FanoutOrder
  <1>7. QED
    BY <1>5, <1>6

\* ... and when a host sends a frame, which gets the next number.
LEMMA HostSendOrder ==
    ASSUME OriginInv, QueueOrder, FanoutOrder, NEW g \in Segment, NEW p \in Frames,
           HostSend(g, p)
    PROVE  (QueueOrder /\ FanoutOrder)'
  <1>1. LoopInv /\ ProcOK /\ NetOK
    BY Parts DEF OriginInv
  <1>2. UNCHANGED <<pc, cur, buf>>
    BY DEF HostSend, procVars
  <1>3. ASSUME NEW s \in InSock, NEW j \in FreshIn(s)', NEW k \in FreshIn(s)', j < k
        PROVE  queue'[s][j].orig < queue'[s][k].orig
    <2>1. /\ \/ j \in FreshIn(s) /\ queue'[s][j] = queue[s][j]
             \/ queue'[s][j].orig = Len(originals) + 1 /\ j = Len(queue[s]) + 1
          /\ \/ k \in FreshIn(s) /\ queue'[s][k] = queue[s][k]
             \/ queue'[s][k].orig = Len(originals) + 1 /\ k = Len(queue[s]) + 1
      BY <1>1, HostSendMoves
    <2>2. Len(queue[s]) \in Nat /\ Len(originals) \in Nat
      BY <1>1, OrigTypes DEF NetOK
    <2>3. CASE j \in FreshIn(s) /\ k \in FreshIn(s) /\ queue'[s][j] = queue[s][j]
               /\ queue'[s][k] = queue[s][k]
      BY <1>3, <2>3 DEF QueueOrder
    <2>4. CASE j \in FreshIn(s) /\ queue'[s][j] = queue[s][j]
               /\ queue'[s][k].orig = Len(originals) + 1
      <3>1. queue[s][j].orig \in 1..Len(originals)
        BY <2>4, OrigTypes
      <3>2. QED
        BY <2>2, <2>4, <3>1
    <2>5. CASE j = Len(queue[s]) + 1
      <3>1. k = Len(queue[s]) + 1 \/ (k \in Nat /\ k <= Len(queue[s]))
        BY <2>1, OrigTypes
      <3>2. QED
        BY <1>3, <2>2, <2>5, <3>1
    <2>6. QED
      BY <2>1, <2>3, <2>4, <2>5
  <1>4. ASSUME NEW j \in Inst, pc'[j] = "fanout", NEW k \in FreshIn(<<j, cur[j]>>)'
        PROVE  Head(buf'[j]).orig < queue'[<<j, cur'[j]>>][k].orig
    <2>1. pc[j] = "fanout"
      BY <1>2, <1>4
    <2>2. PICK s \in InSock : s = <<j, cur[j]>>
      <3>1. cur[j] \in 1..Len(Inputs[j])
        BY <1>1, <2>1 DEF ProcOK
      <3>2. QED
        BY <3>1, SocketIn
    <2>3. k \in FreshIn(s)'
      BY <1>2, <1>4, <2>2 DEF FreshIn
    <2>4. \/ k \in FreshIn(s) /\ queue'[s][k] = queue[s][k]
          \/ queue'[s][k].orig = Len(originals) + 1
      BY <1>1, <2>3, HostSendMoves
    <2>5. Head(buf[j]).orig \in 1..Len(originals) /\ Len(originals) \in Nat
      BY <2>1, OrigTypes
    <2>6. Head(buf[j]).orig < queue'[s][k].orig
      BY <2>1, <2>2, <2>4, <2>5 DEF FanoutOrder
    <2>7. QED
      BY <1>2, <2>2, <2>6
  <1>5. QueueOrder'
    BY <1>3 DEF QueueOrder
  <1>6. FanoutOrder'
    BY <1>4 DEF FanoutOrder
  <1>7. QED
    BY <1>5, <1>6

\* What was sent in turn stays behind the frames that wait and are fanned out
\* when an instance takes a step ...
LEMMA InTurnStep ==
    ASSUME OriginInv, NEW i \in Inst, RelayStep(i) \/ Exit(i) \/ Restart(i),
           NEW w \in Sent, InTurn(w)
    PROVE  InTurn(w)'
  <1>1. LoopInv /\ ProcOK
    BY Parts DEF OriginInv
  <1>2. ASSUME NEW s \in InSock, ReadFrom(w, s), NEW k \in FreshIn(s)'
        PROVE  w.orig < queue'[s][k].orig
    <2>1. PICK d \in {0, 1} : MovedUp(s, d)
      BY <1>1, StepMoves
    <2>2. k + d \in FreshIn(s) /\ queue'[s][k] = queue[s][k + d]
      BY <2>1 DEF MovedUp
    <2>3. QED
      BY <1>2, <2>2 DEF InTurn
  <1>3. ASSUME NEW j \in Inst, pc'[j] = "fanout", ReadFrom(w, <<j, cur'[j]>>)
        PROVE  /\ w.orig <= Head(buf'[j]).orig
               /\ w.orig = Head(buf'[j]).orig =>
                     \E l \in 1..(out'[j] - 1) : w.egress = Outputs[j][l]
    <2>1. CASE /\ pc[j] = "fanout" /\ buf'[j] = buf[j] /\ cur'[j] = cur[j]
               /\ out'[j] \in {out[j], out[j] + 1}
      <3>1. /\ w.orig <= Head(buf[j]).orig
            /\ w.orig = Head(buf[j]).orig =>
                  \E l \in 1..(out[j] - 1) : w.egress = Outputs[j][l]
        BY <1>3, <2>1 DEF InTurn
      <3>2. 1..(out[j] - 1) \subseteq 1..(out'[j] - 1)
        <4>1. out[j] \in Nat
          BY <1>1 DEF ProcOK
        <4>2. QED
          BY <2>1, <4>1
      <3>3. QED
        BY <2>1, <3>1, <3>2
    <2>2. CASE j = i /\ Accept(i)
      <3>1. PICK s \in InSock :
                /\ s = <<i, cur[i]>> /\ 1 \in FreshIn(s)
                /\ Head(buf'[i]).orig = queue[s][1].orig /\ cur'[i] = cur[i]
        BY <1>1, <2>2, AcceptTakesFirst
      <3>2. w.orig < queue[s][1].orig
        BY <1>3, <2>2, <3>1 DEF InTurn
      <3>3. w.orig \in Nat /\ queue[s][1].orig \in Nat
        BY <3>1, OrigTypes DEF Sent
      <3>4. QED
        BY <2>2, <3>1, <3>2, <3>3
    <2>3. QED
      BY <1>1, <1>3, <2>1, <2>2, FanoutCases
  <1>4. QED
    BY <1>2, <1>3 DEF InTurn, ReadFrom, IfOf

\* ... and when a host sends a frame.
LEMMA InTurnHostSend ==
    ASSUME OriginInv, NEW g \in Segment, NEW p \in Frames, HostSend(g, p),
           NEW w \in Sent, w.orig \in 1..Len(originals), InTurn(w)
    PROVE  InTurn(w)'
  <1>1. LoopInv
    BY DEF OriginInv
  <1>2. UNCHANGED <<pc, cur, buf, out>>
    BY DEF HostSend, procVars
  <1>3. ASSUME NEW s \in InSock, ReadFrom(w, s), NEW k \in FreshIn(s)'
        PROVE  w.orig < queue'[s][k].orig
    <2>1. \/ k \in FreshIn(s) /\ queue'[s][k] = queue[s][k]
          \/ queue'[s][k].orig = Len(originals) + 1
      BY <1>1, HostSendMoves
    <2>2. Len(originals) \in Nat
      BY OrigTypes
    <2>3. QED
      BY <1>3, <2>1, <2>2 DEF InTurn
  <1>4. QED
    BY <1>2, <1>3 DEF InTurn, ReadFrom, IfOf

\* Steps that leave the wire alone keep it in turn and in order.
LEMMA WireStill ==
    ASSUME OriginInv, WirePlaced, WireInTurn, WireOrder, UNCHANGED wire, Kept,
           \A w \in Sent : (w.orig \in 1..Len(originals) /\ InTurn(w)) => InTurn(w)'
    PROVE  (WirePlaced /\ WireInTurn /\ WireOrder)'
  <1>1. HistoryOK
    BY Parts DEF OriginInv
  <1>2. ASSUME NEW g \in Segment, NEW k \in DOMAIN wire[g]
        PROVE  /\ wire[g][k] \in Sent /\ wire[g][k].orig \in 1..Len(originals)
               /\ wire[g][k].orig \in DOMAIN originals
    <2>1. wire[g] \in Seq(SentOnce) /\ originals \in Seq([seg: Segment, pkt: Packet])
      BY <1>1 DEF HistoryOK
    <2>2. wire[g][k].orig \in 1..Len(originals)
      BY OrigTypes
    <2>3. QED
      BY <2>1, <2>2 DEF SentOnce
  <1>3. WirePlaced'
    <2> SUFFICES ASSUME NEW g \in Segment, NEW k \in DOMAIN wire[g], NEW w,
                        w = wire[g][k]
                 PROVE  Placed(g, w)'
      BY DEF WirePlaced, Placed
    <2>1. Placed(g, w) /\ w.orig \in DOMAIN originals
      BY <1>2 DEF WirePlaced
    <2>2. originals'[w.orig] = originals[w.orig]
      BY <2>1 DEF Kept
    <2>3. QED
      BY <2>1, <2>2 DEF Placed
  <1>4. WireInTurn'
    <2> SUFFICES ASSUME NEW g \in Segment, NEW k \in DOMAIN wire[g], NEW w,
                        w = wire[g][k], DistinctSegments(w.inst)
                 PROVE  InTurn(w)'
      BY DEF WireInTurn, InTurn, ReadFrom, DistinctSegments
    <2>1. InTurn(w)
      BY DEF WireInTurn
    <2>2. QED
      BY <1>2, <2>1
  <1>5. WireOrder'
    BY DEF WireOrder, DistinctSegments
  <1>6. QED
    BY <1>3, <1>4, <1>5

\* The places of a frame an instance sends.
LEMMA SendPlaced ==
    ASSUME OriginInv, NEW i \in Inst, Send(i)
    PROVE  /\ cur[i] \in DOMAIN Inputs[i] /\ ingress(i) = Inputs[i][cur[i]]
           /\ out[i] \in DOMAIN Outputs[i] /\ egress(i) = Outputs[i][out[i]]
           /\ originals[Head(buf[i]).orig].seg = SegmentOf[ingress(i)]
  <1>1. ProcOK /\ FanoutOrigin
    BY Parts DEF OriginInv
  <1>2. pc[i] = "fanout" /\ out[i] <= Len(Outputs[i])
    BY DEF Send, AtOutput
  <1>3. cur[i] \in 1..Len(Inputs[i]) /\ out[i] \in 1..Len(Outputs[i])
    BY <1>1, <1>2 DEF ProcOK
  <1>4. cur[i] \in DOMAIN Inputs[i] /\ out[i] \in DOMAIN Outputs[i]
    <2>1. Inputs[i] \in Seq(Iface) /\ Outputs[i] \in Seq(Iface)
      BY RelayAssumption
    <2>2. QED
      BY <1>3, <2>1
  <1>5. originals[Head(buf[i]).orig].seg = SegmentOf[ingress(i)]
    <2>1. FromHost(Head(buf[i]), SegmentOf[ingress(i)])
      BY <1>1, <1>2 DEF FanoutOrigin, FanoutFromHost
    <2>2. originals[Head(buf[i]).orig]
            = [seg |-> SegmentOf[ingress(i)], pkt |-> Head(buf[i]).pkt]
      BY <2>1 DEF FromHost
    <2>3. QED
      BY <2>2
  <1>6. QED
    BY <1>4, <1>5 DEF ingress, egress, IfOf

\* A frame is sent before those that wait on its socket are read.
LEMMA SendInTurn ==
    ASSUME OriginInv, FanoutOrder, NEW i \in Inst, Send(i), DistinctSegments(i),
           NEW w \in Sent, w.inst = i, w.ingress = ingress(i), w.egress = egress(i),
           w.orig = Head(buf[i]).orig
    PROVE  InTurn(w)'
  <1>1. LoopInv /\ ProcOK
    BY Parts DEF OriginInv
  <1>2. /\ pc[i] = "fanout" /\ out'[i] = out[i] + 1 /\ UNCHANGED <<pc, cur, buf>>
    BY <1>1 DEF Send, AtOutput, NextOutput, ProcOK
  <1>3. /\ cur[i] \in DOMAIN Inputs[i] /\ ingress(i) = Inputs[i][cur[i]]
        /\ out[i] \in DOMAIN Outputs[i] /\ egress(i) = Outputs[i][out[i]]
    BY SendPlaced
  <1>4. ASSUME NEW s \in InSock, ReadFrom(w, s), NEW k \in FreshIn(s)'
        PROVE  w.orig < queue'[s][k].orig
    <2>1. s[1] = i /\ Inputs[i][s[2]] = Inputs[i][cur[i]] /\ s = <<s[1], s[2]>>
          /\ s[2] \in DOMAIN Inputs[i]
      <3>1. s[1] = i /\ Inputs[i][s[2]] = Inputs[i][cur[i]]
        BY <1>3, <1>4 DEF ReadFrom, IfOf
      <3>2. s[2] \in 1..Len(Inputs[s[1]]) /\ s = <<s[1], s[2]>>
        BY SocketType
      <3>3. QED
        BY <3>1, <3>2, RelayAssumption
    <2>2. s = <<i, cur[i]>>
      BY <1>3, <2>1 DEF DistinctSegments, IsInjective
    <2>3. PICK d \in {0, 1} : MovedUp(s, d)
      BY <1>1, StepMoves DEF RelayStep
    <2>4. k + d \in FreshIn(s) /\ queue'[s][k] = queue[s][k + d]
      BY <2>3 DEF MovedUp
    <2>5. QED
      BY <1>2, <2>2, <2>4 DEF FanoutOrder
  <1>5. ASSUME NEW j \in Inst, pc'[j] = "fanout", ReadFrom(w, <<j, cur'[j]>>)
        PROVE  /\ w.orig <= Head(buf'[j]).orig
               /\ w.orig = Head(buf'[j]).orig =>
                     \E l \in 1..(out'[j] - 1) : w.egress = Outputs[j][l]
    <2>1. j = i
      BY <1>5 DEF ReadFrom
    <2>2. w.orig = Head(buf'[j]).orig /\ w.orig \in Nat
      BY <1>2, <2>1 DEF Sent
    <2>3. out[i] \in 1..(out'[i] - 1)
      BY <1>1, <1>2 DEF ProcOK
    <2>4. QED
      BY <1>3, <2>1, <2>2, <2>3
  <1>6. QED
    BY <1>4, <1>5 DEF InTurn, ReadFrom, IfOf

\* What an instance sends comes after what it has sent from the same interface
\* on the same segment: an earlier copy of the same frame would have left on
\* the same output, which the fan-out has not passed yet.
LEMMA SendAfter ==
    ASSUME OriginInv, WirePlaced, WireInTurn, NEW i \in Inst, Send(i),
           DistinctSegments(i), NEW k \in DOMAIN wire[SegmentOf[egress(i)]],
           wire[SegmentOf[egress(i)]][k].inst = i,
           wire[SegmentOf[egress(i)]][k].ingress = ingress(i)
    PROVE  wire[SegmentOf[egress(i)]][k].orig < Head(buf[i]).orig
  <1> DEFINE h == SegmentOf[egress(i)]
             v == wire[h][k]
  <1>1. LoopInv /\ ProcOK
    BY Parts DEF OriginInv
  <1>2. pc[i] = "fanout" /\ h \in Segment
    BY <1>1, RewrittenType DEF Send, AtOutput
  <1>3. /\ cur[i] \in DOMAIN Inputs[i] /\ ingress(i) = Inputs[i][cur[i]]
        /\ out[i] \in DOMAIN Outputs[i] /\ egress(i) = Outputs[i][out[i]]
    BY SendPlaced
  <1>4. Placed(h, v) /\ InTurn(v)
    BY <1>2 DEF WirePlaced, WireInTurn
  <1>5. ReadFrom(v, <<i, cur[i]>>)
    BY DEF ReadFrom, ingress
  <1>6. /\ v.orig <= Head(buf[i]).orig
        /\ v.orig = Head(buf[i]).orig =>
              \E l \in 1..(out[i] - 1) : v.egress = Outputs[i][l]
    BY <1>2, <1>4, <1>5 DEF InTurn
  <1>7. v.orig \in Nat /\ Head(buf[i]).orig \in Nat
    BY <1>2, OrigTypes
  <1>8. ASSUME NEW l \in 1..(out[i] - 1), v.egress = Outputs[i][l]
        PROVE  FALSE
    <2>1. Outputs[i] \in Seq(Iface) /\ out[i] \in 1..Len(Outputs[i])
      <3>1. Outputs[i] \in Seq(Iface)
        BY RelayAssumption
      <3>2. QED
        BY <1>3, <3>1
    <2>2. l \in DOMAIN Outputs[i] /\ l # out[i]
      BY <2>1
    <2>3. v.egress \in Range(Outputs[i]) /\ egress(i) \in Range(Outputs[i])
      BY <1>3, <1>8, <2>2 DEF Range
    <2>4. SegmentOf[v.egress] = SegmentOf[egress(i)]
      BY <1>4 DEF Placed
    <2>5. v.egress = egress(i)
      BY <2>3, <2>4 DEF DistinctSegments
    <2>6. QED
      BY <1>3, <1>8, <2>2, <2>5 DEF DistinctSegments, IsInjective
  <1> HIDE DEF v, h
  <1>9. v.orig < Head(buf[i]).orig
    BY <1>6, <1>7, <1>8
  <1>10. QED
    BY <1>9 DEF v, h

\* sendto keeps the wire in turn and in order.
LEMMA WireSend ==
    ASSUME OriginInv, FanoutOrder, WirePlaced, WireInTurn, WireOrder,
           NEW i \in Inst, Send(i)
    PROVE  (WirePlaced /\ WireInTurn /\ WireOrder)'
  <1>1. LoopInv /\ ProcOK /\ HistoryOK /\ FanoutOrigin
    BY Parts DEF OriginInv
  <1>2. PICK h : h = SegmentOf[egress(i)]
    OBVIOUS
  <1>3. PICK w \in Sent :
            /\ wire' = [wire EXCEPT ![h] = Append(@, w)]
            /\ w.inst = i /\ w.ingress = ingress(i) /\ w.egress = egress(i)
            /\ w.orig = Head(buf[i]).orig
    BY <1>1, <1>2, SendOrigin
  <1>4. /\ h \in Segment /\ wire \in [Segment -> Seq(SentOnce)]
        /\ UNCHANGED originals
    BY <1>1, <1>2, RewrittenType DEF Send, HistoryOK
  <1>5. ASSUME NEW g \in Segment, NEW k \in DOMAIN wire'[g]
        PROVE  \/ /\ k \in DOMAIN wire[g] /\ wire'[g][k] = wire[g][k]
                  /\ wire[g][k] \in Sent
               \/ g = h /\ k = Len(wire[h]) + 1 /\ wire'[g][k] = w
    <2>1. wire[g] \in Seq(SentOnce)
      BY <1>4
    <2>2. wire'[g] = wire[g] \/ (g = h /\ wire'[g] = Append(wire[g], w))
      BY <1>3, <1>4
    <2>3. \/ k \in DOMAIN wire[g] /\ wire'[g][k] = wire[g][k]
          \/ g = h /\ k = Len(wire[h]) + 1 /\ wire'[g][k] = w
      BY <2>1, <2>2
    <2>4. k \in DOMAIN wire[g] => wire[g][k] \in Sent
      BY <2>1 DEF SentOnce
    <2>5. QED
      BY <2>3, <2>4
  <1>6. ASSUME NEW g \in Segment, NEW k \in DOMAIN wire'[g], NEW x, x = wire'[g][k]
        PROVE  Placed(g, x)'
    <2>1. CASE k \in DOMAIN wire[g] /\ x = wire[g][k]
      <3>1. Placed(g, x)
        BY <2>1 DEF WirePlaced
      <3>2. QED
        BY <1>4, <3>1 DEF Placed
    <2>2. CASE g = h /\ x = w
      <3>1. /\ cur[i] \in DOMAIN Inputs[i] /\ ingress(i) = Inputs[i][cur[i]]
            /\ out[i] \in DOMAIN Outputs[i] /\ egress(i) = Outputs[i][out[i]]
            /\ originals[Head(buf[i]).orig].seg = SegmentOf[ingress(i)]
        BY SendPlaced
      <3>2. w.ingress \in Range(Inputs[i]) /\ w.egress \in Range(Outputs[i])
        BY <1>3, <3>1 DEF Range
      <3>3. SegmentOf[w.egress] = h /\ originals[w.orig].seg = SegmentOf[w.ingress]
        BY <1>2, <1>3, <3>1
      <3>4. QED
        BY <1>3, <1>4, <2>2, <3>2, <3>3 DEF Placed
    <2>3. QED
      BY <1>5, <1>6, <2>1, <2>2
  <1>7. ASSUME NEW g \in Segment, NEW k \in DOMAIN wire'[g], NEW x, x = wire'[g][k],
               DistinctSegments(x.inst)
        PROVE  InTurn(x)'
    <2>1. CASE k \in DOMAIN wire[g] /\ x = wire[g][k] /\ x \in Sent
      <3>1. InTurn(x)
        BY <1>7, <2>1 DEF WireInTurn
      <3>2. QED
        BY <2>1, <3>1, InTurnStep DEF RelayStep
    <2>2. CASE x = w
      <3>1. DistinctSegments(i)
        BY <1>3, <1>7, <2>2
      <3>2. InTurn(w)'
        BY <1>3, <3>1, SendInTurn
      <3>3. QED
        BY <2>2, <3>2
    <2>3. QED
      BY <1>5, <1>7, <2>1, <2>2
  <1>8. ASSUME NEW g \in Segment, NEW j \in DOMAIN wire'[g], NEW k \in DOMAIN wire'[g],
               NEW v, v = wire'[g][j], NEW x, x = wire'[g][k],
               j < k, v.inst = x.inst, v.ingress = x.ingress, DistinctSegments(x.inst)
        PROVE  v.orig < x.orig
    <2>1. CASE k \in DOMAIN wire[g] /\ x = wire[g][k]
      <3>1. j \in DOMAIN wire[g] /\ v = wire[g][j]
        <4>1. wire[g] \in Seq(SentOnce) /\ wire[h] \in Seq(SentOnce)
          BY <1>4
        <4>2. ~(g = h /\ j = Len(wire[h]) + 1)
          BY <1>8, <2>1, <4>1
        <4>3. QED
          BY <1>5, <1>8, <4>2
      <3>2. QED
        BY <1>8, <2>1, <3>1 DEF WireOrder
    <2>2. CASE g = h /\ k = Len(wire[h]) + 1 /\ x = w
      <3>1. j \in DOMAIN wire[h] /\ v = wire[h][j]
        <4>1. Len(wire[h]) \in Nat
          BY <1>4
        <4>2. j # Len(wire[h]) + 1
          BY <1>8, <2>2, <4>1
        <4>3. QED
          BY <1>5, <1>8, <2>2, <4>2
      <3>2. DistinctSegments(i) /\ v.inst = i /\ v.ingress = ingress(i)
        BY <1>3, <1>8, <2>2
      <3>3. v.orig < Head(buf[i]).orig
        BY <1>2, <3>1, <3>2, SendAfter
      <3>4. QED
        BY <1>3, <2>2, <3>3
    <2>3. QED
      BY <1>5, <1>8, <2>1, <2>2
  <1>9. WirePlaced'
    BY <1>6 DEF WirePlaced, Placed
  <1>10. WireInTurn'
    BY <1>7 DEF WireInTurn, InTurn, ReadFrom, DistinctSegments
  <1>11. WireOrder'
    BY <1>8 DEF WireOrder, DistinctSegments
  <1>12. QED
    BY <1>9, <1>10, <1>11

\* OrderInv holds initially and is inductive.
LEMMA InitOrderInv == Init => OrderInv
  <1> SUFFICES ASSUME Init PROVE OrderInv
    OBVIOUS
  <1>1. OriginInv
    BY InitOriginInv
  <1>2. DOMAIN <<>> = {}
    OBVIOUS
  <1>3. /\ \A s \in InSock : FreshIn(s) = {}
        /\ \A g \in Segment : DOMAIN wire[g] = {}
        /\ \A i \in Inst : pc[i] # "fanout"
    BY <1>2 DEF Init, FreshIn
  <1>4. QueueOrder /\ FanoutOrder
    BY <1>3 DEF QueueOrder, FanoutOrder
  <1>5. WirePlaced /\ WireInTurn /\ WireOrder
    BY <1>3 DEF WirePlaced, WireInTurn, WireOrder
  <1>6. QED
    BY <1>1, <1>4, <1>5 DEF OrderInv

LEMMA NextOrderInv == OrderInv /\ [Next]_vars => OrderInv'
  <1> SUFFICES ASSUME OrderInv, [Next]_vars PROVE OrderInv'
    OBVIOUS
  <1>1. /\ OriginInv /\ QueueOrder /\ FanoutOrder
        /\ WirePlaced /\ WireInTurn /\ WireOrder
    BY DEF OrderInv
  <1>2. OriginInv'
    BY <1>1, NextOriginInv
  <1>3. ASSUME NEW i \in Inst, RelayStep(i) \/ Exit(i) \/ Restart(i)
        PROVE  (QueueOrder /\ FanoutOrder /\ WirePlaced /\ WireInTurn /\ WireOrder)'
    <2>1. (QueueOrder /\ FanoutOrder)'
      BY <1>1, <1>3, OrderStep
    <2>2. CASE Send(i)
      BY <1>1, <2>1, <2>2, WireSend
    <2>3. CASE ~Send(i)
      <3>1. UNCHANGED <<originals, wire>>
        BY <1>3, <2>3
           DEF RelayStep, Select, SelectTimeout, vars, histories, SkipSocket, RecvError,
               DropFrame, RateLimited, Accept, EndScan, SkipOutput, SendError,
               EndFanout, Exit, Restart
      <3>2. \A w \in Sent : InTurn(w) => InTurn(w)'
        BY <1>1, <1>3, InTurnStep
      <3>3. (WirePlaced /\ WireInTurn /\ WireOrder)'
        BY <1>1, <3>1, <3>2, WireStill DEF Kept
      <3>4. QED
        BY <2>1, <3>3
    <2>4. QED
      BY <2>2, <2>3
  <1>4. ASSUME NEW g \in Segment, NEW p \in Frames, HostSend(g, p)
        PROVE  (QueueOrder /\ FanoutOrder /\ WirePlaced /\ WireInTurn /\ WireOrder)'
    <2>1. (QueueOrder /\ FanoutOrder)'
      BY <1>1, <1>4, HostSendOrder
    <2>2. UNCHANGED wire /\ originals' = Append(originals, [seg |-> g, pkt |-> p])
      BY <1>4 DEF HostSend
    <2>3. Kept
      <3>1. HistoryOK
        BY <1>1, Parts DEF OriginInv
      <3>2. [seg |-> g, pkt |-> p] \in [seg: Segment, pkt: Packet]
        BY RelayAssumption
      <3>3. QED
        BY <2>2, <3>1, <3>2, AppendKept
    <2>4. \A w \in Sent : (w.orig \in 1..Len(originals) /\ InTurn(w)) => InTurn(w)'
      BY <1>1, <1>4, InTurnHostSend
    <2>5. (WirePlaced /\ WireInTurn /\ WireOrder)'
      BY <1>1, <2>2, <2>3, <2>4, WireStill
    <2>6. QED
      BY <2>1, <2>5
  <1>5. CASE \/ Tick \/ UNCHANGED vars
             \/ \E f \in Iface : LinkDown(f) \/ LinkUp(f)
    <2>1. UNCHANGED <<pc, cur, buf, out, queue, originals, wire>>
      BY <1>5 DEF Tick, LinkDown, LinkUp, vars, procVars, histories
    <2>2. QueueOrder' /\ FanoutOrder'
      BY <1>1, <2>1 DEF QueueOrder, FanoutOrder, FreshIn
    <2>3. \A w \in Sent : InTurn(w) => InTurn(w)'
      BY <2>1 DEF InTurn, ReadFrom, FreshIn
    <2>4. (WirePlaced /\ WireInTurn /\ WireOrder)'
      BY <1>1, <2>1, <2>3, WireStill DEF Kept
    <2>5. QED
      BY <1>2, <2>2, <2>4 DEF OrderInv
  <1>6. QED
    BY <1>2, <1>3, <1>4, <1>5 DEF Next, OrderInv

\* The frames of an interface are numbered upwards from the wire over recv_buf
\* to the end of the socket's queue, at every step.
THEOREM OrderInvTheorem == Spec => []OrderInv
  BY InitOrderInv, NextOrderInv, PTL DEF Spec

\* An instance whose interfaces are on different segments sends each frame of a
\* host at most once on a segment, never back onto the segment it came from,
\* and never lets a later frame of an interface overtake an earlier one, for
\* any number of instances that hear each other, and across link failures,
\* restarts and full queues: recv_buf holds one frame until its fan-out over
\* -o is over, and the fan-out visits each output once.
THEOREM OrderedOnceTheorem == Spec => []OrderedOnce
  <1>1. OrderInv => OrderedOnce
    <2> SUFFICES ASSUME OrderInv, NEW g \in Segment, NEW j \in DOMAIN wire[g],
                        NEW k \in DOMAIN wire[g], NEW v, v = wire[g][j],
                        NEW w, w = wire[g][k], DistinctSegments(w.inst)
                 PROVE  /\ originals[w.orig].seg # g
                        /\ (v.inst = w.inst /\ j < k) =>
                              /\ v.orig # w.orig
                              /\ v.ingress = w.ingress => v.orig < w.orig
      BY DEF OrderedOnce
    <2>1. OriginInv /\ Placed(g, v) /\ Placed(g, w) /\ IsCopy(w)
      BY DEF OrderInv, WirePlaced, OriginInv, WireOrigin
    <2>2. originals[w.orig].seg # g
      <3>1. w.ingress # w.egress
        BY <2>1 DEF IsCopy, should_relay_to
      <3>2. QED
        BY <2>1, <3>1 DEF Placed, DistinctSegments
    <2>3. ASSUME v.inst = w.inst, j < k, v.ingress = w.ingress
          PROVE  v.orig < w.orig
      BY <2>3 DEF OrderInv, WireOrder
    <2>4. v.orig \in Nat /\ w.orig \in Nat
      BY <2>1, OrigTypes
    <2>5. ASSUME v.inst = w.inst, j < k
          PROVE  v.orig # w.orig
      <3> SUFFICES ASSUME v.orig = w.orig PROVE FALSE
        OBVIOUS
      <3>1. SegmentOf[v.ingress] = SegmentOf[w.ingress]
        BY <2>1 DEF Placed
      <3>2. v.ingress = w.ingress
        BY <2>1, <2>5, <3>1 DEF Placed, DistinctSegments
      <3>3. v.orig < w.orig
        BY <2>3, <2>5, <3>2
      <3>4. QED
        BY <2>4, <3>3
    <2>6. QED
      BY <2>2, <2>3, <2>5
  <1>2. QED
    BY <1>1, OrderInvTheorem, PTL
=============================================================================
