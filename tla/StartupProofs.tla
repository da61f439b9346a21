--------------------------- MODULE StartupProofs ----------------------------
(***************************************************************************)
(* Proofs about Startup, for any host, command line, accounts and          *)
(* credentials: StartInv is inductive, and what it implies.                *)
(*                                                                         *)
(* StartInv is regrouped into parts that share few variables, each step is *)
(* shown to keep each part.  The part on the sockets says everything about *)
(* one socket at a time: SocketOK is what the calls made so far have done  *)
(* to it, DeviceOK how its index relates to the host's.                    *)
(***************************************************************************)
EXTENDS Startup, TLAPS, FiniteSetTheorems

\* Socket s, the one at place k, when main() is at p; last: it is the newest one.
SocketOK(s, k, last, p) ==
    /\ s \in Socket
    /\ s.ifname = Names[k]
    /\ ~last \/ p \notin Opening => Complete(s)
    /\ last => /\ p = "index" => s.bound = 0
               /\ p \in {"bind", "allmulti", "filter", "addrs"} => s.ifindex # 0
               /\ p \in {"allmulti", "filter", "addrs"} => s.bound = s.ifindex
               /\ p = "addrs" => s.filtered
    /\ \A n \in DOMAIN s.queue : ~s.queue[n].early => s.queue[n].on = s.ifname

DeviceOK(s, idx, dev) ==
    /\ s.ifindex <= dev
    /\ s.bound \in {0, s.ifindex}
    /\ \A f \in Iface : (idx[f] = s.ifindex /\ idx[f] # 0) => f = s.ifname

CountOK(p, n) ==
    /\ n <= Len(Names)
    /\ p \in {"permissions", "config", "interfaces", "exited"} => n = 0
    /\ p = "socket" => n < Len(Names)
    /\ p \in Opening => n > 0
    /\ p \in Opened => n = Len(Names)

Pcs == {"permissions", "config", "interfaces", "socket", "index", "bind",
        "allmulti", "filter", "addrs", "user", "setgroups", "setgid",
        "setuid", "regain", "running", "exited"}

SocksOK ==
    /\ socks \in Seq(Socket)
    /\ CountOK(pc, Len(socks))
    /\ \A k \in DOMAIN socks : SocketOK(socks[k], k, k = Len(socks), pc)

DevicesOK == \A k \in DOMAIN socks : DeviceOK(socks[k], index, devices)

HostOK ==
    /\ index \in [Iface -> Nat] /\ up \in [Iface -> BOOLEAN]
    /\ bcast \in [Iface -> Seq(Addr)] /\ devices \in Nat
    /\ \A f, h \in Iface : (index[f] = index[h] /\ index[f] # 0) => f = h
    /\ \A f \in Iface : index[f] <= devices

CredOK == /\ pc \in Pcs /\ user \in UserOptions /\ cred \in Credential
          /\ PrivilegeInv /\ RunsUnprivileged

SentOK == sent \subseteq Relayed /\ OnlyEarlyStray

CountersOK == frames \in Nat /\ events \in Nat

\* The names of the command line are interfaces.
LEMMA NamesType == /\ Names \in Seq(Iface)
                   /\ Len(Names) = Len(Input) + Len(Output)
                   /\ Input \in Seq(Iface) /\ Len(Input) \in Nat
                   /\ \A k \in 1..Len(Input) : Names[k] = Input[k]
  BY StartupAssumption DEF Names

\* A sequence is empty exactly if its length is zero.
LEMMA NoSocks ==
    ASSUME NEW s \in Seq(Socket)
    PROVE  s = <<>> <=> Len(s) = 0
  OBVIOUS

\* StartInv is the conjunction of its parts.
LEMMA Parts ==
    StartInv <=> SocksOK /\ DevicesOK /\ HostOK /\ CredOK /\ SentOK /\ CountersOK
  <1>1. ASSUME StartInv
        PROVE  SocksOK /\ DevicesOK /\ HostOK /\ CredOK /\ SentOK /\ CountersOK
    <2>1. socks \in Seq(Socket) /\ Len(socks) \in Nat /\ DOMAIN socks = 1..Len(socks)
      BY <1>1 DEF StartInv, TypeOK
    <2>2. CountOK(pc, Len(socks))
      BY <1>1, <2>1, NoSocks DEF StartInv, TypeOK, SocketsInv, CountOK
    <2>3. ASSUME NEW k \in DOMAIN socks
          PROVE  SocketOK(socks[k], k, k = Len(socks), pc)
      <3>1. socks[k] \in Socket
        BY <2>1
      <3>2. ~(k = Len(socks)) => k < Len(socks)
        BY <2>1
      <3>3. QED
        BY <1>1, <3>1, <3>2 DEF StartInv, SocketsInv, QueueInv, SocketOK, top
    <2>4. DevicesOK
      BY <1>1 DEF StartInv, DeviceInv, DevicesOK, DeviceOK
    <2>5. HostOK /\ CredOK /\ SentOK /\ CountersOK
      BY <1>1 DEF StartInv, TypeOK, DeviceInv, HostOK, CredOK, SentOK, CountersOK, Pcs
    <2>6. QED
      BY <2>1, <2>2, <2>3, <2>4, <2>5 DEF SocksOK
  <1>2. ASSUME SocksOK, DevicesOK, HostOK, CredOK, SentOK, CountersOK
        PROVE  StartInv
    <2>1. socks \in Seq(Socket) /\ Len(socks) \in Nat /\ DOMAIN socks = 1..Len(socks)
      BY <1>2 DEF SocksOK
    <2>2. TypeOK
      BY <1>2, <2>1 DEF SocksOK, CountOK, HostOK, CredOK, SentOK, CountersOK, TypeOK, Pcs
    <2>3. /\ pc \in {"permissions", "config", "interfaces", "exited"} => socks = <<>>
          /\ pc = "socket" => Len(socks) < Len(Names)
          /\ pc \in Opening => Len(socks) > 0
          /\ pc \in Opened => Len(socks) = Len(Names)
      BY <1>2, <2>1, NoSocks DEF SocksOK, CountOK
    <2>4. ASSUME NEW k \in DOMAIN socks
          PROVE  /\ socks[k].ifname = Names[k]
                 /\ (k < Len(socks) \/ pc \notin Opening) => Complete(socks[k])
                 /\ \A n \in DOMAIN socks[k].queue :
                       ~socks[k].queue[n].early => socks[k].queue[n].on = socks[k].ifname
      <3>1. k < Len(socks) => ~(k = Len(socks))
        BY <2>1
      <3>2. QED
        BY <1>2, <3>1 DEF SocksOK, SocketOK
    <2>5. /\ pc = "index" => socks[top].bound = 0
          /\ pc \in {"bind", "allmulti", "filter", "addrs"} => socks[top].ifindex # 0
          /\ pc \in {"allmulti", "filter", "addrs"} => socks[top].bound = socks[top].ifindex
          /\ pc = "addrs" => socks[top].filtered
      <3>1. pc \in Opening => top \in DOMAIN socks /\ top = Len(socks)
        BY <2>1, <2>3 DEF top
      <3>2. pc \in Opening => SocketOK(socks[top], top, TRUE, pc)
        BY <1>2, <3>1 DEF SocksOK
      <3>3. QED
        BY <3>2 DEF SocketOK, Opening
    <2>6. SocketsInv /\ QueueInv
      BY <2>3, <2>4, <2>5 DEF SocketsInv, QueueInv
    <2>7. DeviceInv
      BY <1>2 DEF HostOK, DevicesOK, DeviceOK, DeviceInv
    <2>8. PrivilegeInv /\ RunsUnprivileged /\ OnlyEarlyStray
      BY <1>2 DEF CredOK, SentOK
    <2>9. QED
      BY <2>2, <2>6, <2>7, <2>8 DEF StartInv
  <1>3. QED
    BY <1>1, <1>2

\* The host, the accounts and the counters before anything has happened.
LEMMA InitStartInv == Init => StartInv
  <1> SUFFICES ASSUME Init PROVE StartInv
    OBVIOUS
  <1>1. Cardinality(Iface) \in Nat
    BY StartupAssumption, FS_CardinalityType
  <1>2. socks = <<>> /\ socks \in Seq(Socket) /\ Len(socks) = 0 /\ DOMAIN socks = {}
    BY DEF Init
  <1>3. pc = "permissions"
    BY DEF Init
  <1>4. SocksOK /\ DevicesOK
    BY <1>2, <1>3, NamesType DEF SocksOK, DevicesOK, CountOK, Opening, Opened
  <1>5. HostOK
    <2>1. FirstIndex \in [Iface -> 1..Cardinality(Iface)] /\ IsInjective(FirstIndex)
      BY StartupAssumption
    <2>2. \A f, h \in Iface : FirstIndex[f] = FirstIndex[h] => f = h
      BY <2>1 DEF IsInjective
    <2>3. \A f \in Iface : FirstIndex[f] \in Nat /\ FirstIndex[f] <= Cardinality(Iface)
      BY <1>1, <2>1
    <2>4. index \in [Iface -> Nat]
      BY <2>1, <2>3 DEF Init
    <2>5. bcast \in [Iface -> Seq(Addr)]
      BY StartupAssumption DEF Init
    <2>6. up \in [Iface -> BOOLEAN]
      BY DEF Init
    <2>7. QED
      BY <1>1, <2>2, <2>3, <2>4, <2>5, <2>6 DEF Init, HostOK
  <1>6. CredOK
    BY <1>3, StartupAssumption DEF Init, CredOK, PrivilegeInv, RunsUnprivileged, Opening, Pcs
  <1>7. SentOK /\ CountersOK
    BY DEF Init, SentOK, OnlyEarlyStray, CountersOK
  <1>8. QED
    BY <1>4, <1>5, <1>6, <1>7, Parts

\* Without sockets there is little to say.
LEMMA NoSocketsLeft ==
    ASSUME socks' = <<>>, pc' \in {"permissions", "config", "interfaces", "exited"}
    PROVE  SocksOK' /\ DevicesOK'
  <1>1. socks' \in Seq(Socket) /\ Len(socks') = 0 /\ DOMAIN socks' = {}
    OBVIOUS
  <1>2. CountOK(pc', Len(socks'))
    BY <1>1, NamesType DEF CountOK, Opening, Opened
  <1>3. QED
    BY <1>1, <1>2 DEF SocksOK, DevicesOK

\* A step that leaves the sockets alone and opens none keeps them as they are.
LEMMA SameSockets ==
    ASSUME SocksOK, DevicesOK, UNCHANGED <<socks, index, devices>>,
           CountOK(pc', Len(socks)),
           pc' = pc \/ (pc \notin Opening /\ pc' \notin Opening)
    PROVE  SocksOK' /\ DevicesOK'
  <1>1. ASSUME NEW k \in DOMAIN socks
        PROVE  SocketOK(socks[k], k, k = Len(socks), pc')
    BY DEF SocksOK, SocketOK, Opening
  <1>2. QED
    BY <1>1 DEF SocksOK, DevicesOK

\* The newest socket is replaced by s.
LEMMA TopUpdate ==
    ASSUME SocksOK, DevicesOK, pc \in Opening, UNCHANGED <<index, devices>>,
           NEW s, socks' = [socks EXCEPT ![top] = s],
           CountOK(pc', Len(socks)),
           SocketOK(s, top, TRUE, pc'), DeviceOK(s, index, devices)
    PROVE  SocksOK' /\ DevicesOK'
  <1>1. /\ socks \in Seq(Socket) /\ Len(socks) \in Nat /\ DOMAIN socks = 1..Len(socks)
        /\ s \in Socket
    BY DEF SocksOK, SocketOK
  <1>2. socks' \in Seq(Socket) /\ Len(socks') = Len(socks) /\ DOMAIN socks' = DOMAIN socks
    <2>1. socks \in [1..Len(socks) -> Socket]
      <3>1. \A k \in 1..Len(socks) : socks[k] \in Socket
        BY <1>1
      <3>2. socks = [k \in DOMAIN socks |-> socks[k]]
        BY <1>1
      <3>3. QED
        BY <1>1, <3>1, <3>2
    <2> DEFINE n == Len(socks)
    <2>2. n \in Nat /\ socks \in [1..n -> Socket]
      BY <1>1, <2>1
    <2> HIDE DEF n
    <2>3. socks' \in [1..n -> Socket]
      BY <1>1, <2>2
    <2>4. socks' \in Seq(Socket) /\ Len(socks') = n /\ DOMAIN socks' = 1..n
      BY <2>2, <2>3
    <2>5. QED
      BY <1>1, <2>4 DEF n
  <1>3. ASSUME NEW k \in DOMAIN socks
        PROVE  /\ SocketOK(socks'[k], k, k = Len(socks), pc')
               /\ DeviceOK(socks'[k], index, devices)
    <2>1. CASE k = top
      BY <1>1, <2>1 DEF top
    <2>2. CASE k # top
      <3>1. socks'[k] = socks[k] /\ ~(k = Len(socks))
        BY <1>1, <2>2 DEF top
      <3>2. SocketOK(socks[k], k, k = Len(socks), pc) /\ DeviceOK(socks[k], index, devices)
        BY DEF SocksOK, DevicesOK
      <3>3. QED
        BY <3>1, <3>2 DEF SocketOK
    <2>3. QED
      BY <2>1, <2>2
  <1>4. QED
    BY <1>2, <1>3 DEF SocksOK, DevicesOK

\* The newest socket before the step, with its type.
LEMMA Newest ==
    ASSUME SocksOK, DevicesOK, pc \in Opening
    PROVE  /\ top \in DOMAIN socks /\ name \in Iface
           /\ SocketOK(socks[top], top, TRUE, pc)
           /\ DeviceOK(socks[top], index, devices)
           /\ socks[top].ifindex \in Nat /\ socks[top].bound \in Nat
           /\ socks \in Seq(Socket)
  <1>1. socks \in Seq(Socket) /\ Len(socks) \in Nat /\ DOMAIN socks = 1..Len(socks)
    BY DEF SocksOK
  <1>2. top \in DOMAIN socks /\ top = Len(socks)
    BY <1>1 DEF SocksOK, CountOK, top
  <1>3. SocketOK(socks[top], top, TRUE, pc) /\ DeviceOK(socks[top], index, devices)
    BY <1>2 DEF SocksOK, DevicesOK
  <1>4. QED
    BY <1>1, <1>2, <1>3 DEF SocketOK, Socket, name

\* PacketSocket::new keeps what is said of the sockets, call by call.
LEMMA OpeningStep ==
    ASSUME SocksOK, DevicesOK, HostOK,
           \/ OpenSocket \/ GetIndex \/ Bind \/ AllMulti \/ AttachFilter
           \/ LookupBroadcasts,
           pc' # "exited"
    PROVE  SocksOK' /\ DevicesOK'
  <1>1. CASE OpenSocket
    <2> DEFINE s == [ifname |-> Names[Len(socks) + 1], ifindex |-> 0, bound |-> 0,
                     filtered |-> FALSE, broadcast_addrs |-> <<>>, queue |-> <<>>]
    <2>1. /\ pc = "socket" /\ pc' = "index" /\ socks' = Append(socks, s)
          /\ UNCHANGED <<index, devices>>
      BY <1>1 DEF OpenSocket, Fail, Proceed, host
    <2>2. socks \in Seq(Socket) /\ Len(socks) \in Nat /\ DOMAIN socks = 1..Len(socks)
      BY DEF SocksOK
    <2>3. Len(socks) < Len(Names)
      BY <2>1 DEF SocksOK, CountOK
    <2>4. Names[Len(socks) + 1] \in Iface
      BY <2>2, <2>3, NamesType
    <2>5. s \in Socket
      <3>1. <<>> \in Seq(Addr) /\ <<>> \in Seq(Frame)
        OBVIOUS
      <3>2. QED
        BY <2>4, <3>1 DEF Socket
    <2>6. SocketOK(s, Len(socks) + 1, TRUE, "index")
      <3>1. s.ifname = Names[Len(socks) + 1] /\ DOMAIN s.queue = {} /\ s.bound = 0
        OBVIOUS
      <3> HIDE DEF s
      <3>2. QED
        BY <2>5, <3>1 DEF SocketOK, Opening
    <2>7. DeviceOK(s, index, devices)
      <3>1. s.ifindex = 0 /\ s.bound = 0
        OBVIOUS
      <3> HIDE DEF s
      <3>2. QED
        BY <3>1 DEF DeviceOK, HostOK
    <2> HIDE DEF s
    <2>8. /\ socks' \in Seq(Socket) /\ Len(socks') = Len(socks) + 1
          /\ DOMAIN socks' = 1..(Len(socks) + 1)
          /\ socks'[Len(socks) + 1] = s
          /\ \A k \in DOMAIN socks : socks'[k] = socks[k]
      BY <2>1, <2>2, <2>5
    <2>9. ASSUME NEW k \in DOMAIN socks'
          PROVE  /\ SocketOK(socks'[k], k, k = Len(socks'), pc')
                 /\ DeviceOK(socks'[k], index, devices)
      <3>1. CASE k = Len(socks) + 1
        BY <2>1, <2>6, <2>7, <2>8, <3>1
      <3>2. CASE k # Len(socks) + 1
        <4>1. k \in DOMAIN socks /\ ~(k = Len(socks'))
          BY <2>2, <2>8, <3>2
        <4>2. SocketOK(socks[k], k, k = Len(socks), "socket") /\ DeviceOK(socks[k], index, devices)
          BY <2>1, <4>1 DEF SocksOK, DevicesOK
        <4>3. SocketOK(socks[k], k, FALSE, pc')
          BY <4>2 DEF SocketOK, Opening
        <4>4. QED
          BY <2>8, <4>1, <4>2, <4>3
      <3>3. QED
        BY <3>1, <3>2
    <2>10. CountOK("index", Len(socks'))
      BY <2>2, <2>3, <2>8, NamesType DEF CountOK, Opening, Opened
    <2>11. QED
      BY <2>1, <2>8, <2>9, <2>10 DEF SocksOK, DevicesOK
  <1>2. CASE GetIndex
    <2> DEFINE s == [socks[top] EXCEPT !.ifindex = index[name]]
    <2>1. /\ pc = "index" /\ pc' = "bind" /\ index[name] # 0
          /\ socks' = [socks EXCEPT ![top] = s] /\ UNCHANGED <<index, devices>>
      BY <1>2 DEF GetIndex, Fail, Proceed, host
    <2>2. pc \in Opening
      BY <2>1 DEF Opening
    <2>3. index[name] \in Nat /\ index[name] <= devices
      BY <2>2, Newest DEF HostOK
    <2>4. s \in Socket
      BY <2>2, <2>3, Newest DEF SocketOK, Socket
    <2>5. /\ s.ifname = name /\ s.ifindex = index[name] /\ s.queue = socks[top].queue
          /\ s.bound = socks[top].bound
      BY <2>2, Newest DEF SocketOK, Socket, name
    <2>6. socks[top].bound = 0
      BY <2>1, <2>2, Newest DEF SocketOK
    <2> HIDE DEF s
    <2>7. SocketOK(s, top, TRUE, "bind")
      BY <2>1, <2>2, <2>4, <2>5, Newest DEF SocketOK, Opening, name
    <2>8. DeviceOK(s, index, devices)
      BY <2>2, <2>3, <2>5, <2>6, Newest DEF DeviceOK, HostOK
    <2>9. CountOK("bind", Len(socks))
      BY <2>1 DEF SocksOK, CountOK, Opening, Opened
    <2>10. QED
      BY <2>1, <2>2, <2>7, <2>8, <2>9, TopUpdate
  <1>3. CASE Bind
    <2> DEFINE s == [socks[top] EXCEPT !.bound = socks[top].ifindex]
    <2>1. /\ pc = "bind" /\ pc' = "allmulti"
          /\ socks' = [socks EXCEPT ![top] = s] /\ UNCHANGED <<index, devices>>
      BY <1>3 DEF Bind, Fail, Proceed, host
    <2>2. pc \in Opening
      BY <2>1 DEF Opening
    <2>3. s \in Socket
      BY <2>2, Newest DEF SocketOK, Socket
    <2>4. /\ s.ifname = socks[top].ifname /\ s.ifindex = socks[top].ifindex
          /\ s.queue = socks[top].queue /\ s.bound = socks[top].ifindex
      BY <2>2, Newest DEF SocketOK, Socket
    <2> HIDE DEF s
    <2>5. SocketOK(s, top, TRUE, "allmulti")
      BY <2>1, <2>2, <2>3, <2>4, Newest DEF SocketOK, Opening
    <2>6. DeviceOK(s, index, devices)
      BY <2>2, <2>4, Newest DEF DeviceOK
    <2>7. CountOK("allmulti", Len(socks))
      BY <2>1 DEF SocksOK, CountOK, Opening, Opened
    <2>8. QED
      BY <2>1, <2>2, <2>5, <2>6, <2>7, TopUpdate
  <1>4. CASE AllMulti
    <2>1. /\ pc = "allmulti" /\ pc' = "filter" /\ UNCHANGED <<socks, index, devices>>
      BY <1>4 DEF AllMulti, Fail, Proceed, host
    <2>2. pc \in Opening
      BY <2>1 DEF Opening
    <2>3. socks' = [socks EXCEPT ![top] = socks[top]]
      BY <2>1, <2>2, Newest
    <2>4. SocketOK(socks[top], top, TRUE, "filter") /\ DeviceOK(socks[top], index, devices)
      BY <2>1, <2>2, Newest DEF SocketOK, Opening
    <2>5. CountOK("filter", Len(socks))
      BY <2>1 DEF SocksOK, CountOK, Opening, Opened
    <2>6. QED
      BY <2>1, <2>2, <2>3, <2>4, <2>5, TopUpdate
  <1>5. CASE AttachFilter
    <2> DEFINE s == [socks[top] EXCEPT !.filtered = TRUE]
    <2>1. /\ pc = "filter" /\ pc' = "addrs"
          /\ socks' = [socks EXCEPT ![top] = s] /\ UNCHANGED <<index, devices>>
      BY <1>5 DEF AttachFilter, Proceed, host
    <2>2. pc \in Opening
      BY <2>1 DEF Opening
    <2>3. s \in Socket
      BY <2>2, Newest DEF SocketOK, Socket
    <2>4. /\ s.ifname = socks[top].ifname /\ s.ifindex = socks[top].ifindex
          /\ s.queue = socks[top].queue /\ s.bound = socks[top].bound /\ s.filtered
      BY <2>2, Newest DEF SocketOK, Socket
    <2> HIDE DEF s
    <2>5. SocketOK(s, top, TRUE, "addrs")
      BY <2>1, <2>2, <2>3, <2>4, Newest DEF SocketOK, Opening
    <2>6. DeviceOK(s, index, devices)
      BY <2>2, <2>4, Newest DEF DeviceOK
    <2>7. CountOK("addrs", Len(socks))
      BY <2>1 DEF SocksOK, CountOK, Opening, Opened
    <2>8. QED
      BY <2>1, <2>2, <2>5, <2>6, <2>7, TopUpdate
  <1>6. CASE LookupBroadcasts
    <2>1. PICK found \in {bcast[name], <<>>} :
             socks' = [socks EXCEPT ![top].broadcast_addrs =
                          IF found = <<>> \/ index[name] = 0
                          THEN <<LIMITED_BROADCAST>> ELSE found]
      BY <1>6 DEF LookupBroadcasts
    <2> DEFINE a == IF found = <<>> \/ index[name] = 0 THEN <<LIMITED_BROADCAST>> ELSE found
               s == [socks[top] EXCEPT !.broadcast_addrs = a]
    <2>2. /\ pc = "addrs" /\ socks' = [socks EXCEPT ![top] = s]
          /\ pc' = (IF top < Len(Names) THEN "socket" ELSE AfterSockets)
          /\ UNCHANGED <<index, devices>>
      BY <1>6, <2>1 DEF LookupBroadcasts, Proceed, host
    <2>3. pc \in Opening
      BY <2>2 DEF Opening
    <2>4. a \in Seq(Addr) /\ a # <<>>
      <3>1. LIMITED_BROADCAST \in Addr
        BY DEF LIMITED_BROADCAST, Addr, Octet
      <3>2. bcast[name] \in Seq(Addr)
        BY <2>3, Newest DEF HostOK
      <3>3. <<LIMITED_BROADCAST>> \in Seq(Addr) /\ <<LIMITED_BROADCAST>> # <<>>
        BY <3>1
      <3>4. QED
        BY <3>2, <3>3
    <2> HIDE DEF a
    <2>5. s \in Socket
      BY <2>3, <2>4, Newest DEF SocketOK, Socket
    <2>6. /\ s.ifname = socks[top].ifname /\ s.ifindex = socks[top].ifindex
          /\ s.queue = socks[top].queue /\ s.bound = socks[top].bound
          /\ s.filtered = socks[top].filtered /\ s.broadcast_addrs = a
      BY <2>3, Newest DEF SocketOK, Socket
    <2> HIDE DEF s
    <2>7. Complete(s)
      BY <2>2, <2>3, <2>4, <2>6, Newest DEF SocketOK, Complete
    <2>8. pc' \in {"socket", "user", "running"}
      BY <2>2 DEF AfterSockets
    <2>9. SocketOK(s, top, TRUE, pc')
      BY <2>3, <2>5, <2>6, <2>7, <2>8, Newest DEF SocketOK, Opening
    <2>10. DeviceOK(s, index, devices)
      BY <2>3, <2>6, Newest DEF DeviceOK
    <2>11. CountOK(pc', Len(socks))
      <3>1. Len(socks) \in Nat /\ Len(Names) \in Nat /\ Len(socks) <= Len(Names)
        BY NamesType DEF SocksOK, CountOK
      <3>2. pc' = "socket" <=> Len(socks) < Len(Names)
        BY <2>2 DEF AfterSockets, top
      <3>3. QED
        BY <2>8, <3>1, <3>2 DEF CountOK, Opening, Opened
    <2>12. QED
      BY <2>2, <2>3, <2>9, <2>10, <2>11, TopUpdate
  <1>7. QED
    BY <1>1, <1>2, <1>3, <1>4, <1>5, <1>6

\* The calls of main() that open no socket, failing calls and the restart keep
\* what is said of the sockets.
LEMMA OtherStep ==
    ASSUME SocksOK, DevicesOK,
           \/ ValidatePermissions \/ LoadConfig \/ ValidateStartup \/ LookupUser
           \/ SetGroups \/ SetGid \/ SetUid \/ CheckRegain \/ Fail \/ CallFails
           \/ Restart
    PROVE  SocksOK' /\ DevicesOK'
  <1>1. CASE pc' = "exited"
    <2>1. socks' = <<>>
      BY <1>1 DEF ValidatePermissions, LoadConfig, ValidateStartup, LookupUser, SetGroups,
                  SetGid, SetUid, CheckRegain, Fail, CallFails, Restart, Proceed
    <2>2. QED
      BY <1>1, <2>1, NoSocketsLeft
  <1>2. CASE pc' # "exited"
    <2>1. /\ UNCHANGED <<socks, index, devices>>
          /\ \/ pc = "permissions" /\ pc' = "config"
             \/ pc = "config" /\ pc' = "interfaces"
             \/ pc = "interfaces" /\ pc' = "socket"
             \/ pc = "user" /\ pc' = "setgroups"
             \/ pc = "setgroups" /\ pc' = "setgid"
             \/ pc = "setgid" /\ pc' = "setuid"
             \/ pc = "setuid" /\ pc' = "regain"
             \/ pc = "regain" /\ pc' = "running"
             \/ pc = "exited" /\ pc' = "permissions"
      BY <1>2 DEF ValidatePermissions, LoadConfig, ValidateStartup, LookupUser, SetGroups,
                  SetGid, SetUid, CheckRegain, Fail, CallFails, Restart, Proceed, host
    <2>2. Len(socks) \in Nat /\ Len(Names) > 0
      BY StartupAssumption, NamesType DEF SocksOK
    <2>3. CountOK(pc', Len(socks))
      BY <2>1, <2>2 DEF SocksOK, CountOK, Opening, Opened
    <2>4. pc \notin Opening /\ pc' \notin Opening
      BY <2>1 DEF Opening
    <2>5. QED
      BY <2>1, <2>3, <2>4, SameSockets
  <1>3. QED
    BY <1>1, <1>2

\* setuid(2) gives credentials again.
LEMMA SetuidType ==
    ASSUME NEW c \in Credential, NEW uid \in Nat
    PROVE  /\ setuid(c, uid) \in Credential
           /\ setuid(c, uid).euid = uid
           /\ setuid(c, uid).gid = c.gid /\ setuid(c, uid).groups = c.groups
           /\ c.euid = ROOT /\ uid # ROOT => setuid(c, uid).caps = {}
  BY DEF Credential, setuid

\* An account of the host has a user id and a group id.
LEMMA AccountType ==
    ASSUME user \in DOMAIN Users
    PROVE  account.uid \in Nat /\ account.gid \in Nat
  BY StartupAssumption DEF account

\* drop_privileges: what each call leaves for the ones after it.
LEMMA PrivilegeStep ==
    ASSUME CredOK,
           \/ LookupUser \/ SetGroups \/ SetGid \/ SetUid \/ CheckRegain,
           pc' # "exited"
    PROVE  CredOK'
  <1>1. /\ cred \in Credential /\ user' = user /\ user \in UserOptions
        /\ pc \in {"setgroups", "setgid", "setuid", "regain"} => user \in DOMAIN Users
    BY DEF CredOK, PrivilegeInv, LookupUser, SetGroups, SetGid, SetUid, CheckRegain,
           Fail, Proceed
  <1>2. CASE LookupUser
    BY <1>1, <1>2 DEF LookupUser, Fail, Proceed, CredOK, PrivilegeInv, RunsUnprivileged,
                      Opening, Pcs
  <1>3. CASE SetGroups
    <2>1. pc = "setgroups" /\ pc' = "setgid" /\ cred' = [cred EXCEPT !.groups = {account.gid}]
      BY <1>3 DEF SetGroups, Fail, Proceed
    <2>2. user \in DOMAIN Users /\ account' = account /\ account.gid \in Nat
      BY <1>1, <2>1, AccountType DEF account
    <2>3. cred' \in Credential /\ cred'.groups = {account.gid} /\ cred'.euid = cred.euid
      BY <1>1, <2>1, <2>2 DEF Credential
    <2>4. cred.euid = ROOT
      BY <2>1 DEF CredOK, PrivilegeInv
    <2>5. QED
      BY <1>1, <2>1, <2>2, <2>3, <2>4 DEF CredOK, PrivilegeInv, RunsUnprivileged, Opening, Pcs
  <1>4. CASE SetGid
    <2>1. pc = "setgid" /\ pc' = "setuid" /\ cred' = [cred EXCEPT !.gid = account.gid]
      BY <1>4 DEF SetGid, Fail, Proceed
    <2>2. user \in DOMAIN Users /\ account' = account /\ account.gid \in Nat
      BY <1>1, <2>1, AccountType DEF account
    <2>3. /\ cred' \in Credential /\ cred'.gid = account.gid /\ cred'.euid = cred.euid
          /\ cred'.groups = cred.groups
      BY <1>1, <2>1, <2>2 DEF Credential
    <2>4. cred.euid = ROOT /\ cred.groups = {account.gid}
      BY <2>1 DEF CredOK, PrivilegeInv
    <2>5. QED
      BY <1>1, <2>1, <2>2, <2>3, <2>4 DEF CredOK, PrivilegeInv, RunsUnprivileged, Opening, Pcs
  <1>5. CASE SetUid
    <2>1. pc = "setuid" /\ pc' = "regain" /\ cred' = setuid(cred, account.uid)
      BY <1>5 DEF SetUid, Fail, Proceed
    <2>2. user \in DOMAIN Users /\ account' = account /\ account.uid \in Nat
      BY <1>1, <2>1, AccountType DEF account
    <2>3. /\ cred.euid = ROOT /\ cred.groups = {account.gid} /\ cred.gid = account.gid
      BY <2>1 DEF CredOK, PrivilegeInv
    <2>4. /\ cred' \in Credential /\ cred'.gid = account.gid /\ cred'.groups = {account.gid}
          /\ cred'.euid = account.uid /\ (account.uid # ROOT => cred'.caps = {})
      BY <1>1, <2>1, <2>2, <2>3, SetuidType
    <2>5. QED
      BY <1>1, <2>1, <2>2, <2>4 DEF CredOK, PrivilegeInv, RunsUnprivileged, Opening, Pcs
  <1>6. CASE CheckRegain
    <2>1. pc = "regain" /\ pc' = "running" /\ cred' = cred /\ ~can_regain_root
      BY <1>6 DEF CheckRegain, Fail, Proceed
    <2>2. account' = account
      BY <1>1 DEF account
    <2>3. /\ cred.gid = account.gid /\ cred.groups = {account.gid} /\ cred.euid = account.uid
          /\ account.uid # ROOT => cred.caps = {}
      BY <2>1 DEF CredOK, PrivilegeInv
    <2>4. ROOT \notin {cred.ruid, cred.euid, cred.suid}
      BY <2>1 DEF can_regain_root
    <2>5. RunsUnprivileged'
      BY <2>1, <2>2, <2>3, <2>4 DEF RunsUnprivileged
    <2>6. QED
      BY <1>1, <2>1, <2>5 DEF CredOK, PrivilegeInv, Opening, Pcs
  <1>7. QED
    BY <1>2, <1>3, <1>4, <1>5, <1>6

\* The other steps leave the credentials alone until the process is replaced.
LEMMA KeepsCredentials ==
    ASSUME CredOK, user' = user, cred' = cred,
           \/ pc' = pc
           \/ pc' = "exited"
           \/ ValidatePermissions
           \/ LoadConfig \/ ValidateStartup \/ OpenSocket \/ GetIndex \/ Bind \/ AllMulti
           \/ AttachFilter \/ LookupBroadcasts
    PROVE  CredOK'
  <1>1. account' = account
    BY DEF account
  <1>2. CASE pc' = pc
    BY <1>1, <1>2 DEF CredOK, PrivilegeInv, RunsUnprivileged
  <1>3. CASE pc' = "exited"
    BY <1>3 DEF CredOK, PrivilegeInv, RunsUnprivileged, Opening, Pcs
  <1>4. CASE ValidatePermissions /\ pc' # "exited"
    BY <1>4 DEF ValidatePermissions, Fail, Proceed, CredOK, PrivilegeInv, RunsUnprivileged,
                Opening, Pcs
  <1>5. CASE /\ \/ LoadConfig \/ ValidateStartup \/ OpenSocket \/ GetIndex \/ Bind
                \/ AllMulti \/ AttachFilter \/ LookupBroadcasts
             /\ pc' # "exited"
    <2>1. /\ pc \in {"config", "interfaces", "socket"} \cup Opening
          /\ \/ pc' \in {"interfaces", "socket", "user"} \cup Opening
             \/ pc' = "running" /\ NoDrop
      BY <1>5 DEF LoadConfig, ValidateStartup, OpenSocket, GetIndex, Bind, AllMulti,
                  AttachFilter, LookupBroadcasts, AfterSockets, Fail, Proceed, Opening
    <2>2. cred.euid = ROOT
      BY <2>1 DEF CredOK, PrivilegeInv
    <2>3. QED
      BY <2>1, <2>2 DEF CredOK, PrivilegeInv, RunsUnprivileged, Opening, Pcs
  <1>6. QED
    BY <1>2, <1>3, <1>4, <1>5

HostStep(f) == \/ LinkDown(f) \/ LinkUp(f) \/ LinkDelete(f) \/ LinkCreate(f)
               \/ \E addrs \in Broadcasts[f] : Renumber(f, addrs)

\* Whatever becomes of an interface, no index ever stands for two devices.
LEMMA HostOKStep ==
    ASSUME HostOK, NEW f \in Iface, HostStep(f)
    PROVE  HostOK'
  <1>1. CASE LinkDown(f) \/ LinkUp(f)
    BY <1>1 DEF LinkDown, LinkUp, HostOK
  <1>2. CASE LinkDelete(f)
    BY <1>2 DEF LinkDelete, HostOK
  <1>3. CASE LinkCreate(f)
    <2>1. /\ devices' = devices + 1 /\ index' = [index EXCEPT ![f] = devices + 1]
          /\ up' = [up EXCEPT ![f] = TRUE] /\ bcast' = bcast
      BY <1>3 DEF LinkCreate
    <2>2. devices \in Nat /\ index \in [Iface -> Nat] /\ \A h \in Iface : index[h] <= devices
      BY DEF HostOK
    <2>3. \A h \in Iface : index[h] # devices + 1
      BY <2>2
    <2>4. \A h \in Iface : index'[h] = IF h = f THEN devices + 1 ELSE index[h]
      BY <2>1, <2>2
    <2>5. ASSUME NEW h \in Iface, NEW g \in Iface, index'[h] = index'[g], index'[h] # 0
          PROVE  h = g
      BY <2>3, <2>4, <2>5 DEF HostOK
    <2>6. /\ index' \in [Iface -> Nat] /\ devices' \in Nat
          /\ \A h \in Iface : index'[h] <= devices'
      BY <2>1, <2>2, <2>4
    <2>7. up' \in [Iface -> BOOLEAN] /\ bcast' \in [Iface -> Seq(Addr)]
      BY <2>1 DEF HostOK
    <2>8. QED
      BY <2>5, <2>6, <2>7 DEF HostOK
  <1>4. CASE \E addrs \in Broadcasts[f] : Renumber(f, addrs)
    <2>1. PICK addrs \in Broadcasts[f] : Renumber(f, addrs)
      BY <1>4
    <2>2. addrs \in Seq(Addr)
      BY StartupAssumption
    <2>3. QED
      BY <2>1, <2>2 DEF Renumber, HostOK
  <1>5. QED
    BY <1>1, <1>2, <1>3, <1>4 DEF HostStep

\* Nor does the index of a socket come to stand for another interface.
LEMMA DevicesStep ==
    ASSUME SocksOK, DevicesOK, HostOK, NEW f \in Iface, HostStep(f)
    PROVE  DevicesOK'
  <1>1. socks' = socks
    BY DEF HostStep, LinkDown, LinkUp, LinkDelete, LinkCreate, Renumber
  <1>2. ASSUME NEW k \in DOMAIN socks
        PROVE  DeviceOK(socks[k], index', devices')
    <2>1. socks[k] \in Socket /\ DeviceOK(socks[k], index, devices)
      BY DEF SocksOK, DevicesOK
    <2>2. socks[k].ifindex \in Nat /\ socks[k].ifindex <= devices /\ devices \in Nat
      BY <2>1 DEF Socket, DeviceOK, HostOK
    <2>3. CASE LinkCreate(f)
      <3>1. devices' = devices + 1 /\ index' = [index EXCEPT ![f] = devices + 1]
        BY <2>3 DEF LinkCreate
      <3>2. socks[k].ifindex # devices + 1 /\ socks[k].ifindex <= devices + 1
        BY <2>2
      <3>3. \A h \in Iface : index'[h] = IF h = f THEN devices + 1 ELSE index[h]
        BY <3>1 DEF HostOK
      <3>4. QED
        BY <2>1, <3>1, <3>2, <3>3 DEF DeviceOK
    <2>4. CASE LinkDelete(f)
      <3>1. devices' = devices /\ index' = [index EXCEPT ![f] = 0]
        BY <2>4 DEF LinkDelete
      <3>2. \A h \in Iface : index'[h] = IF h = f THEN 0 ELSE index[h]
        BY <3>1 DEF HostOK
      <3>3. QED
        BY <2>1, <3>1, <3>2 DEF DeviceOK
    <2>5. CASE ~LinkCreate(f) /\ ~LinkDelete(f)
      <3>1. UNCHANGED <<index, devices>>
        BY <2>5 DEF HostStep, LinkDown, LinkUp, Renumber
      <3>2. QED
        BY <2>1, <3>1
    <2>6. QED
      BY <2>3, <2>4, <2>5
  <1>3. QED
    BY <1>1, <1>2 DEF DevicesOK

\* A socket whose queue has changed only is as good as before.
LEMMA QueueUpdate ==
    ASSUME NEW s, NEW k, NEW last \in BOOLEAN, NEW p, SocketOK(s, k, last, p),
           NEW q \in Seq(Frame),
           \A n \in DOMAIN q : ~q[n].early => q[n].on = s.ifname
    PROVE  LET t == [s EXCEPT !.queue = q]
           IN  /\ SocketOK(t, k, last, p)
               /\ \A idx, dev : DeviceOK(s, idx, dev) => DeviceOK(t, idx, dev)
  <1> DEFINE t == [s EXCEPT !.queue = q]
  <1>1. s \in Socket
    BY DEF SocketOK
  <1>2. /\ t \in Socket /\ t.queue = q
        /\ t.ifname = s.ifname /\ t.ifindex = s.ifindex /\ t.bound = s.bound
        /\ t.filtered = s.filtered /\ t.broadcast_addrs = s.broadcast_addrs
    BY <1>1 DEF Socket
  <1> HIDE DEF t
  <1>3. SocketOK(t, k, last, p)
    BY <1>2 DEF SocketOK, Complete
  <1>4. \A idx, dev : DeviceOK(s, idx, dev) => DeviceOK(t, idx, dev)
    BY <1>2 DEF DeviceOK
  <1>5. QED
    BY <1>3, <1>4 DEF t

\* A frame is captured by the sockets of its interface and those not bound yet.
LEMMA ArriveStep ==
    ASSUME SocksOK, DevicesOK, HostOK, NEW f \in Iface, NEW dst \in Dests, Arrive(f, dst)
    PROVE  SocksOK' /\ DevicesOK'
  <1> DEFINE fr(s) == [on |-> f, dst |-> dst, early |-> s.bound = 0]
             Gets(k) == /\ k <= Len(Input) /\ Captures(socks[k], f)
                        /\ socks[k].filtered => (IsMulticast(dst) \/ dst[4] = 255)
             t(k) == IF Gets(k)
                     THEN [socks[k] EXCEPT !.queue = Append(socks[k].queue, fr(socks[k]))]
                     ELSE socks[k]
  <1>1. /\ socks' = [k \in DOMAIN socks |-> t(k)]
        /\ index[f] # 0 /\ UNCHANGED <<pc, index, devices>>
    BY DEF Arrive, host
  <1>2. socks \in Seq(Socket) /\ Len(socks) \in Nat /\ DOMAIN socks = 1..Len(socks)
    BY DEF SocksOK
  <1>3. ASSUME NEW k \in DOMAIN socks
        PROVE  /\ SocketOK(t(k), k, k = Len(socks), pc)
               /\ DeviceOK(t(k), index, devices)
    <2> DEFINE s == socks[k]
               q == Append(s.queue, fr(s))
    <2>1. s \in Socket /\ SocketOK(s, k, k = Len(socks), pc) /\ DeviceOK(s, index, devices)
      BY DEF SocksOK, DevicesOK, SocketOK
    <2>2. CASE ~Gets(k)
      BY <2>1, <2>2
    <2>3. CASE Gets(k)
      <3>1. fr(s) \in Frame
        BY StartupAssumption DEF Frame
      <3>2. s.queue \in Seq(Frame)
        BY <2>1 DEF Socket
      <3>3. ~fr(s).early => fr(s).on = s.ifname
        <4>1. s.bound = 0 \/ s.bound = index[f]
          BY <2>3 DEF Captures
        <4>2. s.bound # 0 => s.ifindex = index[f]
          BY <2>1, <4>1 DEF DeviceOK
        <4>3. s.bound # 0 => f = s.ifname
          BY <1>1, <2>1, <4>2 DEF DeviceOK
        <4>4. QED
          BY <4>3
      <3>4. \A n \in DOMAIN s.queue : ~s.queue[n].early => s.queue[n].on = s.ifname
        BY <2>1 DEF SocketOK
      <3>5. t(k) = [s EXCEPT !.queue = q]
        BY <2>3
      <3> HIDE DEF fr, s
      <3>6. q \in Seq(Frame) /\ \A n \in DOMAIN q : ~q[n].early => q[n].on = s.ifname
        <4>1. /\ q \in Seq(Frame) /\ DOMAIN q = 1..(Len(s.queue) + 1)
              /\ \A n \in 1..Len(s.queue) : q[n] = s.queue[n]
              /\ q[Len(s.queue) + 1] = fr(s)
          BY <3>1, <3>2
        <4>2. DOMAIN s.queue = 1..Len(s.queue) /\ Len(s.queue) \in Nat
          BY <3>2
        <4> HIDE DEF q
        <4>3. ASSUME NEW n \in DOMAIN q, ~q[n].early
              PROVE  q[n].on = s.ifname
          <5>1. CASE n = Len(s.queue) + 1
            BY <3>3, <4>1, <4>3, <5>1
          <5>2. CASE n \in 1..Len(s.queue)
            BY <3>4, <4>1, <4>2, <4>3, <5>2
          <5>3. QED
            BY <4>1, <4>2, <5>1, <5>2
        <4>4. QED
          BY <4>1, <4>3
      <3> HIDE DEF q
      <3>7. /\ SocketOK([s EXCEPT !.queue = q], k, k = Len(socks), pc)
            /\ DeviceOK([s EXCEPT !.queue = q], index, devices)
        BY <2>1, <3>6, QueueUpdate
      <3>8. QED
        BY <3>5, <3>7
    <2>4. QED
      BY <2>2, <2>3
  <1> HIDE DEF t
  <1>4. \A k \in DOMAIN socks : t(k) \in Socket
    BY <1>3 DEF SocketOK
  <1>5. socks' \in Seq(Socket) /\ Len(socks') = Len(socks) /\ DOMAIN socks' = DOMAIN socks
    BY <1>1, <1>2, <1>4
  <1>6. \A k \in DOMAIN socks' : socks'[k] = t(k)
    BY <1>1
  <1>7. QED
    BY <1>1, <1>3, <1>5, <1>6 DEF SocksOK, DevicesOK

\* The destination nat_rewrite_target chooses is an address.
LEMMA TargetType ==
    ASSUME NEW dst \in Addr, NEW bs \in Seq(Addr)
    PROVE  nat_rewrite_target(dst, bs) \in Addr
  <1>1. bs # <<>> => Head(bs) \in Addr
    OBVIOUS
  <1>2. LIMITED_BROADCAST \in Addr
    BY DEF LIMITED_BROADCAST, Addr, Octet
  <1>3. QED
    BY <1>1, <1>2 DEF nat_rewrite_target

\* The relay loop takes frames off the queues.
LEMMA RelayFrameSocks ==
    ASSUME SocksOK, DevicesOK, NEW k \in 1..Len(Input), RelayFrame(k)
    PROVE  SocksOK' /\ DevicesOK'
  <1> DEFINE s == socks[k]
             q == Tail(s.queue)
             t == [s EXCEPT !.queue = q]
  <1>1. /\ pc = "running" /\ s.queue # <<>> /\ socks' = [socks EXCEPT ![k] = t]
        /\ UNCHANGED <<pc, index, devices>>
    BY DEF RelayFrame, host
  <1>2. socks \in Seq(Socket) /\ Len(socks) \in Nat /\ DOMAIN socks = 1..Len(socks)
    BY DEF SocksOK
  <1>3. k \in DOMAIN socks
    BY <1>1, <1>2, StartupAssumption, NamesType DEF SocksOK, CountOK, Opened
  <1>4. s \in Socket /\ SocketOK(s, k, k = Len(socks), pc) /\ DeviceOK(s, index, devices)
    BY <1>2, <1>3 DEF SocksOK, DevicesOK
  <1>5. s.queue \in Seq(Frame)
    BY <1>4 DEF Socket
  <1>6. \A n \in DOMAIN s.queue : ~s.queue[n].early => s.queue[n].on = s.ifname
    BY <1>4 DEF SocketOK
  <1> HIDE DEF s
  <1>7. q \in Seq(Frame) /\ \A n \in DOMAIN q : n + 1 \in DOMAIN s.queue /\ q[n] = s.queue[n + 1]
    BY <1>1, <1>5
  <1>8. \A n \in DOMAIN q : ~q[n].early => q[n].on = s.ifname
    BY <1>6, <1>7
  <1> HIDE DEF q
  <1>9. SocketOK(t, k, k = Len(socks), pc) /\ DeviceOK(t, index, devices)
    BY <1>4, <1>7, <1>8, QueueUpdate
  <1> HIDE DEF t
  <1>10. t \in Socket
    BY <1>9 DEF SocketOK
  <1>11. socks' \in Seq(Socket) /\ Len(socks') = Len(socks) /\ DOMAIN socks' = DOMAIN socks
    BY <1>1, <1>2, <1>3, <1>10
  <1>12. \A j \in DOMAIN socks : socks'[j] = IF j = k THEN t ELSE socks[j]
    BY <1>1, <1>2
  <1>13. ASSUME NEW j \in DOMAIN socks
         PROVE  /\ SocketOK(socks'[j], j, j = Len(socks), pc)
                /\ DeviceOK(socks'[j], index, devices)
    BY <1>9, <1>12 DEF SocksOK, DevicesOK
  <1>14. QED
    BY <1>1, <1>11, <1>13 DEF SocksOK, DevicesOK

\* What it sends was a broadcast, and came from elsewhere unless it is an early
\* frame.
LEMMA RelayFrameSent ==
    ASSUME SocksOK, HostOK, SentOK, NEW k \in 1..Len(Input), RelayFrame(k)
    PROVE  SentOK'
  <1> DEFINE s == socks[k]
             p == Head(s.queue)
             m(o) == [frame |-> p, egress |-> o.ifname,
                      dst |-> IF IsMulticast(p.dst) THEN p.dst
                              ELSE nat_rewrite_target(p.dst, o.broadcast_addrs)]
             O == {o \in fanout(s, p.dst) : checked(p.dst)}
  <1>1. pc = "running" /\ s.queue # <<>> /\ sent' = sent \cup {m(o) : o \in O}
    BY DEF RelayFrame
  <1>2. /\ socks \in Seq(Socket) /\ Len(socks) = Len(Names) /\ Len(Input) \in Nat
        /\ Len(Names) \in Nat /\ Len(Input) <= Len(Names) /\ DOMAIN socks = 1..Len(Names)
    BY <1>1, StartupAssumption, NamesType DEF SocksOK, CountOK, Opened
  <1>3. k \in DOMAIN socks /\ s \in Socket /\ s.ifname = Input[k]
    BY <1>2, NamesType DEF SocksOK, SocketOK
  <1>4. s.queue \in Seq(Frame)
    BY <1>3 DEF Socket
  <1>5. p \in Frame /\ p = s.queue[1] /\ 1 \in DOMAIN s.queue
    BY <1>1, <1>4
  <1>6. ~p.early => p.on = s.ifname
    BY <1>3, <1>5 DEF SocksOK, SocketOK
  <1>7. p.dst \in Addr
    BY <1>5 DEF Frame
  <1>8. Input[k] \in Range(Input)
    BY StartupAssumption DEF Range
  <1> HIDE DEF p, s
  <1>9. ASSUME NEW o \in O
        PROVE  /\ m(o) \in Relayed /\ is_broadcast(p.dst)
               /\ s.ifname # o.ifname
    <2>1. o \in fanout(s, p.dst) /\ checked(p.dst)
      OBVIOUS
    <2>2. PICK j \in (Len(Input) + 1)..Len(Names) : o = socks[j]
      BY <2>1 DEF fanout
    <2>3. o \in Socket
      BY <1>2, <2>2
    <2>4. should_relay_to(p.dst, s.ifname, o.ifname, o.broadcast_addrs)
      BY <2>1 DEF fanout
    <2>5. o.ifname \in Iface /\ o.broadcast_addrs \in Seq(Addr)
      BY <2>3 DEF Socket
    <2>6. nat_rewrite_target(p.dst, o.broadcast_addrs) \in Addr
      BY <1>7, <2>5, TargetType
    <2>7. m(o) \in Relayed
      BY <1>5, <1>7, <2>5, <2>6 DEF Relayed
    <2>8. QED
      BY <2>1, <2>4, <2>7 DEF should_relay_to, checked
  <1> HIDE DEF O
  <1>10. sent' \subseteq Relayed
    BY <1>1, <1>9 DEF SentOK
  <1>11. ASSUME NEW x \in sent'
         PROVE  /\ is_broadcast(x.frame.dst)
                /\ ~x.frame.early => x.frame.on \in Range(Input) /\ x.frame.on # x.egress
    <2>1. CASE x \in sent
      BY <2>1 DEF SentOK, OnlyEarlyStray
    <2>2. CASE x \notin sent
      <3>1. PICK o \in O : x = m(o)
        BY <1>1, <2>2
      <3>2. x.frame = p /\ x.egress = o.ifname
        BY <3>1
      <3>3. QED
        BY <1>3, <1>6, <1>8, <1>9, <3>2
    <2>3. QED
      BY <2>1, <2>2
  <1>12. QED
    BY <1>10, <1>11 DEF SentOK, OnlyEarlyStray

\* StartInv is inductive.
LEMMA NextStartInv == StartInv /\ [Next]_vars => StartInv'
  <1> SUFFICES ASSUME StartInv, [Next]_vars
               PROVE  StartInv'
    OBVIOUS
  <1>1. SocksOK /\ DevicesOK /\ HostOK /\ CredOK /\ SentOK /\ CountersOK
    BY Parts
  <1>2. CASE StartupStep \/ CallFails \/ Restart
    <2>1. UNCHANGED <<host, sent, frames>> /\ events' \in {events, events + 1}
      BY <1>2 DEF StartupStep, ValidatePermissions, LoadConfig, ValidateStartup, OpenSocket,
                  GetIndex, Bind, AllMulti, AttachFilter, LookupBroadcasts, LookupUser,
                  SetGroups, SetGid, SetUid, CheckRegain, CallFails, Restart, Event, Fail,
                  Proceed
    <2>2. HostOK' /\ SentOK' /\ CountersOK'
      BY <1>1, <2>1 DEF HostOK, SentOK, OnlyEarlyStray, CountersOK, host
    <2>3. CASE pc' = "exited"
      <3>1. /\ socks' = <<>> /\ UNCHANGED <<user, cred>>
        BY <1>2, <2>3 DEF StartupStep, ValidatePermissions, LoadConfig, ValidateStartup,
                  OpenSocket, GetIndex, Bind, AllMulti, AttachFilter, LookupBroadcasts,
                  LookupUser, SetGroups, SetGid, SetUid, CheckRegain, CallFails, Restart,
                  AfterSockets, Fail, Proceed
      <3>2. SocksOK' /\ DevicesOK' /\ CredOK'
        BY <1>1, <2>3, <3>1, NoSocketsLeft, KeepsCredentials
      <3>3. QED
        BY <2>2, <3>2, Parts, PTL
    <2>4. CASE pc' # "exited" /\ Restart
      <3>1. SocksOK' /\ DevicesOK'
        BY <1>1, <2>4, OtherStep
      <3>2. CredOK'
        BY <1>1, <2>4, StartupAssumption DEF Restart, CredOK, PrivilegeInv,
                                            RunsUnprivileged, Opening, Pcs
      <3>3. QED
        BY <2>2, <3>1, <3>2, Parts, PTL
    <2>5. CASE /\ pc' # "exited"
               /\ \/ OpenSocket \/ GetIndex \/ Bind \/ AllMulti \/ AttachFilter
                  \/ LookupBroadcasts
      <3>1. SocksOK' /\ DevicesOK'
        BY <1>1, <2>5, OpeningStep
      <3>2. UNCHANGED <<user, cred>>
        BY <2>5 DEF OpenSocket, GetIndex, Bind, AllMulti, AttachFilter, LookupBroadcasts,
                    Fail, Proceed
      <3>3. CredOK'
        BY <1>1, <2>5, <3>2, KeepsCredentials
      <3>4. QED
        BY <2>2, <3>1, <3>3, Parts, PTL
    <2>6. CASE /\ pc' # "exited"
               /\ ValidatePermissions \/ LoadConfig \/ ValidateStartup
      <3>1. SocksOK' /\ DevicesOK'
        BY <1>1, <2>6, OtherStep
      <3>2. UNCHANGED <<user, cred>>
        BY <2>6 DEF ValidatePermissions, LoadConfig, ValidateStartup, Fail, Proceed
      <3>3. CredOK'
        BY <1>1, <2>6, <3>2, KeepsCredentials
      <3>4. QED
        BY <2>2, <3>1, <3>3, Parts, PTL
    <2>7. CASE /\ pc' # "exited"
               /\ LookupUser \/ SetGroups \/ SetGid \/ SetUid \/ CheckRegain
      <3>1. SocksOK' /\ DevicesOK'
        BY <1>1, <2>7, OtherStep
      <3>2. CredOK'
        BY <1>1, <2>7, PrivilegeStep
      <3>3. QED
        BY <2>2, <3>1, <3>2, Parts, PTL
    <2>8. pc' # "exited" => ~CallFails
      BY DEF CallFails
    <2>9. QED
      BY <1>2, <2>3, <2>4, <2>5, <2>6, <2>7, <2>8 DEF StartupStep
  <1>3. ASSUME NEW k \in 1..Len(Input), RelayFrame(k)
        PROVE  StartInv'
    <2>1. SocksOK' /\ DevicesOK' /\ SentOK'
      BY <1>1, <1>3, RelayFrameSocks, RelayFrameSent
    <2>2. UNCHANGED <<pc, user, cred, index, up, bcast, devices, frames, events>>
      BY <1>3 DEF RelayFrame, host
    <2>3. HostOK' /\ CountersOK' /\ CredOK'
      BY <1>1, <2>2, KeepsCredentials DEF HostOK, CountersOK
    <2>4. QED
      BY <2>1, <2>3, Parts, PTL
  <1>4. ASSUME NEW f \in Iface, NEW dst \in Dests, Arrive(f, dst)
        PROVE  StartInv'
    <2>1. SocksOK' /\ DevicesOK'
      BY <1>1, <1>4, ArriveStep
    <2>2. /\ UNCHANGED <<pc, user, cred, index, up, bcast, devices, sent, events>>
          /\ frames' = frames + 1
      BY <1>4 DEF Arrive, host
    <2>3. HostOK' /\ CountersOK' /\ CredOK' /\ SentOK'
      BY <1>1, <2>2, KeepsCredentials DEF HostOK, CountersOK, SentOK, OnlyEarlyStray
    <2>4. QED
      BY <2>1, <2>3, Parts, PTL
  <1>5. ASSUME NEW f \in Iface, HostStep(f)
        PROVE  StartInv'
    <2>1. /\ UNCHANGED <<pc, user, cred, socks, sent, frames>>
          /\ events' \in {events, events + 1}
      BY <1>5 DEF HostStep, LinkDown, LinkUp, LinkDelete, LinkCreate, Renumber, Event
    <2>2. SocksOK' /\ CountersOK' /\ CredOK' /\ SentOK'
      BY <1>1, <2>1, KeepsCredentials DEF SocksOK, CountersOK, SentOK, OnlyEarlyStray
    <2>3. HostOK' /\ DevicesOK'
      BY <1>1, <1>5, HostOKStep, DevicesStep
    <2>4. QED
      BY <2>2, <2>3, Parts, PTL
  <1>6. CASE UNCHANGED vars
    <2>1. UNCHANGED <<pc, user, cred, socks, index, up, bcast, devices, sent, frames, events>>
      BY <1>6 DEF vars, host
    <2>2. /\ SocksOK' /\ DevicesOK' /\ CountersOK' /\ CredOK' /\ SentOK' /\ HostOK'
      BY <1>1, <2>1, KeepsCredentials DEF SocksOK, DevicesOK, HostOK, CountersOK, SentOK,
                                          OnlyEarlyStray
    <2>3. QED
      BY <2>2, Parts, PTL
  <1>7. QED
    BY <1>2, <1>3, <1>4, <1>5, <1>6 DEF Next, HostStep

-----------------------------------------------------------------------------
(* Addresses *)

AddrsOK(s) == Range(s.broadcast_addrs) \subseteq OwnAddrs(s.ifname)

\* What a socket is given by LookupBroadcasts.
LEMMA FoundIsOwn ==
    ASSUME NEW f \in Iface, bcast[f] \in Broadcasts[f], HostOK
    PROVE  /\ Range(bcast[f]) \subseteq OwnAddrs(f)
           /\ Range(<<LIMITED_BROADCAST>>) \subseteq OwnAddrs(f)
  BY DEF OwnAddrs, Range

\* The calls of main(): one socket is new or changed, or all are closed.
LEMMA StepAddrs ==
    ASSUME SocksOK, DevicesOK, HostOK, AddressInv,
           StartupStep \/ CallFails \/ Restart
    PROVE  \A k \in DOMAIN socks' : AddrsOK(socks'[k])
  <1>1. /\ socks \in Seq(Socket) /\ \A k \in DOMAIN socks : AddrsOK(socks[k])
        /\ Len(socks) \in Nat /\ DOMAIN socks = 1..Len(socks)
    BY DEF SocksOK, AddressInv, AddrsOK
  <1>2. CASE socks' = socks \/ socks' = <<>>
    BY <1>1, <1>2
  <1>3. CASE OpenSocket /\ socks' # <<>> /\ socks' # socks
    <2> DEFINE s == [ifname |-> Names[Len(socks) + 1], ifindex |-> 0, bound |-> 0,
                     filtered |-> FALSE, broadcast_addrs |-> <<>>, queue |-> <<>>]
    <2>1. socks' = Append(socks, s)
      BY <1>3 DEF OpenSocket, Fail
    <2>2. AddrsOK(s)
      BY DEF AddrsOK, Range
    <2> HIDE DEF s
    <2>3. /\ DOMAIN socks' = 1..(Len(socks) + 1)
          /\ \A k \in 1..Len(socks) : socks'[k] = socks[k]
          /\ socks'[Len(socks) + 1] = s
      BY <1>1, <2>1
    <2>4. QED
      BY <1>1, <2>2, <2>3
  <1>4. CASE /\ GetIndex \/ Bind \/ AllMulti \/ AttachFilter
             /\ socks' # <<>> /\ socks' # socks
    <2>1. pc \in Opening
      BY <1>4 DEF GetIndex, Bind, AllMulti, AttachFilter, Opening
    <2>2. top \in DOMAIN socks /\ socks[top] \in Socket
      BY <2>1, Newest DEF SocketOK
    <2>3. \/ socks' = [socks EXCEPT ![top].ifindex = index[name]]
          \/ socks' = [socks EXCEPT ![top].bound = socks[top].ifindex]
          \/ socks' = [socks EXCEPT ![top].filtered = TRUE]
      BY <1>4 DEF GetIndex, Bind, AllMulti, AttachFilter, Fail
    <2>4. /\ DOMAIN socks' = DOMAIN socks
          /\ \A k \in DOMAIN socks : k # top => socks'[k] = socks[k]
          /\ \/ socks'[top] = [socks[top] EXCEPT !.ifindex = index[name]]
             \/ socks'[top] = [socks[top] EXCEPT !.bound = socks[top].ifindex]
             \/ socks'[top] = [socks[top] EXCEPT !.filtered = TRUE]
      BY <2>2, <2>3
    <2>5. /\ socks'[top].ifname = socks[top].ifname
          /\ socks'[top].broadcast_addrs = socks[top].broadcast_addrs
      BY <2>2, <2>4 DEF Socket
    <2>6. QED
      BY <1>1, <2>2, <2>4, <2>5 DEF AddrsOK
  <1>5. CASE LookupBroadcasts
    <2>1. pc \in Opening
      BY <1>5 DEF LookupBroadcasts, Opening
    <2>2. top \in DOMAIN socks /\ name \in Iface
      BY <2>1, Newest
    <2>3. PICK a \in {bcast[name], <<LIMITED_BROADCAST>>} :
             socks' = [socks EXCEPT ![top].broadcast_addrs = a]
      <3>1. PICK found \in {bcast[name], <<>>} :
               socks' = [socks EXCEPT ![top].broadcast_addrs =
                            IF found = <<>> \/ index[name] = 0
                            THEN <<LIMITED_BROADCAST>> ELSE found]
        BY <1>5 DEF LookupBroadcasts
      <3>2. QED
        BY <3>1
    <2>4. Range(a) \subseteq OwnAddrs(name)
      BY <2>2, <2>3, FoundIsOwn DEF AddressInv
    <2>5. socks[top] \in Socket
      BY <1>1, <2>2
    <2>6. /\ DOMAIN socks' = DOMAIN socks
          /\ \A k \in DOMAIN socks : k # top => socks'[k] = socks[k]
          /\ socks'[top] = [socks[top] EXCEPT !.broadcast_addrs = a]
      BY <2>2, <2>3
    <2>7. socks'[top].ifname = name /\ socks'[top].broadcast_addrs = a
      BY <2>5, <2>6 DEF Socket, name
    <2>8. QED
      BY <1>1, <2>2, <2>4, <2>6, <2>7 DEF AddrsOK
  <1>6. ASSUME ~OpenSocket, ~GetIndex, ~Bind, ~AllMulti, ~AttachFilter, ~LookupBroadcasts
        PROVE  socks' = socks \/ socks' = <<>>
    BY <1>6 DEF StartupStep, ValidatePermissions, LoadConfig, ValidateStartup, LookupUser,
                SetGroups, SetGid, SetUid, CheckRegain, CallFails, Restart, Fail
  <1>7. QED
    BY <1>2, <1>3, <1>4, <1>5, <1>6

\* Frames that come and go leave the addresses alone.
LEMMA QueuesKeepAddrs ==
    ASSUME SocksOK, AddressInv,
           \/ \E k \in 1..Len(Input) : RelayFrame(k)
           \/ \E f \in Iface, dst \in Dests : Arrive(f, dst)
    PROVE  \A k \in DOMAIN socks' : AddrsOK(socks'[k])
  <1>1. /\ socks \in Seq(Socket) /\ \A k \in DOMAIN socks : AddrsOK(socks[k])
        /\ \A k \in DOMAIN socks : socks[k] \in Socket
    BY DEF SocksOK, AddressInv, AddrsOK
  <1>2. /\ DOMAIN socks' = DOMAIN socks
        /\ \A k \in DOMAIN socks :
              /\ socks'[k].ifname = socks[k].ifname
              /\ socks'[k].broadcast_addrs = socks[k].broadcast_addrs
    <2>1. CASE \E k \in 1..Len(Input) : RelayFrame(k)
      BY <1>1, <2>1 DEF RelayFrame, Socket
    <2>2. CASE \E f \in Iface, dst \in Dests : Arrive(f, dst)
      BY <1>1, <2>2 DEF Arrive, Socket
    <2>3. QED
      BY <2>1, <2>2
  <1>3. QED
    BY <1>1, <1>2 DEF AddrsOK

\* What the loop sends goes to an address of its output.
LEMMA RelayFrameOwn ==
    ASSUME SocksOK, AddressInv, NEW k \in 1..Len(Input), RelayFrame(k)
    PROVE  OwnSegmentOnly'
  <1> DEFINE p == Head(socks[k].queue)
             m(o) == [frame |-> p, egress |-> o.ifname,
                      dst |-> IF IsMulticast(p.dst) THEN p.dst
                              ELSE nat_rewrite_target(p.dst, o.broadcast_addrs)]
             O == {o \in fanout(socks[k], p.dst) : checked(p.dst)}
  <1>1. pc = "running" /\ sent' = sent \cup {m(o) : o \in O}
    BY DEF RelayFrame
  <1>2. /\ socks \in Seq(Socket) /\ DOMAIN socks = 1..Len(Names) /\ Len(Input) \in Nat
    BY <1>1, StartupAssumption, NamesType DEF SocksOK, CountOK, Opened
  <1> HIDE DEF p
  <1>3. ASSUME NEW o \in O
        PROVE  IsMulticast(m(o).dst) \/ m(o).dst \in OwnAddrs(o.ifname)
    <2>1. PICK j \in (Len(Input) + 1)..Len(Names) : o = socks[j]
      BY DEF fanout
    <2>2. j \in DOMAIN socks /\ o \in Socket
      BY <1>2, <2>1, NamesType
    <2>3. AddrsOK(o) /\ o.broadcast_addrs \in Seq(Addr)
      BY <2>1, <2>2 DEF AddressInv, AddrsOK, Socket
    <2>4. nat_rewrite_target(p.dst, o.broadcast_addrs)
             \in Range(o.broadcast_addrs) \cup {LIMITED_BROADCAST}
      BY <2>3 DEF nat_rewrite_target, Contains, Range
    <2>5. QED
      BY <2>3, <2>4 DEF AddrsOK, OwnAddrs
  <1> HIDE DEF O
  <1>4. ASSUME NEW x \in sent'
        PROVE  IsMulticast(x.dst) \/ x.dst \in OwnAddrs(x.egress)
    <2>1. CASE x \in sent
      BY <2>1 DEF AddressInv, OwnSegmentOnly
    <2>2. CASE x \notin sent
      BY <1>1, <1>3, <2>2
    <2>3. QED
      BY <2>1, <2>2
  <1>5. QED
    BY <1>4 DEF OwnSegmentOnly

\* AddressInv is inductive relative to StartInv.
LEMMA NextAddressInv == StartInv /\ AddressInv /\ [Next]_vars => AddressInv'
  <1> SUFFICES ASSUME StartInv, AddressInv, [Next]_vars
               PROVE  AddressInv'
    OBVIOUS
  <1>1. SocksOK /\ DevicesOK /\ HostOK
    BY Parts
  <1>2. AddressInv' <=> /\ \A f \in Iface : bcast'[f] \in Broadcasts[f]
                        /\ \A k \in DOMAIN socks' : AddrsOK(socks'[k])
                        /\ OwnSegmentOnly'
    BY DEF AddressInv, AddrsOK
  <1>3. CASE StartupStep \/ CallFails \/ Restart
    <2>1. UNCHANGED <<bcast, sent>>
      BY <1>3 DEF StartupStep, ValidatePermissions, LoadConfig, ValidateStartup, OpenSocket,
                  GetIndex, Bind, AllMulti, AttachFilter, LookupBroadcasts, LookupUser,
                  SetGroups, SetGid, SetUid, CheckRegain, CallFails, Restart, Fail, Proceed,
                  host
    <2>2. \A k \in DOMAIN socks' : AddrsOK(socks'[k])
      BY <1>1, <1>3, StepAddrs
    <2>3. QED
      BY <1>2, <2>1, <2>2 DEF AddressInv, OwnSegmentOnly
  <1>4. ASSUME NEW k \in 1..Len(Input), RelayFrame(k)
        PROVE  AddressInv'
    <2>1. UNCHANGED bcast
      BY <1>4 DEF RelayFrame, host
    <2>2. OwnSegmentOnly' /\ \A j \in DOMAIN socks' : AddrsOK(socks'[j])
      BY <1>1, <1>4, RelayFrameOwn, QueuesKeepAddrs
    <2>3. QED
      BY <1>2, <2>1, <2>2 DEF AddressInv
  <1>5. ASSUME NEW f \in Iface, NEW dst \in Dests, Arrive(f, dst)
        PROVE  AddressInv'
    <2>1. UNCHANGED <<bcast, sent>>
      BY <1>5 DEF Arrive, host
    <2>2. \A j \in DOMAIN socks' : AddrsOK(socks'[j])
      BY <1>1, <1>5, QueuesKeepAddrs
    <2>3. QED
      BY <1>2, <2>1, <2>2 DEF AddressInv, OwnSegmentOnly
  <1>6. ASSUME NEW f \in Iface, HostStep(f)
        PROVE  AddressInv'
    <2>1. UNCHANGED <<socks, sent>>
      BY <1>6 DEF HostStep, LinkDown, LinkUp, LinkDelete, LinkCreate, Renumber
    <2>2. \A h \in Iface : bcast'[h] \in Broadcasts[h]
      BY <1>1, <1>6 DEF HostStep, LinkDown, LinkUp, LinkDelete, LinkCreate, Renumber, HostOK,
                        AddressInv
    <2>3. QED
      BY <1>2, <2>1, <2>2 DEF AddressInv, AddrsOK, OwnSegmentOnly
  <1>7. CASE UNCHANGED vars
    BY <1>7 DEF vars, host, AddressInv, OwnSegmentOnly
  <1>8. QED
    BY <1>3, <1>4, <1>5, <1>6, <1>7 DEF Next, HostStep

\* However a process is started, whatever happens to the interfaces and
\* whichever calls fail: what main() has set up at each call.
THEOREM StartInvTheorem == Spec => []StartInv
  BY InitStartInv, NextStartInv, PTL DEF Spec

\* The relay loop runs only without privileges (drop_privileges).
THEOREM RunsUnprivilegedTheorem == Spec => []RunsUnprivileged
  <1>1. StartInv => RunsUnprivileged
    BY DEF StartInv
  <1>2. QED
    BY <1>1, StartInvTheorem, PTL

\* It runs only with every socket completely set up, and no process that has
\* given up leaves a socket (main, PacketSocket::new).
THEOREM NeverHalfStartedTheorem == Spec => []NeverHalfStarted
  <1>1. StartInv => NeverHalfStarted
    BY DEF StartInv, SocketsInv, NeverHalfStarted, Opening, Opened
  <1>2. QED
    BY <1>1, StartInvTheorem, PTL

\* Early frames apart, nothing is relayed that did not come in on an input
\* interface, or out of the interface it came from (should_relay_to).
THEOREM OnlyEarlyStrayTheorem == Spec => []OnlyEarlyStray
  <1>1. StartInv => OnlyEarlyStray
    BY DEF StartInv
  <1>2. QED
    BY <1>1, StartInvTheorem, PTL

\* A relayed frame is addressed to its output interface, present or past
\* (PacketSocket::new, nat_rewrite_target).
THEOREM OwnSegmentOnlyTheorem == Spec => []OwnSegmentOnly
  <1>1. Init => AddressInv
    BY DEF Init, AddressInv, OwnSegmentOnly
  <1>2. AddressInv => OwnSegmentOnly
    BY DEF AddressInv
  <1>3. QED
    BY <1>1, <1>2, StartInvTheorem, NextAddressInv, PTL DEF Spec
=============================================================================
