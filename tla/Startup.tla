------------------------------ MODULE Startup -------------------------------
(***************************************************************************)
(* One bcr process from its start to its relay loop: main() of             *)
(* src/main.rs with validate_permissions, validate_startup and             *)
(* drop_privileges, discover_interfaces of src/interface.rs and            *)
(* PacketSocket::new of src/socket.rs, one action per system call.  In     *)
(* between, frames arrive and interfaces go down, up, away, come back and  *)
(* are renumbered; any call may fail; systemd starts the process again.    *)
(*                                                                         *)
(* The relay loop itself is Relay's business: here one step takes a frame  *)
(* off an input socket and does its whole fan-out, to tell what the loop   *)
(* makes of sockets that were opened while the host was changing.          *)
(***************************************************************************)
EXTENDS NatRewrite, FiniteSets

CONSTANTS
    Iface,          \* the host's interfaces, by name
    FirstIndex,     \* the ifindex each one has at first
    Input, Output,  \* the -i and -o options, in order
    Users,          \* the accounts of the host
    UserOptions,    \* values of the -u option
    NoDrop,         \* --no-drop
    Credentials,    \* what the process may be started with
    ConfigLoads,    \* whether the -c file may load, or may not: a set of BOOLEANs
    Broadcasts,     \* for each interface, the lists of broadcast addresses it may get
    Dests,          \* destinations of the frames that arrive
    MaxFrames,      \* bound: frames that arrive
    MaxEvents       \* bound: changes of the host and calls that fail

ROOT == 0
Cap  == {"NET_RAW", "SETUID", "SETGID"}
\* The identity of a process; caps is its effective capability set.
Credential == [ruid: Nat, euid: Nat, suid: Nat, gid: Nat, groups: SUBSET Nat,
               caps: SUBSET Cap]

ASSUME StartupAssumption ==
    /\ IsFiniteSet(Iface)
    /\ FirstIndex \in [Iface -> 1..Cardinality(Iface)] /\ IsInjective(FirstIndex)
    /\ Input \in Seq(Iface) /\ Output \in Seq(Iface)
    /\ Input # <<>> /\ Output # <<>>
    /\ \A u \in DOMAIN Users : Users[u] \in [uid: Nat, gid: Nat]
    /\ NoDrop \in BOOLEAN
    /\ Credentials \subseteq Credential
    /\ ConfigLoads \subseteq BOOLEAN
    /\ Broadcasts \in [Iface -> SUBSET Seq(Addr)] /\ Dests \subseteq Addr
    /\ MaxFrames \in Nat /\ MaxEvents \in Nat

VARIABLES
    pc,      \* the call main() is about to make
    user,    \* the -u option
    cred,    \* the credentials of the process
    socks,   \* its sockets in the order of Names, the last one being set up
    index,   \* ifindex of each interface, 0 while it does not exist
    up,      \* IFF_UP of each interface
    bcast,   \* broadcast addresses of each interface
    devices, \* indices the kernel has given out
    sent,    \* history: the frames the process has relayed
    exit_at, \* history: the call the last process that ended has failed at
    frames, events

host == <<index, up, bcast, devices>>
vars == <<pc, user, cred, socks, host, sent, exit_at, frames, events>>

Names == Input \o Output

\* A captured frame: the interface it came in on, and whether the socket was
\* not bound to an interface yet.
Frame  == [on: Iface, dst: Addr, early: BOOLEAN]
Socket == [ifname: Iface, ifindex: Nat, bound: Nat, filtered: BOOLEAN,
           broadcast_addrs: Seq(Addr), queue: Seq(Frame)]
Relayed == [frame: Frame, egress: Iface, dst: Addr]

Init ==
    /\ pc = "permissions"
    /\ user \in UserOptions
    /\ cred \in Credentials
    /\ socks = <<>>
    /\ index = FirstIndex
    /\ up = [f \in Iface |-> TRUE]
    /\ bcast \in [Iface -> UNION {Broadcasts[f] : f \in Iface}]
    /\ \A f \in Iface : bcast[f] \in Broadcasts[f]
    /\ devices = Cardinality(Iface)
    /\ sent = {} /\ exit_at = "none" /\ frames = 0 /\ events = 0
-----------------------------------------------------------------------------
(* The host *)

\* An AF_PACKET socket captures every interface until it is bound, then its own
\* one while that is up.
Captures(s, f) == s.bound = 0 \/ (s.bound = index[f] /\ up[f])

\* A frame arrives on f.  Every input socket that captures f gets it unless its
\* filter rejects it; what is queued stays, whatever the socket does next.  (The
\* queues of output sockets are never read.)
Arrive(f, dst) ==
    /\ frames < MaxFrames
    /\ index[f] # 0 /\ up[f]
    /\ frames' = frames + 1
    /\ socks' = [k \in DOMAIN socks |->
          LET s == socks[k]
          IN  IF /\ k <= Len(Input) /\ Captures(s, f)
                 /\ s.filtered => (IsMulticast(dst) \/ dst[4] = 255)
              THEN [s EXCEPT !.queue = Append(@, [on |-> f, dst |-> dst,
                                                  early |-> s.bound = 0])]
              ELSE s]
    /\ UNCHANGED <<pc, user, cred, host, sent, exit_at, events>>

Event == events < MaxEvents /\ events' = events + 1

LinkDown(f) ==
    /\ Event /\ up[f]
    /\ up' = [up EXCEPT ![f] = FALSE]
    /\ UNCHANGED <<pc, user, cred, socks, index, bcast, devices, sent, exit_at, frames>>

LinkUp(f) ==
    /\ ~up[f] /\ index[f] # 0
    /\ up' = [up EXCEPT ![f] = TRUE]
    /\ UNCHANGED <<pc, user, cred, socks, index, bcast, devices, sent, exit_at, frames,
                   events>>

\* The interface is deleted (a VPN tunnel ends, a veth pair is removed) ...
LinkDelete(f) ==
    /\ Event /\ index[f] # 0
    /\ index' = [index EXCEPT ![f] = 0]
    /\ up' = [up EXCEPT ![f] = FALSE]
    /\ UNCHANGED <<pc, user, cred, socks, bcast, devices, sent, exit_at, frames>>

\* ... and created again: the kernel gives out a new index.
LinkCreate(f) ==
    /\ index[f] = 0
    /\ devices' = devices + 1
    /\ index' = [index EXCEPT ![f] = devices + 1]
    /\ up' = [up EXCEPT ![f] = TRUE]
    /\ UNCHANGED <<pc, user, cred, socks, bcast, sent, exit_at, frames, events>>

Renumber(f, addrs) ==
    /\ Event /\ bcast[f] # addrs
    /\ bcast' = [bcast EXCEPT ![f] = addrs]
    /\ UNCHANGED <<pc, user, cred, socks, index, up, devices, sent, exit_at, frames>>
-----------------------------------------------------------------------------
(* main() *)

\* An error is returned from main: the process ends and its sockets are closed.
Fail ==
    /\ pc' = "exited"
    /\ socks' = <<>>
    /\ exit_at' = pc
    /\ UNCHANGED <<user, cred, host, sent, frames, events>>

\* main() goes on with the call at next; what it has done to its sockets and
\* credentials is left to the caller.
Proceed(next) ==
    /\ pc' = next
    /\ UNCHANGED <<user, host, sent, exit_at, frames, events>>

\* validate_permissions
ValidatePermissions ==
    /\ pc = "permissions"
    /\ \/ cred.euid = ROOT /\ Proceed("config") /\ UNCHANGED <<cred, socks>>
       \/ cred.euid # ROOT /\ Fail

\* Config::from_file, or allow_all() without -c.
LoadConfig ==
    /\ pc = "config"
    /\ \/ TRUE \in ConfigLoads /\ Proceed("interfaces") /\ UNCHANGED <<cred, socks>>
       \/ FALSE \in ConfigLoads /\ Fail

\* discover_interfaces: the names of the interfaces that are up.
discover_interfaces == {f \in Iface : index[f] # 0 /\ up[f]}

\* validate_startup
ValidateStartup ==
    /\ pc = "interfaces"
    /\ \/ /\ Range(Names) \subseteq discover_interfaces
          /\ Proceed("socket") /\ UNCHANGED <<cred, socks>>
       \/ ~(Range(Names) \subseteq discover_interfaces) /\ Fail

\* PacketSocket::new for the next name: socket() ...
OpenSocket ==
    /\ pc = "socket"
    /\ \/ /\ "NET_RAW" \in cred.caps
          /\ socks' = Append(socks,
                [ifname |-> Names[Len(socks) + 1], ifindex |-> 0, bound |-> 0,
                 filtered |-> FALSE, broadcast_addrs |-> <<>>, queue |-> <<>>])
          /\ Proceed("index") /\ UNCHANGED cred
       \/ "NET_RAW" \notin cred.caps /\ Fail

top  == Len(socks)
name == socks[top].ifname

\* ... if_nametoindex() ...
GetIndex ==
    /\ pc = "index"
    /\ \/ /\ index[name] # 0
          /\ socks' = [socks EXCEPT ![top].ifindex = index[name]]
          /\ Proceed("bind") /\ UNCHANGED cred
       \/ index[name] = 0 /\ Fail

\* The interface whose index was looked up still exists.
SameDevice == index[name] = socks[top].ifindex

\* Mutant: when the device is gone main() warns and goes on with its socket.
Bind_lenient ==
    /\ pc = "bind"
    /\ \/ /\ SameDevice
          /\ socks' = [socks EXCEPT ![top].bound = socks[top].ifindex]
          /\ Proceed("allmulti") /\ UNCHANGED cred
       \/ ~SameDevice /\ Proceed("filter") /\ UNCHANGED <<cred, socks>>

\* ... bind(), which also succeeds on an interface that is down ...
Bind ==
    /\ pc = "bind"
    /\ \/ /\ SameDevice
          /\ socks' = [socks EXCEPT ![top].bound = socks[top].ifindex]
          /\ Proceed("allmulti") /\ UNCHANGED cred
       \/ ~SameDevice /\ Fail

\* ... PACKET_ADD_MEMBERSHIP ...
AllMulti ==
    /\ pc = "allmulti"
    /\ \/ SameDevice /\ Proceed("filter") /\ UNCHANGED <<cred, socks>>
       \/ ~SameDevice /\ Fail

\* ... SO_ATTACH_FILTER ...
AttachFilter ==
    /\ pc = "filter"
    /\ socks' = [socks EXCEPT ![top].filtered = TRUE]
    /\ Proceed("addrs") /\ UNCHANGED cred

\* What main() does once the sockets are open.
AfterSockets == IF NoDrop THEN "running" ELSE "user"

\* Mutant: no fallback when getifaddrs() fails or finds nothing.
LookupBroadcasts_no_fallback ==
    /\ pc = "addrs"
    /\ \E found \in {bcast[name], <<>>} :
          socks' = [socks EXCEPT ![top].broadcast_addrs = found]
    /\ Proceed(IF top < Len(Names) THEN "socket" ELSE AfterSockets)
    /\ UNCHANGED cred

\* Mutant: the names of the entries of getifaddrs() are not compared.
LookupBroadcasts_any_interface ==
    /\ pc = "addrs"
    /\ \E found \in {bcast[f] : f \in Iface} :
          socks' = [socks EXCEPT ![top].broadcast_addrs = found]
    /\ Proceed(IF top < Len(Names) THEN "socket" ELSE AfterSockets)
    /\ UNCHANGED cred

\* ... and getifaddrs(), whose failure is not an error: an interface without a
\* known broadcast address gets the limited one.
LookupBroadcasts ==
    /\ pc = "addrs"
    /\ \E found \in {bcast[name], <<>>} :
          socks' = [socks EXCEPT ![top].broadcast_addrs =
                       IF found = <<>> \/ index[name] = 0
                       THEN <<LIMITED_BROADCAST>> ELSE found]
    /\ Proceed(IF top < Len(Names) THEN "socket" ELSE AfterSockets)
    /\ UNCHANGED cred
-----------------------------------------------------------------------------
(* drop_privileges; each call may be refused by the kernel *)

account == Users[user]

LookupUser ==
    /\ pc = "user"
    /\ \/ user \in DOMAIN Users /\ Proceed("setgroups") /\ UNCHANGED <<cred, socks>>
       \/ user \notin DOMAIN Users /\ Fail

SetGroups ==
    /\ pc = "setgroups"
    /\ \/ /\ "SETGID" \in cred.caps
          /\ cred' = [cred EXCEPT !.groups = {account.gid}]
          /\ Proceed("setgid") /\ UNCHANGED socks
       \/ "SETGID" \notin cred.caps /\ Fail

\* setgid() takes the capability setgroups() has just needed.
SetGid ==
    /\ pc = "setgid"
    /\ cred' = [cred EXCEPT !.gid = account.gid]
    /\ Proceed("setuid") /\ UNCHANGED socks

\* setuid(2): all three ids with CAP_SETUID, else only the effective one, and
\* only to the real or the saved id.  Leaving root clears the capabilities.
setuid(c, uid) ==
    LET caps == IF c.euid = ROOT /\ uid # ROOT THEN {} ELSE c.caps
    IN  IF "SETUID" \in c.caps
        THEN [c EXCEPT !.ruid = uid, !.euid = uid, !.suid = uid, !.caps = caps]
        ELSE [c EXCEPT !.euid = uid, !.caps = caps]
may_setuid(c, uid) == "SETUID" \in c.caps \/ uid \in {c.ruid, c.suid}

SetUid ==
    /\ pc = "setuid"
    /\ \/ /\ may_setuid(cred, account.uid)
          /\ cred' = setuid(cred, account.uid)
          /\ Proceed("regain") /\ UNCHANGED socks
       \/ ~may_setuid(cred, account.uid) /\ Fail

\* Mutant: only the effective uid is looked at.
can_regain_root_euid == cred.euid = ROOT

\* Mutant: the result of seteuid(0) is read the wrong way round.
can_regain_root_inverted ==
    ~(ROOT \in {cred.ruid, cred.euid, cred.suid} \/ "SETUID" \in cred.caps)

\* seteuid(0) succeeds.
can_regain_root == ROOT \in {cred.ruid, cred.euid, cred.suid} \/ "SETUID" \in cred.caps

CheckRegain ==
    /\ pc = "regain"
    /\ \/ ~can_regain_root /\ Proceed("running") /\ UNCHANGED <<cred, socks>>
       \/ can_regain_root /\ Fail
-----------------------------------------------------------------------------
(* The relay loop, the supervisor *)

\* The outputs a frame with destination dst, read from socket s, is sent on.
fanout(s, dst) ==
    {o \in {socks[k] : k \in (Len(Input) + 1)..Len(Names)} :
        /\ should_relay_to(dst, s.ifname, o.ifname, o.broadcast_addrs)
        /\ o.ifindex = index[o.ifname] /\ up[o.ifname]}

\* extract_packet_info looks at the destination again, filter or no filter.
checked(dst) == is_broadcast(dst)

RelayFrame(k) ==
    /\ pc = "running"
    /\ socks[k].queue # <<>>
    /\ LET s == socks[k]
           p == Head(s.queue)
       IN  sent' = sent \cup
             {[frame |-> p, egress |-> o.ifname,
               dst |-> IF IsMulticast(p.dst) THEN p.dst
                       ELSE nat_rewrite_target(p.dst, o.broadcast_addrs)] :
                 o \in {o \in fanout(s, p.dst) : checked(p.dst)}}
    /\ socks' = [socks EXCEPT ![k].queue = Tail(@)]
    /\ UNCHANGED <<pc, user, cred, host, exit_at, frames, events>>

\* A call fails for want of memory or descriptors; main() returns the error.
CallFails ==
    /\ Event
    /\ pc \in {"config", "interfaces", "socket", "index", "bind", "allmulti",
               "filter", "user", "setgroups", "setgid", "setuid"}
    /\ pc' = "exited" /\ socks' = <<>> /\ exit_at' = pc
    /\ UNCHANGED <<user, cred, host, sent, frames>>

\* systemd starts a new process (Restart=on-failure).
Restart ==
    /\ pc = "exited"
    /\ pc' = "permissions"
    /\ cred' \in Credentials
    /\ UNCHANGED <<user, socks, host, sent, exit_at, frames, events>>

StartupStep ==
    \/ ValidatePermissions \/ LoadConfig \/ ValidateStartup
    \/ OpenSocket \/ GetIndex \/ Bind \/ AllMulti \/ AttachFilter \/ LookupBroadcasts
    \/ LookupUser \/ SetGroups \/ SetGid \/ SetUid \/ CheckRegain

Next ==
    \/ StartupStep
    \/ \E k \in 1..Len(Input) : RelayFrame(k)
    \/ CallFails
    \/ Restart
    \/ \E f \in Iface :
          \/ \E dst \in Dests : Arrive(f, dst)
          \/ LinkDown(f) \/ LinkUp(f) \/ LinkDelete(f) \/ LinkCreate(f)
          \/ \E addrs \in Broadcasts[f] : Renumber(f, addrs)

Spec == Init /\ [][Next]_vars

\* The process is scheduled and systemd restarts it; the host owes nothing.
FairSpec == Spec /\ WF_vars(StartupStep) /\ WF_vars(Restart)
-----------------------------------------------------------------------------
(* Properties *)

TypeOK ==
    /\ pc \in {"permissions", "config", "interfaces", "socket", "index", "bind",
               "allmulti", "filter", "addrs", "user", "setgroups", "setgid",
               "setuid", "regain", "running", "exited"}
    /\ user \in UserOptions /\ cred \in Credential
    /\ socks \in Seq(Socket) /\ Len(socks) <= Len(Names)
    /\ index \in [Iface -> Nat] /\ up \in [Iface -> BOOLEAN]
    /\ bcast \in [Iface -> Seq(Addr)] /\ devices \in Nat
    /\ sent \subseteq Relayed
    /\ frames \in Nat /\ events \in Nat

\* Unless --no-drop is given, the relay loop runs only as the account of -u,
\* with no group but its own, no capability and no way back to root, however the
\* process was started and whichever call of the drop fails.
RunsUnprivileged ==
    pc = "running" /\ ~NoDrop =>
        /\ cred.euid = account.uid /\ cred.gid = account.gid
        /\ cred.groups = {account.gid}
        /\ cred.caps = {} /\ ROOT \notin {cred.ruid, cred.euid, cred.suid}

\* A socket of the relay: filtered, with an address to rewrite to, and bound to
\* a device its interface name stood for.
Complete(s) ==
    /\ s.filtered /\ s.broadcast_addrs # <<>>
    /\ s.bound # 0 /\ s.bound = s.ifindex

\* When the loop runs every interface of the command line has its socket, in
\* order, set up to the last call, although interfaces may have gone away and
\* come back under another index between any two calls; and none is left behind
\* by a process that gave up.
NeverHalfStarted ==
    /\ pc = "running" =>
          /\ Len(socks) = Len(Names)
          /\ \A k \in DOMAIN socks : socks[k].ifname = Names[k] /\ Complete(socks[k])
    /\ pc = "exited" => socks = <<>>

\* Frames that waited in a socket since before it was bound and filtered apart,
\* what is relayed came in on an input interface and goes out of another one;
\* what is not a broadcast is not relayed even if it was captured before the
\* filter was attached.
OnlyEarlyStray ==
    \A m \in sent :
        /\ is_broadcast(m.frame.dst)
        /\ ~m.frame.early => m.frame.on \in Range(Input) /\ m.frame.on # m.egress

\* The broadcast addresses interface f may have over time, and the one that is
\* used when it has none.
OwnAddrs(f) == {LIMITED_BROADCAST} \cup UNION {Range(b) : b \in Broadcasts[f]}

\* What is relayed goes to a group or to an address that the output interface
\* has, or had before it was renumbered; never to one of another interface,
\* whichever interface the frame was captured on before bind().
OwnSegmentOnly == \A m \in sent : IsMulticast(m.dst) \/ m.dst \in OwnAddrs(m.egress)

\* Why: so are the addresses each socket was opened with.
AddressInv ==
    /\ \A f \in Iface : bcast[f] \in Broadcasts[f]
    /\ \A k \in DOMAIN socks :
          Range(socks[k].broadcast_addrs) \subseteq OwnAddrs(socks[k].ifname)
    /\ OwnSegmentOnly

\* Why the others hold: what is set up after each call ...
Opening == {"index", "bind", "allmulti", "filter", "addrs"}
Opened  == {"user", "setgroups", "setgid", "setuid", "regain", "running"}
SocketsInv ==
    /\ pc \in {"permissions", "config", "interfaces", "exited"} => socks = <<>>
    /\ pc = "socket" => Len(socks) < Len(Names)
    /\ pc \in Opening => Len(socks) > 0
    /\ pc \in Opened => Len(socks) = Len(Names)
    /\ \A k \in DOMAIN socks : socks[k].ifname = Names[k]
    /\ \A k \in DOMAIN socks :
          (k < Len(socks) \/ pc \notin Opening) => Complete(socks[k])
    /\ pc = "index" => socks[top].bound = 0
    /\ pc \in {"bind", "allmulti", "filter", "addrs"} => socks[top].ifindex # 0
    /\ pc \in {"allmulti", "filter", "addrs"} => socks[top].bound = socks[top].ifindex
    /\ pc = "addrs" => socks[top].filtered
PrivilegeInv ==
    /\ pc \in {"setgroups", "setgid", "setuid", "regain"} => user \in DOMAIN Users
    /\ pc \in {"config", "interfaces", "socket", "user", "setgroups", "setgid",
               "setuid"} \cup Opening => cred.euid = ROOT
    /\ pc \in {"setgid", "setuid", "regain"} => cred.groups = {account.gid}
    /\ pc \in {"setuid", "regain"} => cred.gid = account.gid
    /\ pc = "regain" => /\ cred.euid = account.uid
                        /\ account.uid # ROOT => cred.caps = {}
\* ... an index stands for one device for ever, and so for one name ...
DeviceInv ==
    /\ \A f, h \in Iface : (index[f] = index[h] /\ index[f] # 0) => f = h
    /\ \A f \in Iface : index[f] <= devices
    /\ \A k \in DOMAIN socks :
          /\ socks[k].ifindex <= devices
          /\ socks[k].bound \in {0, socks[k].ifindex}
          /\ \A f \in Iface : (index[f] = socks[k].ifindex /\ index[f] # 0)
                                 => f = socks[k].ifname
\* ... and what waits in a bound socket came from its interface.
QueueInv ==
    \A k \in DOMAIN socks :
        \A n \in DOMAIN socks[k].queue :
            ~socks[k].queue[n].early => socks[k].queue[n].on = socks[k].ifname
StartInv == /\ TypeOK /\ SocketsInv /\ PrivilegeInv /\ DeviceInv /\ QueueInv
            /\ RunsUnprivileged /\ OnlyEarlyStray

Usable == \A f \in Range(Names) : index[f] # 0 /\ up[f]

\* A process that may be started, on a host whose interfaces are there from some
\* time on, ends up relaying, however many starts fail before.
EventuallyRunning == <>[]Usable => <>[](pc = "running")
=============================================================================
