----------------------------- MODULE MCStartup ------------------------------
(* A host with two interfaces between which bcr relays, one or both ways.   *)
EXTENDS Startup

HostIface  == {"lan", "iot"}
HostIndex  == [lan |-> 1, iot |-> 2]
OneIn      == <<"lan">>
OneOut     == <<"iot">>
BothWays   == <<"lan", "iot">>
Addr1      == <<<<10, 0, 1, 255>>>>
Addr2      == <<<<10, 0, 2, 255>>>>
Addr2New   == <<<<10, 0, 9, 255>>>>
HostAddrs  == [lan |-> {Addr1}, iot |-> {Addr2, Addr2New}]
FixedAddrs == [lan |-> {Addr1}, iot |-> {Addr2}]
Accounts   == [root |-> [uid |-> 0, gid |-> 0],
               nobody |-> [uid |-> 65534, gid |-> 65534]]
AllDests   == {LIMITED_BROADCAST, <<10, 0, 2, 255>>, <<10, 0, 1, 7>>}
OneDest    == {LIMITED_BROADCAST}

Root == [ruid |-> 0, euid |-> 0, suid |-> 0, gid |-> 0, groups |-> {0, 4},
         caps |-> Cap]
\* A set-user-id binary of root, started by the user nobody.
SetuidRoot == [Root EXCEPT !.ruid = 65534, !.gid = 65534]
\* An ordinary user, with file capabilities.
NetRaw == [Root EXCEPT !.ruid = 65534, !.euid = 65534, !.suid = 65534,
                       !.caps = {"NET_RAW"}]
\* Root in containers that withhold capabilities.
Withheld == {[c EXCEPT !.caps = Cap \ {x}] : c \in {Root, SetuidRoot}, x \in Cap}

JustRoot   == {Root}
AnyUser    == {"nobody", "root", "nosuchuser"}
AllStarts  == {Root, SetuidRoot, NetRaw} \cup Withheld
=============================================================================
