# A TLA+ model of bcr

bcr is a single-threaded broadcast relay for Linux: it captures UDP broadcast and
multicast frames on its input interfaces and sends rewritten copies out of its output
interfaces. This directory holds a model of it in TLA+, the TLC runs that check the
model on small instances, and TLAPS proofs for instances of every size.

## Inventory

| Part (source) | State | Operations | Hard behaviour |
| --- | --- | --- | --- |
| Relay loop (`relay.rs`) | `recv_buf`, `read_fds`, position in the scan and in the fan-out | select, timeout, recv, loop check, parse, filter, rate limit, fan-out, send | other instances, hosts and links act between any two system calls; own output is captured again; errors in the middle of a fan-out |
| Packet checks (`packet.rs`) | none | `validate_ipv4_header`, `extract_packet_info`, `is_broadcast`, `is_already_relayed` | four length fields that can disagree; the marker |
| NAT (`nat.rs`) | the frame, rewritten in place | `apply_nat`, `apply_udp_nat` | order of rewriting and checksums |
| Rules (`config.rs`, `filter.rs`) | the rule list, fixed at startup | `find_match`, `should_relay`, `get_nat_rule` | first match wins, searched twice per frame |
| Parser (`config.rs`) | the lines read so far and their rules | `from_file`, `parse`, `parse_rule` and the functions below it | a word that is nearly right must not make a rule that does less than its text says; number boundaries |
| Rate limiter (`ratelimit.rs`) | tokens, time of last call | `new`, `allow` | bursts after idling, refused calls, restart |
| Sockets (`socket.rs`) | kernel receive queue, pending errors of input and output sockets, cached addresses | `new`, `recv`, `send`, BPF filter, `dest_mac` | bounded queue, ENETDOWN, steps of `new` are not atomic |
| Startup (`main.rs`, `interface.rs`) | credentials, open sockets | permission check, configuration, interface check, sockets, privilege drop | a call that fails in the middle; interfaces that change between the check and the use; frames that arrive before a socket is bound |
| Logging (`logging.rs`), packaging | none | one line per event; systemd restarts on failure | |

The relay loop calls everything else synchronously. Instances interact only through
frames on shared segments. What makes each part correct, and where it could go wrong, is
listed under `hazards` in `PROJECT.json`, at its source line, with the properties that
would notice.

## Modules

`Packet` <- `Config` <- `NatRewrite` <- `PacketSocket` <- `Relay` (each extends the one
before; `Relay` also extends `TokenBucket` and instantiates `RelayContract`);
`TokenBucket` <- `RateLimiter`, which instantiates `RateContract`; `NatRewrite` <-
`ConfigParser` and `Startup`; `PacketSocket` <- `BpfFilter` and `RelayContract`.

* **Packet** (`packet.rs`). A frame is a record of the header fields bcr reads or writes.
  `len` is the captured length, `total` the IP total length, `ulen` the UDP length. A
  checksum is the record of what it was computed over: it is valid when that equals what
  the receiver computes it over. `off` and `more` are the fragment fields, which bcr does
  not read: in a later fragment the UDP fields are the payload bytes in their place. The
  functions of the source are operators of the same
  name; an `Option` result becomes a predicate.
* **Config** (`config.rs`, `filter.rs`). Matchers, rules, first-match search, the filter's
  two questions. An `Option` is a set of at most one element.
* **NatRewrite** (`nat.rs`, `should_relay_to`, `nat_rewrite_target`). The rewriting as functions on frames.
  `apply_udp_nat` takes the checksum over the captured slice, because pnet derives the
  pseudo-header length from the slice it is given.
* **PacketSocket** (`socket.rs`). The BPF program as a predicate, and `dest_mac`.
* **TokenBucket** (`ratelimit.rs`). The limiter as functions of its state. Tokens are
  counted in units of 1/TicksPerSec, which makes `elapsed * rate` exact; the rounding of
  f64 is not modelled.
* **Relay** (`relay.rs`, with the startup of `main.rs`). A set of instances on a set of
  segments. An instance's thread is `pc` (select, scan, fanout, stopped), `ready`
  (`read_fds`), `cur` (position of the scan), `buf` (`recv_buf` with the rule found),
  `out` (position of the fan-out) and `rl`. Between two system calls the code runs
  atomically, since it shares nothing: `Select`/`SelectTimeout`, `SkipSocket`,
  `RecvError`, `DropFrame`, `RateLimited`, `Accept` (a read and steps 1 to 5 of the hot
  path), `EndScan`, `SkipOutput`, `Send`, `SendError`, `EndFanout`.
  `HostSend`, `LinkDown`, `LinkUp`, `Tick` are the surroundings; `Exit` and `Restart` end
  a process at any point and start it again with empty sockets and a full bucket, once
  every interface is up (`validate_startup`).
  `Deliver` is the kernel: a frame sent on a segment enters the queue of every input
  socket bound to an up interface of that segment that passes the filter and has room.
  This includes the sender's own sockets, since an `AF_PACKET` socket bound with
  `ETH_P_ALL` captures outgoing frames of other sockets.
  `LinkDown` posts ENETDOWN to every socket of the interface (`sockerr`, `outerr`). A read
  returns it, and so does the first `sendto` after the link is back. `SendError` is a `sendto`
  that fails for that reason, because the link is down, or for any other (a rewritten frame
  that is too long, a full buffer); the code treats them alike.
  `originals`, `wire`, `bypass` and `lost` are history variables.
* **RateLimiter** is the limiter in use (`Tick`, `Allow`, `Drop`); **RateContract** is what
  it promises, without a bucket: admit a packet exactly when every window still fits.
* **RelayContract** is what the hosts may rely on, without processes, sockets, queues or a
  clock: `HostSend`, and `Relay`, which puts one copy of a host's frame on a segment in one
  step, under the first rule that matches the frame as the host sent it. `Relay` implements
  it under the identity on `originals` and `wire`: everything between a read and a send is
  a stutter.
* **Startup** (`main.rs`, `interface.rs`, `PacketSocket::new`). One process from its start
  to its loop. `pc` is the system call `main()` is about to make: `ValidatePermissions`,
  `LoadConfig`, `ValidateStartup`, for each name of the command line `OpenSocket`,
  `GetIndex`, `Bind`, `AllMulti`, `AttachFilter`, `LookupBroadcasts`, then `LookupUser`,
  `SetGroups`, `SetGid`, `SetUid`, `CheckRegain`. Each fails when the kernel has a reason
  to (a missing capability, a device that is gone) and `CallFails` makes any of them fail
  without one; `Fail` closes the sockets. The host acts in between: `Arrive`, `LinkDown`,
  `LinkUp`, `LinkDelete`, `LinkCreate` (a new index), `Renumber`. `RelayFrame` is the loop
  reduced to one step per frame, enough to see what it makes of the sockets it was given.
  `Restart` is systemd. Credentials are uids, gid, groups and the three capabilities that
  matter; `setuid` follows setuid(2).
* **ConfigParser** (`config.rs`). A line is a record of its words, a word what tells it
  apart for the parser; numbers keep the value of the text, which may be out of range. A
  `Result` is a set, empty for `Err`. The functions keep their names; `Read`, `SkipLine`,
  `PushRule`, `Reject`, `Accept` are the loop of `parse`.
* **BpfFilter** (`attach_packet_filter`). The twelve instructions, and the kernel's machine
  that runs them on one frame.
* **RelayProofs**, **RelayOriginProofs**, **RelayFlowProofs**, **RateLimiterProofs**,
  **StartupProofs**, **ConfigParserProofs**, **BpfFilterProofs** hold the theorems,
  **MinMaxLemmas** what they share.
* **MCFrames**, **MCRing**, **MCGateway**, **MCTwin**, **MCFlood**, **MCRateLimiter**,
  **MCStartup**, **MCConfigParser**, **MCBpfFilter** give the constants their values;
  **MCDocClaims**, **MCDocStartup** add what the documentation says.

Operators marked "Mutant" are deliberately wrong variants of the definition that follows
them. Each property is known to fail when one of them takes the place of the original.

## Runs

| Run | Instance and bounds | Shows |
| --- | --- | --- |
| `ring` (`MCRing.cfg`) | 3 two-way relays, 3 segments in a ring, 2 multicast frames, 937,006 states | `LoopFree`, `OrderedOnce` |
| `twin_live` (`MCTwinLive.cfg`) | 2 relays that hear each other on 2 segments, one with a third behind it, a deny rule, one of 2 frames, one fault, one other `sendto` error, 59,002 states | `Quiescence`, `EventualDelivery`, `RefinesRelayContract` |
| `gateway` (`MCGateway.cfg`) | 1 relay, 3 segments, 5 rules, any 2 of 17 frames | `OriginInv`, `OrderInv`, `PolicyOnly`, `IntactChecksums`, `DeliverableOnSegment`, `FanoutCannotFail` |
| `flood` (`MCFlood.cfg`) | 2 inputs, 2 outputs, limiter, 4 frames, queues of 3, 2 ticks, one fault, 913,446 states | `TypeOK`, `StormInv`, `StormCap`, `BypassInv`, `BoundedBypass`, `ReportStands` |
| `rate_limiter` (`MCRateLimiter.cfg`) | rate 2 per 5 ticks, burst 2, 12 ticks | `WindowBound`, `BucketIsLeastSlack`, `RefinesContract` |
| `startup` (`MCStartup.cfg`) | 1 input, 2 outputs on 2 interfaces, 9 ways to be started, 3 users, 1 frame, 1 change or failing call, 2,054,632 states | `StartInv`, `RunsUnprivileged`, `NeverHalfStarted`, `OnlyEarlyStray`, `OwnSegmentOnly` |
| `startup_live` (`MCStartupLive.cfg`) | 1 input, 1 output, 3 changes or failing calls | `EventuallyRunning` |
| `config_parser` (`MCConfigParser.cfg`) | all files of up to 2 of 63 lines, 150 probe packets | `ParseInv`, `MeaningInv`, `MeansWhatItSays`, `StrictlyParsed` |
| `bpf_filter` (`MCBpfFilter.cfg`) | 4,224 frames: 11 lengths, 4 versions, 3 header lengths, 4 protocols, 8 destinations | `FilterInv`, `FilterExact`, `FilterLosesNothing` |

The ring carries multicast because that is the frame that could go round: a limited
broadcast becomes a directed one of the next segment, which no other segment owns, so
the rewriting alone stops it (a relay that writes only half of the marker passes the same
run with limited broadcasts). Two frames are the smallest number that can overtake
each other. The gateway frames cover each rule, each destination kind, IP options,
truncation, padding, a missing checksum, an invalid source, an accidental marker and two
fragments. In
`twin_live` each relay hears what the other sends on either segment. A frame of segment A has
two outputs in one of the relays, so that the second one is seen to get it when `sendto` fails
on the first, and one fault is enough for a link to go down and come back with the error still
pending. In `flood` three frames on one input are enough to overtake one on
the other three times, once more than allowed; the queues are smaller than the number of
frames, so they overflow, and two ticks earn the limiter one token. In `rate_limiter` the rate does
not divide the clock's resolution. In `startup` one change is enough for an interface to be
deleted and created again between any two calls, and one of the two outputs is the input
interface itself. A start costs up to 23 steps; three changes in `startup_live` allow three
failed starts in a row. The parser works line by line, and a rule interacts with another one
only through the order of two, so two lines are enough; every word of the pool comes with
the values on both sides of its boundaries (136/137, 65535/65536, /0, /16, /17, /31, /32, /33).
The lengths of `bpf_filter` lie on both sides of every offset the program loads.

Bounds: `MaxInject`, `MaxTime` and `MaxFaults` cap the surroundings and are guards of
`HostSend`, `Tick` and `LinkDown`/`Exit`; `MaxLost` is the number of lost frames from which on
`sendto` fails only because of a link (without it every one could fail); `QueueCap` is the
receive buffer. `MaxFrames` and
`MaxEvents` cap what happens around a starting process. The runs of `Relay` and the limiter
check for deadlock: a relay that has nothing to do is in `SelectTimeout`. The other three
switch the check off: a parsed file and a filtered frame are final, and `Startup` leaves the
idle loop to `Relay`.

**Fairness.** `FairSpec` assumes only that the thread of each running instance keeps being
scheduled (weak fairness of its own steps). Hosts, links, the clock, faults and restarts
are under no obligation, and `sendto` may fail. `EventualDelivery` therefore promises that
`sendto` is called for every output a frame is meant for: it is on the wire, or in `lost` for
that very output, unless the process has ended. The state of a link is no excuse. `Startup!FairSpec` assumes that the process is scheduled
and that systemd restarts it (`Restart=on-failure` in `packaging/systemd/bcr.service`);
interfaces need not come back, so `EventuallyRunning` speaks of hosts on which they do.

### What the code does and its documentation does not say

Each of these runs checks one sentence of the documentation and ends in a counterexample.

| Run | Sentence | What happens |
| --- | --- | --- |
| `doc_dhcp` | "Relay DHCP discover/offer broadcasts" (`examples/sample.conf:35`) | `packet.rs:67` drops every frame from 0.0.0.0, which is what a host without an address sends from |
| `doc_checksum` | "recomputes a **valid** UDP checksum on every relayed packet" (`README.md:209`) | the checksum of a frame padded to the Ethernet minimum covers the padding's length (`nat.rs:67`); receivers drop it |
| `doc_echo` | "never back out the interface it arrived on" (`bcr.8:40`) | a frame captured between `socket()` and `bind()` counts as one of the socket's interface (`socket.rs:25`) |

`IntactChecksums` and `OnlyEarlyStray` state the same matters with the exceptions the code
makes, and hold. More places where code and documentation differ, which the definitions of
the model show and for which there is no run. The first two are disagreements about the
configuration language; the properties of the parser follow the documentation and except
them by name:

* "SRC_IP[:SRC_PORT] DST_IP[:DST_PORT]" (`README.md:111`, `bcr.8:117`,
  `examples/sample.conf:4`): the ports are not optional; a line without one is an error
  (`config.rs:286`, `config.rs:364`). `Faulty` is what the documentation calls wrong,
  `OmitsPort` this case; `StrictlyParsed` says that an error names the first line of either kind.
* "`directed` — a subnet-directed broadcast" (`README.md:135`, `bcr.8:147`): a multicast group
  that ends in 255, such as 239.255.255.255, matches as well (`config.rs:135`). `SaysIp` has the
  documented meaning, for networks of 24 bits as in its example; `DirectedGroup` is this case,
  which `MeansWhatItSays` leaves out. It is among the probes of the run: without the exception
  the property fails on it.
* "a directed broadcast goes only to an interface that owns the matching subnet broadcast
  address" (`relay.rs:163`): one that does not end in 255 (a /26, say) never gets that far; the
  BPF filter (`socket.rs:172`) and `packet.rs:96` drop it (`bpf_accepts`, `is_broadcast`).
* "relayed packets keep their L4 integrity" (`nat.rs:35`): the received checksum is never
  verified, so a damaged datagram leaves with a valid one (`apply_udp_nat`).
* "receivers ignore the Identification field for non-fragmented datagrams, so it is a free
  signal" (`packet.rs:105`): fragments are relayed too, all with one Identification
  (`MarkRelayed`), and in a later fragment the checksum is written over payload
  (`apply_udp_nat`). `Exact` excepts fragments from `IntactChecksums`.
* "Log one line to STDOUT" (`README.md:191`): only with `-v` (`relay.rs:135`; `Send`).
* "must be started as root (or with CAP_NET_RAW)" (`bcr.8:46`): only root passes
  (`main.rs:245`; `ValidatePermissions`).
* "exits non-zero on ... a missing or down interface" (`bcr.8:209`): interfaces are looked at
  once, before the sockets are opened, and `bind()` takes one that is down (`Bind`).
* "rewrite the destination to that segment's broadcast" (`README.md:187`): the addresses are
  read when the socket is opened (`socket.rs:92`) and never again. `OwnSegmentOnly` says how
  far off they can be: an address the interface had before, never one of another interface.

## Proofs

All theorems hold for every value of the constants that satisfies the named assumptions
`TicksPerSecAssumption` (a positive resolution), `RateLimiterAssumption`,
`RelayAssumption` (the types of the command-line options and of the configuration; in
particular any number of instances, any assignment of interfaces to segments, and
frames with arbitrary header fields), `BroadcastAssumption` (broadcast addresses of an
interface are not multicast groups), `FilesAssumption`, `ProbesAssumption` and
`CapturedAssumption` (types of lines, of what `extract_packet_info` returns, and of
frames) and `StartupAssumption` (types; finitely many interfaces with
distinct indices).

* `LoopInvTheorem`, `TypeOKTheorem`, `LoopFreeTheorem`, `FanoutCannotFailTheorem`
  (`RelayProofs`). `LoopFree` speaks of frames already sent and is not inductive. The
  inductive invariant `LoopInv` adds: a queued frame has been relayed at most once, and if
  it has it carries the marker in a valid header; a frame being fanned out is fresh, was
  accepted by `extract_packet_info` and has a rule; no limiter is ahead of the clock. The
  key lemma is `ApplyNatMarks`: what `apply_nat` makes of a frame with a valid header
  satisfies `is_already_relayed`, whatever the rule rewrites. `FanoutCannotFail` follows
  from `ParsedCanBeRewritten`: the lengths checked while parsing suffice for rewriting.
* `OriginInvTheorem`, `RelayContractTheorem`, `PolicyOnlyTheorem`,
  `IntactChecksumsTheorem`, `DeliverableTheorem` (`RelayOriginProofs`). These relate a sent
  frame to what a host sent, possibly long before. `OriginInv` adds to `LoopInv` where each
  frame in flight comes from: a fresh frame in a queue is the host's frame unchanged and lies
  in a socket of the segment it was sent on (`QueueOrigin`); a frame being fanned out is one
  that came in fresh, with the rule that was found for it (`FanoutOrigin`); a frame on the
  wire is the copy `apply_nat` makes of a host's frame for that output (`WireOrigin`). The
  refinement then follows step by step (only `Send` is not a stutter), and the three
  invariants are lemmas about `apply_nat` applied to a host's frame (`CopyFacts`).
* `OrderInvTheorem`, `OrderedOnceTheorem` (`RelayFlowProofs`). `OrderedOnce` compares two
  frames on the wire and says nothing of those still on their way. `OrderInv` adds to
  `OriginInv` that the frames read from one interface are numbered upwards along their whole
  way: what an instance has sent for an interface precedes the frame in its buffer, which
  precedes the fresh frames of the socket's queue (`WireInTurn`, `FanoutOrder`, `QueueOrder`); what has
  been sent for the frame in the buffer itself went to an output the fan-out has passed.
  `WirePlaced` ties a sent frame to the segments of its two interfaces, so that two inputs
  cannot deliver the same host frame.
* `StormInvTheorem`, `StormCapTheorem` (`RelayFlowProofs`). The number of frames sent does not
  bound itself: `StormInv` is an account in which accepting a frame moves one token per output
  from the bucket to the outputs the fan-out has left, and sending moves it on to the wire. The
  sum stays within what the buckets of all processes so far and the time of the last refill
  allow. A process that ends takes its tokens and outputs along; the next one brings a full
  bucket, paid for by the fault that made room for it. Sends are counted by `Cardinality` of
  the wire's positions, so the invariant also says that they are finitely many.
* `BypassInvTheorem`, `BoundedBypassTheorem` (`RelayFlowProofs`). The bound 2(n - 1) is not
  inductive; `BypassInv` gives the bound at each place of the scan: before the scan has
  reached a socket in `ready`, the n - 1 reads of an earlier scan and those of this one so far;
  after it, only the reads since; for a socket that is not in `ready`, only those of this scan,
  as its queue was empty when `select()` returned.
* `ReportStandsTheorem` (`RelayFlowProofs`). Inductive together with `LoopInv`: only the scan
  itself takes frames or errors out of a socket, and it never comes back to one.
* `FilterInvTheorem`, `FilterExactTheorem`, `FilterLosesNothingTheorem`
  (`BpfFilterProofs`). `FilterInv` annotates each instruction with what the instructions
  before it have established.
* `ParseInvTheorem`, `StrictlyParsedTheorem` (`ConfigParserProofs`). The lemmas say for each
  parsing function that it fails exactly on the faulty words, so `parse_rule` fails exactly
  on the lines that are faulty or omit a port (`Refused`); `ParseInv` carries this along the loop.
* `MeaningInvTheorem`, `MeansWhatItSaysTheorem` (`ConfigParserProofs`). The rules do not say
  which lines they came from; `MeaningInv` asserts a map from the rules to the lines with
  words read so far, increasing and onto, under which each rule is what `parse_rule` makes of
  its line. It is extended by one with each rule (`TracesPush`). A rule matches exactly the
  packets its line speaks of, `DirectedGroup` excepted (`RuleSays`), hence the first rule that matches is that of the
  first line that does. For a prefix this is `MaskBits`: two addresses agree after masking
  octet by octet iff their first n bits agree, from `OctetPrefix` for one octet.
* `StartInvTheorem`, `RunsUnprivilegedTheorem`, `NeverHalfStartedTheorem`,
  `OnlyEarlyStrayTheorem`, `OwnSegmentOnlyTheorem` (`StartupProofs`). None of the four is
  inductive. `StartInv` says
  what holds at each call: which sockets exist and how far the last one is set up
  (`SocketsInv`), what the drop has achieved (`PrivilegeInv`), that an index never stands
  for two devices, before or after a deletion (`DeviceInv`), and that what a bound socket
  has captured came from its interface (`QueueInv`). For `OwnSegmentOnly` it takes
  `AddressInv` as well: a socket has only addresses of its own interface.
* `BucketTheorem`, `WindowBoundTheorem`, `ContractTheorem` (`RateLimiterProofs`). A bound
  on tokens says nothing of a window in the past; `BucketIsLeastSlack` relates the tokens
  to the whole history: they are the least of "burst plus rate times elapsed minus packets"
  over all windows that end now, or the full bucket. Hence no window is exceeded, and
  `allow()` answers as `RateContract` does.

Every invariant and both refinements the runs check are proved. Only model-checked are the
liveness properties `EventualDelivery`, `Quiescence` and `EventuallyRunning`, which need
fairness and are outside the prover's reach. The three inductive invariants of
`RelayFlowProofs` hold on the instances of `gateway` and `flood` alike; to keep the runs
short, `OrderInv` is part of `gateway` and the other two of `flood`.

## Not modelled

* Floating-point rounding in the rate limiter: tokens are exact.
* The characters of a configuration: how a word is told to be a number, a range or an
  address (`split`, `strip_prefix`, a leading `+` of a number).
* Wording of the log and of errors, the banner, the warnings of `validate_startup`.
* The receive queues of output sockets, which are never read.
* An interface named twice with `-i` or `-o`: the relay does what it does for two interfaces;
  `OrderedOnce` is not stated for it.
* Scripts and the manual page; the stub of `PacketSocket` for other systems than Linux.

`PROJECT.json` lists the hazards that remain without a property, with reasons.

## Plan

Done: packet checks with fragments, rules, rewriting, relay loop with several instances and
faults and its contract, rate limiter with its contract, startup with a changing host, the
parser, the filter program; proofs of every invariant and refinement the runs check.

Next: the part of `Quiescence` that needs no fairness, as an action property: every step an
instance takes between two calls of `select()` brings it nearer to the next one. With
`ReportStands`, every such round takes a frame or an error out of a socket.
