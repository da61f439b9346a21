----------------------------- MODULE BpfFilter ------------------------------
(***************************************************************************)
(* The program attach_packet_filter (src/socket.rs) gives to the kernel,   *)
(* run on one frame by the kernel's classic-BPF machine, instruction by    *)
(* instruction.  PacketSocket!bpf_accepts is what the other modules use    *)
(* for it, and extract_packet_info is what looks at the frame afterwards.  *)
(***************************************************************************)
EXTENDS PacketSocket

CONSTANT Captured  \* the frames that reach the socket

ASSUME CapturedAssumption == Captured \subseteq Packet

ld(k)          == [op |-> "ld", k |-> k, jt |-> 0, jf |-> 0]
and_f0         == [op |-> "and", k |-> 240, jt |-> 0, jf |-> 0]
jeq(k, jt, jf) == [op |-> "jeq", k |-> k, jt |-> jt, jf |-> jf]
ret(k)         == [op |-> "ret", k |-> k, jt |-> 0, jf |-> 0]

\* Mutant: the jump to accept is one instruction short.
prog_short_jump ==
    << ld(0), and_f0, jeq(64, 0, 8), ld(9), jeq(17, 0, 6), ld(16), and_f0,
       jeq(224, 1, 0), ld(19), jeq(255, 0, 1), ret(262144), ret(0) >>

\* Mutant: offsets counted from the Ethernet header, as in an earlier version.
prog_from_l2 ==
    << ld(14), and_f0, jeq(64, 0, 8), ld(23), jeq(17, 0, 6), ld(30), and_f0,
       jeq(224, 2, 0), ld(33), jeq(255, 0, 1), ret(262144), ret(0) >>

prog ==
    << ld(0), and_f0, jeq(64, 0, 8), ld(9), jeq(17, 0, 6), ld(16), and_f0,
       jeq(224, 2, 0), ld(19), jeq(255, 0, 1), ret(262144), ret(0) >>

\* The bytes of the IP header that instructions read (0 for the others).
Byte(p, k) ==
    CASE k = 0 -> 16 * p.version + p.ihl
      [] k = 9 -> p.proto
      [] k \in 12..15 -> p.src[k - 11]
      [] k \in 16..19 -> p.dst[k - 15]
      [] OTHER -> 0
-----------------------------------------------------------------------------
VARIABLES pkt, pc, A, verdict
vars == <<pkt, pc, A, verdict>>

Init == pkt \in Captured /\ pc = 0 /\ A = 0 /\ verdict = "none"

insn == prog[pc + 1]
Runs(op) == verdict = "none" /\ insn.op = op

\* A load outside the frame ends the program: the frame is rejected.
Load ==
    /\ Runs("ld") /\ UNCHANGED pkt
    /\ \/ /\ pkt.len > insn.k
          /\ A' = Byte(pkt, insn.k) /\ pc' = pc + 1 /\ UNCHANGED verdict
       \/ pkt.len <= insn.k /\ verdict' = "reject" /\ UNCHANGED <<A, pc>>

\* The only mask of the program is 0xf0, on a byte.
And ==
    /\ Runs("and")
    /\ A' = HighBits(A) /\ pc' = pc + 1
    /\ UNCHANGED <<pkt, verdict>>

JumpIfEqual ==
    /\ Runs("jeq")
    /\ pc' = pc + 1 + (IF A = insn.k THEN insn.jt ELSE insn.jf)
    /\ UNCHANGED <<pkt, A, verdict>>

\* ret: the number of bytes to keep.
Return ==
    /\ Runs("ret")
    /\ verdict' = (IF insn.k > 0 THEN "accept" ELSE "reject")
    /\ UNCHANGED <<pkt, pc, A>>

Next == Load \/ And \/ JumpIfEqual \/ Return

Spec == Init /\ [][Next]_vars
-----------------------------------------------------------------------------
(* Properties *)

TypeOK ==
    /\ pkt \in Packet /\ pc \in 0..11 /\ A \in Octet
    /\ verdict \in {"none", "accept", "reject"}

\* The program accepts exactly the frames bpf_accepts describes, of any length.
FilterExact ==
    /\ verdict = "accept" => bpf_accepts(pkt)
    /\ verdict = "reject" => ~bpf_accepts(pkt)

\* No frame that the relay would take is lost in the kernel: what the program
\* rejects, extract_packet_info would have rejected as well.
FilterLosesNothing == verdict = "reject" => ~extract_packet_info(pkt)

\* What holds before each instruction of a frame that has come that far.
FilterInv ==
    /\ TypeOK /\ FilterExact
    /\ verdict = "none" =>
          /\ pc > 2 /\ pc < 11 => pkt.len > 0 /\ pkt.version = 4
          /\ pc > 4 /\ pc < 11 => pkt.len > 9 /\ pkt.proto = UDP
          /\ pc > 5 /\ pc < 11 => pkt.len > 16
          /\ pc = 1 => pkt.len > 0 /\ A = Byte(pkt, 0)
          /\ pc = 2 => pkt.len > 0 /\ A = 16 * pkt.version
          /\ pc = 4 => pkt.len > 9 /\ A = pkt.proto
          /\ pc = 6 => A = pkt.dst[1]
          /\ pc = 7 => A = HighBits(pkt.dst[1])
          /\ pc \in {8, 9} => HighBits(pkt.dst[1]) # 224
          /\ pc = 9 => pkt.len > 19 /\ A = pkt.dst[4]
          /\ pc = 10 => bpf_accepts(pkt)
          /\ pc = 11 => ~bpf_accepts(pkt)
=============================================================================
