--------------------------- MODULE BpfFilterProofs --------------------------
(***************************************************************************)
(* That the filter program decides as the rest of the project takes it to, *)
(* for every frame.  FilterInv says what is known before each instruction; *)
(* it is inductive because jumps only go forward over it.                  *)
(***************************************************************************)
EXTENDS BpfFilter, TLAPS

\* The program, instruction by instruction.
LEMMA Prog ==
    /\ prog[1] = ld(0)          /\ prog[2] = and_f0
    /\ prog[3] = jeq(64, 0, 8)  /\ prog[4] = ld(9)
    /\ prog[5] = jeq(17, 0, 6)  /\ prog[6] = ld(16)
    /\ prog[7] = and_f0         /\ prog[8] = jeq(224, 2, 0)
    /\ prog[9] = ld(19)         /\ prog[10] = jeq(255, 0, 1)
    /\ prog[11] = ret(262144)   /\ prog[12] = ret(0)
  BY DEF prog

\* The fields of a frame the program looks at.
LEMMA Fields ==
    ASSUME NEW p \in Packet
    PROVE  /\ p.len \in Nat /\ p.version \in 0..15 /\ p.ihl \in 0..15
           /\ p.proto \in 0..255 /\ p.dst[1] \in 0..255 /\ p.dst[4] \in 0..255
  <1>1. /\ p.len \in Nat /\ p.version \in Nibble /\ p.ihl \in Nibble
        /\ p.proto \in Octet /\ p.dst \in Addr
    BY DEF Packet
  <1>2. p.dst[1] \in Octet /\ p.dst[4] \in Octet
    BY <1>1 DEF Addr
  <1>3. QED
    BY <1>1, <1>2 DEF Nibble, Octet

\* The version is what the mask leaves of the first byte.
LEMMA HighBitsOfSum ==
    ASSUME NEW v \in 0..15, NEW h \in 0..15
    PROVE  HighBits(16 * v + h) = 16 * v
  <1>1. (16 * v + h) % 16 = h
    OBVIOUS
  <1>2. QED
    BY <1>1 DEF HighBits

\* The instruction at pc, when none has ended the program yet.
LEMMA AtInstruction ==
    ASSUME FilterInv, Next
    PROVE  /\ verdict = "none" /\ UNCHANGED pkt /\ pc \in 0..11
           /\ pkt \in Packet /\ A \in 0..255
  BY DEF FilterInv, TypeOK, Octet, Next, Load, And, JumpIfEqual, Return, Runs

\* A load at pc.
LEMMA LoadStep ==
    ASSUME Next, insn = ld(insn.k)
    PROVE  /\ UNCHANGED pkt
           /\ \/ /\ pkt.len > insn.k /\ A' = Byte(pkt, insn.k) /\ pc' = pc + 1
                 /\ UNCHANGED verdict
              \/ pkt.len <= insn.k /\ verdict' = "reject" /\ UNCHANGED <<A, pc>>
  <1>1. insn.op = "ld"
    BY DEF ld
  <1>2. Load
    BY <1>1 DEF Next, And, JumpIfEqual, Return, Runs
  <1>3. QED
    BY <1>2 DEF Load

\* A mask, a comparison and a return at pc.
LEMMA AndStep ==
    ASSUME Next, insn = and_f0
    PROVE  A' = HighBits(A) /\ pc' = pc + 1 /\ UNCHANGED <<pkt, verdict>>
  <1>1. insn.op = "and"
    BY DEF and_f0
  <1>2. And
    BY <1>1 DEF Next, Load, JumpIfEqual, Return, Runs
  <1>3. QED
    BY <1>2 DEF And

LEMMA JumpStep ==
    ASSUME NEW k, NEW t, NEW f, Next, insn = jeq(k, t, f)
    PROVE  /\ pc' = pc + 1 + (IF A = k THEN t ELSE f)
           /\ UNCHANGED <<pkt, A, verdict>>
  <1>1. insn.op = "jeq" /\ insn.k = k /\ insn.jt = t /\ insn.jf = f
    BY DEF jeq
  <1>2. JumpIfEqual
    BY <1>1 DEF Next, Load, And, Return, Runs
  <1>3. QED
    BY <1>1, <1>2 DEF JumpIfEqual

LEMMA ReturnStep ==
    ASSUME NEW k, Next, insn = ret(k)
    PROVE  /\ verdict' = (IF k > 0 THEN "accept" ELSE "reject")
           /\ UNCHANGED <<pkt, pc, A>>
  <1>1. insn.op = "ret" /\ insn.k = k
    BY DEF ret
  <1>2. Return
    BY <1>1 DEF Next, Load, And, JumpIfEqual, Runs
  <1>3. QED
    BY <1>1, <1>2 DEF Return

\* The invariant is inductive: one case per instruction.
LEMMA NextFilterInv == FilterInv /\ [Next]_vars => FilterInv'
  <1> SUFFICES ASSUME FilterInv, Next PROVE FilterInv'
    BY DEF vars, FilterInv, TypeOK, FilterExact
  <1> USE DEF UDP
  <1>1. /\ verdict = "none" /\ pc \in 0..11 /\ pkt' = pkt
        /\ pkt \in Packet /\ A \in 0..255
    BY AtInstruction
  <1>2. /\ pkt.len \in Nat /\ pkt.version \in 0..15 /\ pkt.ihl \in 0..15
        /\ pkt.proto \in 0..255 /\ pkt.dst[1] \in 0..255 /\ pkt.dst[4] \in 0..255
    BY <1>1, Fields
  <1>3. CASE pc = 0
    <2>1. insn = ld(0)
      BY <1>3, Prog DEF insn
    <2>2. \/ /\ pkt.len > 0 /\ A' = Byte(pkt, 0) /\ pc' = 1 /\ verdict' = "none"
          \/ pkt.len <= 0 /\ verdict' = "reject" /\ UNCHANGED <<A, pc>>
      <3>1. insn.k = 0
        BY <2>1 DEF ld
      <3>2. QED
        BY <1>1, <1>3, <2>1, <3>1, LoadStep
    <2>3. Byte(pkt, 0) = 16 * pkt.version + pkt.ihl /\ Byte(pkt, 0) \in 0..255
      BY <1>2 DEF Byte
    <2>4. QED
      BY <1>1, <1>2, <1>3, <2>2, <2>3
         DEF FilterInv, TypeOK, FilterExact, bpf_accepts, Octet
  <1>4. CASE pc = 1
    <2>1. A = 16 * pkt.version + pkt.ihl /\ pkt.len > 0
      BY <1>1, <1>4 DEF FilterInv, Byte
    <2>2. A' = HighBits(A) /\ pc' = 2 /\ verdict' = "none"
      BY <1>1, <1>4, Prog, AndStep DEF insn
    <2>3. A' = 16 * pkt.version
      BY <1>2, <2>1, <2>2, HighBitsOfSum
    <2>4. A' \in 0..255
      BY <1>2, <2>3
    <2>5. QED
      BY <1>1, <1>2, <2>1, <2>2, <2>3, <2>4 DEF FilterInv, TypeOK, FilterExact, Octet
  <1>5. CASE pc = 2
    <2>1. A = 16 * pkt.version /\ pkt.len > 0
      BY <1>1, <1>5 DEF FilterInv
    <2>2. /\ pc' = pc + 1 + (IF A = 64 THEN 0 ELSE 8) /\ A' = A /\ verdict' = "none"
      BY <1>1, <1>5, Prog, JumpStep DEF insn
    <2>3. CASE pkt.version = 4
      <3>1. pc' = 3
        BY <1>5, <2>1, <2>2, <2>3
      <3>2. QED
        BY <1>1, <1>2, <2>1, <2>2, <2>3, <3>1 DEF FilterInv, TypeOK, FilterExact, Octet
    <2>4. CASE pkt.version # 4
      <3>1. pc' = 11 /\ ~bpf_accepts(pkt)
        BY <1>2, <1>5, <2>1, <2>2, <2>4 DEF bpf_accepts
      <3>2. QED
        BY <1>1, <2>2, <3>1 DEF FilterInv, TypeOK, FilterExact, Octet
    <2>5. QED
      BY <2>3, <2>4
  <1>6. CASE pc = 3
    <2>1. pkt.len > 0 /\ pkt.version = 4
      BY <1>1, <1>6 DEF FilterInv
    <2>2. insn = ld(9) /\ insn.k = 9
      BY <1>6, Prog DEF insn, ld
    <2>3. \/ /\ pkt.len > 9 /\ A' = Byte(pkt, 9) /\ pc' = 4 /\ verdict' = "none"
          \/ pkt.len <= 9 /\ verdict' = "reject" /\ UNCHANGED <<A, pc>>
      BY <1>1, <1>6, <2>2, LoadStep
    <2>4. Byte(pkt, 9) = pkt.proto
      BY DEF Byte
    <2>5. QED
      BY <1>1, <1>2, <1>6, <2>1, <2>3, <2>4
         DEF FilterInv, TypeOK, FilterExact, bpf_accepts, Octet
  <1>7. CASE pc = 4
    <2>1. A = pkt.proto /\ pkt.len > 9 /\ pkt.version = 4
      BY <1>1, <1>7 DEF FilterInv
    <2>2. /\ pc' = pc + 1 + (IF A = 17 THEN 0 ELSE 6) /\ A' = A /\ verdict' = "none"
      BY <1>1, <1>7, Prog, JumpStep DEF insn
    <2>3. CASE pkt.proto = UDP
      <3>1. pc' = 5
        BY <1>7, <2>1, <2>2, <2>3
      <3>2. QED
        BY <1>1, <1>2, <2>1, <2>2, <2>3, <3>1 DEF FilterInv, TypeOK, FilterExact, Octet
    <2>4. CASE pkt.proto # UDP
      <3>1. pc' = 11 /\ ~bpf_accepts(pkt)
        BY <1>2, <1>7, <2>1, <2>2, <2>4 DEF bpf_accepts
      <3>2. QED
        BY <1>1, <2>2, <3>1 DEF FilterInv, TypeOK, FilterExact, Octet
    <2>5. QED
      BY <2>3, <2>4
  <1>8. CASE pc = 5
    <2>1. pkt.len > 9 /\ pkt.version = 4 /\ pkt.proto = UDP
      BY <1>1, <1>8 DEF FilterInv
    <2>2. insn = ld(16) /\ insn.k = 16
      BY <1>8, Prog DEF insn, ld
    <2>3. \/ /\ pkt.len > 16 /\ A' = Byte(pkt, 16) /\ pc' = 6 /\ verdict' = "none"
          \/ pkt.len <= 16 /\ verdict' = "reject" /\ UNCHANGED <<A, pc>>
      BY <1>1, <1>8, <2>2, LoadStep
    <2>4. Byte(pkt, 16) = pkt.dst[1]
      BY DEF Byte
    <2>5. QED
      BY <1>1, <1>2, <1>8, <2>1, <2>3, <2>4
         DEF FilterInv, TypeOK, FilterExact, bpf_accepts, Octet
  <1>9. CASE pc = 6
    <2>1. /\ A = pkt.dst[1] /\ pkt.len > 16 /\ pkt.version = 4 /\ pkt.proto = UDP
      BY <1>1, <1>9 DEF FilterInv
    <2>2. A' = HighBits(A) /\ pc' = 7 /\ verdict' = "none"
      BY <1>1, <1>9, Prog, AndStep DEF insn
    <2>3. A' \in 0..255
      BY <1>1, <2>2 DEF HighBits
    <2>4. QED
      BY <1>1, <1>2, <2>1, <2>2, <2>3 DEF FilterInv, TypeOK, FilterExact, Octet
  <1>10. CASE pc = 7
    <2>1. /\ A = HighBits(pkt.dst[1]) /\ pkt.len > 16
          /\ pkt.version = 4 /\ pkt.proto = UDP
      BY <1>1, <1>10 DEF FilterInv
    <2>2. /\ pc' = pc + 1 + (IF A = 224 THEN 2 ELSE 0) /\ A' = A /\ verdict' = "none"
      BY <1>1, <1>10, Prog, JumpStep DEF insn
    <2>3. CASE A = 224
      <3>1. pc' = 10 /\ bpf_accepts(pkt)
        BY <1>2, <1>10, <2>1, <2>2, <2>3 DEF bpf_accepts
      <3>2. QED
        BY <1>1, <1>2, <2>1, <2>2, <3>1 DEF FilterInv, TypeOK, FilterExact, Octet
    <2>4. CASE A # 224
      <3>1. pc' = 8
        BY <1>10, <2>2, <2>4
      <3>2. QED
        BY <1>1, <1>2, <2>1, <2>2, <2>4, <3>1 DEF FilterInv, TypeOK, FilterExact, Octet
    <2>5. QED
      BY <2>3, <2>4
  <1>11. CASE pc = 8
    <2>1. /\ pkt.len > 16 /\ pkt.version = 4 /\ pkt.proto = UDP
          /\ HighBits(pkt.dst[1]) # 224
      BY <1>1, <1>11 DEF FilterInv
    <2>2. insn = ld(19) /\ insn.k = 19
      BY <1>11, Prog DEF insn, ld
    <2>3. \/ /\ pkt.len > 19 /\ A' = Byte(pkt, 19) /\ pc' = 9 /\ verdict' = "none"
          \/ pkt.len <= 19 /\ verdict' = "reject" /\ UNCHANGED <<A, pc>>
      BY <1>1, <1>11, <2>2, LoadStep
    <2>4. Byte(pkt, 19) = pkt.dst[4]
      BY DEF Byte
    <2>5. QED
      BY <1>1, <1>2, <1>11, <2>1, <2>3, <2>4
         DEF FilterInv, TypeOK, FilterExact, bpf_accepts, Octet
  <1>12. CASE pc = 9
    <2>1. /\ pkt.len > 19 /\ pkt.version = 4 /\ pkt.proto = UDP /\ A = pkt.dst[4]
          /\ HighBits(pkt.dst[1]) # 224
      BY <1>1, <1>12 DEF FilterInv
    <2>2. /\ pc' = pc + 1 + (IF A = 255 THEN 0 ELSE 1) /\ A' = A /\ verdict' = "none"
      BY <1>1, <1>12, Prog, JumpStep DEF insn
    <2>3. CASE A = 255
      <3>1. pc' = 10 /\ bpf_accepts(pkt)
        BY <1>2, <1>12, <2>1, <2>2, <2>3 DEF bpf_accepts
      <3>2. QED
        BY <1>1, <1>2, <2>1, <2>2, <3>1 DEF FilterInv, TypeOK, FilterExact, Octet
    <2>4. CASE A # 255
      <3>1. pc' = 11 /\ ~bpf_accepts(pkt)
        BY <1>2, <1>12, <2>1, <2>2, <2>4 DEF bpf_accepts
      <3>2. QED
        BY <1>1, <2>2, <3>1 DEF FilterInv, TypeOK, FilterExact, Octet
    <2>5. QED
      BY <2>3, <2>4
  <1>13. CASE pc = 10
    <2>1. bpf_accepts(pkt)
      BY <1>1, <1>13 DEF FilterInv
    <2>2. verdict' = "accept" /\ UNCHANGED <<pc, A>>
      BY <1>13, Prog, ReturnStep DEF insn
    <2>3. QED
      BY <1>1, <2>1, <2>2 DEF FilterInv, TypeOK, FilterExact, Octet, bpf_accepts
  <1>14. CASE pc = 11
    <2>1. ~bpf_accepts(pkt)
      BY <1>1, <1>14 DEF FilterInv
    <2>2. verdict' = "reject" /\ UNCHANGED <<pc, A>>
      BY <1>14, Prog, ReturnStep DEF insn
    <2>3. QED
      BY <1>1, <2>1, <2>2 DEF FilterInv, TypeOK, FilterExact, Octet, bpf_accepts
  <1>15. QED
    BY <1>1, <1>3, <1>4, <1>5, <1>6, <1>7, <1>8, <1>9, <1>10, <1>11, <1>12, <1>13, <1>14

-----------------------------------------------------------------------------
(* Theorems *)

\* What is known at each instruction of attach_packet_filter's program.
THEOREM FilterInvTheorem == Spec => []FilterInv
  <1>1. Init => FilterInv
    BY CapturedAssumption DEF Init, FilterInv, TypeOK, FilterExact, Octet
  <1>2. QED
    BY <1>1, NextFilterInv, PTL DEF Spec

\* The program of attach_packet_filter accepts a frame, of whatever length and
\* content, if and only if bpf_accepts says so.
THEOREM FilterExactTheorem == Spec => []FilterExact
  <1>1. FilterInv => FilterExact
    BY DEF FilterInv
  <1>2. QED
    BY <1>1, FilterInvTheorem, PTL

\* What extract_packet_info would let through is never filtered out in the kernel.
THEOREM FilterLosesNothingTheorem == Spec => []FilterLosesNothing
  <1>1. ASSUME NEW p \in Packet, extract_packet_info(p)
        PROVE  bpf_accepts(p)
    <2>1. /\ p.len >= 20 /\ p.version = 4 /\ p.proto = UDP /\ is_broadcast(p.dst)
      BY <1>1 DEF extract_packet_info, validate_ipv4_header
    <2>2. p.len \in Nat /\ p.dst[1] \in 0..255
      BY Fields
    <2>3. p.dst[4] = 255 \/ p.dst[1] \in 224..239
      BY <2>1 DEF is_broadcast, IsMulticast, LIMITED_BROADCAST
    <2>4. p.dst[1] \in 224..239 => HighBits(p.dst[1]) = 224
      BY <2>2 DEF HighBits
    <2>5. QED
      BY <2>1, <2>2, <2>3, <2>4 DEF bpf_accepts
  <1>2. FilterInv => FilterLosesNothing
    BY <1>1 DEF FilterInv, TypeOK, FilterExact, FilterLosesNothing
  <1>3. QED
    BY <1>2, FilterInvTheorem, PTL
=============================================================================
