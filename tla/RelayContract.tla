---------------------------- MODULE RelayContract ---------------------------
(***************************************************************************)
(* What running bcr promises the hosts, with no process, socket, queue or  *)
(* clock in it: every frame that appears on a segment without a host having*)
(* sent it is one copy, made in one step, of a frame some host did send on *)
(* the segment of an input interface; the frame as the host sent it was    *)
(* allowed by the first rule that matches it and is meant for the output   *)
(* it went to; and the copy is that frame rewritten for that output.       *)
(***************************************************************************)
EXTENDS PacketSocket

CONSTANTS Inst, Segment, SegmentOf, BroadcastAddrs, Inputs, Outputs, Rules,
          Verbose, Frames      \* as in Relay

VARIABLES
    originals,  \* the frames hosts have sent, and where
    wire        \* what the instances have sent on each segment

Init ==
    /\ originals = <<>>
    /\ wire = [g \in Segment |-> <<>>]

\* A host sends a frame.
HostSend(g, p) ==
    /\ originals' = Append(originals, [seg |-> g, pkt |-> p])
    /\ UNCHANGED wire

\* Rule r is the first of the rules that matches, and allows the frame.
FirstMatchAllows(rules, r, p) ==
    /\ rule_matches(rules[r], PacketInfo(p))
    /\ \A j \in 1..(r - 1) : ~rule_matches(rules[j], PacketInfo(p))
    /\ rules[r].action = "allow"

\* Instance i relays host frame n from its input k to its output l by rule r.
Relay(i, k, l, n, r) ==
    LET p     == originals[n].pkt
        from  == Inputs[i][k]
        to    == Outputs[i][l]
        own   == BroadcastAddrs[to]
        copy  == apply_nat(p, Rules[i][r].nat, nat_rewrite_target(p.dst, own))
    IN  /\ originals[n].seg = SegmentOf[from]
        /\ extract_packet_info(p) /\ ~is_already_relayed(p)
        /\ FirstMatchAllows(Rules[i], r, p)
        /\ should_relay_to(p.dst, from, to, own)
        /\ wire' = [wire EXCEPT ![SegmentOf[to]] = Append(@,
              [inst |-> i, ingress |-> from, egress |-> to, orig |-> n,
               hops |-> 1, pkt |-> copy, mac |-> dest_mac(copy),
               logged |-> Verbose[i]])]
        /\ UNCHANGED originals

Next ==
    \/ \E g \in Segment, p \in Frames : HostSend(g, p)
    \/ \E i \in Inst : \E k \in DOMAIN Inputs[i], l \in DOMAIN Outputs[i],
          n \in DOMAIN originals, r \in DOMAIN Rules[i] : Relay(i, k, l, n, r)

Spec == Init /\ [][Next]_<<originals, wire>>
=============================================================================
