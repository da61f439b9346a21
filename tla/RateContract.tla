---------------------------- MODULE RateContract ----------------------------
(***************************************************************************)
(* What the rate limiter promises, without a bucket: a packet is admitted  *)
(* exactly when, with it, every window between two admitted packets still  *)
(* holds no more than Burst packets plus Rate packets per second.          *)
(***************************************************************************)
EXTENDS Integers, Sequences

CONSTANTS Rate,        \* packets per second
          Burst,       \* packets that may pass back to back
          TicksPerSec  \* clock resolution

VARIABLES now,     \* the clock, in ticks
          admits,  \* the times at which packets were admitted
          verdict  \* the answer to the last packet

vars == <<now, admits, verdict>>

\* The packets from number j to the last one fit the envelope.
FitsFrom(h, j) ==
    (Len(h) - j + 1) * TicksPerSec <=
        Burst * TicksPerSec + Rate * (h[Len(h)] - h[j])

\* So do they for every j.
Conforms(h) == \A j \in 1..Len(h) : FitsFrom(h, j)

Init == now = 0 /\ admits = <<>> /\ verdict = "none"

Advance ==
    /\ now' \in Nat /\ now' > now
    /\ UNCHANGED <<admits, verdict>>

Admit ==
    /\ Conforms(Append(admits, now))
    /\ admits' = Append(admits, now)
    /\ verdict' = "allow"
    /\ UNCHANGED now

Refuse ==
    /\ ~Conforms(Append(admits, now))
    /\ verdict' = "drop"
    /\ UNCHANGED <<now, admits>>

Next == Advance \/ Admit \/ Refuse

Spec == Init /\ [][Next]_vars
=============================================================================
