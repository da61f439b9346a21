---------------------------- MODULE RateLimiter -----------------------------
(***************************************************************************)
(* A RateLimiter of src/ratelimit.rs in use: time passes, and the relay    *)
(* loop calls allow() for packets that arrive at arbitrary times.          *)
(***************************************************************************)
EXTENDS TokenBucket, Sequences

CONSTANTS Rate,      \* --rate-limit
          BurstOpt,  \* --rate-burst, or --rate-limit when it is not given
          MaxTime    \* bound: ticks of the clock

ASSUME RateLimiterAssumption ==
    Rate \in Nat /\ BurstOpt \in Nat /\ MaxTime \in Nat

VARIABLES now,      \* Instant::now()
          rl,       \* the limiter
          admits,   \* history: the times of the packets allow() let through
          verdict   \* what the last allow() returned

vars == <<now, rl, admits, verdict>>

Init ==
    /\ now = 0
    /\ rl = new(Rate, BurstOpt, 0)
    /\ admits = <<>>
    /\ verdict = "none"

Tick ==
    /\ now < MaxTime
    /\ now' = now + 1
    /\ UNCHANGED <<rl, admits, verdict>>

\* allow() returns true.
Allow ==
    /\ allow(rl, now)
    /\ rl' = after_allow(rl, now)
    /\ admits' = Append(admits, now)
    /\ verdict' = "allow"
    /\ UNCHANGED now

\* allow() returns false.
Drop ==
    /\ ~allow(rl, now)
    /\ rl' = after_allow(rl, now)
    /\ verdict' = "drop"
    /\ UNCHANGED <<now, admits>>

Next == Tick \/ Allow \/ Drop

Spec == Init /\ [][Next]_vars
-----------------------------------------------------------------------------
(* Properties *)

\* Packets the bucket holds when it is full: burst.max(1).
Capacity == IF BurstOpt < 1 THEN 1 ELSE BurstOpt

\* The full bucket, in units of 1/TicksPerSec packet.
Full == Capacity * TicksPerSec

\* Packets j to k of history h are within the envelope.
WindowFits(h, j, k) == (k - j + 1) * TicksPerSec <= Full + Rate * (h[k] - h[j])

\* No window between two admitted packets, however it is placed and whatever
\* was refused in between, holds more than the burst and the rate allow:
\* storms are capped over every interval and not only since the start.
WindowBound == \A k \in DOMAIN admits : \A j \in 1..k : WindowFits(admits, j, k)

\* What the packets of history h from number j on leave of the burst at time t.
Slack(h, t, j) ==
    Full + Rate * (t - h[j]) - (Len(h) - j + 1) * TicksPerSec

\* Why the bucket knows the whole history: it holds the least slack of all
\* suffixes of it, or is full.
BucketIsLeastSlack ==
    /\ now \in Nat
    /\ rl \in RateLimiter
    /\ rl.rate = Rate /\ rl.burst = Full
    /\ rl.last <= now
    /\ rl.tokens <= rl.burst
    /\ admits \in Seq(Nat)
    /\ \A j \in DOMAIN admits :
          admits[j] <= rl.last /\ rl.tokens <= Slack(admits, rl.last, j)
    /\ \/ rl.tokens = rl.burst
       \/ \E j \in DOMAIN admits : rl.tokens = Slack(admits, rl.last, j)

Contract == INSTANCE RateContract WITH Burst <- Capacity

\* Every allow() answers as the contract does: it never lets a packet through
\* that breaks the envelope, and never drops one that fits it.
RefinesContract == Contract!Spec
=============================================================================
