---------------------------- MODULE TokenBucket -----------------------------
(***************************************************************************)
(* The token bucket of src/ratelimit.rs as functions of its state.         *)
(*                                                                         *)
(* Time is counted in ticks of 1/TicksPerSec s and tokens in units of      *)
(* 1/TicksPerSec token, so that elapsed * rate is exact: the f64 of the    *)
(* code is taken as a rational number, without its rounding.               *)
(***************************************************************************)
EXTENDS Integers

CONSTANT TicksPerSec
ASSUME TicksPerSecAssumption == TicksPerSec \in Nat \ {0}

RateLimiter == [rate: Nat, burst: Nat, tokens: Nat, last: Nat]

AtMost(x, bound) == IF x <= bound THEN x ELSE bound

\* RateLimiter::new at time now; the burst is at least one packet.
new(rate, burst, now) ==
    LET capacity == (IF burst < 1 THEN 1 ELSE burst) * TicksPerSec
    IN  [rate |-> rate, burst |-> capacity, tokens |-> capacity, last |-> now]

\* Mutant: the refill is not capped by the burst.
refill_uncapped(rl, now) == rl.tokens + (now - rl.last) * rl.rate

\* The tokens in the bucket once the time since the last call is credited.
refill(rl, now) == AtMost(rl.tokens + (now - rl.last) * rl.rate, rl.burst)

\* Mutant: a packet needs more than one token.
allow_strict(rl, now) == refill(rl, now) > TicksPerSec

\* The result of RateLimiter::allow at time now ...
allow(rl, now) == refill(rl, now) >= TicksPerSec

\* Mutant: the time of the last call is not remembered.
after_allow_keeps_last(rl, now) ==
    [rl EXCEPT !.tokens = refill(rl, now) -
                          (IF allow(rl, now) THEN TicksPerSec ELSE 0)]

\* Mutant: a refused packet costs a token too.
after_allow_takes_always(rl, now) ==
    [rl EXCEPT !.last = now, !.tokens = refill(rl, now) - TicksPerSec]

\* ... and the limiter it leaves behind.
after_allow(rl, now) ==
    [rl EXCEPT !.last = now,
               !.tokens = refill(rl, now) -
                          (IF allow(rl, now) THEN TicksPerSec ELSE 0)]
=============================================================================
