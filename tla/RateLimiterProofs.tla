------------------------- MODULE RateLimiterProofs --------------------------
(***************************************************************************)
(* The rate limiter keeps its contract for every rate, burst and clock     *)
(* resolution.  The inductive invariant is BucketIsLeastSlack: the bucket  *)
(* alone does not bound a window in the past, so the tokens are related to *)
(* the history of admitted packets.                                        *)
(***************************************************************************)
EXTENDS RateLimiter, TLAPS

\* The capacity is a positive number of packets, whatever --rate-burst says
\* (RateLimiter::new floors it at one).
LEMMA CapacityType == Capacity \in Nat \ {0} /\ Full \in Nat /\ Full >= TicksPerSec
  <1>1. Capacity \in Nat \ {0}
    BY RateLimiterAssumption DEF Capacity
  <1>2. \A c, t \in Nat \ {0} : c * t \in Nat /\ c * t >= t
    OBVIOUS
  <1>3. QED
    BY <1>1, <1>2, TicksPerSecAssumption DEF Full

\* The slack is a number.
LEMMA SlackType ==
    ASSUME NEW h \in Seq(Nat), NEW t \in Nat, NEW j \in DOMAIN h
    PROVE  Slack(h, t, j) \in Int
  <1>1. Len(h) \in Int /\ h[j] \in Int /\ j \in Int /\ t \in Int
    OBVIOUS
  <1>2. Full \in Int /\ Rate \in Int /\ TicksPerSec \in Int
    BY CapacityType, RateLimiterAssumption, TicksPerSecAssumption
  <1>3. \A a, b \in Int : a * b \in Int /\ a - b \in Int /\ a + b \in Int
    OBVIOUS
  <1>4. Rate * (t - h[j]) \in Int /\ (Len(h) - j + 1) * TicksPerSec \in Int
    BY <1>1, <1>2, <1>3
  <1>5. QED
    BY <1>2, <1>3, <1>4 DEF Slack

\* As time passes every slack grows by what the refill adds.
LEMMA SlackGrows ==
    ASSUME NEW h \in Seq(Nat), NEW t0 \in Nat, NEW t1 \in Nat, NEW j \in DOMAIN h
    PROVE  Slack(h, t1, j) = Slack(h, t0, j) + Rate * (t1 - t0)
  <1> DEFINE x == Rate * (t0 - h[j])
             y == Rate * (t1 - h[j])
             g == Rate * (t1 - t0)
             p == (Len(h) - j + 1) * TicksPerSec
  <1>1. Len(h) \in Int /\ h[j] \in Int /\ j \in Int /\ t0 \in Int /\ t1 \in Int
    OBVIOUS
  <1>2. Full \in Int /\ Rate \in Int /\ TicksPerSec \in Int
    BY CapacityType, RateLimiterAssumption, TicksPerSecAssumption
  <1>3. \A r, u, v, a \in Int : r * (v - a) = r * (u - a) + r * (v - u)
    OBVIOUS
  <1>4. y = x + g
    BY <1>1, <1>2, <1>3
  <1>5. \A a, b \in Int : a * b \in Int /\ a - b \in Int /\ a + 1 \in Int
    OBVIOUS
  <1>6. x \in Int /\ y \in Int /\ g \in Int /\ p \in Int
    BY <1>1, <1>2, <1>5
  <1>7. Slack(h, t1, j) = Full + y - p /\ Slack(h, t0, j) = Full + x - p
    BY DEF Slack
  <1> HIDE DEF x, y, g, p
  <1>8. Slack(h, t1, j) = Slack(h, t0, j) + g
    BY <1>2, <1>4, <1>6, <1>7
  <1>9. QED
    BY <1>8 DEF g

\* One more packet takes one packet from every slack; what the new packet
\* leaves by itself is the burst less one packet.
LEMMA SlackAppend ==
    ASSUME NEW h \in Seq(Nat), NEW t \in Nat
    PROVE  /\ \A j \in DOMAIN h :
                 Slack(Append(h, t), t, j) = Slack(h, t, j) - TicksPerSec
           /\ Slack(Append(h, t), t, Len(h) + 1) = Full - TicksPerSec
  <1> DEFINE e == Append(h, t)
  <1>1. /\ Len(h) \in Nat /\ Len(e) = Len(h) + 1 /\ e[Len(h) + 1] = t
        /\ DOMAIN h = 1..Len(h) /\ \A j \in DOMAIN h : e[j] = h[j]
    OBVIOUS
  <1> HIDE DEF e
  <1>2. Full \in Int /\ Rate \in Int /\ TicksPerSec \in Int
    BY CapacityType, RateLimiterAssumption, TicksPerSecAssumption
  <1>3. ASSUME NEW j \in DOMAIN h
        PROVE  Slack(e, t, j) = Slack(h, t, j) - TicksPerSec
    <2> DEFINE x == Rate * (t - h[j])
               p == (Len(h) - j + 1) * TicksPerSec
               q == (Len(h) + 1 - j + 1) * TicksPerSec
    <2>1. \A n, i, u \in Int : (n + 1 - i + 1) * u = (n - i + 1) * u + u
      OBVIOUS
    <2>2. q = p + TicksPerSec
      BY <1>1, <1>2, <2>1
    <2>3. \A a, b \in Int : a * b \in Int
      OBVIOUS
    <2>4. x \in Int /\ p \in Int /\ q \in Int
      <3>1. h[j] \in Int /\ j \in Int /\ Len(h) \in Int /\ t \in Int
        BY <1>1
      <3>2. /\ t - h[j] \in Int /\ Len(h) - j + 1 \in Int
            /\ Len(h) + 1 - j + 1 \in Int
        BY <3>1
      <3>3. x \in Int
        BY <1>2, <2>3, <3>2
      <3>4. p \in Int
        BY <1>2, <2>3, <3>2
      <3>5. q \in Int
        BY <1>2, <2>3, <3>2
      <3>6. QED
        BY <3>3, <3>4, <3>5
    <2>5. Slack(e, t, j) = Full + x - q /\ Slack(h, t, j) = Full + x - p
      BY <1>1 DEF Slack
    <2> HIDE DEF x, p, q
    <2>6. QED
      BY <1>2, <2>2, <2>4, <2>5
  <1>4. Slack(e, t, Len(h) + 1) = Full - TicksPerSec
    <2>1. Slack(e, t, Len(h) + 1)
            = Full + Rate * (t - t) - (Len(h) + 1 - (Len(h) + 1) + 1) * TicksPerSec
      BY <1>1 DEF Slack
    <2>2. Rate * (t - t) = 0 /\ (Len(h) + 1 - (Len(h) + 1) + 1) * TicksPerSec = TicksPerSec
      BY <1>1, <1>2
    <2>3. QED
      BY <1>2, <2>1, <2>2
  <1>5. QED
    BY <1>3, <1>4 DEF e

\* What the bucket holds after the refill at time now: at most what any suffix
\* of the history leaves, and exactly what one of them leaves unless it is
\* full.
LEMMA RefillIsLeastSlack ==
    ASSUME BucketIsLeastSlack
    PROVE  LET R == refill(rl, now)
           IN  /\ R \in Nat
               /\ R <= Full
               /\ \A j \in DOMAIN admits : R <= Slack(admits, now, j)
               /\ \/ R = Full
                  \/ \E j \in DOMAIN admits : R = Slack(admits, now, j)
  <1> DEFINE G == Rate * (now - rl.last)
  <1>1. /\ rl.tokens \in Nat /\ rl.last \in Nat /\ now \in Nat /\ rl.last <= now
        /\ rl.rate = Rate /\ rl.burst = Full /\ rl.tokens <= Full
        /\ admits \in Seq(Nat)
    BY DEF BucketIsLeastSlack, RateLimiter
  <1>2. G \in Nat
    <2>1. \A r, d \in Nat : r * d \in Nat
      OBVIOUS
    <2>2. now - rl.last \in Nat
      BY <1>1
    <2>3. QED
      BY <2>1, <2>2, RateLimiterAssumption
  <1>3. (now - rl.last) * rl.rate = G
    BY <1>1, RateLimiterAssumption
  <1>4. \A j \in DOMAIN admits : Slack(admits, now, j) = Slack(admits, rl.last, j) + G
    BY <1>1, SlackGrows
  <1>5. \A j \in DOMAIN admits : Slack(admits, rl.last, j) \in Int
    BY <1>1, SlackType
  <1> HIDE DEF G
  <1>6. refill(rl, now) = IF rl.tokens + G <= Full THEN rl.tokens + G ELSE Full
    BY <1>1, <1>3 DEF refill, AtMost
  <1>7. \A j \in DOMAIN admits : rl.tokens <= Slack(admits, rl.last, j)
    BY DEF BucketIsLeastSlack
  <1>8. \/ rl.tokens = Full
        \/ \E j \in DOMAIN admits : rl.tokens = Slack(admits, rl.last, j)
    BY <1>1 DEF BucketIsLeastSlack
  <1>9. QED
    BY <1>1, <1>2, <1>4, <1>5, <1>6, <1>7, <1>8, CapacityType

\* Initially the bucket is full and there is no history.
LEMMA InitInvariant == Init => BucketIsLeastSlack
  <1> SUFFICES ASSUME Init PROVE BucketIsLeastSlack
    OBVIOUS
  <1>1. rl = [rate |-> Rate, burst |-> Full, tokens |-> Full, last |-> 0]
    BY DEF Init, new, Full, Capacity
  <1>2. now = 0 /\ admits = <<>>
    BY DEF Init
  <1>3. QED
    BY <1>1, <1>2, CapacityType, RateLimiterAssumption
       DEF BucketIsLeastSlack, RateLimiter

\* A packet that is let through leaves the least slack in the bucket: all old
\* suffixes lose one packet, and the suffix that starts with it is new.
LEMMA AllowInvariant == BucketIsLeastSlack /\ Allow => BucketIsLeastSlack'
  <1> SUFFICES ASSUME BucketIsLeastSlack, Allow PROVE BucketIsLeastSlack'
    OBVIOUS
  <1> DEFINE R == refill(rl, now)
             n == Len(admits)
             T == TicksPerSec
  <1>1. /\ R \in Nat /\ R <= Full
        /\ \A j \in DOMAIN admits : R <= Slack(admits, now, j)
        /\ R = Full \/ \E j \in DOMAIN admits : R = Slack(admits, now, j)
    BY RefillIsLeastSlack
  <1>2. /\ rl \in RateLimiter /\ now \in Nat /\ admits \in Seq(Nat)
        /\ rl.rate = Rate /\ rl.burst = Full /\ rl.last <= now
        /\ \A j \in DOMAIN admits : admits[j] <= rl.last
    BY DEF BucketIsLeastSlack
  <1>3. allow(rl, now) /\ R >= T
    BY DEF Allow, allow
  <1>4. rl' = [rl EXCEPT !.last = now, !.tokens = R - T]
    BY <1>3 DEF Allow, after_allow
  <1>5. admits' = Append(admits, now) /\ now' = now
    BY DEF Allow
  <1> HIDE DEF R
  <1>6. R - T \in Nat /\ R - T <= Full /\ rl.last \in Nat
    BY <1>1, <1>2, <1>3, CapacityType, TicksPerSecAssumption DEF RateLimiter
  <1>7. /\ rl' \in RateLimiter /\ rl'.rate = Rate /\ rl'.burst = Full
        /\ rl'.last = now /\ rl'.tokens = R - T
    BY <1>2, <1>4, <1>6 DEF RateLimiter
  <1>8. /\ admits' \in Seq(Nat) /\ n \in Nat
        /\ DOMAIN admits' = DOMAIN admits \cup {n + 1}
        /\ admits'[n + 1] = now
        /\ \A j \in DOMAIN admits : admits'[j] = admits[j]
    BY <1>2, <1>5
  <1>9. /\ \A j \in DOMAIN admits : Slack(admits', now, j) = Slack(admits, now, j) - T
        /\ Slack(admits', now, n + 1) = Full - T
    BY <1>2, <1>5, SlackAppend
  <1>10. \A j \in DOMAIN admits : Slack(admits, now, j) \in Int
    BY <1>2, SlackType
  <1>11. ASSUME NEW j \in DOMAIN admits'
         PROVE  admits'[j] <= now /\ R - T <= Slack(admits', now, j)
    <2>1. CASE j \in DOMAIN admits
      <3>1. admits[j] \in Nat
        BY <1>2, <2>1
      <3>2. QED
        BY <3>1, <2>1, <1>1, <1>2, <1>6, <1>8, <1>9, <1>10, TicksPerSecAssumption
    <2>2. CASE j = n + 1
      BY <2>2, <1>1, <1>2, <1>8, <1>9, CapacityType, TicksPerSecAssumption
    <2>3. QED
      BY <2>1, <2>2, <1>8
  <1>12. \E j \in DOMAIN admits' : R - T = Slack(admits', now, j)
    BY <1>1, <1>8, <1>9
  <1>13. QED
    BY <1>2, <1>5, <1>6, <1>7, <1>8, <1>11, <1>12 DEF BucketIsLeastSlack

\* A refused packet only moves the bucket to the present.
LEMMA DropInvariant == BucketIsLeastSlack /\ Drop => BucketIsLeastSlack'
  <1> SUFFICES ASSUME BucketIsLeastSlack, Drop PROVE BucketIsLeastSlack'
    OBVIOUS
  <1> DEFINE R == refill(rl, now)
  <1>1. /\ R \in Nat /\ R <= Full
        /\ \A j \in DOMAIN admits : R <= Slack(admits, now, j)
        /\ R = Full \/ \E j \in DOMAIN admits : R = Slack(admits, now, j)
    BY RefillIsLeastSlack
  <1>2. /\ rl \in RateLimiter /\ now \in Nat /\ admits \in Seq(Nat)
        /\ rl.rate = Rate /\ rl.burst = Full /\ rl.last <= now
        /\ \A j \in DOMAIN admits : admits[j] <= rl.last
    BY DEF BucketIsLeastSlack
  <1>3. rl' = [rl EXCEPT !.last = now, !.tokens = R - 0] /\ R - 0 = R
    BY <1>1 DEF Drop, after_allow
  <1>4. admits' = admits /\ now' = now
    BY DEF Drop
  <1> HIDE DEF R
  <1>5. /\ rl' \in RateLimiter /\ rl'.rate = Rate /\ rl'.burst = Full
        /\ rl'.last = now /\ rl'.tokens = R
    BY <1>1, <1>2, <1>3 DEF RateLimiter
  <1>6. \A j \in DOMAIN admits : admits[j] <= now
    <2>1. rl.last \in Nat /\ \A j \in DOMAIN admits : admits[j] \in Nat
      BY <1>2 DEF RateLimiter
    <2>2. QED
      BY <1>2, <2>1
  <1>7. QED
    BY <1>1, <1>2, <1>4, <1>5, <1>6 DEF BucketIsLeastSlack

\* The packets from number j on fit the envelope when their slack is not
\* negative.
LEMMA SlackFits ==
    ASSUME NEW h \in Seq(Nat), NEW t \in Nat, NEW j \in DOMAIN h
    PROVE  (Len(h) - j + 1) * TicksPerSec <= Full + Rate * (t - h[j])
             <=> Slack(h, t, j) >= 0
  <1> DEFINE x == Rate * (t - h[j])
             p == (Len(h) - j + 1) * TicksPerSec
  <1>1. Len(h) \in Int /\ h[j] \in Int /\ j \in Int /\ t \in Int
    OBVIOUS
  <1>2. Full \in Int /\ Rate \in Int /\ TicksPerSec \in Int
    BY CapacityType, RateLimiterAssumption, TicksPerSecAssumption
  <1>3. \A a, b \in Int : a * b \in Int /\ a - b \in Int /\ a + 1 \in Int
    OBVIOUS
  <1>4. x \in Int /\ p \in Int
    BY <1>1, <1>2, <1>3
  <1>5. Slack(h, t, j) = Full + x - p
    BY DEF Slack
  <1> HIDE DEF x, p
  <1>6. p <= Full + x <=> Slack(h, t, j) >= 0
    BY <1>2, <1>4, <1>5
  <1>7. QED
    BY <1>6 DEF x, p

\* A call is answered by true exactly when the packet fits the envelope with
\* the packets admitted before.
LEMMA AllowIffFits ==
    ASSUME BucketIsLeastSlack
    PROVE  allow(rl, now) <=>
             \A j \in DOMAIN Append(admits, now) :
                Slack(Append(admits, now), now, j) >= 0
  <1> DEFINE R == refill(rl, now)
             e == Append(admits, now)
             T == TicksPerSec
  <1>1. /\ R \in Nat /\ R <= Full
        /\ \A j \in DOMAIN admits : R <= Slack(admits, now, j)
        /\ R = Full \/ \E j \in DOMAIN admits : R = Slack(admits, now, j)
    BY RefillIsLeastSlack
  <1>2. now \in Nat /\ admits \in Seq(Nat)
    BY DEF BucketIsLeastSlack
  <1>3. allow(rl, now) <=> R >= T
    BY DEF allow
  <1>4. /\ \A j \in DOMAIN admits : Slack(e, now, j) = Slack(admits, now, j) - T
        /\ Slack(e, now, Len(admits) + 1) = Full - T
    BY <1>2, SlackAppend
  <1>5. \A j \in DOMAIN admits : Slack(admits, now, j) \in Int
    BY <1>2, SlackType
  <1>6. DOMAIN e = DOMAIN admits \cup {Len(admits) + 1}
    BY <1>2
  <1> HIDE DEF R, e
  <1>7. ASSUME R >= T, NEW j \in DOMAIN e
        PROVE  Slack(e, now, j) >= 0
    <2>1. CASE j \in DOMAIN admits
      BY <2>1, <1>1, <1>4, <1>5, <1>7, TicksPerSecAssumption
    <2>2. CASE j = Len(admits) + 1
      BY <2>2, <1>4, CapacityType, TicksPerSecAssumption
    <2>3. QED
      BY <2>1, <2>2, <1>6
  <1>8. ASSUME ~(R >= T)
        PROVE  \E j \in DOMAIN e : ~(Slack(e, now, j) >= 0)
    <2>1. PICK j \in DOMAIN admits : R = Slack(admits, now, j)
      BY <1>1, <1>8, CapacityType, TicksPerSecAssumption
    <2>2. ~(Slack(e, now, j) >= 0)
      BY <2>1, <1>1, <1>4, <1>8, TicksPerSecAssumption
    <2>3. QED
      BY <2>1, <2>2, <1>6
  <1>9. QED
    BY <1>3, <1>7, <1>8 DEF e

\* The abstract test of the contract, in terms of slack.
LEMMA ConformsIffFits ==
    ASSUME NEW h \in Seq(Nat), NEW t \in Nat
    PROVE  Contract!Conforms(Append(h, t)) <=>
             \A j \in DOMAIN Append(h, t) : Slack(Append(h, t), t, j) >= 0
  <1> DEFINE e == Append(h, t)
  <1>1. e \in Seq(Nat) /\ DOMAIN e = 1..Len(e) /\ e[Len(e)] = t
    OBVIOUS
  <1> HIDE DEF e
  <1>2. \A j \in DOMAIN e : Contract!FitsFrom(e, j) <=> Slack(e, t, j) >= 0
    BY <1>1, SlackFits DEF Contract!FitsFrom, Full
  <1>3. QED
    BY <1>1, <1>2 DEF Contract!Conforms, e

\* Every step keeps the relation between bucket and history.
LEMMA NextInvariant == BucketIsLeastSlack /\ [Next]_vars => BucketIsLeastSlack'
  <1> SUFFICES ASSUME BucketIsLeastSlack, [Next]_vars PROVE BucketIsLeastSlack'
    OBVIOUS
  <1>1. CASE Tick
    <2>1. now' = now + 1 /\ UNCHANGED <<rl, admits>>
      BY <1>1 DEF Tick
    <2>2. rl.last \in Nat
      BY DEF BucketIsLeastSlack, RateLimiter
    <2>3. QED
      BY <2>1, <2>2 DEF BucketIsLeastSlack
  <1>2. CASE Allow
    BY <1>2, AllowInvariant
  <1>3. CASE Drop
    BY <1>3, DropInvariant
  <1>4. CASE UNCHANGED vars
    BY <1>4 DEF vars, BucketIsLeastSlack
  <1>5. QED
    BY <1>1, <1>2, <1>3, <1>4 DEF Next

\* The bucket always holds the least slack of the history of RateLimiter::allow.
THEOREM BucketTheorem == Spec => []BucketIsLeastSlack
  BY InitInvariant, NextInvariant, PTL DEF Spec

\* The limiter's cap holds in every window of time, for every rate, burst and
\* clock resolution (RateLimiter::allow).
THEOREM WindowBoundTheorem == Spec => []WindowBound
  <1>1. Init => WindowBound
    BY DEF Init, WindowBound
  <1>2. BucketIsLeastSlack /\ WindowBound /\ [Next]_vars => WindowBound'
    <2> SUFFICES ASSUME BucketIsLeastSlack, WindowBound, [Next]_vars
                 PROVE  WindowBound'
      OBVIOUS
    <2>1. CASE Allow
      <3> DEFINE e == Append(admits, now)
                 n == Len(admits)
      <3>1. admits \in Seq(Nat) /\ now \in Nat
        BY DEF BucketIsLeastSlack
      <3>2. admits' = e /\ allow(rl, now)
        BY <2>1 DEF Allow
      <3>3. /\ e \in Seq(Nat) /\ Len(e) = n + 1 /\ e[n + 1] = now /\ n \in Nat
            /\ DOMAIN e = 1..(n + 1) /\ DOMAIN admits = 1..n
            /\ \A j \in 1..n : e[j] = admits[j]
        BY <3>1
      <3>4. \A j \in DOMAIN e : Slack(e, now, j) >= 0
        BY <3>2, AllowIffFits
      <3> HIDE DEF e
      <3>5. ASSUME NEW j \in DOMAIN e
            PROVE  WindowFits(e, j, n + 1)
        BY <3>1, <3>3, <3>4, SlackFits DEF WindowFits
      <3>6. ASSUME NEW k \in 1..n, NEW j \in 1..k
            PROVE  WindowFits(e, j, k)
        <4>1. WindowFits(admits, j, k)
          BY <3>3 DEF WindowBound
        <4>2. e[k] = admits[k] /\ e[j] = admits[j]
          BY <3>3
        <4>3. QED
          BY <4>1, <4>2 DEF WindowFits
      <3>7. \A k \in DOMAIN e : k \in 1..n \/ k = n + 1
        BY <3>3
      <3>8. \A k \in DOMAIN e : \A j \in 1..k : WindowFits(e, j, k)
        BY <3>3, <3>5, <3>6, <3>7
      <3>9. QED
        BY <3>2, <3>8 DEF WindowBound
    <2>2. CASE UNCHANGED admits
      BY <2>2 DEF WindowBound
    <2>3. QED
      BY <2>1, <2>2 DEF Next, Tick, Drop, vars
  <1>3. QED
    BY <1>1, <1>2, BucketTheorem, PTL DEF Spec

\* RateLimiter::allow implements the contract: it lets a packet through if and
\* only if the packet fits the envelope with all packets let through before.
THEOREM ContractTheorem == Spec => RefinesContract
  <1>1. Init => Contract!Init
    BY DEF Init, Contract!Init
  <1>2. BucketIsLeastSlack /\ [Next]_vars => [Contract!Next]_(Contract!vars)
    <2> SUFFICES ASSUME BucketIsLeastSlack, [Next]_vars
                 PROVE  [Contract!Next]_(Contract!vars)
      OBVIOUS
    <2>1. now \in Nat /\ admits \in Seq(Nat)
      BY DEF BucketIsLeastSlack
    <2>2. allow(rl, now) <=> Contract!Conforms(Append(admits, now))
      BY <2>1, AllowIffFits, ConformsIffFits
    <2>3. CASE Tick
      BY <2>1, <2>3 DEF Tick, Contract!Next, Contract!Advance
    <2>4. CASE Allow
      BY <2>2, <2>4 DEF Allow, Contract!Next, Contract!Admit
    <2>5. CASE Drop
      BY <2>2, <2>5 DEF Drop, Contract!Next, Contract!Refuse
    <2>6. CASE UNCHANGED vars
      BY <2>6 DEF vars, Contract!vars
    <2>7. QED
      BY <2>3, <2>4, <2>5, <2>6 DEF Next
  <1>3. QED
    BY <1>1, <1>2, BucketTheorem, PTL DEF Spec, RefinesContract, Contract!Spec
=============================================================================
