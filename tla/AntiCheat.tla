------------------------------- MODULE AntiCheat -------------------------------
(***************************************************************************)
(* The Redis counters of anticheat/validator.go.                           *)
(*                                                                         *)
(* A key has a count and the seconds to its expiry (0: it has none).       *)
(* Counts stop one above the limit, since all greater ones are alike.      *)
(***************************************************************************)
EXTENDS Naturals

CONSTANTS
    RateMax,      \* 600
    RateWindow,   \* 60 seconds
    StreakMax,    \* 10
    StreakWindow  \* five minutes

ASSUME AntiCheatConstants ==
    /\ RateMax \in Nat \ {0} /\ RateWindow \in Nat \ {0}
    /\ StreakMax \in Nat \ {0} /\ StreakWindow \in Nat \ {0}

NoKey == [n |-> 0, ttl |-> 0]

Keys(max, window) == [n : 0..(max + 1), ttl : 0..window]

Incr(key, max) == [key EXCEPT !.n = IF @ > max THEN @ ELSE @ + 1]

\* External: Redis deletes a key whose time is over.
Lapsed(key) ==
    IF key.ttl = 0 THEN key
    ELSE IF key.ttl = 1 THEN NoKey
    ELSE [key EXCEPT !.ttl = @ - 1]

\* The expiry given with the first INCR only.
RateKey_First(key) ==
    LET k == Incr(key, RateMax)
    IN  IF key.n = 0 THEN [k EXCEPT !.ttl = RateWindow] ELSE k

\* CheckRateLimit: INCR, and EXPIRE NX.
RateKey(key) ==
    LET k == Incr(key, RateMax)
    IN  IF key.ttl = 0 THEN [k EXCEPT !.ttl = RateWindow] ELSE k

\* A limit compared with the count before the INCR.
WithinRate_Before(key) == key.n <= RateMax

WithinRate(key) == RateKey(key).n <= RateMax

\* DetectFakeLatency: INCR, and EXPIRE whether or not there is an expiry.
StreakKey(key) == [Incr(key, StreakMax) EXCEPT !.ttl = StreakWindow]

NotUniform(key) == StreakKey(key).n <= StreakMax
=============================================================================
