--------------------------- MODULE MCSettlementTx ---------------------------
(***************************************************************************)
(* SettlementTx with two concurrent callers, two owners, runners below, at *)
(* and above the stake limits of the multiplier, and ids no row has.       *)
(***************************************************************************)
EXTENDS SettlementTx

MCUsers == {"ua", "ub"}

MCMonitors == {"ma", "mb"}

MCRunners == {"low", "edge", "whale"}

MCMonitorIds == MCMonitors \cup {"deleted"}

MCRunnerKeys == MCRunners \cup {"stranger"}

MCOwner == [m \in MCMonitors |-> IF m = "mb" THEN "ub" ELSE "ua"]

\* Rewards of 10000, 15000 and 50000 millionths.
MCStake == [r \in MCRunners |->
    CASE r = "low" -> 19 [] r = "edge" -> 20 [] r = "whale" -> 2000]

MCCredit == [u \in MCUsers |-> IF u = "ua" THEN 3 ELSE 1]
=============================================================================
