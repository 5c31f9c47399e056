-------------------------- MODULE MCResultProcessor --------------------------
(***************************************************************************)
(* ResultProcessor on small instances: a batch of three results (one       *)
(* without a monitor), a packet whose timestamp no partition covers and    *)
(* one that does not parse.                                                *)
(***************************************************************************)
EXTENDS ResultProcessor

MCUsers == {"ua", "ub"}

MCMonitors == {"ma", "mb"}

MCRunners == {"ra"}

MCOwner == [m \in MCMonitors |-> IF m = "mb" THEN "ub" ELSE "ua"]

MCStake == [r \in MCRunners |-> 19]

MCCredit == [u \in MCUsers |-> 2]

R(m) == [monitor |-> m, dated |-> TRUE]

Undated(m) == [monitor |-> m, dated |-> FALSE]

MCResults ==
    [p \in Packets |->
        CASE p = "batch" -> <<R("mb"), R("none"), R("ma")>>
          [] p = "late" -> <<Undated("ma")>>
          [] OTHER -> <<R("mb")>>]

MCRunner == [p \in Packets |-> "ra"]
=============================================================================
