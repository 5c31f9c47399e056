------------------------------ MODULE MCScheduler ------------------------------
(* Small instances of the scheduler.                                       *)
EXTENDS Scheduler

CONSTANTS s1, ma, mb, nx

\* Each alone on its host: MCOperations is about the cap.
MCDomain == [m \in {ma, mb} |-> IF m = ma THEN "shared" ELSE "other"]
=============================================================================
