----------------------------- MODULE MCOperations ------------------------------
(***************************************************************************)
(* The life of the process, a check's way through it, the REST way in and  *)
(* the matching of monitors and nodes.  They share no variable, so one     *)
(* behaviour shows one of them, and one run checks all four.               *)
(***************************************************************************)
EXTENDS Backend, Pipeline, Rest

CONSTANTS Absent, NoMonitor

VARIABLES
    part,
    row, funded, wait, arming, cronSaw, age, cursor, pc, lag, due, found,
    assigned, processed, since, early, faults

\* ma, mb and md share a host, mc has one of its own.
MCDomain == [m \in {"ma", "mb", "mc", "md"} |-> IF m = "mc" THEN "other" ELSE "shared"]

Match == INSTANCE Scheduler WITH
    Instances <- {"s1"}, Monitors <- {"ma", "mb", "mc", "md"}, NewMonitors <- {},
    Runners <- {"nx", "ny", "nz"}, Connected <- {}, Domain <- MCDomain, DomainCap <- 2,
    Interval <- 3, Backoff <- 1, OnlineFor <- 1, MaxLag <- 0, MaxFaults <- 0,
    None <- NoMonitor

\* Four monitors whose rows nobody touches, and three nodes that come and go.
QuietNext ==
    \/ Match!Second
    \/ Match!Tick("s1")
    \/ \E r \in {"nx", "ny", "nz"} : Match!Heartbeat("s1", r)

matchVars == <<row, funded, wait, arming, cronSaw, age, cursor, pc, lag, due, found,
               assigned, processed, since, early, faults>>

opVars == <<backendVars, pipeVars, restVars, matchVars, part>>

OpInit ==
    /\ part \in {"process", "pipeline", "rest", "matching"}
    /\ BackendInit /\ PipeInit /\ RestInit /\ Match!SchedInit
    /\ part # "process" => today = 0

OpNext ==
    /\ \/ part = "process" /\ BackendNext /\ UNCHANGED <<pipeVars, restVars, matchVars>>
       \/ part = "pipeline" /\ PipeNext /\ UNCHANGED <<backendVars, restVars, matchVars>>
       \/ part = "rest" /\ RestNext /\ UNCHANGED <<backendVars, pipeVars, matchVars>>
       \/ part = "matching" /\ QuietNext /\ UNCHANGED <<backendVars, pipeVars, restVars>>
    /\ UNCHANGED part

\* PipeFairness, where it is the pipeline that runs.
OpSpec ==
    /\ OpInit /\ [][OpNext]_opVars
    /\ BackendFairness
    /\ WF_pipeVars(part = "pipeline" /\ PipeSecond)
    /\ WF_pipeVars(part = "pipeline" /\ ScheduleTick)
    /\ WF_pipeVars(part = "pipeline" /\ \E j \in jobs : ConsumeJob(j))
    /\ WF_pipeVars(part = "pipeline" /\ \E j \in jobs : SendJob(j))
    /\ WF_pipeVars(part = "pipeline" /\ \E j \in jobs : Answer(j))
    /\ \A r \in Nodes : /\ WF_pipeVars(part = "pipeline" /\ Dial(r))
                          /\ WF_pipeVars(part = "pipeline" /\ Ping(r))

(* MatchSpreads of Scheduler: whatever rows and nodes a tick finds, caps   *)
(* are kept and the work is spread over online nodes (registry.go:94).     *)
MatchSpreads == Match!MatchSpreads

\* A result without a nonce, one that is there twice, and a good batch.
MCBatches == {<<"job", "t1">>, <<"t1", "t1">>, <<"t1", "t2">>}
=============================================================================
