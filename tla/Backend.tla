-------------------------------- MODULE Backend --------------------------------
(***************************************************************************)
(* The life of the process: main.go, New, declareQueues and Run of         *)
(* app/application.go, and NewServer of grpc/server.go, with the partition *)
(* cron as one of its goroutines.                                          *)
(*                                                                         *)
(* New is a sequence of steps, each of which may fail; the process then    *)
(* exits and is started again.  The broker keeps what was declared.        *)
(***************************************************************************)
EXTENDS PartitionCron, SequencesExt

CONSTANTS
    Clients,      \* miners that open a JobStream
    MaxOutages    \* failed steps, failed runs of the cron and crashes

ASSUME BackendConstants == MaxOutages \in Nat

VARIABLES
    proc,         \* "down", "starting", "serving", "draining"
    at,           \* the step New is at
    declared,     \* topology of the broker
    streams,      \* open streams
    unrouted,     \* a result was published and reached no queue (history)
    outages

procVars == <<proc, at, declared, streams, unrouted>>

backendVars == <<cronVars, procVars, outages>>

\* What declareQueues asks of the broker.
Topology ==
    {"job_queue", "processing_queue", "solana_sync_queue", "telegram_queue",
     "monitor_updates", "bind processing_queue", "bind telegram_queue"}

\* NewPool, call by call.
Pool == <<"ParseConfig", "NewWithConfig", "Ping">>

\* What New calls: NewPool, Redis, RabbitMQ, declareQueues and the rest.
\* NewServer, which declares some of the topology again, and the workers end
\* the process themselves if they fail.
Startup ==
    Pool \o <<"redis Ping", "Dial", "Channel",
               "job_queue", "processing_queue", "solana_sync_queue", "telegram_queue",
               "monitor_updates", "bind processing_queue", "bind telegram_queue",
               "SyncSchedulerState", "NewServer", "workers">>

BackendInit ==
    /\ CronInit
    /\ proc = "down" /\ at = 1 /\ declared = {} /\ streams = {} /\ unrouted = FALSE
    /\ outages = 0

Outage ==
    /\ outages < MaxOutages
    /\ outages' = outages + 1

-----------------------------------------------------------------------------

\* External: whoever runs the container.
Launch ==
    /\ proc = "down"
    /\ proc' = "starting" /\ at' = 1
    /\ UNCHANGED <<cronVars, declared, streams, unrouted, outages>>

\* The next step of New; after the last one Run serves.
StartStep ==
    /\ proc = "starting"
    /\ declared' = declared \cup ({Startup[at]} \cap Topology)
    /\ \/ /\ at < Len(Startup)
          /\ at' = at + 1
          /\ UNCHANGED <<proc, cronVars>>
       \/ /\ at = Len(Startup)
          /\ proc' = "serving" /\ at' = 1
          /\ StartCron
    /\ UNCHANGED <<streams, unrouted, outages>>

\* Errors of declareQueues that are logged only.
AfterError_Declare ==
    IF Startup[at] \in Topology THEN [proc |-> "starting", at |-> at + 1]
    ELSE [proc |-> "down", at |-> 1]

\* New returns the error, and main exits.
AfterError == [proc |-> "down", at |-> 1]

StepFails ==
    /\ proc = "starting" /\ Outage
    /\ proc' = AfterError.proc /\ at' = AfterError.at
    /\ UNCHANGED <<cronVars, declared, streams, unrouted>>

Exit ==
    /\ proc' = "down" /\ streams' = {}
    /\ StopCron
    /\ UNCHANGED <<at, declared, unrouted>>

\* Serve returns an error and Run passes it to main, or the process dies.
Crash ==
    /\ proc \in {"serving", "draining"} /\ Outage
    /\ Exit

\* SIGTERM: the listener is closed and GracefulStop waits for the streams.
\* The context of 15 seconds is not given to it.
Signal ==
    /\ proc = "serving"
    /\ proc' = "draining"
    /\ UNCHANGED <<cronVars, at, declared, streams, unrouted, outages>>

\* GracefulStop returns; the HTTP server was never started, so Shutdown
\* returns at once.  The workers, whose context is never cancelled, go with it.
Drained ==
    /\ proc = "draining" /\ streams = {}
    /\ Exit
    /\ UNCHANGED outages

\* New streams while the server drains.
Accepting_Draining == proc \in {"serving", "draining"}

Accepting == proc = "serving"

Connect(c) ==
    /\ Accepting /\ c \notin streams
    /\ streams' = streams \cup {c}
    /\ UNCHANGED <<cronVars, proc, at, declared, unrouted, outages>>

EndStream(c) ==
    /\ c \in streams
    /\ streams' = streams \ {c}
    /\ UNCHANGED <<cronVars, proc, at, declared, unrouted, outages>>

Leave(c) == EndStream(c)

\* MaxConnectionAge and its grace are over.
AgeOut(c) == EndStream(c)

\* handleProbeResult publishes to the fanout exchange, which drops what no
\* queue is bound for.
PublishResult(c) ==
    /\ c \in streams
    /\ unrouted' = (unrouted \/ "bind processing_queue" \notin declared)
    /\ UNCHANGED <<cronVars, proc, at, declared, streams, outages>>

Cron == CronStep /\ UNCHANGED <<procVars, outages>>

CronFails == RunFails /\ Outage /\ UNCHANGED procVars

\* New is done within the day.
Day == proc # "starting" /\ NextDay /\ UNCHANGED <<procVars, outages>>

BackendNext ==
    \/ Launch \/ StartStep \/ StepFails \/ Crash \/ Signal \/ Drained
    \/ \E c \in Clients : Connect(c) \/ Leave(c) \/ AgeOut(c) \/ PublishResult(c)
    \/ Cron \/ CronFails \/ Day

\* gRPC ends a stream of its age, and GracefulStop returns.
BackendFairness ==
    /\ \A c \in Clients : WF_backendVars(AgeOut(c))
    /\ WF_backendVars(Drained)

BackendSpec == BackendInit /\ [][BackendNext]_backendVars /\ BackendFairness

-----------------------------------------------------------------------------
(* Properties.                                                             *)

(* The type invariant.  The cron lives exactly as long as the process      *)
(* serves or drains, sleeps until a Monday at most a week away, and never  *)
(* to run again in the week of the run before (a loop on Mondays).         *)
BackendTypeOK ==
    /\ today \in 0..LastDay
    /\ \A t \in tables : t.from % 7 = 0
    /\ indexed \subseteq {t.name : t \in tables}
    /\ cron \in {"off", "running", "sleeping"} /\ (cron = "off") = (proc \in {"down", "starting"})
    /\ week \in 0..(WeeksAhead - 1) /\ stmt \in {"table", "index"} /\ midnights \in {0, 1}
    /\ cron = "sleeping" => runAt \in today..(today + 7) /\ runAt % 7 = 0 /\ runAt > monday
    /\ missed \in 0..MaxOutages /\ late \in {None, 0, 1}
    /\ proc \in {"down", "starting", "serving", "draining"} /\ at \in 1..Len(Startup)
    /\ declared \subseteq Topology /\ streams \subseteq Clients
    /\ unrouted \in BOOLEAN /\ outages \in 0..MaxOutages

(* Whatever step of New fails however often, no result is published before *)
(* processing_queue is bound to the exchange: none is dropped by the       *)
(* broker (application.go:194, server.go:367).                             *)
ResultsRouted == ~unrouted

(* SIGTERM ends the process, at the latest when the last stream has        *)
(* reached its maximum age.                                                *)
ShutdownEnds == proc = "draining" ~> proc = "down"
=============================================================================
