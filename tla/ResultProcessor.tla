---------------------------- MODULE ResultProcessor ----------------------------
(***************************************************************************)
(* The path from processing_queue to the ledger: StartResultProcessor and  *)
(* runConsumeLoop (workers/result_processor.go), ProcessPacket             *)
(* (services/ping_log_service.go) and BulkInsert (db/repositories).        *)
(*                                                                         *)
(* Every backend instance runs one processor.  RabbitMQ hands each at most *)
(* Prefetch unacknowledged packets and returns them to the front of the    *)
(* queue when the channel or the process dies.  A processor keeps working  *)
(* on its packet when its channel is gone; its Ack then has no effect.     *)
(* ProcessPacket settles result by result, each in a transaction of its    *)
(* own (Settle of RewardLedger), and stores the logs in one COPY at the    *)
(* end: between the two lies everything this module is about.              *)
(*                                                                         *)
(* Faults (lost channels, crashes, database errors, replies lost after a   *)
(* commit) are bounded by MaxFaults.                                       *)
(***************************************************************************)
EXTENDS RewardLedger, SequencesExt

CONSTANTS
    Processors,   \* backend instances
    Packets,      \* result packets the gateway publishes
    PacketRunner, \* RunnerPubkey of a packet, known or not
    Results,      \* its results: [monitor, dated]; dated means that a ping_logs
                  \*   partition covers the timestamp the miner sent
    NoMonitor,    \* the empty MonitorID
    Malformed,    \* packets whose JSON does not parse
    Prefetch,     \* Qos(10, 0, false)
    MaxFaults

ASSUME ProcessorConstants ==
    /\ Malformed \subseteq Packets
    /\ Results \in [Packets -> Seq([monitor : Monitors \cup {NoMonitor}, dated : BOOLEAN])]
    /\ DOMAIN PacketRunner = Packets
    /\ Prefetch \in Nat \ {0}
    /\ MaxFaults \in Nat
    /\ Packets # {} /\ IsFiniteSet(Processors)

VARIABLES
    published,    \* packets that reached the fanout exchange
    queue,        \* processing_queue
    delivered,    \* unacknowledged packets of each open channel, oldest first
    open,         \* the processor's channel is alive
    phase,        \* where runConsumeLoop is
    current,      \* the packet in ProcessPacket
    next,         \* index of its next result
    logs,         \* logsToInsert, by index
    requeue,      \* ProcessPacket returned an error
    finished,     \* packets acknowledged or discarded for good
    settled,      \* how often each result was settled (history)
    logged,       \* how often each result was stored in ping_logs (history)
    faults

broker == <<published, queue, delivered, finished>>

worker == <<phase, current, next, logs, requeue>>

procVars == <<ledger, broker, worker, open, settled, logged, faults>>

NoCount == [p \in Packets |-> [i \in 1..Len(Results[p]) |-> 0]]

ProcInit ==
    /\ LedgerInit
    /\ published = {} /\ queue = <<>> /\ finished = {}
    /\ delivered = [w \in Processors |-> <<>>]
    /\ open = [w \in Processors |-> FALSE]
    /\ phase = [w \in Processors |-> "waiting"]
    /\ current = [w \in Processors |-> CHOOSE p \in Packets : TRUE]
    /\ next = [w \in Processors |-> 1]
    /\ logs = [w \in Processors |-> {}]
    /\ requeue = [w \in Processors |-> FALSE]
    /\ settled = NoCount /\ logged = NoCount
    /\ faults = 0

Fault == faults < MaxFaults /\ faults' = faults + 1

-----------------------------------------------------------------------------
(* RabbitMQ and the channel.                                               *)

\* The gateway publishes a packet once.
Publish(p) ==
    /\ p \notin published
    /\ published' = published \cup {p}
    /\ queue' = Append(queue, p)
    /\ UNCHANGED <<ledger, delivered, finished, worker, open, settled, logged, faults>>

\* A channel that is reopened behind the back of a busy consumer.
OpenChannel_Busy(w) ==
    /\ ~ open[w]
    /\ open' = [open EXCEPT ![w] = TRUE]
    /\ UNCHANGED <<ledger, broker, worker, settled, logged, faults>>

\* rabbitConn.Channel, Qos and Consume; a failure only repeats the loop.
OpenChannel(w) ==
    /\ phase[w] = "waiting" /\ ~ open[w]
    /\ open' = [open EXCEPT ![w] = TRUE]
    /\ UNCHANGED <<ledger, broker, worker, settled, logged, faults>>

Deliver(w) ==
    /\ open[w] /\ queue # <<>> /\ Len(delivered[w]) < Prefetch
    /\ delivered' = [delivered EXCEPT ![w] = Append(@, Head(queue))]
    /\ queue' = Tail(queue)
    /\ UNCHANGED <<ledger, published, finished, worker, open, settled, logged, faults>>

\* The broker takes back what an ended channel has not acknowledged.
ReturnDelivered(w) ==
    /\ open' = [open EXCEPT ![w] = FALSE]
    /\ queue' = delivered[w] \o queue
    /\ delivered' = [delivered EXCEPT ![w] = <<>>]
    /\ UNCHANGED <<published, finished>>

CloseChannel(w) ==
    /\ open[w] /\ Fault
    /\ ReturnDelivered(w)
    /\ UNCHANGED <<ledger, worker, settled, logged>>

\* The process dies; the next one starts in the outer loop.
Crash(w) ==
    /\ open[w] \/ phase[w] # "waiting"
    /\ Fault
    /\ ReturnDelivered(w)
    /\ phase' = [phase EXCEPT ![w] = "waiting"]
    /\ UNCHANGED <<ledger, current, next, logs, requeue, settled, logged>>

-----------------------------------------------------------------------------
(* runConsumeLoop.                                                         *)

HasDelivery(w) == phase[w] = "waiting" /\ open[w] /\ delivered[w] # <<>>

\* Nack(false, false): a packet that does not parse is thrown away.
DiscardPacket(w) ==
    /\ HasDelivery(w) /\ Head(delivered[w]) \in Malformed
    /\ delivered' = [delivered EXCEPT ![w] = Tail(@)]
    /\ finished' = finished \cup {Head(delivered[w])}
    /\ UNCHANGED <<ledger, published, queue, worker, open, settled, logged, faults>>

StartPacket(w) ==
    /\ HasDelivery(w) /\ Head(delivered[w]) \notin Malformed
    /\ phase' = [phase EXCEPT ![w] = "settling"]
    /\ current' = [current EXCEPT ![w] = Head(delivered[w])]
    /\ next' = [next EXCEPT ![w] = 1]
    /\ logs' = [logs EXCEPT ![w] = {}]
    /\ requeue' = [requeue EXCEPT ![w] = FALSE]
    /\ UNCHANGED <<ledger, broker, open, settled, logged, faults>>

\* A Nack that does not ask for the packet back.
NackedQueue_Dropped(w) == queue

NackedQueue(w) == <<current[w]>> \o queue

\* Ack, or Nack(false, true) after an error; on a dead channel neither counts.
Reply(w) ==
    /\ phase[w] = "replying"
    /\ phase' = [phase EXCEPT ![w] = "waiting"]
    /\ \/ ~ open[w] /\ UNCHANGED <<delivered, queue, finished>>
       \/ open[w] /\ delivered' = [delivered EXCEPT ![w] = Tail(@)]
          /\ IF requeue[w]
             THEN queue' = NackedQueue(w) /\ UNCHANGED finished
             ELSE finished' = finished \cup {current[w]} /\ UNCHANGED queue
    /\ UNCHANGED <<ledger, published, current, next, logs, requeue, open,
                   settled, logged, faults>>

-----------------------------------------------------------------------------
(* ProcessPacket: one transaction per result, then one COPY.               *)

Result(w) == Results[current[w]][next[w]]

AtResult(w) == phase[w] = "settling" /\ next[w] <= Len(Results[current[w]])

\* An empty MonitorID, and any error of ProcessJobSettlement, are skipped.
Continue(w) ==
    /\ next' = [next EXCEPT ![w] = @ + 1]
    /\ UNCHANGED <<broker, phase, current, requeue, open, logged>>

SkipResult(w) ==
    /\ AtResult(w) /\ Result(w).monitor = NoMonitor
    /\ Continue(w)
    /\ UNCHANGED <<ledger, logs, settled, faults>>

\* The transaction commits for the current result.
SettleCurrent(w) ==
    /\ Result(w).monitor \in Monitors /\ PacketRunner[current[w]] \in Runners
    /\ Settle(Result(w).monitor, PacketRunner[current[w]])
    /\ settled' = [settled EXCEPT ![current[w]][next[w]] = @ + 1]

SettleResult(w) ==
    /\ AtResult(w) /\ SettleCurrent(w)
    /\ logs' = [logs EXCEPT ![w] = @ \cup {next[w]}]
    /\ Continue(w)
    /\ UNCHANGED faults

CannotSettle(w) ==
    /\ Result(w).monitor # NoMonitor
    /\ \/ ~ HasCredit(Owner[Result(w).monitor])
       \/ PacketRunner[current[w]] \notin Runners

\* A refusal that is returned instead of skipped: the packet comes back.
RefuseResult_Return(w) ==
    /\ AtResult(w) /\ CannotSettle(w)
    /\ phase' = [phase EXCEPT ![w] = "replying"]
    /\ requeue' = [requeue EXCEPT ![w] = TRUE]
    /\ UNCHANGED <<ledger, broker, current, next, logs, open, settled, logged, faults>>

\* A refusal whose result is logged all the same.
RefuseResult_Log(w) ==
    /\ AtResult(w) /\ CannotSettle(w)
    /\ logs' = [logs EXCEPT ![w] = @ \cup {next[w]}]
    /\ Continue(w)
    /\ UNCHANGED <<ledger, settled, faults>>

\* No credit left or an unknown runner: the transaction rolls back.
RefuseResult(w) ==
    /\ AtResult(w) /\ CannotSettle(w)
    /\ Continue(w)
    /\ UNCHANGED <<ledger, logs, settled, faults>>

\* The database fails before the commit.
FailSettlement(w) ==
    /\ AtResult(w) /\ Result(w).monitor # NoMonitor
    /\ Fault
    /\ Continue(w)
    /\ UNCHANGED <<ledger, logs, settled>>

\* The commit takes effect, its reply does not arrive.
LoseCommitReply(w) ==
    /\ AtResult(w) /\ SettleCurrent(w)
    /\ Fault
    /\ Continue(w)
    /\ UNCHANGED logs

AtInsert(w) == phase[w] = "settling" /\ next[w] > Len(Results[current[w]])

\* COPY stores every row or, when one has no partition, none.
Insertable(w) == \A i \in logs[w] : Results[current[w]][i].dated

StoreLogs(w) ==
    logged' = [logged EXCEPT ![current[w]] =
                  [i \in DOMAIN @ |-> IF i \in logs[w] THEN @[i] + 1 ELSE @[i]]]

EndPacket(w, err) ==
    /\ phase' = [phase EXCEPT ![w] = "replying"]
    /\ requeue' = [requeue EXCEPT ![w] = err]
    /\ UNCHANGED <<ledger, broker, current, next, logs, open, settled>>

InsertLogs(w) ==
    /\ AtInsert(w)
    /\ IF Insertable(w) THEN StoreLogs(w) ELSE UNCHANGED logged
    /\ EndPacket(w, ~ Insertable(w))
    /\ UNCHANGED faults

\* The COPY fails, with or without having stored the rows.
FailInsert(w) ==
    /\ AtInsert(w) /\ logs[w] # {}
    /\ Fault
    /\ UNCHANGED logged \/ (Insertable(w) /\ StoreLogs(w))
    /\ EndPacket(w, TRUE)

Work(w) ==
    \/ DiscardPacket(w) \/ StartPacket(w)
    \/ SkipResult(w) \/ SettleResult(w) \/ RefuseResult(w)
    \/ InsertLogs(w) \/ Reply(w)

ProcNext ==
    \/ \E p \in Packets : Publish(p)
    \/ \E w \in Processors :
         \/ OpenChannel(w) \/ Deliver(w) \/ Work(w)
         \/ CloseChannel(w) \/ Crash(w)
         \/ FailSettlement(w) \/ LoseCommitReply(w) \/ FailInsert(w)

ProcSpec == ProcInit /\ [][ProcNext]_procVars

\* The loop runs and the broker delivers; nothing is assumed of the faults.
FairProcSpec ==
    /\ ProcSpec
    /\ \A w \in Processors :
         WF_procVars(OpenChannel(w) \/ Work(w)) /\ WF_procVars(Deliver(w))

-----------------------------------------------------------------------------

\* The type invariant: the queue holds published packets only, and the logs a
\* processor has collected are results of its current packet.
ProcTypeOK ==
    /\ LedgerTypeOK
    /\ published \subseteq Packets /\ finished \subseteq published
    /\ queue \in Seq(published)
    /\ delivered \in [Processors -> Seq(published)]
    /\ open \in [Processors -> BOOLEAN]
    /\ phase \in [Processors -> {"waiting", "settling", "replying"}]
    /\ current \in [Processors -> Packets]
    /\ next \in [Processors -> Nat]
    /\ \A w \in Processors : logs[w] \subseteq DOMAIN Results[current[w]]
    /\ requeue \in [Processors -> BOOLEAN]
    /\ faults \in 0..MaxFaults

Places(s, p) == {i \in DOMAIN s : s[i] = p}

DeliveredAt(p) == UNION {{w} \X Places(delivered[w], p) : w \in Processors}

\* The broker holds every unfinished packet exactly once, whatever closes,
\* crashes or is returned; a packet leaves only by Ack or as malformed.
NoPacketLost ==
    \A p \in published :
        Cardinality(Places(queue, p)) + Cardinality(DeliveredAt(p)) =
            IF p \in finished THEN 0 ELSE 1

\* A processor that may acknowledge is working on its oldest delivery: an Ack
\* never removes another packet.
AckHitsCurrent ==
    \A w \in Processors :
        open[w] /\ phase[w] # "waiting" =>
            delivered[w] # <<>> /\ Head(delivered[w]) = current[w]

\* ping_logs shows no check that was not paid for.
LogsArePaidFor ==
    \A p \in Packets : \A i \in DOMAIN Results[p] : logged[p][i] <= settled[p][i]

WellDated(p) == \A i \in DOMAIN Results[p] : Results[p][i].dated

\* A result is settled again only after a fault: every fault costs its owner at
\* most one more credit, if partitions cover the packet's timestamps.
OverbillingBounded ==
    \A p \in Packets : WellDated(p) =>
        \A i \in DOMAIN Results[p] : settled[p][i] <= 1 + faults

\* Every published packet is finished in the end: a packet that cannot be
\* stored comes back until it cannot be settled any more, and then it is acked.
EveryPacketFinishes ==
    \A p \in Packets : p \in published ~> p \in finished

\* "nonce-based job IDs prevent replay and duplicate settlement" (README.md:425).
SettledOnce ==
    \A p \in Packets : \A i \in DOMAIN Results[p] : settled[p][i] <= 1
=============================================================================
