-------------------------------- MODULE Gateway --------------------------------
(***************************************************************************)
(* The gRPC gateway (grpc/server.go): sessions of JobStream, the registry  *)
(* miners, the job_queue consumer, and handleProbeResult with the nonces   *)
(* of anticheat/validator.go.                                              *)
(*                                                                         *)
(* A session is one stream; those of one owner share a key of miners.      *)
(* AMQP channels are numbered.  The server publishes results on rabbitCh,  *)
(* replaces it when it is closed, and consumes job_queue on the channel it *)
(* started with.  Jobs come from the scheduler, one nonce each.  Pings     *)
(* change nothing here (Scheduler has the heartbeat); a job_queue body is  *)
(* what the scheduler marshalled, so it parses and names an owner.         *)
(*                                                                         *)
(* Fault kinds: "send" to a miner, "close" of a channel by the broker or   *)
(* after a failed publish, "crash" of the process.                         *)
(***************************************************************************)
EXTENDS Naturals, FiniteSets, SequencesExt

CONSTANTS
    Sessions,
    SessionOwner,
    Jobs,
    JobOwner,
    SendCap,      \* capacity of sendCh
    FaultKinds,
    MaxFaults,
    None

ASSUME GatewayConstants ==
    /\ SendCap \in Nat \ {0} /\ MaxFaults \in Nat
    /\ None \notin Sessions \cup Jobs \cup Nat

VARIABLES
    session,      \* the stream: "new", "open", "ended"
    miners,       \* registry of connected nodes, by owner
    sendCh,       \* jobs for the bridge of a session
    bridge,       \* "up" until a Send fails
    got,          \* jobs the miner has received on the stream
    issued,       \* jobs the scheduler has published
    queue,        \* job_queue
    held,         \* the delivery the consumer works on
    target,       \* the miner it looked up
    consumer,     \* "up"; "closing" once its channel is closed; "down"
    consumerCh,   \* its channel
    rabbitCh,     \* the channel for results
    closed,       \* closed channels
    nonces,       \* task_nonce keys
    handling,     \* result in handleProbeResult past the nonce check
    using,        \* the channel GetHealthyChannel gave it
    published,    \* results published, per job
    pushed,       \* times a job was put on a send channel (history)
    faults

sessions == <<session, miners, sendCh, bridge, got>>

dispatcher == <<issued, queue, held, target, consumer, consumerCh, pushed>>

ingest == <<nonces, handling, using, published>>

gateVars == <<sessions, dispatcher, rabbitCh, closed, ingest, faults>>

Owners == {SessionOwner[s] : s \in Sessions} \cup {JobOwner[j] : j \in Jobs}

GateInit ==
    /\ session = [s \in Sessions |-> "new"]
    /\ miners = [o \in Owners |-> None]
    /\ sendCh = [s \in Sessions |-> <<>>]
    /\ bridge = [s \in Sessions |-> "up"]
    /\ got = [s \in Sessions |-> {}]
    /\ issued = {} /\ queue = <<>>
    /\ held = None /\ target = None
    /\ consumer = "up" /\ consumerCh = 0 /\ rabbitCh = 0 /\ closed = {}
    /\ nonces = {}
    /\ handling = [s \in Sessions |-> None]
    /\ using = [s \in Sessions |-> None]
    /\ published = [j \in Jobs |-> 0]
    /\ pushed = [j \in Jobs |-> 0]
    /\ faults = 0

Fault(kind) ==
    /\ kind \in FaultKinds /\ faults < MaxFaults
    /\ faults' = faults + 1

-----------------------------------------------------------------------------
(* JobStream.                                                              *)

\* Register, challenge, signature and node lookup have passed.
Connect(s) ==
    /\ session[s] = "new"
    /\ session' = [session EXCEPT ![s] = "open"]
    /\ miners' = [miners EXCEPT ![SessionOwner[s]] = s]
    /\ UNCHANGED <<sendCh, bridge, got, dispatcher, rabbitCh, closed, ingest, faults>>

\* The handshake returns an error before anything is registered.
Refuse(s) ==
    /\ session[s] = "new"
    /\ session' = [session EXCEPT ![s] = "ended"]
    /\ UNCHANGED <<miners, sendCh, bridge, got, dispatcher, rabbitCh, closed, ingest, faults>>

\* The bridge goroutine takes a job and sends it.
BridgeSend(s) ==
    /\ session[s] = "open" /\ bridge[s] = "up" /\ sendCh[s] # <<>>
    /\ sendCh' = [sendCh EXCEPT ![s] = Tail(@)]
    /\ \/ got' = [got EXCEPT ![s] = @ \cup {Head(sendCh[s])}] /\ UNCHANGED <<bridge, faults>>
       \/ Fault("send") /\ bridge' = [bridge EXCEPT ![s] = "down"] /\ UNCHANGED got
    /\ UNCHANGED <<session, miners, dispatcher, rabbitCh, closed, ingest>>

\* A cleanup that forgets the registry.
Deregistered_Missing(o) == miners

\* delete(s.miners, OwnerPubkey), whichever session the entry is of.
Deregistered(o) == [miners EXCEPT ![o] = None]

\* Recv fails, or the loop finds the bridge's error; the deferred calls run.
EndStream(s) ==
    /\ session[s] = "open" /\ handling[s] = None
    /\ session' = [session EXCEPT ![s] = "ended"]
    /\ miners' = Deregistered(SessionOwner[s])
    /\ UNCHANGED <<sendCh, bridge, got, dispatcher, rabbitCh, closed, ingest, faults>>

-----------------------------------------------------------------------------
(* ConsumeJobQueue.                                                        *)

\* External: the scheduler's SET of the nonce and its publish.
Issue(j) ==
    /\ j \notin issued
    /\ issued' = issued \cup {j}
    /\ nonces' = nonces \cup {j}
    /\ queue' = Append(queue, j)
    /\ UNCHANGED <<sessions, held, target, consumer, consumerCh, pushed, rabbitCh, closed,
                   handling, using, published, faults>>

\* External: with a prefetch of 1, the next message once the last is settled.
Deliver ==
    /\ consumer = "up" /\ held = None /\ queue # <<>>
    /\ held' = Head(queue) /\ queue' = Tail(queue)
    /\ UNCHANGED <<sessions, issued, target, consumer, consumerCh, pushed, rabbitCh, closed,
                   ingest, faults>>

\* The settled delivery is done with.  The loop ends if its channel is closed.
Settle ==
    /\ held' = None /\ target' = None
    /\ consumer' = IF consumer = "closing" THEN "down" ELSE consumer

\* Requeueing instead of discarding, the loop the comments warn of.
Discarded_Requeue(j) == IF consumer = "up" THEN Append(queue, j) ELSE queue

\* Nack without requeue; no dead letter exchange is declared.
Discarded(j) == queue

LookUp ==
    /\ held # None /\ target = None
    /\ LET s == miners[JobOwner[held]] IN
         \/ /\ s # None /\ target' = s
            /\ UNCHANGED <<held, consumer, queue>>
         \/ /\ s = None /\ Settle
            /\ queue' = Discarded(held)
    /\ UNCHANGED <<sessions, issued, consumerCh, pushed, rabbitCh, closed, ingest, faults>>

\* The job goes to the broker again although the miner has it.
Acked_Requeue(j) == IF consumer = "up" THEN Append(queue, j) ELSE queue

Acked(j) == queue

\* A non-blocking send; the session may be gone since LookUp.
Push ==
    /\ target # None /\ Settle
    /\ \/ /\ Len(sendCh[target]) < SendCap
          /\ sendCh' = [sendCh EXCEPT ![target] = Append(@, held)]
          /\ pushed' = [pushed EXCEPT ![held] = @ + 1]
          /\ queue' = Acked(held)
       \/ /\ Len(sendCh[target]) = SendCap
          /\ queue' = Discarded(held)
          /\ UNCHANGED <<sendCh, pushed>>
    /\ UNCHANGED <<session, miners, bridge, got, issued, consumerCh, rabbitCh, closed,
                   ingest, faults>>

-----------------------------------------------------------------------------
(* handleProbeResult.                                                      *)

\* A nonce that is checked and not deleted.
Spent_Kept(j) == nonces

Spent(j) == nonces \ {j}

\* A miner may send the result of a job it received, again, on any of its
\* streams.  ValidateTaskNonce consumes the nonce before the other checks.
ValidateTaskNonce(s, j) ==
    /\ session[s] = "open" /\ handling[s] = None
    /\ \E t \in Sessions : SessionOwner[t] = SessionOwner[s] /\ j \in got[t]
    /\ j \in nonces
    /\ nonces' = Spent(j)
    /\ handling' = [handling EXCEPT ![s] = j]
    /\ UNCHANGED <<sessions, dispatcher, rabbitCh, closed, using, published, faults>>

\* External: Redis drops the key at the end of its TTL.
ExpireNonce(j) ==
    /\ j \in nonces
    /\ nonces' = nonces \ {j}
    /\ UNCHANGED <<sessions, dispatcher, rabbitCh, closed, handling, using, published, faults>>

Handled(s) ==
    /\ handling' = [handling EXCEPT ![s] = None]
    /\ using' = [using EXCEPT ![s] = None]

\* VerifySignature, CheckRateLimit or DetectFakeLatency refuses the result,
\* or no channel can be opened.
Reject(s) ==
    /\ handling[s] # None /\ using[s] = None
    /\ Handled(s)
    /\ UNCHANGED <<sessions, dispatcher, rabbitCh, closed, nonces, published, faults>>

\* A channel opened for every result and closed by nobody.
Fresh_Always == rabbitCh + 1

Fresh == IF rabbitCh \in closed THEN rabbitCh + 1 ELSE rabbitCh

GetHealthyChannel(s) ==
    /\ handling[s] # None /\ using[s] = None
    /\ rabbitCh' = Fresh
    /\ using' = [using EXCEPT ![s] = Fresh]
    /\ UNCHANGED <<sessions, dispatcher, closed, nonces, handling, published, faults>>

Publish(s) ==
    /\ using[s] # None /\ using[s] \notin closed
    /\ published' = [published EXCEPT ![handling[s]] = @ + 1]
    /\ Handled(s)
    /\ UNCHANGED <<sessions, dispatcher, rabbitCh, closed, nonces, faults>>

\* Channel ch is closed: the broker takes back what the consumer of ch holds.
Close(ch) ==
    /\ closed' = closed \cup {ch}
    /\ IF ch = consumerCh /\ consumer = "up"
       THEN /\ consumer' = IF held = None THEN "down" ELSE "closing"
            /\ queue' = IF held = None THEN queue ELSE <<held>> \o queue
       ELSE UNCHANGED <<consumer, queue>>

\* The error is logged, the result is gone, the channel is closed.
PublishFails(s) ==
    /\ using[s] # None
    /\ \/ using[s] \in closed /\ UNCHANGED faults
       \/ using[s] \notin closed /\ Fault("close")
    /\ Close(using[s])
    /\ Handled(s)
    /\ UNCHANGED <<sessions, issued, held, target, consumerCh, pushed, rabbitCh, nonces, published>>

\* External: the broker closes a channel (idle, missed heartbeat).
BrokerCloses ==
    /\ rabbitCh \notin closed /\ Fault("close")
    /\ Close(rabbitCh)
    /\ UNCHANGED <<sessions, issued, held, target, consumerCh, pushed, rabbitCh, ingest>>

\* The process dies and NewServer runs again.
Restart ==
    /\ Fault("crash")
    /\ session' = [s \in Sessions |-> IF session[s] = "open" THEN "ended" ELSE session[s]]
    /\ miners' = [o \in Owners |-> None]
    /\ sendCh' = [s \in Sessions |-> <<>>]
    /\ queue' = IF held # None /\ consumer = "up" THEN <<held>> \o queue ELSE queue
    /\ held' = None /\ target' = None
    /\ consumer' = "up" /\ consumerCh' = rabbitCh + 1 /\ rabbitCh' = rabbitCh + 1
    /\ handling' = [s \in Sessions |-> None]
    /\ using' = [s \in Sessions |-> None]
    /\ UNCHANGED <<bridge, got, issued, pushed, closed, nonces, published>>

-----------------------------------------------------------------------------

Dispatch == Deliver \/ LookUp \/ Push

GateNext ==
    \/ Dispatch \/ BrokerCloses \/ Restart
    \/ \E j \in Jobs : Issue(j) \/ ExpireNonce(j)
    \/ \E s \in Sessions :
         \/ Connect(s) \/ Refuse(s) \/ BridgeSend(s) \/ EndStream(s)
         \/ (\E j \in Jobs : ValidateTaskNonce(s, j))
         \/ Reject(s) \/ GetHealthyChannel(s) \/ Publish(s) \/ PublishFails(s)

GateSpec == GateInit /\ [][GateNext]_gateVars

\* The consumer goroutine runs; miners, broker and clients owe nothing.
FairGateSpec == GateSpec /\ WF_gateVars(Dispatch)

-----------------------------------------------------------------------------
(* Properties.                                                             *)

Channels == 0..(MaxFaults + 1)

(* The type invariant: no sendCh exceeds its buffer, and channels are      *)
(* opened only in place of closed ones.                                    *)
GateTypeOK ==
    /\ session \in [Sessions -> {"new", "open", "ended"}]
    /\ miners \in [Owners -> Sessions \cup {None}]
    /\ sendCh \in [Sessions -> Seq(Jobs)] /\ \A s \in Sessions : Len(sendCh[s]) <= SendCap
    /\ bridge \in [Sessions -> {"up", "down"}]
    /\ got \in [Sessions -> SUBSET Jobs]
    /\ issued \subseteq Jobs /\ queue \in Seq(Jobs)
    /\ held \in Jobs \cup {None} /\ target \in Sessions \cup {None}
    /\ consumer \in {"up", "closing", "down"}
    /\ consumerCh \in Channels /\ rabbitCh \in Channels /\ closed \subseteq Channels
    /\ nonces \subseteq Jobs
    /\ handling \in [Sessions -> Jobs \cup {None}]
    /\ using \in [Sessions -> Channels \cup {None}]
    /\ published \in [Jobs -> Nat] /\ pushed \in [Jobs -> Nat] /\ faults \in 0..MaxFaults

(* A job is answered once: however often the broker redelivers it and the  *)
(* miner repeats its result, on one stream or several at once, one result  *)
(* reaches the processing queue.                                           *)
AnsweredOnce == \A j \in Jobs : published[j] <= 1

(* The registry never sends the consumer to a stream that is over.         *)
EntriesAreOpen ==
    \A o \in Owners : miners[o] # None =>
        session[miners[o]] = "open" /\ SessionOwner[miners[o]] = o

(* A job is handed to a miner again only after the broker lost the         *)
(* consumer's channel or the process died: once more for each such fault.  *)
RepeatsBounded == \A j \in Jobs : pushed[j] <= 1 + faults

(* A job is in the hands of the broker or of the consumer.                 *)
Pending(j) == held = j \/ \E i \in DOMAIN queue : queue[i] = j

(* While its channel is open the consumer gets to every job, delivering or *)
(* discarding it: one miner, offline or with a full sendCh, holds up       *)
(* nobody (the tight loop of server.go:454).                               *)
JobsMove == \A j \in Jobs : Pending(j) ~> (~Pending(j) \/ consumer # "up")

(* README.md:258, server.go:113: miners registers the connected nodes.     *)
ConnectedIsRegistered ==
    \A s \in Sessions : session[s] = "open" => miners[SessionOwner[s]] # None

(* README "RabbitMQ isolates dispatch, ingestion, and settlement": what    *)
(* happens to results does not keep jobs from being dispatched.            *)
DispatchGoesOn == \A j \in Jobs : Pending(j) ~> ~Pending(j)
=============================================================================
