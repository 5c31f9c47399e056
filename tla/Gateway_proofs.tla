---------------------------- MODULE Gateway_proofs ----------------------------
(***************************************************************************)
(* The gateway for any number of streams, owners, jobs and faults: a job   *)
(* is answered at most once and pushed once and once more per fault, an    *)
(* entry of the registry belongs to an open stream of its owner, and the   *)
(* buffers and the channels stay within their bounds.                      *)
(***************************************************************************)
EXTENDS Gateway, Lemmas

-----------------------------------------------------------------------------
(* Channels.                                                               *)

\* Who uses which channel: none is opened while the last one is open, so each
\* costs a fault, and the consumer works as long as its own is open.
ChannelInv ==
    /\ rabbitCh \in Nat /\ faults \in 0..MaxFaults
    /\ closed \subseteq 0..rabbitCh /\ consumerCh \in 0..rabbitCh
    /\ using \in [Sessions -> 0..rabbitCh \cup {None}]
    /\ rabbitCh <= faults
    /\ rabbitCh \in closed => rabbitCh + 1 <= faults
    /\ consumer = "up" => consumerCh \notin closed

\* No step breaks it: a channel that closes costs a fault.
LEMMA ChannelStep ==
    ASSUME ChannelInv, [GateNext]_gateVars
    PROVE  ChannelInv'
  <1> USE GatewayConstants
  <1>1. CASE UNCHANGED <<rabbitCh, faults, closed, consumerCh, using, consumer>>
    BY <1>1 DEF ChannelInv
  <1>2. ASSUME NEW s \in Sessions, GetHealthyChannel(s) PROVE ChannelInv'
    <2>1. CASE rabbitCh \in closed
      BY <1>2, <2>1 DEF GetHealthyChannel, Fresh, ChannelInv, dispatcher
    <2>2. CASE rabbitCh \notin closed
      BY <1>2, <2>2 DEF GetHealthyChannel, Fresh, ChannelInv, dispatcher
    <2> QED
      BY <2>1, <2>2
  <1>3. ASSUME NEW s \in Sessions, Handled(s), UNCHANGED <<rabbitCh, faults, closed, dispatcher>>
        PROVE  ChannelInv'
    BY <1>3 DEF Handled, ChannelInv, dispatcher
  <1>4. ASSUME NEW s \in Sessions, PublishFails(s) PROVE ChannelInv'
    <2>1. using[s] \in 0..rabbitCh
      BY <1>4 DEF PublishFails, ChannelInv
    <2>2. using' \in [Sessions -> 0..rabbitCh' \cup {None}] /\ UNCHANGED <<rabbitCh, consumerCh>>
      BY <1>4 DEF PublishFails, Handled, ChannelInv
    <2>3. CASE using[s] \in closed /\ UNCHANGED faults
      BY <1>4, <2>1, <2>2, <2>3 DEF PublishFails, Close, ChannelInv
    <2>4. CASE using[s] \notin closed /\ Fault("close")
      <3>1. closed' = closed \cup {using[s]} /\ faults' = faults + 1 /\ faults < MaxFaults
        BY <1>4, <2>4 DEF PublishFails, Close, Fault
      <3>2. consumer' = "up" => consumerCh' \notin closed'
        BY <1>4, <2>2, <3>1 DEF PublishFails, Close, ChannelInv
      <3>3. rabbitCh' \in closed' => rabbitCh' + 1 <= faults'
        <4>1. rabbitCh <= faults /\ rabbitCh \in Nat /\ faults \in Nat
          BY DEF ChannelInv
        <4> QED
          BY <2>2, <3>1, <4>1
      <3>4. closed' \subseteq 0..rabbitCh'
        BY <2>1, <2>2, <3>1 DEF ChannelInv
      <3>5. faults' \in 0..MaxFaults /\ rabbitCh' <= faults'
        BY <2>2, <3>1 DEF ChannelInv
      <3> QED
        BY <2>2, <3>2, <3>3, <3>4, <3>5 DEF ChannelInv
    <2> QED
      BY <1>4, <2>3, <2>4 DEF PublishFails
  <1>5. CASE BrokerCloses
    BY <1>5 DEF BrokerCloses, Close, Fault, ChannelInv, ingest
  <1>6. CASE Restart
    BY <1>6 DEF Restart, Fault, ChannelInv
  <1>7. ASSUME NEW s \in Sessions, BridgeSend(s) PROVE ChannelInv'
    BY <1>7 DEF BridgeSend, Fault, ChannelInv, dispatcher, ingest
  <1>8. CASE LookUp \/ Push
    BY <1>8 DEF LookUp, Push, Settle, ChannelInv, ingest
  <1> QED
    BY <1>1, <1>2, <1>3, <1>4, <1>5, <1>6, <1>7, <1>8
    DEF GateNext, gateVars, ingest, dispatcher, Dispatch, Deliver, Issue, ExpireNonce,
        Connect, Refuse, EndStream, ValidateTaskNonce, Reject, Publish

\* So it holds in every state.
LEMMA ChannelInvariant == GateSpec => []ChannelInv
  <1>1. GateInit => ChannelInv
    BY GatewayConstants DEF GateInit, ChannelInv
  <1> QED
    BY <1>1, ChannelStep, PTL DEF GateSpec

-----------------------------------------------------------------------------
(* Answers.                                                                *)

\* Neither published nor on its way to be.
Untouched(j) == published[j] = 0 /\ \A s \in Sessions : handling[s] # j

(* A job has one token, which is its nonce, then the handler that consumed *)
(* it, then the published result.  The token is lost on the way at most.   *)
OneToken ==
    /\ handling \in [Sessions -> Jobs \cup {None}]
    /\ published \in [Jobs -> Nat]
    /\ \A s \in Sessions : using[s] # None => handling[s] # None
    /\ nonces \subseteq issued
    /\ \A j \in Jobs : j \in nonces \/ j \notin issued => Untouched(j)
    /\ \A s \in Sessions : handling[s] # None => published[handling[s]] = 0
    /\ \A s, t \in Sessions : handling[s] = handling[t] /\ handling[s] # None => s = t
    /\ \A j \in Jobs : published[j] <= 1

\* What OneToken reads.
answers == <<issued, nonces, handling, using, published>>

\* A handler that ends leaves nothing but the other handlers' tokens.
LEMMA HandledKeepsToken ==
    ASSUME OneToken, NEW s \in Sessions, Handled(s), using \in [Sessions -> Nat \cup {None}],
           UNCHANGED <<issued, nonces, published>>
    PROVE  OneToken'
  BY GatewayConstants DEF OneToken, Untouched, Handled

\* The channels in use are numbers.
ChannelsNumbered ==
    /\ rabbitCh \in Nat
    /\ using \in [Sessions -> Nat \cup {None}]

\* Every channel number the gateway keeps is a number.
LEMMA NumberedInvariant == GateSpec => []ChannelsNumbered
  <1>1. ChannelInv => ChannelsNumbered
    BY DEF ChannelInv, ChannelsNumbered
  <1> QED
    BY <1>1, ChannelInvariant, PTL

\* OneToken is inductive.
LEMMA TokenInvariant == GateSpec => []OneToken
  <1>1. GateInit => OneToken
    BY GatewayConstants DEF GateInit, OneToken, Untouched
  <1>2. OneToken /\ ChannelsNumbered /\ [GateNext]_gateVars => OneToken'
    <2> SUFFICES ASSUME OneToken, ChannelsNumbered, [GateNext]_gateVars PROVE OneToken'
      OBVIOUS
    <2>1. CASE UNCHANGED answers
      BY <2>1 DEF OneToken, Untouched, answers
    <2>2. ASSUME NEW j \in Jobs, Issue(j) PROVE OneToken'
      BY <2>2 DEF OneToken, Untouched, Issue
    <2>3. ASSUME NEW j \in Jobs, ExpireNonce(j) PROVE OneToken'
      BY <2>3 DEF OneToken, Untouched, ExpireNonce, dispatcher
    <2>4. ASSUME NEW s \in Sessions, NEW j \in Jobs, ValidateTaskNonce(s, j) PROVE OneToken'
      <3>1. Untouched(j) /\ j \in issued
        BY <2>4 DEF OneToken, ValidateTaskNonce
      <3>2. /\ handling' = [handling EXCEPT ![s] = j]
            /\ nonces' = nonces \ {j}
            /\ UNCHANGED <<issued, using, published>>
        BY <2>4 DEF ValidateTaskNonce, Spent, dispatcher
      <3>3. QED
        BY <3>1, <3>2, GatewayConstants DEF OneToken, Untouched
    <2>5. ASSUME NEW s \in Sessions, Reject(s) \/ PublishFails(s) PROVE OneToken'
      BY <2>5, HandledKeepsToken DEF Reject, PublishFails, ChannelsNumbered, dispatcher
    <2>6. ASSUME NEW s \in Sessions, GetHealthyChannel(s) PROVE OneToken'
      BY <2>6 DEF OneToken, Untouched, GetHealthyChannel, ChannelsNumbered, dispatcher
    <2>7. ASSUME NEW s \in Sessions, Publish(s) PROVE OneToken'
      <3> DEFINE j == handling[s]
      <3>1. /\ j \in Jobs /\ published[j] = 0
            /\ j \notin nonces /\ j \in issued
            /\ \A t \in Sessions : t # s => handling[t] # j
        BY <2>7 DEF OneToken, Untouched, Publish
      <3>2. /\ published' = [published EXCEPT ![j] = 1]
            /\ handling' = [handling EXCEPT ![s] = None]
            /\ using' = [using EXCEPT ![s] = None]
            /\ UNCHANGED <<issued, nonces>>
        BY <2>7, <3>1 DEF Publish, Handled, dispatcher
      <3> HIDE DEF j
      <3>3. QED
        BY <3>1, <3>2, GatewayConstants DEF OneToken, Untouched, ChannelsNumbered
    <2>8. CASE Restart
      BY <2>8, GatewayConstants DEF OneToken, Untouched, Restart
    <2>9. QED
      BY <2>1, <2>2, <2>3, <2>4, <2>5, <2>6, <2>7, <2>8
      DEF GateNext, gateVars, ingest, dispatcher, answers, Dispatch, Deliver, LookUp, Push,
          BrokerCloses, Connect, Refuse, BridgeSend, EndStream
  <1>3. QED
    BY <1>1, <1>2, NumberedInvariant, PTL DEF GateSpec

(* Replayed results and redelivered jobs: one result per issued job at     *)
(* most passes handleProbeResult.                                          *)
THEOREM JobsAnsweredOnce == GateSpec => []AnsweredOnce
  <1>1. OneToken => AnsweredOnce
    BY DEF OneToken, AnsweredOnce
  <1>2. QED
    BY <1>1, TokenInvariant, PTL

-----------------------------------------------------------------------------
(* The registry.                                                           *)

RegistryInv ==
    /\ session \in [Sessions -> {"new", "open", "ended"}]
    /\ miners \in [Owners -> Sessions \cup {None}]
    /\ EntriesAreOpen

\* The registry's entries are inductive together with their types.
LEMMA RegistryInvariant == GateSpec => []RegistryInv
  <1>1. GateInit => RegistryInv
    BY DEF GateInit, RegistryInv, EntriesAreOpen
  <1>2. RegistryInv /\ [GateNext]_gateVars => RegistryInv'
    <2> SUFFICES ASSUME RegistryInv, [GateNext]_gateVars PROVE RegistryInv'
      OBVIOUS
    <2> USE GatewayConstants
    <2>1. CASE UNCHANGED <<session, miners>>
      BY <2>1 DEF RegistryInv, EntriesAreOpen
    <2>2. ASSUME NEW s \in Sessions, Connect(s) PROVE RegistryInv'
      <3>1. SessionOwner[s] \in Owners
        BY DEF Owners
      <3>2. \A o \in Owners : miners[o] # s
        BY <2>2 DEF Connect, RegistryInv, EntriesAreOpen
      <3>3. QED
        BY <2>2, <3>1, <3>2 DEF Connect, RegistryInv, EntriesAreOpen
    <2>3. ASSUME NEW s \in Sessions, Refuse(s) PROVE RegistryInv'
      BY <2>3 DEF Refuse, RegistryInv, EntriesAreOpen
    <2>4. ASSUME NEW s \in Sessions, EndStream(s) PROVE RegistryInv'
      <3>1. SessionOwner[s] \in Owners
        BY DEF Owners
      <3>2. QED
        BY <2>4, <3>1 DEF EndStream, Deregistered, RegistryInv, EntriesAreOpen
    <2>5. CASE Restart
      BY <2>5 DEF Restart, RegistryInv, EntriesAreOpen
    <2>6. QED
      BY <2>1, <2>2, <2>3, <2>4, <2>5
      DEF GateNext, gateVars, sessions, Dispatch, Deliver, LookUp, Push, BrokerCloses,
          Issue, ExpireNonce, BridgeSend, ValidateTaskNonce, Reject, GetHealthyChannel,
          Publish, PublishFails
  <1>3. QED
    BY <1>1, <1>2, PTL DEF GateSpec

(* Whatever streams of one owner come and go, the consumer is never sent   *)
(* to a stream that is over.                                               *)
THEOREM RegistryIsSound == GateSpec => []EntriesAreOpen
  <1>1. RegistryInv => EntriesAreOpen
    BY DEF RegistryInv
  <1> QED
    BY <1>1, RegistryInvariant, PTL

-----------------------------------------------------------------------------
(* Jobs.                                                                   *)

\* copies of a job with the broker and the consumer.
copies ==
    [j \in Jobs |-> (IF j \in ToSet(queue) THEN 1 ELSE 0) + (IF held = j THEN 1 ELSE 0)]

(* The queue holds a job once.  A closed channel puts the held job back    *)
(* while the consumer still works on it; that copy is paid with a fault.   *)
JobShape ==
    /\ issued \subseteq Jobs /\ queue \in Seq(Jobs) /\ IsInjective(queue)
    /\ ToSet(queue) \subseteq issued
    /\ held \in issued \cup {None}
    /\ target # None => held # None
    /\ consumer \in {"up", "closing", "down"}
    /\ consumer = "up" => held \notin ToSet(queue)
    /\ consumer = "down" => held = None
    /\ pushed \in [Jobs -> Nat] /\ faults \in Nat
    /\ \A j \in Jobs \ issued : pushed[j] = 0

JobCount == \A j \in Jobs : pushed[j] + copies[j] <= 1 + faults

JobInv == JobShape /\ JobCount

jobs == <<issued, queue, held, target, consumer, pushed>>

\* A job is waiting in the queue, held by the consumer, both or neither.
LEMMA CopiesType == \A j \in Jobs : copies[j] \in {0, 1, 2} /\ copies'[j] \in {0, 1, 2}
  BY DEF copies

\* A step that adds no more copies and pushes than it adds faults.
Kept ==
    /\ faults' >= faults
    /\ \A j \in Jobs :
         \/ pushed'[j] = pushed[j] /\ copies'[j] <= copies[j]
         \/ pushed'[j] = pushed[j] + 1 /\ copies'[j] + 1 <= copies[j]
         \/ pushed'[j] = pushed[j] /\ copies'[j] <= copies[j] + 1 /\ faults' > faults

\* Such a step keeps the count.
LEMMA CountKept ==
    ASSUME JobInv, JobShape', Kept
    PROVE  JobInv'
  <1>1. SUFFICES ASSUME NEW j \in Jobs PROVE pushed'[j] + copies'[j] <= 1 + faults'
    BY DEF JobInv, JobCount
  <1>2. copies[j] \in Nat /\ copies'[j] \in Nat
    BY DEF copies
  <1>3. pushed[j] \in Nat /\ faults \in Nat /\ faults' \in Nat /\ pushed[j] + copies[j] <= 1 + faults
    BY DEF JobInv, JobShape, JobCount
  <1> QED
    BY <1>2, <1>3 DEF Kept

\* Every step of the gateway is of that kind.
LEMMA JobStep ==
    ASSUME ChannelInv, JobInv, [GateNext]_gateVars
    PROVE  JobInv'
  <1> USE GatewayConstants
  <1>0. JobShape /\ JobCount
    BY DEF JobInv
  <1>1. ASSUME UNCHANGED jobs, faults' \in {faults, faults + 1} PROVE JobInv'
    <2>1. JobShape' /\ faults' >= faults
      BY <1>0, <1>1 DEF JobShape, jobs
    <2>2. \A j \in Jobs : pushed'[j] = pushed[j] /\ copies'[j] <= copies[j]
      BY <1>1 DEF copies, jobs
    <2> QED
      BY <1>0, <2>1, <2>2, CountKept DEF Kept
  <1>2. ASSUME NEW j \in Jobs, Issue(j) PROVE JobInv'
    <2>1. /\ queue' \in Seq(Jobs) /\ ToSet(queue') = ToSet(queue) \cup {j} /\ IsInjective(queue')
      BY <1>0, <1>2, QueueAppend DEF Issue, JobShape
    <2>2. JobShape'
      BY <1>0, <1>2, <2>1 DEF Issue, JobShape
    <2>3. pushed[j] = 0 /\ copies'[j] = 1 /\ \A k \in Jobs \ {j} : copies'[k] = copies[k]
      BY <1>0, <1>2, <2>1 DEF Issue, JobShape, copies
    <2>4. UNCHANGED <<pushed, faults>>
      BY <1>2 DEF Issue
    <2>5. QED
      <3>1. ASSUME NEW k \in Jobs PROVE pushed'[k] + copies'[k] <= 1 + faults'
        <4>1. faults \in Nat /\ pushed[k] + copies[k] <= 1 + faults
          BY <1>0 DEF JobCount, JobShape
        <4> QED
          BY <2>3, <2>4, <4>1
      <3> QED
        BY <2>2, <3>1 DEF JobInv, JobCount
  <1>3. CASE Deliver
    <2>1. /\ queue' \in Seq(Jobs) /\ ToSet(queue) = ToSet(queue') \cup {held'}
          /\ IsInjective(queue') /\ held' \notin ToSet(queue')
      BY <1>0, <1>3, QueueTail DEF Deliver, JobShape
    <2>2. JobShape' /\ faults' >= faults
      BY <1>0, <1>3, <2>1 DEF Deliver, JobShape
    <2>3. \A j \in Jobs : pushed'[j] = pushed[j] /\ copies'[j] <= copies[j]
      BY <1>0, <1>3, <2>1 DEF Deliver, copies, JobShape
    <2> QED
      BY <1>0, <2>2, <2>3, CountKept DEF Kept
  <1>4. CASE LookUp
    <2>1. JobShape' /\ faults' >= faults
      BY <1>0, <1>4 DEF LookUp, Settle, Discarded, JobShape
    <2>2. \A j \in Jobs : pushed'[j] = pushed[j] /\ copies'[j] <= copies[j]
      BY <1>0, <1>4 DEF LookUp, Settle, Discarded, copies, JobShape
    <2> QED
      BY <1>0, <2>1, <2>2, CountKept DEF Kept
  <1>5. CASE Push
    <2>1. held \in Jobs /\ held' = None /\ target' = None /\ queue' = queue
      BY <1>0, <1>5 DEF Push, Settle, Discarded, Acked, JobShape
    <2>2. pushed' \in {pushed, [pushed EXCEPT ![held] = @ + 1]} /\ UNCHANGED <<issued, faults>>
      BY <1>5 DEF Push
    <2>3. consumer' = IF consumer = "closing" THEN "down" ELSE consumer
      BY <1>5 DEF Push, Settle
    <2>4. JobShape' /\ faults' >= faults
      BY <1>0, <2>1, <2>2, <2>3 DEF JobShape
    <2>5. ASSUME NEW j \in Jobs
          PROVE  \/ pushed'[j] = pushed[j] /\ copies'[j] <= copies[j]
                 \/ pushed'[j] = pushed[j] + 1 /\ copies'[j] + 1 <= copies[j]
      <3>1. j = held => copies'[j] + 1 <= copies[j]
        BY <2>1, GatewayConstants DEF copies
      <3>2. j # held => copies'[j] <= copies[j] /\ pushed'[j] = pushed[j]
        BY <2>1, <2>2, <1>0, GatewayConstants DEF copies, JobShape
      <3>3. j = held => pushed'[j] \in {pushed[j], pushed[j] + 1}
        BY <2>1, <2>2, <1>0 DEF JobShape
      <3>4. copies'[j] \in Nat /\ copies[j] \in Nat
        BY DEF copies
      <3> QED
        BY <3>1, <3>2, <3>3, <3>4
    <2> QED
      BY <1>0, <2>4, <2>5, CountKept DEF Kept
  <1>6. ASSUME NEW ch, Close(ch), UNCHANGED <<issued, held, target, pushed>>,
               \/ ch \in closed /\ UNCHANGED faults
               \/ ch \notin closed /\ faults' = faults + 1
        PROVE  JobInv'
    <2>1. CASE ch = consumerCh /\ consumer = "up" /\ held # None
      <3>1. held \in Jobs /\ queue' = <<held>> \o queue
        BY <1>0, <1>6, <2>1 DEF Close, JobShape
      <3>2. /\ queue' \in Seq(Jobs) /\ ToSet(queue') = {held} \cup ToSet(queue)
            /\ IsInjective(queue')
        BY <1>0, <2>1, <3>1, QueuePrepend DEF JobShape
      <3>3. faults' = faults + 1
        BY <1>6, <2>1 DEF ChannelInv
      <3>4. JobShape' /\ faults' > faults /\ faults' >= faults
        BY <1>0, <1>6, <2>1, <3>2, <3>3 DEF Close, JobShape
      <3>5. \A j \in Jobs : pushed'[j] = pushed[j] /\ copies'[j] <= copies[j] + 1
        BY <1>6, <3>2 DEF copies
      <3> QED
        BY <1>0, <3>4, <3>5, CountKept DEF Kept
    <2>2. CASE ~(ch = consumerCh /\ consumer = "up" /\ held # None)
      <3>1. queue' = queue
        BY <1>6, <2>2 DEF Close
      <3>2. JobShape' /\ faults' >= faults
        BY <1>0, <1>6, <2>2, <3>1 DEF Close, JobShape
      <3>3. \A j \in Jobs : pushed'[j] = pushed[j] /\ copies'[j] <= copies[j]
        BY <1>6, <3>1 DEF copies
      <3> QED
        BY <1>0, <3>2, <3>3, CountKept DEF Kept
    <2> QED
      BY <2>1, <2>2
  <1>7. ASSUME NEW s \in Sessions, PublishFails(s) PROVE JobInv'
    BY <1>6, <1>7 DEF PublishFails, Fault
  <1>8. CASE BrokerCloses
    BY <1>6, <1>8 DEF BrokerCloses, Fault
  <1>9. CASE Restart
    <2> USE <1>9 DEF Restart, Fault
    <2>1. CASE held # None /\ consumer = "up"
      <3>1. held \in Jobs /\ queue' = <<held>> \o queue
        BY <1>0, <2>1 DEF JobShape
      <3>2. /\ queue' \in Seq(Jobs) /\ ToSet(queue') = {held} \cup ToSet(queue)
            /\ IsInjective(queue')
        BY <1>0, <2>1, <3>1, QueuePrepend DEF JobShape
      <3>0. /\ held' = None /\ target' = None /\ consumer' = "up" /\ faults' = faults + 1
            /\ UNCHANGED <<issued, pushed>>
        OBVIOUS
      <3>3. JobShape' /\ faults' > faults /\ faults' >= faults
        <4> HIDE <1>9 DEF Restart
        <4> QED
          BY <1>0, <2>1, <3>0, <3>1, <3>2 DEF JobShape
      <3>4. \A j \in Jobs : pushed'[j] = pushed[j] /\ copies'[j] <= copies[j] + 1
        BY <3>2 DEF copies
      <3> QED
        BY <1>0, <3>3, <3>4, CountKept DEF Kept
    <2>2. CASE ~(held # None /\ consumer = "up")
      <3>1. queue' = queue /\ held' = None
        BY <2>2
      <3>2. JobShape' /\ faults' >= faults
        BY <1>0, <2>2, <3>1 DEF JobShape
      <3>3. \A j \in Jobs : pushed'[j] = pushed[j] /\ copies'[j] <= copies[j]
        BY <3>1 DEF copies
      <3> QED
        BY <1>0, <3>2, <3>3, CountKept DEF Kept
    <2> QED
      BY <2>1, <2>2
  <1>10. ASSUME NEW s \in Sessions, BridgeSend(s) PROVE JobInv'
    BY <1>1, <1>10 DEF BridgeSend, Fault, dispatcher, jobs
  <1> QED
    BY <1>1, <1>2, <1>3, <1>4, <1>5, <1>7, <1>8, <1>9, <1>10
    DEF GateNext, gateVars, ingest, dispatcher, jobs, Dispatch, ExpireNonce,
        Connect, Refuse, EndStream, ValidateTaskNonce, Reject, Publish, GetHealthyChannel

\* So the count of pushes and copies holds in every state.
LEMMA JobInvariant == GateSpec => []JobInv
  <1>1. GateInit => JobInv
    BY GatewayConstants, QueueEmpty DEF GateInit, JobInv, JobShape, JobCount, copies
  <1> QED
    BY <1>1, JobStep, ChannelInvariant, PTL DEF GateSpec

(* However often channels close and the process restarts, a job is pushed  *)
(* to a miner once, and once more for each such fault.                     *)
THEOREM PushesBounded == GateSpec => []RepeatsBounded
  <1>1. ASSUME JobInv, NEW j \in Jobs PROVE pushed[j] <= 1 + faults
    <2>1. /\ pushed[j] \in Nat /\ faults \in Nat /\ copies[j] \in {0, 1, 2}
          /\ pushed[j] + copies[j] <= 1 + faults
      BY <1>1, CopiesType DEF JobInv, JobShape, JobCount
    <2> QED
      BY <2>1
  <1>2. JobInv => RepeatsBounded
    BY <1>1 DEF RepeatsBounded
  <1> QED
    BY <1>2, JobInvariant, PTL

-----------------------------------------------------------------------------
(* Types.                                                                  *)

\* The buffers between the consumer and the bridges.
BufferInv ==
    /\ sendCh \in [Sessions -> Seq(Jobs)]
    /\ \A s \in Sessions : Len(sendCh[s]) <= SendCap
    /\ bridge \in [Sessions -> {"up", "down"}]
    /\ got \in [Sessions -> SUBSET Jobs]
    /\ target \in Sessions \cup {None}

\* Every step keeps the buffers within their capacity.
LEMMA BufferStep ==
    ASSUME BufferInv, RegistryInv, JobInv, [GateNext]_gateVars
    PROVE  BufferInv'
  <1> USE GatewayConstants
  <1>1. CASE UNCHANGED <<sendCh, bridge, got, target>>
    BY <1>1 DEF BufferInv
  <1>2. ASSUME NEW s \in Sessions, BridgeSend(s) PROVE BufferInv'
    <2>1. /\ sendCh[s] \in Seq(Jobs) /\ sendCh[s] # <<>>
          /\ sendCh' = [sendCh EXCEPT ![s] = Tail(sendCh[s])] /\ UNCHANGED target
      BY <1>2 DEF BridgeSend, BufferInv, dispatcher
    <2>2. /\ Tail(sendCh[s]) \in Seq(Jobs) /\ Head(sendCh[s]) \in Jobs
          /\ Len(Tail(sendCh[s])) <= Len(sendCh[s])
      BY <2>1
    <2>3. /\ sendCh' \in [Sessions -> Seq(Jobs)]
          /\ \A t \in Sessions : Len(sendCh'[t]) <= SendCap
      BY <2>1, <2>2 DEF BufferInv
    <2>4. bridge' \in [Sessions -> {"up", "down"}]
      BY <1>2 DEF BridgeSend, BufferInv
    <2>5. got' \in [Sessions -> SUBSET Jobs]
      <3> DEFINE g == got[s] \cup {Head(sendCh[s])}
      <3>1. g \in SUBSET Jobs /\ got' \in {got, [got EXCEPT ![s] = g]}
        BY <1>2, <2>2 DEF BridgeSend, BufferInv
      <3> HIDE DEF g
      <3> QED
        BY <3>1 DEF BufferInv
    <2> QED
      BY <2>1, <2>3, <2>4, <2>5 DEF BufferInv
  <1>3. CASE LookUp
    <2>1. held \in Jobs
      BY <1>3 DEF LookUp, JobInv, JobShape
    <2>2. miners[JobOwner[held]] \in Sessions \cup {None}
      BY <2>1 DEF RegistryInv, Owners
    <2> QED
      BY <1>3, <2>2 DEF LookUp, Settle, BufferInv, sessions
  <1>4. CASE Push
    <2>1. held \in Jobs /\ target \in Sessions /\ target' = None /\ UNCHANGED <<bridge, got>>
      BY <1>4 DEF Push, Settle, JobInv, JobShape, BufferInv
    <2>2. CASE UNCHANGED sendCh
      BY <2>1, <2>2 DEF BufferInv
    <2>3. CASE Len(sendCh[target]) < SendCap /\ sendCh' = [sendCh EXCEPT ![target] = Append(@, held)]
      <3> DEFINE q == Append(sendCh[target], held)
      <3>1. q \in Seq(Jobs) /\ Len(q) <= SendCap
        BY <2>1, <2>3 DEF BufferInv
      <3>2. sendCh' = [sendCh EXCEPT ![target] = q]
        BY <2>3
      <3> HIDE DEF q
      <3> QED
        BY <2>1, <3>1, <3>2 DEF BufferInv
    <2> QED
      BY <1>4, <2>2, <2>3 DEF Push
  <1>5. CASE Restart
    BY <1>5 DEF Restart, BufferInv
  <1> QED
    BY <1>1, <1>2, <1>3, <1>4, <1>5
    DEF GateNext, gateVars, sessions, dispatcher, Dispatch, Deliver, BrokerCloses, Issue,
        ExpireNonce, Connect, Refuse, EndStream, ValidateTaskNonce, Reject,
        GetHealthyChannel, Publish, PublishFails

(* The type invariant: the consumer's non-blocking send keeps every sendCh *)
(* within its buffer, and GetHealthyChannel opens a channel only in place  *)
(* of one that a fault closed.                                             *)
THEOREM GatewayTypes == GateSpec => []GateTypeOK
  <1>1. GateInit => BufferInv
    BY GatewayConstants DEF GateInit, BufferInv
  <1>2. GateSpec => []BufferInv
    BY <1>1, BufferStep, RegistryInvariant, JobInvariant, PTL DEF GateSpec
  <1>3. ASSUME ChannelInv, OneToken, RegistryInv, JobInv, BufferInv PROVE GateTypeOK
    <2>1. 0..rabbitCh \subseteq Channels /\ rabbitCh \in Channels
      BY <1>3, GatewayConstants DEF ChannelInv, Channels
    <2>2. /\ consumerCh \in Channels /\ closed \subseteq Channels
          /\ using \in [Sessions -> Channels \cup {None}]
      BY <1>3, <2>1 DEF ChannelInv
    <2> QED
      BY <1>3, <2>1, <2>2
      DEF GateTypeOK, ChannelInv, OneToken, RegistryInv, JobInv, JobShape, BufferInv
  <1> QED
    BY <1>2, <1>3, ChannelInvariant, TokenInvariant, RegistryInvariant, JobInvariant, PTL
=============================================================================
