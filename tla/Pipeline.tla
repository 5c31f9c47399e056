------------------------------- MODULE Pipeline --------------------------------
(***************************************************************************)
(* A check from the scheduler to the exchange and back: scheduleTick, the  *)
(* memory registry, the job_queue consumer, streams and their buffers, and *)
(* handleProbeResult with all its layers.  Scheduler and Gateway have each *)
(* part in detail; here a tick and a result are one step each, and what is *)
(* asked is what a lost job or a refused result costs its monitor.         *)
(*                                                                         *)
(* Time is relative.  A second passes when the ticker and the consumer     *)
(* have done their work, open streams have sent their pings and the miners *)
(* on them have reported jobs of age ReportTime (a slow stream holds a job *)
(* back in its buffer, a probe has a timeout of ten seconds).  A job is    *)
(* known by monitor, node and age: two of one monitor are an interval      *)
(* apart.  Age counts to the end of the nonce.  A repeated result finds no *)
(* nonce and changes nothing.                                              *)
(***************************************************************************)
EXTENDS AntiCheat, FiniteSets

CONSTANTS
    Checks,       \* monitors
    Nodes,
    CheckEvery,   \* CheckIntervalSeconds
    NoNodeBackoff,
    NonceFloor,   \* 15 minutes
    FreshFor,     \* five minutes
    SendBuffer,   \* 64
    ReportTime,
    Latencies,    \* latencies in ms that are reported again and again
    Other,        \* any other
    MaxLosses

ASSUME PipelineConstants ==
    /\ IsFiniteSet(Checks)
    /\ CheckEvery \in Nat /\ NoNodeBackoff \in Nat \ {0} /\ NoNodeBackoff < CheckEvery
    /\ NonceFloor \in Nat /\ FreshFor \in Nat \ {0} /\ SendBuffer \in Nat \ {0}
    /\ ReportTime \in Nat \ {0} /\ ReportTime < 2 * CheckEvery
    /\ Other \notin Latencies /\ MaxLosses \in Nat

VARIABLES
    dueIn,        \* scheduler:due, relative to now
    jobs,         \* jobs in job_queue, in a sendCh, or with the miner
    online,       \* nodes with an open stream
    seen,         \* seconds since TrackHeartbeat
    rate,         \* ratelimit:node:
    streak,       \* latency:streak:
    answered,     \* monitors with a result published since the last second
    wasted,       \* jobs discarded for a node since its stream ended (history)
    losses        \* faults so far

pipeVars == <<dueIn, jobs, online, seen, rate, streak, answered, wasted, losses>>

NonceTTL == IF 2 * CheckEvery < NonceFloor THEN NonceFloor ELSE 2 * CheckEvery

Jobs == [mon : Checks, node : Nodes, age : 0..NonceTTL, at : {"queue", "buffer", "miner"}]

PipeInit ==
    /\ dueIn = [m \in Checks |-> 0]
    /\ jobs = {} /\ online = {}
    /\ seen = [r \in Nodes |-> FreshFor + 1]
    /\ rate = [r \in Nodes |-> NoKey]
    /\ streak = [r \in Nodes |-> [l \in Latencies |-> NoKey]]
    /\ answered = Checks
    /\ wasted = [r \in Nodes |-> 0]
    /\ losses = 0

Loss ==
    /\ losses < MaxLosses
    /\ losses' = losses + 1

Moved(j, place) == (jobs \ {j}) \cup {[j EXCEPT !.at = place]}

-----------------------------------------------------------------------------

PipeSecond ==
    /\ \A m \in Checks : dueIn[m] > 0
    /\ \A r \in online : seen[r] < FreshFor
    /\ \A j \in jobs :
         /\ j.at # "queue"
         /\ j.node \in online => j.age < ReportTime
    /\ dueIn' = [m \in Checks |-> dueIn[m] - 1]
    /\ jobs' = {[j EXCEPT !.age = IF @ < NonceTTL THEN @ + 1 ELSE @] : j \in jobs}
    /\ seen' = [r \in Nodes |-> IF seen[r] > FreshFor THEN seen[r] ELSE seen[r] + 1]
    /\ rate' = [r \in Nodes |-> Lapsed(rate[r])]
    /\ streak' = [r \in Nodes |-> [l \in Latencies |-> Lapsed(streak[r][l])]]
    /\ answered' = {}
    /\ UNCHANGED <<online, wasted, losses>>

\* Entries of the registry that no longer age.
FreshNodes_Ever == Nodes

FreshNodes == {r \in Nodes : seen[r] <= FreshFor}

\* scheduleTick.  MatchBatch gives a node one monitor; the others that are
\* due back off, and a job whose publish fails waits for its next time.  A
\* tick that fails is a later tick; for a lost ZADD see Scheduler.
ScheduleTick ==
    LET due == {m \in Checks : dueIn[m] = 0} IN
    /\ due # {}
    /\ \E matched \in SUBSET due : \E node \in [matched -> FreshNodes] :
         /\ \A m, k \in matched : node[m] = node[k] => m = k
         /\ FreshNodes # {} => matched # {}
         /\ \E unsent \in SUBSET matched :
              /\ IF unsent = {} THEN UNCHANGED losses ELSE Loss
              /\ jobs' = jobs \cup {[mon |-> m, node |-> node[m], age |-> 0, at |-> "queue"] :
                                      m \in matched \ unsent}
         /\ dueIn' = [m \in Checks |-> IF m \in matched THEN CheckEvery
                                       ELSE IF m \in due THEN NoNodeBackoff ELSE dueIn[m]]
    /\ UNCHANGED <<online, seen, rate, streak, answered, wasted>>

-----------------------------------------------------------------------------
(* Streams.                                                                *)

Dial(r) ==
    /\ r \notin online
    /\ online' = online \cup {r}
    /\ wasted' = [wasted EXCEPT ![r] = 0]
    /\ UNCHANGED <<dueIn, jobs, seen, rate, streak, answered, losses>>

\* What is in sendCh goes with the stream; the node stays in the registry.
HangUp(r) ==
    /\ r \in online /\ Loss
    /\ online' = online \ {r}
    /\ jobs' = {j \in jobs : ~(j.node = r /\ j.at = "buffer")}
    /\ UNCHANGED <<dueIn, seen, rate, streak, answered, wasted>>

\* UpdateHeartbeat and FindByNodePubKey, then TrackHeartbeat.
Track(r) == seen' = [seen EXCEPT ![r] = 0]

\* A ping whose update or lookup fails is like none.
Ping(r) ==
    /\ r \in online /\ seen[r] > 0
    /\ Track(r)
    /\ UNCHANGED <<dueIn, jobs, online, rate, streak, answered, wasted, losses>>

\* The process dies and starts again: the consumer runs before any miner is
\* back.  job_queue is durable.
Reboot ==
    /\ Loss
    /\ online' = {}
    /\ jobs' = {j \in jobs : j.at # "buffer"}
    /\ seen' = [r \in Nodes |-> FreshFor + 1]
    /\ UNCHANGED <<dueIn, rate, streak, answered, wasted>>

Buffered(r) == {j \in jobs : j.node = r /\ j.at = "buffer"}

\* A buffer that takes one more than it has room for.
HasRoom_Late(r) == Cardinality(Buffered(r)) <= SendBuffer

HasRoom(r) == Cardinality(Buffered(r)) < SendBuffer

\* ConsumeJobQueue: a job for a node that is away or full is discarded.
ConsumeJob(j) ==
    /\ j \in jobs /\ j.at = "queue"
    /\ \/ /\ j.node \in online /\ HasRoom(j.node)
          /\ jobs' = Moved(j, "buffer")
          /\ UNCHANGED wasted
       \/ /\ j.node \in online /\ ~HasRoom(j.node)
          /\ jobs' = jobs \ {j}
          /\ UNCHANGED wasted
       \/ /\ j.node \notin online
          /\ jobs' = jobs \ {j}
          /\ wasted' = [wasted EXCEPT ![j.node] = @ + 1]
    /\ UNCHANGED <<dueIn, online, seen, rate, streak, answered, losses>>

SendJob(j) ==
    /\ j \in jobs /\ j.at = "buffer"
    /\ jobs' = Moved(j, "miner")
    /\ UNCHANGED <<dueIn, online, seen, rate, streak, answered, wasted, losses>>

-----------------------------------------------------------------------------
(* handleProbeResult.  Every layer that refuses a result ends it, and the  *)
(* nonce is gone by then.                                                  *)

Reported(j) ==
    /\ j \in jobs /\ j.at = "miner" /\ j.node \in online
    /\ jobs' = jobs \ {j}

\* The nonce has expired, or its SET was lost.
RefuseNonce(j) ==
    /\ Reported(j)
    /\ \/ j.age = NonceTTL /\ UNCHANGED losses
       \/ Loss
    /\ UNCHANGED <<dueIn, online, seen, rate, streak, answered, wasted>>

\* A fault of the miner.
RefuseSignature(j) ==
    /\ Reported(j) /\ j.age < NonceTTL
    /\ Loss
    /\ UNCHANGED <<dueIn, online, seen, rate, streak, answered, wasted>>

\* Redis fails in CheckRateLimit, before the INCR or after it.
RateFails(j) ==
    /\ Reported(j) /\ j.age < NonceTTL
    /\ Loss
    /\ rate' \in {rate, [rate EXCEPT ![j.node] = Incr(@, RateMax)]}
    /\ UNCHANGED <<dueIn, online, seen, streak, answered, wasted>>

RefuseRate(j) ==
    /\ Reported(j) /\ j.age < NonceTTL
    /\ ~WithinRate(rate[j.node])
    /\ rate' = [rate EXCEPT ![j.node] = RateKey(@)]
    /\ UNCHANGED <<dueIn, online, seen, streak, answered, wasted, losses>>

RefuseLatency(j, l) ==
    /\ Reported(j) /\ j.age < NonceTTL
    /\ WithinRate(rate[j.node]) /\ ~NotUniform(streak[j.node][l])
    /\ rate' = [rate EXCEPT ![j.node] = RateKey(@)]
    /\ streak' = [streak EXCEPT ![j.node][l] = StreakKey(@)]
    /\ UNCHANGED <<dueIn, online, seen, answered, wasted, losses>>

\* A latency that is not in Latencies starts a key nobody asks for again.
Counted(r, l) ==
    IF l = Other THEN streak ELSE [streak EXCEPT ![r][l] = StreakKey(@)]

PublishAnswer(j, l) ==
    /\ Reported(j) /\ j.age < NonceTTL
    /\ WithinRate(rate[j.node])
    /\ l # Other => NotUniform(streak[j.node][l])
    /\ rate' = [rate EXCEPT ![j.node] = RateKey(@)]
    /\ streak' = Counted(j.node, l)
    /\ \/ answered' = answered \cup {j.mon} /\ UNCHANGED losses
       \/ Loss /\ UNCHANGED answered
    /\ UNCHANGED <<dueIn, online, seen, wasted>>

Answer(j) ==
    \/ RefuseNonce(j) \/ RefuseSignature(j) \/ RateFails(j) \/ RefuseRate(j)
    \/ \E l \in Latencies : RefuseLatency(j, l)
    \/ \E l \in Latencies \cup {Other} : PublishAnswer(j, l)

PipeNext ==
    \/ PipeSecond \/ ScheduleTick \/ Reboot
    \/ \E r \in Nodes : Dial(r) \/ HangUp(r) \/ Ping(r)
    \/ \E j \in jobs : ConsumeJob(j) \/ SendJob(j) \/ Answer(j)

\* Clock, scheduler, consumer and bridges run; miners come back, ping and
\* report.
PipeFairness ==
    /\ WF_pipeVars(PipeSecond)
    /\ WF_pipeVars(ScheduleTick)
    /\ WF_pipeVars(\E j \in jobs : ConsumeJob(j))
    /\ WF_pipeVars(\E j \in jobs : SendJob(j))
    /\ WF_pipeVars(\E j \in jobs : Answer(j))
    /\ \A r \in Nodes : WF_pipeVars(Dial(r)) /\ WF_pipeVars(Ping(r))

PipeSpec == PipeInit /\ [][PipeNext]_pipeVars /\ PipeFairness

-----------------------------------------------------------------------------
(* Properties.                                                             *)

(* The type invariant: no buffer overflows, and a monitor's next check is  *)
(* at most an interval away.                                               *)
PipeTypeOK ==
    /\ dueIn \in [Checks -> 0..CheckEvery]
    /\ jobs \subseteq Jobs /\ \A r \in Nodes : Cardinality(Buffered(r)) <= SendBuffer
    /\ online \subseteq Nodes /\ seen \in [Nodes -> 0..(FreshFor + 1)]
    /\ rate \in [Nodes -> Keys(RateMax, RateWindow)]
    /\ streak \in [Nodes -> [Latencies -> Keys(StreakMax, StreakWindow)]]
    /\ answered \subseteq Checks /\ wasted \in [Nodes -> Nat] /\ losses \in 0..MaxLosses

(* A node that is gone is kept in the registry for five minutes; until     *)
(* then each monitor loses a bounded number of checks to it.               *)
WasteBounded ==
    \A r \in Nodes :
        wasted[r] <= Cardinality(Checks) * (FreshFor \div CheckEvery + 1)

(* Jobs discarded, lost in a buffer or in a restart, results refused after *)
(* their nonce was used up: whatever is lost, finitely often, the monitor  *)
(* is answered again and again.  It takes miners that come back, and whose *)
(* latencies each stay away for five minutes now and then: a node that     *)
(* keeps reporting one is refused for ever, as the expiry is renewed with  *)
(* every result.                                                           *)
AnsweredAgain ==
    (\A r \in Nodes : \A l \in Latencies : []<>(streak[r][l].n = 0)) =>
        \A m \in Checks : []<>(m \in answered)
=============================================================================
