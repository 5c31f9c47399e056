------------------------------- MODULE Scheduler -------------------------------
(***************************************************************************)
(* When a monitor is checked: scheduleTick (workers/schedular.go) over the *)
(* Redis sorted set scheduler:due, MatchBatch and the node registry        *)
(* (services/registry.go), SyncSchedulerState and its cron, and the        *)
(* monitor operations that touch the same rows (monitor_service.go).       *)
(*                                                                         *)
(* Time is relative, so behaviours need no end: wait[m] is the score of m  *)
(* minus now (0 when due, Absent when not in the set), age is the time     *)
(* since a heartbeat, since[m] the time since the last IssuedAt of m.  One *)
(* Second passes at a time.  A tick takes its `now` at the start and at    *)
(* most MaxLag seconds to end.  The 100 members that one tick fetches are  *)
(* more than the model has.  Redis results are ignored by the code: a lost *)
(* ZADD or publish is a fault, bounded by MaxFaults.                       *)
(***************************************************************************)
EXTENDS Naturals, FiniteSets, SequencesExt

CONSTANTS
    Instances,    \* backends that run a scheduler
    Monitors,
    NewMonitors,  \* those created while the system runs
    Runners,      \* nodes, by owner pubkey
    Connected,    \* those that ping before five minutes are over, always
    Domain,       \* cleanDomain(TargetURL)
    DomainCap,    \* 5 jobs per domain and tick
    Interval,     \* CheckIntervalSeconds
    Backoff,      \* noNodeBackoffSec
    OnlineFor,    \* five minutes
    MaxLag,
    MaxFaults,
    Absent,       \* not a member of scheduler:due
    None          \* no monitor for this node

ASSUME SchedulerConstants ==
    /\ IsFiniteSet(Instances) /\ IsFiniteSet(Monitors) /\ IsFiniteSet(Runners)
    /\ NewMonitors \subseteq Monitors /\ Connected \subseteq Runners
    /\ Interval \in Nat /\ Backoff \in Nat \ {0}
    /\ Backoff + MaxLag < Interval          \* Create raises it to 30 at least
    /\ DomainCap \in Nat \ {0}
    /\ OnlineFor \in Nat /\ MaxLag \in Nat /\ MaxFaults \in Nat
    /\ None \notin Monitors /\ Absent \notin Nat

VARIABLES
    row,          \* state of the monitors row
    funded,       \* its owner has credit_balance > 0
    wait,         \* scheduler:due
    arming,       \* Create is between its INSERT and its ZADD
    cronSaw,      \* what the sync cron's FindActive read, not yet added
    age,          \* registry of each instance: seconds since the heartbeat
    cursor,       \* domainNodeIdx of each instance
    pc,           \* where its tick is
    lag,          \* seconds since the tick took its now
    due,          \* dueMembers
    found,        \* monitors
    assigned,     \* assignments not yet dispatched
    processed,    \* processedMonitorIDs
    since,        \* seconds since the last IssuedAt (history)
    early,        \* dispatches before the interval was over (history)
    faults

rows == <<row, funded, arming, cronSaw>>

tick == <<pc, lag, due, found, assigned, processed>>

schedVars == <<rows, wait, age, cursor, tick, since, early, faults>>

NoAssignment == [r \in Runners |-> None]

NoPings == [r \in Runners |-> IF r \in Connected THEN 0 ELSE OnlineFor + 1]

Domains == {Domain[m] : m \in Monitors}

Long == Interval + MaxLag    \* since is not counted further

SchedInit ==
    /\ row = [m \in Monitors |-> IF m \in NewMonitors THEN "none" ELSE "active"]
    /\ funded = [m \in Monitors |-> TRUE]
    /\ wait = [m \in Monitors |-> IF m \in NewMonitors THEN Absent ELSE 0]
    /\ arming = {} /\ cronSaw = [s \in Instances |-> {}]
    /\ age = [s \in Instances |-> NoPings]
    /\ cursor = [s \in Instances |-> [d \in Domains |-> 0]]
    /\ pc = [s \in Instances |-> "waiting"]
    /\ lag = [s \in Instances |-> 0]
    /\ due = [s \in Instances |-> {}]
    /\ found = [s \in Instances |-> {}]
    /\ assigned = [s \in Instances |-> NoAssignment]
    /\ processed = [s \in Instances |-> {}]
    /\ since = [m \in Monitors |-> Long]
    /\ early = [m \in Monitors |-> 0]
    /\ faults = 0

Fault == faults < MaxFaults /\ faults' = faults + 1

\* A write to scheduler:due, whose error nobody looks at.
StoreScores(scores) ==
    \/ wait' = scores /\ UNCHANGED faults
    \/ wait' = wait /\ Fault

\* Rows of FindActive and FindMany; neither looks at anything but the tables.
Runnable(m) == row[m] = "active" /\ funded[m]

Minus(a, b) == IF a > b THEN a - b ELSE 0

-----------------------------------------------------------------------------
(* Time, heartbeats, the monitors table.                                   *)

\* The ticker fires every second; a tick it finds busy starts right after.
Second ==
    /\ \A s \in Instances : pc[s] # "ticked" /\ (pc[s] = "waiting" \/ lag[s] < MaxLag)
    /\ \A s \in Instances, r \in Connected : age[s][r] < OnlineFor
    /\ wait' = [m \in Monitors |-> IF wait[m] = Absent THEN Absent ELSE Minus(wait[m], 1)]
    /\ age' = [s \in Instances |-> [r \in Runners |->
                  IF age[s][r] > OnlineFor THEN age[s][r] ELSE age[s][r] + 1]]
    /\ since' = [m \in Monitors |-> IF since[m] = Long THEN Long ELSE since[m] + 1]
    /\ pc' = [s \in Instances |-> IF pc[s] = "waiting" THEN "ticked" ELSE pc[s]]
    /\ lag' = [s \in Instances |-> IF pc[s] = "waiting" THEN 0 ELSE lag[s] + 1]
    /\ UNCHANGED <<rows, cursor, due, found, assigned, processed, early, faults>>

\* A ping on the stream: Heartbeat and TrackHeartbeat.
Heartbeat(s, r) ==
    /\ age[s][r] > 0
    /\ age' = [age EXCEPT ![s][r] = 0]
    /\ UNCHANGED <<rows, wait, cursor, tick, since, early, faults>>

CreateRow(m) ==
    /\ row[m] = "none"
    /\ row' = [row EXCEPT ![m] = "active"]
    /\ arming' = arming \cup {m}
    /\ UNCHANGED <<funded, cronSaw, wait, age, cursor, tick, since, early, faults>>

\* Create arms the new monitor with score 0; an error is only logged.
ArmNew(m) ==
    /\ m \in arming
    /\ arming' = arming \ {m}
    /\ StoreScores([wait EXCEPT ![m] = 0])
    /\ UNCHANGED <<row, funded, cronSaw, age, cursor, tick, since, early>>

\* Pause, Resume and Delete write the row and leave scheduler:due alone.
SetRow(m, from, to) ==
    /\ row[m] = from
    /\ row' = [row EXCEPT ![m] = to]
    /\ UNCHANGED <<funded, arming, cronSaw, wait, age, cursor, tick, since, early, faults>>

Pause(m) == SetRow(m, "active", "paused")

Resume(m) == SetRow(m, "paused", "active")

Delete(m) == row[m] \in {"active", "paused"} /\ SetRow(m, row[m], "deleted")

\* Settlements use up the owner's credit; nothing in the backend adds any.
RunOut(m) ==
    /\ funded[m]
    /\ funded' = [funded EXCEPT ![m] = FALSE]
    /\ UNCHANGED <<row, arming, cronSaw, wait, age, cursor, tick, since, early, faults>>

-----------------------------------------------------------------------------
(* SyncSchedulerState: at start and from the cron.                         *)

FindActive(s) ==
    /\ cronSaw[s] = {}
    /\ cronSaw' = [cronSaw EXCEPT ![s] = {m \in Monitors : Runnable(m)}]
    /\ UNCHANGED <<row, funded, arming, wait, age, cursor, tick, since, early, faults>>

\* A resync that overwrites the scores of armed monitors.
Resynced_Overwrite(m) == 0

\* A resync that only updates members (XX for NX).
Resynced_Existing(m) == wait[m]

\* ZADD NX leaves the score of a member alone.
Resynced(m) == IF wait[m] = Absent THEN 0 ELSE wait[m]

AddMissing(s) ==
    /\ cronSaw[s] # {}
    /\ wait' = [m \in Monitors |-> IF m \in cronSaw[s] THEN Resynced(m) ELSE wait[m]]
    /\ cronSaw' = [cronSaw EXCEPT ![s] = {}]
    /\ UNCHANGED <<row, funded, arming, age, cursor, tick, since, early, faults>>

-----------------------------------------------------------------------------
(* MatchBatch.                                                             *)

Online(s) == {r \in Runners : age[s][r] <= OnlineFor}

\* The per-domain cap tested one job too late.
CapReached_Late(n) == n > DomainCap

CapReached(n) == n >= DomainCap

\* One round of the loop.  assignments is keyed by the node.
PickNode(acc, m, nodes) ==
    LET d == Domain[m]
        idx == acc.cursor[d] % Len(nodes)
    IN  IF CapReached(acc.count[d]) THEN acc
        ELSE [assigned |-> [acc.assigned EXCEPT ![nodes[idx + 1]] = m],
              cursor |-> [acc.cursor EXCEPT ![d] = (idx + 1) % Len(nodes)],
              count |-> [acc.count EXCEPT ![d] = @ + 1]]

MatchBatch(monitors, nodes, cur) ==
    LET empty == [assigned |-> NoAssignment, cursor |-> cur, count |-> [d \in Domains |-> 0]]
    IN  IF nodes = <<>> THEN empty
        ELSE FoldLeft(LAMBDA acc, m : PickNode(acc, m, nodes), empty, monitors)

-----------------------------------------------------------------------------
(* scheduleTick.                                                           *)

DueNow == {m \in Monitors : wait[m] = 0}

FetchDue(s) ==
    /\ pc[s] = "ticked"
    /\ lag' = [lag EXCEPT ![s] = 0]
    /\ due' = [due EXCEPT ![s] = DueNow]
    /\ pc' = [pc EXCEPT ![s] = IF DueNow = {} THEN "waiting" ELSE "fetched"]
    /\ UNCHANGED <<rows, wait, age, cursor, found, assigned, processed, since, early, faults>>

FindMany(s) ==
    /\ pc[s] = "fetched"
    /\ found' = [found EXCEPT ![s] = {m \in due[s] : Runnable(m)}]
    /\ pc' = [pc EXCEPT ![s] = "pruning"]
    /\ UNCHANGED <<rows, wait, age, cursor, lag, due, assigned, processed, since, early, faults>>

\* The end of a tick: the next one is due at once if a second has passed.
AfterTick(s) == IF lag[s] > 0 THEN "ticked" ELSE "waiting"

EndTick(s) ==
    /\ pc' = [pc EXCEPT ![s] = AfterTick(s)]
    /\ lag' = [lag EXCEPT ![s] = 0]
    /\ due' = [due EXCEPT ![s] = {}]
    /\ found' = [found EXCEPT ![s] = {}]
    /\ processed' = [processed EXCEPT ![s] = {}]

\* Pruning that keeps the monitors it should remove.
Pruned_Kept(s, m) == FALSE

\* Due in Redis, and not among the runnable rows a moment ago.
Pruned(s, m) == m \in due[s] \ found[s]

Prune(s) ==
    /\ pc[s] = "pruning"
    /\ StoreScores([m \in Monitors |-> IF Pruned(s, m) THEN Absent ELSE wait[m]])
    /\ \/ found[s] # {} /\ pc' = [pc EXCEPT ![s] = "matching"]
          /\ UNCHANGED <<lag, due, found, processed>>
       \/ found[s] = {} /\ EndTick(s)
    /\ UNCHANGED <<rows, age, cursor, assigned, since, early>>

\* Rows come back in any order, and so do the nodes of a Go map.
Match(s) ==
    /\ pc[s] = "matching"
    /\ \E monitors \in SetToSeqs(found[s]), nodes \in SetToSeqs(Online(s)) :
         LET result == MatchBatch(monitors, nodes, cursor[s])
         IN  /\ assigned' = [assigned EXCEPT ![s] = result.assigned]
             /\ cursor' = [cursor EXCEPT ![s] = result.cursor]
    /\ pc' = [pc EXCEPT ![s] = "dispatching"]
    /\ UNCHANGED <<rows, wait, age, lag, due, found, processed, since, early, faults>>

\* The next due time in milliseconds.
NextDue_Millis(s) == 1000 * Interval

NextDue(s) == Minus(Interval, lag[s])

\* ZADD of the next due time, SET of the nonce, publish to job_queue.  A lost
\* ZADD is not noticed; a lost publish is logged and the job is gone.
Dispatch(s, r) ==
    LET m == assigned[s][r] IN
    /\ pc[s] = "dispatching" /\ m # None
    /\ assigned' = [assigned EXCEPT ![s][r] = None]
    /\ processed' = [processed EXCEPT ![s] = @ \cup {m}]
    /\ since' = [since EXCEPT ![m] = lag[s]]
    /\ early' = IF since[m] < Interval + lag[s] THEN [early EXCEPT ![m] = @ + 1] ELSE early
    /\ StoreScores([wait EXCEPT ![m] = NextDue(s)])
    /\ UNCHANGED <<rows, age, cursor, pc, lag, due, found>>

PublishFails(s, r) ==
    LET m == assigned[s][r] IN
    /\ pc[s] = "dispatching" /\ m # None /\ Fault
    /\ assigned' = [assigned EXCEPT ![s][r] = None]
    /\ processed' = [processed EXCEPT ![s] = @ \cup {m}]
    /\ wait' = [wait EXCEPT ![m] = NextDue(s)]
    /\ UNCHANGED <<rows, age, cursor, pc, lag, due, found, since, early>>

BackOff(s) ==
    /\ pc[s] = "dispatching" /\ assigned[s] = NoAssignment
    /\ StoreScores([m \in Monitors |->
           IF m \in found[s] \ processed[s] THEN Minus(Backoff, lag[s]) ELSE wait[m]])
    /\ EndTick(s)
    /\ UNCHANGED <<rows, age, cursor, assigned, since, early>>

\* FindMany fails: the tick is over and nothing is moved.
QueryFails(s) ==
    /\ pc[s] = "fetched" /\ Fault
    /\ EndTick(s)
    /\ UNCHANGED <<rows, wait, age, cursor, assigned, since, early>>

\* The process dies and starts again without its memory; main syncs first.
Crash(s) ==
    /\ Fault
    /\ EndTick(s)
    /\ assigned' = [assigned EXCEPT ![s] = NoAssignment]
    /\ age' = [age EXCEPT ![s] = NoPings]
    /\ cursor' = [cursor EXCEPT ![s] = [d \in Domains |-> 0]]
    /\ cronSaw' = [cronSaw EXCEPT ![s] = {m \in Monitors : Runnable(m)}]
    /\ UNCHANGED <<row, funded, arming, wait, since, early>>

Tick(s) ==
    \/ FetchDue(s) \/ FindMany(s) \/ Prune(s) \/ Match(s)
    \/ (\E r \in Runners : Dispatch(s, r))
    \/ BackOff(s)

SchedNext ==
    \/ Second
    \/ \E m \in Monitors : CreateRow(m) \/ ArmNew(m) \/ Pause(m) \/ Resume(m)
                             \/ Delete(m) \/ RunOut(m)
    \/ \E s \in Instances :
         \/ FindActive(s) \/ AddMissing(s) \/ Tick(s) \/ QueryFails(s) \/ Crash(s)
         \/ \E r \in Runners : Heartbeat(s, r) \/ PublishFails(s, r)

SchedSpec == SchedInit /\ [][SchedNext]_schedVars

\* Clock, ticks and cron go on, and connected nodes keep sending pings.
FairSchedSpec ==
    /\ SchedSpec
    /\ WF_schedVars(Second)
    /\ \A s \in Instances : WF_schedVars(Tick(s))
    /\ \A s \in Instances : WF_schedVars(FindActive(s)) /\ WF_schedVars(AddMissing(s))
    /\ \A s \in Instances, r \in Connected : WF_schedVars(Heartbeat(s, r))

-----------------------------------------------------------------------------
(* Properties.                                                             *)

(* The type invariant: a monitor is never due later than one interval from *)
(* now, a cursor stays an index of some node list, a tick ends in time.    *)
SchedTypeOK ==
    /\ row \in [Monitors -> {"none", "active", "paused", "deleted"}]
    /\ funded \in [Monitors -> BOOLEAN]
    /\ wait \in [Monitors -> 0..Interval \cup {Absent}]
    /\ arming \subseteq Monitors /\ cronSaw \in [Instances -> SUBSET Monitors]
    /\ age \in [Instances -> [Runners -> 0..(OnlineFor + 1)]]
    /\ cursor \in [Instances -> [Domains -> 0..Cardinality(Runners)]]
    /\ pc \in [Instances -> {"waiting", "ticked", "fetched", "pruning", "matching", "dispatching"}]
    /\ lag \in [Instances -> 0..MaxLag]
    /\ due \in [Instances -> SUBSET Monitors]
    /\ found \in [Instances -> SUBSET Monitors]
    /\ assigned \in [Instances -> [Runners -> Monitors \cup {None}]]
    /\ processed \in [Instances -> SUBSET Monitors]
    /\ since \in [Monitors -> 0..Long]
    /\ early \in [Monitors -> Nat] /\ faults \in 0..MaxFaults

(* With one backend, a monitor is checked before its interval is over only *)
(* when a Redis write was lost, once per lost write, and once more if the  *)
(* sync cron armed it between the INSERT and the ZADD of Create.           *)
EarlyBounded ==
    Cardinality(Instances) = 1 =>
      \A m \in Monitors : early[m] <= faults + (IF m \in NewMonitors THEN 1 ELSE 0)

\* Nodes with a job of the assignments, and the monitors that have a node.
Busy(s) == {r \in Runners : assigned[s][r] # None}

Matched(s) == {assigned[s][r] : r \in Busy(s)}

Of(d, monitors) == {m \in monitors : Domain[m] = d}

Least(S) == CHOOSE n \in S : \A k \in S : n <= k

(* What MatchBatch returns: online nodes only, one node per monitor, no    *)
(* domain over its cap, and the jobs of a domain spread over as many nodes *)
(* as the cap, the nodes and the monitors of the domain allow, wherever    *)
(* the cursor was left by earlier ticks with other nodes online.           *)
MatchSpreads ==
    [][\A s \in Instances : pc[s] = "matching" /\ pc'[s] = "dispatching" =>
          /\ Busy(s)' \subseteq Online(s)
          /\ Cardinality(Busy(s)') = Cardinality(Matched(s)')
          /\ \A d \in Domains :
               /\ Cardinality(Of(d, Matched(s)')) <= DomainCap
               /\ Cardinality(Busy(s)') >=
                    Least({DomainCap, Cardinality(Online(s)), Cardinality(Of(d, found[s]))})]_schedVars

(* A monitor that stays active and funded is checked again and again, as   *)
(* long as some node is connected.                                         *)
ActiveServed ==
    \A m \in Monitors : (<>[]Runnable(m)) => []<>(since[m] <= MaxLag)

(* A deleted monitor is gone from scheduler:due for good in the end,       *)
(* although a tick or the cron may still put it back from what they read.  *)
GhostsLeave ==
    \A m \in Monitors : <>(row[m] = "deleted") => <>[](wait[m] = Absent)
=============================================================================
