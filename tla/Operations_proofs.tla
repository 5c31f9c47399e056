---------------------------- MODULE Operations_proofs ---------------------------
(***************************************************************************)
(* Theorems about the life of the process (Backend and its PartitionCron), *)
(* the REST way in (Rest) and a check's way through the backend            *)
(* (Pipeline).                                                             *)
(***************************************************************************)
EXTENDS Backend, Pipeline, Rest, Lemmas

-----------------------------------------------------------------------------
(* Startup.                                                                *)

Bind == "bind processing_queue"

\* The step of start-up that binds the results queue, and its place.
LEMMA StartupSteps ==
    Len(Startup) = 16 /\ Startup[12] = Bind /\ Bind \in Topology
  <1> DEFINE r == <<"redis Ping", "Dial", "Channel",
                    "job_queue", "processing_queue", "solana_sync_queue", "telegram_queue",
                    "monitor_updates", "bind processing_queue", "bind telegram_queue",
                    "SyncSchedulerState", "NewServer", "workers">>
             S == {Pool[i] : i \in 1..3} \cup {r[i] : i \in 1..13}
             s == Pool \o r
  <1>1. Len(Pool) = 3 /\ DOMAIN Pool = 1..3 /\ Pool \in Seq({Pool[i] : i \in 1..3})
    BY DEF Pool
  <1>2. Len(r) = 13 /\ r[9] = Bind
    BY DEF Bind
  <1>3. r \in Seq({r[i] : i \in 1..13})
    <2>1. DOMAIN r = 1..13
      OBVIOUS
    <2>2. r = [i \in DOMAIN r |-> r[i]]
      OBVIOUS
    <2> HIDE DEF r
    <2>3. r \in [1..13 -> {r[i] : i \in 1..13}]
      BY <2>1, <2>2
    <2> DEFINE T == {r[i] : i \in 1..13}
    <2> HIDE DEF T
    <2>4. r \in [1..13 -> T] /\ 13 \in Nat
      BY <2>3 DEF T
    <2>5. r \in Seq(T)
      BY <2>4, SeqDef
    <2> QED
      BY <2>5 DEF T
  <1>4. Startup = s
    BY DEF Startup
  <1> HIDE DEF r
  <1>5. Pool \in Seq(S) /\ r \in Seq(S)
    BY <1>1, <1>3
  <1> HIDE DEF S
  <1>6. /\ s \in Seq(S) /\ Len(s) = Len(Pool) + Len(r)
        /\ \A i \in 1..(Len(Pool) + Len(r)) : s[i] = IF i <= Len(Pool) THEN Pool[i] ELSE r[i - Len(Pool)]
    BY <1>5, ConcatProperties
  <1> HIDE DEF s
  <1>7. Len(s) = 16 /\ s[12] = r[9]
    BY <1>1, <1>2, <1>6
  <1> QED
    BY <1>2, <1>4, <1>7 DEF Topology, Bind

(* The queue is bound once New has come past the call that binds it.       *)
RouteInv ==
    /\ at \in 1..16 /\ streams \subseteq Clients /\ declared \subseteq Topology
    /\ proc \in {"down", "starting", "serving", "draining"}
    /\ streams # {} => proc \in {"serving", "draining"}
    /\ proc \in {"serving", "draining"} \/ (proc = "starting" /\ at > 12) => Bind \in declared
    /\ unrouted = FALSE

\* The binding is there from that step on, until the process is down.
LEMMA RouteStep == RouteInv /\ [BackendNext]_backendVars => RouteInv'
  <1> SUFFICES ASSUME RouteInv, [BackendNext]_backendVars PROVE RouteInv'
    OBVIOUS
  <1> USE DEF RouteInv, procVars, Exit
  <1>1. CASE Launch \/ Signal \/ Drained \/ Crash
    BY <1>1 DEF Launch, Signal, Drained, Crash
  <1>2. CASE StepFails
    BY <1>2 DEF StepFails, AfterError
  <1>3. CASE StartStep
    <2>1. /\ proc = "starting" /\ declared' = declared \cup ({Startup[at]} \cap Topology)
          /\ UNCHANGED <<streams, unrouted>>
      BY <1>3 DEF StartStep
    <2>2. \/ at < Len(Startup) /\ at' = at + 1 /\ proc' = proc
          \/ at = Len(Startup) /\ proc' = "serving" /\ at' = 1
      BY <1>3 DEF StartStep
    <2>3. at = 12 => Bind \in declared'
      BY <2>1, StartupSteps
    <2>4. declared \subseteq declared' /\ declared' \subseteq Topology
      BY <2>1
    <2>5. at' \in 1..16
      BY <2>2, StartupSteps
    <2>6. CASE at < 16 /\ at' = at + 1 /\ proc' = proc
      <3>1. at' > 12 => at = 12 \/ at > 12
        BY <2>6
      <3> QED
        BY <2>1, <2>3, <2>4, <2>5, <2>6, <3>1
    <2>7. CASE at = 16 /\ proc' = "serving" /\ at' = 1
      <3>1. at > 12
        BY <2>7
      <3> QED
        BY <2>1, <2>3, <2>4, <2>5, <2>7, <3>1
    <2> QED
      BY <2>2, <2>6, <2>7, StartupSteps
  <1>4. ASSUME NEW c \in Clients, Connect(c) \/ Leave(c) \/ AgeOut(c) \/ PublishResult(c)
        PROVE  RouteInv'
    BY <1>4 DEF Connect, Accepting, Leave, AgeOut, EndStream, PublishResult, Bind
  <1>5. CASE Cron \/ CronFails \/ Day \/ UNCHANGED backendVars
    BY <1>5 DEF Cron, CronFails, Day, backendVars
  <1> QED
    BY <1>1, <1>2, <1>3, <1>4, <1>5 DEF BackendNext

\* So it holds in every state.
LEMMA RouteInvariant == BackendSpec => []RouteInv
  <1>1. BackendInit => RouteInv
    BY DEF BackendInit, RouteInv
  <1> QED
    BY <1>1, RouteStep, PTL DEF BackendSpec

(* Whatever step of New fails, however often the process starts again: a   *)
(* stream is only served once processing_queue is bound.                   *)
THEOREM ResultsAreRouted == BackendSpec => []ResultsRouted
  <1>1. RouteInv => ResultsRouted
    BY DEF RouteInv, ResultsRouted
  <1> QED
    BY <1>1, RouteInvariant, PTL

-----------------------------------------------------------------------------
(* The calendar.                                                           *)

\* Mondays, and how they move from one day to the next.
LEMMA Weeks ==
    ASSUME NEW d \in Nat
    PROVE  /\ Monday(d) \in Nat /\ Monday(d) % 7 = 0 /\ Monday(d) <= d /\ d < Monday(d) + 7
           /\ NextMonday(d) = Monday(d) + 7
           /\ d % 7 = 0 => Monday(d) = d
           /\ Monday(d + 1) \in {Monday(d), Monday(d) + 7}
           /\ d % 7 = 0 => Monday(d + 1) = d
  <1>1. Weekday(d) \in 0..6 /\ Weekday(d) = (d + 1) % 7
    BY DEF Weekday
  <1>2. Monday(d) = d - (d % 7)
    BY DEF Monday, ISOWeekday, Weekday
  <1>3. NextMonday(d) = d + (7 - (d % 7))
    BY DEF NextMonday, ISOWeekday, Weekday
  <1>4. Monday(d + 1) = (d + 1) - ((d + 1) % 7)
    BY DEF Monday, ISOWeekday, Weekday
  <1> QED
    BY <1>2, <1>3, <1>4

\* Two Mondays have different names: the ISO week determines the week.
LEMMA NamesDiffer ==
    ASSUME NEW a \in Nat, NEW b \in Nat, a % 7 = 0, b % 7 = 0, TableName(a) = TableName(b)
    PROVE  a = b
  <1> DEFINE x == a + 3
             y == b + 3
  <1>0. Monday(a) = a /\ Monday(b) = b
    BY Weeks
  <1>1. /\ TableName(a)[1] = x \div YearLen /\ TableName(a)[2] = (x % YearLen) \div 7 + 1
        /\ TableName(b)[1] = y \div YearLen /\ TableName(b)[2] = (y % YearLen) \div 7 + 1
    BY <1>0 DEF TableName, ISOWeek
  <1>2. YearLen \in Nat /\ YearLen > 0
    BY CronConstants
  <1>3. x \div YearLen = y \div YearLen /\ (x % YearLen) \div 7 + 1 = (y % YearLen) \div 7 + 1
    BY <1>1, Zenon
  <1>4. x = YearLen * (x \div YearLen) + (x % YearLen) /\ x % YearLen \in Nat
    BY <1>2
  <1>5. y = YearLen * (y \div YearLen) + (y % YearLen) /\ y % YearLen \in Nat
    BY <1>2
  <1> DEFINE p == x % YearLen
             q == y % YearLen
             k == YearLen * (x \div YearLen)
  <1>6. k \in Int /\ a + 3 = k + p /\ b + 3 = k + q /\ p \in Nat /\ q \in Nat
    BY <1>2, <1>3, <1>4, <1>5
  <1>7. p \div 7 + 1 = q \div 7 + 1
    BY <1>3
  <1> HIDE DEF p, q, k
  <1> QED
    BY <1>6, <1>7

-----------------------------------------------------------------------------
(* The cron.                                                               *)

\* The partition of week i from Monday m.
WeekAt(m, i) == [name |-> TableName(m + 7 * i), from |-> m + 7 * i]

\* Every partition carries the name of its week, so a name stands for a week.
TablesInv ==
    /\ \A t \in tables : t.from \in Nat /\ t.from % 7 = 0 /\ t = WeekAt(t.from, 0)
    /\ \A n \in indexed : \E t \in tables : t.name = n

\* Where the loop is.
LoopInv ==
    /\ today \in 0..LastDay /\ monday \in Nat /\ monday % 7 = 0 /\ monday <= today
    /\ cron \in {"off", "running", "sleeping"}
    /\ week \in 0..(WeeksAhead - 1) /\ stmt \in {"table", "index"} /\ midnights \in {0, 1}
    /\ missed \in Nat /\ late \in {None, 0, 1}
    /\ cron = "off" => late = None /\ missed = 0
    /\ cron = "running" => midnights <= today /\ monday = Monday(today - midnights)
    /\ cron = "sleeping" => /\ runAt \in Nat /\ runAt % 7 = 0
                            /\ today <= runAt /\ runAt <= today + 7 /\ monday < runAt

\* What a run has done so far, and what a complete one leaves.
ProgressInv ==
    /\ cron = "running" =>
         \A i \in 0..(WeeksAhead - 1) :
           /\ i < week \/ (i = week /\ stmt = "index") => WeekAt(monday, i) \in tables
           /\ i < week => TableName(monday + 7 * i) \in indexed
    /\ cron = "sleeping" /\ late # None /\ missed = 0 =>
         \A i \in 0..(WeeksAhead - 1) :
           WeekAt(monday, i) \in tables /\ TableName(monday + 7 * i) \in indexed

(* The last complete run started at Monday b, and every run since is a     *)
(* week later than the one before.                                         *)
CoveredFrom(b) ==
    /\ b % 7 = 0 /\ b <= today
    /\ \A i \in 0..(WeeksAhead - 1) : WeekAt(b, i) \in tables
    /\ cron = "sleeping" => runAt = b + 7 * (late + missed + 1)
    /\ cron = "running" => today = b + 7 * (late + missed + 1) + midnights

CoverInv == cron # "off" /\ late # None => \E b \in Nat : CoveredFrom(b)

CronInv == TablesInv /\ LoopInv /\ ProgressInv /\ CoverInv

\* What the process makes of the cron.
LEMMA CronActions ==
    ASSUME [BackendNext]_backendVars
    PROVE  \/ UNCHANGED cronVars /\ ((proc' \in {"down", "starting"}) <=> (proc \in {"down", "starting"}))
           \/ StartCron /\ proc = "starting" /\ proc' = "serving"
           \/ StopCron /\ proc \in {"serving", "draining"} /\ proc' = "down"
           \/ (CronStep \/ RunFails \/ NextDay) /\ proc' = proc
  <1> USE DEF procVars, Exit
  <1>1. CASE Launch \/ Signal \/ Drained \/ Crash \/ StepFails
    BY <1>1 DEF Launch, Signal, Drained, Crash, StepFails, AfterError
  <1>2. CASE StartStep
    BY <1>2 DEF StartStep
  <1>3. ASSUME NEW c \in Clients, Connect(c) \/ Leave(c) \/ AgeOut(c) \/ PublishResult(c)
        PROVE  UNCHANGED cronVars /\ proc' = proc
    BY <1>3 DEF Connect, Leave, AgeOut, EndStream, PublishResult
  <1>4. CASE Cron \/ CronFails \/ Day \/ UNCHANGED backendVars
    BY <1>4 DEF Cron, CronFails, Day, backendVars
  <1> QED
    BY <1>1, <1>2, <1>3, <1>4 DEF BackendNext

\* CREATE TABLE IF NOT EXISTS leaves the partition of the week, whoever made it.
LEMMA TableCreated ==
    ASSUME TablesInv, LoopInv, CreateTable
    PROVE  /\ TablesInv' /\ tables \subseteq tables' /\ WeekAt(monday, week) \in tables'
  <1>1. /\ From \in Nat /\ From % 7 = 0
        /\ WeekAt(monday, week) = [name |-> TableName(From), from |-> From]
    BY CronConstants DEF LoopInv, From, WeekAt
  <1>2. UNCHANGED indexed
    BY DEF CreateTable
  <1>3. CASE \E t \in tables : t.name = TableName(From)
    <2>1. tables' = tables
      BY <1>3 DEF CreateTable
    <2>2. PICK t \in tables : t.name = TableName(From)
      BY <1>3
    <2>3. t.from \in Nat /\ t.from % 7 = 0 /\ t = WeekAt(t.from, 0)
      BY DEF TablesInv
    <2>4. t.from + 7 * 0 = t.from
      BY <2>3
    <2>5. t = [name |-> TableName(t.from), from |-> t.from]
      BY <2>3, <2>4 DEF WeekAt
    <2>6. TableName(t.from) = TableName(From)
      BY <2>2, <2>5
    <2>7. t.from = From
      BY <1>1, <2>3, <2>6, NamesDiffer
    <2> QED
      BY <1>1, <1>2, <2>1, <2>5, <2>7 DEF TablesInv
  <1>4. CASE ~ \E t \in tables : t.name = TableName(From)
    <2> DEFINE new == [name |-> TableName(From), from |-> From]
    <2>1. tables' = tables \cup {new}
      BY <1>4 DEF CreateTable
    <2>2. From + 7 * 0 = From
      BY <1>1
    <2>3. new.from \in Nat /\ new.from % 7 = 0 /\ new = WeekAt(new.from, 0)
      BY <1>1, <2>2 DEF WeekAt
    <2> HIDE DEF new
    <2>4. WeekAt(monday, week) = new
      BY <1>1 DEF new
    <2> QED
      BY <1>2, <2>1, <2>3, <2>4 DEF TablesInv
  <1> QED
    BY <1>3, <1>4

\* The tables stay whole weeks.
LEMMA TablesStep ==
    ASSUME TablesInv, LoopInv, ProgressInv,
           StartCron \/ StopCron \/ CronStep \/ RunFails \/ NextDay
    PROVE  TablesInv'
  <1>1. CASE CreateTable
    BY <1>1, TableCreated
  <1>2. CASE CreateIndex
    <2>1. /\ cron = "running" /\ stmt = "index" /\ indexed' = indexed \cup {TableName(From)}
          /\ tables' = tables
      BY <1>2 DEF CreateIndex
    <2>2. WeekAt(monday, week) \in tables /\ WeekAt(monday, week).name = TableName(From)
      BY <2>1 DEF ProgressInv, LoopInv, WeekAt, From
    <2> QED
      BY <2>1, <2>2 DEF TablesInv
  <1>3. CASE StartCron \/ StopCron \/ Wake \/ RunFails \/ NextDay
    <2>1. UNCHANGED <<tables, indexed>>
      BY <1>3 DEF StartCron, StopCron, Wake, RunFails, NextDay
    <2> QED
      BY <2>1 DEF TablesInv
  <1> QED
    BY <1>1, <1>2, <1>3 DEF CronStep

\* The days of a run that is about to end.
LEMMA RunDays ==
    ASSUME LoopInv, cron = "running"
    PROVE  /\ Monday(today) \in {monday, monday + 7}
           /\ (Monday(today) - monday) \div 7 \in {0, 1}
           /\ Monday(today) = monday + 7 * ((Monday(today) - monday) \div 7)
           /\ NextMonday(today) = Monday(today) + 7
           /\ Monday(today) \in Nat /\ Monday(today) % 7 = 0
           /\ Monday(today) <= today /\ today < Monday(today) + 7
  <1>1. today \in Nat /\ midnights \in {0, 1} /\ monday \in Nat /\ midnights <= today
    BY CronConstants DEF LoopInv
  <1>2. today - midnights \in Nat /\ monday = Monday(today - midnights)
    BY <1>1 DEF LoopInv
  <1>3. Monday(today) \in {monday, monday + 7}
    <2>1. CASE midnights = 0
      <3>1. today - midnights = today
        BY <1>1, <2>1
      <3> QED
        BY <1>2, <3>1
    <2>2. CASE midnights = 1
      <3>1. today - 1 \in Nat /\ (today - 1) + 1 = today /\ monday = Monday(today - 1)
        BY <1>1, <1>2, <2>2
      <3>2. Monday((today - 1) + 1) \in {Monday(today - 1), Monday(today - 1) + 7}
        BY <3>1, Weeks
      <3> QED
        BY <3>1, <3>2
    <2> QED
      BY <1>1, <2>1, <2>2
  <1>4. /\ NextMonday(today) = Monday(today) + 7 /\ Monday(today) \in Nat /\ Monday(today) % 7 = 0
        /\ Monday(today) <= today /\ today < Monday(today) + 7
    BY <1>1, Weeks
  <1>5. (Monday(today) - monday) \div 7 \in {0, 1}
        /\ Monday(today) = monday + 7 * ((Monday(today) - monday) \div 7)
    <2>1. CASE Monday(today) = monday
      <3>1. (Monday(today) - monday) \div 7 = 0
        BY <1>1, <2>1
      <3> QED
        BY <1>1, <2>1, <3>1
    <2>2. CASE Monday(today) = monday + 7
      <3>1. (Monday(today) - monday) \div 7 = 1
        BY <1>1, <2>2
      <3> QED
        BY <1>1, <2>2, <3>1
    <2> QED
      BY <1>3, <2>1, <2>2
  <1> QED
    BY <1>3, <1>4, <1>5

\* The variables of a run stay what its loops make of them.
LEMMA LoopStep ==
    ASSUME LoopInv, StartCron \/ StopCron \/ CronStep \/ RunFails \/ NextDay
    PROVE  LoopInv'
  <1>0. /\ today \in Nat /\ LastDay \in Nat /\ WeeksAhead \in Nat /\ WeeksAhead > 0
        /\ 0 \in 0..(WeeksAhead - 1)
    BY CronConstants DEF LoopInv
  <1>1. CASE StartCron \/ Wake
    <2>1. /\ cron' = "running" /\ monday' = Monday(today) /\ week' = 0 /\ stmt' = "table"
          /\ midnights' = 0 /\ UNCHANGED <<today, missed, late>>
      BY <1>1 DEF StartCron, Wake, StartRun
    <2>2. Monday(today) \in Nat /\ Monday(today) % 7 = 0 /\ Monday(today) <= today
      BY <1>0, Weeks
    <2>3. today - 0 = today
      BY <1>0
    <2> QED
      BY <1>0, <2>1, <2>2, <2>3 DEF LoopInv
  <1>2. CASE StopCron
    BY <1>0, <1>2 DEF StopCron, LoopInv, None
  <1>3. CASE CreateTable
    BY <1>3 DEF CreateTable, LoopInv
  <1>4. ASSUME cron = "running", Sleep, missed' \in Nat, late' \in {None, 0, 1},
               UNCHANGED <<today, monday>>
        PROVE  LoopInv'
    <2>1. /\ cron' = "sleeping" /\ runAt' = NextMonday(today)
          /\ week' = 0 /\ stmt' = "table" /\ midnights' = 0
      BY <1>4 DEF Sleep
    <2>2. /\ NextMonday(today) \in Nat /\ NextMonday(today) % 7 = 0 /\ today < NextMonday(today)
          /\ NextMonday(today) <= today + 7 /\ monday < NextMonday(today)
      <3>1. /\ NextMonday(today) = Monday(today) + 7 /\ Monday(today) \in Nat /\ Monday(today) % 7 = 0
            /\ Monday(today) <= today /\ today < Monday(today) + 7
            /\ monday \in Nat /\ monday <= today
        BY <1>4, RunDays DEF LoopInv
      <3> QED
        BY <1>0, <3>1
    <2>3. today <= NextMonday(today)
      BY <1>0, <2>2
    <2> QED
      BY <1>0, <1>4, <2>1, <2>2, <2>3 DEF LoopInv
  <1>5. CASE CreateIndex /\ Done
    <2>1. cron = "running" /\ Sleep /\ missed' = 0 /\ UNCHANGED <<today, monday>>
          /\ late' = (Monday(today) - monday) \div 7
      BY <1>5 DEF CreateIndex
    <2>2. late' \in {None, 0, 1}
      BY <2>1, RunDays
    <2> QED
      BY <1>4, <2>1, <2>2
  <1>6. CASE CreateIndex /\ ~ Done
    <2>1. week' = week + 1 /\ stmt' = "table"
          /\ UNCHANGED <<today, monday, cron, midnights, runAt, missed, late>>
      BY <1>6 DEF CreateIndex
    <2>2. week + 1 \in 0..(WeeksAhead - 1)
      BY <1>0, <1>6 DEF Done, LoopInv
    <2> QED
      BY <2>1, <2>2 DEF LoopInv
  <1>7. CASE RunFails
    <2>1. cron = "running" /\ Sleep /\ missed' = missed + 1 /\ late' = late /\ UNCHANGED <<today, monday>>
      BY <1>7 DEF RunFails
    <2>2. missed' \in Nat /\ late' \in {None, 0, 1}
      BY <2>1 DEF LoopInv
    <2> QED
      BY <1>4, <2>1, <2>2
  <1>8. CASE NextDay
    <2>1. /\ today < LastDay /\ today' = today + 1
          /\ (cron = "sleeping" => today # runAt) /\ (cron = "running" => midnights = 0)
          /\ midnights' = IF cron = "running" THEN 1 ELSE midnights
          /\ UNCHANGED <<cron, monday, week, stmt, runAt, missed, late>>
      BY <1>8 DEF NextDay
    <2>2. today' \in 0..LastDay /\ monday <= today'
      BY <1>0, <2>1 DEF LoopInv
    <2>3. cron = "running" => midnights' <= today' /\ monday = Monday(today' - midnights')
      <3>1. cron = "running" => today' - midnights' = today /\ today - midnights = today
        BY <1>0, <2>1
      <3>2. cron = "running" => monday = Monday(today)
        BY <3>1 DEF LoopInv
      <3> QED
        BY <1>0, <2>1, <3>1, <3>2
    <2>4. cron = "sleeping" => today' <= runAt /\ runAt <= today' + 7 /\ monday < runAt
      BY <1>0, <2>1 DEF LoopInv
    <2> QED
      BY <2>1, <2>2, <2>3, <2>4 DEF LoopInv
  <1> QED
    BY <1>1, <1>2, <1>3, <1>5, <1>6, <1>7, <1>8 DEF CronStep

\* A run knows which weeks it has already made.
LEMMA ProgressStep ==
    ASSUME TablesInv, LoopInv, ProgressInv,
           StartCron \/ StopCron \/ CronStep \/ RunFails \/ NextDay
    PROVE  ProgressInv'
  <1>0. WeeksAhead \in Nat /\ WeeksAhead > 0 /\ week \in Int
    BY CronConstants DEF LoopInv
  <1>1. CASE StartCron \/ Wake
    <2>1. cron' = "running" /\ week' = 0 /\ stmt' = "table"
      BY <1>1 DEF StartCron, Wake, StartRun
    <2> QED
      BY <1>0, <2>1 DEF ProgressInv
  <1>2. CASE StopCron
    BY <1>2 DEF StopCron, ProgressInv
  <1>3. CASE CreateTable
    <2>1. cron = "running" /\ stmt' = "index" /\ UNCHANGED <<cron, monday, week, indexed>>
      BY <1>3 DEF CreateTable
    <2>2. tables \subseteq tables' /\ WeekAt(monday, week) \in tables'
      BY <1>3, TableCreated
    <2> QED
      BY <2>1, <2>2 DEF ProgressInv, WeekAt
  <1>4. CASE CreateIndex
    <2>1. /\ cron = "running" /\ stmt = "index" /\ indexed' = indexed \cup {TableName(monday + 7 * week)}
          /\ UNCHANGED <<tables, monday>>
      BY <1>4 DEF CreateIndex, From
    <2>2. \A i \in 0..(WeeksAhead - 1) :
            i < week + 1 => WeekAt(monday, i) \in tables /\ TableName(monday + 7 * i) \in indexed'
      <3> SUFFICES ASSUME NEW i \in 0..(WeeksAhead - 1), i < week + 1
                   PROVE  WeekAt(monday, i) \in tables /\ TableName(monday + 7 * i) \in indexed'
        OBVIOUS
      <3>1. i < week \/ i = week
        BY <1>0
      <3> QED
        BY <2>1, <3>1 DEF ProgressInv
    <2>3. CASE ~ Done
      <3>1. week' = week + 1 /\ stmt' = "table" /\ cron' = cron
        BY <1>4, <2>3 DEF CreateIndex
      <3> QED
        BY <2>1, <2>2, <3>1 DEF ProgressInv, WeekAt
    <2>4. CASE Done
      <3>1. cron' = "sleeping"
        BY <1>4, <2>4 DEF CreateIndex, Sleep
      <3>2. \A i \in 0..(WeeksAhead - 1) : i < week + 1
        BY <1>0, <2>4 DEF Done
      <3> QED
        BY <2>1, <2>2, <3>1, <3>2 DEF ProgressInv, WeekAt
    <2> QED
      BY <2>3, <2>4
  <1>5. CASE RunFails
    <2>1. cron' = "sleeping" /\ missed' = missed + 1 /\ missed \in Nat
      BY <1>5 DEF RunFails, Sleep, LoopInv
    <2>2. missed' # 0
      BY <2>1
    <2> QED
      BY <2>1, <2>2 DEF ProgressInv
  <1>6. CASE NextDay
    BY <1>6 DEF NextDay, ProgressInv, WeekAt
  <1> QED
    BY <1>1, <1>2, <1>3, <1>4, <1>5, <1>6 DEF CronStep

\* Runs follow each other week by week, from the last complete one on.
LEMMA CoverStep ==
    ASSUME TablesInv, LoopInv, ProgressInv, CoverInv,
           (StartCron /\ cron = "off") \/ StopCron \/ CronStep \/ RunFails \/ NextDay
    PROVE  CoverInv'
  <1>0. /\ today \in Nat /\ WeeksAhead \in Nat /\ WeeksAhead > 0 /\ missed \in Nat /\ midnights \in {0, 1}
        /\ late # None => late \in Nat
    BY CronConstants DEF LoopInv
  <1> DEFINE n == late + missed + 1
  <1>1. CASE StartCron /\ cron = "off"
    <2>1. late' = None
      BY <1>1 DEF StartCron, LoopInv
    <2> QED
      BY <2>1 DEF CoverInv, None
  <1>2. CASE StopCron
    BY <1>2 DEF StopCron, CoverInv
  <1>3. CASE Wake
    <2> SUFFICES ASSUME late # None PROVE \E b \in Nat : CoveredFrom(b)'
      BY <1>3 DEF Wake, CoverInv
    <2>1. /\ cron = "sleeping" /\ today = runAt /\ cron' = "running" /\ midnights' = 0
          /\ UNCHANGED <<today, tables, missed, late>>
      BY <1>3 DEF Wake, StartRun
    <2>2. PICK b \in Nat : CoveredFrom(b)
      BY <2>1 DEF CoverInv
    <2>3. today = b + 7 * n /\ n \in Nat
      BY <1>0, <2>1, <2>2 DEF CoveredFrom
    <2>4. today' = (b + 7 * n) + midnights'
      <3> HIDE DEF n
      <3> QED
        BY <2>1, <2>3
    <2>5. CoveredFrom(b)'
      BY <2>1, <2>2, <2>4 DEF CoveredFrom, WeekAt
    <2> QED
      BY <2>5
  <1>4. CASE CreateTable
    <2> SUFFICES ASSUME late # None PROVE \E b \in Nat : CoveredFrom(b)'
      BY <1>4 DEF CreateTable, CoverInv
    <2>1. cron = "running" /\ UNCHANGED <<today, cron, midnights, missed, late, runAt>>
      BY <1>4 DEF CreateTable
    <2>2. tables \subseteq tables'
      BY <1>4, TableCreated
    <2>3. PICK b \in Nat : CoveredFrom(b)
      BY <2>1 DEF CoverInv
    <2>4. CoveredFrom(b)'
      BY <2>1, <2>2, <2>3 DEF CoveredFrom, WeekAt
    <2> QED
      BY <2>4
  <1>5. CASE CreateIndex /\ ~ Done
    <2> SUFFICES ASSUME late # None PROVE \E b \in Nat : CoveredFrom(b)'
      BY <1>5 DEF CreateIndex, CoverInv
    <2>1. cron = "running" /\ UNCHANGED <<today, tables, cron, midnights, missed, late, runAt>>
      BY <1>5 DEF CreateIndex
    <2>3. PICK b \in Nat : CoveredFrom(b)
      BY <2>1 DEF CoverInv
    <2>4. CoveredFrom(b)'
      BY <2>1, <2>3 DEF CoveredFrom, WeekAt
    <2> QED
      BY <2>4
  <1>6. CASE CreateIndex /\ Done
    <2>1. /\ cron = "running" /\ cron' = "sleeping" /\ missed' = 0 /\ runAt' = NextMonday(today)
          /\ late' = (Monday(today) - monday) \div 7 /\ UNCHANGED <<today, tables, monday>>
          /\ stmt = "index"
      BY <1>6 DEF CreateIndex, Sleep
    <2>2. \A i \in 0..(WeeksAhead - 1) : WeekAt(monday, i) \in tables
      <3> SUFFICES ASSUME NEW i \in 0..(WeeksAhead - 1) PROVE WeekAt(monday, i) \in tables
        OBVIOUS
      <3>1. i < week \/ i = week
        BY <1>0, <1>6 DEF Done, LoopInv
      <3> QED
        BY <2>1, <3>1 DEF ProgressInv
    <2>3. /\ late' \in {0, 1} /\ Monday(today) = monday + 7 * late'
          /\ NextMonday(today) = Monday(today) + 7 /\ monday \in Nat /\ monday % 7 = 0 /\ monday <= today
      BY <2>1, RunDays DEF LoopInv
    <2>4. runAt' = monday + 7 * (late' + missed' + 1)
      <3>1. late' \in Nat /\ runAt' = (monday + 7 * late') + 7 /\ missed' = 0 /\ monday \in Nat
        BY <2>1, <2>3
      <3> QED
        BY <3>1
    <2>5. CoveredFrom(monday)'
      BY <2>1, <2>2, <2>3, <2>4 DEF CoveredFrom, WeekAt
    <2>6. monday' \in Nat /\ monday' = monday
      BY <2>1, <2>3
    <2> QED
      BY <2>5, <2>6 DEF CoverInv
  <1>7. CASE RunFails
    <2> SUFFICES ASSUME late # None PROVE \E b \in Nat : CoveredFrom(b)'
      BY <1>7 DEF RunFails, CoverInv
    <2>1. /\ cron = "running" /\ cron' = "sleeping" /\ missed' = missed + 1 /\ runAt' = NextMonday(today)
          /\ UNCHANGED <<today, tables, late>>
      BY <1>7 DEF RunFails, Sleep
    <2>2. PICK b \in Nat : CoveredFrom(b)
      BY <2>1 DEF CoverInv
    <2>3. n \in Nat /\ today = b + 7 * n + midnights /\ b % 7 = 0
      BY <1>0, <2>1, <2>2 DEF CoveredFrom
    <2>4. NextMonday(today) = b + 7 * (n + 1)
      <3> DEFINE d == b + 7 * n
      <3> HIDE DEF n
      <3>1. d \in Nat /\ d % 7 = 0 /\ today = d + midnights
        BY <2>3
      <3> HIDE DEF d
      <3>2. Monday(d) = d /\ Monday(d + 1) = d
        BY <3>1, Weeks
      <3>3. NextMonday(today) = Monday(today) + 7
        BY <1>0, Weeks
      <3>4. today = d \/ today = d + 1
        BY <1>0, <3>1
      <3>5. NextMonday(today) = d + 7
        BY <3>2, <3>3, <3>4
      <3> QED
        BY <2>3, <3>5 DEF d
    <2>5. runAt' = b + 7 * (late' + missed' + 1)
      BY <1>0, <2>1, <2>4
    <2>6. CoveredFrom(b)'
      BY <2>1, <2>2, <2>5 DEF CoveredFrom, WeekAt
    <2> QED
      BY <2>6
  <1>8. CASE NextDay
    <2> SUFFICES ASSUME cron # "off", late # None PROVE \E b \in Nat : CoveredFrom(b)'
      BY <1>8 DEF NextDay, CoverInv
    <2>1. /\ today' = today + 1 /\ (cron = "running" => midnights = 0 /\ midnights' = 1)
          /\ UNCHANGED <<tables, cron, missed, late, runAt>>
      BY <1>8 DEF NextDay
    <2>2. PICK b \in Nat : CoveredFrom(b)
      BY DEF CoverInv
    <2>3. n \in Nat
      BY <1>0
    <2>4. b <= today'
      BY <1>0, <2>1, <2>2 DEF CoveredFrom
    <2>5. cron = "running" => today' = b + 7 * n + midnights'
      <3>1. cron = "running" => today = b + 7 * n + midnights
        BY <2>2 DEF CoveredFrom
      <3> HIDE DEF n
      <3> QED
        BY <1>0, <2>1, <2>3, <3>1
    <2>6. CoveredFrom(b)'
      BY <2>1, <2>2, <2>4, <2>5 DEF CoveredFrom, WeekAt
    <2> QED
      BY <2>6
  <1> QED
    BY <1>1, <1>2, <1>3, <1>4, <1>5, <1>6, <1>7, <1>8 DEF CronStep

\* The cron runs while the process serves or drains.
AliveInv == (cron = "off") = (proc \in {"down", "starting"})

\* All of it together, over the steps of the whole process.
LEMMA CronInvStep ==
    ASSUME RouteInv, CronInv, AliveInv, [BackendNext]_backendVars
    PROVE  CronInv' /\ AliveInv'
  <1>1. CASE UNCHANGED cronVars /\ ((proc' \in {"down", "starting"}) <=> (proc \in {"down", "starting"}))
    <2>1. CronInv'
      BY <1>1 DEF cronVars, CronInv, TablesInv, LoopInv, ProgressInv, CoverInv, CoveredFrom, WeekAt
    <2> QED
      BY <1>1, <2>1 DEF cronVars, AliveInv
  <1>2. ASSUME (StartCron /\ cron = "off") \/ StopCron \/ CronStep \/ RunFails \/ NextDay
        PROVE  CronInv'
    BY <1>2, TablesStep, LoopStep, ProgressStep, CoverStep DEF CronInv
  <1>3. CASE StartCron /\ proc = "starting" /\ proc' = "serving"
    <2>1. cron = "off" /\ cron' = "running"
      BY <1>3 DEF AliveInv, StartCron, StartRun
    <2> QED
      BY <1>2, <1>3, <2>1 DEF AliveInv
  <1>4. CASE StopCron /\ proc \in {"serving", "draining"} /\ proc' = "down"
    <2>1. cron' = "off"
      BY <1>4 DEF StopCron
    <2> QED
      BY <1>2, <1>4, <2>1 DEF AliveInv
  <1>5. CASE (CronStep \/ RunFails \/ NextDay) /\ proc' = proc
    <2>1. cron = "off" <=> cron' = "off"
      BY <1>5 DEF CronStep, CreateTable, CreateIndex, Wake, StartRun, Sleep, RunFails, NextDay
    <2> QED
      BY <1>2, <1>5, <2>1 DEF AliveInv
  <1> QED
    BY <1>1, <1>3, <1>4, <1>5, CronActions

\* So the invariants of the cron hold in every state.
LEMMA CronInvariant == BackendSpec => [](CronInv /\ AliveInv)
  <1>1. BackendInit => CronInv /\ AliveInv
    <2> SUFFICES ASSUME BackendInit PROVE CronInv /\ AliveInv
      OBVIOUS
    <2>0. /\ tables = {[name |-> TableName(0), from |-> 0]} /\ indexed = {TableName(0)}
          /\ cron = "off" /\ monday = 0 /\ week = 0 /\ stmt = "table" /\ midnights = 0
          /\ missed = 0 /\ late = None /\ today \in 0..6
      BY DEF BackendInit, CronInit
    <2>1. TablesInv
      <3>1. 0 + 7 * 0 = 0 /\ 0 % 7 = 0
        OBVIOUS
      <3> QED
        BY <2>0, <3>1 DEF TablesInv, WeekAt
    <2>2. LoopInv
      BY <2>0, CronConstants DEF LoopInv
    <2>3. ProgressInv /\ CoverInv
      BY <2>0 DEF ProgressInv, CoverInv
    <2>4. AliveInv
      BY <2>0 DEF BackendInit, AliveInv
    <2> QED
      BY <2>1, <2>2, <2>3, <2>4 DEF CronInv
  <1>2. RouteInv /\ (CronInv /\ AliveInv) /\ [BackendNext]_backendVars => (CronInv /\ AliveInv)'
    BY CronInvStep
  <1> QED
    BY <1>1, <1>2, RouteInvariant, PTL DEF BackendSpec

(* A run that completes leaves every week from its Monday on with a        *)
(* partition of that week, whatever runs before it left half done.         *)
THEOREM RunsLeaveWeeks == BackendSpec => []RunLeavesWeeks
  <1>1. CronInv => RunLeavesWeeks
    BY DEF CronInv, ProgressInv, RunLeavesWeeks, WeekAt
  <1> QED
    BY <1>1, CronInvariant, PTL

(* Today's rows have a partition until the cron has failed too often in a  *)
(* row: for every number of weeks ahead, and on every day, since each run  *)
(* starts a week after the one before (StartPartitionCron).                *)
THEOREM TodayIsCovered == BackendSpec => []CurrentWeekCovered
  <1>1. CronInv => CurrentWeekCovered
    <2> SUFFICES ASSUME CronInv, cron # "off", late # None, missed + late < WeeksAhead - 1
                 PROVE  \E t \in tables : Covers(t, today)
      BY DEF CurrentWeekCovered
    <2>1. PICK b \in Nat : CoveredFrom(b)
      BY DEF CronInv, CoverInv
    <2>2. /\ today \in Nat /\ WeeksAhead \in Nat /\ missed \in Nat /\ late \in Nat /\ midnights \in {0, 1}
          /\ cron \in {"running", "sleeping"} /\ b <= today
          /\ cron = "sleeping" => today <= runAt /\ runAt \in Nat
      BY <2>1, CronConstants DEF CronInv, LoopInv, CoveredFrom
    <2> DEFINE n == late + missed + 1
               i == (today - b) \div 7
    <2>3. n \in Nat /\ n <= WeeksAhead - 1 /\ today <= b + 7 * n + 1
      <3>1. n \in Nat /\ n <= WeeksAhead - 1
        BY <2>2
      <3>2. \/ cron = "sleeping" /\ runAt = b + 7 * n
            \/ cron = "running" /\ today = b + 7 * n + midnights
        BY <2>1, <2>2 DEF CoveredFrom
      <3> HIDE DEF n
      <3> QED
        BY <2>2, <3>1, <3>2
    <2> HIDE DEF n
    <2>4. i \in Nat /\ i <= n /\ b + 7 * i <= today /\ today < b + 7 * i + 7
      BY <2>2, <2>3
    <2> HIDE DEF i
    <2>5. i \in 0..(WeeksAhead - 1)
      BY <2>2, <2>3, <2>4
    <2>6. WeekAt(b, i) \in tables
      BY <2>1, <2>5 DEF CoveredFrom
    <2>7. Covers(WeekAt(b, i), today)
      BY <2>4 DEF Covers, WeekAt
    <2> QED
      BY <2>6, <2>7
  <1> QED
    BY <1>1, CronInvariant, PTL

\* Failed runs of the cron are outages.
OutageInv == outages \in 0..MaxOutages /\ missed \in Nat /\ missed <= outages

\* Every missed run has its outage.
LEMMA OutageStep == OutageInv /\ [BackendNext]_backendVars => OutageInv'
  <1> SUFFICES ASSUME OutageInv, [BackendNext]_backendVars PROVE OutageInv'
    OBVIOUS
  <1>0. outages \in Nat /\ missed \in Nat /\ MaxOutages \in Nat
    BY BackendConstants DEF OutageInv
  <1> USE <1>0 DEF OutageInv, cronVars
  <1>1. CASE Launch \/ Signal \/ StepFails
    BY <1>1 DEF Launch, Signal, StepFails, Outage
  <1>2. CASE Drained \/ Crash
    BY <1>2 DEF Drained, Crash, Exit, StopCron, Outage
  <1>3. CASE StartStep
    BY <1>3 DEF StartStep, StartCron
  <1>4. ASSUME NEW c \in Clients, Connect(c) \/ Leave(c) \/ AgeOut(c) \/ PublishResult(c)
        PROVE  OutageInv'
    BY <1>4 DEF Connect, Leave, AgeOut, EndStream, PublishResult
  <1>5. CASE Cron
    BY <1>5 DEF Cron, CronStep, CreateTable, CreateIndex, Wake
  <1>6. CASE CronFails
    BY <1>6 DEF CronFails, RunFails, Outage
  <1>7. CASE Day \/ UNCHANGED backendVars
    BY <1>7 DEF Day, NextDay, backendVars
  <1> QED
    BY <1>1, <1>2, <1>3, <1>4, <1>5, <1>6, <1>7 DEF BackendNext

\* The type invariant of the process and its cron.
THEOREM BackendTypes == BackendSpec => []BackendTypeOK
  <1>1. BackendInit => OutageInv
    BY BackendConstants DEF BackendInit, CronInit, OutageInv
  <1>2. BackendSpec => []OutageInv
    BY <1>1, OutageStep, PTL DEF BackendSpec
  <1>3. RouteInv /\ CronInv /\ AliveInv /\ OutageInv => BackendTypeOK
    <2> SUFFICES ASSUME RouteInv, CronInv, AliveInv, OutageInv PROVE BackendTypeOK
      OBVIOUS
    <2>1. at \in 1..Len(Startup)
      BY StartupSteps DEF RouteInv
    <2>2. missed \in 0..MaxOutages
      BY BackendConstants DEF OutageInv
    <2>3. cron = "sleeping" => runAt \in today..(today + 7) /\ runAt % 7 = 0 /\ runAt > monday
      BY CronConstants DEF CronInv, LoopInv
    <2>4. indexed \subseteq {t.name : t \in tables}
      BY DEF CronInv, TablesInv
    <2>5. \A t \in tables : t.from % 7 = 0
      BY DEF CronInv, TablesInv
    <2> QED
      BY <2>1, <2>2, <2>3, <2>4, <2>5
      DEF BackendTypeOK, RouteInv, CronInv, LoopInv, AliveInv, OutageInv
  <1> QED
    BY <1>2, <1>3, RouteInvariant, CronInvariant, PTL

-----------------------------------------------------------------------------
(* Nonces on the REST way in.                                              *)

\* What a request has validated so far: the front of its own batch.
Passed(h) == {handler[h].batch[k] : k \in 1..handler[h].w}

(* A nonce is with Redis, with one place of one request, or used up; only  *)
(* what is used up is on the exchange.                                     *)
HandlerOK(h) ==
    /\ handler[h].batch \in Seq(Ids) /\ handler[h].i \in Nat /\ handler[h].w \in Nat
    /\ DOMAIN handler[h] = {"batch", "i", "w"}
    /\ handler[h] # Idle => handler[h].w < handler[h].i
    /\ handler[h] = Idle => handler[h].w = 0
    /\ handler[h].w <= Len(handler[h].batch)
    /\ Passed(h) \subseteq Tasks \ live
    /\ \A k, l \in 1..handler[h].w : handler[h].batch[k] = handler[h].batch[l] => k = l
    /\ \A t \in Passed(h) : reported[t] = 0

RestInv ==
    /\ live \subseteq Tasks /\ DOMAIN handler = Requests /\ reported \in [Ids -> 0..1]
    /\ \A h \in Requests : HandlerOK(h)
    /\ \A g, h \in Requests : g # h => Passed(g) \cap Passed(h) = {}
    /\ \A t \in Ids : reported[t] = 1 => t \in Tasks \ live

\* A request starts on a batch.
LEMMA SubmitKeeps ==
    ASSUME RestInv, NEW h \in Requests, NEW b \in Batches, Submit(h, b)
    PROVE  RestInv'
  <1> DEFINE n == [batch |-> b, i |-> 1, w |-> 0]
  <1>1. handler' = [handler EXCEPT ![h] = n] /\ UNCHANGED <<live, reported>>
    BY DEF Submit
  <1>2. b \in Seq(Ids)
    <2>1. b \in Seq(ToSet(b)) /\ ToSet(b) \subseteq Ids
      BY RestConstants DEF Ids
    <2> QED
      BY <2>1, SeqMonotonic
  <1>3. n.w = 0 /\ n.i = 1 /\ n.batch = b /\ DOMAIN n = {"batch", "i", "w"} /\ n # Idle
    BY DEF Idle
  <1> HIDE DEF n
  <1>4. Passed(h)' = {}
    BY <1>1, <1>3 DEF RestInv, Passed
  <1>5. \A g \in Requests \ {h} : handler'[g] = handler[g] /\ Passed(g)' = Passed(g)
    BY <1>1 DEF RestInv, Passed
  <1>6. handler'[h] = n /\ DOMAIN handler' = Requests
    BY <1>1 DEF RestInv
  <1>7. HandlerOK(h)'
    BY <1>2, <1>3, <1>4, <1>6 DEF HandlerOK
  <1>8. \A g \in Requests \ {h} : HandlerOK(g)'
    BY <1>1, <1>5 DEF HandlerOK, RestInv
  <1> QED
    BY <1>1, <1>4, <1>5, <1>6, <1>7, <1>8 DEF RestInv

\* A nonce passes and takes the next place at the front of the batch.
LEMMA KeepKeeps ==
    ASSUME RestInv, NEW h \in Requests, Keep(h)
    PROVE  RestInv'
  <1> DEFINE b == handler[h].batch
             i == handler[h].i
             w == handler[h].w
             e == b[i]
             c == [b EXCEPT ![w + 1] = e]
             n == [batch |-> c, i |-> i + 1, w |-> w + 1]
  <1>1. /\ i \in 1..Len(b) /\ e \in live /\ live' = live \ {e}
        /\ handler' = [handler EXCEPT ![h] = n] /\ UNCHANGED reported
    BY DEF Keep, Consumed
  <1>2. b \in Seq(Ids) /\ i \in Nat /\ w \in Nat /\ w <= Len(b) /\ Len(b) \in Nat
    BY DEF RestInv, HandlerOK
  <1>3. handler[h] # Idle
    BY <1>1 DEF Idle
  <1>4. w < i
    BY <1>3 DEF RestInv, HandlerOK
  <1>5. w + 1 \in 1..Len(b) /\ e \in Ids
    BY <1>1, <1>2, <1>4 DEF RestInv, Ids
  <1>6. n.w = w + 1 /\ n.i = i + 1 /\ n.batch = c /\ DOMAIN n = {"batch", "i", "w"}
    OBVIOUS
  <1>7. \A k, l \in 1..w : b[k] = b[l] => k = l
    BY DEF RestInv, HandlerOK
  <1>8. \A k \in 1..w : b[k] # e /\ b[k] \in Tasks \ live /\ reported[b[k]] = 0
    BY <1>1 DEF RestInv, HandlerOK, Passed
  <1>9. Passed(h) = {b[k] : k \in 1..w}
    BY DEF Passed
  <1> HIDE DEF b, i, w, e
  <1>10. /\ c \in Seq(Ids) /\ Len(c) = Len(b) /\ c[w + 1] = e
         /\ \A k \in 1..w : c[k] = b[k]
    <2>1. c \in Seq(Ids) /\ Len(c) = Len(b) /\ \A k \in 1..Len(b) : c[k] = IF k = w + 1 THEN e ELSE b[k]
      BY <1>2, <1>5, ExceptSeq
    <2> HIDE DEF c
    <2> QED
      BY <1>2, <1>5, <2>1
  <1> HIDE DEF c, n
  <1>11. handler'[h] = n /\ DOMAIN handler' = Requests
         /\ \A g \in Requests \ {h} : handler'[g] = handler[g]
    BY <1>1 DEF RestInv
  <1>12. Passed(h)' = Passed(h) \cup {e}
    <2>1. Passed(h)' = {c[k] : k \in 1..(w + 1)}
      BY <1>6, <1>11 DEF Passed
    <2> QED
      BY <1>2, <1>9, <1>10, <2>1
  <1>13. \A g \in Requests \ {h} : Passed(g)' = Passed(g)
    BY <1>11 DEF Passed
  <1>14. reported[e] = 0 /\ e \in Tasks
    BY <1>1, <1>5 DEF RestInv
  <1>15. HandlerOK(h)'
    <2>1. n # Idle /\ n.w < n.i /\ n.w <= Len(n.batch)
      <3>1. n.w # 0
        BY <1>2, <1>6
      <3> QED
        BY <1>2, <1>4, <1>5, <1>6, <1>10, <3>1 DEF Idle
    <2>2. n.i \in Nat /\ n.w \in Nat /\ n.batch \in Seq(Ids)
      BY <1>2, <1>6, <1>10
    <2>3. Passed(h)' \subseteq Tasks \ live'
      BY <1>1, <1>8, <1>9, <1>12, <1>14
    <2>4. \A k, l \in 1..n.w : n.batch[k] = n.batch[l] => k = l
      <3> SUFFICES ASSUME NEW k \in 1..(w + 1), NEW l \in 1..(w + 1), c[k] = c[l] PROVE k = l
        BY <1>6
      <3>1. (k \in 1..w \/ k = w + 1) /\ (l \in 1..w \/ l = w + 1)
        BY <1>2
      <3> QED
        BY <1>7, <1>8, <1>10, <3>1
    <2>5. \A t \in Passed(h)' : reported'[t] = 0
      BY <1>1, <1>8, <1>9, <1>12, <1>14
    <2> QED
      BY <1>6, <1>11, <2>1, <2>2, <2>3, <2>4, <2>5 DEF HandlerOK
  <1>16. \A g \in Requests \ {h} : HandlerOK(g)'
    BY <1>1, <1>11, <1>13 DEF HandlerOK, RestInv
  <1>17. \A g \in Requests \ {h} : e \notin Passed(g)
    BY <1>1 DEF RestInv, HandlerOK
  <1>18. \A f, g \in Requests : f # g => Passed(f)' \cap Passed(g)' = {}
    BY <1>12, <1>13, <1>17 DEF RestInv
  <1> QED
    BY <1>1, <1>11, <1>15, <1>16, <1>18 DEF RestInv

\* A result that is passed over; its nonce may be gone all the same.
LEMMA DropKeeps ==
    ASSUME RestInv, NEW h \in Requests, Drop(h)
    PROVE  RestInv'
  <1> DEFINE b == handler[h]
             n == [b EXCEPT !.i = @ + 1]
  <1>1. /\ b.i \in 1..Len(b.batch) /\ live' \subseteq live
        /\ handler' = [handler EXCEPT ![h] = n] /\ UNCHANGED reported
    BY DEF Drop, Consumed
  <1>2. HandlerOK(h) /\ b # Idle
    BY <1>1 DEF RestInv, Idle
  <1>3. n.w = b.w /\ n.i = b.i + 1 /\ n.batch = b.batch /\ DOMAIN n = {"batch", "i", "w"}
    BY <1>2 DEF HandlerOK
  <1>4. b.i \in Nat /\ b.w \in Nat /\ b.w < b.i
    BY <1>2 DEF HandlerOK
  <1> HIDE DEF n
  <1>5. /\ handler'[h] = n /\ DOMAIN handler' = Requests
        /\ \A g \in Requests \ {h} : handler'[g] = handler[g]
    BY <1>1 DEF RestInv
  <1>6. \A g \in Requests : Passed(g)' = Passed(g)
    BY <1>3, <1>5 DEF Passed
  <1>7. n # Idle /\ n.i \in Nat /\ n.w < n.i
    BY <1>3, <1>4 DEF Idle
  <1>8. HandlerOK(h)'
    BY <1>1, <1>2, <1>3, <1>5, <1>6, <1>7 DEF HandlerOK
  <1>9. \A g \in Requests \ {h} : HandlerOK(g)'
    BY <1>1, <1>5, <1>6 DEF HandlerOK, RestInv
  <1> QED
    BY <1>1, <1>5, <1>6, <1>8, <1>9 DEF RestInv

\* A handler that is done owes nothing.
LEMMA IdleOK ==
    ASSUME NEW h \in Requests, handler'[h] = Idle
    PROVE  HandlerOK(h)' /\ Passed(h)' = {}
  <1>1. Idle.batch = <<>> /\ Idle.i = 0 /\ Idle.w = 0 /\ DOMAIN Idle = {"batch", "i", "w"}
    BY DEF Idle
  <1>2. Passed(h)' = {}
    BY <1>1 DEF Passed
  <1> QED
    BY <1>1, <1>2 DEF HandlerOK

\* The exchange sees every nonce that has passed once.
LEMMA RespondKeeps ==
    ASSUME RestInv, NEW h \in Requests, Respond(h)
    PROVE  RestInv'
  <1> DEFINE b == handler[h].batch
             w == handler[h].w
  <1>1. handler' = [handler EXCEPT ![h] = Idle] /\ UNCHANGED live
    BY DEF Respond
  <1>2. /\ handler'[h] = Idle /\ DOMAIN handler' = Requests
        /\ \A g \in Requests \ {h} : handler'[g] = handler[g]
    BY <1>1 DEF RestInv
  <1>3. HandlerOK(h)' /\ Passed(h)' = {}
    BY <1>2, IdleOK
  <1>4. \A g \in Requests \ {h} : Passed(g)' = Passed(g)
    BY <1>2 DEF Passed
  <1>5. /\ reported' \in [Ids -> 0..1]
        /\ \A t \in Ids : reported'[t] = 1 => t \in Tasks \ live
        /\ \A g \in Requests \ {h} : \A t \in Passed(g) : reported'[t] = 0
    <2>1. CASE UNCHANGED reported
      BY <2>1 DEF RestInv, HandlerOK
    <2>2. CASE reported' = [t \in Ids |-> reported[t]
                              + Cardinality({k \in DOMAIN Valid(h) : Valid(h)[k] = t})]
      <3>1. b \in Seq(Ids) /\ w \in Nat /\ w <= Len(b)
        BY DEF RestInv, HandlerOK
      <3>2. /\ \A k, l \in 1..w : b[k] = b[l] => k = l
            /\ Passed(h) = {b[k] : k \in 1..w} /\ Valid(h) = SubSeq(b, 1, w)
            /\ Passed(h) \subseteq Tasks \ live /\ \A t \in Passed(h) : reported[t] = 0
        BY DEF RestInv, HandlerOK, Passed, Valid
      <3> HIDE DEF b, w
      <3>3. DOMAIN Valid(h) = 1..w /\ \A k \in 1..w : Valid(h)[k] = b[k]
        BY <3>1, <3>2
      <3>4. ASSUME NEW t \in Ids
            PROVE  reported'[t] = IF t \in Passed(h) THEN 1 ELSE reported[t]
        <4> DEFINE S == {k \in DOMAIN Valid(h) : Valid(h)[k] = t}
        <4>1. reported'[t] = reported[t] + Cardinality(S)
          BY <2>2
        <4>2. CASE t \in Passed(h)
          <5>1. PICK k \in 1..w : b[k] = t
            BY <3>2, <4>2
          <5>2. S = {k}
            BY <3>2, <3>3, <5>1
          <5>3. Cardinality(S) = 1
            BY <5>2, FS_Singleton
          <5>4. reported[t] = 0
            BY <3>2, <4>2
          <5> HIDE DEF S
          <5>5. reported'[t] = 1
            BY <4>1, <5>3, <5>4
          <5> QED
            BY <4>2, <5>5
        <4>3. CASE t \notin Passed(h)
          <5>1. S = {}
            BY <3>2, <3>3, <4>3
          <5>2. Cardinality(S) = 0
            BY <5>1, FS_EmptySet
          <5>3. reported[t] \in Nat
            BY DEF RestInv
          <5> HIDE DEF S
          <5> QED
            BY <4>1, <4>3, <5>2, <5>3
        <4> QED
          BY <4>2, <4>3
      <3>5. reported' \in [Ids -> 0..1]
        <4>1. \A t \in Ids : reported'[t] \in 0..1
          BY <3>4 DEF RestInv
        <4>2. reported' = [t \in Ids |-> reported'[t]]
          BY <2>2
        <4> QED
          BY <4>1, <4>2
      <3>6. \A t \in Ids : reported'[t] = 1 => t \in Tasks \ live
        BY <3>2, <3>4 DEF RestInv
      <3>7. ASSUME NEW g \in Requests \ {h}, NEW t \in Passed(g) PROVE reported'[t] = 0
        <4>1. t \notin Passed(h) /\ reported[t] = 0 /\ t \in Ids
          BY DEF RestInv, HandlerOK, Ids
        <4> QED
          BY <3>4, <4>1
      <3> QED
        BY <3>5, <3>6, <3>7
    <2> QED
      BY <2>1, <2>2 DEF Respond
  <1>6. \A g \in Requests \ {h} : HandlerOK(g)'
    BY <1>1, <1>2, <1>4, <1>5 DEF HandlerOK, RestInv
  <1> QED
    BY <1>1, <1>2, <1>3, <1>4, <1>5, <1>6 DEF RestInv

\* A nonce is used up before its result is published, whatever the handlers do.
LEMMA RestStep == RestInv /\ [RestNext]_restVars => RestInv'
  <1> SUFFICES ASSUME RestInv, [RestNext]_restVars PROVE RestInv'
    OBVIOUS
  <1>1. ASSUME NEW h \in Requests, (\E b \in Batches : Submit(h, b)) \/ Keep(h) \/ Drop(h) \/ Respond(h)
        PROVE  RestInv'
    BY <1>1, SubmitKeeps, KeepKeeps, DropKeeps, RespondKeeps
  <1>2. ASSUME NEW t \in Tasks, GrpcTakes(t) \/ NonceEnds(t) PROVE RestInv'
    <2>1. /\ t \in live /\ live' = live \ {t} /\ UNCHANGED handler /\ t \in Ids
          /\ reported' \in {reported, [reported EXCEPT ![t] = @ + 1]}
      BY <1>2 DEF GrpcTakes, NonceEnds, Consumed, Ids
    <2>2. \A h \in Requests : Passed(h)' = Passed(h) /\ t \notin Passed(h)
      BY <2>1 DEF Passed, RestInv, HandlerOK
    <2>3. /\ reported' \in [Ids -> 0..1] /\ \A u \in Ids \ {t} : reported'[u] = reported[u]
      BY <2>1 DEF RestInv
    <2>4. \A h \in Requests : Passed(h) \subseteq Ids \ {t}
      BY <2>2 DEF RestInv, HandlerOK, Ids
    <2>5. \A h \in Requests : HandlerOK(h)'
      BY <2>1, <2>2, <2>3, <2>4 DEF RestInv, HandlerOK
    <2>6. \A u \in Ids : reported'[u] = 1 => u \in Tasks \ live'
      BY <2>1, <2>3 DEF RestInv
    <2> QED
      BY <2>1, <2>2, <2>3, <2>5, <2>6 DEF RestInv
  <1>3. CASE RestReboot
    <2>1. \A h \in Requests : handler'[h] = Idle
      BY <1>3 DEF RestReboot
    <2>2. \A h \in Requests : HandlerOK(h)' /\ Passed(h)' = {}
      BY <2>1, IdleOK
    <2> QED
      BY <1>3, <2>2 DEF RestReboot, RestInv
  <1>4. CASE UNCHANGED <<live, handler, reported>>
    <2>1. \A h \in Requests : Passed(h)' = Passed(h)
      BY <1>4 DEF Passed
    <2>2. \A h \in Requests : HandlerOK(h)'
      BY <1>4, <2>1 DEF HandlerOK, RestInv
    <2> QED
      BY <1>4, <2>1, <2>2 DEF RestInv
  <1> QED
    BY <1>1, <1>2, <1>3, <1>4 DEF RestNext, restVars, TooMany, ChannelCloses, RestSecond

(* Two requests and a stream that carry the same nonce, a batch that       *)
(* repeats it, a client that is gone between two calls: a nonce brings one *)
(* result to the exchange, and what is no nonce brings none.               *)
THEOREM NoncesReportOnce == RestSpec => []RestOnce
  <1>1. RestInit => RestInv
    <2> SUFFICES ASSUME RestInit PROVE RestInv
      OBVIOUS
    <2>1. \A h \in Requests : handler[h] = Idle
      BY DEF RestInit
    <2>2. Idle.batch = <<>> /\ Idle.i = 0 /\ Idle.w = 0 /\ DOMAIN Idle = {"batch", "i", "w"}
      BY DEF Idle
    <2>3. \A h \in Requests : Passed(h) = {}
      BY <2>1, <2>2 DEF Passed
    <2>4. ASSUME NEW h \in Requests PROVE HandlerOK(h)
      <3>1. handler[h].batch = <<>> /\ handler[h].w = 0 /\ handler[h].i = 0 /\ handler[h] = Idle
        BY <2>1, <2>2
      <3>2. Passed(h) = {}
        BY <2>3
      <3> QED
        BY <2>2, <3>1, <3>2 DEF HandlerOK
    <2> QED
      BY <2>3, <2>4 DEF RestInit, RestInv
  <1>2. RestInv => RestOnce
    BY DEF RestInv, RestOnce
  <1> QED
    BY <1>1, <1>2, RestStep, PTL DEF RestSpec

-----------------------------------------------------------------------------
(* The rate limit over a sliding window.                                   *)

\* Of the submissions in f those of the last k seconds.
Upto(f, k) == SumFunctionOnSet(f, 0..(k - 1))

Window == 0..(RateWindow - 1)

\* A sum over one more second.
LEMMA UptoRec ==
    ASSUME NEW f \in [Window -> Nat]
    PROVE  /\ Upto(f, 0) = 0 /\ SumFunction(f) = Upto(f, RateWindow)
           /\ \A k \in 0..RateWindow : Upto(f, k) \in Int
           /\ \A k \in Window : Upto(f, k + 1) = Upto(f, k) + f[k]
  <1>0. RateWindow \in Nat \ {0}
    BY AntiCheatConstants
  <1>1. IsFiniteSet(Window) /\ f \in [Window -> Int]
    <2>1. 0 \in Int /\ RateWindow - 1 \in Int
      BY <1>0
    <2> QED
      BY <2>1, FS_Interval DEF Window
  <1>2. Upto(f, 0) = 0
    <2>1. 0..(0 - 1) = {} /\ {} \in SUBSET Window
      OBVIOUS
    <2> QED
      BY <1>1, <2>1, SumRec DEF Upto
  <1>3. SumFunction(f) = Upto(f, RateWindow)
    BY <1>1, SumType DEF Upto, Window
  <1>4. ASSUME NEW k \in 0..RateWindow PROVE Upto(f, k) \in Int
    <2>1. 0..(k - 1) \in SUBSET Window
      BY <1>0 DEF Window
    <2> QED
      BY <1>1, <2>1, SumRec DEF Upto
  <1>5. ASSUME NEW k \in Window PROVE Upto(f, k + 1) = Upto(f, k) + f[k]
    <2> DEFINE T == 0..((k + 1) - 1)
               r == 0..(k - 1)
    <2>1. T \in SUBSET Window /\ k \in T /\ T \ {k} = r
      BY <1>0 DEF Window
    <2>2. r \in SUBSET Window
      BY <1>0 DEF Window
    <2> HIDE DEF T, r
    <2>3. SumFunctionOnSet(f, T) = f[k] + SumFunctionOnSet(f, r)
      BY <1>1, <2>1, SumRemove
    <2>4. SumFunctionOnSet(f, r) \in Int /\ f[k] \in Int
      BY <1>1, <2>2, SumRec
    <2>5. SumFunctionOnSet(f, T) = SumFunctionOnSet(f, r) + f[k]
      BY <2>3, <2>4
    <2> QED
      BY <2>5 DEF Upto, T, r
  <1> QED
    BY <1>2, <1>3, <1>4, <1>5

\* Two functions that grow alike stay as far apart as they were.
LEMMA GrowAlike ==
    ASSUME NEW N \in Nat, NEW c \in Int, NEW p \in [0..N -> Int], NEW q \in [0..N -> Int],
           p[0] = q[0] + c,
           \A k \in 0..(N - 1) : p[k + 1] = q[k + 1] + c \/ p[k] # q[k] + c
    PROVE  \A k \in 0..N : p[k] = q[k] + c
  <1> DEFINE Bad == {k \in 0..N : p[k] # q[k] + c}
  <1> SUFFICES ASSUME Bad # {} PROVE FALSE
    OBVIOUS
  <1>1. Bad \in SUBSET Nat
    OBVIOUS
  <1>2. PICK x \in Bad : \A y \in Bad : x <= y
    <2> HIDE DEF Bad
    <2> QED
      BY <1>1, LeastNat
  <1>3. x \in 0..N /\ x # 0
    OBVIOUS
  <1>4. x - 1 \in 0..(N - 1) /\ x - 1 \in 0..N /\ (x - 1) + 1 = x /\ ~(x <= x - 1)
    BY <1>3
  <1>5. p[x - 1] = q[x - 1] + c
    BY <1>2, <1>4
  <1> QED
    BY <1>4, <1>5

\* One more submission in this second is one more in every sum.
LEMMA UptoSubmit ==
    ASSUME NEW f \in [Window -> Nat], NEW g \in [Window -> Nat],
           g[0] = f[0] + 1, \A s \in Window \ {0} : g[s] = f[s]
    PROVE  \A k \in 1..RateWindow : Upto(g, k) = Upto(f, k) + 1
  <1>0. RateWindow - 1 \in Nat /\ RateWindow \in Nat
    BY AntiCheatConstants
  <1> DEFINE N == RateWindow - 1
             p == [k \in 0..N |-> Upto(g, k + 1)]
             q == [k \in 0..N |-> Upto(f, k + 1)]
  <1>1. \A k \in 0..N : k \in Window /\ k + 1 \in 0..RateWindow
    BY <1>0 DEF Window
  <1>2. /\ Upto(g, 0) = 0 /\ Upto(f, 0) = 0
        /\ \A k \in 0..RateWindow : Upto(f, k) \in Int /\ Upto(g, k) \in Int
        /\ \A k \in Window : Upto(f, k + 1) = Upto(f, k) + f[k]
                              /\ Upto(g, k + 1) = Upto(g, k) + g[k]
    BY UptoRec
  <1>3. p \in [0..N -> Int] /\ q \in [0..N -> Int]
    BY <1>1, <1>2
  <1>4. 0 \in Window /\ f[0] \in Nat /\ g[0] \in Nat
    BY <1>0 DEF Window
  <1>5. p[0] = q[0] + 1
    <2>1. Upto(g, 0 + 1) = 0 + g[0] /\ Upto(f, 0 + 1) = 0 + f[0]
      BY <1>2, <1>4
    <2>2. p[0] = Upto(g, 0 + 1) /\ q[0] = Upto(f, 0 + 1)
      BY <1>0
    <2> HIDE DEF p, q
    <2> QED
      BY <1>4, <2>1, <2>2
  <1>6. ASSUME NEW k \in 0..(N - 1) PROVE p[k + 1] = q[k + 1] + 1 \/ p[k] # q[k] + 1
    <2>1. k + 1 \in Window \ {0} /\ k + 1 \in 0..N /\ k \in 0..N
      BY <1>0 DEF Window
    <2>2. /\ p[k + 1] = Upto(g, (k + 1) + 1) /\ q[k + 1] = Upto(f, (k + 1) + 1)
          /\ p[k] = Upto(g, k + 1) /\ q[k] = Upto(f, k + 1)
      BY <2>1
    <2>3. /\ Upto(g, (k + 1) + 1) = Upto(g, k + 1) + g[k + 1]
          /\ Upto(f, (k + 1) + 1) = Upto(f, k + 1) + f[k + 1]
      BY <1>2, <2>1
    <2>4. g[k + 1] = f[k + 1] /\ f[k + 1] \in Nat
      BY <2>1
    <2>5. p[k] \in Int /\ q[k] \in Int
      BY <1>3, <2>1
    <2> HIDE DEF p, q
    <2> QED
      BY <2>2, <2>3, <2>4, <2>5
  <1>7. \A k \in 0..N : p[k] = q[k] + 1
    <2>1. N \in Nat /\ 1 \in Int
      BY <1>0
    <2> HIDE DEF N, p, q
    <2>2. \A k \in 0..(N - 1) : p[k + 1] = q[k + 1] + 1 \/ p[k] # q[k] + 1
      BY <1>6
    <2> QED
      BY <1>3, <1>5, <2>1, <2>2, GrowAlike
  <1> HIDE DEF p, q
  <1> SUFFICES ASSUME NEW k \in 1..RateWindow PROVE Upto(g, k) = Upto(f, k) + 1
    OBVIOUS
  <1>8. k - 1 \in 0..N /\ (k - 1) + 1 = k
    BY <1>0
  <1> QED
    BY <1>7, <1>8 DEF p, q

\* When a second passes, a sum over k + 1 seconds is what one over k was.
LEMMA UptoSecond ==
    ASSUME NEW f \in [Window -> Nat], NEW g \in [Window -> Nat],
           g[0] = 0, \A s \in Window \ {0} : g[s] = f[s - 1]
    PROVE  \A k \in Window : Upto(g, k + 1) = Upto(f, k)
  <1>0. RateWindow - 1 \in Nat /\ RateWindow \in Nat
    BY AntiCheatConstants
  <1> DEFINE N == RateWindow - 1
             p == [k \in 0..N |-> Upto(g, k + 1)]
             q == [k \in 0..N |-> Upto(f, k)]
  <1>1. \A k \in 0..N : k \in Window /\ k + 1 \in 0..RateWindow /\ k \in 0..RateWindow
    BY <1>0 DEF Window
  <1>2. /\ Upto(g, 0) = 0 /\ Upto(f, 0) = 0
        /\ \A k \in 0..RateWindow : Upto(f, k) \in Int /\ Upto(g, k) \in Int
        /\ \A k \in Window : Upto(f, k + 1) = Upto(f, k) + f[k]
                              /\ Upto(g, k + 1) = Upto(g, k) + g[k]
    BY UptoRec
  <1>3. p \in [0..N -> Int] /\ q \in [0..N -> Int]
    BY <1>1, <1>2
  <1>4. 0 \in Window
    BY <1>0 DEF Window
  <1>5. p[0] = q[0] + 0
    <2>1. Upto(g, 0 + 1) = 0 + 0 /\ Upto(f, 0) = 0
      BY <1>2, <1>4
    <2>2. p[0] = Upto(g, 0 + 1) /\ q[0] = Upto(f, 0)
      BY <1>0
    <2> HIDE DEF p, q
    <2> QED
      BY <2>1, <2>2
  <1>6. ASSUME NEW k \in 0..(N - 1) PROVE p[k + 1] = q[k + 1] + 0 \/ p[k] # q[k] + 0
    <2>1. k + 1 \in Window \ {0} /\ k + 1 \in 0..N /\ k \in 0..N /\ k \in Window /\ (k + 1) - 1 = k
      BY <1>0 DEF Window
    <2>2. /\ p[k + 1] = Upto(g, (k + 1) + 1) /\ q[k + 1] = Upto(f, k + 1)
          /\ p[k] = Upto(g, k + 1) /\ q[k] = Upto(f, k)
      BY <2>1
    <2>3. /\ Upto(g, (k + 1) + 1) = Upto(g, k + 1) + g[k + 1]
          /\ Upto(f, k + 1) = Upto(f, k) + f[k]
      BY <1>2, <2>1
    <2>4. g[k + 1] = f[k] /\ f[k] \in Nat
      BY <2>1
    <2>5. p[k] \in Int /\ q[k] \in Int
      BY <1>3, <2>1
    <2> HIDE DEF p, q
    <2> QED
      BY <2>2, <2>3, <2>4, <2>5
  <1>7. \A k \in 0..N : p[k] = q[k] + 0
    <2>1. N \in Nat /\ 0 \in Int
      BY <1>0
    <2> HIDE DEF N, p, q
    <2>2. \A k \in 0..(N - 1) : p[k + 1] = q[k + 1] + 0 \/ p[k] # q[k] + 0
      BY <1>6
    <2> QED
      BY <1>3, <1>5, <2>1, <2>2, GrowAlike
  <1> HIDE DEF p, q
  <1> SUFFICES ASSUME NEW k \in Window PROVE Upto(g, k + 1) = Upto(f, k)
    OBVIOUS
  <1>8. k \in 0..N /\ p[k] = Upto(g, k + 1) /\ q[k] = Upto(f, k)
    BY DEF Window, p, q
  <1> QED
    BY <1>3, <1>7, <1>8

(* The key counts what its window has let through, in the last e + 1       *)
(* seconds; the second it started in had one of them, or it has let none   *)
(* through.  What is older is the rest of the window before, without its   *)
(* first second.                                                           *)
LetInv ==
    /\ ownerRate \in Keys(RateMax, RateWindow) /\ let \in [Window -> Nat]
    /\ ownerRate.ttl = 0 => let[0] = 0 /\ Upto(let, RateWindow) <= RateMax - 1
    /\ ownerRate.ttl # 0 =>
         LET e == RateWindow - ownerRate.ttl IN
         /\ Upto(let, e + 1) <= ownerRate.n /\ Upto(let, e + 1) <= RateMax
         /\ Upto(let, e) <= ownerRate.n - 1 /\ Upto(let, e) <= RateMax - 1
         /\ Upto(let, RateWindow) - Upto(let, e + 1) <= RateMax - 1

\* What INCR, EXPIRE NX and the clock make of a key.
LEMMA KeySteps ==
    ASSUME NEW max \in Nat \ {0}, NEW w \in Nat \ {0}, NEW key \in Keys(max, w)
    PROVE  /\ key.n \in 0..(max + 1) /\ key.ttl \in 0..w
           /\ Incr(key, max) \in Keys(max, w) /\ Incr(key, max).ttl = key.ttl
           /\ Incr(key, max).n = (IF key.n > max THEN key.n ELSE key.n + 1)
           /\ \A t \in 0..w : /\ [Incr(key, max) EXCEPT !.ttl = t] \in Keys(max, w)
                              /\ [Incr(key, max) EXCEPT !.ttl = t].n = Incr(key, max).n
                              /\ [Incr(key, max) EXCEPT !.ttl = t].ttl = t
           /\ Lapsed(key) \in Keys(max, w) /\ NoKey \in Keys(max, w)
           /\ key.ttl = 0 => Lapsed(key) = key
           /\ key.ttl = 1 => Lapsed(key).ttl = 0
           /\ key.ttl > 1 => Lapsed(key).ttl = key.ttl - 1 /\ Lapsed(key).n = key.n
  <1>1. key.n \in 0..(max + 1) /\ key.ttl \in 0..w
    BY DEF Keys
  <1> DEFINE i == Incr(key, max)
             m == IF key.n > max THEN key.n ELSE key.n + 1
  <1>2. m \in 0..(max + 1)
    BY <1>1
  <1>3. i = [key EXCEPT !.n = m]
    BY DEF Incr
  <1> HIDE DEF m
  <1>4. i \in Keys(max, w) /\ i.ttl = key.ttl /\ i.n = m
    BY <1>1, <1>2, <1>3 DEF Keys
  <1> HIDE DEF i
  <1>5. \A t \in 0..w : /\ [i EXCEPT !.ttl = t] \in Keys(max, w)
                        /\ [i EXCEPT !.ttl = t].n = i.n
                        /\ [i EXCEPT !.ttl = t].ttl = t
    BY <1>4 DEF Keys
  <1>6. NoKey \in Keys(max, w) /\ NoKey.ttl = 0
    BY DEF NoKey, Keys
  <1>7. CASE key.ttl = 0
    BY <1>4, <1>5, <1>6, <1>7, <1>1 DEF Lapsed, i, m
  <1>8. CASE key.ttl = 1
    BY <1>4, <1>5, <1>6, <1>8, <1>1 DEF Lapsed, i, m
  <1>9. CASE key.ttl > 1
    <2> DEFINE l == [key EXCEPT !.ttl = @ - 1]
    <2>1. key.ttl - 1 \in 0..w
      BY <1>1, <1>9
    <2>2. l \in Keys(max, w) /\ l.ttl = key.ttl - 1 /\ l.n = key.n
      BY <1>1, <2>1 DEF Keys
    <2> HIDE DEF l
    <2>3. Lapsed(key) = l
      BY <1>1, <1>9 DEF Lapsed, l
    <2> QED
      BY <1>1, <1>4, <1>5, <1>6, <1>9, <2>2, <2>3 DEF i, m
  <1> QED
    BY <1>1, <1>7, <1>8, <1>9

\* RateKey counts the result, and starts a window if there is none.
LEMMA RateKeySteps ==
    ASSUME NEW key \in Keys(RateMax, RateWindow)
    PROVE  /\ RateKey(key) \in Keys(RateMax, RateWindow)
           /\ RateKey(key).n = (IF key.n > RateMax THEN key.n ELSE key.n + 1)
           /\ RateKey(key).ttl = (IF key.ttl = 0 THEN RateWindow ELSE key.ttl)
  <1> DEFINE i == Incr(key, RateMax)
  <1>1. /\ i \in Keys(RateMax, RateWindow) /\ i.ttl = key.ttl
        /\ i.n = (IF key.n > RateMax THEN key.n ELSE key.n + 1)
        /\ \A t \in 0..RateWindow : /\ [i EXCEPT !.ttl = t] \in Keys(RateMax, RateWindow)
                                    /\ [i EXCEPT !.ttl = t].n = i.n
                                    /\ [i EXCEPT !.ttl = t].ttl = t
    BY KeySteps, AntiCheatConstants
  <1>2. RateKey(key) = IF key.ttl = 0 THEN [i EXCEPT !.ttl = RateWindow] ELSE i
    BY DEF RateKey
  <1>3. RateWindow \in 0..RateWindow
    BY AntiCheatConstants
  <1> HIDE DEF i
  <1> QED
    BY <1>1, <1>2, <1>3

\* The invariant from plain facts about the next key and the next sums.
LEMMA LetIntro ==
    ASSUME NEW key \in Keys(RateMax, RateWindow), NEW f \in [Window -> Nat],
           ownerRate' = key, let' = f,
           key.ttl = 0 => f[0] = 0 /\ Upto(f, RateWindow) <= RateMax - 1,
           key.ttl # 0 =>
             \E e \in Int : /\ e = RateWindow - key.ttl
                            /\ Upto(f, e + 1) <= key.n /\ Upto(f, e + 1) <= RateMax
                            /\ Upto(f, e) <= key.n - 1 /\ Upto(f, e) <= RateMax - 1
                            /\ Upto(f, RateWindow) - Upto(f, e + 1) <= RateMax - 1
    PROVE  LetInv'
  BY DEF LetInv, Upto

\* Every step keeps the count of a window within its limit.
LEMMA LetStep == LetInv /\ [RestNext]_restVars => LetInv'
  <1> SUFFICES ASSUME LetInv, [RestNext]_restVars PROVE LetInv'
    OBVIOUS
  <1> DEFINE n == ownerRate.n
             ttl == ownerRate.ttl
             e == RateWindow - ttl
             R == RateMax
             W == RateWindow
  <1>0. R \in Nat \ {0} /\ W \in Nat \ {0}
    BY AntiCheatConstants
  <1>1. /\ ownerRate \in Keys(R, W) /\ let \in [Window -> Nat]
        /\ n \in 0..(R + 1) /\ ttl \in 0..W
    BY DEF LetInv, Keys
  <1>2. e \in 0..W /\ (ttl # 0 => e \in Window /\ e + 1 \in 1..W)
    <2> HIDE DEF n, ttl
    <2>1. W - ttl \in 0..W /\ (ttl # 0 => W - ttl \in 0..(W - 1) /\ (W - ttl) + 1 \in 1..W)
      BY <1>0, <1>1
    <2> QED
      BY <2>1 DEF Window
  <1>3. /\ ttl = 0 => let[0] = 0 /\ Upto(let, W) <= R - 1
        /\ ttl # 0 => /\ Upto(let, e + 1) <= n /\ Upto(let, e + 1) <= R
                      /\ Upto(let, e) <= n - 1 /\ Upto(let, e) <= R - 1
                      /\ Upto(let, W) - Upto(let, e + 1) <= R - 1
    BY DEF LetInv
  <1>4. /\ Upto(let, 0) = 0
        /\ \A k \in 0..W : Upto(let, k) \in Int
        /\ \A k \in Window : Upto(let, k + 1) = Upto(let, k) + let[k]
    BY <1>1, UptoRec
  <1>5. 0 \in Window /\ W - 1 \in Window /\ (W - 1) + 1 = W /\ W \in 0..W /\ 1 \in 1..W
    BY <1>0 DEF Window
  <1>6. let[0] \in Nat /\ let[W - 1] \in Nat
    BY <1>1, <1>5
  <1>7. ASSUME NEW h \in Requests, NEW b \in Batches, Submit(h, b) PROVE LetInv'
    <2> DEFINE key == RateKey(ownerRate)
               f == [let EXCEPT ![0] = @ + 1]
    <2>1. ownerRate' = key /\ let' = f /\ key.n <= R
      BY <1>7 DEF Submit, WithinRate
    <2>2. /\ key \in Keys(R, W) /\ key.n = (IF n > R THEN n ELSE n + 1)
          /\ key.ttl = (IF ttl = 0 THEN W ELSE ttl)
      BY <1>1, RateKeySteps
    <2>3. /\ f \in [Window -> Nat] /\ f[0] = let[0] + 1
          /\ \A s \in Window \ {0} : f[s] = let[s]
      BY <1>1, <1>5, <1>6
    <2> HIDE DEF key, f
    <2>4. \A k \in 1..W : Upto(f, k) = Upto(let, k) + 1
      BY <1>1, <2>3, UptoSubmit
    <2>5. Upto(f, 0) = 0 /\ Upto(f, 1) = let[0] + 1 /\ Upto(let, 1) = let[0]
      <3>1. Upto(f, 0) = 0
        BY <2>3, UptoRec
      <3>2. Upto(let, 0 + 1) = 0 + let[0]
        BY <1>4, <1>5
      <3>3. Upto(let, 1) = let[0]
        BY <1>6, <3>2
      <3> QED
        BY <1>5, <2>4, <3>1, <3>3
    <2>6. n + 1 <= R /\ key.n = n + 1
      BY <1>0, <1>1, <2>1, <2>2
    <2>7. Upto(f, W) = Upto(let, W) + 1 /\ Upto(let, W) \in Int
      BY <1>0, <1>4, <1>5, <2>4
    <2>8. CASE ttl = 0
      <3>1. key.ttl = W /\ W - key.ttl = 0 /\ key.ttl # 0
        BY <1>0, <2>2, <2>8
      <3>2. let[0] = 0 /\ Upto(let, W) <= R - 1
        BY <1>3, <2>8
      <3>3. /\ Upto(f, 0 + 1) <= key.n /\ Upto(f, 0 + 1) <= R
            /\ Upto(f, 0) <= key.n - 1 /\ Upto(f, 0) <= R - 1
            /\ Upto(f, W) - Upto(f, 0 + 1) <= R - 1
        BY <1>0, <1>1, <2>5, <2>6, <2>7, <3>2
      <3> QED
        BY <2>1, <2>2, <2>3, <3>1, <3>3, LetIntro
    <2>9. CASE ttl # 0
      <3>1. key.ttl = ttl /\ W - key.ttl = e
        BY <2>2, <2>9
      <3>2. Upto(f, e + 1) = Upto(let, e + 1) + 1 /\ Upto(let, e + 1) \in Int
        BY <1>2, <1>4, <2>4, <2>9
      <3>3. Upto(f, e) <= Upto(let, e) + 1 /\ Upto(f, e) \in Int /\ Upto(let, e) \in Int
        <4>1. Upto(let, e) \in Int
          BY <1>2, <1>4
        <4>2. CASE e = 0
          BY <1>4, <2>5, <4>2
        <4>3. CASE e # 0
          <5>1. e \in 1..W
            BY <1>2, <4>3
          <5> QED
            BY <2>4, <4>1, <5>1
        <4> QED
          BY <4>1, <4>2, <4>3
      <3>4. e \in Int
        BY <1>2
      <3>5. /\ Upto(let, e + 1) <= n /\ Upto(let, e + 1) <= R
            /\ Upto(let, e) <= n - 1 /\ Upto(let, e) <= R - 1
            /\ Upto(let, W) - Upto(let, e + 1) <= R - 1
        BY <1>3, <2>9
      <3> HIDE DEF e
      <3>6. /\ Upto(f, e + 1) <= key.n /\ Upto(f, e + 1) <= R
            /\ Upto(f, e) <= key.n - 1 /\ Upto(f, e) <= R - 1
            /\ Upto(f, W) - Upto(f, e + 1) <= R - 1
        BY <1>0, <1>1, <2>6, <2>7, <3>2, <3>3, <3>5
      <3> QED
        BY <2>1, <2>2, <2>3, <2>9, <3>1, <3>4, <3>6, LetIntro
    <2> QED
      BY <2>8, <2>9
  <1>8. CASE TooMany
    <2>1. UNCHANGED let
      BY <1>8 DEF TooMany
    <2>2. CASE ownerRate' = RateKey(ownerRate) /\ ~WithinRate(ownerRate)
      <3> DEFINE key == RateKey(ownerRate)
      <3>1. /\ key \in Keys(R, W) /\ key.n = (IF n > R THEN n ELSE n + 1)
            /\ key.ttl = (IF ttl = 0 THEN W ELSE ttl)
        BY <1>1, RateKeySteps
      <3>2. ownerRate' = key
        BY <2>2
      <3> HIDE DEF key
      <3>3. key.n >= n /\ key.n >= 1 /\ key.n \in Nat
        BY <1>0, <1>1, <3>1
      <3>4. CASE ttl = 0
        <4>1. key.ttl = W /\ W - key.ttl = 0 /\ key.ttl # 0
          BY <1>0, <3>1, <3>4
        <4>2. let[0] = 0 /\ Upto(let, W) <= R - 1 /\ Upto(let, W) \in Int
          BY <1>3, <1>4, <1>5, <3>4
        <4>3. Upto(let, 0 + 1) = 0
          BY <1>4, <1>5, <4>2
        <4>4. /\ Upto(let, 0 + 1) <= key.n /\ Upto(let, 0 + 1) <= R
              /\ Upto(let, 0) <= key.n - 1 /\ Upto(let, 0) <= R - 1
              /\ Upto(let, W) - Upto(let, 0 + 1) <= R - 1
          BY <1>0, <1>4, <3>3, <4>2, <4>3
        <4> QED
          BY <1>1, <2>1, <3>1, <3>2, <4>1, <4>4, LetIntro
      <3>5. CASE ttl # 0
        <4>1. key.ttl = ttl /\ W - key.ttl = e /\ e \in Int
          BY <1>2, <3>1, <3>5
        <4>2. Upto(let, e) \in Int /\ Upto(let, e + 1) \in Int
          BY <1>2, <1>4, <3>5
        <4>3. /\ Upto(let, e + 1) <= n /\ Upto(let, e + 1) <= R
              /\ Upto(let, e) <= n - 1 /\ Upto(let, e) <= R - 1
              /\ Upto(let, W) - Upto(let, e + 1) <= R - 1
          BY <1>3, <3>5
        <4> HIDE DEF e
        <4>4. Upto(let, e + 1) <= key.n /\ Upto(let, e) <= key.n - 1
          BY <1>1, <3>3, <4>2, <4>3
        <4> QED
          BY <1>1, <2>1, <3>1, <3>2, <3>5, <4>1, <4>3, <4>4, LetIntro
      <3> QED
        BY <3>4, <3>5
    <2>3. CASE ownerRate' = Incr(ownerRate, RateMax)
      <3> DEFINE key == Incr(ownerRate, RateMax)
      <3>1. /\ key \in Keys(R, W) /\ key.n = (IF n > R THEN n ELSE n + 1)
            /\ key.ttl = ttl
        BY <1>0, <1>1, KeySteps
      <3>2. ownerRate' = key
        BY <2>3
      <3> HIDE DEF key
      <3>3. key.n >= n /\ key.n \in Nat
        BY <1>0, <1>1, <3>1
      <3>4. CASE ttl = 0
        BY <1>1, <1>3, <2>1, <3>1, <3>2, <3>4, LetIntro
      <3>5. CASE ttl # 0
        <4>1. W - key.ttl = e /\ e \in Int
          BY <1>2, <3>1, <3>5
        <4>2. Upto(let, e) \in Int /\ Upto(let, e + 1) \in Int
          BY <1>2, <1>4, <3>5
        <4>3. /\ Upto(let, e + 1) <= n /\ Upto(let, e + 1) <= R
              /\ Upto(let, e) <= n - 1 /\ Upto(let, e) <= R - 1
              /\ Upto(let, W) - Upto(let, e + 1) <= R - 1
          BY <1>3, <3>5
        <4> HIDE DEF e
        <4>4. Upto(let, e + 1) <= key.n /\ Upto(let, e) <= key.n - 1
          BY <1>1, <3>3, <4>2, <4>3
        <4> QED
          BY <1>1, <2>1, <3>1, <3>2, <3>5, <4>1, <4>3, <4>4, LetIntro
      <3> QED
        BY <3>4, <3>5
    <2> QED
      BY <1>8, <2>2, <2>3 DEF TooMany
  <1>9. CASE RestSecond
    <2> DEFINE key == Lapsed(ownerRate)
               f == [s \in DOMAIN let |-> IF s = 0 THEN 0 ELSE let[s - 1]]
    <2>1. ownerRate' = key /\ let' = f
      BY <1>9 DEF RestSecond
    <2>2. /\ key \in Keys(R, W) /\ (ttl = 0 => key = ownerRate) /\ (ttl = 1 => key.ttl = 0)
          /\ (ttl > 1 => key.ttl = ttl - 1 /\ key.n = n)
      BY <1>0, <1>1, KeySteps
    <2>3. /\ f \in [Window -> Nat] /\ f[0] = 0
          /\ \A s \in Window \ {0} : f[s] = let[s - 1]
      <3>1. \A s \in Window \ {0} : s - 1 \in Window
        BY <1>0 DEF Window
      <3>2. DOMAIN let = Window /\ \A s \in Window : let[s] \in Nat
        BY <1>1
      <3> QED
        BY <1>5, <3>1, <3>2
    <2> HIDE DEF key, f
    <2>4. \A k \in Window : Upto(f, k + 1) = Upto(let, k)
      BY <1>1, <2>3, UptoSecond
    <2>5. Upto(f, W) = Upto(let, W - 1) /\ Upto(let, W - 1) <= Upto(let, W)
          /\ Upto(let, W - 1) \in Int /\ Upto(let, W) \in Int
      <3>1. Upto(f, (W - 1) + 1) = Upto(let, W - 1)
        BY <1>5, <2>4
      <3>2. Upto(let, (W - 1) + 1) = Upto(let, W - 1) + let[W - 1]
        BY <1>4, <1>5
      <3>3. W - 1 \in 0..W
        BY <1>0
      <3>4. Upto(let, W - 1) \in Int /\ Upto(let, W) \in Int
        BY <1>4, <1>5, <3>3
      <3> QED
        BY <1>5, <1>6, <3>1, <3>2, <3>4
    <2>6. CASE ttl = 0
      <3>1. Upto(let, W) <= R - 1
        BY <1>3, <2>6
      <3>2. Upto(f, W) <= R - 1
        BY <1>0, <2>5, <3>1
      <3> QED
        BY <2>1, <2>2, <2>3, <2>6, <3>2, LetIntro
    <2>7. CASE ttl = 1
      <3>1. e = W - 1 /\ Upto(let, e) <= R - 1
        BY <1>3, <2>7
      <3>2. Upto(f, W) <= R - 1
        BY <2>5, <3>1
      <3> QED
        BY <2>1, <2>2, <2>3, <2>7, <3>2, LetIntro
    <2>8. CASE ttl > 1
      <3>1. e \in Window /\ e + 1 \in Window /\ W - key.ttl = e + 1 /\ e + 1 \in Int /\ key.n = n
        <4> HIDE DEF n, ttl
        <4>1. W - ttl \in 0..(W - 1) /\ (W - ttl) + 1 \in 0..(W - 1) /\ W - (ttl - 1) = (W - ttl) + 1
          BY <1>0, <1>1, <2>8
        <4> QED
          BY <2>2, <2>8, <4>1 DEF Window
      <3>2. /\ Upto(let, e + 1) <= n /\ Upto(let, e + 1) <= R
            /\ Upto(let, e) <= n - 1 /\ Upto(let, e) <= R - 1
            /\ Upto(let, W) - Upto(let, e + 1) <= R - 1
        BY <1>1, <1>3, <2>8
      <3>3. Upto(f, e + 1) = Upto(let, e) /\ Upto(f, (e + 1) + 1) = Upto(let, e + 1)
        BY <2>4, <3>1
      <3>4. Upto(let, e + 1) \in Int
        BY <1>1, <1>2, <1>4, <2>8
      <3> HIDE DEF e
      <3>5. Upto(f, W) - Upto(f, (e + 1) + 1) <= R - 1
        BY <1>0, <2>5, <3>2, <3>3, <3>4
      <3>6. key.ttl # 0
        BY <1>1, <2>2, <2>8
      <3> QED
        BY <2>1, <2>2, <2>3, <3>1, <3>2, <3>3, <3>5, <3>6, LetIntro
    <2> QED
      BY <1>1, <2>6, <2>7, <2>8
  <1>10. CASE UNCHANGED <<ownerRate, let>>
    BY <1>10 DEF LetInv
  <1> QED
    BY <1>7, <1>8, <1>9, <1>10 DEF RestNext, restVars, Keep, Drop, Respond, GrpcTakes,
       NonceEnds, ChannelCloses, RestReboot

(* A burst at the end of one window and another at the start of the next,  *)
(* refused submissions that count, an INCR whose EXPIRE was lost: whatever *)
(* the order, RateWindow seconds let fewer than twice RateMax through.     *)
THEOREM SubmissionsAreBounded == RestSpec => []SubmissionsBounded
  <1>0. RateMax \in Nat \ {0} /\ RateWindow \in Nat \ {0}
    BY AntiCheatConstants
  <1>1. RestInit => LetInv
    <2> SUFFICES ASSUME RestInit PROVE LetInv
      OBVIOUS
    <2>1. ownerRate = NoKey /\ let = [s \in Window |-> 0]
      BY DEF RestInit, Window
    <2>2. ownerRate \in Keys(RateMax, RateWindow) /\ ownerRate.ttl = 0
      BY <1>0, <2>1 DEF NoKey, Keys
    <2>3. let \in [Window -> Nat] /\ \A s \in Window : let[s] = 0
      BY <2>1
    <2>4. 0 \in Window
      BY <1>0 DEF Window
    <2>5. Upto(let, RateWindow) = 0
      <3>1. IsFiniteSet(Window) /\ let \in [Window -> Int]
        <4>1. 0 \in Int /\ RateWindow - 1 \in Int
          BY <1>0
        <4> QED
          BY <2>3, <4>1, FS_Interval DEF Window
      <3>2. SumFunction(let) = 0
        BY <2>3, <3>1, SumType
      <3> QED
        BY <2>3, <3>2, UptoRec
    <2> QED
      BY <1>0, <2>2, <2>3, <2>4, <2>5 DEF LetInv
  <1>2. LetInv => SubmissionsBounded
    <2> SUFFICES ASSUME LetInv PROVE SumFunction(let) < 2 * RateMax
      BY DEF SubmissionsBounded
    <2> DEFINE e == RateWindow - ownerRate.ttl
    <2>1. let \in [Window -> Nat] /\ ownerRate.ttl \in 0..RateWindow
      BY DEF LetInv, Keys
    <2>2. SumFunction(let) = Upto(let, RateWindow) /\ RateWindow \in 0..RateWindow
          /\ \A k \in 0..RateWindow : Upto(let, k) \in Int
      BY <1>0, <2>1, UptoRec
    <2>3. CASE ownerRate.ttl = 0
      BY <1>0, <2>2, <2>3 DEF LetInv
    <2>4. CASE ownerRate.ttl # 0
      <3>1. Upto(let, e + 1) <= RateMax /\ Upto(let, RateWindow) - Upto(let, e + 1) <= RateMax - 1
        BY <2>4 DEF LetInv
      <3>2. e + 1 \in 0..RateWindow
        BY <1>0, <2>1, <2>4
      <3>3. Upto(let, e + 1) \in Int /\ Upto(let, RateWindow) \in Int
        BY <2>2, <3>2
      <3> HIDE DEF e
      <3> QED
        BY <1>0, <2>2, <3>1, <3>3
    <2> QED
      BY <2>3, <2>4
  <1> QED
    BY <1>1, <1>2, LetStep, PTL DEF RestSpec

-----------------------------------------------------------------------------
(* A check's way through the backend: types and buffers.                   *)

PipeInv == PipeTypeOK /\ IsFiniteSet(jobs)

\* The image of a finite set is no larger.
LEMMA ImageSize ==
    ASSUME NEW S, IsFiniteSet(S), NEW f, DOMAIN f = S, f = [x \in S |-> f[x]]
    PROVE  /\ IsFiniteSet({f[x] : x \in S})
           /\ Cardinality({f[x] : x \in S}) <= Cardinality(S)
  <1> DEFINE T == {f[x] : x \in S}
  <1>1. f \in Surjection(S, T)
    BY DEF Surjection
  <1> HIDE DEF T
  <1>2. IsFiniteSet(T) /\ Cardinality(T) <= Cardinality(S)
    BY <1>1, FS_Surjection
  <1> QED
    BY <1>2 DEF T

\* The numbers among the constants.
LEMMA PipeNumbers ==
    /\ CheckEvery \in Nat \ {0} /\ NoNodeBackoff \in 0..CheckEvery /\ FreshFor \in Nat \ {0}
    /\ SendBuffer \in Nat \ {0} /\ MaxLosses \in Nat /\ NonceTTL \in Nat /\ IsFiniteSet(Checks)
    /\ RateMax \in Nat \ {0} /\ RateWindow \in Nat \ {0}
    /\ StreakMax \in Nat \ {0} /\ StreakWindow \in Nat \ {0}
  BY PipelineConstants, AntiCheatConstants DEF NonceTTL

\* Fewer jobs are still jobs, and need no more room.
LEMMA FewerJobs ==
    ASSUME PipeInv, jobs' \subseteq jobs
    PROVE  /\ jobs' \subseteq Jobs /\ IsFiniteSet(jobs')
           /\ \A r \in Nodes : Cardinality(Buffered(r)') <= SendBuffer
  <1>1. jobs' \subseteq Jobs /\ IsFiniteSet(jobs')
    BY FS_Subset DEF PipeInv, PipeTypeOK
  <1>2. ASSUME NEW r \in Nodes PROVE Cardinality(Buffered(r)') <= SendBuffer
    <2>1. Buffered(r)' \in SUBSET Buffered(r) /\ Buffered(r) \in SUBSET jobs
      BY DEF Buffered
    <2> DEFINE B == Buffered(r)
               C == Buffered(r)'
    <2>2. B \in SUBSET jobs /\ C \in SUBSET B
      BY <2>1
    <2>3. Cardinality(B) <= SendBuffer /\ IsFiniteSet(jobs)
      BY DEF PipeInv, PipeTypeOK
    <2> HIDE DEF B, C
    <2>4. IsFiniteSet(B) /\ IsFiniteSet(C)
      BY <2>2, <2>3, FS_Subset
    <2>5. Cardinality(C) <= Cardinality(B) /\ Cardinality(C) \in Nat /\ Cardinality(B) \in Nat
      BY <2>2, <2>4, FS_Subset, FS_CardinalityType
    <2>6. Cardinality(C) <= SendBuffer
      BY <2>3, <2>5, PipeNumbers
    <2> QED
      BY <2>6 DEF C
  <1> QED
    BY <1>1, <1>2

\* A second: the jobs age where they are.
LEMMA JobsAge ==
    ASSUME PipeInv, PipeSecond
    PROVE  /\ jobs' \subseteq Jobs /\ IsFiniteSet(jobs')
           /\ \A r \in Nodes : Cardinality(Buffered(r)') <= SendBuffer
  <1> DEFINE a(j) == [j EXCEPT !.age = IF @ < NonceTTL THEN @ + 1 ELSE @]
  <1>1. jobs' = {a(j) : j \in jobs} /\ jobs \subseteq Jobs /\ IsFiniteSet(jobs)
    BY DEF PipeSecond, PipeInv, PipeTypeOK
  <1>2. ASSUME NEW j \in Jobs
        PROVE  a(j) \in Jobs /\ a(j).node = j.node /\ a(j).at = j.at /\ a(j).mon = j.mon
    <2> DEFINE n == IF j.age < NonceTTL THEN j.age + 1 ELSE j.age
    <2>1. n \in 0..NonceTTL
      BY PipeNumbers DEF Jobs
    <2>2. a(j) = [j EXCEPT !.age = n]
      OBVIOUS
    <2> HIDE DEF n
    <2> QED
      BY <2>1, <2>2 DEF Jobs
  <1>3. ASSUME NEW J, J \in SUBSET jobs
        PROVE  IsFiniteSet({a(j) : j \in J}) /\ Cardinality({a(j) : j \in J}) <= Cardinality(J)
    <2> DEFINE f == [j \in J |-> a(j)]
    <2>1. DOMAIN f = J /\ f = [x \in J |-> f[x]] /\ IsFiniteSet(J)
      BY <1>1, <1>3, FS_Subset
    <2>2. {a(j) : j \in J} = {f[j] : j \in J}
      OBVIOUS
    <2> HIDE DEF f
    <2>3. IsFiniteSet({f[j] : j \in J}) /\ Cardinality({f[j] : j \in J}) <= Cardinality(J)
      BY <2>1, ImageSize
    <2> QED
      BY <2>2, <2>3
  <1> HIDE DEF a
  <1>4. jobs' \subseteq Jobs /\ IsFiniteSet(jobs')
    BY <1>1, <1>2, <1>3
  <1>5. ASSUME NEW r \in Nodes PROVE Cardinality(Buffered(r)') <= SendBuffer
    <2> DEFINE B == Buffered(r)
               C == {a(j) : j \in B}
    <2>1. B \in SUBSET jobs /\ Cardinality(B) <= SendBuffer
      BY DEF Buffered, PipeInv, PipeTypeOK
    <2>2. Buffered(r)' = C
      BY <1>1, <1>2 DEF Buffered
    <2> HIDE DEF B
    <2>3. Cardinality(C) <= Cardinality(B) /\ IsFiniteSet(C) /\ IsFiniteSet(B)
      BY <1>1, <1>3, <2>1, FS_Subset
    <2> HIDE DEF C
    <2>4. Cardinality(C) \in Nat /\ Cardinality(B) \in Nat
      BY <2>3, FS_CardinalityType
    <2>5. Cardinality(C) <= SendBuffer
      BY <2>1, <2>3, <2>4, PipeNumbers
    <2> QED
      BY <2>2, <2>5
  <1> QED
    BY <1>4, <1>5

\* A tick: new jobs wait in job_queue.
LEMMA JobsQueue ==
    ASSUME PipeInv, ScheduleTick
    PROVE  /\ jobs' \subseteq Jobs /\ IsFiniteSet(jobs') /\ losses' \in 0..MaxLosses
           /\ \A r \in Nodes : Buffered(r)' = Buffered(r)
           /\ dueIn' \in [Checks -> 0..CheckEvery]
  <1> DEFINE due == {m \in Checks : dueIn[m] = 0}
  <1>1. PICK matched \in SUBSET due : \E node \in [matched -> FreshNodes] :
         /\ \E unsent \in SUBSET matched :
              /\ IF unsent = {} THEN UNCHANGED losses ELSE Loss
              /\ jobs' = jobs \cup {[mon |-> m, node |-> node[m], age |-> 0, at |-> "queue"] :
                                      m \in matched \ unsent}
         /\ dueIn' = [m \in Checks |-> IF m \in matched THEN CheckEvery
                                       ELSE IF m \in due THEN NoNodeBackoff ELSE dueIn[m]]
    BY DEF ScheduleTick
  <1>2. PICK node \in [matched -> FreshNodes] : \E unsent \in SUBSET matched :
              /\ IF unsent = {} THEN UNCHANGED losses ELSE Loss
              /\ jobs' = jobs \cup {[mon |-> m, node |-> node[m], age |-> 0, at |-> "queue"] :
                                      m \in matched \ unsent}
    BY <1>1
  <1>3. PICK unsent \in SUBSET matched :
              /\ IF unsent = {} THEN UNCHANGED losses ELSE Loss
              /\ jobs' = jobs \cup {[mon |-> m, node |-> node[m], age |-> 0, at |-> "queue"] :
                                      m \in matched \ unsent}
    BY <1>2
  <1> DEFINE q(m) == [mon |-> m, node |-> node[m], age |-> 0, at |-> "queue"]
             s == matched \ unsent
             N == {q(m) : m \in s}
  <1>4. jobs' = jobs \cup N /\ s \subseteq Checks
    BY <1>3
  <1>5. \A m \in s : q(m) \in Jobs /\ q(m).at = "queue"
    BY PipeNumbers DEF FreshNodes, Jobs
  <1>6. IsFiniteSet(N)
    <2> DEFINE f == [m \in s |-> q(m)]
    <2>1. DOMAIN f = s /\ f = [x \in s |-> f[x]] /\ N = {f[x] : x \in s}
      OBVIOUS
    <2>2. IsFiniteSet(s)
      BY <1>4, PipeNumbers, FS_Subset
    <2> HIDE DEF f, N, s
    <2> QED
      BY <2>1, <2>2, ImageSize
  <1>7. jobs' \subseteq Jobs
    BY <1>4, <1>5 DEF PipeInv, PipeTypeOK
  <1>8. \A r \in Nodes : Buffered(r)' = Buffered(r)
    BY <1>4, <1>5 DEF Buffered
  <1>9. IsFiniteSet(jobs')
    <2> HIDE DEF N
    <2> QED
      BY <1>4, <1>6, FS_Union DEF PipeInv
  <1>10. dueIn' \in [Checks -> 0..CheckEvery]
    BY <1>1, PipeNumbers DEF PipeInv, PipeTypeOK
  <1>11. losses' \in 0..MaxLosses
    BY <1>3, PipeNumbers DEF Loss, PipeInv, PipeTypeOK
  <1> QED
    BY <1>7, <1>8, <1>9, <1>10, <1>11

\* A job changes its place.
LEMMA JobMoves ==
    ASSUME PipeInv, NEW j \in jobs, NEW p \in {"buffer", "miner"}, jobs' = Moved(j, p),
           p = "buffer" => HasRoom(j.node)
    PROVE  /\ jobs' \subseteq Jobs /\ IsFiniteSet(jobs')
           /\ \A r \in Nodes : Cardinality(Buffered(r)') <= SendBuffer
  <1> DEFINE k == [j EXCEPT !.at = p]
             d == jobs \ {j}
  <1>1. jobs \subseteq Jobs /\ IsFiniteSet(jobs) /\ j \in Jobs
    BY DEF PipeInv, PipeTypeOK
  <1>2. k \in Jobs /\ k.node = j.node /\ k.at = p
    BY <1>1 DEF Jobs
  <1>3. jobs' = d \cup {k}
    BY DEF Moved
  <1> HIDE DEF k
  <1>4. IsFiniteSet(d)
    BY <1>1, FS_Subset
  <1>5. jobs' \subseteq Jobs /\ IsFiniteSet(jobs')
    <2> HIDE DEF d
    <2>1. IsFiniteSet(jobs')
      BY <1>3, <1>4, FS_AddElement
    <2> QED
      BY <1>1, <1>2, <1>3, <2>1 DEF d
  <1>6. ASSUME NEW r \in Nodes PROVE Cardinality(Buffered(r)') <= SendBuffer
    <2> DEFINE B == Buffered(r)
               C == Buffered(r)'
    <2>1. B \in SUBSET jobs /\ Cardinality(B) <= SendBuffer
      BY DEF Buffered, PipeInv, PipeTypeOK
    <2>2. C \subseteq B \cup {k}
      BY <1>3 DEF Buffered
    <2>3. k \in C => p = "buffer" /\ j.node = r
      BY <1>2 DEF Buffered
    <2>4. p = "buffer" /\ j.node = r => Cardinality(B) < SendBuffer
      BY DEF HasRoom
    <2> HIDE DEF B, C
    <2>5. IsFiniteSet(B) /\ Cardinality(B) \in Nat
      BY <1>1, <2>1, FS_Subset, FS_CardinalityType
    <2>6. CASE k \in C
      <3> DEFINE D == B \cup {k}
      <3>1. IsFiniteSet(D) /\ Cardinality(D) <= Cardinality(B) + 1
        <4>1. IsFiniteSet(D) /\ Cardinality(D) = IF k \in B THEN Cardinality(B) ELSE Cardinality(B) + 1
          BY <2>5, FS_AddElement
        <4> HIDE DEF D
        <4> QED
          BY <2>5, <4>1
      <3>2. C \in SUBSET D
        BY <2>2
      <3> HIDE DEF D
      <3>3. Cardinality(C) <= Cardinality(D) /\ IsFiniteSet(C)
        BY <3>1, <3>2, FS_Subset
      <3>4. Cardinality(C) \in Nat /\ Cardinality(D) \in Nat
        BY <3>1, <3>3, FS_CardinalityType
      <3>5. Cardinality(B) < SendBuffer
        BY <2>3, <2>4, <2>6
      <3>6. Cardinality(C) <= SendBuffer
        BY <2>5, <3>1, <3>3, <3>4, <3>5, PipeNumbers
      <3> QED
        BY <3>6 DEF C
    <2>7. CASE k \notin C
      <3>1. C \in SUBSET B
        BY <2>2, <2>7
      <3>2. IsFiniteSet(C) /\ Cardinality(C) <= Cardinality(B)
        BY <2>5, <3>1, FS_Subset
      <3>3. Cardinality(C) \in Nat
        BY <3>2, FS_CardinalityType
      <3>4. Cardinality(C) <= SendBuffer
        BY <2>1, <2>5, <3>2, <3>3, PipeNumbers
      <3> QED
        BY <3>4 DEF C
    <2> QED
      BY <2>6, <2>7
  <1> QED
    BY <1>5, <1>6

\* The counters of a result that gets to them.
LEMMA CountersStay ==
    ASSUME PipeInv, NEW r \in Nodes
    PROVE  /\ [rate EXCEPT ![r] = RateKey(@)] \in [Nodes -> Keys(RateMax, RateWindow)]
           /\ [rate EXCEPT ![r] = Incr(@, RateMax)] \in [Nodes -> Keys(RateMax, RateWindow)]
           /\ \A l \in Latencies : [streak EXCEPT ![r][l] = StreakKey(@)]
                \in [Nodes -> [Latencies -> Keys(StreakMax, StreakWindow)]]
  <1>1. rate[r] \in Keys(RateMax, RateWindow) /\ rate \in [Nodes -> Keys(RateMax, RateWindow)]
    BY DEF PipeInv, PipeTypeOK
  <1>2. RateKey(rate[r]) \in Keys(RateMax, RateWindow)
    BY <1>1, RateKeySteps
  <1>3. Incr(rate[r], RateMax) \in Keys(RateMax, RateWindow)
    BY <1>1, KeySteps, PipeNumbers
  <1>4. ASSUME NEW l \in Latencies
        PROVE  [streak EXCEPT ![r][l] = StreakKey(@)]
                 \in [Nodes -> [Latencies -> Keys(StreakMax, StreakWindow)]]
    <2>1. /\ streak \in [Nodes -> [Latencies -> Keys(StreakMax, StreakWindow)]]
          /\ streak[r][l] \in Keys(StreakMax, StreakWindow)
      BY DEF PipeInv, PipeTypeOK
    <2>2. StreakWindow \in 0..StreakWindow
      BY PipeNumbers
    <2>3. StreakKey(streak[r][l]) \in Keys(StreakMax, StreakWindow)
      BY <2>1, <2>2, KeySteps, PipeNumbers DEF StreakKey
    <2> QED
      BY <2>1, <2>3
  <1> QED
    BY <1>1, <1>2, <1>3, <1>4

\* A result, whichever layer ends it.
LEMMA AnswerTypes ==
    ASSUME PipeInv, NEW j \in jobs, Answer(j)
    PROVE  PipeInv'
  <1>1. j \in Jobs /\ j.node \in Nodes /\ j.mon \in Checks
    BY DEF PipeInv, PipeTypeOK, Jobs
  <1>2. jobs' = jobs \ {j} /\ UNCHANGED <<dueIn, online, seen, wasted>>
    BY DEF Answer, RefuseNonce, RefuseSignature, RateFails, RefuseRate, RefuseLatency,
       PublishAnswer, Reported
  <1>3. /\ jobs' \subseteq Jobs /\ IsFiniteSet(jobs')
        /\ \A r \in Nodes : Cardinality(Buffered(r)') <= SendBuffer
    <2>1. jobs' \subseteq jobs
      BY <1>2
    <2> QED
      BY <2>1, FewerJobs
  <1>4. UNCHANGED losses \/ Loss
    BY DEF Answer, RefuseNonce, RefuseSignature, RateFails, RefuseRate, RefuseLatency,
       PublishAnswer
  <1>5. losses' \in 0..MaxLosses
    BY <1>4, PipeNumbers DEF Loss, PipeInv, PipeTypeOK
  <1>6. answered' \subseteq Checks
    BY <1>1 DEF Answer, RefuseNonce, RefuseSignature, RateFails, RefuseRate, RefuseLatency,
       PublishAnswer, PipeInv, PipeTypeOK
  <1>7. rate' \in {rate, [rate EXCEPT ![j.node] = RateKey(@)],
                   [rate EXCEPT ![j.node] = Incr(@, RateMax)]}
    BY DEF Answer, RefuseNonce, RefuseSignature, RateFails, RefuseRate, RefuseLatency,
       PublishAnswer
  <1>8. UNCHANGED streak \/ \E l \in Latencies : streak' = [streak EXCEPT ![j.node][l] = StreakKey(@)]
    BY DEF Answer, RefuseNonce, RefuseSignature, RateFails, RefuseRate, RefuseLatency,
       PublishAnswer, Counted
  <1>9. /\ rate' \in [Nodes -> Keys(RateMax, RateWindow)]
        /\ streak' \in [Nodes -> [Latencies -> Keys(StreakMax, StreakWindow)]]
    <2>1. rate' \in [Nodes -> Keys(RateMax, RateWindow)]
      BY <1>1, <1>7, CountersStay DEF PipeInv, PipeTypeOK
    <2>2. streak' \in [Nodes -> [Latencies -> Keys(StreakMax, StreakWindow)]]
      <3>1. CASE UNCHANGED streak
        BY <3>1 DEF PipeInv, PipeTypeOK
      <3>2. ASSUME NEW l \in Latencies, streak' = [streak EXCEPT ![j.node][l] = StreakKey(@)]
            PROVE  streak' \in [Nodes -> [Latencies -> Keys(StreakMax, StreakWindow)]]
        BY <1>1, <3>2, CountersStay
      <3> QED
        BY <1>8, <3>1, <3>2
    <2> QED
      BY <2>1, <2>2
  <1> QED
    BY <1>2, <1>3, <1>5, <1>6, <1>9 DEF PipeInv, PipeTypeOK

\* Every step of the pipeline keeps its types and the state of a check.
LEMMA PipeStep == PipeInv /\ [PipeNext]_pipeVars => PipeInv'
  <1> SUFFICES ASSUME PipeInv, [PipeNext]_pipeVars PROVE PipeInv'
    OBVIOUS
  <1>1. CASE PipeSecond
    <2>1. /\ jobs' \subseteq Jobs /\ IsFiniteSet(jobs')
          /\ \A r \in Nodes : Cardinality(Buffered(r)') <= SendBuffer
      BY <1>1, JobsAge
    <2>2. dueIn' \in [Checks -> 0..CheckEvery]
      BY <1>1, PipeNumbers DEF PipeSecond, PipeInv, PipeTypeOK
    <2>3. seen' \in [Nodes -> 0..(FreshFor + 1)]
      BY <1>1, PipeNumbers DEF PipeSecond, PipeInv, PipeTypeOK
    <2>4. rate' \in [Nodes -> Keys(RateMax, RateWindow)]
      <3>1. \A r \in Nodes : Lapsed(rate[r]) \in Keys(RateMax, RateWindow)
        BY KeySteps, PipeNumbers DEF PipeInv, PipeTypeOK
      <3> QED
        BY <1>1, <3>1 DEF PipeSecond
    <2>5. streak' \in [Nodes -> [Latencies -> Keys(StreakMax, StreakWindow)]]
      <3>1. \A r \in Nodes : \A l \in Latencies : Lapsed(streak[r][l]) \in Keys(StreakMax, StreakWindow)
        BY KeySteps, PipeNumbers DEF PipeInv, PipeTypeOK
      <3> QED
        BY <1>1, <3>1 DEF PipeSecond
    <2> QED
      BY <1>1, <2>1, <2>2, <2>3, <2>4, <2>5 DEF PipeSecond, PipeInv, PipeTypeOK
  <1>2. CASE ScheduleTick
    <2>1. /\ jobs' \subseteq Jobs /\ IsFiniteSet(jobs') /\ losses' \in 0..MaxLosses
          /\ \A r \in Nodes : Buffered(r)' = Buffered(r)
          /\ dueIn' \in [Checks -> 0..CheckEvery]
      BY <1>2, JobsQueue
    <2>2. UNCHANGED <<online, seen, rate, streak, answered, wasted>>
      BY <1>2 DEF ScheduleTick
    <2> QED
      BY <2>1, <2>2 DEF PipeInv, PipeTypeOK
  <1>3. CASE Reboot
    <2>1. /\ jobs' \subseteq Jobs /\ IsFiniteSet(jobs')
          /\ \A r \in Nodes : Cardinality(Buffered(r)') <= SendBuffer
      BY <1>3, FewerJobs DEF Reboot
    <2>2. losses' \in 0..MaxLosses /\ seen' \in [Nodes -> 0..(FreshFor + 1)]
      BY <1>3, PipeNumbers DEF Reboot, Loss, PipeInv, PipeTypeOK
    <2> QED
      BY <1>3, <2>1, <2>2 DEF Reboot, PipeInv, PipeTypeOK
  <1>4. ASSUME NEW r \in Nodes, Dial(r) \/ HangUp(r) \/ Ping(r) PROVE PipeInv'
    <2>0. jobs' \subseteq jobs
      BY <1>4 DEF Dial, HangUp, Ping
    <2>1. /\ jobs' \subseteq Jobs /\ IsFiniteSet(jobs')
          /\ \A s \in Nodes : Cardinality(Buffered(s)') <= SendBuffer
      BY <2>0, FewerJobs
    <2>2. /\ losses' \in 0..MaxLosses /\ seen' \in [Nodes -> 0..(FreshFor + 1)]
          /\ wasted' \in [Nodes -> Nat] /\ online' \subseteq Nodes
      BY <1>4, PipeNumbers DEF Dial, HangUp, Ping, Track, Loss, PipeInv, PipeTypeOK
    <2>3. UNCHANGED <<dueIn, rate, streak, answered>>
      BY <1>4 DEF Dial, HangUp, Ping
    <2> QED
      BY <2>1, <2>2, <2>3 DEF PipeInv, PipeTypeOK
  <1>5. ASSUME NEW j \in jobs, ConsumeJob(j) \/ SendJob(j) PROVE PipeInv'
    <2>1. /\ jobs' \subseteq Jobs /\ IsFiniteSet(jobs')
          /\ \A s \in Nodes : Cardinality(Buffered(s)') <= SendBuffer
      <3>1. \/ jobs' = Moved(j, "buffer") /\ HasRoom(j.node)
            \/ jobs' = Moved(j, "miner")
            \/ jobs' = jobs \ {j}
        BY <1>5 DEF ConsumeJob, SendJob
      <3>2. CASE jobs' = Moved(j, "buffer") /\ HasRoom(j.node)
        BY <3>2, JobMoves
      <3>3. CASE jobs' = Moved(j, "miner")
        BY <3>3, JobMoves
      <3>4. CASE jobs' = jobs \ {j}
        <4>1. jobs' \subseteq jobs
          BY <3>4
        <4> QED
          BY <4>1, FewerJobs
      <3> QED
        BY <3>1, <3>2, <3>3, <3>4
    <2>2. wasted' \in [Nodes -> Nat]
      BY <1>5 DEF ConsumeJob, SendJob, PipeInv, PipeTypeOK, Jobs
    <2>3. UNCHANGED <<dueIn, online, seen, rate, streak, answered, losses>>
      BY <1>5 DEF ConsumeJob, SendJob
    <2> QED
      BY <2>1, <2>2, <2>3 DEF PipeInv, PipeTypeOK
  <1>6. CASE UNCHANGED pipeVars
    <2>1. jobs' \subseteq jobs /\ UNCHANGED <<dueIn, online, seen, rate, streak, answered, wasted, losses>>
      BY <1>6 DEF pipeVars
    <2>2. /\ jobs' \subseteq Jobs /\ IsFiniteSet(jobs')
          /\ \A r \in Nodes : Cardinality(Buffered(r)') <= SendBuffer
      BY <2>1, FewerJobs
    <2> QED
      BY <2>1, <2>2 DEF PipeInv, PipeTypeOK
  <1>7. ASSUME NEW j \in jobs, Answer(j) PROVE PipeInv'
    BY <1>7, AnswerTypes
  <1> QED
    BY <1>1, <1>2, <1>3, <1>4, <1>5, <1>6, <1>7 DEF PipeNext

\* They hold at the start.
LEMMA PipeStart == PipeInit => PipeInv
  <1> SUFFICES ASSUME PipeInit PROVE PipeInv
    OBVIOUS
  <1>1. \A r \in Nodes : Buffered(r) = {}
    BY DEF PipeInit, Buffered
  <1>2. IsFiniteSet({}) /\ Cardinality({}) = 0
    BY FS_EmptySet
  <1>3. \A r \in Nodes : Cardinality(Buffered(r)) <= SendBuffer
    BY <1>1, <1>2, PipeNumbers
  <1>4. NoKey \in Keys(RateMax, RateWindow) /\ NoKey \in Keys(StreakMax, StreakWindow)
    BY PipeNumbers DEF NoKey, Keys
  <1> QED
    BY <1>2, <1>3, <1>4, PipeNumbers DEF PipeInit, PipeInv, PipeTypeOK

(* Whatever is lost, refused or sent again: no sendCh takes more than its  *)
(* buffer holds, every counter stays within its limit, and the next check  *)
(* of a monitor is never more than an interval away.                       *)
THEOREM PipelineTypes == PipeSpec => []PipeTypeOK
  <1>1. PipeInv => PipeTypeOK
    BY DEF PipeInv
  <1> QED
    BY <1>1, PipeStart, PipeStep, PTL DEF PipeSpec

-----------------------------------------------------------------------------
(* What a node that is gone costs.                                         *)

MaxShare == FreshFor \div CheckEvery + 1

\* The jobs a monitor due in d seconds can still get for a node last seen s
\* seconds ago: one now and one per interval, while the node counts as fresh.
Ahead(s, d) ==
    IF s <= FreshFor /\ d <= FreshFor - s
    THEN ((FreshFor - s) - d) \div CheckEvery + 1 ELSE 0

Queued(r, m) == \E j \in jobs : j.at = "queue" /\ j.mon = m /\ j.node = r

\* The checks of each monitor that node r may still cost.
Share(r) == [m \in Checks |-> (IF Queued(r, m) THEN 1 ELSE 0) + Ahead(seen[r], dueIn[m])]

\* A queued job is of this second, and its monitor's next check an interval away.
QueueInv == \A j \in jobs : j.at = "queue" => j.age = 0 /\ dueIn[j.mon] = CheckEvery

WasteInv ==
    \A r \in Nodes :
        /\ r \in online => wasted[r] = 0
        /\ r \notin online => wasted[r] + SumFunction(Share(r)) <= Cardinality(Checks) * MaxShare

\* What a check that is due in d seconds can still cost an offline node.
LEMMA AheadFacts ==
    ASSUME NEW s \in 0..(FreshFor + 1), NEW d \in 0..CheckEvery
    PROVE  /\ Ahead(s, d) \in Nat /\ Ahead(s, d) <= MaxShare /\ Ahead(s, CheckEvery) + 1 <= MaxShare
           /\ \A e \in 0..CheckEvery : d <= e => Ahead(s, e) <= Ahead(s, d)
           /\ s <= FreshFor => Ahead(s, CheckEvery) + 1 <= Ahead(s, 0)
           /\ s <= FreshFor /\ d > 0 => Ahead(s + 1, d - 1) = Ahead(s, d)
           /\ s > FreshFor => Ahead(s, d) = 0
           /\ MaxShare \in Nat
  <1>0. FreshFor \in Nat /\ CheckEvery \in Nat \ {0}
    BY PipeNumbers
  <1>1. \A a \in Nat : a \div CheckEvery \in Nat
    BY <1>0, DivMod
  <1>2. \A a, b \in Nat : a <= b => a \div CheckEvery <= b \div CheckEvery
    BY <1>0, DivMono
  <1>3. \A a \in Nat : CheckEvery <= a => (a - CheckEvery) \div CheckEvery + 1 = a \div CheckEvery
    BY <1>0, DivLess
  <1> DEFINE R == FreshFor - s
             q(a) == a \div CheckEvery
  <1>4. MaxShare \in Nat /\ MaxShare = q(FreshFor) + 1
    BY <1>0, <1>1 DEF MaxShare
  <1>5. ASSUME NEW e \in 0..CheckEvery
        PROVE  Ahead(s, e) = IF s <= FreshFor /\ e <= R THEN q(R - e) + 1 ELSE 0
    BY DEF Ahead
  <1>6. \A a \in Nat : q(a) \in Nat
    BY <1>1
  <1>7. \A a, b \in Nat : a <= b => q(a) <= q(b)
    BY <1>2
  <1>8. \A a \in Nat : CheckEvery <= a => q(a - CheckEvery) + 1 = q(a)
    BY <1>3
  <1>9. s <= FreshFor => R \in Nat /\ R <= FreshFor
    BY <1>0
  <1>10. s <= FreshFor /\ d > 0 => Ahead(s + 1, d - 1) = Ahead(s, d)
    <2> SUFFICES ASSUME s <= FreshFor, d > 0 PROVE Ahead(s + 1, d - 1) = Ahead(s, d)
      OBVIOUS
    <2>1. (FreshFor - (s + 1)) - (d - 1) = (FreshFor - s) - d
      BY <1>0
    <2>2. s + 1 <= FreshFor /\ d - 1 <= FreshFor - (s + 1) <=> s <= FreshFor /\ d <= FreshFor - s
      BY <1>0
    <2> QED
      BY <2>1, <2>2 DEF Ahead
  <1> HIDE DEF R, q
  <1>11. ASSUME NEW e \in 0..CheckEvery PROVE Ahead(s, e) \in Nat
    BY <1>0, <1>5, <1>6, <1>9
  <1>12. ASSUME NEW e \in 0..CheckEvery, d <= e PROVE Ahead(s, e) <= Ahead(s, d)
    <2>1. CASE s <= FreshFor /\ e <= R
      <3>1. d <= R /\ R - e \in Nat /\ R - d \in Nat /\ R - e <= R - d
        BY <1>0, <1>9, <1>12, <2>1
      <3>2. q(R - e) <= q(R - d) /\ q(R - e) \in Nat /\ q(R - d) \in Nat
        BY <1>6, <1>7, <3>1
      <3>3. Ahead(s, e) = q(R - e) + 1 /\ Ahead(s, d) = q(R - d) + 1
        BY <1>5, <2>1, <3>1
      <3> QED
        BY <3>2, <3>3
    <2>2. CASE ~(s <= FreshFor /\ e <= R)
      <3>1. Ahead(s, e) = 0
        BY <1>5, <2>2
      <3> QED
        BY <1>11, <3>1
    <2> QED
      BY <2>1, <2>2
  <1>13. s <= FreshFor => Ahead(s, CheckEvery) + 1 <= Ahead(s, 0) /\ Ahead(s, 0) <= MaxShare
    <2> SUFFICES ASSUME s <= FreshFor
                 PROVE  Ahead(s, CheckEvery) + 1 <= Ahead(s, 0) /\ Ahead(s, 0) <= MaxShare
      OBVIOUS
    <2>1. R \in Nat /\ R <= FreshFor /\ R - 0 = R
      BY <1>9
    <2>2. Ahead(s, 0) = q(R) + 1 /\ q(R) \in Nat /\ q(R) <= q(FreshFor) /\ q(FreshFor) \in Nat
      BY <1>0, <1>5, <1>6, <1>7, <2>1
    <2>3. CASE CheckEvery <= R
      <3>1. Ahead(s, CheckEvery) = q(R - CheckEvery) + 1
        BY <1>0, <1>5, <2>3
      <3>2. q(R - CheckEvery) + 1 = q(R)
        BY <1>8, <2>1, <2>3
      <3> QED
        BY <1>4, <2>2, <3>1, <3>2
    <2>4. CASE ~(CheckEvery <= R)
      <3>1. Ahead(s, CheckEvery) = 0
        BY <1>0, <1>5, <2>4
      <3> QED
        BY <1>4, <2>2, <3>1
    <2> QED
      BY <2>3, <2>4
  <1>14. \A e \in 0..CheckEvery : s > FreshFor => Ahead(s, e) = 0
    BY <1>0, <1>5
  <1>15. 0 \in 0..CheckEvery /\ CheckEvery \in 0..CheckEvery /\ 0 <= d /\ q(FreshFor) \in Nat
    BY <1>0, <1>6
  <1>16. Ahead(s, d) <= MaxShare /\ Ahead(s, CheckEvery) + 1 <= MaxShare
    <2>1. CASE s <= FreshFor
      <3>1. Ahead(s, d) <= Ahead(s, 0)
        <4>1. ASSUME NEW c \in 0..CheckEvery, c = 0 PROVE Ahead(s, d) <= Ahead(s, c)
          <5>1. CASE d <= R
            <6>1. R - d \in Nat /\ R \in Nat /\ R - d <= R /\ R - 0 = R /\ 0 <= R
              BY <1>0, <1>9, <2>1, <5>1
            <6>2. q(R - d) <= q(R) /\ q(R - d) \in Nat /\ q(R) \in Nat
              BY <1>6, <1>7, <6>1
            <6>3. Ahead(s, d) = q(R - d) + 1 /\ Ahead(s, c) = q(R) + 1
              BY <1>5, <2>1, <4>1, <5>1, <6>1
            <6> QED
              BY <6>2, <6>3
          <5>2. CASE ~(d <= R)
            <6>1. Ahead(s, d) = 0
              BY <1>5, <5>2
            <6> QED
              BY <1>11, <6>1
          <5> QED
            BY <5>1, <5>2
        <4> QED
          BY <1>15, <4>1
      <3>2. Ahead(s, 0) \in Nat /\ Ahead(s, d) \in Nat /\ Ahead(s, CheckEvery) \in Nat
        BY <1>11, <1>15
      <3> QED
        BY <1>4, <1>13, <2>1, <3>1, <3>2
    <2>2. CASE s > FreshFor
      <3>1. Ahead(s, d) = 0 /\ Ahead(s, CheckEvery) = 0
        BY <1>14, <1>15, <2>2
      <3> QED
        BY <1>4, <1>15, <3>1
    <2> QED
      BY <1>0, <2>1, <2>2
  <1> QED
    BY <1>4, <1>10, <1>11, <1>12, <1>13, <1>14, <1>16

\* No monitor has more to lose to a node than the checks of its fresh time.
ShareOK ==
    \A r \in Nodes :
        /\ Share(r) \in [Checks -> Int]
        /\ \A m \in Checks :
             /\ Share(r)[m] = (IF Queued(r, m) THEN 1 ELSE 0) + Ahead(seen[r], dueIn[m])
             /\ Share(r)[m] <= MaxShare

\* The share of a check is bounded.
LEMMA ShareBound == PipeInv /\ QueueInv => ShareOK
  <1> SUFFICES ASSUME PipeInv, QueueInv, NEW r \in Nodes
               PROVE  /\ Share(r) \in [Checks -> Int]
                      /\ \A m \in Checks :
                           /\ Share(r)[m] = (IF Queued(r, m) THEN 1 ELSE 0) + Ahead(seen[r], dueIn[m])
                           /\ Share(r)[m] <= MaxShare
    BY DEF ShareOK
  <1>1. \A m \in Checks : Share(r)[m] = (IF Queued(r, m) THEN 1 ELSE 0) + Ahead(seen[r], dueIn[m])
    BY DEF Share
  <1>2. ASSUME NEW m \in Checks
        PROVE  (IF Queued(r, m) THEN 1 ELSE 0) + Ahead(seen[r], dueIn[m]) \in 0..MaxShare
    <2>1. seen[r] \in 0..(FreshFor + 1) /\ dueIn[m] \in 0..CheckEvery
      BY DEF PipeInv, PipeTypeOK
    <2> DEFINE a == Ahead(seen[r], dueIn[m])
               b == Ahead(seen[r], CheckEvery)
    <2>2. a \in Nat /\ a <= MaxShare /\ b + 1 <= MaxShare /\ MaxShare \in Nat
      BY <2>1, AheadFacts
    <2>3. Queued(r, m) => a = b
      BY DEF Queued, QueueInv
    <2> HIDE DEF a, b
    <2> QED
      BY <2>2, <2>3 DEF a
  <1>3. Share(r) \in [Checks -> Int]
    <2>1. \A m \in Checks : Share(r)[m] \in Int
      BY <1>1, <1>2
    <2> QED
      BY <2>1 DEF Share
  <1>4. ASSUME NEW m \in Checks PROVE Share(r)[m] <= MaxShare
    BY <1>1, <1>2
  <1> QED
    BY <1>1, <1>3, <1>4

\* The same, after a step.
LEMMA ShareBoundNext == PipeInv' /\ QueueInv' => ShareOK'
  BY ShareBound, PTL

\* Queued jobs never wait for the clock.
LEMMA QueueStep == PipeInv /\ QueueInv /\ [PipeNext]_pipeVars => QueueInv'
  <1> SUFFICES ASSUME PipeInv, QueueInv, [PipeNext]_pipeVars PROVE QueueInv'
    OBVIOUS
  <1>1. CASE PipeSecond
    <2>1. \A k \in jobs' : k.at # "queue"
      <3> DEFINE a(j) == [j EXCEPT !.age = IF @ < NonceTTL THEN @ + 1 ELSE @]
      <3>1. jobs' = {a(j) : j \in jobs} /\ \A j \in jobs : j.at # "queue" /\ j \in Jobs
        BY <1>1 DEF PipeSecond, PipeInv, PipeTypeOK
      <3>2. \A j \in Jobs : a(j).at = j.at
        BY DEF Jobs
      <3> HIDE DEF a
      <3> QED
        BY <3>1, <3>2
    <2> QED
      BY <2>1 DEF QueueInv
  <1>2. CASE ScheduleTick
    <2> DEFINE due == {m \in Checks : dueIn[m] = 0}
    <2>1. PICK matched \in SUBSET due : \E node \in [matched -> FreshNodes] :
           /\ \E unsent \in SUBSET matched :
                jobs' = jobs \cup {[mon |-> m, node |-> node[m], age |-> 0, at |-> "queue"] :
                                        m \in matched \ unsent}
           /\ dueIn' = [m \in Checks |-> IF m \in matched THEN CheckEvery
                                         ELSE IF m \in due THEN NoNodeBackoff ELSE dueIn[m]]
      BY <1>2 DEF ScheduleTick
    <2>2. \A k \in jobs' \ jobs : k.age = 0 /\ k.mon \in matched
      BY <2>1
    <2>3. \A k \in jobs : k.at = "queue" => k.age = 0 /\ k.mon \in Checks /\ k.mon \notin due
      BY PipeNumbers DEF PipeInv, PipeTypeOK, QueueInv, Jobs
    <2>4. \A m \in matched : dueIn'[m] = CheckEvery
      BY <2>1
    <2>5. \A m \in Checks \ due : dueIn'[m] = dueIn[m]
      BY <2>1
    <2> HIDE DEF due
    <2> QED
      BY <2>2, <2>3, <2>4, <2>5 DEF QueueInv
  <1>3. CASE \A k \in jobs' : k.at = "queue" => k \in jobs /\ UNCHANGED dueIn
    BY <1>3 DEF QueueInv
  <1>4. ASSUME NEW j \in jobs, ConsumeJob(j) \/ SendJob(j) \/ Answer(j)
        PROVE  \A k \in jobs' : k.at = "queue" => k \in jobs /\ UNCHANGED dueIn
    <2>1. j \in Jobs
      BY DEF PipeInv, PipeTypeOK
    <2>2. UNCHANGED dueIn /\ jobs' \in {jobs \ {j}, Moved(j, "buffer"), Moved(j, "miner")}
      BY <1>4 DEF ConsumeJob, SendJob, Answer, RefuseNonce, RefuseSignature, RateFails,
         RefuseRate, RefuseLatency, PublishAnswer, Reported
    <2>3. [j EXCEPT !.at = "buffer"].at = "buffer" /\ [j EXCEPT !.at = "miner"].at = "miner"
      BY <2>1 DEF Jobs
    <2> QED
      BY <2>2, <2>3 DEF Moved
  <1>5. ASSUME Reboot \/ (\E r \in Nodes : Dial(r) \/ HangUp(r) \/ Ping(r)) \/ UNCHANGED pipeVars
        PROVE  \A k \in jobs' : k.at = "queue" => k \in jobs /\ UNCHANGED dueIn
    BY <1>5 DEF Reboot, Dial, HangUp, Ping, pipeVars
  <1> QED
    BY <1>1, <1>2, <1>3, <1>4, <1>5 DEF PipeNext

\* What may be ahead of monitor m, as numbers.
LEMMA AheadNats ==
    ASSUME PipeInv, NEW r \in Nodes, NEW m \in Checks
    PROVE  Ahead(seen[r], dueIn[m]) \in Nat
  BY AheadFacts DEF PipeInv, PipeTypeOK

\* Fewer queued jobs and less ahead is a smaller share.
LEMMA ShareDown ==
    ASSUME ShareOK, ShareOK', NEW r \in Nodes, NEW m \in Checks,
           Queued(r, m)' => Queued(r, m),
           Ahead(seen'[r], dueIn'[m]) \in Nat, Ahead(seen[r], dueIn[m]) \in Nat,
           Ahead(seen'[r], dueIn'[m]) <= Ahead(seen[r], dueIn[m])
    PROVE  Share(r)'[m] <= Share(r)[m]
  <1> DEFINE a == Ahead(seen[r], dueIn[m])
             b == Ahead(seen'[r], dueIn'[m])
  <1>1. Share(r)[m] = (IF Queued(r, m) THEN 1 ELSE 0) + a
    BY DEF ShareOK
  <1>2. Share(r)'[m] = (IF Queued(r, m)' THEN 1 ELSE 0) + b
    BY DEF ShareOK, Ahead
  <1>3. a \in Nat /\ b \in Nat /\ b <= a
    OBVIOUS
  <1> HIDE DEF a, b
  <1> QED
    BY <1>1, <1>2, <1>3

\* The total does not grow with smaller shares.
LEMMA TotalStays ==
    ASSUME PipeInv, WasteInv, ShareOK, ShareOK', NEW r \in Nodes, r \notin online,
           wasted'[r] = wasted[r], \A m \in Checks : Share(r)'[m] <= Share(r)[m]
    PROVE  wasted'[r] + SumFunction(Share(r)') <= Cardinality(Checks) * MaxShare
  <1> DEFINE f == Share(r)
             g == Share(r)'
             N == Cardinality(Checks) * MaxShare
  <1>1. /\ f \in [Checks -> Int] /\ g \in [Checks -> Int] /\ wasted[r] \in Nat
        /\ \A m \in Checks : g[m] <= f[m]
    BY DEF ShareOK, PipeInv, PipeTypeOK
  <1>2. wasted[r] + SumFunction(f) <= N
    BY DEF WasteInv
  <1>3. IsFiniteSet(Checks) /\ N \in Int
    <2>1. IsFiniteSet(Checks)
      BY PipeNumbers
    <2>2. MaxShare \in Nat
      BY PipeNumbers, DivMod DEF MaxShare
    <2>3. Cardinality(Checks) \in Nat
      BY <2>1, FS_CardinalityType
    <2> QED
      BY <2>1, <2>2, <2>3
  <1> HIDE DEF f, g, N
  <1>4. SumFunction(g) <= SumFunction(f)
    BY <1>1, <1>3, SumMono
  <1>5. SumFunction(f) \in Int /\ SumFunction(g) \in Int
    BY <1>1, <1>3, SumType
  <1>6. wasted[r] + SumFunction(g) <= N
    BY <1>1, <1>2, <1>3, <1>4, <1>5
  <1> QED
    BY <1>6 DEF g, N

\* A node that has cost nothing yet will cost no more than the shares.
LEMMA TotalStarts ==
    ASSUME ShareOK', NEW r \in Nodes, wasted'[r] = 0
    PROVE  wasted'[r] + SumFunction(Share(r)') <= Cardinality(Checks) * MaxShare
  <1> DEFINE g == Share(r)'
  <1>1. g \in [Checks -> Int] /\ \A m \in Checks : g[m] <= MaxShare
    BY DEF ShareOK
  <1>2. MaxShare \in Nat /\ IsFiniteSet(Checks)
    BY PipeNumbers, DivMod DEF MaxShare
  <1> HIDE DEF g
  <1>3. SumFunction(g) <= Cardinality(Checks) * MaxShare /\ SumFunction(g) \in Int
    BY <1>1, <1>2, SumBound, SumType
  <1>4. Cardinality(Checks) * MaxShare \in Int
    <2>1. Cardinality(Checks) \in Nat
      BY <1>2, FS_CardinalityType
    <2> QED
      BY <1>2, <2>1
  <1>5. 0 + SumFunction(g) <= Cardinality(Checks) * MaxShare
    BY <1>3, <1>4
  <1> QED
    BY <1>5 DEF g

\* A tick spends one check of the share for each job it queues.
LEMMA TickShares ==
    ASSUME PipeInv, PipeInv', QueueInv, ShareOK, ShareOK', ScheduleTick, NEW r \in Nodes
    PROVE  \A m \in Checks : Share(r)'[m] <= Share(r)[m]
  <1> DEFINE due == {m \in Checks : dueIn[m] = 0}
             s == seen[r]
  <1>0. UNCHANGED seen
    BY DEF ScheduleTick
  <1>1. PICK matched \in SUBSET due : \E node \in [matched -> FreshNodes] :
         /\ \E unsent \in SUBSET matched :
              jobs' = jobs \cup {[mon |-> m, node |-> node[m], age |-> 0, at |-> "queue"] :
                                      m \in matched \ unsent}
         /\ dueIn' = [m \in Checks |-> IF m \in matched THEN CheckEvery
                                       ELSE IF m \in due THEN NoNodeBackoff ELSE dueIn[m]]
    BY DEF ScheduleTick
  <1>2. \A k \in jobs' \ jobs : k.mon \in matched /\ k.node \in FreshNodes
    BY <1>1
  <1>3. s \in 0..(FreshFor + 1)
    BY DEF PipeInv, PipeTypeOK
  <1> SUFFICES ASSUME NEW m \in Checks PROVE Share(r)'[m] <= Share(r)[m]
    OBVIOUS
  <1>4. Ahead(s, dueIn[m]) \in Nat /\ Ahead(s, dueIn'[m]) \in Nat
    BY <1>0, <1>3, AheadFacts DEF PipeInv, PipeTypeOK
  <1>5. CASE m \in matched
    <2>1. dueIn[m] = 0 /\ dueIn'[m] = CheckEvery
      BY <1>1, <1>5
    <2>2. ~Queued(r, m)
      BY <2>1, PipeNumbers DEF Queued, QueueInv
    <2>3. Queued(r, m)' => s <= FreshFor
      <3> SUFFICES ASSUME Queued(r, m)' PROVE r \in FreshNodes
        BY DEF FreshNodes
      <3>1. PICK k \in jobs' : k.at = "queue" /\ k.mon = m /\ k.node = r
        BY DEF Queued
      <3>2. k \notin jobs
        BY <2>2, <3>1 DEF Queued
      <3> QED
        BY <1>2, <3>1, <3>2
    <2> DEFINE a == Ahead(s, 0)
               b == Ahead(s, CheckEvery)
    <2>4. /\ a \in Nat /\ b \in Nat /\ b <= a /\ (s <= FreshFor => b + 1 <= a)
      <3>1. 0 \in 0..CheckEvery /\ CheckEvery \in 0..CheckEvery /\ 0 <= CheckEvery
        BY PipeNumbers
      <3> QED
        BY <1>3, <3>1, AheadFacts
    <2>5. Share(r)[m] = 0 + a
      BY <2>1, <2>2 DEF ShareOK
    <2>6. Share(r)'[m] = (IF Queued(r, m)' THEN 1 ELSE 0) + b
      BY <1>0, <2>1 DEF ShareOK, Ahead
    <2> HIDE DEF a, b
    <2> QED
      BY <2>3, <2>4, <2>5, <2>6
  <1>6. CASE m \notin matched
    <2>1. Queued(r, m)' => Queued(r, m)
      BY <1>2, <1>6 DEF Queued
    <2>2. Ahead(s, dueIn'[m]) <= Ahead(s, dueIn[m])
      <3>1. dueIn[m] \in 0..CheckEvery /\ dueIn'[m] \in 0..CheckEvery /\ dueIn[m] <= dueIn'[m]
        BY <1>1, <1>6, PipeNumbers DEF PipeInv, PipeTypeOK
      <3> QED
        BY <1>3, <3>1, AheadFacts
    <2> QED
      BY <1>0, <1>4, <2>1, <2>2, ShareDown
  <1> QED
    BY <1>5, <1>6

\* A second brings every check nearer and its node further from fresh.
LEMMA SecondShares ==
    ASSUME PipeInv, PipeInv', ShareOK, ShareOK', PipeSecond, NEW r \in Nodes
    PROVE  \A m \in Checks : Share(r)'[m] <= Share(r)[m]
  <1> SUFFICES ASSUME NEW m \in Checks PROVE Share(r)'[m] <= Share(r)[m]
    OBVIOUS
  <1>1. ~Queued(r, m)'
    <2> DEFINE a(j) == [j EXCEPT !.age = IF @ < NonceTTL THEN @ + 1 ELSE @]
    <2>1. jobs' = {a(j) : j \in jobs} /\ \A j \in jobs : j.at # "queue" /\ j \in Jobs
      BY DEF PipeSecond, PipeInv, PipeTypeOK
    <2>2. \A j \in Jobs : a(j).at = j.at
      BY DEF Jobs
    <2> HIDE DEF a
    <2> QED
      BY <2>1, <2>2 DEF Queued
  <1> DEFINE s == seen[r]
             d == dueIn[m]
  <1>2. s \in 0..(FreshFor + 1) /\ d \in 0..CheckEvery /\ d > 0
    BY DEF PipeSecond, PipeInv, PipeTypeOK
  <1>3. seen'[r] = (IF s > FreshFor THEN s ELSE s + 1) /\ dueIn'[m] = d - 1
    BY DEF PipeSecond
  <1>4. seen'[r] \in 0..(FreshFor + 1) /\ dueIn'[m] \in 0..CheckEvery
    BY DEF PipeInv, PipeTypeOK
  <1>5. Ahead(seen'[r], dueIn'[m]) = Ahead(s, d)
    <2>1. CASE s <= FreshFor
      <3>1. seen'[r] = s + 1
        BY <1>2, <1>3, <2>1, PipeNumbers
      <3> HIDE DEF s, d
      <3>2. Ahead(s + 1, d - 1) = Ahead(s, d)
        BY <1>2, <2>1, AheadFacts
      <3> QED
        BY <1>3, <3>1, <3>2
    <2>2. CASE s > FreshFor
      <3>1. seen'[r] = s
        BY <1>3, <2>2
      <3>2. Ahead(s, d) = 0
        BY <1>2, <2>2, AheadFacts
      <3>3. Ahead(s, d - 1) = 0
        BY <1>2, <1>3, <1>4, <2>2, AheadFacts
      <3> QED
        BY <1>3, <3>1, <3>2, <3>3
    <2> QED
      BY <1>2, <2>1, <2>2, PipeNumbers
  <1>6. Ahead(s, d) \in Nat
    BY <1>2, AheadFacts
  <1>7. Ahead(seen'[r], dueIn'[m]) \in Nat /\ Ahead(seen'[r], dueIn'[m]) <= Ahead(seen[r], dueIn[m])
    BY <1>5, <1>6
  <1> QED
    BY <1>1, <1>6, <1>7, ShareDown

\* A job discarded is one check of its monitor's share.
LEMMA WastedShare ==
    ASSUME PipeInv, QueueInv, WasteInv, ShareOK, ShareOK', NEW j \in jobs, j.at = "queue",
           j.node \notin online, jobs' = jobs \ {j},
           wasted' = [wasted EXCEPT ![j.node] = @ + 1], UNCHANGED <<seen, dueIn>>
    PROVE  wasted'[j.node] + SumFunction(Share(j.node)') <= Cardinality(Checks) * MaxShare
  <1> DEFINE r == j.node
             f == Share(r)
             g == Share(r)'
             N == Cardinality(Checks) * MaxShare
             x == j.mon
  <1>1. j \in Jobs /\ r \in Nodes /\ x \in Checks
    BY DEF PipeInv, PipeTypeOK, Jobs
  <1>2. f \in [Checks -> Int] /\ g \in [Checks -> Int] /\ wasted[r] \in Nat
    BY <1>1 DEF ShareOK, PipeInv, PipeTypeOK
  <1>3. wasted[r] + SumFunction(f) <= N
    BY <1>1 DEF WasteInv
  <1>4. \A m \in Checks : Ahead(seen'[r], dueIn'[m]) = Ahead(seen[r], dueIn[m])
                           /\ Ahead(seen[r], dueIn[m]) \in Nat
    BY <1>1, AheadNats
  <1>5. Queued(r, x) /\ ~Queued(r, x)'
    <2>1. Queued(r, x)
      BY DEF Queued
    <2>2. ASSUME NEW k \in jobs, k.at = "queue", k.mon = x, k.node = r PROVE k = j
      <3>1. k.age = 0 /\ j.age = 0 /\ k \in Jobs /\ j \in Jobs
        BY <2>2 DEF QueueInv, PipeInv, PipeTypeOK
      <3> QED
        BY <2>2, <3>1 DEF Jobs
    <2> QED
      BY <2>1, <2>2 DEF Queued
  <1>6. \A m \in Checks \ {x} : Queued(r, m)' <=> Queued(r, m)
    BY DEF Queued
  <1>7. /\ \A m \in Checks : f[m] = (IF Queued(r, m) THEN 1 ELSE 0) + Ahead(seen[r], dueIn[m])
        /\ \A m \in Checks : g[m] = (IF Queued(r, m)' THEN 1 ELSE 0) + Ahead(seen[r], dueIn[m])
    BY <1>1, <1>4 DEF ShareOK, Ahead
  <1>8. g[x] = f[x] - 1 /\ \A m \in Checks \ {x} : g[m] = f[m]
    <2> DEFINE a == Ahead(seen[r], dueIn[x])
    <2>1. f[x] = 1 + a /\ g[x] = 0 + a /\ a \in Nat
      BY <1>1, <1>4, <1>5, <1>7
    <2> HIDE DEF a, f, g
    <2>2. g[x] = f[x] - 1
      BY <2>1
    <2> QED
      BY <1>6, <1>7, <2>2
  <1>9. wasted'[r] = wasted[r] + 1
    BY <1>1 DEF PipeInv, PipeTypeOK
  <1>10. IsFiniteSet(Checks) /\ N \in Int
    <2>1. IsFiniteSet(Checks)
      BY PipeNumbers
    <2>2. MaxShare \in Nat
      BY PipeNumbers, DivMod DEF MaxShare
    <2>3. Cardinality(Checks) \in Nat
      BY <2>1, FS_CardinalityType
    <2> QED
      BY <2>1, <2>2, <2>3
  <1> HIDE DEF f, g, N, x
  <1>11. SumFunction(g) = SumFunction(f) + (g[x] - f[x]) /\ SumFunction(f) \in Int
    BY <1>1, <1>2, <1>8, <1>10, SumChange, SumType
  <1>12. f[x] \in Int
    BY <1>1, <1>2
  <1> DEFINE w == wasted[r]
             v == wasted'[r]
  <1>13. w \in Nat /\ v = w + 1 /\ w + SumFunction(f) <= N
    BY <1>2, <1>3, <1>9
  <1> HIDE DEF w, v
  <1>14. v + SumFunction(g) <= N
    BY <1>8, <1>10, <1>11, <1>12, <1>13
  <1> QED
    BY <1>14 DEF v, g, N

\* Where a node's last ping, the monitors' times and its queued jobs stay.
LEMMA QuietShares ==
    ASSUME PipeInv, ShareOK, ShareOK', NEW r \in Nodes, seen'[r] = seen[r], UNCHANGED dueIn,
           \A k \in jobs' : k.at = "queue" => k \in jobs
    PROVE  \A m \in Checks : Share(r)'[m] <= Share(r)[m]
  <1> SUFFICES ASSUME NEW m \in Checks PROVE Share(r)'[m] <= Share(r)[m]
    OBVIOUS
  <1>1. Queued(r, m)' => Queued(r, m)
    BY DEF Queued
  <1>2. Ahead(seen[r], dueIn[m]) \in Nat
    BY AheadNats
  <1>3. Ahead(seen'[r], dueIn'[m]) = Ahead(seen[r], dueIn[m])
    OBVIOUS
  <1> QED
    BY <1>1, <1>2, <1>3, ShareDown

\* A dispatch to a node that is gone is paid for by its share.
LEMMA WasteStep ==
    PipeInv /\ PipeInv' /\ QueueInv /\ QueueInv' /\ WasteInv /\ [PipeNext]_pipeVars => WasteInv'
  <1> SUFFICES ASSUME PipeInv, PipeInv', QueueInv, QueueInv', WasteInv, [PipeNext]_pipeVars,
                      NEW r \in Nodes
               PROVE  /\ r \in online' => wasted'[r] = 0
                      /\ r \notin online' => wasted'[r] + SumFunction(Share(r)')
                                               <= Cardinality(Checks) * MaxShare
    BY DEF WasteInv
  <1>1. ShareOK /\ ShareOK'
    BY ShareBound, ShareBoundNext
  <1> DEFINE Goal == /\ r \in online' => wasted'[r] = 0
                     /\ r \notin online' => wasted'[r] + SumFunction(Share(r)')
                                              <= Cardinality(Checks) * MaxShare
  <1>2. ASSUME r \in online => wasted'[r] = wasted[r], r \in online' => r \in online,
               r \notin online => wasted'[r] = wasted[r]
                                    /\ \A m \in Checks : Share(r)'[m] <= Share(r)[m]
        PROVE  Goal
    <2>1. r \in online => wasted'[r] = 0
      BY <1>2 DEF WasteInv
    <2>2. CASE r \in online
      BY <1>1, <2>1, <2>2, TotalStarts
    <2>3. CASE r \notin online
      BY <1>1, <1>2, <2>3, TotalStays
    <2> QED
      BY <2>2, <2>3
  <1>3. CASE PipeSecond
    BY <1>1, <1>2, <1>3, SecondShares DEF PipeSecond
  <1>4. CASE ScheduleTick
    BY <1>1, <1>2, <1>4, TickShares DEF ScheduleTick
  <1>5. CASE Reboot
    <2>1. \A m \in Checks : Share(r)'[m] <= Share(r)[m]
      <3> SUFFICES ASSUME NEW m \in Checks PROVE Share(r)'[m] <= Share(r)[m]
        OBVIOUS
      <3>1. Queued(r, m)' => Queued(r, m)
        BY <1>5 DEF Queued, Reboot
      <3>2. seen'[r] = FreshFor + 1 /\ dueIn'[m] \in 0..CheckEvery
        BY <1>5 DEF Reboot, PipeInv, PipeTypeOK
      <3>3. FreshFor + 1 \in 0..(FreshFor + 1) /\ FreshFor + 1 > FreshFor
        BY PipeNumbers
      <3>4. Ahead(FreshFor + 1, dueIn'[m]) = 0
        BY <3>2, <3>3, AheadFacts
      <3>5. Ahead(seen[r], dueIn[m]) \in Nat
        BY AheadNats
      <3>6. Ahead(seen'[r], dueIn'[m]) \in Nat /\ Ahead(seen'[r], dueIn'[m]) <= Ahead(seen[r], dueIn[m])
        BY <3>2, <3>4, <3>5
      <3> QED
        BY <1>1, <3>1, <3>5, <3>6, ShareDown
    <2> QED
      BY <1>2, <1>5, <2>1 DEF Reboot
  <1>6. ASSUME NEW s \in Nodes, Dial(s) \/ HangUp(s) \/ Ping(s) PROVE Goal
    <2>0. UNCHANGED dueIn /\ \A k \in jobs' : k.at = "queue" => k \in jobs
      BY <1>6 DEF Dial, HangUp, Ping
    <2>1. CASE Dial(s) /\ s = r
      <3>1. r \in online' /\ wasted'[r] = 0
        BY <2>1 DEF Dial, PipeInv, PipeTypeOK
      <3> QED
        BY <3>1
    <2>2. CASE s # r \/ ~Dial(s)
      <3>1. wasted'[r] = wasted[r] /\ (r \in online' => r \in online)
        BY <1>6, <2>2 DEF Dial, HangUp, Ping, PipeInv, PipeTypeOK
      <3>2. r \notin online => seen'[r] = seen[r]
        BY <1>6 DEF Dial, HangUp, Ping, Track, PipeInv, PipeTypeOK
      <3> QED
        BY <1>1, <1>2, <2>0, <3>1, <3>2, QuietShares
    <2> QED
      BY <2>1, <2>2
  <1>7. ASSUME NEW j \in jobs, ConsumeJob(j) PROVE Goal
    <2>0. j \in Jobs /\ UNCHANGED <<dueIn, online, seen>> /\ j.at = "queue"
      BY <1>7 DEF ConsumeJob, PipeInv, PipeTypeOK
    <2>1. \A k \in jobs' : k.at = "queue" => k \in jobs
      <3>1. jobs' \in {jobs \ {j}, Moved(j, "buffer")}
        BY <1>7 DEF ConsumeJob
      <3>2. [j EXCEPT !.at = "buffer"].at = "buffer"
        BY <2>0 DEF Jobs
      <3> QED
        BY <3>1, <3>2 DEF Moved
    <2>2. \A m \in Checks : Share(r)'[m] <= Share(r)[m]
      BY <1>1, <2>0, <2>1, QuietShares
    <2>3. CASE j.node \in online \/ j.node # r
      <3>1. wasted'[r] = wasted[r] \/ (r = j.node /\ j.node \notin online)
        BY <1>7 DEF ConsumeJob, PipeInv, PipeTypeOK
      <3> QED
        BY <1>2, <2>0, <2>2, <2>3, <3>1
    <2>4. CASE j.node \notin online /\ j.node = r
      <3>1. jobs' = jobs \ {j} /\ wasted' = [wasted EXCEPT ![j.node] = @ + 1]
        BY <1>7, <2>4 DEF ConsumeJob
      <3> QED
        BY <1>1, <2>0, <2>4, <3>1, WastedShare
    <2> QED
      BY <2>3, <2>4
  <1>8. ASSUME NEW j \in jobs, SendJob(j) \/ Answer(j) PROVE Goal
    <2>1. UNCHANGED <<dueIn, online, seen, wasted>> /\ jobs' \in {jobs \ {j}, Moved(j, "miner")}
      BY <1>8 DEF SendJob, Answer, RefuseNonce, RefuseSignature, RateFails,
         RefuseRate, RefuseLatency, PublishAnswer, Reported
    <2>2. \A k \in jobs' : k.at = "queue" => k \in jobs
      <3>1. [j EXCEPT !.at = "miner"].at = "miner"
        BY DEF PipeInv, PipeTypeOK, Jobs
      <3> QED
        BY <2>1, <3>1 DEF Moved
    <2> QED
      BY <1>1, <1>2, <2>1, <2>2, QuietShares
  <1>9. CASE UNCHANGED pipeVars
    BY <1>1, <1>2, <1>9, QuietShares DEF pipeVars
  <1> QED
    BY <1>3, <1>4, <1>5, <1>6, <1>7, <1>8, <1>9 DEF PipeNext

(* A node whose stream has ended stays fresh for FreshFor seconds, and the *)
(* scheduler goes on giving it checks that the consumer discards: however  *)
(* hang-ups, pings, ticks and the queue interleave, no more than one per   *)
(* monitor and interval, and one.                                          *)
THEOREM WasteIsBounded == PipeSpec => []WasteBounded
  <1>1. PipeInit => PipeInv /\ QueueInv /\ WasteInv
    <2> SUFFICES ASSUME PipeInit PROVE PipeInv /\ QueueInv /\ WasteInv
      OBVIOUS
    <2>1. PipeInv /\ QueueInv
      BY PipeStart DEF PipeInit, QueueInv
    <2>2. ASSUME NEW r \in Nodes
          PROVE  wasted[r] + SumFunction(Share(r)) <= Cardinality(Checks) * MaxShare
      <3> DEFINE g == Share(r)
      <3>1. g \in [Checks -> Int] /\ \A m \in Checks : g[m] <= MaxShare
        BY <2>1, ShareBound DEF ShareOK
      <3>2. MaxShare \in Nat /\ IsFiniteSet(Checks)
        BY PipeNumbers, DivMod DEF MaxShare
      <3> HIDE DEF g
      <3>3. SumFunction(g) <= Cardinality(Checks) * MaxShare /\ SumFunction(g) \in Int
        BY <3>1, <3>2, SumBound, SumType
      <3>4. wasted[r] = 0
        BY DEF PipeInit
      <3>5. wasted[r] + SumFunction(g) = SumFunction(g)
        BY <3>3, <3>4
      <3> QED
        BY <3>3, <3>5 DEF g
    <2>3. online = {}
      BY DEF PipeInit
    <2> QED
      BY <2>1, <2>2, <2>3 DEF WasteInv
  <1>2. PipeInv /\ QueueInv /\ WasteInv => WasteBounded
    <2> SUFFICES ASSUME PipeInv, QueueInv, WasteInv, NEW r \in Nodes
                 PROVE  wasted[r] <= Cardinality(Checks) * MaxShare
      BY DEF WasteBounded, MaxShare
    <2>1. MaxShare \in Nat /\ IsFiniteSet(Checks)
      BY PipeNumbers, DivMod DEF MaxShare
    <2>2. Cardinality(Checks) * MaxShare \in Nat
      <3>1. Cardinality(Checks) \in Nat
        BY <2>1, FS_CardinalityType
      <3> QED
        BY <2>1, <3>1
    <2>3. CASE r \in online
      BY <2>2, <2>3 DEF WasteInv
    <2>4. CASE r \notin online
      <3> DEFINE g == Share(r)
                 N == Cardinality(Checks) * MaxShare
      <3>1. g \in [Checks -> Nat]
        <4>1. \A m \in Checks : g[m] \in Nat
          <5> SUFFICES ASSUME NEW m \in Checks PROVE g[m] \in Nat
            OBVIOUS
          <5>1. Ahead(seen[r], dueIn[m]) \in Nat
            BY AheadNats
          <5> QED
            BY <5>1 DEF Share
        <4> QED
          BY <4>1 DEF Share
      <3>2. wasted[r] + SumFunction(g) <= N /\ wasted[r] \in Nat
        BY <2>4 DEF WasteInv, PipeInv, PipeTypeOK
      <3> HIDE DEF g, N
      <3>3. SumFunction(g) \in Nat
        BY <2>1, <3>1, SumNat
      <3>4. N \in Nat
        BY <2>2 DEF N
      <3>5. wasted[r] <= N
        BY <3>2, <3>3, <3>4
      <3> QED
        BY <3>5 DEF N
    <2> QED
      BY <2>3, <2>4
  <1> QED
    BY <1>1, <1>2, PipeStep, QueueStep, WasteStep, PTL DEF PipeSpec
=============================================================================
