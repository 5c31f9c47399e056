----------------------------- MODULE PartitionCron -----------------------------
(***************************************************************************)
(* The weekly partitions of ping_logs (workers/partition_cron.go).         *)
(*                                                                         *)
(* Time is counted in days; day 0 is a Monday and the first day of year 0, *)
(* and a year has YearLen days, which is no multiple of seven.  A run of   *)
(* ensurePartitions takes two statements per week and may last over one    *)
(* midnight (CREATE TABLE waits for the inserts in ping_logs).  The cron   *)
(* is a goroutine of the process, which Backend starts and stops.          *)
(***************************************************************************)
EXTENDS Integers, FiniteSets

CONSTANTS
    YearLen,
    WeeksAhead,   \* 4
    LastDay       \* the clock stops here

ASSUME CronConstants ==
    /\ YearLen \in Nat /\ YearLen > 14
    /\ WeeksAhead \in Nat \ {0}
    /\ LastDay \in Nat /\ LastDay >= 6

VARIABLES
    today,
    tables,       \* partitions: name and first day
    indexed,      \* names of those with an index
    cron,         \* "off", "running", "sleeping"
    monday,       \* the Monday ensurePartitions started from
    week,         \* its loop variable
    stmt,         \* its next statement
    midnights,    \* that passed during the run
    runAt,        \* the day time.After fires
    missed,       \* runs in a row that failed (history)
    late          \* weeks by which the last complete run ended late;
                  \* None before this process has completed one (history)

cronVars == <<today, tables, indexed, cron, monday, week, stmt, midnights, runAt, missed, late>>

None == -1

-----------------------------------------------------------------------------
(* The calendar, as package time computes it.                              *)

Weekday(d) == (d + 1) % 7          \* Sunday is 0

\* Forgetting that Sunday ends the week.
ISOWeekday_Sunday(d) == Weekday(d)

ISOWeekday(d) == IF Weekday(d) = 0 THEN 7 ELSE Weekday(d)

Monday(d) == d - (ISOWeekday(d) - 1)

\* 0 on a Monday stays 0.
NextMonday_Same(d) == d + ((8 - ISOWeekday(d)) % 7)

NextMonday(d) ==
    LET days == (8 - ISOWeekday(d)) % 7 IN d + (IF days = 0 THEN 7 ELSE days)

\* The year and week of the Thursday.
ISOWeek(d) ==
    LET thursday == Monday(d) + 3
    IN  <<thursday \div YearLen, (thursday % YearLen) \div 7 + 1>>

\* The calendar year with the ISO week.
TableName_Year(from) == <<from \div YearLen, ISOWeek(from)[2]>>

TableName(from) == ISOWeek(from)

-----------------------------------------------------------------------------

Covers(t, d) == t.from <= d /\ d < t.from + 7

From == monday + 7 * week          \* the week the loop is at

\* schema.sql creates the partitions of the first weeks.
CronInit ==
    /\ today \in 0..6
    /\ tables = {[name |-> TableName(0), from |-> 0]}
    /\ indexed = {TableName(0)}
    /\ cron = "off" /\ monday = 0 /\ week = 0 /\ stmt = "table"
    /\ midnights = 0 /\ runAt = 0 /\ missed = 0 /\ late = None

StartRun ==
    /\ cron' = "running" /\ monday' = Monday(today) /\ week' = 0 /\ stmt' = "table"
    /\ midnights' = 0

\* The goroutine starts with a run.
StartCron ==
    /\ StartRun
    /\ UNCHANGED <<today, tables, indexed, runAt, missed, late>>

\* The goroutine is gone, and its variables with it.
StopCron ==
    /\ cron' = "off" /\ monday' = 0 /\ week' = 0 /\ stmt' = "table" /\ midnights' = 0
    /\ runAt' = 0 /\ missed' = 0 /\ late' = None
    /\ UNCHANGED <<today, tables, indexed>>

Wake ==
    /\ cron = "sleeping" /\ today = runAt
    /\ StartRun
    /\ UNCHANGED <<today, tables, indexed, runAt, missed, late>>

\* The loop sleeps until nextMonday, whatever the run has brought.
Sleep ==
    /\ cron' = "sleeping" /\ runAt' = NextMonday(today)
    /\ week' = 0 /\ stmt' = "table" /\ midnights' = 0

\* CREATE TABLE IF NOT EXISTS asks for the name only.
CreateTable ==
    /\ cron = "running" /\ stmt = "table"
    /\ tables' = IF \E t \in tables : t.name = TableName(From) THEN tables
                 ELSE tables \cup {[name |-> TableName(From), from |-> From]}
    /\ stmt' = "index"
    /\ UNCHANGED <<today, indexed, cron, monday, week, midnights, runAt, missed, late>>

Done == week + 1 = WeeksAhead

CreateIndex ==
    /\ cron = "running" /\ stmt = "index"
    /\ indexed' = indexed \cup {TableName(From)}
    /\ \/ /\ ~Done
          /\ week' = week + 1 /\ stmt' = "table"
          /\ UNCHANGED <<cron, midnights, runAt, missed, late>>
       \/ /\ Done
          /\ Sleep
          /\ missed' = 0
          /\ late' = (Monday(today) - monday) \div 7
    /\ UNCHANGED <<today, tables, monday>>

\* A statement fails: the error is logged and the later weeks are left out.
RunFails ==
    /\ cron = "running"
    /\ Sleep
    /\ missed' = missed + 1
    /\ UNCHANGED <<today, tables, indexed, monday, late>>

\* External: the clock.  A timer that is due fires in its day.
NextDay ==
    /\ today < LastDay
    /\ cron = "sleeping" => today # runAt
    /\ cron = "running" => midnights = 0
    /\ today' = today + 1
    /\ midnights' = IF cron = "running" THEN 1 ELSE midnights
    /\ UNCHANGED <<tables, indexed, cron, monday, week, stmt, runAt, missed, late>>

CronStep == CreateTable \/ CreateIndex \/ Wake

-----------------------------------------------------------------------------
(* Properties.                                                             *)

(* Rows of today can be inserted into ping_logs as long as the cron has    *)
(* once completed a run and then missed fewer than WeeksAhead - 1 runs in  *)
(* a row (one fewer if the complete run lasted into the next week): the    *)
(* "insert fails because partition doesn't exist" of partition_cron.go:14  *)
(* needs that many failures, also over the end of a year.                  *)
CurrentWeekCovered ==
    cron # "off" /\ late # None /\ missed + late < WeeksAhead - 1 =>
        \E t \in tables : Covers(t, today)

(* After a complete run all its weeks have their partition, under the name *)
(* of that week and with an index, whatever an earlier run, which failed   *)
(* or died between two statements, has left behind.                        *)
RunLeavesWeeks ==
    cron = "sleeping" /\ late # None /\ missed = 0 =>
        \A i \in 0..(WeeksAhead - 1) :
            LET from == monday + 7 * i IN
            /\ [name |-> TableName(from), from |-> from] \in tables
            /\ TableName(from) \in indexed
=============================================================================
