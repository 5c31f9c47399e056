----------------------------- MODULE SettlementTx -----------------------------
(***************************************************************************)
(* Storage.ProcessJobSettlement, statement by statement.                   *)
(*                                                                         *)
(* Several callers run the transaction at the same time: every backend     *)
(* instance has its own result processor and pool.  A statement takes the  *)
(* lock of the row it writes and works on the row's last committed         *)
(* version (PostgreSQL, READ COMMITTED: a waiting UPDATE or SELECT ... FOR *)
(* UPDATE re-reads the row when it gets the lock); the locks are held      *)
(* until commit or rollback.  Uncommitted values are in buf.  The ledger's *)
(* variables are the committed rows, so the claim "this transaction is the *)
(* atomic Settle" is TxSpec => LedgerSpec.                                 *)
(***************************************************************************)
EXTENDS RewardLedger

CONSTANTS
    Workers,      \* callers of ProcessJobSettlement
    MonitorIds,   \* monitor ids a result may name, known or not
    RunnerKeys,   \* runner pubkeys a packet may name, known or not
    Free          \* a row nobody has locked

ASSUME TxConstants ==
    /\ Monitors \subseteq MonitorIds
    /\ Runners \subseteq RunnerKeys
    /\ Free \notin Workers

VARIABLES
    pc,           \* the last statement the caller has executed
    job,          \* the arguments monitorID and runnerPubkey
    buf,          \* the uncommitted row versions of the transaction
    userLock,     \* row locks of users
    monLock,      \*   of monitors
    runLock       \*   of runner_nodes

txState == <<pc, job, buf, userLock, monLock, runLock>>

txVars == <<ledger, txState>>

EmptyBuf == [credit |-> 0, spent |-> 0, accrued |-> 0, earned |-> 0, booked |-> <<>>]

TxInit ==
    /\ LedgerInit
    /\ pc = [w \in Workers |-> "idle"]
    /\ job \in [Workers -> [m : MonitorIds, r : RunnerKeys]]
    /\ buf = [w \in Workers |-> EmptyBuf]
    /\ userLock = [u \in Users |-> Free]
    /\ monLock = [m \in Monitors |-> Free]
    /\ runLock = [r \in Runners |-> Free]

-----------------------------------------------------------------------------

\* An end of transaction that keeps the locks, and one that drops everybody's.
Unlocked_Leaky(lock, w) == lock

Unlocked_All(lock, w) == [x \in DOMAIN lock |-> Free]

\* A transaction's end gives its locks back.
Unlocked(lock, w) == [x \in DOMAIN lock |-> IF lock[x] = w THEN Free ELSE lock[x]]

ReleaseLocks(w) ==
    /\ userLock' = Unlocked(userLock, w)
    /\ monLock' = Unlocked(monLock, w)
    /\ runLock' = Unlocked(runLock, w)

EndTx(w) ==
    /\ pc' = [pc EXCEPT ![w] = "idle"]
    /\ buf' = [buf EXCEPT ![w] = EmptyBuf]
    /\ ReleaseLocks(w)
    /\ UNCHANGED job

\* pool.Begin for one result of a packet.
Begin(w, m, r) ==
    /\ pc[w] = "idle"
    /\ pc' = [pc EXCEPT ![w] = "begun"]
    /\ job' = [job EXCEPT ![w] = [m |-> m, r |-> r]]
    /\ UNCHANGED <<ledger, buf, userLock, monLock, runLock>>

\* UPDATE users ... WHERE credit_balance > 0, once the owner's row is ours.
DeductCredit(w) ==
    LET m == job[w].m IN
    /\ pc[w] = "begun"
    /\ m \in Monitors
    /\ HasCredit(Owner[m])
    /\ userLock[Owner[m]] = Free
    /\ userLock' = [userLock EXCEPT ![Owner[m]] = w]
    /\ buf' = [buf EXCEPT ![w].credit = credit[Owner[m]] - 1]
    /\ pc' = [pc EXCEPT ![w] = "charged"]
    /\ UNCHANGED <<ledger, job, monLock, runLock>>

\* The UPDATE matched no row: "insufficient credits or monitor not found".
RefuseCharge(w) ==
    /\ pc[w] = "begun"
    /\ job[w].m \in Monitors => ~ HasCredit(Owner[job[w].m])
    /\ EndTx(w)
    /\ UNCHANGED ledger

\* UPDATE monitors SET total_spent_tokens = total_spent_tokens + $1.
UpdateMonitor(w) ==
    LET m == job[w].m IN
    /\ pc[w] = "charged"
    /\ monLock[m] = Free
    /\ monLock' = [monLock EXCEPT ![m] = w]
    /\ buf' = [buf EXCEPT ![w].spent = MeteredUsage(m)]
    /\ pc' = [pc EXCEPT ![w] = "metered"]
    /\ UNCHANGED <<ledger, job, userLock, runLock>>

\* The reward function without FOR UPDATE: it reads a row it does not hold.
LockRunner_Unlocked(w, r) == UNCHANGED runLock

\* SELECT ... FOR UPDATE of the runner's row.
LockRunner(w, r) ==
    /\ runLock[r] = Free
    /\ runLock' = [runLock EXCEPT ![r] = w]

\* create_payout_event_if_threshold: the row is locked by its SELECT before the
\* UPDATE and the INSERT, so the three act as one statement.
RewardRunner(w) ==
    LET r == job[w].r IN
    /\ pc[w] = "metered"
    /\ r \in Runners
    /\ LockRunner(w, r)
    /\ buf' = [buf EXCEPT ![w] = [@ EXCEPT
                  !.accrued = Carried(accrued[r], Stake[r]),
                  !.earned = earned[r] + Reward(Stake[r]),
                  !.booked = Booked(r, accrued[r], Stake[r])]]
    /\ pc' = [pc EXCEPT ![w] = "rewarded"]
    /\ UNCHANGED <<ledger, job, userLock, monLock>>

\* Runner not found: the function returns a NULL pubkey, Scan fails on it and
\* the deferred Rollback undoes the charge.
RefuseReward(w) ==
    /\ pc[w] = "metered"
    /\ job[w].r \notin Runners
    /\ EndTx(w)
    /\ UNCHANGED ledger

\* tx.Commit publishes every buffered row version and drops the locks.
Commit(w) ==
    LET m == job[w].m
        r == job[w].r
    IN
    /\ pc[w] = "rewarded"
    /\ credit'  = [credit EXCEPT ![Owner[m]] = buf[w].credit]
    /\ spent'   = [spent EXCEPT ![m] = buf[w].spent]
    /\ accrued' = [accrued EXCEPT ![r] = buf[w].accrued]
    /\ earned'  = [earned EXCEPT ![r] = buf[w].earned]
    /\ events'  = events \o buf[w].booked
    /\ EndTx(w)

\* A statement or the commit fails, the context ends or the process dies.
Abort(w) ==
    /\ pc[w] # "idle"
    /\ EndTx(w)
    /\ UNCHANGED ledger

Advance(w) ==
    \/ DeductCredit(w)
    \/ RefuseCharge(w)
    \/ UpdateMonitor(w)
    \/ RewardRunner(w)
    \/ RefuseReward(w)
    \/ Commit(w)

TxNext ==
    \E w \in Workers :
        \/ \E m \in MonitorIds, r \in RunnerKeys : Begin(w, m, r)
        \/ Advance(w)
        \/ Abort(w)

TxSpec == TxInit /\ [][TxNext]_txVars

\* A waiter gets the row lock when it comes free again and again: PostgreSQL
\* queues the waiters of a row.  Nothing is assumed about Begin or Abort.
FairTxSpec == TxSpec /\ \A w \in Workers : SF_txVars(Advance(w))

-----------------------------------------------------------------------------

\* The type invariant: committed rows as in the ledger, uncommitted versions in
\* buf never negative, and a row lock has one holder.
TxTypeOK ==
    /\ LedgerTypeOK
    /\ pc \in [Workers -> {"idle", "begun", "charged", "metered", "rewarded"}]
    /\ job \in [Workers -> [m : MonitorIds, r : RunnerKeys]]
    /\ buf \in [Workers -> [credit : Nat, spent : Nat, accrued : Nat,
                            earned : Nat, booked : Seq(PayoutEvents)]]
    /\ userLock \in [Users -> Workers \cup {Free}]
    /\ monLock \in [Monitors -> Workers \cup {Free}]
    /\ runLock \in [Runners -> Workers \cup {Free}]

HasCharged(w) == pc[w] \in {"charged", "metered", "rewarded"}

HasMetered(w) == pc[w] \in {"metered", "rewarded"}

HasRewarded(w) == pc[w] = "rewarded"

\* The charge is computed from the owner's committed credit, whose row is held.
FreshCharge(w) ==
    /\ job[w].m \in Monitors
    /\ userLock[Owner[job[w].m]] = w
    /\ HasCredit(Owner[job[w].m])
    /\ buf[w].credit = credit[Owner[job[w].m]] - 1

FreshUsage(w) ==
    /\ monLock[job[w].m] = w
    /\ buf[w].spent = MeteredUsage(job[w].m)

FreshReward(w) ==
    LET r == job[w].r IN
    /\ r \in Runners
    /\ runLock[r] = w
    /\ buf[w].accrued = Carried(accrued[r], Stake[r])
    /\ buf[w].earned = earned[r] + Reward(Stake[r])
    /\ buf[w].booked = Booked(r, accrued[r], Stake[r])

\* Nothing a transaction has read can change under it: until it ends it holds
\* every row it wrote, and its uncommitted versions are what the committed rows
\* give now, not what they gave when it read them.
NoStaleRead ==
    \A w \in Workers :
        /\ HasCharged(w) => FreshCharge(w)
        /\ HasMetered(w) => FreshUsage(w)
        /\ HasRewarded(w) => FreshReward(w)

\* Statements of concurrent settlements, rollbacks and crashes between them
\* amount to atomic settlements: no credit, usage or reward is ever lost to a
\* concurrent update, and no half of a settlement is ever visible.
SettlesAtomically == LedgerSpec

\* No settlement waits forever: rows are locked in the order users, monitors,
\* runner_nodes, so no circle of transactions can form.
SettlementEnds == \A w \in Workers : pc[w] # "idle" ~> pc[w] = "idle"
=============================================================================
