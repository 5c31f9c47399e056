------------------------- MODULE SettlementTx_proofs -------------------------
(***************************************************************************)
(* The settlement transaction implements the atomic ledger, for every set  *)
(* of callers.  The inductive invariant is TxInv: the types and            *)
(* NoStaleRead, which says that the uncommitted rows of a transaction      *)
(* agree with the committed ones it holds locked.                          *)
(***************************************************************************)
EXTENDS SettlementTx, RewardLedger_proofs

TxInv == TxTypeOK /\ NoStaleRead

\* The rows that transaction w has locked are not changed by a step, nor is
\* anything of its own.
RowsKept(w) ==
    /\ pc'[w] = pc[w] /\ job'[w] = job[w] /\ buf'[w] = buf[w]
    /\ HasCharged(w) =>
         /\ userLock'[Owner[job[w].m]] = userLock[Owner[job[w].m]]
         /\ credit'[Owner[job[w].m]] = credit[Owner[job[w].m]]
    /\ HasMetered(w) =>
         /\ monLock'[job[w].m] = monLock[job[w].m]
         /\ spent'[job[w].m] = spent[job[w].m]
    /\ HasRewarded(w) =>
         /\ runLock'[job[w].r] = runLock[job[w].r]
         /\ accrued'[job[w].r] = accrued[job[w].r]
         /\ earned'[job[w].r] = earned[job[w].r]

\* What NoStaleRead says of one transaction.
FreshRows(w) ==
    /\ HasCharged(w) => FreshCharge(w)
    /\ HasMetered(w) => FreshUsage(w)
    /\ HasRewarded(w) => FreshReward(w)

\* A step that keeps the rows of w keeps what w computed from them up to date.
LEMMA KeptRowsStayFresh ==
    ASSUME NEW w \in Workers, FreshRows(w), RowsKept(w)
    PROVE  FreshRows(w)'
  <1>1. HasCharged(w)' => FreshCharge(w)'
    BY DEF FreshRows, RowsKept, HasCharged, FreshCharge, HasCredit
  <1>2. HasMetered(w)' => FreshUsage(w)'
    BY DEF FreshRows, RowsKept, HasMetered, FreshUsage, MeteredUsage
  <1>3. HasRewarded(w)' => FreshReward(w)'
    BY DEF FreshRows, RowsKept, HasRewarded, FreshReward
  <1> QED
    BY <1>1, <1>2, <1>3 DEF FreshRows

\* Giving locks back leaves a lock table.
LEMMA UnlockedTypes ==
    ASSUME NEW S, NEW lock \in [S -> Workers \cup {Free}], NEW v \in Workers
    PROVE  Unlocked(lock, v) \in [S -> Workers \cup {Free}]
  BY DEF Unlocked

\* Ending a transaction (commit, rollback, crash) returns its own locks only.
LEMMA EndTxLocks ==
    ASSUME TxTypeOK, NEW v \in Workers, EndTx(v)
    PROVE  /\ \A u \in Users : userLock[u] # v => userLock'[u] = userLock[u]
           /\ \A m \in Monitors : monLock[m] # v => monLock'[m] = monLock[m]
           /\ \A r \in Runners : runLock[r] # v => runLock'[r] = runLock[r]
  <1>1. \A u \in Users : userLock[u] # v => userLock'[u] = userLock[u]
    BY DEF EndTx, ReleaseLocks, Unlocked, TxTypeOK
  <1>2. \A m \in Monitors : monLock[m] # v => monLock'[m] = monLock[m]
    BY DEF EndTx, ReleaseLocks, Unlocked, TxTypeOK
  <1>3. \A r \in Runners : runLock[r] # v => runLock'[r] = runLock[r]
    BY DEF EndTx, ReleaseLocks, Unlocked, TxTypeOK
  <1> QED
    BY <1>1, <1>2, <1>3

\* Ending a transaction keeps the types, if its writes did.
LEMMA EndTxTypes ==
    ASSUME TxTypeOK, NEW v \in Workers, EndTx(v), LedgerTypeOK'
    PROVE  TxTypeOK'
  <1>1. EmptyBuf \in [credit : Nat, spent : Nat, accrued : Nat,
                      earned : Nat, booked : Seq(PayoutEvents)]
    BY EmptySeq DEF EmptyBuf
  <1>2. /\ userLock' \in [Users -> Workers \cup {Free}]
        /\ monLock' \in [Monitors -> Workers \cup {Free}]
        /\ runLock' \in [Runners -> Workers \cup {Free}]
    BY UnlockedTypes DEF EndTx, ReleaseLocks, TxTypeOK
  <1> QED
    BY <1>1, <1>2 DEF EndTx, TxTypeOK

\* An end of transaction without a write keeps every other transaction's rows,
\* and the transaction itself holds nothing any more.
LEMMA EndTxFresh ==
    ASSUME TxInv, NEW v \in Workers, EndTx(v), UNCHANGED ledger
    PROVE  NoStaleRead'
  <1> SUFFICES ASSUME NEW w \in Workers PROVE FreshRows(w)'
    BY DEF NoStaleRead, FreshRows
  <1>0. FreshRows(w)
    BY DEF TxInv, NoStaleRead, FreshRows
  <1>1. CASE w = v
    BY <1>1 DEF FreshRows, HasCharged, HasMetered, HasRewarded, EndTx, TxInv, TxTypeOK
  <1>2. CASE w # v
    <2>1. pc'[w] = pc[w] /\ job'[w] = job[w] /\ buf'[w] = buf[w]
      BY <1>2 DEF EndTx, TxInv, TxTypeOK
    <2>2. HasCharged(w) => userLock'[Owner[job[w].m]] = userLock[Owner[job[w].m]]
      BY <1>0, <1>2, EndTxLocks, LedgerConstants DEF FreshRows, FreshCharge, TxInv
    <2>3. HasMetered(w) => HasCharged(w)
      BY DEF HasMetered, HasCharged
    <2>4. HasMetered(w) => monLock'[job[w].m] = monLock[job[w].m]
      BY <1>0, <1>2, <2>3, EndTxLocks DEF FreshRows, FreshCharge, FreshUsage, TxInv
    <2>5. HasRewarded(w) => runLock'[job[w].r] = runLock[job[w].r]
      BY <1>0, <1>2, EndTxLocks DEF FreshRows, FreshReward, TxInv
    <2> QED
      BY <1>0, <2>1, <2>2, <2>4, <2>5, KeptRowsStayFresh DEF RowsKept, ledger
  <1> QED
    BY <1>1, <1>2

\* tx.Commit of a transaction whose reads are fresh is the atomic Settle.
LEMMA CommitSettles ==
    ASSUME TxInv, NEW v \in Workers, Commit(v)
    PROVE  /\ job[v].m \in Monitors
           /\ job[v].r \in Runners
           /\ Settle(job[v].m, job[v].r)
  <1>1. FreshCharge(v) /\ FreshUsage(v) /\ FreshReward(v)
    BY DEF TxInv, NoStaleRead, Commit, HasCharged, HasMetered, HasRewarded
  <1> QED
    BY <1>1 DEF Commit, Settle, FreshCharge, FreshUsage, FreshReward

\* A commit writes only rows that the committing transaction has locked.
LEMMA CommitFresh ==
    ASSUME TxInv, NEW v \in Workers, Commit(v)
    PROVE  NoStaleRead'
  <1> SUFFICES ASSUME NEW w \in Workers PROVE FreshRows(w)'
    BY DEF NoStaleRead, FreshRows
  <1>0. FreshRows(w) /\ FreshCharge(v) /\ FreshUsage(v) /\ FreshReward(v)
    BY DEF TxInv, NoStaleRead, FreshRows, Commit, HasCharged, HasMetered, HasRewarded
  <1>1. CASE w = v
    BY <1>1 DEF FreshRows, HasCharged, HasMetered, HasRewarded, Commit, EndTx,
                TxInv, TxTypeOK
  <1>2. CASE w # v
    <2>1. pc'[w] = pc[w] /\ job'[w] = job[w] /\ buf'[w] = buf[w]
      BY <1>2 DEF Commit, EndTx, TxInv, TxTypeOK
    <2>2. ASSUME HasCharged(w)
          PROVE  /\ userLock'[Owner[job[w].m]] = userLock[Owner[job[w].m]]
                 /\ credit'[Owner[job[w].m]] = credit[Owner[job[w].m]]
      <3>1. /\ Owner[job[w].m] \in Users /\ Owner[job[v].m] \in Users
            /\ userLock[Owner[job[w].m]] = w /\ userLock[Owner[job[v].m]] = v
        BY <1>0, <2>2, LedgerConstants DEF FreshRows, FreshCharge
      <3>2. userLock'[Owner[job[w].m]] = userLock[Owner[job[w].m]]
        BY <3>1, <1>2, EndTxLocks DEF Commit, TxInv
      <3> QED
        BY <3>1, <3>2, <1>2 DEF Commit, TxInv, TxTypeOK, LedgerTypeOK
    <2>3. ASSUME HasMetered(w)
          PROVE  /\ monLock'[job[w].m] = monLock[job[w].m]
                 /\ spent'[job[w].m] = spent[job[w].m]
      <3>1. /\ job[w].m \in Monitors /\ job[v].m \in Monitors
            /\ monLock[job[w].m] = w /\ monLock[job[v].m] = v
        BY <1>0, <2>3 DEF FreshRows, FreshCharge, FreshUsage, HasCharged, HasMetered
      <3>2. monLock'[job[w].m] = monLock[job[w].m]
        BY <3>1, <1>2, EndTxLocks DEF Commit, TxInv
      <3> QED
        BY <3>1, <3>2, <1>2 DEF Commit, TxInv, TxTypeOK, LedgerTypeOK
    <2>4. ASSUME HasRewarded(w)
          PROVE  /\ runLock'[job[w].r] = runLock[job[w].r]
                 /\ accrued'[job[w].r] = accrued[job[w].r]
                 /\ earned'[job[w].r] = earned[job[w].r]
      <3>1. /\ job[w].r \in Runners /\ job[v].r \in Runners
            /\ runLock[job[w].r] = w /\ runLock[job[v].r] = v
        BY <1>0, <2>4 DEF FreshRows, FreshReward
      <3>2. runLock'[job[w].r] = runLock[job[w].r]
        BY <3>1, <1>2, EndTxLocks DEF Commit, TxInv
      <3> QED
        BY <3>1, <3>2, <1>2 DEF Commit, TxInv, TxTypeOK, LedgerTypeOK
    <2> QED
      BY <1>0, <2>1, <2>2, <2>3, <2>4, KeptRowsStayFresh DEF RowsKept
  <1> QED
    BY <1>1, <1>2
\* Every step keeps the types of the transaction's state.
LEMMA TxTypeStep ==
    ASSUME TxInv, [TxNext]_txVars
    PROVE  TxTypeOK'
  <1> USE DEF TxInv
  <1>1. ASSUME NEW v \in Workers, NEW m \in MonitorIds, NEW r \in RunnerKeys,
               Begin(v, m, r)
        PROVE  TxTypeOK'
    BY <1>1 DEF Begin, TxTypeOK, LedgerTypeOK, ledger
  <1>2. ASSUME NEW v \in Workers, DeductCredit(v)
        PROVE  TxTypeOK'
    <2>1. Owner[job[v].m] \in Users /\ credit[Owner[job[v].m]] - 1 \in Nat
      BY <1>2, LedgerConstants DEF DeductCredit, HasCredit, TxTypeOK, LedgerTypeOK
    <2> QED
      BY <1>2, <2>1 DEF DeductCredit, TxTypeOK, LedgerTypeOK, ledger
  <1>3. ASSUME NEW v \in Workers, UpdateMonitor(v)
        PROVE  TxTypeOK'
    <2>1. job[v].m \in Monitors
      BY <1>3 DEF UpdateMonitor, NoStaleRead, HasCharged, FreshCharge
    <2>2. MeteredUsage(job[v].m) \in Nat
      BY <2>1 DEF MeteredUsage, TokenCost, TxTypeOK, LedgerTypeOK
    <2> QED
      BY <1>3, <2>1, <2>2 DEF UpdateMonitor, TxTypeOK, LedgerTypeOK, ledger
  <1>4. ASSUME NEW v \in Workers, RewardRunner(v)
        PROVE  TxTypeOK'
    <2> DEFINE r == job[v].r
    <2>1. r \in Runners /\ accrued[r] \in Nat /\ earned[r] \in Nat /\ Stake[r] \in Nat
      BY <1>4, LedgerConstants DEF RewardRunner, TxTypeOK, LedgerTypeOK
    <2>2. /\ Carried(accrued[r], Stake[r]) \in Nat
          /\ earned[r] + Reward(Stake[r]) \in Nat
          /\ Booked(r, accrued[r], Stake[r]) \in Seq(PayoutEvents)
      <3> HIDE DEF r
      <3>1. Carried(accrued[r], Stake[r]) \in Nat
        BY <2>1, CarriedRange
      <3>2. Reward(Stake[r]) \in Nat
        BY <2>1, RewardRange
      <3>3. Booked(r, accrued[r], Stake[r]) \in Seq(PayoutEvents)
        BY <2>1, BookedShape
      <3> QED
        BY <2>1, <3>1, <3>2, <3>3
    <2> QED
      BY <1>4, <2>1, <2>2
         DEF RewardRunner, LockRunner, TxTypeOK, LedgerTypeOK, ledger
  <1>5. ASSUME NEW v \in Workers, EndTx(v), UNCHANGED ledger
        PROVE  TxTypeOK'
    <2>1. LedgerTypeOK'
      BY <1>5 DEF ledger, TxTypeOK, LedgerTypeOK
    <2> QED
      BY <1>5, <2>1, EndTxTypes
  <1>6. ASSUME NEW v \in Workers, Commit(v)
        PROVE  TxTypeOK'
    <2>1. LedgerTypeOK'
      BY <1>6, CommitSettles, SettleTypeOK DEF TxTypeOK
    <2> QED
      BY <1>6, <2>1, EndTxTypes DEF Commit
  <1>7. CASE UNCHANGED txVars
    BY <1>7 DEF txVars, txState, ledger, TxTypeOK, LedgerTypeOK
  <1> QED
    BY <1>1, <1>2, <1>3, <1>4, <1>5, <1>6, <1>7
       DEF TxNext, Advance, RefuseCharge, RefuseReward, Abort

\* A statement of v takes a free row, so the rows of every other transaction
\* stay as they are.
LEMMA StatementKeepsOthers ==
    ASSUME TxInv, NEW v \in Workers, NEW w \in Workers, w # v,
           \/ DeductCredit(v) \/ UpdateMonitor(v) \/ RewardRunner(v)
           \/ \E m \in MonitorIds, r \in RunnerKeys : Begin(v, m, r)
    PROVE  FreshRows(w)'
  <1>0. FreshRows(w) /\ w # Free
    BY TxConstants DEF TxInv, NoStaleRead, FreshRows
  <1>1. pc'[w] = pc[w] /\ job'[w] = job[w] /\ buf'[w] = buf[w] /\ UNCHANGED ledger
    BY DEF DeductCredit, UpdateMonitor, RewardRunner, Begin, TxInv, TxTypeOK
  <1>2. HasCharged(w) => userLock'[Owner[job[w].m]] = userLock[Owner[job[w].m]]
    BY <1>0, LedgerConstants DEF DeductCredit, UpdateMonitor, RewardRunner, Begin,
       FreshRows, FreshCharge, TxInv, TxTypeOK
  <1>3. HasMetered(w) => monLock'[job[w].m] = monLock[job[w].m]
    <2>1. HasMetered(w) => job[w].m \in Monitors /\ monLock[job[w].m] = w
      BY <1>0 DEF FreshRows, FreshCharge, FreshUsage, HasCharged, HasMetered
    <2> QED
      BY <1>0, <2>1 DEF DeductCredit, UpdateMonitor, RewardRunner, Begin, TxInv, TxTypeOK
  <1>4. HasRewarded(w) => runLock'[job[w].r] = runLock[job[w].r]
    BY <1>0 DEF DeductCredit, UpdateMonitor, RewardRunner, LockRunner, Begin,
       FreshRows, FreshReward, TxInv, TxTypeOK
  <1> QED
    BY <1>0, <1>1, <1>2, <1>3, <1>4, KeptRowsStayFresh DEF RowsKept, ledger

\* Every step keeps the reads of every transaction fresh.
LEMMA TxFreshStep ==
    ASSUME TxInv, [TxNext]_txVars
    PROVE  NoStaleRead'
  <1> USE DEF TxInv
  <1>1. ASSUME NEW v \in Workers, NEW m \in MonitorIds, NEW r \in RunnerKeys,
               Begin(v, m, r)
        PROVE  FreshRows(v)'
    BY <1>1 DEF Begin, FreshRows, HasCharged, HasMetered, HasRewarded, TxTypeOK
  <1>2. ASSUME NEW v \in Workers, DeductCredit(v)
        PROVE  FreshRows(v)'
    <2>1. Owner[job[v].m] \in Users
      BY <1>2, LedgerConstants DEF DeductCredit
    <2>2. FreshCharge(v)'
      BY <1>2, <2>1 DEF DeductCredit, FreshCharge, HasCredit, TxTypeOK, ledger
    <2> QED
      BY <1>2, <2>2 DEF DeductCredit, FreshRows, HasMetered, HasRewarded, TxTypeOK
  <1>3. ASSUME NEW v \in Workers, UpdateMonitor(v)
        PROVE  FreshRows(v)'
    <2>1. FreshCharge(v)
      BY <1>3 DEF UpdateMonitor, NoStaleRead, HasCharged
    <2>2. FreshCharge(v)'
      BY <1>3, <2>1 DEF UpdateMonitor, FreshCharge, HasCredit, TxTypeOK, ledger
    <2>3. FreshUsage(v)'
      BY <1>3, <2>1
         DEF UpdateMonitor, FreshCharge, FreshUsage, MeteredUsage, TxTypeOK, ledger
    <2> QED
      BY <1>3, <2>2, <2>3 DEF UpdateMonitor, FreshRows, HasRewarded, TxTypeOK
  <1>4. ASSUME NEW v \in Workers, RewardRunner(v)
        PROVE  FreshRows(v)'
    <2>1. FreshCharge(v) /\ FreshUsage(v)
      BY <1>4 DEF RewardRunner, NoStaleRead, HasCharged, HasMetered
    <2>2. FreshCharge(v)'
      BY <1>4, <2>1 DEF RewardRunner, FreshCharge, HasCredit, TxTypeOK, ledger
    <2>3. FreshUsage(v)'
      BY <1>4, <2>1 DEF RewardRunner, FreshUsage, MeteredUsage, TxTypeOK, ledger
    <2>4. FreshReward(v)'
      BY <1>4 DEF RewardRunner, LockRunner, FreshReward, TxTypeOK, ledger
    <2> QED
      BY <2>2, <2>3, <2>4 DEF FreshRows
  <1>5. ASSUME NEW v \in Workers,
               \/ DeductCredit(v) \/ UpdateMonitor(v) \/ RewardRunner(v)
               \/ \E m \in MonitorIds, r \in RunnerKeys : Begin(v, m, r)
        PROVE  NoStaleRead'
    <2>1. \A w \in Workers : FreshRows(w)'
      BY <1>5, <1>1, <1>2, <1>3, <1>4, StatementKeepsOthers
    <2> QED
      BY <2>1 DEF NoStaleRead, FreshRows
  <1>6. CASE UNCHANGED txVars
    BY <1>6 DEF txVars, txState, ledger, NoStaleRead, HasCharged, HasMetered,
       HasRewarded, FreshCharge, FreshUsage, FreshReward, HasCredit, MeteredUsage
  <1> QED
    BY <1>5, <1>6, EndTxFresh, CommitFresh
       DEF TxNext, Advance, RefuseCharge, RefuseReward, Abort

\* The inductive invariant holds in every state.
LEMMA TxInvariant == TxSpec => []TxInv
  <1>1. TxInit => TxInv
    <2> SUFFICES ASSUME TxInit PROVE TxInv
      OBVIOUS
    <2>1. LedgerTypeOK
      BY LedgerConstants, EmptySeq DEF TxInit, LedgerInit, LedgerTypeOK
    <2>2. TxTypeOK
      BY <2>1, EmptySeq DEF TxInit, TxTypeOK, EmptyBuf
    <2>3. NoStaleRead
      BY DEF TxInit, NoStaleRead, HasCharged, HasMetered, HasRewarded
    <2> QED
      BY <2>2, <2>3 DEF TxInv
  <1>2. TxInv /\ [TxNext]_txVars => TxInv'
    BY TxTypeStep, TxFreshStep DEF TxInv
  <1> QED
    BY <1>1, <1>2, PTL DEF TxSpec

\* Every state of the transaction is well typed; in particular no uncommitted
\* credit is ever negative.
THEOREM TxTypeCorrect == TxSpec => []TxTypeOK
  BY TxInvariant, PTL DEF TxInv

\* What a settlement has read stays true until it commits.
THEOREM TxReadsFresh == TxSpec => []NoStaleRead
  BY TxInvariant, PTL DEF TxInv

\* Interleaved statements, rollbacks and crashes of any number of concurrent
\* ProcessJobSettlement calls amount to atomic settlements.
THEOREM TxRefinesLedger == TxSpec => SettlesAtomically
  <1>1. TxInit => LedgerInit
    BY DEF TxInit
  <1>2. TxInv /\ [TxNext]_txVars => [LedgerNext]_ledger
    <2> SUFFICES ASSUME TxInv, TxNext PROVE [LedgerNext]_ledger
      BY DEF txVars
    <2>1. ASSUME NEW v \in Workers, Commit(v)
          PROVE  LedgerNext
      BY <2>1, CommitSettles DEF LedgerNext
    <2> QED
      BY <2>1 DEF TxNext, Advance, Begin, DeductCredit, RefuseCharge,
         UpdateMonitor, RewardRunner, RefuseReward, Abort
  <1> QED
    BY <1>1, <1>2, TxInvariant, PTL DEF TxSpec, LedgerSpec, SettlesAtomically

(* The books balance in every state between two statements of concurrent   *)
(* settlements: no reward is made or lost, no payout is late or early, and *)
(* every credit taken is a check billed and a runner rewarded.             *)
THEOREM TxKeepsTheBooks ==
    TxSpec => [](RewardsConserved /\ ChargesMatchRewards /\ PaidWhenDue /\ PayoutsInRange)
  BY TxRefinesLedger, LedgerRewardsConserved, LedgerChargesMatch, LedgerPaysWhenDue,
     LedgerPayoutsInRange, PTL DEF SettlesAtomically
=============================================================================
