----------------------------- MODULE RewardLedger -----------------------------
(***************************************************************************)
(* The promise of the settlement transaction, as one atomic step.          *)
(*                                                                         *)
(* Storage.ProcessJobSettlement (db/repositories/storage.go) charges the   *)
(* owner of a monitor one credit, adds the token cost to the monitor's     *)
(* usage and runs create_payout_event_if_threshold (ere.sql), which        *)
(* rewards the runner and books a payout event when the balance reaches    *)
(* the threshold.  All of it is one PostgreSQL transaction; this module    *)
(* is what a caller may rely on, and SettlementTx shows that the           *)
(* statement-by-statement transaction implements it.                       *)
(*                                                                         *)
(* Tokens are counted in millionths.  Every reward the SQL computes is a   *)
(* multiple of 0.0001 token (0.010 * 0.01), so the NUMERIC(12,4) columns   *)
(* hold it exactly and integers model it exactly.                          *)
(***************************************************************************)
EXTENDS Integers, Sequences, FiniteSets, Functions

CONSTANTS
    Users,       \* rows of users
    Monitors,    \* rows of monitors
    Runners,     \* rows of runner_nodes, named by owner_pubkey
    Owner,       \* monitors.owner_id
    Stake,       \* runner_nodes.staked_amount, as stored
    InitCredit,  \* users.credit_balance when the system starts
    Threshold    \* cfg.RewardThreshold, in millionths of a token

ASSUME LedgerConstants ==
    /\ Owner \in [Monitors -> Users]
    /\ Stake \in [Runners -> Nat]
    /\ InitCredit \in [Users -> Nat]
    /\ Threshold \in Nat
    /\ IsFiniteSet(Users) /\ IsFiniteSet(Monitors) /\ IsFiniteSet(Runners)

VARIABLES
    credit,      \* users.credit_balance
    spent,       \* monitors.total_spent_tokens
    accrued,     \* runner_nodes.offchain_accumulated_tokens
    earned,      \* runner_nodes.total_earned_tokens_all_time
    events       \* solana_sync_events, in insertion order

ledger == <<credit, spent, accrued, earned, events>>

-----------------------------------------------------------------------------
(* The reward engine of ere.sql.                                           *)

TokenCost == 10000

BaseReward == 100

RewardCap == 500000

\* A multiplier that forgets the ceiling of 5.
Multiplier_NoCeiling(s) == IF s < 20 THEN 100 ELSE 150 + (s - 20)

\* Hundredths: 1.5 plus 0.01 per unit of stake from 20 on, at most 5.
Multiplier(s) ==
    IF s < 20 THEN 100 ELSE IF s > 370 THEN 500 ELSE 150 + (s - 20)

\* The cap of 0.50 is never reached: 5 times the base reward is 0.05.
Reward(s) ==
    IF BaseReward * Multiplier(s) > RewardCap
    THEN RewardCap
    ELSE BaseReward * Multiplier(s)

NewBalance(bal, s) == bal + Reward(s)

\* A threshold that must be exceeded.
Pays_Strict(bal, s) == NewBalance(bal, s) > Threshold

Pays(bal, s) == NewBalance(bal, s) >= Threshold

\* The rule of schema.sql's older function: what exceeds the threshold stays.
Carried_Overflow(bal, s) ==
    IF Pays(bal, s) THEN NewBalance(bal, s) - Threshold ELSE NewBalance(bal, s)

\* What is left off chain: the whole balance is paid out, not the threshold.
Carried(bal, s) == IF Pays(bal, s) THEN 0 ELSE NewBalance(bal, s)

\* A payout event worth the threshold, not the balance.
Booked_Threshold(r, bal, s) ==
    IF Pays(bal, s) THEN <<[runner |-> r, amount |-> Threshold]>> ELSE <<>>

Booked(r, bal, s) ==
    IF Pays(bal, s) THEN <<[runner |-> r, amount |-> NewBalance(bal, s)]>>
                    ELSE <<>>

-----------------------------------------------------------------------------

LedgerInit ==
    /\ credit  = InitCredit
    /\ spent   = [m \in Monitors |-> 0]
    /\ accrued = [r \in Runners |-> 0]
    /\ earned  = [r \in Runners |-> 0]
    /\ events  = <<>>

\* A deduction without its WHERE clause.
HasCredit_Unchecked(u) == TRUE

\* The WHERE clause of the deduction: without a credit nothing is settled.
HasCredit(u) == credit[u] > 0

\* A usage counter that is set instead of increased.
MeteredUsage_Set(m) == TokenCost

MeteredUsage(m) == spent[m] + TokenCost

\* One committed ProcessJobSettlement for monitor m and runner r.
Settle(m, r) ==
    /\ HasCredit(Owner[m])
    /\ credit'  = [credit EXCEPT ![Owner[m]] = @ - 1]
    /\ spent'   = [spent EXCEPT ![m] = MeteredUsage(m)]
    /\ accrued' = [accrued EXCEPT ![r] = Carried(accrued[r], Stake[r])]
    /\ earned'  = [earned EXCEPT ![r] = earned[r] + Reward(Stake[r])]
    /\ events'  = events \o Booked(r, accrued[r], Stake[r])

LedgerNext == \E m \in Monitors, r \in Runners : Settle(m, r)

LedgerSpec == LedgerInit /\ [][LedgerNext]_ledger

-----------------------------------------------------------------------------
(* What the ledger promises.                                               *)

PayoutEvents == [runner : Runners, amount : Nat]

\* The type invariant: no credit balance, counter or reward is ever negative (the
\* guard of the deduction in storage.go), and events are runner and amount.
LedgerTypeOK ==
    /\ credit \in [Users -> Nat]
    /\ spent \in [Monitors -> Nat]
    /\ accrued \in [Runners -> Nat]
    /\ earned \in [Runners -> Nat]
    /\ events \in Seq(PayoutEvents)

\* Off-chain balances never sit at or above the threshold: reaching it books a
\* payout in the same transaction (ere.sql, the CASE of the UPDATE and the
\* INSERT below it).  A threshold of 0, which env.Load yields for an unreadable
\* REWARD_THRESHOLD, leaves every balance at 0.
PaidWhenDue == \A r \in Runners : accrued[r] = 0 \/ accrued[r] < Threshold

\* Every payout event is worth the threshold at least, and exceeds it by less
\* than five base rewards, the most one check can earn: a runner is never paid
\* for the same balance twice, whatever its stake.
PayoutsInRange ==
    \A i \in 1..Len(events) :
        /\ events[i].amount >= Threshold
        /\ events[i].amount < Threshold + 500 * BaseReward \/ Threshold = 0

Payouts(r) ==
    [i \in 1..Len(events) |-> IF events[i].runner = r THEN events[i].amount ELSE 0]

BookedTo(r) == SumFunction(Payouts(r))

\* No token is made or lost: what a runner ever earned is what it still holds
\* off chain plus what was booked for payment.
RewardsConserved == \A r \in Runners : earned[r] = accrued[r] + BookedTo(r)

charged == [u \in Users |-> InitCredit[u] - credit[u]]

Usage(u) == [m \in Monitors |-> IF Owner[m] = u THEN spent[m] ELSE 0]

rewarded == [r \in Runners |-> earned[r] \div Reward(Stake[r])]

\* The credits an owner lost are the checks its monitors were billed for, and
\* every one of them rewarded exactly one runner.
ChargesMatchRewards ==
    /\ \A u \in Users : TokenCost * charged[u] = SumFunction(Usage(u))
    /\ SumFunction(charged) = SumFunction(rewarded)

\* The amount a step books for r: events are only ever appended, one at a time.
BookedInStep(r) ==
    IF Len(events') > Len(events) /\ events'[Len(events')].runner = r
    THEN events'[Len(events')].amount
    ELSE 0

ConservingStep ==
    /\ Len(events') \in {Len(events), Len(events) + 1}
    /\ \A i \in 1..Len(events) : events'[i] = events[i]
    /\ \A r \in Runners :
         earned'[r] - earned[r] = accrued'[r] - accrued[r] + BookedInStep(r)

\* Step by step: whatever a runner gains is kept off chain or booked in the same
\* transaction, a balance never changes otherwise, and no booked event is ever
\* altered.  RewardsConserved is the sum of these steps.
StepsConserveRewards == [][ConservingStep]_ledger
=============================================================================
