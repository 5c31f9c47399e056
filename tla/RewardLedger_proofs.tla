------------------------- MODULE RewardLedger_proofs -------------------------
(***************************************************************************)
(* What the settlement ledger promises, for every set of users, monitors   *)
(* and runners, every stake, every starting credit and every threshold.    *)
(***************************************************************************)
EXTENDS RewardLedger, Lemmas

\* A check earns at least one base reward and at most five (ere.sql: the
\* multiplier is 1 without stake and is cut off at 5).
LEMMA RewardRange ==
    ASSUME NEW s \in Nat
    PROVE  /\ Reward(s) \in Nat
           /\ Reward(s) >= 100 * BaseReward
           /\ Reward(s) <= 500 * BaseReward
  BY DEF Reward, Multiplier, BaseReward, RewardCap

\* Booked gives no event, or one that pays the whole new balance to the runner.
LEMMA BookedShape ==
    ASSUME NEW r \in Runners, NEW bal \in Nat
    PROVE  /\ Booked(r, bal, Stake[r]) \in Seq(PayoutEvents)
           /\ Pays(bal, Stake[r]) =>
                Booked(r, bal, Stake[r]) =
                  <<[runner |-> r, amount |-> NewBalance(bal, Stake[r])]>>
           /\ ~ Pays(bal, Stake[r]) => Booked(r, bal, Stake[r]) = <<>>
  <1>1. Stake[r] \in Nat
    BY LedgerConstants
  <1>2. NewBalance(bal, Stake[r]) \in Nat
    BY <1>1, RewardRange DEF NewBalance
  <1>3. [runner |-> r, amount |-> NewBalance(bal, Stake[r])] \in PayoutEvents
    BY <1>2 DEF PayoutEvents
  <1> QED
    BY <1>3 DEF Booked

\* The balance left off chain is a number, and it is below the threshold or 0.
LEMMA CarriedRange ==
    ASSUME NEW r \in Runners, NEW bal \in Nat
    PROVE  /\ Carried(bal, Stake[r]) \in Nat
           /\ Carried(bal, Stake[r]) = 0 \/ Carried(bal, Stake[r]) < Threshold
  <1>1. Stake[r] \in Nat
    BY LedgerConstants
  <1> QED
    BY <1>1, RewardRange, LedgerConstants DEF Carried, Pays, NewBalance

\* A committed settlement leaves every column with its type: in particular no
\* credit balance is ever driven below zero by concurrent checks.
LEMMA SettleTypeOK ==
    ASSUME LedgerTypeOK, NEW m \in Monitors, NEW r \in Runners, Settle(m, r)
    PROVE  LedgerTypeOK'
  <1> USE DEF LedgerTypeOK, Settle
  <1>0. /\ Owner[m] \in Users
        /\ Stake[r] \in Nat
        /\ Reward(Stake[r]) \in Nat
    BY LedgerConstants, RewardRange
  <1>1. credit' \in [Users -> Nat]
    <2>1. credit[Owner[m]] \in Nat /\ credit[Owner[m]] - 1 \in Nat
      BY <1>0 DEF HasCredit
    <2> QED
      BY <2>1, <1>0
  <1>2. spent' \in [Monitors -> Nat]
    BY DEF MeteredUsage, TokenCost
  <1>3. accrued' \in [Runners -> Nat]
    BY CarriedRange
  <1>4. earned' \in [Runners -> Nat]
    BY <1>0
  <1>5. events' \in Seq(PayoutEvents)
    BY BookedShape, ConcatProperties
  <1> QED
    BY <1>1, <1>2, <1>3, <1>4, <1>5

\* Every state of the ledger is well typed; credits never go negative.
THEOREM LedgerTypeCorrect == LedgerSpec => []LedgerTypeOK
  <1>1. LedgerInit => LedgerTypeOK
    BY LedgerConstants, EmptySeq DEF LedgerInit, LedgerTypeOK
  <1>2. LedgerTypeOK /\ [LedgerNext]_ledger => LedgerTypeOK'
    <2> SUFFICES ASSUME LedgerTypeOK, [LedgerNext]_ledger PROVE LedgerTypeOK'
      OBVIOUS
    <2>1. CASE LedgerNext
      BY <2>1, SettleTypeOK DEF LedgerNext
    <2>2. CASE UNCHANGED ledger
      BY <2>2 DEF ledger, LedgerTypeOK
    <2> QED
      BY <2>1, <2>2
  <1> QED
    BY <1>1, <1>2, PTL DEF LedgerSpec

\* No balance waits at or above the threshold after a committed settlement.
THEOREM LedgerPaysWhenDue == LedgerSpec => []PaidWhenDue
  <1>1. LedgerInit => PaidWhenDue
    BY DEF LedgerInit, PaidWhenDue
  <1>2. LedgerTypeOK /\ PaidWhenDue /\ [LedgerNext]_ledger => PaidWhenDue'
    <2> SUFFICES ASSUME LedgerTypeOK, PaidWhenDue, [LedgerNext]_ledger
                 PROVE  PaidWhenDue'
      OBVIOUS
    <2>1. ASSUME NEW m \in Monitors, NEW r \in Runners, Settle(m, r)
          PROVE  PaidWhenDue'
      BY <2>1, CarriedRange DEF Settle, PaidWhenDue, LedgerTypeOK
    <2>2. CASE UNCHANGED ledger
      BY <2>2 DEF ledger, PaidWhenDue
    <2> QED
      BY <2>1, <2>2 DEF LedgerNext
  <1> QED
    BY <1>1, <1>2, LedgerTypeCorrect, PTL DEF LedgerSpec

\* One settlement appends at most the one event that pays the new balance.
LEMMA SettleEvents ==
    ASSUME LedgerTypeOK, NEW m \in Monitors, NEW r \in Runners, Settle(m, r)
    PROVE  /\ ~ Pays(accrued[r], Stake[r]) => events' = events
           /\ Pays(accrued[r], Stake[r]) =>
                /\ Len(events') = Len(events) + 1
                /\ \A i \in 1..Len(events) : events'[i] = events[i]
                /\ events'[Len(events) + 1] =
                     [runner |-> r, amount |-> NewBalance(accrued[r], Stake[r])]
  <1>1. accrued[r] \in Nat
    BY DEF LedgerTypeOK
  <1>2. ASSUME ~ Pays(accrued[r], Stake[r])
        PROVE  events' = events
    BY <1>1, <1>2, BookedShape, ConcatEmptySeq DEF Settle, LedgerTypeOK
  <1>3. ASSUME Pays(accrued[r], Stake[r])
        PROVE  /\ Len(events') = Len(events) + 1
               /\ \A i \in 1..Len(events) : events'[i] = events[i]
               /\ events'[Len(events) + 1] =
                    [runner |-> r, amount |-> NewBalance(accrued[r], Stake[r])]
    <2> DEFINE e == [runner |-> r, amount |-> NewBalance(accrued[r], Stake[r])]
    <2>1. events' = events \o <<e>>
      BY <1>1, <1>3, BookedShape DEF Settle
    <2>2. events \in Seq(PayoutEvents)
      BY DEF LedgerTypeOK
    <2> HIDE DEF e
    <2>3. Len(events') = Len(events) + 1 /\ events'[Len(events) + 1] = e
      BY <2>1, <2>2
    <2>4. \A i \in 1..Len(events) : events'[i] = events[i]
      BY <2>1, <2>2
    <2> QED
      BY <2>3, <2>4 DEF e
  <1> QED
    BY <1>2, <1>3

\* Every booked payout reaches the threshold and exceeds it by less than the
\* largest reward: no balance is paid out twice or carried past a payout.
THEOREM LedgerPayoutsInRange == LedgerSpec => []PayoutsInRange
  <1>1. LedgerInit => PayoutsInRange
    BY DEF LedgerInit, PayoutsInRange
  <1>2. LedgerTypeOK /\ PaidWhenDue /\ PayoutsInRange /\ [LedgerNext]_ledger
          => PayoutsInRange'
    <2> SUFFICES ASSUME LedgerTypeOK, PaidWhenDue, PayoutsInRange,
                        [LedgerNext]_ledger
                 PROVE  PayoutsInRange'
      OBVIOUS
    <2>1. ASSUME NEW m \in Monitors, NEW r \in Runners, Settle(m, r)
          PROVE  PayoutsInRange'
      <3>1. accrued[r] \in Nat /\ Stake[r] \in Nat /\ Threshold \in Nat
            /\ Len(events) \in Nat
        BY LedgerConstants, LenProperties DEF LedgerTypeOK
      <3>2. CASE ~ Pays(accrued[r], Stake[r])
        BY <3>2, <2>1, SettleEvents DEF PayoutsInRange
      <3>3. CASE Pays(accrued[r], Stake[r])
        <4>1. NewBalance(accrued[r], Stake[r]) >= Threshold
          BY <3>3 DEF Pays
        <4>2. NewBalance(accrued[r], Stake[r]) < Threshold + 500 * BaseReward
                \/ Threshold = 0
          <5>1. Reward(Stake[r]) \in Nat /\ Reward(Stake[r]) <= 500 * BaseReward
            BY <3>1, RewardRange
          <5>2. accrued[r] = 0 \/ accrued[r] < Threshold
            BY DEF PaidWhenDue
          <5> QED
            BY <5>1, <5>2, <3>1 DEF NewBalance, BaseReward
        <4>3. /\ Len(events') = Len(events) + 1
              /\ \A i \in 1..Len(events) : events'[i] = events[i]
              /\ events'[Len(events) + 1] =
                   [runner |-> r, amount |-> NewBalance(accrued[r], Stake[r])]
          BY <3>3, <2>1, SettleEvents
        <4>4. \A i \in 1..Len(events') : i \in 1..Len(events) \/ i = Len(events) + 1
          BY <4>3, <3>1
        <4> QED
          BY <4>1, <4>2, <4>3, <4>4 DEF PayoutsInRange
      <3> QED
        BY <3>2, <3>3
    <2>2. CASE UNCHANGED ledger
      BY <2>2 DEF ledger, PayoutsInRange
    <2> QED
      BY <2>1, <2>2 DEF LedgerNext
  <1> QED
    BY <1>1, <1>2, LedgerTypeCorrect, LedgerPaysWhenDue, PTL DEF LedgerSpec

\* Conservation, step by step: a token earned is kept off chain or booked in
\* the same transaction, and no booked event ever changes.
THEOREM LedgerConserves == LedgerSpec => StepsConserveRewards
  <1>1. LedgerTypeOK /\ [LedgerNext]_ledger => [ConservingStep]_ledger
    <2> SUFFICES ASSUME LedgerTypeOK,
                        NEW m \in Monitors, NEW r \in Runners, Settle(m, r)
                 PROVE  ConservingStep
      BY DEF LedgerNext
    <2>1. accrued[r] \in Nat /\ earned[r] \in Nat /\ Stake[r] \in Nat
          /\ Len(events) \in Nat
      BY LedgerConstants, LenProperties DEF LedgerTypeOK
    <2>2. \A q \in Runners \ {r} : earned'[q] = earned[q] /\ accrued'[q] = accrued[q]
      BY DEF Settle, LedgerTypeOK
    <2>3. /\ earned'[r] = earned[r] + Reward(Stake[r])
          /\ accrued'[r] = Carried(accrued[r], Stake[r])
      BY DEF Settle, LedgerTypeOK
    <2>4. Reward(Stake[r]) \in Nat
      BY <2>1, RewardRange
    <2>5. \A q \in Runners : accrued[q] \in Nat /\ earned[q] \in Nat
      BY DEF LedgerTypeOK
    <2>6. CASE ~ Pays(accrued[r], Stake[r])
      <3>1. events' = events
        BY <2>6, SettleEvents
      <3>2. \A q \in Runners : BookedInStep(q) = 0
        BY <3>1, <2>1 DEF BookedInStep
      <3> QED
        BY <3>1, <3>2, <2>1, <2>2, <2>3, <2>4, <2>5, <2>6
           DEF ConservingStep, Carried, NewBalance
    <2>7. CASE Pays(accrued[r], Stake[r])
      <3>1. /\ Len(events') = Len(events) + 1
            /\ \A i \in 1..Len(events) : events'[i] = events[i]
            /\ events'[Len(events')].runner = r
            /\ events'[Len(events')].amount = NewBalance(accrued[r], Stake[r])
        <4>1. /\ Len(events') = Len(events) + 1
              /\ \A i \in 1..Len(events) : events'[i] = events[i]
              /\ events'[Len(events) + 1] =
                   [runner |-> r, amount |-> NewBalance(accrued[r], Stake[r])]
          BY <2>7, SettleEvents
        <4> QED
          BY <4>1
      <3>2. \A q \in Runners : BookedInStep(q) =
              IF q = r THEN NewBalance(accrued[r], Stake[r]) ELSE 0
        BY <3>1, <2>1 DEF BookedInStep
      <3>3. \A q \in Runners :
              earned'[q] - earned[q] = accrued'[q] - accrued[q] + BookedInStep(q)
        BY <3>2, <2>1, <2>2, <2>3, <2>4, <2>5, <2>7 DEF Carried, NewBalance
      <3> QED
        BY <3>1, <3>3 DEF ConservingStep
    <2> QED
      BY <2>6, <2>7
  <1> QED
    BY <1>1, LedgerTypeCorrect, PTL DEF LedgerSpec, StepsConserveRewards

-----------------------------------------------------------------------------
(* Sums over all settlements.                                              *)

\* The amounts of payout events.
LEMMA AmountsAreNumbers ==
    ASSUME NEW s \in Seq(PayoutEvents)
    PROVE  Len(s) \in Nat /\ \A i \in 1..Len(s) : s[i].amount \in Nat
  <1>1. Len(s) \in Nat /\ \A i \in 1..Len(s) : s[i] \in PayoutEvents
    BY LenProperties
  <1> QED
    BY <1>1 DEF PayoutEvents

\* What is booked to a runner grows by what the step books.
LEMMA BookedGrows ==
    ASSUME LedgerTypeOK, LedgerTypeOK', ConservingStep, NEW r \in Runners
    PROVE  /\ BookedTo(r) \in Int /\ BookedInStep(r) \in Int
           /\ BookedTo(r)' = BookedTo(r) + BookedInStep(r)
  <1> DEFINE n == Len(events)
             k == Len(events')
             f == Payouts(r)
             g == [i \in 1..k |-> IF events'[i].runner = r THEN events'[i].amount ELSE 0]
             N == 1..n
  <1>1. n \in Nat /\ k \in {n, n + 1} /\ \A i \in N : events'[i] = events[i]
    BY LenProperties DEF LedgerTypeOK, ConservingStep
  <1>2. f \in [N -> Int] /\ g \in [1..k -> Int]
    BY AmountsAreNumbers DEF LedgerTypeOK, Payouts
  <1>3. \A i \in N : g[i] = f[i]
    BY <1>1 DEF Payouts
  <1>4. BookedTo(r) = SumFunction(f) /\ BookedTo(r)' = SumFunction(g)
    BY DEF BookedTo, Payouts
  <1>5. BookedInStep(r) = IF k > n THEN g[k] ELSE 0
    BY <1>1 DEF BookedInStep
  <1>6. IsFiniteSet(N) /\ n + 1 \notin N
    BY <1>1, FS_Interval
  <1>7. CASE k = n
    <2>1. f = g
      BY <1>2, <1>3, <1>7
    <2>2. SumFunction(f) \in Int
      <3> HIDE DEF f, N
      <3> QED
        BY <1>2, <1>6, SumType
    <2>3. BookedInStep(r) = 0
      BY <1>1, <1>5, <1>7
    <2> HIDE DEF f, g
    <2> QED
      BY <1>4, <2>1, <2>2, <2>3
  <1>8. CASE k = n + 1
    <2> DEFINE K == 1..k
    <2>1. N = K \ {k} /\ k \in K
      BY <1>1, <1>8
    <2>2. g \in [K -> Int] /\ g[k] \in Int
      BY <1>2, <2>1
    <2>3. BookedInStep(r) = g[k]
      BY <1>1, <1>5, <1>8
    <2> HIDE DEF f, g, N, K, k
    <2>4. SumFunction(f) \in Int
      BY <1>2, <1>6, SumType
    <2>5. SumFunction(g) = SumFunction(f) + g[k]
      BY <1>2, <1>3, <1>6, <2>1, <2>2, SumExtend
    <2> QED
      BY <1>4, <2>2, <2>3, <2>4, <2>5
  <1> QED
    BY <1>1, <1>7, <1>8

(* No token is made or lost over any number of settlements: what a runner  *)
(* earned it still holds off chain or it is booked for payment.            *)
THEOREM LedgerRewardsConserved == LedgerSpec => []RewardsConserved
  <1>1. LedgerInit => RewardsConserved
    <2> SUFFICES ASSUME LedgerInit, NEW r \in Runners PROVE earned[r] = accrued[r] + BookedTo(r)
      BY DEF RewardsConserved
    <2> DEFINE f == Payouts(r)
    <2>1. f \in [{} -> Int] /\ IsFiniteSet({})
      BY FS_EmptySet DEF LedgerInit, Payouts
    <2>2. SumFunction(f) = 0
      <3> HIDE DEF f
      <3> QED
        BY <2>1, SumType
    <2> QED
      BY <2>2 DEF LedgerInit, BookedTo
  <1>2. LedgerTypeOK /\ LedgerTypeOK' /\ RewardsConserved /\ [ConservingStep]_ledger
          => RewardsConserved'
    <2> SUFFICES ASSUME LedgerTypeOK, LedgerTypeOK', RewardsConserved,
                        [ConservingStep]_ledger, NEW r \in Runners
                 PROVE  earned'[r] = accrued'[r] + BookedTo(r)'
      BY DEF RewardsConserved
    <2>1. CASE UNCHANGED ledger
      BY <2>1 DEF ledger, RewardsConserved, BookedTo, Payouts
    <2>2. CASE ConservingStep
      <3> DEFINE b == BookedTo(r)
                 c == BookedTo(r)'
                 d == BookedInStep(r)
      <3>1. /\ b \in Int /\ d \in Int /\ c = b + d
            /\ earned'[r] - earned[r] = accrued'[r] - accrued[r] + d
            /\ earned[r] = accrued[r] + b
        BY <2>2, BookedGrows DEF ConservingStep, RewardsConserved
      <3>2. /\ earned[r] \in Nat /\ earned'[r] \in Nat
            /\ accrued[r] \in Nat /\ accrued'[r] \in Nat
        BY DEF LedgerTypeOK
      <3> HIDE DEF b, c, d
      <3>3. earned'[r] = accrued'[r] + c
        BY <3>1, <3>2
      <3> QED
        BY <3>3 DEF c
    <2> QED
      BY <2>1, <2>2
  <1>3. LedgerSpec => [][ConservingStep]_ledger
    BY LedgerConserves DEF StepsConserveRewards
  <1> QED
    BY <1>1, <1>2, <1>3, LedgerTypeCorrect, PTL DEF LedgerSpec

\* One more reward is one more settlement.
LEMMA OneMoreReward ==
    ASSUME NEW a \in Nat, NEW b \in Nat, b > 0
    PROVE  (a + b) \div b = (a \div b) + 1
  OBVIOUS

\* A reward is a positive number, for every stake.
LEMMA RewardPositive ==
    \A r \in Runners : Reward(Stake[r]) \in Nat /\ Reward(Stake[r]) > 0
  BY LedgerConstants, RewardRange DEF BaseReward

\* The terms of the sums, before and after a step.
LEMMA TermsAreIntegers ==
    ASSUME LedgerTypeOK, LedgerTypeOK'
    PROVE  /\ charged \in [Users -> Int] /\ charged' \in [Users -> Int]
           /\ rewarded \in [Runners -> Int] /\ rewarded' \in [Runners -> Int]
           /\ \A u \in Users : Usage(u) \in [Monitors -> Int] /\ Usage(u)' \in [Monitors -> Int]
  <1>1. charged \in [Users -> Int] /\ charged' \in [Users -> Int]
    BY LedgerConstants DEF LedgerTypeOK, charged
  <1>2. \A r \in Runners : /\ earned[r] \div Reward(Stake[r]) \in Int
                           /\ earned'[r] \div Reward(Stake[r]) \in Int
    BY RewardPositive DEF LedgerTypeOK
  <1>3. rewarded \in [Runners -> Int] /\ rewarded' \in [Runners -> Int]
    BY <1>2 DEF rewarded
  <1>4. \A u \in Users : Usage(u) \in [Monitors -> Int] /\ Usage(u)' \in [Monitors -> Int]
    BY DEF Usage, LedgerTypeOK
  <1> QED
    BY <1>1, <1>3, <1>4

\* One settlement charges one credit, meters one check and rewards one runner.
LEMMA SettleBalances ==
    ASSUME LedgerTypeOK, LedgerTypeOK', ChargesMatchRewards,
           NEW m \in Monitors, NEW r \in Runners, Settle(m, r)
    PROVE  ChargesMatchRewards'
  <1> DEFINE o == Owner[m]
  <1>0. /\ o \in Users /\ IsFiniteSet(Users) /\ IsFiniteSet(Monitors) /\ IsFiniteSet(Runners)
    BY LedgerConstants
  <1>1. /\ charged \in [Users -> Int] /\ charged' \in [Users -> Int]
        /\ rewarded \in [Runners -> Int] /\ rewarded' \in [Runners -> Int]
    BY TermsAreIntegers
  <1>2. charged'[o] = charged[o] + 1 /\ \A u \in Users \ {o} : charged'[u] = charged[u]
    <2>1. /\ credit'[o] = credit[o] - 1 /\ credit[o] \in Nat /\ InitCredit[o] \in Nat
          /\ \A u \in Users \ {o} : credit'[u] = credit[u]
      BY <1>0, LedgerConstants DEF Settle, LedgerTypeOK
    <2> QED
      BY <1>0, <2>1 DEF charged
  <1>3. rewarded'[r] = rewarded[r] + 1 /\ \A q \in Runners \ {r} : rewarded'[q] = rewarded[q]
    <2>1. earned[r] \in Nat /\ Reward(Stake[r]) \in Nat /\ Reward(Stake[r]) > 0
      BY RewardPositive DEF LedgerTypeOK
    <2>2. (earned[r] + Reward(Stake[r])) \div Reward(Stake[r]) = (earned[r] \div Reward(Stake[r])) + 1
      BY <2>1, OneMoreReward
    <2> QED
      BY <2>2 DEF rewarded, Settle, LedgerTypeOK
  <1>4. SumFunction(charged') = SumFunction(rewarded')
    <2>1. SumFunction(charged) \in Int /\ SumFunction(rewarded) \in Int
      BY <1>0, <1>1, SumType
    <2>2. SumFunction(charged') = SumFunction(charged) + (charged'[o] - charged[o])
      BY <1>0, <1>1, <1>2, SumChange
    <2>3. SumFunction(rewarded') = SumFunction(rewarded) + (rewarded'[r] - rewarded[r])
      BY <1>0, <1>1, <1>3, SumChange
    <2>4. charged'[o] - charged[o] = 1 /\ rewarded'[r] - rewarded[r] = 1
      BY <1>0, <1>1, <1>2, <1>3
    <2> QED
      BY <2>1, <2>2, <2>3, <2>4 DEF ChargesMatchRewards
  <1>5. ASSUME NEW u \in Users PROVE TokenCost * charged'[u] = SumFunction(Usage(u)')
    <2> DEFINE f == Usage(u)
               g == Usage(u)'
    <2>1. f \in [Monitors -> Int] /\ g \in [Monitors -> Int]
      BY TermsAreIntegers
    <2>2. CASE u # o
      <3>1. f = g /\ charged'[u] = charged[u]
        BY <1>2, <2>2 DEF Usage, Settle, LedgerTypeOK
      <3> QED
        BY <3>1 DEF ChargesMatchRewards
    <2>3. CASE u = o
      <3>1. g[m] - f[m] = TokenCost /\ \A n \in Monitors \ {m} : g[n] = f[n]
        BY <2>3 DEF Usage, Settle, MeteredUsage, TokenCost, LedgerTypeOK
      <3>2. TokenCost * charged[u] = SumFunction(f)
        BY DEF ChargesMatchRewards
      <3> HIDE DEF f, g
      <3>3. SumFunction(g) = SumFunction(f) + (g[m] - f[m]) /\ SumFunction(f) \in Int
        BY <1>0, <2>1, <3>1, SumChange, SumType
      <3>4. charged[u] \in Int /\ charged'[u] = charged[u] + 1
        BY <1>1, <1>2, <2>3
      <3>5. TokenCost * charged'[u] = SumFunction(g)
        BY <3>1, <3>2, <3>3, <3>4 DEF TokenCost
      <3> QED
        BY <3>5 DEF g
    <2> QED
      BY <2>2, <2>3
  <1> QED
    BY <1>4, <1>5 DEF ChargesMatchRewards

(* Whatever the order of the settlements, the credits taken from an owner  *)
(* are the checks its monitors were billed for, and as many rewards were   *)
(* given as credits taken.                                                 *)
THEOREM LedgerChargesMatch == LedgerSpec => []ChargesMatchRewards
  <1>1. LedgerInit => ChargesMatchRewards
    <2> SUFFICES ASSUME LedgerInit PROVE ChargesMatchRewards
      OBVIOUS
    <2>0. IsFiniteSet(Users) /\ IsFiniteSet(Monitors) /\ IsFiniteSet(Runners)
      BY LedgerConstants
    <2>1. LedgerTypeOK
      BY LedgerConstants, EmptySeq DEF LedgerInit, LedgerTypeOK
    <2>2. SumFunction(charged) = 0 /\ \A u \in Users : charged[u] = 0
      <3>1. charged \in [Users -> Int] /\ \A u \in Users : charged[u] = 0
        BY LedgerConstants DEF LedgerInit, charged
      <3> QED
        BY <2>0, <3>1, SumType
    <2>3. SumFunction(rewarded) = 0
      <3>2. \A r \in Runners : 0 \div Reward(Stake[r]) = 0
        BY RewardPositive
      <3>3. rewarded \in [Runners -> Int] /\ \A r \in Runners : rewarded[r] = 0
        BY <3>2 DEF LedgerInit, rewarded
      <3> QED
        BY <2>0, <3>3, SumType
    <2>4. ASSUME NEW u \in Users PROVE SumFunction(Usage(u)) = 0
      <3> DEFINE f == Usage(u)
      <3>1. f \in [Monitors -> Int] /\ \A m \in Monitors : f[m] = 0
        BY DEF LedgerInit, Usage
      <3> HIDE DEF f
      <3>2. SumFunction(f) = 0
        BY <2>0, <3>1, SumType
      <3> QED
        BY <3>2 DEF f
    <2> QED
      BY <2>2, <2>3, <2>4 DEF ChargesMatchRewards, TokenCost
  <1>2. /\ LedgerTypeOK /\ LedgerTypeOK' /\ ChargesMatchRewards /\ [LedgerNext]_ledger
        => ChargesMatchRewards'
    <2> SUFFICES ASSUME LedgerTypeOK, LedgerTypeOK', ChargesMatchRewards, [LedgerNext]_ledger
                 PROVE  ChargesMatchRewards'
      OBVIOUS
    <2>1. CASE LedgerNext
      BY <2>1, SettleBalances DEF LedgerNext
    <2>2. CASE UNCHANGED ledger
      BY <2>2 DEF ledger, ChargesMatchRewards, charged, rewarded, Usage
    <2> QED
      BY <2>1, <2>2
  <1> QED
    BY <1>1, <1>2, LedgerTypeCorrect, PTL DEF LedgerSpec
=============================================================================
