-------------------------- MODULE SolanaSync_proofs --------------------------
(***************************************************************************)
(* What a single payout worker guarantees, for every set of events, batch  *)
(* size and number of faults.  The inductive invariant UnpaidInv says      *)
(* where an event that may still be sent can be: PENDING, in the batch, or *)
(* current before the send; and that every such event has no payment in    *)
(* flight that the worker was told about.                                  *)
(***************************************************************************)
EXTENDS SolanaSync, TLAPS

\* Every transaction accepted for e was reported to the worker as an error.
Unpaid(e) == sent[e] <= unclear[e]

UnpaidInv ==
    /\ \A e \in Events :
         /\ sent[e] <= 1 + unclear[e]
         /\ landed[e] + pool[e] <= sent[e]
         /\ status[e] = "absent" => sent[e] = 0
         /\ status[e] \in {"absent", "PENDING"} => Unpaid(e)
    /\ \A w \in Workers :
         /\ \A e \in batch[w] : Unpaid(e) /\ status[e] # "absent"
         /\ pc[w] \in {"send", "again"} => Unpaid(cur[w])
         /\ pc[w] = "send" => status[cur[w]] = "PROCESSING"
         /\ pc[w] \in {"send", "done", "again"} =>
              cur[w] \notin batch[w] /\ status[cur[w]] # "absent"
    /\ ClearErrors => \A e \in Events : unclear[e] = 0

SyncInv == SyncTypeOK /\ UnpaidInv

\* A counter per event that counts one more stays a counter per event.
LEMMA CountOneMore ==
    ASSUME NEW f \in [Events -> Nat], NEW e \in Events
    PROVE  [f EXCEPT ![e] = @ + 1] \in [Events -> Nat]
  <1>1. f[e] + 1 \in Nat
    OBVIOUS
  <1> QED
    BY <1>1

\* Every step of the worker and of the chain keeps the types.
LEMMA SyncTypeStep ==
    ASSUME SyncTypeOK, [SyncNext]_syncVars
    PROVE  SyncTypeOK'
  <1> USE SyncConstants DEF SyncTypeOK
  <1>1. ASSUME NEW e \in Events, Book(e) PROVE SyncTypeOK'
    BY <1>1 DEF Book
  <1>2. ASSUME NEW e \in Events, Land(e) PROVE SyncTypeOK'
    BY <1>2 DEF Land
  <1>3. ASSUME NEW e \in Events, Expire(e) PROVE SyncTypeOK'
    BY <1>3 DEF Expire
  <1>4. ASSUME NEW w \in Workers, FetchPending(w) PROVE SyncTypeOK'
    BY <1>4 DEF FetchPending, FirstFetchable, Fetchable
  <1>5. ASSUME NEW w \in Workers, MarkProcessing(w) PROVE SyncTypeOK'
    BY <1>5 DEF MarkProcessing, Takes, LockedStatus
  <1>6. ASSUME NEW w \in Workers, SendTransaction(w) PROVE SyncTypeOK'
    <2>1. cur[w] \in Events
      OBVIOUS
    <2>2. sent' \in [Events -> Nat] /\ pool' \in [Events -> Nat]
      BY <1>6, <2>1, CountOneMore DEF SendTransaction, Accepted
    <2> QED
      BY <1>6, <2>1, <2>2 DEF SendTransaction
  <1>7. ASSUME NEW w \in Workers, SendRejected(w) PROVE SyncTypeOK'
    BY <1>7 DEF SendRejected
  <1>8. ASSUME NEW w \in Workers, Panic(w) PROVE SyncTypeOK'
    BY <1>8 DEF Panic, Down
  <1>9. ASSUME NEW w \in Workers, MarkDone(w) PROVE SyncTypeOK'
    BY <1>9 DEF MarkDone, NextEvent
  <1>10. ASSUME NEW w \in Workers, MarkPendingAgain(w) PROVE SyncTypeOK'
    BY <1>10 DEF MarkPendingAgain, NextEvent
  <1>11. ASSUME NEW w \in Workers, Restart(w) PROVE SyncTypeOK'
    BY <1>11 DEF Restart
  <1>12. ASSUME NEW w \in Workers, MarkProcessingFails(w) PROVE SyncTypeOK'
    BY <1>12 DEF MarkProcessingFails, Takes, LockedStatus, Fault
  <1>13. ASSUME NEW w \in Workers, SendFails(w) PROVE SyncTypeOK'
    BY <1>13 DEF SendFails, Fault
  <1>14. ASSUME NEW w \in Workers, SendUnclear(w) PROVE SyncTypeOK'
    <2>1. cur[w] \in Events
      OBVIOUS
    <2>2. /\ sent' \in [Events -> Nat] /\ pool' \in [Events -> Nat]
          /\ unclear' \in [Events -> Nat]
      BY <1>14, <2>1, CountOneMore DEF SendUnclear, Accepted
    <2> QED
      BY <1>14, <2>1, <2>2 DEF SendUnclear, Fault
  <1>15. ASSUME NEW w \in Workers, MarkFails(w) PROVE SyncTypeOK'
    BY <1>15 DEF MarkFails, NextEvent, Fault
  <1>16. ASSUME NEW w \in Workers, Crash(w) PROVE SyncTypeOK'
    BY <1>16 DEF Crash, Down, Fault
  <1>17. CASE UNCHANGED syncVars
    BY <1>17 DEF syncVars
  <1> QED
    BY <1>1, <1>2, <1>3, <1>4, <1>5, <1>6, <1>7, <1>8, <1>9, <1>10, <1>11,
       <1>12, <1>13, <1>14, <1>15, <1>16, <1>17 DEF SyncNext, Step

\* Only the worker that holds an event sends it, so no step of a single worker
\* sends an event that it believes to be paid.
LEMMA UnpaidStep ==
    ASSUME SingleWorker, SyncInv, [SyncNext]_syncVars
    PROVE  UnpaidInv'
  <1> USE DEF SyncInv, SyncTypeOK, UnpaidInv, Unpaid, SingleWorker
  <1>1. ASSUME NEW e \in Events, Book(e) PROVE UnpaidInv'
    BY <1>1 DEF Book
  <1>2. ASSUME NEW e \in Events, Land(e) PROVE UnpaidInv'
    BY <1>2 DEF Land
  <1>3. ASSUME NEW e \in Events, Expire(e) PROVE UnpaidInv'
    BY <1>3 DEF Expire
  <1>4. ASSUME NEW w \in Workers, FetchPending(w) PROVE UnpaidInv'
    BY <1>4 DEF FetchPending, FirstFetchable, Fetchable
  <1>5. ASSUME NEW w \in Workers, MarkProcessing(w) PROVE UnpaidInv'
    BY <1>5 DEF MarkProcessing, Takes, LockedStatus
  <1>6. ASSUME NEW w \in Workers, SendTransaction(w) PROVE UnpaidInv'
    BY <1>6 DEF SendTransaction, Sendable, Accepted
  <1>7. ASSUME NEW w \in Workers, SendRejected(w) PROVE UnpaidInv'
    BY <1>7 DEF SendRejected, Sendable
  <1>8. ASSUME NEW w \in Workers, Panic(w) PROVE UnpaidInv'
    BY <1>8 DEF Panic, Down
  <1>9. ASSUME NEW w \in Workers, MarkDone(w) PROVE UnpaidInv'
    BY <1>9 DEF MarkDone, NextEvent
  <1>10. ASSUME NEW w \in Workers, MarkPendingAgain(w) PROVE UnpaidInv'
    BY <1>10 DEF MarkPendingAgain, NextEvent
  <1>11. ASSUME NEW w \in Workers, Restart(w) PROVE UnpaidInv'
    BY <1>11 DEF Restart
  <1>12. ASSUME NEW w \in Workers, MarkProcessingFails(w) PROVE UnpaidInv'
    BY <1>12 DEF MarkProcessingFails, Takes, LockedStatus
  <1>13. ASSUME NEW w \in Workers, SendFails(w) PROVE UnpaidInv'
    BY <1>13 DEF SendFails, Sendable
  <1>14. ASSUME NEW w \in Workers, SendUnclear(w) PROVE UnpaidInv'
    BY <1>14 DEF SendUnclear, Sendable, Accepted, Fault, ClearErrors
  <1>15. ASSUME NEW w \in Workers, MarkFails(w) PROVE UnpaidInv'
    BY <1>15 DEF MarkFails, NextEvent
  <1>16. ASSUME NEW w \in Workers, Crash(w) PROVE UnpaidInv'
    BY <1>16 DEF Crash, Down
  <1>17. CASE UNCHANGED syncVars
    BY <1>17 DEF syncVars
  <1> QED
    BY <1>1, <1>2, <1>3, <1>4, <1>5, <1>6, <1>7, <1>8, <1>9, <1>10, <1>11,
       <1>12, <1>13, <1>14, <1>15, <1>16, <1>17 DEF SyncNext, Step

\* The types hold for any number of workers.
THEOREM SyncTypeCorrect == SyncSpec => []SyncTypeOK
  <1>1. SyncInit => SyncTypeOK
    BY SyncConstants DEF SyncInit, SyncTypeOK
  <1>2. SyncTypeOK /\ [SyncNext]_syncVars => SyncTypeOK'
    BY SyncTypeStep
  <1> QED
    BY <1>1, <1>2, PTL DEF SyncSpec

\* The inductive invariant of a single worker.
LEMMA SyncInvariant ==
    ASSUME SingleWorker
    PROVE  SyncSpec => []SyncInv
  <1>1. SyncInit => SyncInv
    <2> SUFFICES ASSUME SyncInit PROVE SyncInv
      OBVIOUS
    <2>1. SyncTypeOK
      BY SyncConstants DEF SyncInit, SyncTypeOK
    <2>2. UnpaidInv
      BY SyncConstants DEF SyncInit, UnpaidInv, Unpaid
    <2> QED
      BY <2>1, <2>2 DEF SyncInv
  <1>2. SyncInv /\ [SyncNext]_syncVars => SyncInv'
    BY SyncTypeStep, UnpaidStep, SingleWorker DEF SyncInv
  <1> QED
    BY <1>1, <1>2, PTL DEF SyncSpec

\* One worker pays an event once, plus once for every accepted transaction that
\* the RPC client reported as an error; crashes and database errors add nothing.
THEOREM OneWorkerPaysOncePerReply ==
    ASSUME SingleWorker
    PROVE  SyncSpec => []PaidOncePerReply
  <1>1. SyncInv => PaidOncePerReply
    BY DEF SyncInv, SyncTypeOK, UnpaidInv, PaidOncePerReply
  <1> QED
    BY <1>1, SyncInvariant, SingleWorker, PTL

\* If every reported error means that nothing was submitted, one worker keeps
\* the promise of PayoutOnce: no booked event is paid twice.
THEOREM OneWorkerPaysAtMostOnce ==
    ASSUME SingleWorker, ClearErrors
    PROVE  SyncSpec => PaysAtMostOnce
  <1> USE DEF Promise!payout
  <1>1. SyncInit => Promise!PayoutInit
    BY DEF SyncInit, Promise!PayoutInit
  <1>2. SyncInv /\ [SyncNext]_syncVars => [Promise!PayoutNext]_(Promise!payout)
    <2> SUFFICES ASSUME SyncInv, [SyncNext]_syncVars
                 PROVE  [Promise!PayoutNext]_(Promise!payout)
      OBVIOUS
    <2> USE DEF SyncInv, SyncTypeOK
    <2>1. ASSUME NEW e \in Events, Book(e) PROVE Promise!Owe(e)
      BY <2>1 DEF Book, Promise!Owe
    <2>2. ASSUME NEW e \in Events, Land(e) PROVE Promise!Pay(e)
      <3>1. landed[e] = 0 /\ status[e] # "absent"
        BY <2>2, ClearErrors DEF Land, UnpaidInv
      <3> QED
        BY <2>2, <3>1 DEF Land, Promise!Pay
    <2>3. ASSUME NEW w \in Workers,
                 \/ MarkProcessing(w) \/ MarkProcessingFails(w)
                 \/ MarkDone(w) \/ MarkPendingAgain(w) \/ MarkFails(w)
          PROVE  UNCHANGED Promise!payout
      <3>1. landed' = landed
        BY <2>3 DEF MarkProcessing, MarkProcessingFails, MarkDone,
           MarkPendingAgain, MarkFails, NextEvent
      <3>2. \A e \in Events : status'[e] # "absent" <=> status[e] # "absent"
        BY <2>3 DEF MarkProcessing, MarkProcessingFails, MarkDone,
           MarkPendingAgain, MarkFails, Takes, LockedStatus, UnpaidInv
      <3> QED
        BY <3>1, <3>2
    <2>4. ASSUME NEW w \in Workers,
                 \/ FetchPending(w) \/ SendTransaction(w) \/ SendRejected(w)
                 \/ Panic(w) \/ Restart(w) \/ SendFails(w) \/ SendUnclear(w)
                 \/ Crash(w)
          PROVE  UNCHANGED Promise!payout
      BY <2>4 DEF FetchPending, SendTransaction, SendRejected, Panic, Down,
         Restart, SendFails, SendUnclear, Crash
    <2>5. ASSUME NEW e \in Events, Expire(e) PROVE UNCHANGED Promise!payout
      BY <2>5 DEF Expire
    <2>6. CASE UNCHANGED syncVars
      BY <2>6 DEF syncVars
    <2> QED
      BY <2>1, <2>2, <2>3, <2>4, <2>5, <2>6
         DEF SyncNext, Step, Promise!PayoutNext
  <1> QED
    BY <1>1, <1>2, SyncInvariant, SingleWorker, PTL
       DEF SyncSpec, PaysAtMostOnce, Promise!PayoutSpec

-----------------------------------------------------------------------------
(* Statuses.                                                               *)

(* A single worker finds the events of its batch as it fetched them, holds *)
(* the lock of its current event, and records DONE after the submission.   *)
StatusInv ==
    /\ \A e \in Events : status[e] = "DONE" => sent[e] > 0
    /\ \A w \in Workers :
         /\ \A e \in batch[w] : status[e] = "PENDING"
         /\ pc[w] \in {"send", "done", "again"} =>
              status[cur[w]] = "PROCESSING" /\ cur[w] \notin batch[w]
         /\ pc[w] = "done" => sent[cur[w]] > 0

\* No status that a worker relies on is changed by anybody else.
LEMMA StatusStep ==
    ASSUME SingleWorker, SyncTypeOK, StatusInv, [SyncNext]_syncVars
    PROVE  StatusInv'
  <1> USE DEF SyncTypeOK, StatusInv, SingleWorker
  <1>1. ASSUME NEW e \in Events, Book(e) PROVE StatusInv'
    BY <1>1 DEF Book
  <1>2. ASSUME NEW e \in Events, Land(e) PROVE StatusInv'
    BY <1>2 DEF Land
  <1>3. ASSUME NEW e \in Events, Expire(e) PROVE StatusInv'
    BY <1>3 DEF Expire
  <1>4. ASSUME NEW w \in Workers, FetchPending(w) PROVE StatusInv'
    BY <1>4 DEF FetchPending, FirstFetchable, Fetchable
  <1>5. ASSUME NEW w \in Workers, MarkProcessing(w) PROVE StatusInv'
    BY <1>5 DEF MarkProcessing, Takes, LockedStatus
  <1>6. ASSUME NEW w \in Workers, SendTransaction(w) PROVE StatusInv'
    BY <1>6 DEF SendTransaction, Sendable, Accepted
  <1>7. ASSUME NEW w \in Workers, SendRejected(w) PROVE StatusInv'
    BY <1>7 DEF SendRejected, Sendable
  <1>8. ASSUME NEW w \in Workers, Panic(w) PROVE StatusInv'
    BY <1>8 DEF Panic, Down
  <1>9. ASSUME NEW w \in Workers, MarkDone(w) PROVE StatusInv'
    BY <1>9 DEF MarkDone, NextEvent
  <1>10. ASSUME NEW w \in Workers, MarkPendingAgain(w) PROVE StatusInv'
    BY <1>10 DEF MarkPendingAgain, NextEvent
  <1>11. ASSUME NEW w \in Workers, Restart(w) PROVE StatusInv'
    BY <1>11 DEF Restart
  <1>12. ASSUME NEW w \in Workers, MarkProcessingFails(w) PROVE StatusInv'
    BY <1>12 DEF MarkProcessingFails, Takes, LockedStatus
  <1>13. ASSUME NEW w \in Workers, SendFails(w) PROVE StatusInv'
    BY <1>13 DEF SendFails, Sendable
  <1>14. ASSUME NEW w \in Workers, SendUnclear(w) PROVE StatusInv'
    BY <1>14 DEF SendUnclear, Sendable, Accepted
  <1>15. ASSUME NEW w \in Workers, MarkFails(w) PROVE StatusInv'
    BY <1>15 DEF MarkFails, NextEvent
  <1>16. ASSUME NEW w \in Workers, Crash(w) PROVE StatusInv'
    BY <1>16 DEF Crash, Down
  <1>17. CASE UNCHANGED syncVars
    BY <1>17 DEF syncVars
  <1> QED
    BY <1>1, <1>2, <1>3, <1>4, <1>5, <1>6, <1>7, <1>8, <1>9, <1>10, <1>11,
       <1>12, <1>13, <1>14, <1>15, <1>16, <1>17 DEF SyncNext, Step

(* A single worker never takes DONE back, and never records it for an      *)
(* event that no RPC node has accepted, whatever fails between the send    *)
(* and the update.                                                         *)
THEOREM OneWorkerDoneIsFinal ==
    ASSUME SingleWorker
    PROVE  SyncSpec => DoneIsFinal
  <1>1. SyncInit => StatusInv
    BY DEF SyncInit, StatusInv
  <1>2. SyncTypeOK /\ StatusInv /\ [SyncNext]_syncVars => StatusInv'
    BY StatusStep, SingleWorker
  <1> DEFINE Final == \A e \in Events :
                        /\ status[e] = "DONE" => status'[e] = "DONE"
                        /\ status'[e] = "DONE" => sent[e] > 0
  <1>3. SyncTypeOK /\ StatusInv /\ [SyncNext]_syncVars => [Final]_syncVars
    <2> SUFFICES ASSUME SyncTypeOK, StatusInv, SyncNext PROVE Final
      BY DEF syncVars
    <2>1. CASE UNCHANGED status
      BY <2>1 DEF StatusInv
    <2>2. ASSUME NEW e \in Events, Book(e) PROVE Final
      BY <2>2 DEF StatusInv, SyncTypeOK, Book
    <2>3. ASSUME NEW w \in Workers, MarkProcessing(w) \/ MarkProcessingFails(w) PROVE Final
      BY <2>3 DEF StatusInv, SyncTypeOK, MarkProcessing, MarkProcessingFails, Takes, LockedStatus
    <2>4. ASSUME NEW w \in Workers, MarkDone(w) \/ MarkPendingAgain(w) \/ MarkFails(w)
          PROVE  Final
      BY <2>4 DEF StatusInv, SyncTypeOK, MarkDone, MarkPendingAgain, MarkFails
    <2> HIDE DEF Final
    <2> QED
      BY <2>1, <2>2, <2>3, <2>4
      DEF SyncNext, Step, Land, Expire, FetchPending, SendTransaction, SendRejected, Panic,
          Down, Restart, SendFails, SendUnclear, Crash
  <1> QED
    BY <1>1, <1>2, <1>3, SyncTypeCorrect, PTL DEF SyncSpec, DoneIsFinal
=============================================================================
