------------------------------ MODULE SolanaSync ------------------------------
(***************************************************************************)
(* StartSolanaSync and executeRewardTx (workers/solana_sync.go) over the   *)
(* queue operations of db/repositories/solana.go.                          *)
(*                                                                         *)
(* A worker fetches the oldest PENDING events, and for each one marks it   *)
(* PROCESSING, sends the transaction, and marks it DONE, or PENDING again  *)
(* after an error.  FetchPending locks the rows for the length of its one  *)
(* statement only, so workers of several instances may hold the same       *)
(* event.  SendTransaction returns when the RPC node has accepted the      *)
(* transaction; it lands, or its blockhash expires, later.                 *)
(*                                                                         *)
(* Fault kinds: "crash" of the process, "db" errors (the statement may or  *)
(* may not have taken effect), "rpc" errors before anything is submitted   *)
(* and "unclear" ones after the node accepted the transaction.             *)
(***************************************************************************)
EXTENDS Naturals, FiniteSets

CONSTANTS
    Workers,       \* one per backend instance
    Events,        \* solana_sync_events, named by created_at
    Limit,         \* FetchPending(ctx, 10)
    Undecodable,   \* events whose owner_pubkey is not base58: a panic
    Rejected,      \* events the program refuses every time
    FaultKinds,
    MaxFaults

ASSUME SyncConstants ==
    /\ Events \subseteq Nat
    /\ Limit \in Nat \ {0}
    /\ Undecodable \subseteq Events
    /\ Rejected \subseteq Events \ Undecodable
    /\ FaultKinds \subseteq {"crash", "db", "rpc", "unclear"}
    /\ MaxFaults \in Nat

VARIABLES
    status,        \* solana_sync_events.status, "absent" before the INSERT
    pc,            \* where each worker is
    batch,         \* events it has fetched and not yet looked at
    cur,           \* the event it works on
    sent,          \* transactions an RPC node has accepted, per event
    unclear,       \*   of these, the ones reported as errors
    pool,          \*   of these, the ones neither landed nor expired
    landed,        \* payments on chain
    faults

syncVars == <<status, pc, batch, cur, sent, unclear, pool, landed, faults>>

SyncInit ==
    /\ status = [e \in Events |-> "absent"]
    /\ pc = [w \in Workers |-> "loop"]
    /\ batch = [w \in Workers |-> {}]
    /\ cur \in [Workers -> Events]
    /\ sent = [e \in Events |-> 0]
    /\ unclear = [e \in Events |-> 0]
    /\ pool = [e \in Events |-> 0]
    /\ landed = [e \in Events |-> 0]
    /\ faults = 0

Fault(kind) ==
    /\ kind \in FaultKinds /\ faults < MaxFaults
    /\ faults' = faults + 1

-----------------------------------------------------------------------------

\* create_payout_event_if_threshold inserts a PENDING row.
Book(e) ==
    /\ status[e] = "absent"
    /\ status' = [status EXCEPT ![e] = "PENDING"]
    /\ UNCHANGED <<pc, batch, cur, sent, unclear, pool, landed, faults>>

\* A fetch that also takes back the events left in PROCESSING.
Fetchable_Reclaim == {e \in Events : status[e] \in {"PENDING", "PROCESSING"}}

Fetchable == {e \in Events : status[e] = "PENDING"}

\* ORDER BY created_at ASC LIMIT $1.
FirstFetchable == {e \in Fetchable : Cardinality({d \in Fetchable : d < e}) < Limit}

FetchPending(w) ==
    /\ pc[w] = "loop" /\ batch[w] = {}
    /\ Fetchable # {}
    /\ batch' = [batch EXCEPT ![w] = FirstFetchable]
    /\ UNCHANGED <<status, pc, cur, sent, unclear, pool, landed, faults>>

\* e is the next event of the batch.
Takes(w, e) ==
    /\ pc[w] = "loop" /\ e \in batch[w] /\ \A d \in batch[w] : e <= d
    /\ batch' = [batch EXCEPT ![w] = @ \ {e}]

\* Locks that nobody else knows, or that are too optimistic.
LockedStatus_Unknown == "LOCKED"

LockedStatus_Done == "DONE"

LockedStatus == "PROCESSING"

MarkProcessing(w) ==
    /\ \E e \in Events :
         /\ Takes(w, e)
         /\ cur' = [cur EXCEPT ![w] = e]
         /\ status' = [status EXCEPT ![e] = LockedStatus]
    /\ pc' = [pc EXCEPT ![w] = "send"]
    /\ UNCHANGED <<sent, unclear, pool, landed, faults>>

MarkProcessingFails(w) ==
    /\ Fault("db")
    /\ \E e \in Events :
         /\ Takes(w, e)
         /\ status' \in {status, [status EXCEPT ![e] = LockedStatus]}
    /\ UNCHANGED <<pc, cur, sent, unclear, pool, landed>>

\* The RPC node has the transaction; whether it lands is open.
Accepted(e) ==
    /\ sent' = [sent EXCEPT ![e] = @ + 1]
    /\ pool' = [pool EXCEPT ![e] = @ + 1]

Sendable(w) == pc[w] = "send" /\ cur[w] \notin Undecodable

\* A submission that is not confirmed at once taken for a failure.
SendTransaction_Unconfirmed(w) ==
    /\ Sendable(w) /\ cur[w] \notin Rejected
    /\ Accepted(cur[w])
    /\ pc' = [pc EXCEPT ![w] = "again"]
    /\ UNCHANGED <<status, batch, cur, unclear, landed, faults>>

SendTransaction(w) ==
    /\ Sendable(w) /\ cur[w] \notin Rejected
    /\ Accepted(cur[w])
    /\ pc' = [pc EXCEPT ![w] = "done"]
    /\ UNCHANGED <<status, batch, cur, unclear, landed, faults>>

\* The preflight check refuses the transaction, every time.
SendRejected(w) ==
    /\ Sendable(w) /\ cur[w] \in Rejected
    /\ pc' = [pc EXCEPT ![w] = "again"]
    /\ UNCHANGED <<status, batch, cur, sent, unclear, pool, landed, faults>>

\* No key, no blockhash, no connection: nothing was submitted.
SendFails(w) ==
    /\ Sendable(w) /\ Fault("rpc")
    /\ pc' = [pc EXCEPT ![w] = "again"]
    /\ UNCHANGED <<status, batch, cur, sent, unclear, pool, landed>>

\* The node accepted the transaction, the worker sees a timeout.
SendUnclear(w) ==
    /\ Sendable(w) /\ cur[w] \notin Rejected /\ Fault("unclear")
    /\ Accepted(cur[w])
    /\ unclear' = [unclear EXCEPT ![cur[w]] = @ + 1]
    /\ pc' = [pc EXCEPT ![w] = "again"]
    /\ UNCHANGED <<status, batch, cur, landed>>

Down(w) ==
    /\ pc' = [pc EXCEPT ![w] = "down"]
    /\ batch' = [batch EXCEPT ![w] = {}]
    /\ UNCHANGED <<status, cur, sent, unclear, pool, landed>>

\* MustPublicKeyFromBase58 panics in the worker's goroutine.
Panic(w) ==
    /\ pc[w] = "send" /\ cur[w] \in Undecodable
    /\ Down(w)
    /\ UNCHANGED faults

Crash(w) ==
    /\ pc[w] # "down" /\ Fault("crash")
    /\ Down(w)

Restart(w) ==
    /\ pc[w] = "down"
    /\ pc' = [pc EXCEPT ![w] = "loop"]
    /\ UNCHANGED <<status, batch, cur, sent, unclear, pool, landed, faults>>

NextEvent(w) ==
    /\ pc' = [pc EXCEPT ![w] = "loop"]
    /\ UNCHANGED <<batch, cur, sent, unclear, pool, landed>>

MarkDone(w) ==
    /\ pc[w] = "done"
    /\ status' = [status EXCEPT ![cur[w]] = "DONE"]
    /\ NextEvent(w)
    /\ UNCHANGED faults

\* A failed send that is forgotten: the event stays locked.
MarkPendingAgain_Missing(w) ==
    /\ pc[w] = "again"
    /\ NextEvent(w)
    /\ UNCHANGED <<status, faults>>

MarkPendingAgain(w) ==
    /\ pc[w] = "again"
    /\ status' = [status EXCEPT ![cur[w]] = "PENDING"]
    /\ NextEvent(w)
    /\ UNCHANGED faults

\* Both updates are made once; their error is logged or ignored.
MarkFails(w) ==
    /\ pc[w] \in {"done", "again"} /\ Fault("db")
    /\ status' \in {status, [status EXCEPT ![cur[w]] =
                                IF pc[w] = "done" THEN "DONE" ELSE "PENDING"]}
    /\ NextEvent(w)

-----------------------------------------------------------------------------
(* The chain.                                                              *)

Land(e) ==
    /\ pool[e] > 0
    /\ pool' = [pool EXCEPT ![e] = @ - 1]
    /\ landed' = [landed EXCEPT ![e] = @ + 1]
    /\ UNCHANGED <<status, pc, batch, cur, sent, unclear, faults>>

Expire(e) ==
    /\ pool[e] > 0
    /\ pool' = [pool EXCEPT ![e] = @ - 1]
    /\ UNCHANGED <<status, pc, batch, cur, sent, unclear, landed, faults>>

Step(w) ==
    \/ FetchPending(w) \/ MarkProcessing(w)
    \/ SendTransaction(w) \/ SendRejected(w) \/ Panic(w)
    \/ MarkDone(w) \/ MarkPendingAgain(w) \/ Restart(w)

SyncNext ==
    \/ \E e \in Events : Book(e) \/ Land(e) \/ Expire(e)
    \/ \E w \in Workers :
         \/ Step(w)
         \/ MarkProcessingFails(w) \/ SendFails(w) \/ SendUnclear(w)
         \/ MarkFails(w) \/ Crash(w)

SyncSpec == SyncInit /\ [][SyncNext]_syncVars

\* The loop of a worker runs, and a stopped process is started again.
FairSyncSpec == SyncSpec /\ \A w \in Workers : WF_syncVars(Step(w))

-----------------------------------------------------------------------------

\* The type invariant: an event has one of the statuses of solana.sql, and the
\* chain's counters do not go negative.
SyncTypeOK ==
    /\ status \in [Events -> {"absent", "PENDING", "PROCESSING", "DONE"}]
    /\ pc \in [Workers -> {"loop", "send", "done", "again", "down"}]
    /\ batch \in [Workers -> SUBSET Events]
    /\ cur \in [Workers -> Events]
    /\ sent \in [Events -> Nat] /\ unclear \in [Events -> Nat]
    /\ pool \in [Events -> Nat] /\ landed \in [Events -> Nat]
    /\ faults \in 0..MaxFaults

\* Only one instance of the backend runs the worker.
SingleWorker == \A v, w \in Workers : v = w

\* Every error that SendTransaction reports means that nothing was submitted.
ClearErrors == "unclear" \notin FaultKinds

\* A payment is repeated only because an accepted transaction was reported as
\* an error: crashes, database errors and restarts never pay an event twice.
PaidOncePerReply == \A e \in Events : landed[e] <= 1 + unclear[e]

\* DONE is recorded only for an event that was submitted, and is never undone.
DoneIsFinal ==
    [][\A e \in Events :
         /\ status[e] = "DONE" => status'[e] = "DONE"
         /\ status'[e] = "DONE" => sent[e] > 0]_syncVars

Promise == INSTANCE PayoutOnce WITH
    owed <- {e \in Events : status[e] # "absent"},
    receipts <- landed

\* One worker with clear errors keeps the promise of PayoutOnce.
PaysAtMostOnce == Promise!PayoutSpec

Payable == Events \ (Undecodable \cup Rejected)

\* Every payable event is paid and recorded in the end, although rejected events
\* are retried before it (fewer than Limit), undecodable ones stop the process
\* and RPC errors send it back.  A crash or a database error may leave an event
\* in PROCESSING, where nothing looks for it again; they are not in this claim.
EveryEventPaid ==
    FaultKinds \subseteq {"rpc", "unclear"} /\ Cardinality(Rejected) < Limit =>
        \A e \in Payable : status[e] = "PENDING" ~> status[e] = "DONE"

\* "`solana_sync_events` records `tx_signature` for idempotency" (README.md:386).
PaidOnce == \A e \in Events : landed[e] <= 1
=============================================================================
