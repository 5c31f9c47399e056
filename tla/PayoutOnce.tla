------------------------------ MODULE PayoutOnce ------------------------------
(***************************************************************************)
(* What the payout path owes its runners: a booked payout event reaches    *)
(* the chain at most once.  "idempotent settlement records" is how the     *)
(* repository's README describes solana_sync_events.  SolanaSync shows     *)
(* under which conditions the worker keeps the promise.                    *)
(***************************************************************************)
EXTENDS Naturals

CONSTANT Events     \* rows of solana_sync_events

VARIABLES
    owed,           \* events booked by a settlement
    receipts        \* how often each event has been paid on chain

payout == <<owed, receipts>>

PayoutInit == owed = {} /\ receipts = [e \in Events |-> 0]

Owe(e) ==
    /\ e \notin owed
    /\ owed' = owed \cup {e}
    /\ UNCHANGED receipts

Pay(e) ==
    /\ e \in owed /\ receipts[e] = 0
    /\ receipts' = [receipts EXCEPT ![e] = 1]
    /\ UNCHANGED owed

PayoutNext == \E e \in Events : Owe(e) \/ Pay(e)

PayoutSpec == PayoutInit /\ [][PayoutNext]_payout
=============================================================================
