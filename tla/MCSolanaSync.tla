---------------------------- MODULE MCSolanaSync ----------------------------
(***************************************************************************)
(* SolanaSync on small instances.  Event 1 is rejected by the program and  *)
(* event 2 has an undecodable key where a run needs them; both are older   *)
(* than the payable ones.                                                  *)
(***************************************************************************)
EXTENDS SolanaSync
=============================================================================
