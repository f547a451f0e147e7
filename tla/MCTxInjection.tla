--------------------------- MODULE MCTxInjection ---------------------------
(* Two copies of the script, one of them with --wait, over one node. *)
EXTENDS TxInjection

CONSTANTS p1, p2
=============================================================================
