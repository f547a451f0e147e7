-------------------------- MODULE MCMeasureTxPower --------------------------
(* Three short runs over a chain of at most four blocks. *)
EXTENDS MeasureTxPower

MCTxCounts == <<2, 1, 2>>
=============================================================================
