----------------------------- MODULE MCConsensus -----------------------------
(* The local network, on machines that have also run the one-node network. *)
EXTENDS Consensus

MCNodes == {"Alice", "Bob"}
MCSpecs == {"localnet", "localnet_single"}
=============================================================================
