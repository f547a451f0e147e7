----------------------------- MODULE MCQxRuntime -----------------------------
(* The sudo key of the local network and an account with a small endowment;  *)
(* in the main network both start with nothing.                              *)
EXTENDS QxRuntime

MCGenesis == [a \in Claimants |-> 0]
=============================================================================
