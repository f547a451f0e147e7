----------------------------- MODULE MCQxFaucet -----------------------------
(* A poor and a rich account; the pot pays two or three claims before funds. *)
EXTENDS QxFaucet, TLC

CONSTANTS a1, a2, pot

MCGenesis == a1 :> 0 @@ a2 :> 3 @@ pot :> 5
=============================================================================
