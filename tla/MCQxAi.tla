------------------------------- MODULE MCQxAi -------------------------------
(* Two workers, one of which is also the customer. *)
EXTENDS QxAi, TLC

CONSTANTS a1, a2, d0, d1, d2, m1, x1

MCgenerate_did == a1 :> d1 @@ a2 :> d2
=============================================================================
