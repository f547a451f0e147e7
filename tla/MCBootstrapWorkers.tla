------------------------ MODULE MCBootstrapWorkers ------------------------
(* Two runs of the script set up two workers and one model. *)
EXTENDS BootstrapWorkers, TLC

CONSTANTS a1, a2, alice, d0, d1, d2, d3, m1, x1, b1, b2

MCgenerate_did == a1 :> d1 @@ a2 :> d2
MCWorkerURIs == <<a1, a2>>
MCOneWorker == <<a1>>
MCDefaultModels == <<m1>>
=============================================================================
