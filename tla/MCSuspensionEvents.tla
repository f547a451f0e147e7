------------------------- MODULE MCSuspensionEvents ------------------------
(* Two accounts that may register, and three DIDs one of which nobody holds. *)
EXTENDS SuspensionEvents, TLC

CONSTANTS a1, a2, d0, d1, d2

MCgenerate_did == a1 :> d1 @@ a2 :> d2
=============================================================================
