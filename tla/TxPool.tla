------------------------------- MODULE TxPool -------------------------------
(***************************************************************************)
(* What the scripts of scripts/ see of a node: on-chain nonces, the        *)
(* transaction pool and block authoring.  All of it is Substrate code      *)
(* outside this repository; the pool is configured in                      *)
(* node/src/service.rs and asked over the RPC of node/src/rpc.rs.          *)
(*                                                                         *)
(* A transaction is a sender and a nonce.  Transfers of one sender, nonce  *)
(* and amount have one priority, so a ready one is never replaced.  The    *)
(* future part may hold several with one nonce: the first to be promoted   *)
(* stays, the others are dropped and nobody is told.                       *)
(***************************************************************************)
EXTENDS Integers, FiniteSets

CONSTANT Senders

VARIABLES
    nonce,      \* frame_system: the next nonce of each account, on chain
    pooled      \* the nonces each account has transactions of in the pool

poolVars == <<nonce, pooled>>

PoolInit ==
    /\ nonce = [s \in Senders |-> 0]
    /\ pooled = [s \in Senders |-> {}]

(* The ready part of the pool: what follows the on-chain nonce without a    *)
(* gap.  The rest waits in the future part.                                 *)
Ready(s) == {n \in pooled[s] : n >= nonce[s] /\ nonce[s]..n \subseteq pooled[s]}

(* author_submitExtrinsic refuses a stale nonce and one that a ready         *)
(* transaction has; what waits in the future part is not looked at.          *)
Accepts(s, n) == n >= nonce[s] /\ n \notin Ready(s)

add(s, n) ==
    /\ pooled' = [pooled EXCEPT ![s] = @ \cup {n}]
    /\ UNCHANGED nonce

(* author_pendingExtrinsics lists the ready part only.                       *)
PendingExtrinsics == UNION {{s} \X Ready(s) : s \in Senders}

(* What get_account_nonce may return: the client library takes the on-chain  *)
(* nonce or, by its version, the first one the ready part leaves free.       *)
NonceReads(s) ==
    {nonce[s]} \cup {n + 1 : n \in {r \in Ready(s) : r + 1 \notin pooled[s]}}

(* A block takes some of the ready transactions, each sender's in order:     *)
(* upto[s] is the sender's nonce after the block.                            *)
Blocks ==
    {upto \in [Senders -> UNION {{nonce[s]} \cup {n + 1 : n \in Ready(s)} : s \in Senders}] :
        \A s \in Senders : upto[s] \in {nonce[s]} \cup {n + 1 : n \in Ready(s)}}

author(upto) ==
    /\ nonce' = upto
    /\ pooled' = [s \in Senders |-> {n \in pooled[s] : n >= upto[s]}]

=============================================================================
