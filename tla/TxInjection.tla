---------------------------- MODULE TxInjection ----------------------------
(***************************************************************************)
(* scripts/inject_transactions.py, run by several operators at once over   *)
(* one node.  Every run signs for the same two development accounts and    *)
(* counts their nonces itself.                                             *)
(***************************************************************************)
EXTENDS TxPool

CONSTANTS
    Injectors,      \* running copies of the script
    Alice, Bob,
    Count,          \* --count
    Waiting,        \* the copies run with --wait
    FaultBound      \* bound: connection faults and interrupts of a behaviour

ASSUME InjectionAssumption ==
    /\ Alice # Bob
    /\ Senders = {Alice, Bob}
    /\ Count \in Nat
    /\ Waiting \subseteq Injectors
    /\ FaultBound \in Nat

VARIABLES
    pc,             \* where each copy is
    i,              \* the loop's counter
    next,           \* alice_nonce and bob_nonce
    successful,     \* the transactions a copy counted as successful
    lost,           \* transactions whose submission never reached the pool
    entered,        \* the transactions of each copy the pool took and kept
    faults

scriptVars == <<pc, i, next, successful, lost, faults>>
injectionVars == <<poolVars, scriptVars, entered>>

InjectionInit ==
    /\ PoolInit
    /\ pc = [p \in Injectors |-> "read_alice"]
    /\ i = [p \in Injectors |-> 0]
    /\ next = [p \in Injectors |-> [s \in Senders |-> 0]]
    /\ successful = [p \in Injectors |-> {}]
    /\ lost = {}
    /\ entered = [p \in Injectors |-> {}]
    /\ faults = 0

goto(p, where) == pc' = [pc EXCEPT ![p] = where]

(* The two calls of get_account_nonce are two round trips. *)
read_nonce(p, s, here, there) ==
    /\ pc[p] = here
    /\ \E n \in NonceReads(s) : next' = [next EXCEPT ![p][s] = n]
    /\ goto(p, there)
    /\ UNCHANGED <<poolVars, entered, i, successful, lost, faults>>

read_alice_nonce(p) == read_nonce(p, Alice, "read_alice", "read_bob")
read_bob_nonce(p) == read_nonce(p, Bob, "read_bob", "loop")

Sender(k) == IF k % 2 = 0 THEN Alice ELSE Bob

advance_both(p, s) == next' = [next EXCEPT ![p] = [x \in Senders |-> @[x] + 1]]

(* The local nonce moves on before the extrinsic is even composed. *)
advance(p, s) == next' = [next EXCEPT ![p][s] = @ + 1]

in_loop_once_more(p) == pc[p] = "loop" /\ i[p] <= Count

in_loop(p) == pc[p] = "loop" /\ i[p] < Count

iterate(p) == i' = [i EXCEPT ![p] = @ + 1] /\ advance(p, Sender(i[p]))

count_success(p, tx) == successful' = [successful EXCEPT ![p] = @ \cup {tx}]

(* The pool takes a copy's transaction. *)
enter(p, s, n) ==
    /\ Accepts(s, n)
    /\ add(s, n)
    /\ entered' = [entered EXCEPT ![p] = @ \cup {<<s, n>>}]

(* submit_extrinsic enters the pool; with --wait the script stays in it. *)
submit(p) ==
    /\ in_loop(p)
    /\ iterate(p)
    /\ LET s == Sender(i[p])
           n == next[p][s]
       IN  /\ enter(p, s, n)
           /\ IF p \in Waiting
              THEN goto(p, "wait") /\ UNCHANGED successful
              ELSE count_success(p, <<s, n>>) /\ UNCHANGED pc
    /\ UNCHANGED <<lost, faults>>

submit_refused_counted(p) ==
    /\ in_loop(p)
    /\ ~Accepts(Sender(i[p]), next[p][Sender(i[p])])
    /\ iterate(p)
    /\ count_success(p, <<Sender(i[p]), next[p][Sender(i[p])]>>)
    /\ UNCHANGED <<poolVars, entered, pc, lost, faults>>

submit_refused_retried(p) ==
    /\ in_loop(p)
    /\ ~Accepts(Sender(i[p]), next[p][Sender(i[p])])
    /\ UNCHANGED <<poolVars, entered, pc, i, next, successful, lost, faults>>

(* The pool refuses the extrinsic: the exception is counted and the loop     *)
(* goes on.                                                                  *)
submit_refused(p) ==
    /\ in_loop(p)
    /\ ~Accepts(Sender(i[p]), next[p][Sender(i[p])])
    /\ iterate(p)
    /\ UNCHANGED <<poolVars, entered, pc, successful, lost, faults>>

fault == faults < FaultBound /\ faults' = faults + 1

(* Composing, signing or sending fails, or the pool is full: nothing arrives. *)
submit_lost(p) ==
    /\ in_loop(p)
    /\ fault
    /\ iterate(p)
    /\ lost' = lost \cup {<<Sender(i[p]), next[p][Sender(i[p])]>>}
    /\ UNCHANGED <<poolVars, entered, pc, successful>>

(* The extrinsic arrives and its answer does not. *)
answer_lost(p) ==
    /\ in_loop(p)
    /\ fault
    /\ iterate(p)
    /\ enter(p, Sender(i[p]), next[p][Sender(i[p])])
    /\ UNCHANGED <<pc, successful, lost>>

(* The transaction a copy waits for: the last one it submitted. *)
Awaited(p) ==
    LET s == Sender(i[p] - 1) IN <<s, next[p][s] - 1>>

(* The wait ends when the copy's own transaction is in a block. *)
included(p) ==
    /\ pc[p] = "wait"
    /\ nonce[Awaited(p)[1]] > Awaited(p)[2]
    /\ Awaited(p) \in entered[p]
    /\ count_success(p, Awaited(p))
    /\ goto(p, "loop")
    /\ UNCHANGED <<poolVars, entered, i, next, lost, faults>>

wait_broken(p) ==
    /\ pc[p] = "wait"
    /\ fault
    /\ goto(p, "loop")
    /\ UNCHANGED <<poolVars, entered, i, next, successful, lost>>

finish(p) ==
    /\ pc[p] = "loop"
    /\ i[p] = Count
    /\ goto(p, "done")
    /\ UNCHANGED <<poolVars, entered, i, next, successful, lost, faults>>

(* Ctrl-C, or an exception outside the loop's try. *)
interrupt(p) ==
    /\ pc[p] # "done"
    /\ fault
    /\ goto(p, "done")
    /\ UNCHANGED <<poolVars, entered, i, next, successful, lost>>

(* The transactions of a block. *)
Taken(upto) == UNION {{s} \X (nonce[s]..(upto[s] - 1)) : s \in Senders}

(* Of several copies' transactions with one sender and nonce one is included *)
(* and the pool drops the others.  It chose when they left the future part,  *)
(* which shows nowhere before the block.                                     *)
author_block ==
    /\ \E upto \in Blocks :
        /\ upto # nonce
        /\ author(upto)
        /\ \E kept \in [Taken(upto) -> Injectors] :
            /\ \A tx \in Taken(upto) : tx \in entered[kept[tx]]
            /\ entered' = [p \in Injectors |->
                   {tx \in entered[p] : tx \in Taken(upto) => kept[tx] = p}]
    /\ UNCHANGED scriptVars

step(p) ==
    \/ read_alice_nonce(p)
    \/ read_bob_nonce(p)
    \/ submit(p)
    \/ submit_refused(p)
    \/ included(p)
    \/ finish(p)

injection_fault(p) ==
    \/ submit_lost(p)
    \/ answer_lost(p)
    \/ wait_broken(p)
    \/ interrupt(p)

InjectionNext ==
    \/ \E p \in Injectors : step(p) \/ injection_fault(p)
    \/ author_block

InjectionSpec == InjectionInit /\ [][InjectionNext]_injectionVars

(* A running script takes its next step, and an authority whose pool holds   *)
(* ready transactions puts some of them into a block.                        *)
InjectionFairSpec ==
    /\ InjectionSpec
    /\ \A p \in Injectors : WF_injectionVars(step(p))
    /\ WF_injectionVars(author_block)

-----------------------------------------------------------------------------

InjectionTypeOK ==
    /\ nonce \in [Senders -> Nat]
    /\ pooled \in [Senders -> SUBSET Nat]
    /\ pc \in [Injectors -> {"read_alice", "read_bob", "loop", "wait", "done"}]
    /\ i \in [Injectors -> 0..Count]
    /\ next \in [Injectors -> [Senders -> Nat]]
    /\ successful \in [Injectors -> SUBSET (Senders \X Nat)]
    /\ lost \subseteq Senders \X Nat
    /\ entered \in [Injectors -> SUBSET (Senders \X Nat)]
    /\ faults \in 0..FaultBound

(* A transaction is held back by a missing nonce only if somebody's          *)
(* submission of that nonce was lost: several copies of the script that      *)
(* count the same accounts' nonces on their own leave no gap, whatever the   *)
(* interleaving, which of their submissions are refused, and where they are  *)
(* interrupted.                                                              *)
GapsAreLosses ==
    \A s \in Senders : \A n \in pooled[s] : \A k \in nonce[s]..n :
        k \in pooled[s] \/ <<s, k>> \in lost

(* Behind a lost submission the pool takes several copies' transactions with *)
(* one nonce and lets all but one fall, without telling anybody.             *)
LostBelow(tx) == \E k \in 0..(tx[2] - 1) : <<tx[1], k>> \in lost

(* What a copy prints as successful has its nonce used or pooled for good.   *)
(* Unless a submission of an earlier nonce was lost, it is the copy's own     *)
(* transaction that the pool keeps, and no other copy's: copies that count    *)
(* the same accounts' nonces never share one success.                        *)
SuccessIsOwned ==
    \A p \in Injectors : \A tx \in successful[p] :
        /\ tx[2] < nonce[tx[1]] \/ tx[2] \in pooled[tx[1]]
        /\ \/ LostBelow(tx)
           \/ tx \in entered[p] /\ \A q \in Injectors \ {p} : tx \notin entered[q]

(* Every transaction counted as successful gets into a block, unless a lost  *)
(* submission left a gap before it.                                          *)
CountedIsIncluded ==
    \A p \in Injectors, s \in Senders, n \in 0..(Count * Cardinality(Injectors)) :
        <<s, n>> \in successful[p] ~>
            (nonce[s] > n \/ \E k \in 0..n : <<s, k>> \in lost)

(* Every copy comes to its end, unless a submission was lost: with --wait    *)
(* none waits for a transaction that cannot be included.                     *)
InjectorsEnd == \A p \in Injectors : <>(pc[p] = "done" \/ lost # {})

(* What inject_transactions.py:15 says of --wait, "Wait for each tx to be    *)
(* included in block": every wait ends.                                      *)
EveryWaitEnds == \A p \in Injectors : pc[p] = "wait" ~> pc[p] # "wait"

=============================================================================
