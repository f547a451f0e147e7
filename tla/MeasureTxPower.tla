--------------------------- MODULE MeasureTxPower ---------------------------
(***************************************************************************)
(* scripts/measure_tx_power.py: runs of given transaction counts over one  *)
(* chain that keeps running.  A run reads the start block, injects         *)
(* transfers of Alice and Bob in turn, waits until no extrinsic is pending *)
(* and reads the end block.  The rows are written after the last run.      *)
(***************************************************************************)
EXTENDS TxPool, Sequences

CONSTANTS
    Alice, Bob,
    TxCounts,       \* the transaction count of each run, in order
    MaxHeight,      \* bound of the model: blocks authored
    FaultBound      \* bound of the model: connection faults and failed lookups

ASSUME MeasureAssumption ==
    /\ Alice # Bob
    /\ Senders = {Alice, Bob}
    /\ TxCounts \in Seq(Nat \ {0}) /\ TxCounts # <<>>
    /\ {MaxHeight, FaultBound} \subseteq Nat

VARIABLES
    sizes,          \* the chain: transfers in each block
    pc,
    i,              \* transactions injected in this run
    next,           \* alice_nonce and bob_nonce
    start_block,
    end_block,
    cleared,        \* what wait_for_pending_clear returned
    results,        \* the rows so far
    faults

chainVars == <<poolVars, sizes>>
runVars == <<pc, i, next, start_block, end_block, cleared>>
measureVars == <<chainVars, runVars, results, faults>>

MeasureInit ==
    /\ PoolInit
    /\ sizes = <<>>
    /\ pc = "start"
    /\ i = 0
    /\ next = [s \in Senders |-> 0]
    /\ start_block = 0
    /\ end_block = 0
    /\ cleared = FALSE
    /\ results = <<>>
    /\ faults = 0

(* The transaction count of the run that is next. *)
tx_count == TxCounts[Len(results) + 1]

height == Len(sizes)

Taken(upto) == (upto[Alice] - nonce[Alice]) + (upto[Bob] - nonce[Bob])

(* Aura authors empty blocks as well. *)
author_block ==
    /\ height < MaxHeight
    /\ \E upto \in Blocks :
          /\ author(upto)
          /\ sizes' = Append(sizes, Taken(upto))
    /\ UNCHANGED runVars

goto(where) == pc' = where

read_start_block_once ==
    /\ pc = "start"
    /\ start_block' = IF start_block = 0 THEN height ELSE start_block
    /\ i' = 0
    /\ goto("read_alice")
    /\ UNCHANGED <<chainVars, next, end_block, cleared>>

read_start_block ==
    /\ pc = "start"
    /\ start_block' = height
    /\ i' = 0
    /\ goto("read_alice")
    /\ UNCHANGED <<chainVars, next, end_block, cleared>>

read_nonce(s, here, there) ==
    /\ pc = here
    /\ \E n \in NonceReads(s) : next' = [next EXCEPT ![s] = n]
    /\ goto(there)
    /\ UNCHANGED <<chainVars, i, start_block, end_block, cleared>>

Sender(k) == IF k % 2 = 0 THEN Alice ELSE Bob

injecting_once_more == pc = "inject" /\ i <= tx_count

injecting == pc = "inject" /\ i < tx_count

inject_transaction ==
    /\ injecting
    /\ LET s == Sender(i)
       IN  /\ Accepts(s, next[s])
           /\ add(s, next[s])
           /\ next' = [next EXCEPT ![s] = @ + 1]
    /\ i' = i + 1
    /\ UNCHANGED <<sizes, pc, start_block, end_block, cleared>>

(* The exception of a refused extrinsic leaves the injection. *)
refused ==
    /\ injecting
    /\ ~Accepts(Sender(i), next[Sender(i)])
    /\ UNCHANGED chainVars

(* A connection fault while submitting; the extrinsic may have arrived. *)
broken ==
    /\ injecting
    /\ \/ UNCHANGED poolVars
       \/ Accepts(Sender(i), next[Sender(i)]) /\ add(Sender(i), next[Sender(i)])
    /\ UNCHANGED sizes

start_waiting ==
    /\ pc = "inject"
    /\ i = tx_count
    /\ goto("wait")
    /\ UNCHANGED <<chainVars, i, next, start_block, end_block, cleared>>

sees_clear_of_Alice == Ready(Alice) = {}

sees_clear == PendingExtrinsics = {}

wait_without_timeout ==
    /\ pc = "wait"
    /\ sees_clear
    /\ cleared' = TRUE
    /\ goto("end")
    /\ UNCHANGED <<chainVars, i, next, start_block, end_block>>

(* The loop polls until the list is empty or its time is over; whether the   *)
(* list emptied since the last poll is not looked at again.                  *)
wait_for_pending_clear ==
    /\ pc = "wait"
    /\ \/ sees_clear /\ cleared' = TRUE
       \/ cleared' = FALSE
    /\ goto("end")
    /\ UNCHANGED <<chainVars, i, next, start_block, end_block>>

read_end_block ==
    /\ pc = "end"
    /\ end_block' = height
    /\ goto("report")
    /\ UNCHANGED <<chainVars, i, next, start_block, cleared>>

one_run ==
    \/ read_start_block
    \/ read_nonce(Alice, "read_alice", "read_bob")
    \/ read_nonce(Bob, "read_bob", "inject")
    \/ inject_transaction
    \/ start_waiting
    \/ wait_for_pending_clear
    \/ read_end_block

(* get_extrinsics_in_range(start_block + 1, end_block): blocks whose lookup  *)
(* fails are left out.                                                       *)
InRange(unread) ==
    LET f[b \in 0..Len(sizes)] ==
            IF b <= start_block THEN 0
            ELSE f[b - 1] + (IF b \in unread THEN 0 ELSE sizes[b])
    IN  f[end_block]

run_step == one_run /\ UNCHANGED <<results, faults>>

fault == faults < FaultBound /\ faults' = faults + 1

(* Nothing catches the exceptions of a run: the script and its rows are gone. *)
run_raises ==
    /\ \/ refused /\ UNCHANGED faults
       \/ broken /\ fault
    /\ goto("crashed")
    /\ UNCHANGED <<i, next, start_block, end_block, cleared, results>>

row(unread) ==
    [tx_count |-> tx_count, actual_extrinsics |-> InRange(unread),
     start_block |-> start_block, end_block |-> end_block, cleared |-> cleared,
     complete |-> unread = {}]

(* The row of a run; the cooldowns between runs let blocks pass. *)
report ==
    /\ pc = "report"
    /\ \/ results' = Append(results, row({})) /\ UNCHANGED faults
       \/ fault /\ \E b \in (start_block + 1)..end_block : results' = Append(results, row({b}))
    /\ goto(IF Len(results) + 1 = Len(TxCounts) THEN "saved" ELSE "start")
    /\ UNCHANGED <<chainVars, i, next, start_block, end_block, cleared>>

script_step == run_step \/ run_raises \/ report

MeasureNext == script_step \/ (author_block /\ UNCHANGED <<results, faults>>)

MeasureSpec == MeasureInit /\ [][MeasureNext]_measureVars

(* The script takes its next step; nothing is assumed of the chain. *)
MeasureFairSpec == MeasureSpec /\ WF_measureVars(script_step)

-----------------------------------------------------------------------------

(* Every variable holds a value of its type, and no run injects more than    *)
(* its transactions.                                                         *)
MeasureTypeOK ==
    /\ nonce \in [Senders -> Nat]
    /\ pooled \in [Senders -> SUBSET Nat]
    /\ sizes \in Seq(Nat) /\ Len(sizes) <= MaxHeight
    /\ i \in Nat
    /\ next \in [Senders -> Nat]
    /\ start_block \in 0..MaxHeight
    /\ end_block \in 0..MaxHeight
    /\ cleared \in BOOLEAN
    /\ pc \in {"start", "read_alice", "read_bob", "inject", "wait", "end", "report",
               "saved", "crashed"}
    /\ Len(results) <= Len(TxCounts)
    /\ pc \in {"inject", "wait", "end", "report"} => i <= tx_count
    /\ \A k \in DOMAIN results :
          results[k].tx_count \in Nat /\ results[k].actual_extrinsics \in Nat
    /\ faults \in 0..FaultBound

(* No block is counted in two rows, and no row counts blocks of the future:  *)
(* timed-out waits move transactions to other rows but never double them.    *)
RangesDisjoint ==
    \A k \in DOMAIN results :
        /\ results[k].start_block <= results[k].end_block
        /\ \A j \in 1..(k - 1) : results[j].end_block <= results[k].start_block

(* A row counts exactly its run's transactions unless something shows in     *)
(* the waits: a row with too few has its own wait timed out or a block that   *)
(* could not be read, and a row with too many follows a timed-out wait.       *)
RowsExact ==
    \A k \in DOMAIN results :
        /\ results[k].actual_extrinsics < results[k].tx_count =>
              ~results[k].cleared \/ ~results[k].complete
        /\ results[k].actual_extrinsics > results[k].tx_count =>
              \E j \in 1..(k - 1) : ~results[j].cleared

(* The script ends whatever the chain does: every wait has its timeout.      *)
MeasureEnds == <>(pc \in {"saved", "crashed"})

=============================================================================
