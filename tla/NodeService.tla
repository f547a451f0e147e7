---------------------------- MODULE NodeService ----------------------------
(***************************************************************************)
(* The life of node processes and of their databases: new_partial and      *)
(* new_full of service.rs bring the parts of a node up in order, any step  *)
(* may fail, and command.rs runs other commands on the same database.      *)
(*                                                                         *)
(* A task of the TaskManager is essential or not.  When an essential one   *)
(* ends, the manager's future resolves, which the process waits for once   *)
(* new_full has returned, and the process goes down with all its tasks.    *)
(* A chain is the set of the slots of its blocks: a slot has one author.   *)
(***************************************************************************)
EXTENDS Naturals, FiniteSets

CONSTANTS
    Nodes,
    None,
    Specs,              \* what the nodes may be started for
    authority,          \* the nodes that run with --validator
    grandpa_disabled,   \* the nodes that run with --no-grandpa
    telemetry_endpoints, offchain_worker,   \* the nodes that have them configured
    LastSlot            \* bound of the model: no slot after this one

Slots == 1 .. LastSlot

VARIABLES
    phase,      \* how far the process has come
    tasks,      \* the tasks of its TaskManager that run
    store,      \* its database: genesis, best chain and finalized chain; or None
    wiped       \* whether the files of the open database were removed

nodeVars == <<phase, tasks, store, wiped>>

Phases == {"down", "partial", "networked", "serving", "authoring", "running"}

Tasks == {"telemetry", "txpool", "import-queue", "network", "offchain-worker", "rpc",
          "aura", "grandpa-voter"}

Stores == [genesis : Specs, best : SUBSET Slots, finalized : SUBSET Slots]

Prefix(c, d) == c \subseteq d /\ \A s \in c, t \in d \ c : s < t

(* The chain without its last k blocks. *)
Dropped(c, k) == {s \in c : Cardinality({t \in c : t > s}) >= k}

NodeInit ==
    /\ phase = [n \in Nodes |-> "down"]
    /\ tasks = [n \in Nodes |-> {}]
    /\ store = [n \in Nodes |-> None]
    /\ wiped = [n \in Nodes |-> FALSE]

-----------------------------------------------------------------------------
(* The database. *)

opened_afresh(n, spec) == [genesis |-> spec, best |-> {}, finalized |-> {}]

(* new_full_parts writes a genesis into an empty database.  One that holds a  *)
(* chain is taken as it is, whatever specification the process is given.      *)
opened(n, spec) ==
    IF store[n] = None THEN [genesis |-> spec, best |-> {}, finalized |-> {}] ELSE store[n]

(* What is left of the process once it has ended, for whatever reason. *)
ended(n) ==
    /\ phase' = [phase EXCEPT ![n] = "down"]
    /\ tasks' = [tasks EXCEPT ![n] = {}]
    /\ store' = IF wiped[n] THEN [store EXCEPT ![n] = None] ELSE store
    /\ wiped' = [wiped EXCEPT ![n] = FALSE]

-----------------------------------------------------------------------------
(* The start, in the order of the code. *)

comes_up(n, before, after, spawned) ==
    /\ phase[n] = before
    /\ phase' = [phase EXCEPT ![n] = after]
    /\ tasks' = [tasks EXCEPT ![n] = @ \cup spawned]

new_partial(n, spec) ==
    /\ comes_up(n, "down", "partial", {"txpool", "import-queue"}
                    \cup (IF n \in telemetry_endpoints THEN {"telemetry"} ELSE {}))
    /\ store' = [store EXCEPT ![n] = opened(n, spec)]
    /\ UNCHANGED wiped

build_network(n) ==
    /\ comes_up(n, "partial", "networked", {"network"}
                    \cup (IF n \in offchain_worker THEN {"offchain-worker"} ELSE {}))
    /\ UNCHANGED <<store, wiped>>

(* From here on the node answers RPC; it neither authors nor votes yet. *)
spawn_tasks(n) ==
    /\ comes_up(n, "networked", "serving", {"rpc"})
    /\ UNCHANGED <<store, wiped>>

start_aura(n) ==
    /\ comes_up(n, "serving", "authoring", IF n \in authority THEN {"aura"} ELSE {})
    /\ UNCHANGED <<store, wiped>>

run_grandpa_voter(n) ==
    /\ comes_up(n, "authoring", "running",
                IF n \in grandpa_disabled THEN {} ELSE {"grandpa-voter"})
    /\ UNCHANGED <<store, wiped>>

(* A `?` of new_full returns: the TaskManager is dropped with its tasks. *)
start_fails(n) ==
    /\ phase[n] \notin {"down", "running"}
    /\ ended(n)

start(n) ==
    \/ build_network(n)
    \/ spawn_tasks(n)
    \/ start_aura(n)
    \/ run_grandpa_voter(n)

-----------------------------------------------------------------------------
(* The end. *)

(* A task panics or returns. *)
task_ends(n, t) ==
    /\ t \in tasks[n]
    /\ tasks' = [tasks EXCEPT ![n] = @ \ {t}]
    /\ UNCHANGED <<phase, store, wiped>>

essential(n) ==
    {"txpool", "import-queue"}
        \cup (IF n \in authority THEN {"aura"} ELSE {})
        \cup (IF n \in grandpa_disabled THEN {} ELSE {"grandpa-voter"})

taken_down_without_voter(n) ==
    /\ phase[n] = "running"
    /\ ~(essential(n) \ {"grandpa-voter"} \subseteq tasks[n])
    /\ ended(n)

(* "if it fails we take down the service with it". *)
taken_down(n) ==
    /\ phase[n] = "running"
    /\ ~(essential(n) \subseteq tasks[n])
    /\ ended(n)

(* A signal or a crash of the process. *)
stopped(n) == phase[n] # "down" /\ ended(n)

-----------------------------------------------------------------------------
(* The other commands.  All but purge-chain open the database and fail while *)
(* another process has it open.                                              *)

command(n, result) ==
    /\ phase[n] = "down"
    /\ store' = [store EXCEPT ![n] = result]
    /\ UNCHANGED <<phase, tasks, wiped>>

(* check-block, export-blocks and export-state change nothing in a database  *)
(* that is there.                                                            *)
inspect(n, spec) == command(n, opened(n, spec))

(* import-blocks, from a file that another node exported. *)
import_blocks(n, spec, file) ==
    LET s == opened(n, spec)
    IN  /\ file.genesis = s.genesis
        /\ Prefix(s.finalized, file.best)
        /\ Cardinality(s.best) < Cardinality(file.best)
        /\ command(n, [s EXCEPT !.best = file.best])

revert_past_finality(n, spec, k) ==
    LET s == opened(n, spec) IN command(n, [s EXCEPT !.best = Dropped(@, k)])

(* Reverts k blocks, and none that is finalized. *)
revert(n, spec, k) ==
    LET s == opened(n, spec)
    IN  command(n, [s EXCEPT !.best = Dropped(@, k) \cup s.finalized])

(* Removes the directory, whether or not a process has it open: a node that  *)
(* runs goes on with files that are gone at its next start.                  *)
purge_chain(n) ==
    /\ store[n] # None
    /\ IF phase[n] = "down"
       THEN store' = [store EXCEPT ![n] = None] /\ UNCHANGED wiped
       ELSE wiped' = [wiped EXCEPT ![n] = TRUE] /\ UNCHANGED store
    /\ UNCHANGED <<phase, tasks>>

=============================================================================
