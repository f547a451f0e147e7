----------------------------- MODULE Consensus -----------------------------
(***************************************************************************)
(* A network of QX nodes: Aura authors blocks, GRANDPA finalizes them, over *)
(* the life cycle of the nodes and the genesis states they start from.     *)
(*                                                                         *)
(* Aura, GRANDPA and the block exchange are the polkadot-sdk's; here they  *)
(* are what service.rs asks of them.  A round of GRANDPA is one step of a  *)
(* supermajority that agrees on a common part of its chains.               *)
(***************************************************************************)
EXTENDS NodeService, ChainSpec

CONSTANTS
    force_authoring,    \* the nodes that run with --force-authoring
    VotingLag,          \* VotingRulesBuilder::default(): blocks behind the best one
    FailingTasks,       \* bound of the model: the tasks that may end
    FaultBound          \* bound of the model: failures and interventions

(* The nodes keep the chains of all Specs under one id, so in one directory.  *)
ASSUME NetworkAssumption ==
    /\ Specs \subseteq Named
    /\ \A s, t \in Specs : chain_id[s] = chain_id[t]
    /\ \A s \in Specs : IsFiniteSet(authorities(s))
    /\ None \notin Stores
    /\ {LastSlot, VotingLag, FaultBound} \subseteq Nat

VARIABLES
    slot,       \* of the clock, which the nodes share
    severed,    \* pairs of nodes that cannot reach each other
    faults,     \* how many there have been
    purged,     \* history: the nodes whose database was ever removed
    decided     \* history: the chains finalized in a round, with their genesis

vars == <<nodeVars, slot, severed, faults, purged, decided>>

genesis_of(n) == store[n].genesis

Chain(n) == store[n].best
Final(n) == store[n].finalized

-----------------------------------------------------------------------------
(* The network.  The protocol names contain the hash of the genesis block:   *)
(* nodes of different genesis states do not talk to each other.              *)

Connected(m, n) ==
    /\ m # n
    /\ "network" \in tasks[m] /\ "network" \in tasks[n]
    /\ genesis_of(m) = genesis_of(n)
    /\ {m, n} \notin severed

is_offline(n) == \A m \in Nodes : ~Connected(m, n)

-----------------------------------------------------------------------------
(* Aura. *)

SlotAuthor(spec, s) ==
    LET a == genesis[spec].authorities IN a[(s % Len(a)) + 1]

(* The clock: a slot passes whether or not a block came out of it. *)
tick ==
    /\ slot < LastSlot
    /\ slot' = slot + 1
    /\ UNCHANGED <<nodeVars, severed, faults, purged, decided>>

(* An authority of several that has no peer does not author unless forced. *)
author_block(n) ==
    /\ "aura" \in tasks[n]
    /\ slot # 0 /\ n = SlotAuthor(genesis_of(n), slot)
    /\ \A s \in Chain(n) : s < slot
    /\ is_offline(n) => \/ n \in force_authoring
                        \/ Len(genesis[genesis_of(n)].authorities) = 1
    /\ store' = [store EXCEPT ![n].best = @ \cup {slot}]
    /\ UNCHANGED <<phase, tasks, wiped, slot, severed, faults, purged, decided>>

(* Block import and LongestChain: a longer chain is followed, unless it      *)
(* leaves out what is final here.                                            *)
import_chain(n, m) ==
    /\ Connected(m, n) /\ "import-queue" \in tasks[n]
    /\ Cardinality(Chain(m)) > Cardinality(Chain(n))
    /\ Prefix(Final(n), Chain(m))
    /\ store' = [store EXCEPT ![n].best = Chain(m)]
    /\ UNCHANGED <<phase, tasks, wiped, slot, severed, faults, purged, decided>>

(* Justification import: what is final at a peer becomes final here, and the *)
(* best chain one that contains it.                                          *)
import_justification(n, m) ==
    /\ Connected(m, n) /\ "import-queue" \in tasks[n]
    /\ Final(n) # Final(m) /\ Prefix(Final(n), Final(m))
    /\ store' = [store EXCEPT
          ![n].finalized = Final(m),
          ![n].best = IF Prefix(Final(m), @) THEN @ ELSE Chain(m)]
    /\ UNCHANGED <<phase, tasks, wiped, slot, severed, faults, purged, decided>>

-----------------------------------------------------------------------------
(* GRANDPA. *)

(* The weights of all authorities are 1. *)
threshold(spec) ==
    LET n == Cardinality(authorities(spec)) IN n - ((n - 1) \div 3)

Quorums_of_half(spec) ==
    {Q \in SUBSET authorities(spec) : 2 * Cardinality(Q) >= Cardinality(authorities(spec))}

Quorums(spec) == {Q \in SUBSET authorities(spec) : Cardinality(Q) >= threshold(spec)}

Votes_without_keystore(n, spec) ==
    /\ n \in Nodes \ authority
    /\ "grandpa-voter" \in tasks[n]
    /\ genesis_of(n) = spec

(* Only authorities hand their keystore to the voter. *)
Votes(n, spec) ==
    /\ n \in Nodes \cap authority
    /\ "grandpa-voter" \in tasks[n]
    /\ genesis_of(n) = spec

(* What the voting rules let a voter vote for: nothing too close to its best *)
(* block, and nothing before what is final.                                  *)
VoteTarget(n) == Dropped(Chain(n), VotingLag) \cup Final(n)

finalize(spec, Q, chain) ==
    /\ \A n \in Q : /\ Votes(n, spec)
                    /\ Prefix(Final(n), chain) /\ Prefix(chain, VoteTarget(n))
    /\ \E n \in Q : Final(n) # chain
    /\ \A m, n \in Q : m # n => Connected(m, n)
    /\ store' = [n \in Nodes |->
          IF n \in Q THEN [store[n] EXCEPT !.finalized = chain] ELSE store[n]]
    /\ decided' = decided \cup {[genesis |-> spec, chain |-> chain]}
    /\ UNCHANGED <<phase, tasks, wiped, slot, severed, faults, purged>>

-----------------------------------------------------------------------------

Init ==
    /\ NodeInit
    /\ slot = 0
    /\ severed = {}
    /\ faults = 0
    /\ purged = {}
    /\ decided = {}

Unaffected == UNCHANGED <<slot, severed, purged, decided>>

fault == faults < FaultBound /\ faults' = faults + 1

sever(m, n) ==
    /\ fault
    /\ severed' = severed \cup {{m, n}}
    /\ UNCHANGED <<nodeVars, slot, purged, decided>>

heal(m, n) ==
    /\ {m, n} \in severed
    /\ severed' = severed \ {{m, n}}
    /\ UNCHANGED <<nodeVars, slot, faults, purged, decided>>

purge(n) ==
    /\ fault
    /\ purge_chain(n)
    /\ purged' = purged \cup {n}
    /\ UNCHANGED <<slot, severed, decided>>

launch(n) ==
    /\ \E spec \in Specs : new_partial(n, spec)
    /\ UNCHANGED faults /\ Unaffected

life(n) ==
    /\ start(n) \/ taken_down(n)
    /\ UNCHANGED faults /\ Unaffected

mishap(n) ==
    /\ start_fails(n) \/ stopped(n) \/ \E t \in FailingTasks : task_ends(n, t)
    /\ fault /\ Unaffected

operate(n) ==
    /\ \E spec \in Specs :
          \/ inspect(n, spec)
          \/ \E m \in Nodes : store[m] # None /\ import_blocks(n, spec, store[m])
          \/ \E k \in Slots : revert(n, spec, k)
    /\ fault /\ Unaffected

import(n) == \E m \in Nodes : import_chain(n, m) \/ import_justification(n, m)

grandpa == \E spec \in Specs : \E Q \in Quorums(spec) : \E chain \in SUBSET Slots :
    finalize(spec, Q, chain)

Next ==
    \/ tick
    \/ \E n \in Nodes :
          \/ launch(n) \/ life(n) \/ mishap(n) \/ operate(n) \/ purge(n)
          \/ author_block(n) \/ import(n)
          \/ \E m \in Nodes : sever(m, n) \/ heal(m, n)
    \/ grandpa

(* A process that is not stopped goes on with its start and waits for its    *)
(* tasks; authorities that can reach each other exchange blocks and vote.    *)
Fairness ==
    /\ \A n \in Nodes : WF_vars(life(n)) /\ WF_vars(import(n))
    /\ WF_vars(grandpa)

Spec == Init /\ [][Next]_vars /\ Fairness

-----------------------------------------------------------------------------

(* Every variable holds a value of its type; a node that is up has opened    *)
(* its database, what is final lies on the best chain, and no block is of a  *)
(* slot still to come.                                                       *)
NetworkTypeOK ==
    /\ phase \in [Nodes -> Phases]
    /\ tasks \in [Nodes -> SUBSET Tasks]
    /\ store \in [Nodes -> Stores \cup {None}]
    /\ wiped \in [Nodes -> BOOLEAN]
    /\ slot \in 0 .. LastSlot /\ faults \in 0 .. FaultBound
    /\ severed \subseteq SUBSET Nodes
    /\ purged \subseteq Nodes
    /\ decided \subseteq [genesis : Specs, chain : SUBSET Slots]
    /\ \A n \in Nodes :
          /\ phase[n] # "down" => store[n] # None
          /\ phase[n] = "down" => tasks[n] = {} /\ ~wiped[n]
          /\ store[n] # None => /\ Prefix(Final(n), Chain(n))
                                /\ Chain(n) \subseteq 1 .. slot

(* The rounds of GRANDPA never finalize two chains that exclude each other,  *)
(* in every order of crashes, partitions, reverts and restarts, as long as   *)
(* fewer authorities lost their database than two supermajorities share.     *)
FewPurged(spec) ==
    Cardinality(purged \cap authorities(spec))
      < 2 * threshold(spec) - Cardinality(authorities(spec))

FinalizedAgree ==
    \A c, d \in decided :
        c.genesis = d.genesis /\ FewPurged(c.genesis)
          => Prefix(c.chain, d.chain) \/ Prefix(d.chain, c.chain)

(* As long as a database is not purged, its genesis stays, though the node   *)
(* be started or another command run for another specification, and nothing  *)
(* that is final in it is reverted.                                          *)
FinalityKept ==
    [][\A n \in Nodes :
          store[n] # None /\ store'[n] # None
            => /\ store'[n].genesis = store[n].genesis
               /\ Prefix(store[n].finalized, store'[n].finalized)]_vars

(* What service.rs says of Aura and the voter, and of the pool and import    *)
(* queue by spawning them as essential: "if it fails we take down the        *)
(* service with it".  No node goes on for ever without one of them.          *)
EssentialFailureStops ==
    \A n \in Nodes :
        ( /\ phase[n] = "running"
          /\ \/ {"txpool", "import-queue"} \ tasks[n] # {}
             \/ n \in authority /\ "aura" \notin tasks[n]
             \/ n \notin grandpa_disabled /\ "grandpa-voter" \notin tasks[n] )
        ~> phase[n] = "down"

(* The authorities of a genesis all run and reach each other. *)
Healthy(spec) ==
    \A n \in authorities(spec) :
        /\ n \in Nodes /\ phase[n] = "running"
        /\ {"network", "import-queue", "aura"} \subseteq tasks[n]
        /\ genesis_of(n) = spec
        /\ \A m \in authorities(spec) : {m, n} \notin severed

(* The longest chain that all authorities may vote for. *)
CommonTarget(spec) ==
    UNION {c \in SUBSET Slots : \A n \in authorities(spec) : Prefix(c, VoteTarget(n))}

(* When the authorities are up and connected for good, everything they can   *)
(* agree on becomes final at each of them.                                   *)
FinalityFollows ==
    \A spec \in Specs :
        <>[]Healthy(spec)
          => <>[](/\ Healthy(spec)
                  /\ \A n \in authorities(spec) : Final(n) = CommonTarget(spec))

=============================================================================
