-------------------------- MODULE Consensus_proofs --------------------------
(***************************************************************************)
(* Finality for every number of nodes, every set of authorities, every     *)
(* length of the chain and any number of failures.                         *)
(***************************************************************************)
EXTENDS Consensus, FiniteSetTheorems, TLAPS

-----------------------------------------------------------------------------
(* Chains and their prefixes. *)

(* Prefixes of prefixes are prefixes. *)
LEMMA PrefixTransitive ==
    ASSUME NEW b, NEW c, NEW d, Prefix(b, c), Prefix(c, d)
    PROVE  Prefix(b, d)
  BY DEF Prefix

(* A chain is a prefix of itself. *)
LEMMA PrefixReflexive == ASSUME NEW c PROVE Prefix(c, c)
  BY DEF Prefix

(* Two prefixes of one chain do not exclude each other. *)
LEMMA PrefixesAgree ==
    ASSUME NEW b, NEW c, NEW d \in SUBSET Nat, Prefix(b, d), Prefix(c, d)
    PROVE  Prefix(b, c) \/ Prefix(c, b)
<1>1. CASE b \subseteq c
  BY <1>1 DEF Prefix
<1>2. CASE ~(b \subseteq c)
  <2>1. PICK x \in b : x \notin c
    BY <1>2
  <2>2. c \subseteq b
    <3> SUFFICES ASSUME NEW y \in c, y \notin b PROVE FALSE
      OBVIOUS
    <3>1. x < y /\ y < x
      BY <2>1 DEF Prefix
    <3>2. x \in Nat /\ y \in Nat
      BY DEF Prefix
    <3> QED
      BY <3>1, <3>2
  <2> QED
    BY <2>2 DEF Prefix
<1> QED
  BY <1>1, <1>2

(* A chain without its last blocks is a prefix of it. *)
LEMMA DroppedIsPrefix ==
    ASSUME LastSlot \in Nat, NEW c \in SUBSET Slots, NEW k \in Nat
    PROVE  Prefix(Dropped(c, k), c)
<1> SUFFICES ASSUME NEW s \in Dropped(c, k), NEW t \in c \ Dropped(c, k)
             PROVE  s < t
  BY DEF Prefix, Dropped
<1> DEFINE After(x) == {u \in c : u > x}
<1>1. s \in Nat /\ t \in Nat /\ c \subseteq Nat
  BY DEF Dropped, Slots
<1>2. IsFiniteSet(c)
  <2>1. IsFiniteSet(1 .. LastSlot)
    BY FS_Interval
  <2> QED
    BY <2>1, FS_Subset DEF Slots
<1>3. Cardinality(After(s)) >= k /\ ~(Cardinality(After(t)) >= k)
  BY DEF Dropped
<1>4. IsFiniteSet(After(s)) /\ IsFiniteSet(After(t))
  BY <1>2, FS_Subset
<1>5. Cardinality(After(s)) \in Nat /\ Cardinality(After(t)) \in Nat
  BY <1>4, FS_CardinalityType
<1>6. CASE ~(s < t)
  <2>1. ASSUME NEW u \in c, u > s
        PROVE  u > t
    BY <1>1, <1>6, <2>1
  <2>2. After(s) \subseteq After(t)
    BY <2>1
  <2>3. Cardinality(After(s)) <= Cardinality(After(t))
    BY <1>4, <2>2, FS_Subset
  <2> QED
    BY <1>3, <1>5, <2>3
<1> QED
  BY <1>6

-----------------------------------------------------------------------------
(* Supermajorities. *)

(* Two supermajorities share more members than have lost their database.     *)
LEMMA QuorumsMeet ==
    ASSUME NEW spec \in Specs, FewPurged(spec),
           NEW Q \in Quorums(spec), NEW R \in Quorums(spec)
    PROVE  \E n \in Q \cap R : n \notin purged
<1> DEFINE A == authorities(spec)
           P == purged \cap A
           th == threshold(spec)
<1>1. IsFiniteSet(A)
  BY NetworkAssumption
<1>2. /\ Q \subseteq A /\ R \subseteq A
      /\ Cardinality(Q) >= th /\ Cardinality(R) >= th
  BY DEF Quorums
<1>3. /\ IsFiniteSet(Q) /\ IsFiniteSet(R) /\ IsFiniteSet(P)
      /\ IsFiniteSet(Q \cap R) /\ IsFiniteSet(Q \cup R)
  BY <1>1, <1>2, FS_Subset, FS_Union
<1>4. /\ Cardinality(A) \in Nat /\ Cardinality(Q) \in Nat /\ Cardinality(R) \in Nat
      /\ Cardinality(Q \cap R) \in Nat /\ Cardinality(Q \cup R) \in Nat
      /\ Cardinality(P) \in Nat
  BY <1>1, <1>3, FS_CardinalityType
<1>5. Cardinality(Q \cup R) = Cardinality(Q) + Cardinality(R) - Cardinality(Q \cap R)
  BY <1>3, FS_Union
<1>6. Cardinality(Q \cup R) <= Cardinality(A)
  <2>1. Q \cup R \subseteq A
    BY <1>2
  <2> QED
    BY <1>1, <2>1, FS_Subset
<1>7. th \in Int
  BY <1>4 DEF threshold
<1>8. Cardinality(P) < 2 * th - Cardinality(A)
  BY DEF FewPurged
<1>9. Cardinality(P) < Cardinality(Q \cap R)
  <2> HIDE DEF A, P, th
  <2> QED
    BY <1>2, <1>4, <1>5, <1>6, <1>7, <1>8
<1>10. ~(Q \cap R \subseteq P)
  <2>1. Q \cap R \subseteq P => Cardinality(Q \cap R) <= Cardinality(P)
    BY <1>3, FS_Subset
  <2> QED
    BY <1>4, <1>9, <2>1
<1> QED
  BY <1>2, <1>10

-----------------------------------------------------------------------------
(* What a step does to the databases. *)

(* A database a node may be in at some slot. *)
Sound(s, now) ==
    /\ s \in Stores
    /\ Prefix(s.finalized, s.best)
    /\ s.best \subseteq 1 .. now

(* The second database of a node keeps the genesis and the finality of the   *)
(* first.                                                                    *)
Keeps(s, t) == s.genesis = t.genesis /\ Prefix(s.finalized, t.finalized)

(* A step that loses no database but a purged one, and no finality. *)
KeepingStep ==
    /\ purged \subseteq purged'
    /\ \A n \in Nodes :
          store[n] # None =>
              \/ store'[n] = None /\ n \in purged'
              \/ store'[n] # None /\ Keeps(store[n], store'[n])

(* Files are removed under a running node by purge-chain only. *)
WipedArePurged == \A n \in Nodes : wiped[n] => n \in purged

NetworkInv == NetworkTypeOK /\ WipedArePurged

(* The constants, each of its type. *)
LEMMA NetworkConstants ==
    /\ LastSlot \in Nat /\ VotingLag \in Nat /\ FaultBound \in Nat
    /\ None \notin Stores
    /\ Slots \subseteq Nat
  BY NetworkAssumption DEF Slots

(* The parts of the type invariant that speak of one node. *)
LEMMA NodeFacts ==
    ASSUME NetworkInv, NEW n \in Nodes
    PROVE  /\ phase[n] \in Phases /\ tasks[n] \subseteq Tasks /\ wiped[n] \in BOOLEAN
           /\ store[n] # None => Sound(store[n], slot)
           /\ tasks[n] # {} => phase[n] # "down"
           /\ phase[n] # "down" => store[n] # None
           /\ wiped[n] => n \in purged
<1>1. phase[n] \in Phases /\ tasks[n] \subseteq Tasks /\ wiped[n] \in BOOLEAN
  BY DEF NetworkInv, NetworkTypeOK
<1>2. store[n] # None => Sound(store[n], slot)
  BY DEF NetworkInv, NetworkTypeOK, Sound, Final, Chain
<1> QED
  BY <1>1, <1>2 DEF NetworkInv, NetworkTypeOK, WipedArePurged

(* Nothing but one database changes, into a sound one that keeps what was    *)
(* there.                                                                    *)
LEMMA StoreChange ==
    ASSUME NetworkInv, NEW n \in Nodes, NEW s, Sound(s, slot),
           store[n] # None => Keeps(store[n], s),
           store' = [store EXCEPT ![n] = s],
           UNCHANGED <<phase, tasks, wiped, slot, severed, purged, decided>>,
           faults' \in 0 .. FaultBound
    PROVE  NetworkInv' /\ KeepingStep
<1>1. s \in Stores /\ s # None
  BY NetworkConstants DEF Sound
<1>2. store \in [Nodes -> Stores \cup {None}]
  BY DEF NetworkInv, NetworkTypeOK
<1>3. store' \in [Nodes -> Stores \cup {None}]
  BY <1>1, <1>2
<1>4. store'[n] = s /\ \A m \in Nodes : m # n => store'[m] = store[m]
  BY <1>2
<1>5. ASSUME NEW m \in Nodes
      PROVE  /\ phase'[m] # "down" => store'[m] # None
             /\ phase'[m] = "down" => tasks'[m] = {} /\ ~wiped'[m]
             /\ store'[m] # None => /\ Prefix(store'[m].finalized, store'[m].best)
                                    /\ store'[m].best \subseteq 1 .. slot'
  <2>1. CASE m = n
    BY <1>1, <1>4, <2>1 DEF Sound, NetworkInv, NetworkTypeOK
  <2>2. CASE m # n
    BY <1>4, <2>2 DEF NetworkInv, NetworkTypeOK, Final, Chain
  <2> QED
    BY <2>1, <2>2
<1>6. NetworkTypeOK'
  BY <1>3, <1>5 DEF NetworkInv, NetworkTypeOK, Final, Chain
<1>7. KeepingStep
  BY <1>1, <1>4, PrefixReflexive DEF KeepingStep, Keeps
<1> QED
  BY <1>6, <1>7 DEF NetworkInv, WipedArePurged

(* The process of one node changes, and at most its database with it. *)
LEMMA NodeChange ==
    ASSUME NetworkInv, NEW n \in Nodes,
           phase' \in [Nodes -> Phases], tasks' \in [Nodes -> SUBSET Tasks],
           store' \in [Nodes -> Stores \cup {None}], wiped' \in [Nodes -> BOOLEAN],
           \A m \in Nodes : m # n =>
              /\ phase'[m] = phase[m] /\ tasks'[m] = tasks[m]
              /\ store'[m] = store[m] /\ wiped'[m] = wiped[m],
           phase'[n] # "down" => store'[n] # None,
           phase'[n] = "down" => tasks'[n] = {} /\ ~wiped'[n],
           store'[n] # None => Sound(store'[n], slot),
           wiped'[n] => n \in purged',
           store[n] # None => \/ store'[n] = None /\ n \in purged'
                              \/ store'[n] # None /\ Keeps(store[n], store'[n]),
           purged \subseteq purged', purged' \subseteq Nodes,
           UNCHANGED <<slot, severed, decided>>, faults' \in 0 .. FaultBound
    PROVE  NetworkInv' /\ KeepingStep
<1>1. ASSUME NEW m \in Nodes
      PROVE  /\ phase'[m] # "down" => store'[m] # None
             /\ phase'[m] = "down" => tasks'[m] = {} /\ ~wiped'[m]
             /\ store'[m] # None => /\ Prefix(store'[m].finalized, store'[m].best)
                                    /\ store'[m].best \subseteq 1 .. slot'
             /\ wiped'[m] => m \in purged'
  <2>1. CASE m = n
    BY <2>1 DEF Sound
  <2>2. CASE m # n
    BY <2>2 DEF NetworkInv, NetworkTypeOK, WipedArePurged, Final, Chain
  <2> QED
    BY <2>1, <2>2
<1>2. NetworkTypeOK'
  BY <1>1 DEF NetworkInv, NetworkTypeOK, Final, Chain
<1>3. ASSUME NEW m \in Nodes, store[m] # None
      PROVE  \/ store'[m] = None /\ m \in purged'
             \/ store'[m] # None /\ Keeps(store[m], store'[m])
  <2>1. CASE m = n
    BY <1>3, <2>1
  <2>2. CASE m # n
    BY <1>3, <2>2, PrefixReflexive DEF Keeps
  <2> QED
    BY <2>1, <2>2
<1> QED
  BY <1>1, <1>2, <1>3 DEF NetworkInv, WipedArePurged, KeepingStep

(* A process ends, for whatever reason: its database stays, unless the files *)
(* were removed while it ran.                                                *)
LEMMA Ended ==
    ASSUME NetworkInv, NEW n \in Nodes, ended(n),
           Unaffected, faults' \in 0 .. FaultBound
    PROVE  NetworkInv' /\ KeepingStep
<1>1. /\ phase \in [Nodes -> Phases] /\ tasks \in [Nodes -> SUBSET Tasks]
      /\ store \in [Nodes -> Stores \cup {None}] /\ wiped \in [Nodes -> BOOLEAN]
      /\ purged \subseteq Nodes
  BY DEF NetworkInv, NetworkTypeOK
<1>2. /\ phase' = [phase EXCEPT ![n] = "down"] /\ tasks' = [tasks EXCEPT ![n] = {}]
      /\ wiped' = [wiped EXCEPT ![n] = FALSE]
      /\ store' = IF wiped[n] THEN [store EXCEPT ![n] = None] ELSE store
      /\ UNCHANGED <<slot, severed, purged, decided>>
  BY DEF ended, Unaffected
<1>3. /\ phase' \in [Nodes -> Phases] /\ tasks' \in [Nodes -> SUBSET Tasks]
      /\ store' \in [Nodes -> Stores \cup {None}] /\ wiped' \in [Nodes -> BOOLEAN]
  BY <1>1, <1>2 DEF Phases
<1>4. (store'[n] = None /\ n \in purged) \/ store'[n] = store[n]
  BY <1>1, <1>2, NodeFacts
<1>5. store'[n] # None => Sound(store'[n], slot)
  BY <1>4, NodeFacts
<1>6. store[n] # None => \/ store'[n] = None /\ n \in purged'
                         \/ store'[n] # None /\ Keeps(store[n], store'[n])
  BY <1>2, <1>4, PrefixReflexive DEF Keeps
<1> QED
  BY <1>1, <1>2, <1>3, <1>5, <1>6, NodeChange

(* Parts of a process come up, or one of its tasks ends: it stays up. *)
LEMMA StaysUp ==
    ASSUME NetworkInv, NEW n \in Nodes, phase[n] # "down",
           NEW p \in Phases, p # "down", NEW T \in SUBSET Tasks,
           phase' = [phase EXCEPT ![n] = p], tasks' = [tasks EXCEPT ![n] = T],
           UNCHANGED <<store, wiped>>, Unaffected, faults' \in 0 .. FaultBound
    PROVE  NetworkInv' /\ KeepingStep
<1>1. /\ phase \in [Nodes -> Phases] /\ tasks \in [Nodes -> SUBSET Tasks]
      /\ store \in [Nodes -> Stores \cup {None}] /\ wiped \in [Nodes -> BOOLEAN]
      /\ purged \subseteq Nodes
  BY DEF NetworkInv, NetworkTypeOK
<1>2. phase' \in [Nodes -> Phases] /\ tasks' \in [Nodes -> SUBSET Tasks] /\ phase'[n] = p
  BY <1>1
<1>3. store[n] # None => Keeps(store[n], store'[n])
  BY PrefixReflexive DEF Keeps
<1> QED
  BY <1>1, <1>2, <1>3, NodeFacts, NodeChange DEF Unaffected

(* A database that is opened is sound and keeps what was there. *)
LEMMA OpenedIsSound ==
    ASSUME NetworkInv, NEW n \in Nodes, NEW spec \in Specs
    PROVE  /\ Sound(opened(n, spec), slot)
           /\ store[n] # None => opened(n, spec) = store[n]
<1>1. CASE store[n] = None
  BY <1>1 DEF opened, Sound, Stores, Prefix
<1>2. CASE store[n] # None
  BY <1>2, NodeFacts DEF opened
<1> QED
  BY <1>1, <1>2

-----------------------------------------------------------------------------
(* The steps, one by one. *)

(* A failure is counted up to the bound. *)
LEMMA FaultType ==
    ASSUME NetworkInv, fault \/ UNCHANGED faults
    PROVE  faults' \in 0 .. FaultBound
  BY NetworkConstants DEF NetworkInv, NetworkTypeOK, fault

(* A process starts and opens its database. *)
LEMMA LaunchStep ==
    ASSUME NetworkInv, NEW n \in Nodes, launch(n)
    PROVE  NetworkInv' /\ KeepingStep
<1>1. PICK spec \in Specs : new_partial(n, spec)
  BY DEF launch
<1>2. faults' \in 0 .. FaultBound /\ UNCHANGED <<slot, severed, purged, decided>>
  BY FaultType DEF launch, Unaffected
<1>3. /\ phase \in [Nodes -> Phases] /\ tasks \in [Nodes -> SUBSET Tasks]
      /\ store \in [Nodes -> Stores \cup {None}] /\ wiped \in [Nodes -> BOOLEAN]
      /\ purged \subseteq Nodes
  BY DEF NetworkInv, NetworkTypeOK
<1> DEFINE spawned == {"txpool", "import-queue"}
                         \cup (IF n \in telemetry_endpoints THEN {"telemetry"} ELSE {})
<1>4. /\ phase' = [phase EXCEPT ![n] = "partial"]
      /\ tasks' = [tasks EXCEPT ![n] = @ \cup spawned]
      /\ store' = [store EXCEPT ![n] = opened(n, spec)]
      /\ wiped' = wiped
  BY <1>1 DEF new_partial, comes_up
<1>5. Sound(opened(n, spec), slot) /\ opened(n, spec) \in Stores /\ opened(n, spec) # None
  BY OpenedIsSound, NetworkConstants DEF Sound
<1>6. phase' \in [Nodes -> Phases] /\ tasks' \in [Nodes -> SUBSET Tasks] /\ phase'[n] = "partial"
  BY <1>3, <1>4 DEF Phases, Tasks
<1>7. store' \in [Nodes -> Stores \cup {None}] /\ store'[n] = opened(n, spec)
  BY <1>3, <1>4, <1>5
<1>8. store[n] # None => Keeps(store[n], store'[n])
  BY <1>7, OpenedIsSound, PrefixReflexive DEF Keeps
<1> QED
  BY <1>2, <1>3, <1>4, <1>5, <1>6, <1>7, <1>8, NodeFacts, NodeChange

(* A process goes on with its start, or an essential task takes it down. *)
LEMMA LifeStep ==
    ASSUME NetworkInv, NEW n \in Nodes, life(n)
    PROVE  NetworkInv' /\ KeepingStep
<1>1. faults' \in 0 .. FaultBound /\ Unaffected
  BY FaultType DEF life
<1>2. CASE taken_down(n)
  BY <1>1, <1>2, Ended DEF taken_down
<1>3. CASE start(n)
  <2>1. PICK p \in Phases, q \in Phases, new \in SUBSET Tasks :
           p # "down" /\ q # "down" /\ comes_up(n, p, q, new) /\ UNCHANGED <<store, wiped>>
    BY <1>3 DEF start, build_network, spawn_tasks, start_aura, run_grandpa_voter, Phases, Tasks
  <2>2. tasks[n] \cup new \in SUBSET Tasks
    BY NodeFacts
  <2>3. /\ phase[n] # "down" /\ phase' = [phase EXCEPT ![n] = q]
        /\ tasks' = [tasks EXCEPT ![n] = tasks[n] \cup new]
    BY <2>1 DEF comes_up
  <2> QED
    BY <1>1, <2>1, <2>2, <2>3, StaysUp
<1> QED
  BY <1>2, <1>3 DEF life

(* A start fails, a process is stopped, or a task ends. *)
LEMMA MishapStep ==
    ASSUME NetworkInv, NEW n \in Nodes, mishap(n)
    PROVE  NetworkInv' /\ KeepingStep
<1>1. faults' \in 0 .. FaultBound /\ Unaffected
  BY FaultType DEF mishap
<1>2. CASE start_fails(n) \/ stopped(n)
  BY <1>1, <1>2, Ended DEF start_fails, stopped
<1>3. ASSUME NEW t \in FailingTasks, task_ends(n, t)
      PROVE  NetworkInv' /\ KeepingStep
  <2>1. t \in tasks[n] /\ tasks' = [tasks EXCEPT ![n] = tasks[n] \ {t}]
        /\ UNCHANGED <<phase, store, wiped>>
    BY <1>3 DEF task_ends
  <2>2. phase[n] # "down" /\ phase[n] \in Phases /\ tasks[n] \ {t} \in SUBSET Tasks
    BY <2>1, NodeFacts
  <2>3. phase' = [phase EXCEPT ![n] = phase[n]]
    BY <2>1 DEF NetworkInv, NetworkTypeOK
  <2> QED
    BY <1>1, <2>1, <2>2, <2>3, StaysUp
<1> QED
  BY <1>2, <1>3 DEF mishap

(* The commands that open a database change its best chain only. *)
LEMMA OperateStep ==
    ASSUME NetworkInv, NEW n \in Nodes, operate(n)
    PROVE  NetworkInv' /\ KeepingStep
<1>1. faults' \in 0 .. FaultBound /\ UNCHANGED <<slot, severed, purged, decided>>
  BY FaultType DEF operate, Unaffected
<1>2. ASSUME NEW s, Sound(s, slot), store[n] # None => Keeps(store[n], s), command(n, s)
      PROVE  NetworkInv' /\ KeepingStep
  BY <1>1, <1>2, StoreChange DEF command
<1>3. ASSUME NEW spec \in Specs, NEW b \in SUBSET (1 .. slot),
             Prefix(opened(n, spec).finalized, b),
             command(n, [opened(n, spec) EXCEPT !.best = b])
      PROVE  NetworkInv' /\ KeepingStep
  <2> DEFINE s == opened(n, spec)
             r == [opened(n, spec) EXCEPT !.best = b]
  <2>1. Sound(s, slot) /\ (store[n] # None => s = store[n])
    BY OpenedIsSound
  <2>2. 1 .. slot \subseteq Slots
    BY NetworkConstants DEF NetworkInv, NetworkTypeOK, Slots
  <2>3. /\ r \in Stores /\ r.genesis = s.genesis /\ r.finalized = s.finalized /\ r.best = b
    BY <2>1, <2>2 DEF Sound, Stores
  <2>4. Sound(r, slot) /\ Keeps(s, r)
    BY <1>3, <2>3, PrefixReflexive DEF Sound, Keeps
  <2> QED
    BY <1>2, <1>3, <2>1, <2>4
<1>4. ASSUME NEW spec \in Specs, inspect(n, spec)
      PROVE  NetworkInv' /\ KeepingStep
  BY <1>2, <1>4, OpenedIsSound, PrefixReflexive DEF inspect, Keeps
<1>5. ASSUME NEW spec \in Specs, NEW m \in Nodes, store[m] # None,
             import_blocks(n, spec, store[m])
      PROVE  NetworkInv' /\ KeepingStep
  <2>1. store[m].best \in SUBSET (1 .. slot)
    BY <1>5, NodeFacts DEF Sound
  <2> QED
    BY <1>3, <1>5, <2>1 DEF import_blocks
<1>6. ASSUME NEW spec \in Specs, NEW k \in Slots, revert(n, spec, k)
      PROVE  NetworkInv' /\ KeepingStep
  <2> DEFINE s == opened(n, spec)
             b == Dropped(s.best, k) \cup s.finalized
  <2>1. Prefix(s.finalized, s.best) /\ s.best \subseteq 1 .. slot
    BY OpenedIsSound DEF Sound
  <2>2. b \in SUBSET (1 .. slot) /\ Prefix(s.finalized, b)
    BY <2>1 DEF Prefix, Dropped
  <2>3. command(n, [s EXCEPT !.best = b])
    BY <1>6 DEF revert
  <2> QED
    BY <1>3, <2>2, <2>3
<1> QED
  BY <1>4, <1>5, <1>6 DEF operate

(* purge-chain removes a database, or its files under a running node. *)
LEMMA PurgeStep ==
    ASSUME NetworkInv, NEW n \in Nodes, purge(n)
    PROVE  NetworkInv' /\ KeepingStep
<1>1. /\ faults' \in 0 .. FaultBound /\ UNCHANGED <<phase, tasks, slot, severed, decided>>
      /\ purged' = purged \cup {n} /\ store[n] # None
  BY FaultType DEF purge, purge_chain
<1>2. /\ phase \in [Nodes -> Phases] /\ tasks \in [Nodes -> SUBSET Tasks]
      /\ store \in [Nodes -> Stores \cup {None}] /\ wiped \in [Nodes -> BOOLEAN]
      /\ purged \subseteq Nodes
  BY DEF NetworkInv, NetworkTypeOK
<1>3. CASE phase[n] = "down"
  <2>1. store' = [store EXCEPT ![n] = None] /\ UNCHANGED wiped
    BY <1>3 DEF purge, purge_chain
  <2>2. store' \in [Nodes -> Stores \cup {None}] /\ store'[n] = None
    BY <1>2, <2>1
  <2>3. tasks[n] = {} /\ ~wiped[n]
    BY <1>3, NodeFacts DEF NetworkInv, NetworkTypeOK
  <2> QED
    BY <1>1, <1>2, <1>3, <2>1, <2>2, <2>3, NodeChange
<1>4. CASE phase[n] # "down"
  <2>1. wiped' = [wiped EXCEPT ![n] = TRUE] /\ UNCHANGED store
    BY <1>4 DEF purge, purge_chain
  <2>2. wiped' \in [Nodes -> BOOLEAN]
    BY <1>2, <2>1
  <2>3. Keeps(store[n], store'[n])
    BY <2>1, PrefixReflexive DEF Keeps
  <2> QED
    BY <1>1, <1>2, <1>4, <2>1, <2>2, <2>3, NodeFacts, NodeChange
<1> QED
  BY <1>3, <1>4

(* A node that authors, imports or has its network up has a sound database.  *)
LEMMA AtWork ==
    ASSUME NetworkInv, NEW n \in Nodes, tasks[n] # {}
    PROVE  Sound(store[n], slot) /\ store[n] # None
  BY NodeFacts

(* An author puts its block on top of its best chain. *)
LEMMA AuthorStep ==
    ASSUME NetworkInv, NEW n \in Nodes, author_block(n)
    PROVE  NetworkInv' /\ KeepingStep
<1>1. /\ UNCHANGED <<phase, tasks, wiped, slot, severed, purged, decided>>
      /\ faults' \in 0 .. FaultBound
  BY FaultType DEF author_block
<1> DEFINE s == store[n]
           r == [store[n] EXCEPT !.best = store[n].best \cup {slot}]
<1>2. Sound(s, slot)
  BY AtWork DEF author_block
<1>3. store' = [store EXCEPT ![n] = r]
  BY DEF author_block
<1>4. slot \in Slots /\ slot \in 1 .. slot /\ \A x \in s.best : x < slot
  BY NetworkConstants DEF author_block, NetworkInv, NetworkTypeOK, Slots, Chain
<1>5. r \in Stores /\ r.genesis = s.genesis /\ r.finalized = s.finalized
      /\ r.best = s.best \cup {slot}
  BY <1>2, <1>4 DEF Sound, Stores
<1>6. Prefix(s.finalized, s.best \cup {slot})
  BY <1>2, <1>4 DEF Sound, Prefix
<1>7. Sound(r, slot) /\ Keeps(s, r)
  BY <1>2, <1>4, <1>5, <1>6, PrefixReflexive DEF Sound, Keeps
<1> QED
  BY <1>1, <1>3, <1>7, StoreChange

(* A longer chain or a justification of a peer is imported. *)
LEMMA ImportStep ==
    ASSUME NetworkInv, NEW n \in Nodes, import(n)
    PROVE  NetworkInv' /\ KeepingStep
<1>1. PICK m \in Nodes : import_chain(n, m) \/ import_justification(n, m)
  BY DEF import
<1>2. /\ UNCHANGED <<phase, tasks, wiped, slot, severed, purged, decided>>
      /\ faults' \in 0 .. FaultBound
  BY <1>1, FaultType DEF import_chain, import_justification
<1> DEFINE s == store[n]
           t == store[m]
<1>3. Sound(s, slot) /\ Sound(t, slot)
  BY <1>1, AtWork DEF import_chain, import_justification, Connected
<1>4. CASE import_chain(n, m)
  <2> DEFINE r == [store[n] EXCEPT !.best = store[m].best]
  <2>1. store' = [store EXCEPT ![n] = r] /\ Prefix(s.finalized, t.best)
    BY <1>4 DEF import_chain, Chain, Final
  <2>2. r \in Stores /\ r.genesis = s.genesis /\ r.finalized = s.finalized /\ r.best = t.best
    BY <1>3 DEF Sound, Stores
  <2>3. Sound(r, slot) /\ Keeps(s, r)
    BY <1>3, <2>1, <2>2, PrefixReflexive DEF Sound, Keeps
  <2> QED
    BY <1>2, <2>1, <2>3, StoreChange
<1>5. CASE import_justification(n, m)
  <2> DEFINE b == IF Prefix(store[m].finalized, store[n].best)
                  THEN store[n].best ELSE store[m].best
             r == [store[n] EXCEPT !.finalized = store[m].finalized, !.best = b]
  <2>1. store' = [store EXCEPT ![n] = r] /\ Prefix(s.finalized, t.finalized)
    BY <1>5 DEF import_justification, Chain, Final
  <2>2. b \in SUBSET Slots /\ b \subseteq 1 .. slot /\ Prefix(t.finalized, b)
    BY <1>3 DEF Sound, Stores
  <2>3. r \in Stores /\ r.genesis = s.genesis /\ r.finalized = t.finalized /\ r.best = b
    <3> HIDE DEF b
    <3> QED
      BY <1>3, <2>2 DEF Sound, Stores
  <2>4. Sound(r, slot) /\ Keeps(s, r)
    BY <2>1, <2>2, <2>3 DEF Sound, Keeps
  <2> QED
    BY <1>2, <2>1, <2>4, StoreChange
<1> QED
  BY <1>1, <1>4, <1>5

(* What a voter votes for lies on its best chain. *)
LEMMA TargetIsPrefix ==
    ASSUME NetworkInv, NEW n \in Nodes, Sound(store[n], slot)
    PROVE  Prefix(VoteTarget(n), store[n].best)
<1>1. store[n].best \in SUBSET Slots /\ Prefix(store[n].finalized, store[n].best)
  BY DEF Sound, Stores
<1>2. Prefix(Dropped(store[n].best, VotingLag), store[n].best)
  BY <1>1, DroppedIsPrefix, NetworkConstants
<1> QED
  BY <1>1, <1>2 DEF Prefix, VoteTarget, Chain, Final

(* A round of GRANDPA: its members have the chain final, and nothing that    *)
(* was final there is given up.                                              *)
LEMMA FinalizeStep ==
    ASSUME NetworkInv, NEW spec \in Specs, NEW Q \in Quorums(spec),
           NEW chain \in SUBSET Slots, finalize(spec, Q, chain)
    PROVE  /\ NetworkInv' /\ KeepingStep
           /\ \A n \in Q : /\ n \in Nodes /\ store'[n] # None
                            /\ store'[n].genesis = spec /\ store'[n].finalized = chain
<1>1. ASSUME NEW n \in Q
      PROVE  /\ n \in Nodes /\ Sound(store[n], slot) /\ store[n] # None
             /\ store[n].genesis = spec
             /\ Prefix(store[n].finalized, chain) /\ Prefix(chain, store[n].best)
  <2>1. /\ n \in Nodes /\ tasks[n] # {} /\ store[n].genesis = spec
        /\ Prefix(store[n].finalized, chain) /\ Prefix(chain, VoteTarget(n))
    BY DEF finalize, Votes, genesis_of, Final
  <2> QED
    BY <2>1, AtWork, TargetIsPrefix, PrefixTransitive
<1>2. store' = [n \in Nodes |->
          IF n \in Q THEN [store[n] EXCEPT !.finalized = chain] ELSE store[n]]
  BY DEF finalize
<1>3. ASSUME NEW n \in Q
      PROVE  /\ store'[n] \in Stores /\ store'[n] # None /\ Sound(store'[n], slot)
             /\ store'[n].genesis = spec /\ store'[n].finalized = chain
             /\ Keeps(store[n], store'[n])
  <2> DEFINE r == [store[n] EXCEPT !.finalized = chain]
  <2>1. store'[n] = r
    BY <1>1, <1>2
  <2>2. r \in Stores /\ r.genesis = store[n].genesis /\ r.finalized = chain
        /\ r.best = store[n].best
    BY <1>1 DEF Sound, Stores
  <2>3. Sound(r, slot) /\ Keeps(store[n], r)
    BY <1>1, <2>2 DEF Sound, Keeps
  <2> QED
    BY <1>1, <2>1, <2>2, <2>3, NetworkConstants
<1>4. ASSUME NEW n \in Nodes, n \notin Q
      PROVE  store'[n] = store[n]
  BY <1>2, <1>4
<1>5. /\ UNCHANGED <<phase, tasks, wiped, slot, severed, faults, purged>>
      /\ decided' = decided \cup {[genesis |-> spec, chain |-> chain]}
  BY DEF finalize
<1>6. store' \in [Nodes -> Stores \cup {None}]
  <2>1. \A n \in Nodes : store'[n] \in Stores \cup {None}
    BY <1>3, <1>4 DEF NetworkInv, NetworkTypeOK
  <2> QED
    BY <1>2, <2>1
<1>7. ASSUME NEW n \in Nodes
      PROVE  /\ phase[n] # "down" => store'[n] # None
             /\ store'[n] # None => Sound(store'[n], slot)
  BY <1>3, <1>4, NodeFacts
<1>8. NetworkTypeOK'
  BY <1>5, <1>6, <1>7 DEF NetworkInv, NetworkTypeOK, Sound, Final, Chain
<1>9. KeepingStep
  BY <1>3, <1>4, <1>5, PrefixReflexive DEF KeepingStep, Keeps
<1> QED
  BY <1>1, <1>3, <1>5, <1>8, <1>9 DEF NetworkInv, WipedArePurged

-----------------------------------------------------------------------------
(* The whole system. *)

(* Nothing is up and nothing is stored. *)
LEMMA InitInv == Init => NetworkInv
<1> SUFFICES ASSUME Init PROVE NetworkInv
  OBVIOUS
<1>1. NetworkTypeOK
  BY NetworkConstants DEF Init, NodeInit, NetworkTypeOK, Phases
<1> QED
  BY <1>1 DEF NetworkInv, WipedArePurged, Init, NodeInit

(* Every step but a round of GRANDPA leaves the decisions alone, and every   *)
(* step keeps the invariant and what is stored.                              *)
LEMMA NextStep ==
    ASSUME NetworkInv, [Next]_vars
    PROVE  /\ NetworkInv' /\ KeepingStep
           /\ decided' = decided \/ grandpa
<1>1. CASE tick
  BY <1>1, NetworkConstants, PrefixReflexive
     DEF tick, nodeVars, NetworkInv, NetworkTypeOK, WipedArePurged, KeepingStep, Keeps, Final, Chain
<1>2. ASSUME NEW n \in Nodes, launch(n) \/ life(n) \/ mishap(n) \/ operate(n)
      PROVE  NetworkInv' /\ KeepingStep /\ decided' = decided
  BY <1>2, LaunchStep, LifeStep, MishapStep, OperateStep
     DEF launch, life, mishap, operate, Unaffected
<1>3. ASSUME NEW n \in Nodes, purge(n) \/ author_block(n) \/ import(n)
      PROVE  NetworkInv' /\ KeepingStep /\ decided' = decided
  BY <1>3, PurgeStep, AuthorStep, ImportStep
     DEF purge, author_block, import, import_chain, import_justification
<1>4. ASSUME NEW n \in Nodes, NEW m \in Nodes, sever(m, n) \/ heal(m, n)
      PROVE  NetworkInv' /\ KeepingStep /\ decided' = decided
  <2>1. /\ UNCHANGED <<phase, tasks, store, wiped, slot, purged, decided>>
        /\ severed' \subseteq SUBSET Nodes /\ faults' \in 0 .. FaultBound
    BY <1>4, FaultType DEF sever, heal, nodeVars, NetworkInv, NetworkTypeOK
  <2> QED
    BY <2>1, PrefixReflexive
       DEF NetworkInv, NetworkTypeOK, WipedArePurged, KeepingStep, Keeps, Final, Chain
<1>5. CASE grandpa
  <2>0. PICK spec \in Specs : \E Q \in Quorums(spec) : \E chain \in SUBSET Slots :
           finalize(spec, Q, chain)
    BY <1>5 DEF grandpa
  <2>1. PICK Q \in Quorums(spec), chain \in SUBSET Slots : finalize(spec, Q, chain)
    BY <2>0
  <2> QED
    BY <1>5, <2>1, FinalizeStep
<1>6. CASE UNCHANGED vars
  BY <1>6, PrefixReflexive
     DEF vars, nodeVars, NetworkInv, NetworkTypeOK, WipedArePurged, KeepingStep, Keeps,
         Final, Chain
<1> QED
  BY <1>1, <1>2, <1>3, <1>4, <1>5, <1>6 DEF Next, tick

(* The members of Q that never lost their database have a chain final. *)
Held(d, Q) ==
    \A n \in Q \ purged :
        /\ n \in Nodes /\ store[n] # None
        /\ store[n].genesis = d.genesis /\ Prefix(d.chain, store[n].finalized)

(* Behind every decision stands a supermajority that holds on to it. *)
DecisionsHeld == \A d \in decided : \E Q \in Quorums(d.genesis) : Held(d, Q)

FinalityInv == NetworkInv /\ DecisionsHeld

(* What its members held before a step they hold after it. *)
LEMMA HeldOn ==
    ASSUME KeepingStep, NEW d, NEW Q, Held(d, Q)
    PROVE  Held(d, Q)'
<1> SUFFICES ASSUME NEW n \in Q, n \notin purged'
             PROVE  /\ n \in Nodes /\ store'[n] # None
                    /\ store'[n].genesis = d.genesis
                    /\ Prefix(d.chain, store'[n].finalized)
  BY DEF Held
<1>1. n \in Q \ purged
  BY DEF KeepingStep
<1>2. /\ n \in Nodes /\ store[n] # None
      /\ store[n].genesis = d.genesis /\ Prefix(d.chain, store[n].finalized)
  BY <1>1 DEF Held
<1>3. store'[n] # None /\ Keeps(store[n], store'[n])
  BY <1>2 DEF KeepingStep
<1> QED
  BY <1>2, <1>3, PrefixTransitive DEF Keeps

(* Every step preserves the invariant. *)
LEMMA NextInv == FinalityInv /\ [Next]_vars => FinalityInv'
<1> SUFFICES ASSUME FinalityInv, [Next]_vars PROVE FinalityInv'
  OBVIOUS
<1>1. NetworkInv' /\ KeepingStep /\ (decided' = decided \/ grandpa)
  BY NextStep DEF FinalityInv
<1>2. ASSUME NEW d \in decided
      PROVE  \E Q \in Quorums(d.genesis) : Held(d, Q)'
  <2>1. PICK Q \in Quorums(d.genesis) : Held(d, Q)
    BY DEF FinalityInv, DecisionsHeld
  <2> QED
    BY <1>1, <2>1, HeldOn
<1>3. CASE decided' = decided
  BY <1>1, <1>2, <1>3 DEF FinalityInv, DecisionsHeld
<1>4. CASE grandpa
  <2>0. PICK spec \in Specs : \E Q \in Quorums(spec) : \E chain \in SUBSET Slots :
           finalize(spec, Q, chain)
    BY <1>4 DEF grandpa
  <2>1. PICK Q \in Quorums(spec), chain \in SUBSET Slots : finalize(spec, Q, chain)
    BY <2>0
  <2> DEFINE new == [genesis |-> spec, chain |-> chain]
  <2>2. decided' = decided \cup {new}
    BY <2>1 DEF finalize
  <2>3. \A n \in Q : /\ n \in Nodes /\ store'[n] # None
                     /\ store'[n].genesis = spec /\ store'[n].finalized = chain
    BY <2>1, FinalizeStep DEF FinalityInv
  <2>4. Held(new, Q)' /\ new.genesis = spec
    BY <2>3, PrefixReflexive DEF Held
  <2>5. \E R \in Quorums(new.genesis) : Held(new, R)'
    BY <2>4
  <2> QED
    BY <1>1, <1>2, <2>2, <2>5 DEF FinalityInv, DecisionsHeld
<1> QED
  BY <1>1, <1>3, <1>4

(* The inductive invariant holds in every reachable state. *)
THEOREM FinalityInvariance == Spec => []FinalityInv
<1>1. Init => FinalityInv
  BY InitInv DEF FinalityInv, DecisionsHeld, Init
<1> QED
  BY <1>1, NextInv, PTL DEF Spec

(* Processes and databases keep their types through every start, failure and *)
(* command: what is final lies on the best chain, which has no future block. *)
THEOREM NetworkTypeCorrect == Spec => []NetworkTypeOK
<1>1. FinalityInv => NetworkTypeOK
  BY DEF FinalityInv, NetworkInv
<1> QED
  BY <1>1, FinalityInvariance, PTL

(* No two rounds of GRANDPA decide for chains that exclude each other, for   *)
(* any set of authorities and any number of crashes, partitions, reverts and *)
(* purges, unless as many authorities were purged as two supermajorities     *)
(* share.                                                                    *)
THEOREM DecisionsAgree == Spec => []FinalizedAgree
<1>1. FinalityInv => FinalizedAgree
  <2> SUFFICES ASSUME FinalityInv, NEW c \in decided, NEW d \in decided,
                      c.genesis = d.genesis, FewPurged(c.genesis)
               PROVE  Prefix(c.chain, d.chain) \/ Prefix(d.chain, c.chain)
    BY DEF FinalizedAgree
  <2>1. c.genesis \in Specs
    BY DEF FinalityInv, NetworkInv, NetworkTypeOK
  <2>2. PICK Q \in Quorums(c.genesis) : Held(c, Q)
    BY DEF FinalityInv, DecisionsHeld
  <2>3. PICK R \in Quorums(c.genesis) : Held(d, R)
    BY DEF FinalityInv, DecisionsHeld
  <2>4. PICK n \in Q \cap R : n \notin purged
    BY <2>1, <2>2, <2>3, QuorumsMeet
  <2>5. /\ n \in Nodes /\ store[n] # None
        /\ Prefix(c.chain, store[n].finalized) /\ Prefix(d.chain, store[n].finalized)
    BY <2>2, <2>3, <2>4 DEF Held
  <2>6. store[n].finalized \in SUBSET Nat
    BY <2>5, NodeFacts, NetworkConstants DEF FinalityInv, Sound, Stores
  <2> QED
    BY <2>5, <2>6, PrefixesAgree
<1> QED
  BY <1>1, FinalityInvariance, PTL

(* No start, import, revert or other step but a purge takes back what a node *)
(* has final or replaces its genesis.                                        *)
THEOREM FinalityIsKept == Spec => FinalityKept
<1> DEFINE Step == \A n \in Nodes :
          store[n] # None /\ store'[n] # None
            => /\ store'[n].genesis = store[n].genesis
               /\ Prefix(store[n].finalized, store'[n].finalized)
<1>1. FinalityInv /\ [Next]_vars => [Step]_vars
  BY NextStep DEF FinalityInv, KeepingStep, Keeps
<1> QED
  BY <1>1, FinalityInvariance, PTL DEF Spec, FinalityKept
=============================================================================
