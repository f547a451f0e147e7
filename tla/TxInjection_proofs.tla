------------------------- MODULE TxInjection_proofs -------------------------
(***************************************************************************)
(* Copies of inject_transactions.py over one pool, for any number of       *)
(* copies, any count and any bound on faults.                              *)
(***************************************************************************)
EXTENDS TxInjection, TLAPS

Places == {"read_alice", "read_bob", "loop", "wait", "done"}

(* A waiting copy submitted something. *)
WaitsForSomething ==
    \A p \in Injectors : pc[p] = "wait" => next[p][Sender(i[p] - 1)] >= 1

InjectionType == InjectionTypeOK /\ WaitsForSomething

Covered(s, k) == k \in pooled[s] \/ <<s, k>> \in lost

(* A copy's own nonces, as far as it counted them, are all accounted for. *)
LocalNoncesCovered ==
    \A p \in Injectors, s \in Senders : \A k \in nonce[s]..(next[p][s] - 1) : Covered(s, k)

GapInv == InjectionType /\ GapsAreLosses /\ LocalNoncesCovered

-----------------------------------------------------------------------------

(* The sender of an iteration is one of the two accounts. *)
LEMMA SenderType == ASSUME NEW k \in Int PROVE Sender(k) \in Senders
  BY InjectionAssumption DEF Sender

(* A read nonce is a natural number. *)
LEMMA ReadType ==
    ASSUME InjectionTypeOK, NEW s \in Senders PROVE NonceReads(s) \subseteq Nat
  <1>1. nonce[s] \in Nat /\ pooled[s] \subseteq Nat
    BY DEF InjectionTypeOK
  <1>2. ASSUME NEW r \in Ready(s) PROVE r + 1 \in Nat
    BY <1>1 DEF Ready
  <1> QED  BY <1>1, <1>2 DEF NonceReads

(* Every step keeps the types, and a waiting copy its transaction. *)
LEMMA InjectionTypeStep ==
    ASSUME InjectionType, [InjectionNext]_injectionVars PROVE InjectionType'
  <1> USE DEF InjectionType, InjectionTypeOK
  <1>0. Count \in Nat /\ FaultBound \in Nat /\ Alice \in Senders /\ Bob \in Senders
    BY InjectionAssumption
  <1>1. ASSUME NEW p \in Injectors, NEW s \in Senders, NEW here, NEW there \in {"read_bob", "loop"},
               read_nonce(p, s, here, there)
        PROVE InjectionType'
    <2>1. next' \in [Injectors -> [Senders -> Nat]]
      BY <1>1, ReadType DEF read_nonce
    <2>2. WaitsForSomething'
      BY <1>1 DEF read_nonce, goto, WaitsForSomething
    <2> QED  BY <1>1, <2>1, <2>2 DEF read_nonce, goto, poolVars
  <1>2. ASSUME NEW p \in Injectors, in_loop(p), iterate(p)
        PROVE /\ i' \in [Injectors -> 0..Count]
              /\ next' \in [Injectors -> [Senders -> Nat]]
              /\ i'[p] = i[p] + 1
              /\ next'[p][Sender(i[p])] >= 1
              /\ Sender(i[p]) \in Senders
              /\ \A q \in Injectors \ {p} : i'[q] = i[q] /\ next'[q] = next[q]
    <2>1. Sender(i[p]) \in Senders
      BY SenderType, <1>0
    <2>2. i[p] \in 0..Count /\ i[p] < Count /\ i' = [i EXCEPT ![p] = @ + 1]
      BY <1>2 DEF in_loop, iterate
    <2>3. i' \in [Injectors -> 0..Count] /\ i'[p] = i[p] + 1
      BY <2>2, <1>0
    <2>4. next' = [next EXCEPT ![p][Sender(i[p])] = @ + 1]
      BY <1>2 DEF iterate, advance
    <2>5. next' \in [Injectors -> [Senders -> Nat]] /\ next'[p][Sender(i[p])] >= 1
      BY <2>4, <2>1
    <2> QED  BY <2>1, <2>2, <2>3, <2>4, <2>5
  <1>3. ASSUME NEW p \in Injectors, submit(p) PROVE InjectionType'
    <2> DEFINE s == Sender(i[p])
    <2>1. in_loop(p) /\ iterate(p)
      BY <1>3 DEF submit
    <2>2. s \in Senders /\ next[p][s] \in Nat
      BY <1>2, <2>1
    <2>3. /\ enter(p, s, next[p][s])
          /\ \/ goto(p, "wait") /\ UNCHANGED successful
             \/ count_success(p, <<s, next[p][s]>>) /\ UNCHANGED pc
          /\ UNCHANGED <<lost, faults>>
      BY <1>3 DEF submit
    <2>4. /\ pooled' \in [Senders -> SUBSET Nat] /\ nonce' \in [Senders -> Nat]
          /\ pc' \in [Injectors -> Places]
          /\ successful' \in [Injectors -> SUBSET (Senders \X Nat)]
          /\ entered' \in [Injectors -> SUBSET (Senders \X Nat)]
      <3>1. <<s, next[p][s]>> \in Senders \X Nat
        BY <2>2
      <3>2. pooled' \in [Senders -> SUBSET Nat] /\ nonce' \in [Senders -> Nat]
        BY <2>2, <2>3 DEF enter, add
      <3>3. pc' \in [Injectors -> Places]
        BY <2>3 DEF goto, Places
      <3>4. successful' \in [Injectors -> SUBSET (Senders \X Nat)]
        BY <3>1, <2>3 DEF count_success
      <3>5. entered' \in [Injectors -> SUBSET (Senders \X Nat)]
        BY <3>1, <2>3 DEF enter
      <3> QED  BY <3>2, <3>3, <3>4, <3>5
    <2>5. WaitsForSomething'
      <3> SUFFICES ASSUME NEW q \in Injectors, pc'[q] = "wait"
                   PROVE next'[q][Sender(i'[q] - 1)] >= 1
        BY DEF WaitsForSomething
      <3>1. CASE q = p
        <4>1. i'[q] - 1 = i[p]
          BY <3>1, <1>2, <2>1
        <4> QED  BY <4>1, <3>1, <1>2, <2>1
      <3>2. CASE q # p
        <4>1. pc[q] = "wait"
          BY <3>2, <2>3 DEF goto
        <4> QED  BY <4>1, <3>2, <1>2, <2>1 DEF WaitsForSomething
      <3> QED  BY <3>1, <3>2
    <2> QED  BY <2>1, <1>2, <2>3, <2>4, <2>5 DEF Places
  <1>4. ASSUME NEW p \in Injectors, in_loop(p), iterate(p), UNCHANGED pc
        PROVE WaitsForSomething'
    <2> SUFFICES ASSUME NEW q \in Injectors, pc'[q] = "wait"
                 PROVE next'[q][Sender(i'[q] - 1)] >= 1
      BY DEF WaitsForSomething
    <2>1. q # p
      BY <1>4 DEF in_loop
    <2> QED  BY <2>1, <1>2, <1>4 DEF WaitsForSomething
  <1>5. ASSUME NEW p \in Injectors, submit_refused(p) PROVE InjectionType'
    <2>1. in_loop(p) /\ iterate(p) /\ UNCHANGED <<poolVars, entered, pc, successful, lost, faults>>
      BY <1>5 DEF submit_refused
    <2> QED  BY <2>1, <1>2, <1>4 DEF poolVars
  <1>6. ASSUME NEW p \in Injectors, submit_lost(p) PROVE InjectionType'
    <2>1. in_loop(p) /\ iterate(p) /\ UNCHANGED <<poolVars, entered, pc, successful>>
      BY <1>6 DEF submit_lost
    <2>2. lost' \subseteq Senders \X Nat
      BY <1>6, <2>1, <1>2 DEF submit_lost
    <2>3. faults' \in 0..FaultBound
      BY <1>6, <1>0 DEF submit_lost, fault
    <2> QED  BY <2>1, <2>2, <2>3, <1>2, <1>4 DEF poolVars
  <1>7. ASSUME NEW p \in Injectors, answer_lost(p) PROVE InjectionType'
    <2>1. in_loop(p) /\ iterate(p) /\ UNCHANGED <<pc, successful, lost>>
      BY <1>7 DEF answer_lost
    <2>2. /\ nonce' = nonce /\ pooled' \in [Senders -> SUBSET Nat]
          /\ entered' \in [Injectors -> SUBSET (Senders \X Nat)]
      <3>1. next[p][Sender(i[p])] \in Nat
        BY <2>1, <1>2
      <3> QED  BY <3>1, <1>7, <2>1, <1>2 DEF answer_lost, enter, add
    <2>3. faults' \in 0..FaultBound
      BY <1>7, <1>0 DEF answer_lost, fault
    <2> QED  BY <2>1, <2>2, <2>3, <1>2, <1>4
  <1>8. ASSUME NEW p \in Injectors, included(p) PROVE InjectionType'
    <2>1. Sender(i[p] - 1) \in Senders
      BY SenderType, <1>0
    <2>2. next[p][Sender(i[p] - 1)] - 1 \in Nat
      BY <1>8, <2>1 DEF included, WaitsForSomething
    <2>3. Awaited(p) \in Senders \X Nat
      BY <2>1, <2>2 DEF Awaited
    <2>4. successful' \in [Injectors -> SUBSET (Senders \X Nat)]
      BY <2>3, <1>8 DEF included, count_success
    <2>5. WaitsForSomething'
      BY <1>8 DEF included, goto, WaitsForSomething
    <2> QED  BY <2>4, <2>5, <1>8 DEF included, goto, poolVars
  <1>9. ASSUME NEW p \in Injectors, wait_broken(p) \/ finish(p) \/ interrupt(p)
        PROVE InjectionType'
    <2>1. faults' \in 0..FaultBound
      BY <1>9, <1>0 DEF wait_broken, finish, interrupt, fault
    <2>2. \E there \in {"loop", "done"} : goto(p, there)
      BY <1>9 DEF wait_broken, finish, interrupt
    <2>3. UNCHANGED <<poolVars, entered, i, next, successful, lost>>
      BY <1>9 DEF wait_broken, finish, interrupt
    <2>4. WaitsForSomething'
      BY <2>2, <2>3 DEF goto, WaitsForSomething
    <2> QED  BY <2>1, <2>2, <2>3, <2>4 DEF goto, poolVars
  <1>10. ASSUME NEW upto \in Blocks, author(upto), UNCHANGED scriptVars,
                entered' \in [Injectors -> SUBSET (Senders \X Nat)]
         PROVE  InjectionType'
    <2>1. ASSUME NEW s \in Senders PROVE upto[s] \in Nat
      BY <1>10 DEF Blocks, Ready
    <2>2. upto \in [Senders -> Nat]
      BY <2>1, <1>10 DEF Blocks
    <2>3. pooled' \in [Senders -> SUBSET Nat]
      BY <1>10 DEF author
    <2> QED  BY <2>2, <2>3, <1>10 DEF author, scriptVars, WaitsForSomething
  <1>11. ASSUME author_block PROVE InjectionType'
    <2>1. entered' \in [Injectors -> SUBSET (Senders \X Nat)]
      BY <1>11 DEF author_block
    <2> QED  BY <2>1, <1>10, <1>11 DEF author_block
  <1>12. ASSUME UNCHANGED injectionVars PROVE InjectionType'
    BY <1>12 DEF injectionVars, poolVars, scriptVars, WaitsForSomething
  <1> QED
    BY <1>1, <1>3, <1>5, <1>6, <1>7, <1>8, <1>9, <1>11, <1>12, <1>0
    DEF InjectionNext, step, injection_fault, read_alice_nonce, read_bob_nonce

-----------------------------------------------------------------------------

(* What a step does to the pool and to the lost submissions: a transaction   *)
(* that entered the pool leaves it only into a block.                        *)
LEMMA PoolStep ==
    ASSUME InjectionType, [InjectionNext]_injectionVars, NEW s \in Senders
    PROVE  /\ nonce'[s] >= nonce[s]
           /\ \A k \in pooled[s] : k >= nonce'[s] => k \in pooled'[s]
           /\ lost \subseteq lost'
  <1> USE DEF InjectionType, InjectionTypeOK
  <1>1. ASSUME NEW p \in Injectors, step(p) \/ injection_fault(p)
        PROVE  /\ nonce' = nonce
               /\ pooled[s] \subseteq pooled'[s]
               /\ lost \subseteq lost'
    BY <1>1 DEF step, injection_fault, read_alice_nonce, read_bob_nonce, read_nonce, submit,
       submit_refused, included, finish, submit_lost, answer_lost, wait_broken, interrupt,
       enter, add, poolVars
  <1>2. ASSUME NEW upto \in Blocks, author(upto), UNCHANGED scriptVars
        PROVE  /\ nonce'[s] >= nonce[s]
               /\ \A k \in pooled[s] : k >= nonce'[s] => k \in pooled'[s]
               /\ lost \subseteq lost'
    <2>1. upto[s] \in {nonce[s]} \cup {n + 1 : n \in Ready(s)}
      BY DEF Blocks
    <2>2. ASSUME NEW n \in Ready(s) PROVE n \in Nat /\ n >= nonce[s]
      BY DEF Ready
    <2>3. upto[s] >= nonce[s]
      BY <2>1, <2>2
    <2> QED  BY <2>3, <1>2 DEF author, scriptVars
  <1>3. CASE UNCHANGED injectionVars
    BY <1>3 DEF injectionVars, poolVars, scriptVars
  <1> QED  BY <1>1, <1>2, <1>3 DEF InjectionNext, author_block

(* Steps of a copy leave the pool's other transactions and the other copies'  *)
(* nonces alone; every nonce a copy leaves behind is accounted for.           *)
LEMMA GapStep ==
    ASSUME GapInv, [InjectionNext]_injectionVars
    PROVE  GapsAreLosses' /\ LocalNoncesCovered'
  <1> USE DEF GapInv
  <1>0. InjectionType'
    BY InjectionTypeStep
  <1>1. ASSUME NEW s \in Senders, NEW k \in Nat, k >= nonce'[s], Covered(s, k)
        PROVE  Covered(s, k)'
    BY <1>1, PoolStep DEF Covered
  <1>2. ASSUME NEW s \in Senders
        PROVE nonce[s] \in Nat /\ nonce'[s] \in Nat /\ nonce'[s] >= nonce[s]
    BY <1>0, PoolStep DEF InjectionType, InjectionTypeOK
  (* A copy whose nonces stand. *)
  <1>3. ASSUME NEW p \in Injectors, NEW s \in Senders, next'[p][s] = next[p][s],
               NEW k \in nonce'[s]..(next'[p][s] - 1)
        PROVE  Covered(s, k)'
    <2>1. next[p][s] \in Nat
      BY DEF InjectionType, InjectionTypeOK
    <2>2. k \in nonce[s]..(next[p][s] - 1) /\ k \in Nat /\ k >= nonce'[s]
      BY <1>2, <1>3, <2>1
    <2> QED  BY <2>2, <1>1 DEF LocalNoncesCovered
  (* A transaction that was pooled before the step. *)
  <1>4. ASSUME NEW s \in Senders, NEW n \in pooled[s], NEW k \in nonce'[s]..n
        PROVE  Covered(s, k)'
    <2>1. n \in Nat
      BY DEF InjectionType, InjectionTypeOK
    <2>2. k \in nonce[s]..n /\ k \in Nat /\ k >= nonce'[s]
      BY <1>2, <2>1
    <2>3. Covered(s, k)
      BY <2>2 DEF GapsAreLosses, Covered
    <2> QED  BY <2>2, <2>3, <1>1
  <1>5. ASSUME \A s \in Senders : pooled'[s] \subseteq pooled[s] PROVE GapsAreLosses'
    BY <1>4, <1>5 DEF GapsAreLosses, Covered
  <1>6. ASSUME next' = next PROVE LocalNoncesCovered'
    BY <1>3, <1>6 DEF LocalNoncesCovered
  (* Reading a nonce: the nonces below it are ready. *)
  <1>7. ASSUME NEW p \in Injectors, NEW r \in Senders, NEW here, NEW there,
               read_nonce(p, r, here, there)
        PROVE  GapsAreLosses' /\ LocalNoncesCovered'
    <2>1. UNCHANGED poolVars
      BY <1>7 DEF read_nonce
    <2>2. PICK m \in NonceReads(r) : next' = [next EXCEPT ![p][r] = m]
      BY <1>7 DEF read_nonce
    <2>3. ASSUME NEW k \in nonce[r]..(m - 1) PROVE k \in pooled[r]
      <3>1. CASE m = nonce[r]
        BY <3>1, <1>2
      <3>2. CASE \E n \in Ready(r) : m = n + 1
        <4>1. PICK n \in Ready(r) : m = n + 1
          BY <3>2
        <4>2. n \in Nat /\ nonce[r]..n \subseteq pooled[r]
          BY DEF Ready, InjectionType, InjectionTypeOK
        <4>3. k \in nonce[r]..n
          BY <4>1, <4>2, <1>2
        <4> QED  BY <4>2, <4>3
      <3> QED  BY <3>1, <3>2, <2>2 DEF NonceReads
    <2>4. ASSUME NEW q \in Injectors, NEW s \in Senders, NEW k \in nonce'[s]..(next'[q][s] - 1)
          PROVE  Covered(s, k)'
      <3>1. CASE q = p /\ s = r
        <4>1. next'[q][s] = m
          BY <3>1, <2>2 DEF InjectionType, InjectionTypeOK
        <4>2. k \in nonce[r]..(m - 1)
          BY <4>1, <3>1, <2>1 DEF poolVars
        <4> QED  BY <4>2, <2>3, <2>1, <3>1 DEF Covered, poolVars
      <3>2. CASE ~(q = p /\ s = r)
        <4>1. next'[q][s] = next[q][s]
          BY <3>2, <2>2 DEF InjectionType, InjectionTypeOK
        <4> QED  BY <4>1, <1>3
      <3> QED  BY <3>1, <3>2
    <2> QED  BY <2>1, <2>4, <1>5 DEF LocalNoncesCovered, poolVars
  (* An iteration uses up one nonce: it was stale, or it is pooled or lost.    *)
  <1>8. ASSUME NEW p \in Injectors, iterate(p), NEW s \in Senders, s = Sender(i[p]),
               NEW n \in Nat, n = next[p][s], n < nonce[s] \/ Covered(s, n)'
        PROVE  LocalNoncesCovered'
    <2>1. next' = [next EXCEPT ![p][s] = n + 1]
      BY <1>8 DEF iterate, advance
    <2>3. ASSUME NEW q \in Injectors, NEW r \in Senders, NEW k \in nonce'[r]..(next'[q][r] - 1)
          PROVE  Covered(r, k)'
      <3>1. CASE q = p /\ r = s
        <4>1. next'[q][r] = n + 1
          BY <3>1, <2>1 DEF InjectionType, InjectionTypeOK
        <4>2. CASE k = n
          <5>1. ~(n < nonce[s])
            BY <4>2, <3>1, <1>2
          <5> QED  BY <5>1, <4>2, <3>1, <1>8
        <4>3. CASE k # n
          <5>1. k \in nonce[s]..(n - 1) /\ k \in Nat /\ k >= nonce'[s]
            BY <4>1, <4>3, <3>1, <1>2
          <5> QED  BY <5>1, <3>1, <1>1, <1>8 DEF LocalNoncesCovered
        <4> QED  BY <4>2, <4>3
      <3>2. CASE ~(q = p /\ r = s)
        <4>1. next'[q][r] = next[q][r]
          BY <3>2, <2>1 DEF InjectionType, InjectionTypeOK
        <4> QED  BY <4>1, <1>3
      <3> QED  BY <3>1, <3>2
    <2> QED  BY <2>3 DEF LocalNoncesCovered
  (* A submission: everything below it was accounted for by its copy.          *)
  <1>9. ASSUME NEW p \in Injectors, NEW s \in Senders, NEW n \in Nat, n = next[p][s],
               add(s, n)
        PROVE  GapsAreLosses' /\ Covered(s, n)'
    <2>1. pooled' = [pooled EXCEPT ![s] = @ \cup {n}] /\ nonce' = nonce
      BY <1>9 DEF add
    <2>2. pooled \in [Senders -> SUBSET Nat]
      BY DEF InjectionType, InjectionTypeOK
    <2>3. n \in pooled'[s]
      BY <2>1, <2>2
    <2>4. ASSUME NEW r \in Senders, NEW m \in pooled'[r], NEW k \in nonce'[r]..m
          PROVE  Covered(r, k)'
      <3>1. CASE m \in pooled[r]
        BY <3>1, <1>4
      <3>2. CASE m \notin pooled[r]
        <4>1. r = s /\ m = n
          BY <3>2, <2>1, <2>2
        <4>2. CASE k = m
          BY <4>1, <4>2, <2>3 DEF Covered
        <4>3. CASE k # m
          <5>1. k \in nonce[s]..(n - 1) /\ k \in Nat /\ k >= nonce'[s]
            BY <4>1, <4>3, <2>1, <2>2, <1>2
          <5> QED  BY <5>1, <4>1, <1>1, <1>9 DEF LocalNoncesCovered
        <4> QED  BY <4>2, <4>3
      <3> QED  BY <3>1, <3>2
    <2> QED  BY <2>3, <2>4 DEF GapsAreLosses, Covered
  <1>10. ASSUME NEW p \in Injectors, step(p) \/ injection_fault(p)
         PROVE  GapsAreLosses' /\ LocalNoncesCovered'
    <2>0. PICK s \in Senders : s = Sender(i[p])
      BY SenderType DEF InjectionType, InjectionTypeOK
    <2>n. PICK n \in Nat : n = next[p][s]
      BY DEF InjectionType, InjectionTypeOK
    <2>1. CASE read_alice_nonce(p) \/ read_bob_nonce(p)
      <3>1. Alice \in Senders /\ Bob \in Senders
        BY InjectionAssumption
      <3> QED  BY <2>1, <3>1, <1>7 DEF read_alice_nonce, read_bob_nonce
    <2>2. CASE submit(p)
      <3>1. iterate(p) /\ add(s, n)
        BY <2>2, <2>0, <2>n DEF submit, enter
      <3>2. GapsAreLosses' /\ Covered(s, n)'
        BY <3>1, <2>0, <2>n, <1>9
      <3> QED  BY <3>1, <3>2, <2>0, <2>n, <1>8
    <2>3. CASE answer_lost(p)
      <3>1. iterate(p) /\ add(s, n)
        BY <2>3, <2>0, <2>n DEF answer_lost, enter
      <3>2. GapsAreLosses' /\ Covered(s, n)'
        BY <3>1, <2>0, <2>n, <1>9
      <3> QED  BY <3>1, <3>2, <2>0, <2>n, <1>8
    <2>4. CASE submit_refused(p)
      <3>1. iterate(p) /\ ~Accepts(s, n) /\ UNCHANGED <<nonce, pooled, lost>>
        BY <2>4, <2>0, <2>n DEF submit_refused, poolVars
      <3>3. n < nonce[s] \/ Covered(s, n)'
        BY <3>1, <2>0, <2>n, <1>2 DEF Accepts, Ready, Covered
      <3> QED  BY <3>1, <3>3, <2>0, <2>n, <1>5, <1>8
    <2>5. CASE submit_lost(p)
      <3>1. iterate(p) /\ UNCHANGED <<nonce, pooled>> /\ <<s, n>> \in lost'
        BY <2>5, <2>0, <2>n DEF submit_lost, poolVars
      <3>2. Covered(s, n)'
        BY <3>1 DEF Covered
      <3> QED  BY <3>1, <3>2, <2>0, <2>n, <1>5, <1>8
    <2>6. CASE included(p) \/ finish(p) \/ wait_broken(p) \/ interrupt(p)
      <3>1. UNCHANGED <<nonce, pooled, next>>
        BY <2>6 DEF included, finish, wait_broken, interrupt, poolVars
      <3> QED  BY <3>1, <1>5, <1>6
    <2> QED  BY <1>10, <2>1, <2>2, <2>3, <2>4, <2>5, <2>6 DEF step, injection_fault
  <1>11. ASSUME NEW upto \in Blocks, author(upto), UNCHANGED scriptVars
         PROVE  GapsAreLosses' /\ LocalNoncesCovered'
    BY <1>11, <1>5, <1>6 DEF author, scriptVars
  <1>12. CASE UNCHANGED injectionVars
    BY <1>12, <1>5, <1>6 DEF injectionVars, poolVars, scriptVars
  <1> QED  BY <1>10, <1>11, <1>12 DEF InjectionNext, author_block

(* Nothing is pooled, read or lost at the start. *)
LEMMA GapInit == InjectionInit => GapInv
  BY InjectionAssumption
  DEF InjectionInit, PoolInit, GapInv, InjectionType, InjectionTypeOK, WaitsForSomething,
      GapsAreLosses, LocalNoncesCovered

(* The invariant holds in every reachable state. *)
THEOREM GapInvariance == InjectionSpec => []GapInv
  <1>1. GapInv /\ [InjectionNext]_injectionVars => GapInv'
    BY InjectionTypeStep, GapStep DEF GapInv
  <1> QED  BY GapInit, <1>1, PTL DEF InjectionSpec

(* The script's variables and the pool keep their types. *)
THEOREM InjectionTypeCorrect == InjectionSpec => []InjectionTypeOK
  <1>1. GapInv => InjectionTypeOK
    BY DEF GapInv, InjectionType
  <1> QED  BY GapInvariance, <1>1, PTL

(* A transaction is held back only behind a lost submission, for any number  *)
(* of copies of the script and any interleaving of their submissions.        *)
THEOREM OnlyLossesLeaveGaps == InjectionSpec => []GapsAreLosses
  <1>1. GapInv => GapsAreLosses
    BY DEF GapInv
  <1> QED  BY GapInvariance, <1>1, PTL

-----------------------------------------------------------------------------

Entered(tx) == tx[2] < nonce[tx[1]] \/ tx[2] \in pooled[tx[1]]

(* The pool keeps a copy's transaction and no other copy's with its nonce. *)
OnlyFrom(p, tx) == tx \in entered[p] /\ \A q \in Injectors \ {p} : tx \notin entered[q]

(* What a copy counted, and what it waits for. *)
Mine(p) == successful[p] \cup (IF pc[p] = "wait" THEN {Awaited(p)} ELSE {})

(* The nonce of whatever the pool took is used or pooled. *)
TakenIsEntered == \A p \in Injectors : \A tx \in entered[p] : Entered(tx)

MineIsOwned ==
    \A p \in Injectors : \A tx \in Mine(p) : Entered(tx) /\ (LostBelow(tx) \/ OnlyFrom(p, tx))

OwnInv == TakenIsEntered /\ MineIsOwned

(* What a copy counts or waits for is a transaction of one of the accounts.   *)
LEMMA MineType ==
    ASSUME InjectionType, NEW p \in Injectors PROVE Mine(p) \subseteq Senders \X Nat
  <1>1. ASSUME pc[p] = "wait" PROVE Awaited(p) \in Senders \X Nat
    <2>1. Sender(i[p] - 1) \in Senders
      BY SenderType DEF InjectionType, InjectionTypeOK
    <2>2. next[p][Sender(i[p] - 1)] - 1 \in Nat
      BY <1>1, <2>1 DEF InjectionType, InjectionTypeOK, WaitsForSomething
    <2> QED  BY <2>1, <2>2 DEF Awaited
  <1> QED  BY <1>1 DEF Mine, InjectionType, InjectionTypeOK

(* A nonce used or pooled stays so, and a lost submission stays lost.         *)
LEMMA EnteredStays ==
    ASSUME InjectionType, [InjectionNext]_injectionVars, NEW tx \in Senders \X Nat
    PROVE  (Entered(tx) => Entered(tx)') /\ (LostBelow(tx) => LostBelow(tx)')
  <1>1. tx[1] \in Senders /\ tx[2] \in Nat
    OBVIOUS
  <1>2. nonce[tx[1]] \in Nat /\ nonce'[tx[1]] \in Nat
    BY <1>1, InjectionTypeStep DEF InjectionType, InjectionTypeOK
  <1> QED  BY <1>1, <1>2, PoolStep DEF Entered, LostBelow

(* The pool takes a second transaction with a nonce only into its future      *)
(* part, which begins behind a lost submission.                               *)
LEMMA SecondIsBehindALoss ==
    ASSUME InjectionType, GapsAreLosses, NEW s \in Senders, NEW n \in Nat,
           Accepts(s, n), Entered(<<s, n>>)
    PROVE  LostBelow(<<s, n>>)
  <1>1. nonce[s] \in Nat /\ pooled \in [Senders -> SUBSET Nat]
    BY DEF InjectionType, InjectionTypeOK
  <1>2. n >= nonce[s] /\ n \in pooled[s] /\ n \notin Ready(s)
    BY <1>1 DEF Accepts, Entered
  <1>3. PICK k \in nonce[s]..n : k \notin pooled[s]
    BY <1>2 DEF Ready
  <1>4. <<s, k>> \in lost /\ k # n
    BY <1>2, <1>3 DEF GapsAreLosses
  <1>5. k \in 0..(n - 1)
    BY <1>1, <1>3, <1>4
  <1> QED  BY <1>4, <1>5 DEF LostBelow

(* Steps that take no transaction into the pool and count none that was not   *)
(* waited for keep everybody's own.                                           *)
LEMMA OwnKept ==
    ASSUME InjectionType, OwnInv, [InjectionNext]_injectionVars,
           \A q \in Injectors : Mine(q)' \subseteq Mine(q),
           \A q \in Injectors : entered'[q] \subseteq entered[q],
           \A q \in Injectors : \A tx \in entered[q] : OnlyFrom(q, tx) => tx \in entered'[q]
    PROVE  OwnInv'
  <1>0. \A q \in Injectors : entered[q] \subseteq Senders \X Nat
    BY DEF InjectionType, InjectionTypeOK
  <1>1. TakenIsEntered'
    BY <1>0, EnteredStays DEF OwnInv, TakenIsEntered
  <1>2. ASSUME NEW p \in Injectors, NEW tx \in Mine(p)'
        PROVE  Entered(tx)' /\ (LostBelow(tx)' \/ OnlyFrom(p, tx)')
    <2>1. tx \in Mine(p) /\ tx \in Senders \X Nat
      BY MineType
    <2>2. Entered(tx)' /\ (LostBelow(tx) => LostBelow(tx)')
      BY <2>1, EnteredStays DEF OwnInv, MineIsOwned
    <2>3. OnlyFrom(p, tx) => OnlyFrom(p, tx)'
      BY DEF OnlyFrom
    <2> QED  BY <2>1, <2>2, <2>3 DEF OwnInv, MineIsOwned
  <1> QED  BY <1>1, <1>2 DEF OwnInv, MineIsOwned

(* The pool takes a transaction of p: nobody's other transaction is touched,  *)
(* and a second one with its nonce is behind a lost submission.               *)
LEMMA OwnTaken ==
    ASSUME InjectionType, GapsAreLosses, OwnInv, [InjectionNext]_injectionVars,
           NEW p \in Injectors, NEW s \in Senders, NEW n \in Nat, enter(p, s, n),
           Mine(p)' \subseteq Mine(p) \cup {<<s, n>>},
           \A q \in Injectors \ {p} : Mine(q)' \subseteq Mine(q)
    PROVE  OwnInv'
  <1> DEFINE new == <<s, n>>
  <1>0. /\ entered \in [Injectors -> SUBSET (Senders \X Nat)]
        /\ pooled \in [Senders -> SUBSET Nat] /\ new \in Senders \X Nat
    BY DEF InjectionType, InjectionTypeOK
  <1>1. /\ Accepts(s, n) /\ pooled' = [pooled EXCEPT ![s] = @ \cup {n}]
        /\ entered' = [entered EXCEPT ![p] = @ \cup {new}]
    BY DEF enter, add
  <1>2. /\ entered'[p] = entered[p] \cup {new}
        /\ \A q \in Injectors \ {p} : entered'[q] = entered[q]
    BY <1>0, <1>1
  <1>3. Entered(new)'
    BY <1>0, <1>1 DEF Entered
  <1>4. TakenIsEntered'
    <2>1. ASSUME NEW q \in Injectors, NEW tx \in entered'[q] PROVE Entered(tx)'
      <3>1. tx \in entered[q] \/ tx = new
        BY <1>2
      <3>2. tx \in entered[q] => Entered(tx)'
        BY <1>0, EnteredStays DEF OwnInv, TakenIsEntered
      <3> QED  BY <3>1, <3>2, <1>3
    <2> QED  BY <2>1 DEF TakenIsEntered
  <1>5. Entered(new) => LostBelow(new)'
    BY <1>0, <1>1, SecondIsBehindALoss, EnteredStays
  <1>6. ASSUME NEW q \in Injectors, NEW tx \in Mine(q)'
        PROVE  Entered(tx)' /\ (LostBelow(tx)' \/ OnlyFrom(q, tx)')
    <2>1. CASE tx = new /\ Entered(new)
      BY <2>1, <1>3, <1>5
    <2>2. CASE tx = new /\ ~Entered(new)
      <3>1. \A r \in Injectors : new \notin entered[r] /\ new \notin Mine(r)
        BY <2>2 DEF OwnInv, TakenIsEntered, MineIsOwned
      <3>2. q = p
        BY <2>2, <3>1
      <3> QED  BY <3>1, <3>2, <2>2, <1>2, <1>3 DEF OnlyFrom
    <2>3. CASE tx # new
      <3>1. tx \in Mine(q) /\ tx \in Senders \X Nat
        BY <2>3, MineType
      <3>2. Entered(tx)' /\ (LostBelow(tx) => LostBelow(tx)')
        BY <3>1, EnteredStays DEF OwnInv, MineIsOwned
      <3>3. OnlyFrom(q, tx) => OnlyFrom(q, tx)'
        BY <2>3, <1>2 DEF OnlyFrom
      <3> QED  BY <3>1, <3>2, <3>3 DEF OwnInv, MineIsOwned
    <2> QED  BY <2>1, <2>2, <2>3
  <1> QED  BY <1>4, <1>6 DEF OwnInv, MineIsOwned

(* Every step keeps what the copies counted or wait for theirs. *)
LEMMA OwnStep ==
    ASSUME InjectionType, GapsAreLosses, OwnInv, [InjectionNext]_injectionVars PROVE OwnInv'
  <1>0. /\ pc \in [Injectors -> Places] /\ successful \in [Injectors -> SUBSET (Senders \X Nat)]
        /\ i \in [Injectors -> Int] /\ next \in [Injectors -> [Senders -> Nat]]
    <2>1. Count \in Nat
      BY InjectionAssumption
    <2> QED  BY <2>1 DEF InjectionType, InjectionTypeOK, Places
  <1>1. ASSUME UNCHANGED entered, \A q \in Injectors : Mine(q)' \subseteq Mine(q) PROVE OwnInv'
    BY <1>1, OwnKept
  <1>2. ASSUME NEW p \in Injectors, pc[p] # "wait", pc'[p] # "wait", UNCHANGED <<entered, successful>>,
               \A q \in Injectors \ {p} :
                   pc'[q] = pc[q] /\ i'[q] = i[q] /\ next'[q] = next[q]
        PROVE  OwnInv'
    BY <1>2, <1>1 DEF Mine, Awaited
  <1>3. ASSUME NEW p \in Injectors, in_loop(p), iterate(p), UNCHANGED <<pc, successful, entered>>
        PROVE  OwnInv'
    BY <1>3, <1>2, <1>0 DEF in_loop, iterate, advance
  <1>4. ASSUME NEW p \in Injectors, NEW s, NEW here \in Places \ {"wait"}, NEW there \in Places \ {"wait"},
               read_nonce(p, s, here, there)
        PROVE  OwnInv'
    BY <1>4, <1>2, <1>0 DEF read_nonce, goto
  <1>5. ASSUME NEW p \in Injectors, submit(p) \/ answer_lost(p) PROVE OwnInv'
    <2>1. PICK s \in Senders : s = Sender(i[p])
      BY SenderType DEF InjectionType, InjectionTypeOK
    <2>2. PICK n \in Nat : n = next[p][s]
      BY <1>0
    <2>3. /\ pc[p] = "loop"
          /\ i' = [i EXCEPT ![p] = @ + 1]
          /\ next' = [next EXCEPT ![p][s] = @ + 1]
          /\ enter(p, s, n)
          /\ \/ pc' = [pc EXCEPT ![p] = "wait"] /\ UNCHANGED successful
             \/ successful' = [successful EXCEPT ![p] = @ \cup {<<s, n>>}] /\ UNCHANGED pc
             \/ UNCHANGED <<pc, successful>>
      BY <1>5, <2>1, <2>2
      DEF submit, answer_lost, in_loop, iterate, advance, goto, count_success
    <2>4. i'[p] - 1 = i[p] /\ next'[p][s] - 1 = n
      <3>1. i'[p] = i[p] + 1 /\ next'[p][s] = n + 1
        BY <1>0, <2>2, <2>3
      <3>2. i[p] \in Int
        BY <1>0
      <3> QED  BY <3>1, <3>2
    <2>5. pc'[p] = "wait" => Awaited(p)' = <<s, n>>
      BY <2>4, <2>1 DEF Awaited
    <2>6. Mine(p)' \subseteq Mine(p) \cup {<<s, n>>}
      BY <2>3, <2>5, <1>0 DEF Mine
    <2>7. ASSUME NEW q \in Injectors \ {p} PROVE Mine(q)' \subseteq Mine(q)
      <3>1. i'[q] = i[q] /\ next'[q] = next[q] /\ pc'[q] = pc[q] /\ successful'[q] = successful[q]
        BY <2>3, <1>0
      <3> QED  BY <3>1 DEF Mine, Awaited
    <2> QED  BY <2>3, <2>6, <2>7, OwnTaken
  <1>6. ASSUME NEW p \in Injectors, included(p) PROVE OwnInv'
    <2>1. /\ pc[p] = "wait" /\ pc' = [pc EXCEPT ![p] = "loop"] /\ UNCHANGED <<i, next, entered>>
          /\ successful' = [successful EXCEPT ![p] = @ \cup {Awaited(p)}]
      BY <1>6 DEF included, goto, count_success
    <2>2. ASSUME NEW q \in Injectors PROVE Mine(q)' \subseteq Mine(q)
      BY <2>1, <1>0 DEF Mine, Awaited
    <2> QED  BY <2>1, <2>2, <1>1
  <1>7. ASSUME NEW p \in Injectors, wait_broken(p) \/ finish(p) \/ interrupt(p) PROVE OwnInv'
    <2>1. PICK there \in {"loop", "done"} : pc' = [pc EXCEPT ![p] = there]
      BY <1>7 DEF wait_broken, finish, interrupt, goto
    <2>2. UNCHANGED <<i, next, successful, entered>>
      BY <1>7 DEF wait_broken, finish, interrupt
    <2>3. ASSUME NEW q \in Injectors PROVE Mine(q)' \subseteq Mine(q)
      BY <2>1, <2>2, <1>0 DEF Mine, Awaited
    <2> QED  BY <2>2, <2>3, <1>1
  (* A block keeps the transaction of the only copy that holds it. *)
  <1>8. ASSUME author_block PROVE OwnInv'
    <2>0. PICK upto \in Blocks : \E kept \in [Taken(upto) -> Injectors] :
              /\ \A tx \in Taken(upto) : tx \in entered[kept[tx]]
              /\ entered' = [p \in Injectors |->
                     {tx \in entered[p] : tx \in Taken(upto) => kept[tx] = p}]
      BY <1>8 DEF author_block
    <2>1. PICK kept \in [Taken(upto) -> Injectors] :
              /\ \A tx \in Taken(upto) : tx \in entered[kept[tx]]
              /\ entered' = [p \in Injectors |->
                     {tx \in entered[p] : tx \in Taken(upto) => kept[tx] = p}]
      BY <2>0
    <2>2. ASSUME NEW p \in Injectors, NEW tx \in entered[p], OnlyFrom(p, tx)
          PROVE  tx \in entered'[p]
      BY <2>1, <2>2 DEF OnlyFrom
    <2>3. \A q \in Injectors : entered'[q] \subseteq entered[q]
      BY <2>1
    <2>4. \A q \in Injectors : Mine(q)' = Mine(q)
      BY <1>8 DEF author_block, scriptVars, Mine, Awaited
    <2> QED  BY <2>2, <2>3, <2>4, OwnKept
  <1>9. ASSUME UNCHANGED injectionVars PROVE OwnInv'
    BY <1>9, <1>1 DEF injectionVars, scriptVars, Mine, Awaited
  <1> QED
    BY <1>3, <1>4, <1>5, <1>6, <1>7, <1>8, <1>9
    DEF InjectionNext, step, injection_fault, read_alice_nonce, read_bob_nonce,
        submit_refused, submit_lost, Places

(* What a copy counts as successful is its own transaction, kept by the pool  *)
(* and no other copy's, unless a submission before it was lost: for any       *)
(* number of copies, of faults and of duplicates in the pool's future part.   *)
THEOREM SuccessStaysOwned == InjectionSpec => []SuccessIsOwned
  <1>1. InjectionInit => OwnInv
    BY DEF InjectionInit, OwnInv, TakenIsEntered, MineIsOwned, Mine
  <1>2. GapInv /\ OwnInv /\ [InjectionNext]_injectionVars => OwnInv'
    BY OwnStep DEF GapInv
  <1>3. OwnInv => SuccessIsOwned
    BY DEF OwnInv, MineIsOwned, Mine, Entered, OnlyFrom, SuccessIsOwned
  <1> QED  BY <1>1, <1>2, <1>3, GapInvariance, PTL DEF InjectionSpec

=============================================================================
