---------------------------- MODULE QxAi_proofs ----------------------------
(***************************************************************************)
(* The safety of the inference pallet for every number of workers, every   *)
(* queue bound and every width of the ids, as long as fewer than IdModulus *)
(* requests are submitted (RequestBound < IdModulus).                      *)
(***************************************************************************)
EXTENDS QxAi, KiltPermissions_proofs, FiniteSetTheorems, SequenceTheorems

(* 1 .. n has n elements. *)
LEMMA IntervalSize ==
    ASSUME NEW n \in Nat
    PROVE  IsFiniteSet(1 .. n) /\ Cardinality(1 .. n) = n
<1>1. 1 \in Int /\ n \in Int
  OBVIOUS
<1>2. IsFiniteSet(1 .. n) /\ Cardinality(1 .. n) = IF 1 > n THEN 0 ELSE n - 1 + 1
  BY <1>1, FS_Interval
<1> QED
  BY <1>2

(* retain without a match: every position is kept. *)
LEMMA RetainMiss ==
    ASSUME NEW S, NEW queue \in Seq(S), NEW id, \A i \in DOMAIN queue : queue[i] # id
    PROVE  retain(queue, id) = queue
<1> DEFINE L == Len(queue)
           Kept == {i \in DOMAIN queue : queue[i] # id}
           UpTo(i) == {j \in Kept : j <= i}
<1>1. L \in Nat /\ DOMAIN queue = 1 .. L /\ queue = [n \in 1 .. L |-> queue[n]]
  BY LenProperties
<1>2. Kept = 1 .. L /\ Cardinality(Kept) = L
  <2>1. Kept = 1 .. L
    BY <1>1
  <2>2. Cardinality(1 .. L) = L
    BY <1>1, IntervalSize
  <2> QED
    BY <2>1, <2>2
<1>3. ASSUME NEW i \in Kept PROVE Cardinality(UpTo(i)) = i
  <2>1. i \in 1 .. L /\ UpTo(i) = 1 .. i
    BY <1>1, <1>2
  <2>2. i \in Nat /\ Cardinality(1 .. i) = i
    BY <1>1, <2>1, IntervalSize
  <2> QED
    BY <2>1, <2>2
<1>4. ASSUME NEW n \in 1 .. L
      PROVE  (CHOOSE i \in Kept : Cardinality(UpTo(i)) = n) = n
  <2>1. n \in Kept /\ Cardinality(UpTo(n)) = n
    BY <1>2, <1>3
  <2>2. \A i \in Kept : Cardinality(UpTo(i)) = n => i = n
    BY <1>3
  <2> QED
    BY <2>1, <2>2
<1>5. retain(queue, id) =
        [n \in 1 .. Cardinality(Kept) |->
            queue[CHOOSE i \in Kept : Cardinality(UpTo(i)) = n]]
  BY DEF retain
<1> QED
  BY <1>1, <1>2, <1>4, <1>5

(* retain with one match, at position k: the entries before k stay where     *)
(* they are, the later ones move up by one.                                  *)
LEMMA RetainHit ==
    ASSUME NEW S, NEW queue \in Seq(S), NEW k \in DOMAIN queue,
           \A i \in DOMAIN queue : queue[i] = queue[k] => i = k
    PROVE  /\ retain(queue, queue[k]) \in Seq(S)
           /\ Len(retain(queue, queue[k])) = Len(queue) - 1
           /\ \A n \in 1 .. Len(queue) - 1 :
                 retain(queue, queue[k])[n] = IF n < k THEN queue[n] ELSE queue[n + 1]
<1> DEFINE L == Len(queue)
           id == queue[k]
           Kept == {i \in DOMAIN queue : queue[i] # id}
           UpTo(i) == {j \in Kept : j <= i}
           r == retain(queue, id)
<1>1. L \in Nat /\ DOMAIN queue = 1 .. L /\ k \in 1 .. L
  BY LenProperties
<1>2. Kept = (1 .. L) \ {k}
  BY <1>1
<1>3. Cardinality(Kept) = L - 1
  <2>1. IsFiniteSet(1 .. L) /\ Cardinality(1 .. L) = L
    BY <1>1, IntervalSize
  <2> HIDE DEF L, Kept
  <2>2. Cardinality((1 .. L) \ {k}) = L - 1
    BY <1>1, <2>1, FS_RemoveElement
  <2> QED
    BY <1>2, <2>2
<1>4. ASSUME NEW i \in Kept
      PROVE  Cardinality(UpTo(i)) = IF i < k THEN i ELSE i - 1
  <2>1. i \in 1 .. L /\ i # k /\ UpTo(i) = (1 .. i) \ {k}
    BY <1>1, <1>2
  <2>2. Cardinality(1 .. i) = i /\ IsFiniteSet(1 .. i)
    BY <1>1, <2>1, IntervalSize
  <2>3. Cardinality((1 .. i) \ {k}) = IF k \in 1 .. i THEN i - 1 ELSE i
    <3>1. i \in Nat
      BY <1>1, <2>1
    <3> QED
      BY <2>2, <3>1, FS_RemoveElement
  <2> HIDE DEF UpTo, Kept
  <2>4. k \in Nat /\ i \in Nat /\ (k \in 1 .. i <=> ~(i < k))
    BY <1>1, <2>1
  <2> QED
    BY <2>1, <2>3, <2>4
<1>5. ASSUME NEW n \in 1 .. L - 1
      PROVE  (CHOOSE i \in Kept : Cardinality(UpTo(i)) = n) = IF n < k THEN n ELSE n + 1
  <2> DEFINE p == IF n < k THEN n ELSE n + 1
  <2>1. p \in Kept
    BY <1>1, <1>2
  <2>2. Cardinality(UpTo(p)) = n
    BY <1>1, <1>4, <2>1
  <2>3. \A i \in Kept : Cardinality(UpTo(i)) = n => i = p
    <3> SUFFICES ASSUME NEW i \in Kept, Cardinality(UpTo(i)) = n PROVE i = p
      OBVIOUS
    <3>1. n = IF i < k THEN i ELSE i - 1
      BY <1>4
    <3> QED
      BY <1>1, <1>2, <3>1
  <2> QED
    BY <2>1, <2>2, <2>3
<1>6. r = [n \in 1 .. Cardinality(Kept) |->
             queue[CHOOSE i \in Kept : Cardinality(UpTo(i)) = n]]
  BY DEF retain
<1>7. r = [n \in 1 .. L - 1 |-> queue[IF n < k THEN n ELSE n + 1]]
  BY <1>3, <1>5, <1>6
<1>8. ASSUME NEW n \in 1 .. L - 1
      PROVE  (IF n < k THEN n ELSE n + 1) \in 1 .. L
  BY <1>1
<1>9. \A n \in 1 .. L - 1 : queue[IF n < k THEN n ELSE n + 1] \in S
  BY <1>1, <1>8, ElementOfSeq
<1>10. r \in Seq(S)
  BY <1>1, <1>7, <1>9, SeqDef
<1>11. Len(r) = L - 1
  BY <1>1, <1>7, <1>10, LenProperties
<1> QED
  BY <1>7, <1>10, <1>11

-----------------------------------------------------------------------------

(* What makes AnsweredExactlyOnce inductive: results are numbered without    *)
(* gaps from 0.                                                              *)
ResultsDense ==
    \A n \in Ids : Answered(n) <=> n < NextInferenceId

AiInv ==
    /\ KiltInv
    /\ AiTypeOK
    /\ QueueExact
    /\ QueueFIFO
    /\ RequestTablesAgree
    /\ AnsweredExactlyOnce
    /\ ResultsDense

(* While a request is open there are fewer results than requests: results    *)
(* map one to one to completed requests, and the open one is not among them. *)
(* So the counter of results cannot wrap before the counter of requests.     *)
LEMMA FewerResults ==
    ASSUME AiInv, NEW id \in Ids, Queued(id)
    PROVE  NextInferenceId < NextRequestId
<1> DEFINE Done == 0 .. NextInferenceId - 1
           Others == (0 .. NextRequestId - 1) \ {id}
           f == [n \in Done |-> InferenceResults[n].request_id]
<1>1. NextInferenceId \in Nat /\ NextRequestId \in Nat /\ Done \subseteq Ids /\ id \in 0 .. NextRequestId - 1
  <2>1. IdModulus \in Nat /\ NextInferenceId \in Ids /\ NextRequestId \in Ids
    BY AiAssumption DEF AiInv, AiTypeOK
  <2>2. id < NextRequestId
    BY DEF AiInv, RequestTablesAgree, Queued
  <2> QED
    BY <2>1, <2>2 DEF Ids
<1>2. ASSUME NEW n \in Done
      PROVE  /\ InferenceResults[n].request_id \in Ids
             /\ n \in AnswersTo(InferenceResults[n].request_id)
             /\ Completed(InferenceResults[n].request_id)
  <2>1. n \in Ids /\ n < NextInferenceId
    BY <1>1
  <2>2. Answered(n)
    BY <2>1 DEF AiInv, ResultsDense
  <2>3. InferenceResults[n] \in InferenceResult
    BY <2>1, <2>2 DEF AiInv, AiTypeOK, Answered
  <2>4. InferenceResults[n].request_id \in Ids
    BY <2>3 DEF InferenceResult
  <2>5. n \in AnswersTo(InferenceResults[n].request_id)
    BY <2>1, <2>2 DEF AnswersTo
  <2> QED
    BY <2>4, <2>5 DEF AiInv, AnsweredExactlyOnce
<1>3. ASSUME NEW n \in Done PROVE f[n] \in Others
  <2>1. f[n] \in Ids /\ Completed(f[n])
    BY <1>2
  <2>2. f[n] # id
    BY <2>1 DEF Completed, Queued
  <2>3. f[n] < NextRequestId
    BY <2>1 DEF AiInv, RequestTablesAgree, Completed
  <2> QED
    BY <1>1, <2>1, <2>2, <2>3, AiAssumption DEF Ids
<1>4. ASSUME NEW m \in Done, NEW n \in Done, f[m] = f[n] PROVE m = n
  <2>1. f[m] \in Ids /\ m \in AnswersTo(f[m]) /\ n \in AnswersTo(f[m])
    BY <1>2, <1>4
  <2> QED
    BY <2>1 DEF AiInv, AnsweredExactlyOnce
<1>5. f \in Injection(Done, Others)
  BY <1>3, <1>4 DEF Injection, IsInjective
<1>6. IsFiniteSet(0 .. NextRequestId - 1) /\ Cardinality(0 .. NextRequestId - 1) = NextRequestId
  BY <1>1, FS_Interval
<1>7. IsFiniteSet(Others) /\ Cardinality(Others) = NextRequestId - 1
  BY <1>1, <1>6, FS_RemoveElement
<1>8. Cardinality(Done) = NextInferenceId
  BY <1>1, FS_Interval
<1>9. Cardinality(Done) <= Cardinality(Others)
  BY <1>5, <1>7, FS_Injection
<1> QED
  BY <1>1, <1>7, <1>8, <1>9

(* The initial state satisfies the invariant. *)
LEMMA AiInitInv == Init => AiInv
<1> SUFFICES ASSUME Init PROVE AiInv
  OBVIOUS
<1> USE DEF Init, AiInit
<1>1. KiltInv /\ KiltTypeOK
  BY KiltInitInv DEF KiltInv
<1>2. AiTypeOK
  BY <1>1, AiAssumption DEF AiTypeOK, Ids
<1>3. QueueExact /\ QueueFIFO
  BY DEF QueueExact, QueueFIFO, Entries, Queued, Requested
<1>4. RequestTablesAgree /\ ResultsDense
  BY AiAssumption DEF RequestTablesAgree, ResultsDense, Requested, Answered, Ids
<1>5. AnsweredExactlyOnce
  BY DEF AnsweredExactlyOnce, Completed, Requested, AnswersTo, Answered
<1> QED
  BY <1>1, <1>2, <1>3, <1>4, <1>5 DEF AiInv

(* Calls that touch neither requests nor results nor queues keep the part of *)
(* the invariant about them.                                                 *)
LEMMA AiFrame ==
    ASSUME AiInv, KiltInv', AiTypeOK',
           UNCHANGED <<NextRequestId, InferenceRequests, NextInferenceId,
                       InferenceResults, AIWorkerQueues, RequestWorkerMap>>
    PROVE  AiInv'
  BY DEF AiInv, QueueExact, QueueFIFO, RequestTablesAgree, AnsweredExactlyOnce,
         ResultsDense, Entries, Queued, Requested, Completed, AnswersTo, Answered

(* A submission enters the new id, larger than all before, at the end of the *)
(* queue of its worker and into both tables.                                 *)
LEMMA SubmitRequestInv ==
    ASSUME RequestBound < IdModulus, AiInv, NEW who \in Customers, NEW w \in Accounts,
           submit_request(who, w)
    PROVE  AiInv'
<1> USE DEF AiInv
<1>0. PICK id \in Ids : id = NextRequestId
  BY DEF AiTypeOK
<1> DEFINE r == [customer |-> who, target_worker |-> w, status |-> "Queued"]
           queue == AIWorkerQueues[w]
<1>1. /\ id + 1 \in Ids /\ NextRequestId' = id + 1
      /\ IdModulus \in Nat /\ id \in Nat
  BY <1>0, AiAssumption DEF submit_request, next_id, AiTypeOK, Ids
<1>2. r \in InferenceRequest /\ r # None
  <2>1. who \in Accounts
    BY AiAssumption
  <2>2. r \in InferenceRequest
    BY <2>1 DEF InferenceRequest, RequestStatus
  <2> QED
    BY <2>2, AiAssumption
<1>3. /\ InferenceRequests' = [InferenceRequests EXCEPT ![id] = r]
      /\ RequestWorkerMap' = [RequestWorkerMap EXCEPT ![id] = w]
      /\ AIWorkerQueues' = [AIWorkerQueues EXCEPT ![w] = Append(queue, id)]
      /\ UNCHANGED <<NextInferenceId, InferenceResults, AIWorkerStatus, AllowedModels>>
      /\ UNCHANGED kiltVars
  BY <1>0 DEF submit_request, try_push
<1>4. KiltInv' /\ KiltTypeOK'
  BY <1>3 DEF KiltInv, KiltTypeOK, DIDMapsAgree, CredentialWindow, kiltVars
<1>5. queue \in Seq(Ids) /\ Len(queue) \in Nat /\ Len(queue) + 1 <= MaxQueueSize
  BY AiAssumption DEF AiTypeOK, submit_request, HasRoom
<1>6. /\ Append(queue, id) \in Seq(Ids)
      /\ Len(Append(queue, id)) = Len(queue) + 1
      /\ \A i \in 1 .. Len(queue) : Append(queue, id)[i] = queue[i]
      /\ Append(queue, id)[Len(queue) + 1] = id
  BY <1>1, <1>5, AppendProperties
<1>7. /\ DOMAIN queue = 1 .. Len(queue)
      /\ DOMAIN Append(queue, id) = 1 .. Len(queue) + 1
  BY <1>5, <1>6, LenProperties
<1>8. AiTypeOK'
  BY <1>1, <1>2, <1>3, <1>4, <1>5, <1>6 DEF AiTypeOK
<1>9. \A i \in DOMAIN queue : queue[i] \in Ids /\ queue[i] < id
  <2> TAKE i \in DOMAIN queue
  <2>1. queue[i] \in Entries(AIWorkerQueues[w])
    BY DEF Entries
  <2> QED
    BY <1>0, <2>1 DEF QueueExact, RequestTablesAgree, Queued
<1>10. QueueFIFO'
  <2> SUFFICES ASSUME NEW v \in Accounts,
                      NEW i \in DOMAIN AIWorkerQueues'[v],
                      NEW j \in DOMAIN AIWorkerQueues'[v], i < j
               PROVE  AIWorkerQueues'[v][i] < AIWorkerQueues'[v][j]
    BY DEF QueueFIFO
  <2>1. CASE v # w
    BY <1>3, <2>1 DEF QueueFIFO, AiTypeOK
  <2>2. CASE v = w
    <3>1. AIWorkerQueues'[v] = Append(queue, id)
      BY <1>3, <2>2 DEF AiTypeOK
    <3>2. i \in 1 .. Len(queue) /\ (j \in 1 .. Len(queue) \/ j = Len(queue) + 1)
      BY <1>5, <1>7, <3>1
    <3>3. CASE j \in 1 .. Len(queue)
      BY <1>6, <1>7, <3>1, <3>2, <3>3 DEF QueueFIFO
    <3>4. CASE j = Len(queue) + 1
      BY <1>6, <1>7, <1>9, <3>1, <3>2, <3>4
    <3> QED
      BY <3>2, <3>3, <3>4
  <2> QED
    BY <2>1, <2>2
<1>11. Entries(Append(queue, id)) = Entries(queue) \cup {id}
  BY <1>5, <1>6, <1>7 DEF Entries
<1>12. /\ Queued(id)' /\ Requested(id)' /\ ~Completed(id)'
       /\ InferenceRequests'[id].target_worker = w
       /\ \A x \in Ids : x # id => InferenceRequests'[x] = InferenceRequests[x]
       /\ ~Requested(id)
  <2>1. InferenceRequests'[id] = r
    BY <1>1, <1>3 DEF AiTypeOK
  <2>2. \A x \in Ids : x # id => InferenceRequests'[x] = InferenceRequests[x]
    BY <1>1, <1>3 DEF AiTypeOK
  <2>3. ~Requested(id)
    BY <1>0, <1>1 DEF RequestTablesAgree
  <2>4. r.status = "Queued" /\ r.target_worker = w
    OBVIOUS
  <2>5. Requested(id)' /\ Queued(id)' /\ ~Completed(id)'
    BY <1>2, <2>1, <2>4 DEF Requested, Queued, Completed
  <2> QED
    BY <2>1, <2>2, <2>3, <2>4, <2>5
<1>13. QueueExact'
  <2> SUFFICES ASSUME NEW v \in Accounts
               PROVE  Entries(AIWorkerQueues'[v]) =
                        {x \in Ids : Queued(x)' /\ InferenceRequests'[x].target_worker = v}
    BY DEF QueueExact, Entries
  <2>1. \A x \in Ids : x # id => (Queued(x)' <=> Queued(x))
    BY <1>12 DEF Queued, Requested
  <2>2. Entries(AIWorkerQueues[v]) = {x \in Ids : Queued(x) /\ InferenceRequests[x].target_worker = v}
    BY DEF QueueExact
  <2>3. ~Queued(id)
    BY <1>12 DEF Queued
  <2>4. CASE v = w
    <3>1. Entries(AIWorkerQueues'[v]) = Entries(AIWorkerQueues[v]) \cup {id}
      BY <1>3, <1>11, <2>4 DEF AiTypeOK
    <3> QED
      BY <1>1, <1>12, <2>1, <2>2, <2>3, <2>4, <3>1
  <2>5. CASE v # w
    <3>1. AIWorkerQueues'[v] = AIWorkerQueues[v]
      BY <1>3, <2>5 DEF AiTypeOK
    <3> QED
      BY <1>1, <1>12, <2>1, <2>2, <2>3, <2>5, <3>1
  <2> QED
    BY <2>4, <2>5
<1>14. RequestTablesAgree'
  <2> SUFFICES ASSUME NEW x \in Ids
               PROVE  /\ Requested(x)' <=> x < NextRequestId'
                      /\ Requested(x)' => RequestWorkerMap'[x] = InferenceRequests'[x].target_worker
                      /\ ~Requested(x)' => RequestWorkerMap'[x] = None
    BY DEF RequestTablesAgree
  <2>1. CASE x = id
    <3>1. RequestWorkerMap'[id] = w /\ id < id + 1
      BY <1>1, <1>3 DEF AiTypeOK
    <3> QED
      BY <1>1, <1>12, <2>1, <3>1
  <2>2. CASE x # id
    <3>1. (Requested(x)' <=> Requested(x)) /\ RequestWorkerMap'[x] = RequestWorkerMap[x]
      BY <1>3, <1>12, <2>2 DEF Requested, AiTypeOK
    <3>2. x < id + 1 <=> x < id
      BY <1>1, <2>2 DEF Ids
    <3> QED
      BY <1>0, <1>1, <1>12, <2>2, <3>1, <3>2 DEF RequestTablesAgree
  <2> QED
    BY <2>1, <2>2
<1>15. ResultsDense'
  BY <1>3 DEF ResultsDense, Answered
<1>16. AnsweredExactlyOnce'
  <2>1. \A x \in Ids : AnswersTo(x)' = AnswersTo(x)
    BY <1>3 DEF AnswersTo, Answered
  <2>2. AnswersTo(id) = {}
    BY <1>1, <1>12 DEF AnsweredExactlyOnce, Completed
  <2>3. \A x \in Ids : x # id => (Completed(x)' <=> Completed(x))
    BY <1>12 DEF Completed, Requested
  <2> SUFFICES ASSUME NEW x \in Ids
               PROVE  /\ Completed(x)' <=> AnswersTo(x)' # {}
                      /\ \A m, n \in AnswersTo(x)' : m = n
                      /\ \A n \in AnswersTo(x)' :
                           /\ InferenceResults'[n].worker = InferenceRequests'[x].target_worker
                           /\ InferenceResults'[n].worker_did = generate_did[InferenceResults'[n].worker]
    BY DEF AnsweredExactlyOnce
  <2>4. CASE x = id
    BY <1>12, <2>1, <2>2, <2>4
  <2>5. CASE x # id
    BY <1>3, <1>12, <2>1, <2>3, <2>5 DEF AnsweredExactlyOnce
  <2> QED
    BY <2>4, <2>5
<1> QED
  BY <1>4, <1>8, <1>10, <1>13, <1>14, <1>15, <1>16

(* In a strictly increasing queue, retain removes exactly the given id, and  *)
(* what is left is strictly increasing.                                      *)
LEMMA RetainFIFO ==
    ASSUME NEW queue \in Seq(Ids), NEW id \in Entries(queue),
           \A i, j \in DOMAIN queue : i < j => queue[i] < queue[j]
    PROVE  /\ retain(queue, id) \in Seq(Ids)
           /\ Len(retain(queue, id)) <= Len(queue)
           /\ Entries(retain(queue, id)) = Entries(queue) \ {id}
           /\ \A i, j \in DOMAIN retain(queue, id) :
                 i < j => retain(queue, id)[i] < retain(queue, id)[j]
<1> DEFINE L == Len(queue)
           r == retain(queue, id)
<1>1. PICK k \in DOMAIN queue : queue[k] = id
  BY DEF Entries
<1>2. L \in Nat /\ DOMAIN queue = 1 .. L /\ k \in 1 .. L
  BY LenProperties
<1>3. \A i \in DOMAIN queue : queue[i] \in Nat
  <2>1. \A i \in 1 .. L : queue[i] \in Ids
    BY ElementOfSeq
  <2> QED
    BY <1>2, <2>1, AiAssumption DEF Ids
<1>4. \A i \in DOMAIN queue : queue[i] = queue[k] => i = k
  BY <1>2, <1>3
<1>5. /\ r \in Seq(Ids)
      /\ Len(r) = L - 1
      /\ \A n \in 1 .. L - 1 : r[n] = IF n < k THEN queue[n] ELSE queue[n + 1]
  BY <1>1, <1>4, RetainHit
<1>6. DOMAIN r = 1 .. L - 1
  BY <1>5, LenProperties
<1> HIDE DEF r
<1>7. ASSUME NEW x \in Entries(r) PROVE x \in Entries(queue) \ {id}
  <2>1. PICK n \in 1 .. L - 1 : x = r[n]
    BY <1>6 DEF Entries
  <2>2. PICK i \in 1 .. L : x = queue[i] /\ i # k
    BY <1>2, <1>5, <2>1
  <2> QED
    BY <1>1, <1>2, <1>4, <2>2 DEF Entries
<1>8. ASSUME NEW x \in Entries(queue), x # id PROVE x \in Entries(r)
  <2>1. PICK i \in 1 .. L : x = queue[i] /\ i # k
    BY <1>1, <1>2, <1>8 DEF Entries
  <2> DEFINE n == IF i < k THEN i ELSE i - 1
  <2>2. n \in 1 .. L - 1 /\ r[n] = x
    BY <1>2, <1>5, <2>1
  <2> QED
    BY <1>6, <2>2 DEF Entries
<1>9. ASSUME NEW i \in DOMAIN r, NEW j \in DOMAIN r, i < j
      PROVE  r[i] < r[j]
  <2> DEFINE up(n) == IF n < k THEN n ELSE n + 1
  <2>1. up(i) \in 1 .. L /\ up(j) \in 1 .. L /\ up(i) < up(j)
    BY <1>2, <1>6, <1>9
  <2>2. r[i] = queue[up(i)] /\ r[j] = queue[up(j)]
    BY <1>5, <1>6
  <2> QED
    BY <1>2, <2>1, <2>2
<1> QED
  BY <1>2, <1>5, <1>7, <1>8, <1>9 DEF r

(* An answer completes its request, takes it out of its queue and adds the   *)
(* one result for it.                                                        *)
LEMMA SubmitInferenceInv ==
    ASSUME AiInv, NEW who \in Accounts, NEW id \in Ids, submit_inference(who, id)
    PROVE  AiInv'
<1> USE DEF AiInv
<1>0. PICK n0 \in Ids : n0 = NextInferenceId
  BY DEF AiTypeOK
<1> DEFINE queue == AIWorkerQueues[who]
           q == retain(queue, id)
           done == [InferenceRequests[id] EXCEPT !.status = "Completed"]
           result == [request_id |-> id, worker |-> who, worker_did |-> generate_did[who]]
<1>1. Queued(id) /\ InferenceRequests[id].target_worker = who /\ InferenceRequests[id] \in InferenceRequest
  BY DEF submit_inference, MayAnswer, Queued, Requested, AiTypeOK
<1>2. n0 + 1 \in Ids /\ NextInferenceId' = n0 + 1 /\ n0 \in Nat
  <2>1. n0 < NextRequestId
    BY <1>0, <1>1, FewerResults
  <2>2. IdModulus \in Nat /\ NextRequestId \in 0 .. IdModulus - 1 /\ n0 \in 0 .. IdModulus - 1
    BY AiAssumption DEF AiTypeOK, Ids
  <2>3. NextInferenceId' = next_id(n0)
    BY <1>0 DEF submit_inference
  <2> QED
    BY <2>1, <2>2, <2>3 DEF next_id, Ids
<1>3. get_worker_did(who) = generate_did[who]
  BY DEF submit_inference, ValidWorker, get_worker_did, DIDMapsAgree, KiltInv
<1>4. /\ InferenceResults' = [InferenceResults EXCEPT ![n0] = result]
      /\ InferenceRequests' = [InferenceRequests EXCEPT ![id] = done]
      /\ AIWorkerQueues' = [AIWorkerQueues EXCEPT ![who] = q]
      /\ UNCHANGED <<NextRequestId, RequestWorkerMap, AIWorkerStatus, AllowedModels>>
      /\ UNCHANGED kiltVars
  BY <1>0, <1>3 DEF submit_inference
<1>5. KiltInv' /\ KiltTypeOK'
  BY <1>4 DEF KiltInv, KiltTypeOK, DIDMapsAgree, CredentialWindow, kiltVars
<1>6. done \in InferenceRequest /\ done # None /\ done.status = "Completed" /\ done.target_worker = who
  <2>1. done \in InferenceRequest /\ done.status = "Completed" /\ done.target_worker = who
    BY <1>1 DEF InferenceRequest, RequestStatus
  <2> QED
    BY <2>1, AiAssumption
<1>7. result \in InferenceResult /\ result # None
  <2>1. result \in InferenceResult
    BY KiltAssumption DEF InferenceResult
  <2> QED
    BY <2>1, AiAssumption
<1>8. /\ q \in Seq(Ids)
      /\ Len(q) <= Len(queue)
      /\ Entries(q) = Entries(queue) \ {id}
      /\ \A i, j \in DOMAIN q : i < j => q[i] < q[j]
  <2>1. queue \in Seq(Ids)
    BY DEF AiTypeOK
  <2>2. id \in Entries(queue)
    BY <1>1 DEF QueueExact
  <2>3. \A i, j \in DOMAIN queue : i < j => queue[i] < queue[j]
    BY DEF QueueFIFO
  <2> QED
    BY <2>1, <2>2, <2>3, RetainFIFO
<1> HIDE DEF done, result, q
<1>9. AiTypeOK'
  <2>1. Len(q) <= MaxQueueSize
    <3>1. Len(q) \in Nat /\ Len(queue) \in Nat /\ Len(queue) <= MaxQueueSize
      BY <1>8, LenProperties DEF AiTypeOK
    <3> QED
      BY <1>8, <3>1, AiAssumption
  <2> QED
    BY <1>2, <1>4, <1>5, <1>6, <1>7, <1>8, <2>1 DEF AiTypeOK
<1>10. /\ InferenceRequests'[id] = done
       /\ \A x \in Ids : x # id => InferenceRequests'[x] = InferenceRequests[x]
       /\ InferenceResults'[n0] = result
       /\ \A n \in Ids : n # n0 => InferenceResults'[n] = InferenceResults[n]
       /\ AIWorkerQueues'[who] = q
       /\ \A v \in Accounts : v # who => AIWorkerQueues'[v] = AIWorkerQueues[v]
  BY <1>4 DEF AiTypeOK
<1>11. QueueFIFO'
  BY <1>8, <1>10 DEF QueueFIFO
<1>12. ASSUME NEW x \in Ids
       PROVE  /\ Queued(x)' <=> (Queued(x) /\ x # id)
              /\ Requested(x)' <=> Requested(x)
              /\ Completed(x)' <=> (Completed(x) \/ x = id)
              /\ Requested(x) =>
                    InferenceRequests'[x].target_worker = InferenceRequests[x].target_worker
  BY <1>1, <1>6, <1>10 DEF Queued, Requested, Completed
<1>13. QueueExact'
  <2> SUFFICES ASSUME NEW v \in Accounts
               PROVE  Entries(AIWorkerQueues'[v]) =
                        {x \in Ids : Queued(x)' /\ InferenceRequests'[x].target_worker = v}
    BY DEF QueueExact, Entries
  <2>1. Entries(AIWorkerQueues[v]) = {x \in Ids : Queued(x) /\ InferenceRequests[x].target_worker = v}
    BY DEF QueueExact
  <2>2. \A x \in Ids : Queued(x) => Requested(x)
    BY DEF Queued
  <2>3. Entries(AIWorkerQueues'[v]) = Entries(AIWorkerQueues[v]) \ {id}
    <3>1. CASE v = who
      BY <1>8, <1>10, <3>1
    <3>2. CASE v # who
      BY <1>1, <1>10, <2>1, <3>2
    <3> QED
      BY <3>1, <3>2
  <2>4. ASSUME NEW x \in Ids
        PROVE  Queued(x)' /\ InferenceRequests'[x].target_worker = v
                 <=> Queued(x) /\ InferenceRequests[x].target_worker = v /\ x # id
    <3>1. Queued(x)' <=> (Queued(x) /\ x # id)
      BY <1>12
    <3>2. Queued(x) => InferenceRequests'[x].target_worker = InferenceRequests[x].target_worker
      BY <1>12, <2>2
    <3> QED
      BY <3>1, <3>2
  <2> QED
    BY <2>1, <2>3, <2>4
<1>14. RequestTablesAgree'
  <2> SUFFICES ASSUME NEW x \in Ids
               PROVE  /\ Requested(x)' <=> x < NextRequestId'
                      /\ Requested(x)' => RequestWorkerMap'[x] = InferenceRequests'[x].target_worker
                      /\ ~Requested(x)' => RequestWorkerMap'[x] = None
    BY DEF RequestTablesAgree
  <2>1. Requested(x)' <=> Requested(x)
    BY <1>12
  <2>2. Requested(x) => InferenceRequests'[x].target_worker = InferenceRequests[x].target_worker
    BY <1>12
  <2> QED
    BY <1>4, <2>1, <2>2 DEF RequestTablesAgree
<1>15. \A n \in Ids : Answered(n)' <=> (Answered(n) \/ n = n0)
  BY <1>7, <1>10 DEF Answered
<1>16. ResultsDense'
  <2> SUFFICES ASSUME NEW n \in Ids PROVE Answered(n)' <=> n < NextInferenceId'
    BY DEF ResultsDense
  <2>1. Answered(n) <=> n < n0
    BY <1>0 DEF ResultsDense
  <2>2. n < n0 + 1 <=> (n < n0 \/ n = n0)
    BY <1>2, AiAssumption DEF Ids
  <2> QED
    BY <1>2, <1>15, <2>1, <2>2
<1>17. ~Answered(n0)
  BY <1>0, <1>2 DEF ResultsDense
<1>18. result.request_id = id /\ result.worker = who /\ result.worker_did = generate_did[who]
  BY DEF result
<1>19. \A x \in Ids : AnswersTo(x)' = IF x = id THEN AnswersTo(x) \cup {n0} ELSE AnswersTo(x)
  <2> TAKE x \in Ids
  <2>1. \A n \in Ids : n # n0 => (n \in AnswersTo(x)' <=> n \in AnswersTo(x))
    BY <1>10, <1>15 DEF AnswersTo
  <2>2. n0 \in AnswersTo(x)' <=> x = id
    BY <1>10, <1>15, <1>18 DEF AnswersTo
  <2>3. n0 \notin AnswersTo(x)
    BY <1>17 DEF AnswersTo
  <2>4. AnswersTo(x) \subseteq Ids /\ AnswersTo(x)' \subseteq Ids
    BY DEF AnswersTo
  <2> QED
    BY <2>1, <2>2, <2>3, <2>4
<1>20. AnsweredExactlyOnce'
  <2> SUFFICES ASSUME NEW x \in Ids
               PROVE  /\ Completed(x)' <=> AnswersTo(x)' # {}
                      /\ \A m, n \in AnswersTo(x)' : m = n
                      /\ \A n \in AnswersTo(x)' :
                           /\ InferenceResults'[n].worker = InferenceRequests'[x].target_worker
                           /\ InferenceResults'[n].worker_did = generate_did[InferenceResults'[n].worker]
    BY DEF AnsweredExactlyOnce
  <2>1. CASE x = id
    <3>1. ~Completed(id)
      BY <1>1 DEF Queued, Completed
    <3>2. AnswersTo(id) = {}
      BY <3>1 DEF AnsweredExactlyOnce
    <3>3. AnswersTo(x)' = {n0}
      BY <1>19, <2>1, <3>2
    <3>4. Completed(x)'
      BY <1>12, <2>1
    <3> QED
      BY <1>6, <1>10, <1>18, <2>1, <3>3, <3>4
  <2>2. CASE x # id
    <3>1. AnswersTo(x)' = AnswersTo(x)
      BY <1>19, <2>2
    <3>5. Completed(x)' <=> Completed(x)
      BY <1>12, <2>2
    <3>2. \A n \in AnswersTo(x) : n \in Ids /\ InferenceResults'[n] = InferenceResults[n]
      BY <1>10, <1>17 DEF AnswersTo
    <3>3. InferenceRequests'[x] = InferenceRequests[x]
      BY <1>10, <2>2
    <3> QED
      BY <3>1, <3>2, <3>3, <3>5 DEF AnsweredExactlyOnce
  <2> QED
    BY <2>1, <2>2
<1> QED
  BY <1>5, <1>9, <1>11, <1>13, <1>14, <1>16, <1>20

(* Every step of the two pallets preserves the invariant. *)
LEMMA AiNextInv ==
    ASSUME RequestBound < IdModulus, AiInv, [Next]_vars
    PROVE  AiInv'
<1>1. ASSUME UNCHANGED <<NextRequestId, InferenceRequests, NextInferenceId,
                         InferenceResults, AIWorkerQueues, RequestWorkerMap>>,
             [KiltNext]_kiltVars,
             AIWorkerStatus' \in [Accounts -> BOOLEAN \cup {None}],
             AllowedModels' \in [Models -> Descriptors \cup {None}]
      PROVE  AiInv'
  <2>1. KiltInv'
    BY <1>1, KiltNextInv DEF AiInv
  <2>2. AiTypeOK'
    BY <1>1, <2>1 DEF AiInv, AiTypeOK, KiltInv
  <2> QED
    BY <1>1, <2>1, <2>2, AiFrame
<1>2. CASE KiltNext /\ UNCHANGED aiVars
  BY <1>1, <1>2 DEF aiVars, AiInv, AiTypeOK
<1>3. ASSUME NEW who \in Customers, NEW w \in Accounts, submit_request(who, w)
      PROVE  AiInv'
  BY <1>3, SubmitRequestInv
<1>4. ASSUME NEW who \in Accounts, NEW online \in BOOLEAN,
             update_ai_worker_status(who, online)
      PROVE  AiInv'
  BY <1>1, <1>4 DEF update_ai_worker_status, AiInv, AiTypeOK
<1>5. ASSUME NEW who \in Accounts, NEW id \in Ids, submit_inference(who, id)
      PROVE  AiInv'
  BY <1>5, SubmitInferenceInv
<1>6. ASSUME NEW m \in Models, NEW x \in Descriptors, add_allowed_model(m, x)
      PROVE  AiInv'
  BY <1>1, <1>6 DEF add_allowed_model, AiInv, AiTypeOK
<1>7. CASE UNCHANGED vars
  BY <1>1, <1>7 DEF vars, aiVars, AiInv, AiTypeOK
<1> QED
  BY <1>2, <1>3, <1>4, <1>5, <1>6, <1>7 DEF Next, AiSigned, AiRoot

(* The inductive invariant holds in every reachable state while the request  *)
(* ids do not wrap.                                                          *)
THEOREM AiInvariance ==
    ASSUME RequestBound < IdModulus
    PROVE  Spec => []AiInv
<1>1. AiInv /\ [Next]_vars => AiInv'
  BY AiNextInv
<1> QED
  BY <1>1, AiInitInv, PTL DEF Spec

(* Every storage item of the pallet keeps its type and every queue its bound. *)
THEOREM AiTypeCorrect == ASSUME RequestBound < IdModulus PROVE Spec => []AiTypeOK
<1>1. AiInv => AiTypeOK
  BY DEF AiInv
<1> QED
  BY <1>1, AiInvariance, PTL

(* A worker's queue lists exactly its open requests, for every interleaving   *)
(* of submissions, answers and changes to the credentials.                    *)
THEOREM QueueIsExact == ASSUME RequestBound < IdModulus PROVE Spec => []QueueExact
<1>1. AiInv => QueueExact
  BY DEF AiInv
<1> QED
  BY <1>1, AiInvariance, PTL

(* A worker's queue is in the order of submission and has no duplicates. *)
THEOREM QueueIsFIFO == ASSUME RequestBound < IdModulus PROVE Spec => []QueueFIFO
<1>1. AiInv => QueueFIFO
  BY DEF AiInv
<1> QED
  BY <1>1, AiInvariance, PTL

(* The request table, the reverse map and the request counter agree. *)
THEOREM TablesAgree == ASSUME RequestBound < IdModulus PROVE Spec => []RequestTablesAgree
<1>1. AiInv => RequestTablesAgree
  BY DEF AiInv
<1> QED
  BY <1>1, AiInvariance, PTL

(* Completed requests have one result, by the worker they were addressed to;  *)
(* open ones have none.                                                       *)
THEOREM AnswersAreUnique ==
    ASSUME RequestBound < IdModulus PROVE Spec => []AnsweredExactlyOnce
<1>1. AiInv => AnsweredExactlyOnce
  BY DEF AiInv
<1> QED
  BY <1>1, AiInvariance, PTL

-----------------------------------------------------------------------------

(* Composition: what the two pallets do to the credentials is what the        *)
(* credential pallet does alone, so its theorems hold in the composed system. *)
THEOREM KiltInContext == Spec => KiltSpec
<1>1. Init => KiltInit
  BY DEF Init
<1>2. [Next]_vars => [KiltNext]_kiltVars
  BY DEF Next, vars, AiSigned, AiRoot, submit_request, update_ai_worker_status,
         submit_inference, add_allowed_model
<1> QED
  BY <1>1, <1>2, PTL DEF Spec, KiltSpec

(* The guard of the calls implies that the worker may serve. *)
LEMMA ValidMayServe ==
    ASSUME KiltInv, NEW a \in Accounts, ValidWorker(a)
    PROVE  MayServe(a)
<1>1. WorkerDIDs[a] # None /\ get_worker_did(a) = generate_did[a] /\ WorkerDIDs[a].did = generate_did[a]
  BY DEF KiltInv, DIDMapsAgree, ValidWorker, get_worker_did
<1>2. a \in Holders(generate_did[a])
  BY <1>1 DEF Holders
<1> QED
  BY <1>1, <1>2 DEF ValidWorker, verify_worker_credential, MayServe

(* Nothing moves for a worker that may not serve. *)
THEOREM InvalidWorkersAreInert ==
    ASSUME RequestBound < IdModulus PROVE Spec => InertWhileInvalid
<1> DEFINE Inert == \A w \in Accounts : ~MayServe(w) =>
          /\ AIWorkerQueues'[w] = AIWorkerQueues[w]
          /\ AIWorkerStatus'[w] = AIWorkerStatus[w]
          /\ \A n \in Ids : InferenceResults'[n] # InferenceResults[n] =>
                InferenceResults'[n].worker # w
<1>1. AiInv /\ [Next]_vars => [Inert]_vars
  <2> SUFFICES ASSUME AiInv, [Next]_vars, NEW w \in Accounts, ~MayServe(w)
               PROVE  /\ AIWorkerQueues'[w] = AIWorkerQueues[w]
                      /\ AIWorkerStatus'[w] = AIWorkerStatus[w]
                      /\ \A n \in Ids : InferenceResults'[n] # InferenceResults[n] =>
                            InferenceResults'[n].worker # w
    OBVIOUS
  <2>1. CASE UNCHANGED <<AIWorkerQueues, AIWorkerStatus, InferenceResults>>
    BY <2>1
  <2>2. ASSUME NEW a \in Accounts, ValidWorker(a) PROVE a # w
    BY <2>2, ValidMayServe DEF AiInv
  <2>3. ASSUME NEW who \in Customers, NEW a \in Accounts, submit_request(who, a)
        PROVE  /\ AIWorkerQueues'[w] = AIWorkerQueues[w]
               /\ UNCHANGED <<AIWorkerStatus, InferenceResults>>
    <3>1. a # w
      BY <2>2, <2>3 DEF submit_request
    <3> QED
      BY <2>3, <3>1 DEF submit_request, AiInv, AiTypeOK
  <2>4. ASSUME NEW a \in Accounts, NEW online \in BOOLEAN, update_ai_worker_status(a, online)
        PROVE  /\ AIWorkerStatus'[w] = AIWorkerStatus[w]
               /\ UNCHANGED <<AIWorkerQueues, InferenceResults>>
    <3>1. a # w
      BY <2>2, <2>4 DEF update_ai_worker_status
    <3> QED
      BY <2>4, <3>1 DEF update_ai_worker_status, AiInv, AiTypeOK
  <2>5. ASSUME NEW a \in Accounts, NEW id \in Ids, submit_inference(a, id)
        PROVE  /\ AIWorkerQueues'[w] = AIWorkerQueues[w]
               /\ UNCHANGED AIWorkerStatus
               /\ \A n \in Ids : InferenceResults'[n] # InferenceResults[n] =>
                     InferenceResults'[n].worker # w
    <3>1. a # w
      BY <2>2, <2>5 DEF submit_inference
    <3>2. AIWorkerQueues'[w] = AIWorkerQueues[w] /\ UNCHANGED AIWorkerStatus
      BY <2>5, <3>1 DEF submit_inference, AiInv, AiTypeOK
    <3>3. \A n \in Ids : InferenceResults'[n] # InferenceResults[n] =>
             InferenceResults'[n].worker = a
      BY <2>5 DEF submit_inference, AiInv, AiTypeOK
    <3> QED
      BY <3>1, <3>2, <3>3
  <2> QED
    BY <2>1, <2>3, <2>4, <2>5
       DEF Next, vars, aiVars, AiSigned, AiRoot, add_allowed_model
<1> QED
  BY <1>1, AiInvariance, PTL DEF Spec, InertWhileInvalid

(* Neither pallet ever rewrites a result, or the parties of a request, or     *)
(* reopens a completed request.                                               *)
THEOREM HistoryStands ==
    ASSUME RequestBound < IdModulus PROVE Spec => HistoryIsFinal
<1> DEFINE Final ==
      /\ \A n \in Ids : Answered(n) => InferenceResults'[n] = InferenceResults[n]
      /\ \A id \in Ids : Requested(id) =>
            /\ InferenceRequests'[id] # None
            /\ InferenceRequests'[id].customer = InferenceRequests[id].customer
            /\ InferenceRequests'[id].target_worker = InferenceRequests[id].target_worker
            /\ Completed(id) => InferenceRequests'[id] = InferenceRequests[id]
<1>1. AiInv /\ [Next]_vars => [Final]_vars
  <2> SUFFICES ASSUME AiInv, [Next]_vars PROVE Final
    OBVIOUS
  <2>1. CASE UNCHANGED <<InferenceRequests, InferenceResults>>
    BY <2>1 DEF Requested
  <2>2. ASSUME NEW who \in Customers, NEW w \in Accounts, submit_request(who, w)
        PROVE  Final
    <3>1. ~Requested(NextRequestId) /\ UNCHANGED InferenceResults
      BY <2>2 DEF submit_request, AiInv, AiTypeOK, RequestTablesAgree, Ids
    <3>2. ASSUME NEW id \in Ids, Requested(id)
          PROVE  InferenceRequests'[id] = InferenceRequests[id]
      <4>1. id # NextRequestId
        BY <3>1, <3>2
      <4> QED
        BY <2>2, <4>1 DEF submit_request, AiInv, AiTypeOK
    <3> QED
      BY <3>1, <3>2 DEF Requested
  <2>3. ASSUME NEW who \in Accounts, NEW r \in Ids, submit_inference(who, r)
        PROVE  Final
    <3>1. ASSUME NEW n \in Ids, Answered(n)
          PROVE  InferenceResults'[n] = InferenceResults[n]
      <4>1. n # NextInferenceId
        BY <3>1, AiAssumption DEF AiInv, AiTypeOK, ResultsDense, Ids
      <4> QED
        BY <2>3, <4>1 DEF submit_inference, AiInv, AiTypeOK
    <3>2. ASSUME NEW id \in Ids, Requested(id)
          PROVE  /\ InferenceRequests'[id] # None
                 /\ InferenceRequests'[id].customer = InferenceRequests[id].customer
                 /\ InferenceRequests'[id].target_worker = InferenceRequests[id].target_worker
                 /\ Completed(id) => InferenceRequests'[id] = InferenceRequests[id]
      <4>1. InferenceRequests' = [InferenceRequests EXCEPT ![r].status = "Completed"]
        BY <2>3 DEF submit_inference
      <4>2. CASE id # r
        BY <3>2, <4>1, <4>2 DEF AiInv, AiTypeOK, Requested
      <4>3. CASE id = r
        <5> DEFINE done == [InferenceRequests[id] EXCEPT !.status = "Completed"]
        <5>1. InferenceRequests[id] \in InferenceRequest
          BY <3>2 DEF AiInv, AiTypeOK, Requested
        <5>2. /\ done \in InferenceRequest
              /\ done.customer = InferenceRequests[id].customer
              /\ done.target_worker = InferenceRequests[id].target_worker
          BY <5>1 DEF InferenceRequest, RequestStatus
        <5>3. done # None
          BY <5>2, AiAssumption
        <5>4. InferenceRequests'[id] = done
          BY <4>1, <4>3 DEF AiInv, AiTypeOK
        <5>5. ~Completed(id)
          BY <2>3, <4>3 DEF submit_inference, MayAnswer, Completed
        <5> QED
          BY <5>2, <5>3, <5>4, <5>5
      <4> QED
        BY <4>2, <4>3
    <3> QED
      BY <3>1, <3>2
  <2> QED
    BY <2>1, <2>2, <2>3
       DEF Next, vars, aiVars, AiSigned, AiRoot, update_ai_worker_status, add_allowed_model
<1> QED
  BY <1>1, AiInvariance, PTL DEF Spec, HistoryIsFinal

-----------------------------------------------------------------------------

(* A queue has at least as many places as entries. *)
LEMMA EntriesSize ==
    ASSUME NEW S, NEW queue \in Seq(S)
    PROVE  Cardinality(Entries(queue)) \in Nat /\ Cardinality(Entries(queue)) <= Len(queue)
<1>1. Len(queue) \in Nat /\ DOMAIN queue = 1 .. Len(queue) /\ queue \in [1 .. Len(queue) -> S]
  BY LenProperties
<1>2. IsFiniteSet(1 .. Len(queue)) /\ Cardinality(1 .. Len(queue)) = Len(queue)
  BY <1>1, IntervalSize
<1>3. queue \in Surjection(1 .. Len(queue), Entries(queue))
  BY <1>1 DEF Entries, Surjection
<1>4. IsFiniteSet(Entries(queue)) /\ Cardinality(Entries(queue)) <= Cardinality(1 .. Len(queue))
  BY <1>2, <1>3, FS_Surjection
<1> QED
  BY <1>2, <1>4, FS_CardinalityType

(* The pallets implement the service they promise: each submission is an Ask, *)
(* each answer an Answer, everything else a stuttering step.                  *)
THEOREM PalletsImplementService ==
    ASSUME RequestBound < IdModulus PROVE Spec => ServiceSpec
<1> DEFINE open == [w \in Accounts |-> Entries(AIWorkerQueues[w])]
           answer == [id \in Ids |->
              IF Completed(id) THEN InferenceRequests[id].target_worker ELSE None]
<1>1. Init => Service!Init
  BY DEF Init, AiInit, Service!Init, Entries, Completed, Requested
<1>2. AiInv /\ [Next]_vars => [Service!Next]_(Service!serviceVars)
  <2> SUFFICES ASSUME AiInv, [Next]_vars
               PROVE  Service!Next \/ UNCHANGED <<open, answer>>
    BY DEF Service!serviceVars
  <2>1. CASE UNCHANGED <<AIWorkerQueues, InferenceRequests>>
    <3>1. \A id \in Ids : Completed(id)' <=> Completed(id)
      BY <2>1 DEF Completed, Requested
    <3> QED
      BY <2>1, <3>1 DEF Completed, Requested
  <2>2. ASSUME NEW who \in Customers, NEW w \in Accounts, submit_request(who, w)
        PROVE  Service!Next
    <3>1. PICK r \in Ids : r = NextRequestId
      BY DEF AiInv, AiTypeOK
    <3>2. ~Requested(r)
      BY <3>1 DEF AiInv, RequestTablesAgree, Ids
    <3>3. answer[r] = None /\ \A v \in Accounts : r \notin open[v]
      BY <3>2 DEF Completed, AiInv, QueueExact, Queued
    <3>4. AIWorkerQueues[w] \in Seq(Ids) /\ Len(AIWorkerQueues[w]) < MaxQueueSize /\ MaxQueueSize \in Nat
      BY <2>2, AiAssumption DEF submit_request, HasRoom, AiInv, AiTypeOK
    <3>5. Cardinality(open[w]) < MaxQueueSize
      <4>1. Cardinality(Entries(AIWorkerQueues[w])) \in Nat
        BY <3>4, EntriesSize
      <4>2. Cardinality(Entries(AIWorkerQueues[w])) <= Len(AIWorkerQueues[w])
        BY <3>4, EntriesSize
      <4> QED
        BY <3>4, <4>1, <4>2, LenProperties
    <3>6. /\ AIWorkerQueues' = [AIWorkerQueues EXCEPT ![w] = Append(@, r)]
          /\ InferenceRequests' = [InferenceRequests EXCEPT ![r] =
                [customer |-> who, target_worker |-> w, status |-> "Queued"]]
      BY <2>2, <3>1 DEF submit_request, try_push
    <3>7. Entries(Append(AIWorkerQueues[w], r)) = Entries(AIWorkerQueues[w]) \cup {r}
      <4> DEFINE q == AIWorkerQueues[w]
      <4>1. /\ Append(q, r) \in Seq(Ids)
            /\ Len(Append(q, r)) = Len(q) + 1
            /\ \A i \in 1 .. Len(q) : Append(q, r)[i] = q[i]
            /\ Append(q, r)[Len(q) + 1] = r
        BY <3>4, AppendProperties
      <4>2. /\ Len(q) \in Nat
            /\ DOMAIN q = 1 .. Len(q)
            /\ DOMAIN Append(q, r) = 1 .. Len(q) + 1
        BY <3>4, <4>1, LenProperties
      <4> QED
        BY <4>1, <4>2 DEF Entries
    <3>8. open' = [open EXCEPT ![w] = @ \cup {r}]
      BY <3>6, <3>7 DEF AiInv, AiTypeOK
    <3>9. answer' = answer
      <4>1. ASSUME NEW id \in Ids
            PROVE  answer'[id] = answer[id]
        BY <3>2, <3>6 DEF AiInv, AiTypeOK, Completed, Requested
      <4> QED
        BY <4>1
    <3>10. Service!Ask(w, r)
      <4>1. Service!Cardinality(open[w]) = Cardinality(open[w])
        BY DEF Service!Cardinality, Cardinality
      <4> QED
        BY <3>3, <3>5, <3>8, <3>9, <4>1 DEF Service!Ask
    <3> QED
      BY <3>10 DEF Service!Next
  <2>3. ASSUME NEW who \in Accounts, NEW r \in Ids, submit_inference(who, r)
        PROVE  Service!Next
    <3>1. Queued(r) /\ InferenceRequests[r].target_worker = who /\ InferenceRequests[r] \in InferenceRequest
      BY <2>3 DEF submit_inference, MayAnswer, Queued, Requested, AiInv, AiTypeOK
    <3>2. r \in Entries(AIWorkerQueues[who])
      BY <3>1 DEF AiInv, QueueExact
    <3>3. Entries(retain(AIWorkerQueues[who], r)) = Entries(AIWorkerQueues[who]) \ {r}
      BY <3>2, RetainFIFO DEF AiInv, AiTypeOK, QueueFIFO
    <3>4. /\ AIWorkerQueues' = [AIWorkerQueues EXCEPT ![who] = retain(@, r)]
          /\ InferenceRequests' = [InferenceRequests EXCEPT ![r].status = "Completed"]
      BY <2>3 DEF submit_inference
    <3>5. open' = [open EXCEPT ![who] = @ \ {r}]
      BY <3>3, <3>4 DEF AiInv, AiTypeOK
    <3>6. answer' = [answer EXCEPT ![r] = who]
      <4> DEFINE done == [InferenceRequests[r] EXCEPT !.status = "Completed"]
      <4>1. done \in InferenceRequest /\ done.status = "Completed" /\ done.target_worker = who
        BY <3>1 DEF InferenceRequest, RequestStatus
      <4>2. done # None
        BY <4>1, AiAssumption
      <4>3. InferenceRequests'[r] = done
        BY <3>4 DEF AiInv, AiTypeOK
      <4>4. answer'[r] = who
        BY <4>1, <4>2, <4>3 DEF Completed, Requested
      <4>5. ASSUME NEW id \in Ids, id # r
            PROVE  answer'[id] = answer[id]
        BY <3>4, <4>5 DEF AiInv, AiTypeOK, Completed, Requested
      <4> QED
        BY <4>4, <4>5
    <3>7. Service!Answer(who, r)
      BY <3>2, <3>5, <3>6 DEF Service!Answer
    <3> QED
      BY <3>7 DEF Service!Next
  <2> QED
    BY <2>1, <2>2, <2>3
       DEF Next, vars, aiVars, AiSigned, AiRoot, update_ai_worker_status, add_allowed_model
<1> QED
  BY <1>1, <1>2, AiInvariance, PTL DEF Spec, ServiceSpec, Service!Spec

=============================================================================
