-------------------------------- MODULE QxAi --------------------------------
(***************************************************************************)
(* pallet-qx-ai on top of pallet-qx-kilt-permissions, wired as the runtime *)
(* wires them (KiltPermissionsImpl): customers submit inference requests   *)
(* to a worker, the worker answers them, and every call that touches a     *)
(* worker asks first whether its DID verifies in the state of that block.  *)
(*                                                                         *)
(* A call is one atomic action and a call that returns Err stutters, the   *)
(* late AIWorkerQueueFull of submit_request included: FRAME rolls back     *)
(* what the call wrote before it.  Prompts, outputs, token limits and      *)
(* block stamps are stored and never read: they are left out, as are the   *)
(* storage items the pallet never uses (AuthorizedWorkers, NextModelId).   *)
(***************************************************************************)
EXTENDS KiltPermissions, Sequences, FiniteSets

CONSTANTS
    Customers,      \* the accounts that submit requests
    Models,         \* model ids root registers
    Descriptors,    \* names and hashes it registers them with
    MaxQueueSize,   \* Config
    IdModulus,      \* 2^32: ids are u32 and `id + 1` wraps in a release build
    RequestBound    \* bound of the model: submit_request stops at this id

Ids == 0 .. IdModulus - 1

RequestStatus == {"Queued", "Assigned", "Completed", "Failed"}
InferenceRequest ==
    [customer : Accounts, target_worker : Accounts, status : RequestStatus]
InferenceResult == [request_id : Ids, worker : Accounts, worker_did : DIDs]

ASSUME AiAssumption ==
    /\ Customers \subseteq Accounts
    /\ MaxQueueSize \in Nat
    /\ IdModulus \in Nat \ {0}
    /\ RequestBound \in 0 .. IdModulus
    /\ None \notin InferenceRequest
    /\ None \notin InferenceResult
    /\ None \notin Accounts
    /\ None \notin BOOLEAN
    /\ None \notin Descriptors

VARIABLES
    NextRequestId,
    InferenceRequests,
    NextInferenceId,
    InferenceResults,
    AIWorkerQueues,     \* an absent queue and an empty one are both <<>>
    RequestWorkerMap,
    AIWorkerStatus,
    AllowedModels

aiVars == <<NextRequestId, InferenceRequests, NextInferenceId, InferenceResults,
            AIWorkerQueues, RequestWorkerMap, AIWorkerStatus, AllowedModels>>

vars == <<kiltVars, aiVars>>

-----------------------------------------------------------------------------

Entries(queue) == {queue[i] : i \in DOMAIN queue}

retain_pops_first(queue, id) == Tail(queue)

(* BoundedVec::retain(|&x| x != id): what is left keeps its order.  The n-th *)
(* entry of the result is the kept entry with n kept entries up to it.       *)
retain(queue, id) ==
    LET Kept == {i \in DOMAIN queue : queue[i] # id}
        UpTo(i) == {j \in Kept : j <= i}
    IN [n \in 1 .. Cardinality(Kept) |->
           queue[CHOOSE i \in Kept : Cardinality(UpTo(i)) = n]]

try_push_front(queue, id) == <<id>> \o queue

try_push(queue, id) == Append(queue, id)

HasRoom_off_by_one(queue) == Len(queue) <= MaxQueueSize

HasRoom(queue) == Len(queue) < MaxQueueSize

ValidWorker_any_did(a) == get_worker_did(a) # None

(* The guard that each call makes of the worker it is about. *)
ValidWorker(a) ==
    /\ get_worker_did(a) # None
    /\ verify_worker_credential(get_worker_did(a))

next_id_unsaved(id) == id

(* u32 addition in a release build: the largest id is followed by 0. *)
next_id(id) == IF id + 1 = IdModulus THEN 0 ELSE id + 1

-----------------------------------------------------------------------------

AiInit ==
    /\ NextRequestId = 0
    /\ InferenceRequests = [id \in Ids |-> None]
    /\ NextInferenceId = 0
    /\ InferenceResults = [id \in Ids |-> None]
    /\ AIWorkerQueues = [a \in Accounts |-> <<>>]
    /\ RequestWorkerMap = [id \in Ids |-> None]
    /\ AIWorkerStatus = [a \in Accounts |-> None]
    /\ AllowedModels = [m \in Models |-> None]

(* The online status of the worker is not consulted. *)
submit_request(who, target_worker) ==
    /\ NextRequestId < RequestBound
    /\ ValidWorker(target_worker)
    /\ HasRoom(AIWorkerQueues[target_worker])
    /\ NextRequestId' = next_id(NextRequestId)
    /\ InferenceRequests' = [InferenceRequests EXCEPT ![NextRequestId] =
          [customer |-> who, target_worker |-> target_worker, status |-> "Queued"]]
    /\ RequestWorkerMap' = [RequestWorkerMap EXCEPT ![NextRequestId] = target_worker]
    /\ AIWorkerQueues' = [AIWorkerQueues EXCEPT
          ![target_worker] = try_push(@, NextRequestId)]
    /\ UNCHANGED <<NextInferenceId, InferenceResults, AIWorkerStatus, AllowedModels>>
    /\ UNCHANGED kiltVars

update_ai_worker_status(who, online) ==
    /\ ValidWorker(who)
    /\ AIWorkerStatus' = [AIWorkerStatus EXCEPT ![who] = online]
    /\ UNCHANGED <<NextRequestId, InferenceRequests, NextInferenceId,
                   InferenceResults, AIWorkerQueues, RequestWorkerMap, AllowedModels>>
    /\ UNCHANGED kiltVars

MayAnswer_any_status(who, id) ==
    InferenceRequests[id] # None /\ InferenceRequests[id].target_worker = who

MayAnswer_any_worker(who, id) ==
    InferenceRequests[id] # None /\ InferenceRequests[id].status = "Queued"

MayAnswer(who, id) ==
    /\ InferenceRequests[id] # None
    /\ InferenceRequests[id].target_worker = who
    /\ InferenceRequests[id].status = "Queued"

submit_inference(who, request_id) ==
    /\ ValidWorker(who)
    /\ MayAnswer(who, request_id)
    /\ NextInferenceId' = next_id(NextInferenceId)
    /\ InferenceResults' = [InferenceResults EXCEPT ![NextInferenceId] =
          [request_id |-> request_id, worker |-> who,
           worker_did |-> get_worker_did(who)]]
    /\ InferenceRequests' = [InferenceRequests EXCEPT
          ![request_id].status = "Completed"]
    /\ AIWorkerQueues' = [AIWorkerQueues EXCEPT ![who] = retain(@, request_id)]
    /\ UNCHANGED <<NextRequestId, RequestWorkerMap, AIWorkerStatus, AllowedModels>>
    /\ UNCHANGED kiltVars

(* Root registers a model, or replaces the entry of its id. *)
add_allowed_model(model_id, descriptor) ==
    /\ AllowedModels' = [AllowedModels EXCEPT ![model_id] = descriptor]
    /\ UNCHANGED <<NextRequestId, InferenceRequests, NextInferenceId,
                   InferenceResults, AIWorkerQueues, RequestWorkerMap, AIWorkerStatus>>
    /\ UNCHANGED kiltVars

AiSigned ==
    \/ \E who \in Customers, w \in Accounts : submit_request(who, w)
    \/ \E who \in Accounts, online \in BOOLEAN : update_ai_worker_status(who, online)
    \/ \E who \in Accounts, id \in Ids : submit_inference(who, id)

AiRoot == \E m \in Models, x \in Descriptors : add_allowed_model(m, x)

Init == KiltInit /\ AiInit

Next ==
    \/ KiltNext /\ UNCHANGED aiVars
    \/ AiSigned
    \/ AiRoot

Spec == Init /\ [][Next]_vars

-----------------------------------------------------------------------------

Requested(id) == InferenceRequests[id] # None
Queued(id) == Requested(id) /\ InferenceRequests[id].status = "Queued"
Completed(id) == Requested(id) /\ InferenceRequests[id].status = "Completed"
Answered(n) == InferenceResults[n] # None
AnswersTo(id) == {n \in Ids : Answered(n) /\ InferenceResults[n].request_id = id}

(* Every storage item holds a value of its type; queues respect the bound.   *)
AiTypeOK ==
    /\ KiltTypeOK
    /\ NextRequestId \in Ids
    /\ InferenceRequests \in [Ids -> InferenceRequest \cup {None}]
    /\ NextInferenceId \in Ids
    /\ InferenceResults \in [Ids -> InferenceResult \cup {None}]
    /\ AIWorkerQueues \in [Accounts -> Seq(Ids)]
    /\ \A a \in Accounts : Len(AIWorkerQueues[a]) <= MaxQueueSize
    /\ RequestWorkerMap \in [Ids -> Accounts \cup {None}]
    /\ AIWorkerStatus \in [Accounts -> BOOLEAN \cup {None}]
    /\ AllowedModels \in [Models -> Descriptors \cup {None}]

(* A worker's queue and the status fields of the requests, which every call  *)
(* updates separately, never disagree: the queue of w lists exactly the      *)
(* requests to w that are still Queued.  No request is dropped from a queue  *)
(* unanswered, none is left in it after its answer, and a submission refused *)
(* because the queue is full leaves nothing behind.                          *)
QueueExact ==
    \A w \in Accounts :
        Entries(AIWorkerQueues[w]) =
            {id \in Ids : Queued(id) /\ InferenceRequests[id].target_worker = w}

(* A worker sees its open requests in the order in which they were           *)
(* submitted, each once, however answers out of that order are interleaved.  *)
QueueFIFO ==
    \A w \in Accounts : \A i, j \in DOMAIN AIWorkerQueues[w] :
        i < j => AIWorkerQueues[w][i] < AIWorkerQueues[w][j]

(* The request table, the reverse map and the counter agree: the ids given   *)
(* out are exactly those below NextRequestId, each mapped to its worker.     *)
RequestTablesAgree ==
    \A id \in Ids :
        /\ Requested(id) <=> id < NextRequestId
        /\ Requested(id) =>
              RequestWorkerMap[id] = InferenceRequests[id].target_worker
        /\ ~Requested(id) => RequestWorkerMap[id] = None

(* A request is Completed exactly when one result answers it, and that one   *)
(* result is by the worker it was addressed to, under that worker's DID.     *)
AnsweredExactlyOnce ==
    \A id \in Ids :
        /\ Completed(id) <=> AnswersTo(id) # {}
        /\ \A m, n \in AnswersTo(id) : m = n
        /\ \A n \in AnswersTo(id) :
              /\ InferenceResults[n].worker = InferenceRequests[id].target_worker
              /\ InferenceResults[n].worker_did = generate_did[InferenceResults[n].worker]

(* History is never rewritten: a result stays as it was submitted, and a     *)
(* request keeps its customer and worker and leaves Queued only for good.    *)
HistoryIsFinal ==
    [][/\ \A n \in Ids : Answered(n) => InferenceResults'[n] = InferenceResults[n]
       /\ \A id \in Ids : Requested(id) =>
             /\ InferenceRequests'[id] # None
             /\ InferenceRequests'[id].customer = InferenceRequests[id].customer
             /\ InferenceRequests'[id].target_worker = InferenceRequests[id].target_worker
             /\ Completed(id) => InferenceRequests'[id] = InferenceRequests[id]]_vars

(* A worker may serve: registered, with a live credential, not suspended.    *)
MayServe(w) ==
    /\ WorkerDIDs[w] # None
    /\ CredentialLive(generate_did[w])
    /\ ~InSuspension(w)

(* While a worker may not serve (never registered or credentialed, expired,  *)
(* revoked or suspended) nothing of that worker moves: its queue neither     *)
(* grows nor shrinks, its status stands, no result is attributed to it.      *)
InertWhileInvalid ==
    [][\A w \in Accounts : ~MayServe(w) =>
          /\ AIWorkerQueues'[w] = AIWorkerQueues[w]
          /\ AIWorkerStatus'[w] = AIWorkerStatus[w]
          /\ \A n \in Ids : InferenceResults'[n] # InferenceResults[n] =>
                InferenceResults'[n].worker # w]_vars

-----------------------------------------------------------------------------

(* Seen from outside, the pallets are an InferenceService: queues, statuses, *)
(* counters and credentials are how they keep its promise.                   *)
Service == INSTANCE InferenceService WITH
    Workers <- Accounts,
    Requests <- Ids,
    Unanswered <- None,
    Capacity <- MaxQueueSize,
    open <- [w \in Accounts |-> Entries(AIWorkerQueues[w])],
    answer <- [id \in Ids |->
                 IF Completed(id) THEN InferenceRequests[id].target_worker ELSE None]

(* The refinement: every behaviour of the pallets is one of the service.     *)
ServiceSpec == Service!Spec

=============================================================================
