-------------------------- MODULE BootstrapWorkers --------------------------
(***************************************************************************)
(* scripts/bootstrap_ai_workers.py over the pallets of QxAi: runs of the   *)
(* script that may overlap, or break off before another, next to an        *)
(* operator who uses the same sudo key.                                    *)
(*                                                                         *)
(* Every call of the plan is signed with a nonce read for it and then      *)
(* submitted until included.  When another extrinsic of the same signer    *)
(* got in between, the pool refuses it with a SubstrateRequestException,   *)
(* which the script prints and passes over.  A dispatch error raises       *)
(* nothing: the receipt's is_success is never asked.                       *)
(***************************************************************************)
EXTENDS QxAi

CONSTANTS
    Runs,           \* executions of the script
    Alice,          \* the sudo key
    WorkerURIs,     \* WORKER_URIS[:num_workers], a sequence of accounts
    DefaultModels,  \* DEFAULT_MODELS, a sequence of model ids
    GovDID,         \* the governance DID of the script
    NameAndHash,    \* the descriptor of its models
    FaultBound      \* bound: broken connections and operator's calls together

ASSUME BootstrapAssumption ==
    /\ WorkerURIs \in Seq(Accounts)
    /\ DefaultModels \in Seq(Models)
    /\ GovDID \in DIDs /\ GovDID # ZeroDID
    /\ NameAndHash \in Descriptors
    /\ Alice \notin Entries(WorkerURIs)
    /\ FaultBound \in Nat

VARIABLES
    pc,             \* where a run is: before a call, between its two halves, or over
    at,             \* the call of the plan it is at
    stale,          \* has its signed nonce been used by somebody else
    worker_dids,    \* the workers create_worker_did returned a DID for
    refusals,       \* the calls of the plan the pool refused
    disturbed,      \* has the operator made a call since it began
    crashes, operator_calls

runVars == <<pc, at, stale, worker_dids, refusals, disturbed>>
bootstrapVars == <<vars, runVars, crashes, operator_calls>>

Call(name, who) == [name |-> name, who |-> who]

Governance == <<Call("set_governance_did", Alice)>>
ModelCalls == [k \in DOMAIN DefaultModels |-> Call("add_allowed_model", DefaultModels[k])]
Creations == [k \in DOMAIN WorkerURIs |-> Call("create_worker_did", WorkerURIs[k])]
Credentials_after_status ==
    [k \in 1..(2 * Len(WorkerURIs)) |->
        IF k % 2 = 1 THEN Call("update_worker_status", WorkerURIs[(k + 1) \div 2])
                     ELSE Call("issue_worker_credential", WorkerURIs[k \div 2])]

Credentials ==
    [k \in 1..(2 * Len(WorkerURIs)) |->
        IF k % 2 = 1 THEN Call("issue_worker_credential", WorkerURIs[(k + 1) \div 2])
                     ELSE Call("update_worker_status", WorkerURIs[k \div 2])]

Plan_governance_last == ModelCalls \o Creations \o Credentials \o Governance

Plan == Governance \o ModelCalls \o Creations \o Credentials

call(b) == Plan[at[b]]

Signer(c) ==
    IF c.name \in {"create_worker_did", "update_worker_status"} THEN c.who ELSE Alice

BootstrapInit ==
    /\ Init
    /\ pc = [b \in Runs |-> "next"]
    /\ at = [b \in Runs |-> 1]
    /\ stale = [b \in Runs |-> FALSE]
    /\ worker_dids = [b \in Runs |-> {}]
    /\ refusals = [b \in Runs |-> {}]
    /\ disturbed = [b \in Runs |-> FALSE]
    /\ crashes = 0
    /\ operator_calls = 0

-----------------------------------------------------------------------------

(* Step 4 passes over the workers that got no DID in step 3. *)
Skipped(b) ==
    /\ call(b).name \in {"issue_worker_credential", "update_worker_status"}
    /\ call(b).who \notin worker_dids[b]

proceed_past_end(b) ==
    /\ at' = [at EXCEPT ![b] = @ + 1]
    /\ pc' = [pc EXCEPT ![b] = IF at[b] > Len(Plan) THEN "complete" ELSE "next"]

proceed(b) ==
    /\ at' = [at EXCEPT ![b] = @ + 1]
    /\ pc' = [pc EXCEPT ![b] = IF at[b] = Len(Plan) THEN "complete" ELSE "next"]

skip(b) ==
    /\ pc[b] = "next"
    /\ Skipped(b)
    /\ proceed(b)
    /\ UNCHANGED <<vars, stale, worker_dids, refusals, disturbed, crashes, operator_calls>>

(* create_signed_extrinsic reads the signer's nonce. *)
sign(b) ==
    /\ pc[b] = "next"
    /\ ~Skipped(b)
    /\ pc' = [pc EXCEPT ![b] = "signed"]
    /\ stale' = [stale EXCEPT ![b] = FALSE]
    /\ UNCHANGED <<vars, at, worker_dids, refusals, disturbed, crashes, operator_calls>>

(* The extrinsic in its block: the call takes effect or returns an error. *)
dispatch(c) ==
    \/ c.name = "set_governance_did" /\ set_governance_did(GovDID) /\ UNCHANGED aiVars
    \/ c.name = "add_allowed_model" /\ add_allowed_model(c.who, NameAndHash)
    \/ c.name = "create_worker_did" /\ create_worker_did(c.who) /\ UNCHANGED aiVars
    \/ c.name = "create_worker_did" /\ WorkerDIDs[c.who] # None /\ UNCHANGED vars
    \/ c.name = "issue_worker_credential"
       /\ issue_worker_credential(get_worker_did(c.who), None) /\ UNCHANGED aiVars
    \/ c.name = "update_worker_status" /\ update_ai_worker_status(c.who, TRUE)
    \/ c.name = "update_worker_status" /\ ~ValidWorker(c.who) /\ UNCHANGED vars

(* The nonce is used up: what others signed for the same account is stale. *)
use_nonce(signer, b) ==
    stale' = [r \in Runs |->
        stale[r] \/ (r # b /\ pc[r] = "signed" /\ Signer(call(r)) = signer)]

submit(b) ==
    /\ pc[b] = "signed"
    /\ ~stale[b]
    /\ dispatch(call(b))
    /\ use_nonce(Signer(call(b)), b)
    /\ worker_dids' = IF call(b).name = "create_worker_did" /\ AccountToDID'[call(b).who] # None
                      THEN [worker_dids EXCEPT ![b] = @ \cup {call(b).who}] ELSE worker_dids
    /\ proceed(b)
    /\ UNCHANGED <<refusals, disturbed, crashes, operator_calls>>

(* The handlers print the refusal; only create_worker_did looks at its text,  *)
(* for a dispatch error that never comes this way.                           *)
submit_refused(b) ==
    /\ pc[b] = "signed"
    /\ stale[b]
    /\ refusals' = [refusals EXCEPT ![b] = @ \cup {at[b]}]
    /\ proceed(b)
    /\ UNCHANGED <<vars, stale, worker_dids, disturbed, crashes, operator_calls>>

(* The connection breaks, before or after the extrinsic got into a block. *)
crash(b) ==
    /\ crashes + operator_calls < FaultBound
    /\ pc[b] = "signed"
    /\ \/ UNCHANGED <<vars, stale>>
       \/ ~stale[b] /\ dispatch(call(b)) /\ use_nonce(Signer(call(b)), b)
    /\ pc' = [pc EXCEPT ![b] = "crashed"]
    /\ crashes' = crashes + 1
    /\ UNCHANGED <<at, worker_dids, refusals, disturbed, operator_calls>>

(* An operator suspends or revokes with the sudo key. *)
operator_call ==
    /\ crashes + operator_calls < FaultBound
    /\ operator_calls' = operator_calls + 1
    /\ \E d \in SubjectDIDs :
          \/ revoke_worker_credential(d)
          \/ \E p \in Durations : suspend_worker(d, p)
    /\ UNCHANGED aiVars
    /\ stale' = [r \in Runs |->
          stale[r] \/ (pc[r] = "signed" /\ Signer(call(r)) = Alice)]
    /\ disturbed' = [r \in Runs |-> disturbed[r] \/ pc[r] # "next" \/ at[r] # 1]
    /\ UNCHANGED <<pc, at, worker_dids, refusals, crashes>>

blocks_pass ==
    /\ next_block
    /\ UNCHANGED <<aiVars, runVars, crashes, operator_calls>>

run_step(b) == skip(b) \/ sign(b) \/ submit(b) \/ submit_refused(b)

BootstrapNext ==
    \/ \E b \in Runs : run_step(b) \/ crash(b)
    \/ operator_call
    \/ blocks_pass

BootstrapSpec == BootstrapInit /\ [][BootstrapNext]_bootstrapVars

-----------------------------------------------------------------------------

BootstrapTypeOK ==
    /\ KiltTypeOK
    /\ pc \in [Runs -> {"next", "signed", "crashed", "complete"}]
    /\ at \in [Runs -> 1..(Len(Plan) + 1)]
    /\ \A b \in Runs : pc[b] \in {"next", "signed"} => at[b] <= Len(Plan)
    /\ stale \in [Runs -> BOOLEAN]
    /\ worker_dids \in [Runs -> SUBSET Entries(WorkerURIs)]
    /\ refusals \in [Runs -> SUBSET DOMAIN Plan]
    /\ disturbed \in [Runs -> BOOLEAN]

RefusedFor(b, w) == \E k \in refusals[b] : Plan[k].who = w

(* A completed run has set a worker up, online and with a credential that    *)
(* verifies, if none of the calls about this worker was refused: whatever    *)
(* else was refused, whatever a broken-off run left behind and other runs do *)
(* at the same time, and from then on, until an operator intervenes.  A run  *)
(* begun after a revocation repairs it; one begun after a suspension renews  *)
(* the credential, which verifies when the suspension is over.               *)
CompleteRunServes ==
    \A b \in Runs : pc[b] = "complete" /\ ~disturbed[b] =>
        \A w \in Entries(WorkerURIs) : ~RefusedFor(b, w) =>
            /\ get_worker_did(w) # None
            /\ CredentialLive(get_worker_did(w))
            /\ WorkerDIDs[w].status = Active => ValidWorker(w) /\ AIWorkerStatus[w] = TRUE

(* Every credential is issued by the governance DID: a refused                *)
(* set_governance_did is harmless because the extrinsic that refused it is,  *)
(* or follows, another run's set_governance_did.                             *)
IssuedByGovernance ==
    operator_calls = 0 =>
        \A d \in DIDs : WorkerCredentials[d] # None => WorkerCredentials[d].issuer = GovDID

=============================================================================
