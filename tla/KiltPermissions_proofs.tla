----------------------- MODULE KiltPermissions_proofs -----------------------
(***************************************************************************)
(* The invariants and action properties of KiltPermissions, for every set  *)
(* of accounts and DIDs, every block limit and every period root may name. *)
(* KiltInv is inductive as the conjunction of the three invariants.        *)
(***************************************************************************)
EXTENDS KiltPermissions, TLAPS

KiltInv == KiltTypeOK /\ DIDMapsAgree /\ CredentialWindow

(* A saturating sum of a block number and a period is a block number that    *)
(* is not before the first operand: expires_at and until never wrap.         *)
LEMMA SaturatingAdd ==
    ASSUME NEW a \in Blocks, NEW b \in Nat
    PROVE  saturating_add(a, b) \in Blocks /\ a <= saturating_add(a, b)
  BY KiltAssumption DEF saturating_add, Blocks

(* The initial state of the storage satisfies the invariant. *)
LEMMA KiltInitInv == KiltInit => KiltInv
  BY KiltAssumption DEF KiltInit, KiltInv, KiltTypeOK, DIDMapsAgree, CredentialWindow, Blocks

(* Each operation preserves the invariant, for any arguments of its types:   *)
(* not only those that KiltNext enumerates.                                  *)
LEMMA NextBlockKeeps == ASSUME KiltInv, next_block PROVE KiltInv'
<1> USE DEF KiltInv, KiltTypeOK, DIDMapsAgree, CredentialWindow
<1>1. block_number' \in Blocks /\ block_number <= block_number'
  BY KiltAssumption DEF next_block, Blocks
<1>2. KiltTypeOK' /\ DIDMapsAgree'
  BY <1>1 DEF next_block
<1>3. CredentialWindow'
  <2> SUFFICES ASSUME NEW d \in DIDs, WorkerCredentials[d] # None
               PROVE  WorkerCredentials[d].issued_at <= block_number'
    BY DEF next_block
  <2>1. WorkerCredentials[d].issued_at \in Blocks
    BY DEF AIWorkerCredential
  <2> QED
    BY <1>1, <2>1, KiltAssumption DEF Blocks
<1> QED
  BY <1>2, <1>3

LEMMA CreateKeeps ==
    ASSUME KiltInv, NEW who \in Accounts, create_worker_did(who) PROVE KiltInv'
<1> USE DEF KiltInv, KiltTypeOK, DIDMapsAgree, CredentialWindow
<1>1. generate_did[who] \in DIDs /\ generate_did[who] # None
  BY KiltAssumption
<1>2. [did |-> generate_did[who], account |-> who, status |-> Active] \in WorkerDID
  BY <1>1, KiltAssumption DEF WorkerDID, Active, CredentialStatus, Blocks
<1>3. KiltTypeOK'
  BY <1>1, <1>2 DEF create_worker_did
<1>4. DIDMapsAgree'
  BY <1>1, <1>2, KiltAssumption DEF create_worker_did
<1>5. CredentialWindow'
  BY DEF create_worker_did
<1> QED
  BY <1>3, <1>4, <1>5

LEMMA GovernanceKeeps ==
    ASSUME KiltInv, NEW did \in DIDs, set_governance_did(did) PROVE KiltInv'
  BY DEF set_governance_did, KiltInv, KiltTypeOK, DIDMapsAgree, CredentialWindow

LEMMA IssueKeeps ==
    ASSUME KiltInv, NEW d \in DIDs, NEW p \in Nat \cup {None}, issue_worker_credential(d, p)
    PROVE  KiltInv'
<1> USE DEF KiltInv, KiltTypeOK, DIDMapsAgree, CredentialWindow
<1> DEFINE expiry == IF p = None THEN None ELSE saturating_add(block_number, p)
           c == [issuer |-> GovernanceDID, subject |-> d,
                 issued_at |-> block_number, expires_at |-> expiry]
<1>1. p # None => p \in Nat
  BY KiltAssumption
<1>2. expiry \in Blocks \cup {None} /\ (expiry # None => block_number <= expiry)
  BY <1>1, SaturatingAdd
<1>3. c \in AIWorkerCredential
  BY <1>2, KiltAssumption DEF AIWorkerCredential
<1>4. WorkerCredentials' = [WorkerCredentials EXCEPT ![d] = c]
  BY DEF issue_worker_credential
<1>5. KiltTypeOK' /\ DIDMapsAgree'
  BY <1>3, <1>4 DEF issue_worker_credential
<1>6. CredentialWindow'
  <2> SUFFICES ASSUME NEW e \in DIDs, WorkerCredentials'[e] # None
               PROVE  /\ WorkerCredentials'[e].subject = e
                      /\ WorkerCredentials'[e].issued_at <= block_number'
                      /\ WorkerCredentials'[e].expires_at # None =>
                           WorkerCredentials'[e].issued_at <= WorkerCredentials'[e].expires_at
    BY DEF CredentialWindow
  <2>1. block_number' = block_number
    BY DEF issue_worker_credential
  <2>2. CASE e = d
    <3>1. WorkerCredentials'[e] = c
      BY <1>4, <2>2
    <3>2. block_number <= block_number
      BY DEF Blocks
    <3> QED
      BY <1>2, <2>1, <2>2, <3>1, <3>2
  <2>3. CASE e # d
    BY <1>4, <2>1, <2>3
  <2> QED
    BY <2>2, <2>3
<1> QED
  BY <1>5, <1>6

LEMMA RevokeKeeps ==
    ASSUME KiltInv, NEW d \in DIDs, revoke_worker_credential(d) PROVE KiltInv'
  BY DEF revoke_worker_credential, KiltInv, KiltTypeOK, DIDMapsAgree, CredentialWindow

LEMMA SuspendKeeps ==
    ASSUME KiltInv, NEW d \in DIDs, NEW p \in Nat \cup {None}, suspend_worker(d, p)
    PROVE  KiltInv'
<1> USE DEF KiltInv, KiltTypeOK, DIDMapsAgree, CredentialWindow
<1> DEFINE duration == IF p = None THEN WorkerSuspensionPeriod ELSE p
           until == saturating_add(block_number, duration)
<1>1. suspend_worker_credential(d, duration)
  BY DEF suspend_worker
<1>2. until \in Blocks
  BY KiltAssumption, SaturatingAdd
<1>3. ASSUME NEW a \in Accounts, WorkerDIDs[a] # None
      PROVE  [WorkerDIDs[a] EXCEPT !.status = Suspended(until)] \in WorkerDID
  BY <1>2, <1>3 DEF WorkerDID, Suspended, CredentialStatus
<1>4. KiltTypeOK' /\ DIDMapsAgree'
  BY <1>1, <1>3, KiltAssumption DEF suspend_worker_credential, Holders, WorkerDID
<1>5. CredentialWindow'
  BY <1>1 DEF suspend_worker_credential
<1> QED
  BY <1>4, <1>5

(* Every step of the pallet preserves the invariant. *)
LEMMA KiltNextInv == KiltInv /\ [KiltNext]_kiltVars => KiltInv'
<1> SUFFICES ASSUME KiltInv, [KiltNext]_kiltVars PROVE KiltInv'
  OBVIOUS
<1>1. CASE next_block
  BY <1>1, NextBlockKeeps
<1>2. CASE KiltSigned
  BY <1>2, CreateKeeps DEF KiltSigned
<1>3. CASE KiltRoot
  <2>1. /\ GovernanceDIDs \subseteq DIDs /\ SubjectDIDs \subseteq DIDs
        /\ ValidityPeriods \subseteq Nat \cup {None} /\ Durations \subseteq Nat \cup {None}
    BY KiltAssumption
  <2> QED
    BY <1>3, <2>1, GovernanceKeeps, IssueKeeps, RevokeKeeps, SuspendKeeps DEF KiltRoot
<1>4. CASE UNCHANGED kiltVars
  BY <1>4 DEF kiltVars, KiltInv, KiltTypeOK, DIDMapsAgree, CredentialWindow
<1> QED
  BY <1>1, <1>2, <1>3, <1>4 DEF KiltNext

(* The inductive invariant holds in every reachable state. *)
THEOREM KiltInvariance == KiltSpec => []KiltInv
  BY KiltInitInv, KiltNextInv, PTL DEF KiltSpec

(* Every storage item of the pallet always holds a value of its type.        *)
THEOREM KiltTypeCorrect == KiltSpec => []KiltTypeOK
<1>1. KiltInv => KiltTypeOK
  BY DEF KiltInv
<1> QED
  BY <1>1, KiltInvariance, PTL

(* WorkerDIDs and AccountToDID always register the same workers, each under  *)
(* the DID generated for it.                                                 *)
THEOREM KiltMapsAgree == KiltSpec => []DIDMapsAgree
<1>1. KiltInv => DIDMapsAgree
  BY DEF KiltInv
<1> QED
  BY <1>1, KiltInvariance, PTL

(* No credential is ever born expired, for any validity period at any block. *)
THEOREM KiltCredentialWindow == KiltSpec => []CredentialWindow
<1>1. KiltInv => CredentialWindow
  BY DEF KiltInv
<1> QED
  BY <1>1, KiltInvariance, PTL

-----------------------------------------------------------------------------

(* A worker whose suspension has not run out is still suspended after any    *)
(* call of the same block: only suspend_worker writes the status of a worker *)
(* that exists, and it never ends in the past.                               *)
LEMMA SuspensionStep ==
    ASSUME KiltInv, [KiltNext]_kiltVars, NEW a \in Accounts,
           WorkerDIDs[a] # None, InSuspension(a), block_number' = block_number
    PROVE  WorkerDIDs'[a] # None /\ InSuspension(a)'
<1> USE DEF InSuspension
<1>1. CASE UNCHANGED WorkerDIDs
  BY <1>1
<1>2. ASSUME NEW who \in Accounts, create_worker_did(who)
      PROVE  WorkerDIDs'[a] # None /\ InSuspension(a)'
  <2>1. who # a
    BY <1>2 DEF create_worker_did
  <2>2. WorkerDIDs'[a] = WorkerDIDs[a]
    BY <1>2, <2>1 DEF create_worker_did, KiltInv, KiltTypeOK
  <2> QED
    BY <2>2
<1>3. ASSUME NEW d \in SubjectDIDs, NEW p \in Durations, suspend_worker(d, p)
      PROVE  WorkerDIDs'[a] # None /\ InSuspension(a)'
  <2> DEFINE duration == IF p = None THEN WorkerSuspensionPeriod ELSE p
             until == saturating_add(block_number, duration)
             renewed == [WorkerDIDs[a] EXCEPT !.status = Suspended(until)]
  <2>1. duration \in Nat
    BY KiltAssumption
  <2>2. block_number <= until /\ until \in Blocks
    BY <2>1, SaturatingAdd DEF KiltInv, KiltTypeOK
  <2>3. WorkerDIDs'[a] = IF a \in Holders(d) THEN renewed ELSE WorkerDIDs[a]
    BY <1>3 DEF suspend_worker, suspend_worker_credential
  <2>4. WorkerDIDs[a] \in WorkerDID
    BY DEF KiltInv, KiltTypeOK
  <2>5. renewed \in WorkerDID /\ renewed.status = Suspended(until)
    BY <2>2, <2>4 DEF WorkerDID, Suspended, CredentialStatus
  <2>6. renewed # None
    BY <2>5, KiltAssumption
  <2> QED
    BY <2>2, <2>3, <2>5, <2>6 DEF Suspended
<1> QED
  BY <1>1, <1>2, <1>3
     DEF KiltNext, KiltSigned, KiltRoot, kiltVars, next_block, set_governance_did,
         issue_worker_credential, revoke_worker_credential

(* No call of any origin ends a suspension: while the block number stands,   *)
(* the DID of a suspended worker keeps failing verify_worker_credential.     *)
THEOREM SuspensionIsBinding == KiltSpec => SuspensionOutlivesCalls
<1> DEFINE Step == \A a \in Accounts :
      WorkerDIDs[a] # None /\ InSuspension(a) /\ block_number' = block_number
         => ~verify_worker_credential(WorkerDIDs[a].did)'
<1>1. KiltInv /\ KiltInv' /\ [KiltNext]_kiltVars => [Step]_kiltVars
  <2> SUFFICES ASSUME KiltInv, KiltInv', [KiltNext]_kiltVars, NEW a \in Accounts,
                      WorkerDIDs[a] # None, InSuspension(a),
                      block_number' = block_number
               PROVE  ~verify_worker_credential(WorkerDIDs[a].did)'
    OBVIOUS
  <2>1. WorkerDIDs'[a] # None /\ InSuspension(a)'
    BY SuspensionStep
  <2>2. a \in Holders(WorkerDIDs[a].did)'
    BY <2>1 DEF KiltInv, DIDMapsAgree, Holders
  <2> QED
    BY <2>1, <2>2 DEF verify_worker_credential
<1> QED
  BY <1>1, KiltInvariance, PTL DEF KiltSpec, SuspensionOutlivesCalls

(* A lapsed, revoked or missing credential comes back only by being issued   *)
(* in the current block, by the governance DID of that block.                *)
THEOREM RevivalIsReissue == KiltSpec => RevivalNeedsReissue
<1> DEFINE Step == \A d \in DIDs :
      ~CredentialLive(d) /\ verify_worker_credential(d)' =>
          /\ WorkerCredentials'[d] # WorkerCredentials[d]
          /\ WorkerCredentials'[d].issued_at = block_number
          /\ WorkerCredentials'[d].issuer = GovernanceDID
<1>1. KiltInv /\ [KiltNext]_kiltVars => [Step]_kiltVars
  <2> SUFFICES ASSUME KiltInv, [KiltNext]_kiltVars, NEW d \in DIDs,
                      ~CredentialLive(d), CredentialLive(d)'
               PROVE  /\ WorkerCredentials'[d] # WorkerCredentials[d]
                      /\ WorkerCredentials'[d].issued_at = block_number
                      /\ WorkerCredentials'[d].issuer = GovernanceDID
    BY DEF verify_worker_credential
  <2>1. CASE UNCHANGED <<WorkerCredentials, block_number>>
    BY <2>1 DEF CredentialLive
  <2>2. CASE next_block
    <3>1. WorkerCredentials[d] # None /\ WorkerCredentials[d].expires_at # None
      BY <2>2 DEF next_block, CredentialLive
    <3>2. WorkerCredentials[d].expires_at \in Blocks
      BY <3>1 DEF KiltInv, KiltTypeOK, AIWorkerCredential
    <3>3. block_number + 1 <= WorkerCredentials[d].expires_at
      BY <2>2, <3>1 DEF next_block, CredentialLive
    <3> QED
      BY <3>1, <3>2, <3>3, KiltAssumption
         DEF CredentialLive, KiltInv, KiltTypeOK, Blocks
  <2>3. ASSUME NEW e \in SubjectDIDs, NEW p \in ValidityPeriods, issue_worker_credential(e, p)
        PROVE  /\ WorkerCredentials'[d] # WorkerCredentials[d]
               /\ WorkerCredentials'[d].issued_at = block_number
               /\ WorkerCredentials'[d].issuer = GovernanceDID
    <3>1. e = d
      BY <2>3 DEF issue_worker_credential, CredentialLive, KiltInv, KiltTypeOK
    <3>2. WorkerCredentials'[d] # WorkerCredentials[d]
      BY <2>3 DEF issue_worker_credential, CredentialLive
    <3> QED
      BY <2>3, <3>1, <3>2 DEF issue_worker_credential, KiltInv, KiltTypeOK
  <2>4. ASSUME NEW e \in SubjectDIDs, revoke_worker_credential(e)
        PROVE  FALSE
    BY <2>4 DEF revoke_worker_credential, CredentialLive, KiltInv, KiltTypeOK
  <2> QED
    BY <2>1, <2>2, <2>3, <2>4
       DEF KiltNext, KiltSigned, KiltRoot, kiltVars, set_governance_did,
           create_worker_did, suspend_worker, suspend_worker_credential
<1> QED
  BY <1>1, KiltInvariance, PTL DEF KiltSpec, RevivalNeedsReissue
=============================================================================
