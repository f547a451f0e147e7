-------------------------- MODULE KiltPermissions --------------------------
(***************************************************************************)
(* pallet-qx-kilt-permissions: worker DIDs, the credentials the root       *)
(* origin issues for them, suspension, and the check every other pallet    *)
(* makes of a worker, verify_worker_credential.                            *)
(*                                                                         *)
(* A dispatched call is atomic (FRAME runs every extrinsic in a storage    *)
(* transaction), so each call is one action; a call that returns Err       *)
(* changes nothing and is the stuttering step.  Names, descriptions, model *)
(* lists and registration blocks are stored and never read by the code:    *)
(* they are left out.  An operator named after another one with a suffix   *)
(* (create_worker_did_again) is a plausible slip in that code, kept to show *)
(* that a property tells it from the real one; no specification uses it.   *)
(***************************************************************************)
EXTENDS Naturals

CONSTANTS
    Accounts,               \* accounts that sign calls
    DIDs,                   \* DidIdentifier, the 32-byte values that occur
    generate_did,           \* Accounts -> DIDs, the hash of an account
    ZeroDID,                \* [0u8; 32], the default of GovernanceDID
    GovernanceDIDs,         \* the DIDs set_governance_did is called with
    SubjectDIDs,            \* the DIDs root issues, revokes and suspends
    None,                   \* Option::None
    MaxBlockNumber,         \* BlockNumber::max_value()
    ValidityPeriods,        \* the periods root issues credentials with
    Durations,              \* the durations root suspends workers for
    WorkerSuspensionPeriod  \* Config: the duration used when none is given

Blocks == 0 .. MaxBlockNumber

CredentialStatus == [tag : {"Active", "Suspended", "Revoked"}, until : Blocks]
WorkerDID == [did : DIDs, account : Accounts, status : CredentialStatus]
AIWorkerCredential == [issuer : DIDs, subject : DIDs, issued_at : Blocks,
                       expires_at : Blocks \cup {None}]

ASSUME KiltAssumption ==
    /\ generate_did \in [Accounts -> DIDs]
    /\ ZeroDID \in DIDs
    /\ GovernanceDIDs \subseteq DIDs
    /\ SubjectDIDs \subseteq DIDs
    /\ MaxBlockNumber \in Nat
    /\ ValidityPeriods \subseteq Nat \cup {None}
    /\ Durations \subseteq Nat \cup {None}
    /\ WorkerSuspensionPeriod \in Nat
    /\ None \notin Nat
    /\ None \notin WorkerDID
    /\ None \notin AIWorkerCredential
    /\ None \notin DIDs

(* Two accounts never hash to one DID: T::Hashing is BlakeTwo256. *)
ASSUME NoHashCollision ==
    \A a, b \in Accounts : generate_did[a] = generate_did[b] => a = b

VARIABLES
    block_number,       \* frame_system::Pallet::block_number()
    GovernanceDID,
    WorkerDIDs,
    WorkerCredentials,
    AccountToDID

kiltVars ==
    <<block_number, GovernanceDID, WorkerDIDs, WorkerCredentials, AccountToDID>>

-----------------------------------------------------------------------------

saturating_add_unbounded(a, b) == a + b

saturating_add(a, b) == IF a + b > MaxBlockNumber THEN MaxBlockNumber ELSE a + b

Active == [tag |-> "Active", until |-> 0]
Suspended(until) == [tag |-> "Suspended", until |-> until]

(* The entries that `for (_, info) in WorkerDIDs::iter()` finds to carry d;  *)
(* the code acts on the first one only, and NoHashCollision leaves at most   *)
(* one.                                                                      *)
Holders(d) == {a \in Accounts : WorkerDIDs[a] # None /\ WorkerDIDs[a].did = d}

CredentialLive(d) ==
    /\ WorkerCredentials[d] # None
    /\ WorkerCredentials[d].expires_at # None
          => block_number <= WorkerCredentials[d].expires_at

InSuspension_ends_early(a) ==
    /\ WorkerDIDs[a].status.tag = "Suspended"
    /\ block_number < WorkerDIDs[a].status.until

InSuspension(a) ==
    /\ WorkerDIDs[a].status.tag = "Suspended"
    /\ block_number <= WorkerDIDs[a].status.until

verify_worker_credential_status_first(d) ==
    \/ \E a \in Holders(d) : WorkerDIDs[a].status.tag = "Suspended" /\ ~InSuspension(a)
    \/ CredentialLive(d) /\ \A a \in Holders(d) : WorkerDIDs[a].status.tag = "Active"

(* TRUE exactly when the code returns Ok(true): a credential that is missing *)
(* (Err) and one that is expired or suspended (Ok(false)) are refused alike  *)
(* by every caller.                                                          *)
verify_worker_credential(d) ==
    /\ CredentialLive(d)
    /\ \A a \in Holders(d) : ~InSuspension(a) /\ WorkerDIDs[a].status.tag # "Revoked"

(* None stands for Err(AccountHasNoDID). *)
get_worker_did(a) == AccountToDID[a]

-----------------------------------------------------------------------------

KiltInit ==
    /\ block_number = 0
    /\ GovernanceDID = ZeroDID
    /\ WorkerDIDs = [a \in Accounts |-> None]
    /\ WorkerCredentials = [d \in DIDs |-> None]
    /\ AccountToDID = [a \in Accounts |-> None]

next_block ==
    /\ block_number < MaxBlockNumber
    /\ block_number' = block_number + 1
    /\ UNCHANGED <<GovernanceDID, WorkerDIDs, WorkerCredentials, AccountToDID>>

set_governance_did(did) ==
    /\ GovernanceDID' = did
    /\ UNCHANGED <<block_number, WorkerDIDs, WorkerCredentials, AccountToDID>>

create_worker_did_one_map(who) ==
    /\ WorkerDIDs[who] = None
    /\ WorkerDIDs' = [WorkerDIDs EXCEPT ![who] =
          [did |-> generate_did[who], account |-> who, status |-> Active]]
    /\ UNCHANGED <<block_number, GovernanceDID, WorkerCredentials, AccountToDID>>

create_worker_did_again(who) ==
    /\ WorkerDIDs' = [WorkerDIDs EXCEPT ![who] =
          [did |-> generate_did[who], account |-> who, status |-> Active]]
    /\ AccountToDID' = [AccountToDID EXCEPT ![who] = generate_did[who]]
    /\ UNCHANGED <<block_number, GovernanceDID, WorkerCredentials>>

create_worker_did(who) ==
    /\ WorkerDIDs[who] = None
    /\ LET did == generate_did[who] IN
       /\ WorkerDIDs' = [WorkerDIDs EXCEPT
             ![who] = [did |-> did, account |-> who, status |-> Active]]
       /\ AccountToDID' = [AccountToDID EXCEPT ![who] = did]
    /\ UNCHANGED <<block_number, GovernanceDID, WorkerCredentials>>

(* Root may credential any DID, one that no account holds included. *)
issue_worker_credential(worker_did, validity_period) ==
    /\ WorkerCredentials' = [WorkerCredentials EXCEPT ![worker_did] =
          [issuer |-> GovernanceDID,
           subject |-> worker_did,
           issued_at |-> block_number,
           expires_at |-> IF validity_period = None THEN None
                          ELSE saturating_add(block_number, validity_period)]]
    /\ UNCHANGED <<block_number, GovernanceDID, WorkerDIDs, AccountToDID>>

revoke_worker_credential(worker_did) ==
    /\ WorkerCredentials' = [WorkerCredentials EXCEPT ![worker_did] = None]
    /\ UNCHANGED <<block_number, GovernanceDID, WorkerDIDs, AccountToDID>>

(* Succeeds without an effect on the storage when no account holds the DID. *)
suspend_worker_credential(worker_did, duration) ==
    /\ LET until == saturating_add(block_number, duration) IN
       WorkerDIDs' = [a \in Accounts |->
          IF a \in Holders(worker_did)
          THEN [WorkerDIDs[a] EXCEPT !.status = Suspended(until)]
          ELSE WorkerDIDs[a]]
    /\ UNCHANGED <<block_number, GovernanceDID, WorkerCredentials, AccountToDID>>

suspend_worker(worker_did, duration) ==
    suspend_worker_credential(worker_did,
        IF duration = None THEN WorkerSuspensionPeriod ELSE duration)

(* Calls that a signed account makes, and those of the root origin (sudo). *)
KiltSigned == \E who \in Accounts : create_worker_did(who)

KiltRoot ==
    \/ \E did \in GovernanceDIDs : set_governance_did(did)
    \/ \E d \in SubjectDIDs, p \in ValidityPeriods : issue_worker_credential(d, p)
    \/ \E d \in SubjectDIDs : revoke_worker_credential(d)
    \/ \E d \in SubjectDIDs, p \in Durations : suspend_worker(d, p)

KiltNext == next_block \/ KiltSigned \/ KiltRoot

KiltSpec == KiltInit /\ [][KiltNext]_kiltVars

-----------------------------------------------------------------------------

(* Every storage item holds a value of its type. *)
KiltTypeOK ==
    /\ block_number \in Blocks
    /\ GovernanceDID \in DIDs
    /\ WorkerDIDs \in [Accounts -> WorkerDID \cup {None}]
    /\ WorkerCredentials \in [DIDs -> AIWorkerCredential \cup {None}]
    /\ AccountToDID \in [Accounts -> DIDs \cup {None}]

(* The two maps that create_worker_did writes never drift apart, and every   *)
(* entry is the one generated for its key: the scans of WorkerDIDs that look *)
(* for a DID and the lookups through AccountToDID speak of one worker.       *)
DIDMapsAgree ==
    \A a \in Accounts :
        /\ AccountToDID[a] = None <=> WorkerDIDs[a] = None
        /\ WorkerDIDs[a] # None =>
              /\ WorkerDIDs[a].account = a
              /\ WorkerDIDs[a].did = generate_did[a]
              /\ AccountToDID[a] = generate_did[a]

(* A credential is never expired in the block it was issued in, whatever the *)
(* validity period: expires_at saturates at the largest block number and     *)
(* does not wrap into the past.  And the key of the map is its subject.      *)
CredentialWindow ==
    \A d \in DIDs : WorkerCredentials[d] # None =>
        LET c == WorkerCredentials[d] IN
        /\ c.subject = d
        /\ c.issued_at <= block_number
        /\ c.expires_at # None => c.issued_at <= c.expires_at

(* What docs/api-reference.md:273 says of issue_worker_credential, that the   *)
(* validity defaults to 30 days when root names none: every credential has a *)
(* last block.                                                               *)
CredentialsExpire ==
    \A d \in DIDs :
        WorkerCredentials[d] # None => WorkerCredentials[d].expires_at # None

(* Only the passing of blocks ends a suspension: within a block no call, in  *)
(* particular no re-issue, no revocation, no second registration and no      *)
(* shorter suspension, makes a suspended worker's DID verify again.          *)
SuspensionOutlivesCalls ==
    [][\A a \in Accounts :
          WorkerDIDs[a] # None /\ InSuspension(a) /\ block_number' = block_number
             => ~verify_worker_credential(WorkerDIDs[a].did)']_kiltVars

(* A DID without a live credential gets one back in one way only: root       *)
(* issues it in the current block.  Neither the clock, nor a registration,   *)
(* nor a suspension that ends revives a credential that lapsed or was        *)
(* revoked.                                                                  *)
RevivalNeedsReissue ==
    [][\A d \in DIDs :
          ~CredentialLive(d) /\ verify_worker_credential(d)' =>
              /\ WorkerCredentials'[d] # WorkerCredentials[d]
              /\ WorkerCredentials'[d].issued_at = block_number
              /\ WorkerCredentials'[d].issuer = GovernanceDID]_kiltVars

=============================================================================
