---------------------- MODULE BootstrapWorkers_proofs ----------------------
(***************************************************************************)
(* What the bootstrap script leaves behind, for any number of workers,     *)
(* models and overlapping runs, and any number of broken connections and   *)
(* operator's calls.                                                       *)
(***************************************************************************)
EXTENDS BootstrapWorkers, KiltPermissions_proofs, SequenceTheorems

-----------------------------------------------------------------------------
(* The plan of a run. *)

ModelCount == Len(DefaultModels)
WorkerCount == Len(WorkerURIs)

(* Where the calls about the workers begin. *)
FirstCreation == 1 + ModelCount
FirstCredential == FirstCreation + WorkerCount

CallNames == {"set_governance_did", "add_allowed_model", "create_worker_did",
              "issue_worker_credential", "update_worker_status"}
WorkerNames == {"create_worker_did", "issue_worker_credential", "update_worker_status"}
Calls == [name : CallNames, who : {Alice} \cup Models \cup Accounts]

LEMMA Counts == ModelCount \in Nat /\ WorkerCount \in Nat
  BY BootstrapAssumption DEF ModelCount, WorkerCount

(* Two lists of calls one after the other. *)
IsJoin(r, s, t) ==
    /\ r \in Seq(Calls) /\ Len(r) = Len(s) + Len(t)
    /\ \A k \in 1..Len(s) : r[k] = s[k]
    /\ \A j \in 1..Len(t) : r[Len(s) + j] = t[j]

LEMMA Joined == ASSUME NEW s \in Seq(Calls), NEW t \in Seq(Calls)
                PROVE  IsJoin(s \o t, s, t)
<1>1. /\ s \o t \in Seq(Calls) /\ Len(s \o t) = Len(s) + Len(t)
      /\ \A k \in 1..(Len(s) + Len(t)) :
            (s \o t)[k] = IF k <= Len(s) THEN s[k] ELSE t[k - Len(s)]
  BY ConcatProperties
<1>2. Len(s) \in Nat /\ Len(t) \in Nat
  OBVIOUS
<1>3. ASSUME NEW j \in 1..Len(t) PROVE (s \o t)[Len(s) + j] = t[j]
  <2>1. Len(s) + j \in 1..(Len(s) + Len(t)) /\ ~(Len(s) + j <= Len(s)) /\ (Len(s) + j) - Len(s) = j
    BY <1>2
  <2> QED
    BY <1>1, <2>1
<1>4. ASSUME NEW k \in 1..Len(s) PROVE (s \o t)[k] = s[k]
  <2>1. k \in 1..(Len(s) + Len(t)) /\ k <= Len(s)
    BY <1>2
  <2> QED
    BY <1>1, <2>1
<1> QED
  BY <1>1, <1>3, <1>4 DEF IsJoin

LEMMA HalfIndex ==
    ASSUME NEW j \in Int
    PROVE  /\ (2 * j - 1) % 2 = 1 /\ ((2 * j - 1) + 1) \div 2 = j
           /\ (2 * j) % 2 = 0 /\ (2 * j) \div 2 = j
  OBVIOUS

(* Every call by its place: governance, the models, the creations, and for   *)
(* each worker a credential and a status.                                    *)
LEMMA PlanShape ==
    /\ Plan \in Seq(Calls) /\ Len(Plan) = FirstCredential + 2 * WorkerCount
    /\ Plan[1] = Call("set_governance_did", Alice)
    /\ \A j \in 1..ModelCount : Plan[1 + j] = Call("add_allowed_model", DefaultModels[j])
    /\ \A j \in 1..WorkerCount :
          /\ Plan[FirstCreation + j] = Call("create_worker_did", WorkerURIs[j])
          /\ Plan[FirstCredential + 2 * j - 1] = Call("issue_worker_credential", WorkerURIs[j])
          /\ Plan[FirstCredential + 2 * j] = Call("update_worker_status", WorkerURIs[j])
<1> DEFINE n == ModelCount
           m == WorkerCount
<1>0. n \in Nat /\ m \in Nat
  BY Counts
<1>1. \A j \in 1..n : DefaultModels[j] \in Models
  BY BootstrapAssumption, ElementOfSeq DEF ModelCount
<1>2. \A j \in 1..m : WorkerURIs[j] \in Accounts
  BY BootstrapAssumption, ElementOfSeq DEF WorkerCount
<1>3. Governance \in Seq(Calls) /\ Len(Governance) = 1
      /\ Governance[1] = Call("set_governance_did", Alice)
  <2>1. Call("set_governance_did", Alice) \in Calls
    BY DEF Call, Calls, CallNames
  <2> QED
    BY <2>1 DEF Governance
<1>4. /\ ModelCalls \in Seq(Calls) /\ Len(ModelCalls) = n
      /\ \A j \in 1..n : ModelCalls[j] = Call("add_allowed_model", DefaultModels[j])
  <2>1. DOMAIN DefaultModels = 1..n
    BY BootstrapAssumption DEF ModelCount
  <2>2. \A j \in 1..n : Call("add_allowed_model", DefaultModels[j]) \in Calls
    BY <1>1 DEF Call, Calls, CallNames
  <2>3. ModelCalls = [j \in 1..n |-> Call("add_allowed_model", DefaultModels[j])]
    BY <2>1 DEF ModelCalls
  <2> HIDE DEF n
  <2>4. ModelCalls \in Seq(Calls) /\ Len(ModelCalls) = n
    BY <1>0, <2>2, <2>3, IsASeq, LenProperties
  <2> QED
    BY <2>3, <2>4
<1>5. /\ Creations \in Seq(Calls) /\ Len(Creations) = m
      /\ \A j \in 1..m : Creations[j] = Call("create_worker_did", WorkerURIs[j])
  <2>1. DOMAIN WorkerURIs = 1..m
    BY BootstrapAssumption DEF WorkerCount
  <2>2. \A j \in 1..m : Call("create_worker_did", WorkerURIs[j]) \in Calls
    BY <1>2 DEF Call, Calls, CallNames
  <2>3. Creations = [j \in 1..m |-> Call("create_worker_did", WorkerURIs[j])]
    BY <2>1 DEF Creations
  <2> HIDE DEF m
  <2>4. Creations \in Seq(Calls) /\ Len(Creations) = m
    BY <1>0, <2>2, <2>3, IsASeq, LenProperties
  <2> QED
    BY <2>3, <2>4
<1>6. /\ Credentials \in Seq(Calls) /\ Len(Credentials) = 2 * m
      /\ \A j \in 1..m :
            /\ Credentials[2 * j - 1] = Call("issue_worker_credential", WorkerURIs[j])
            /\ Credentials[2 * j] = Call("update_worker_status", WorkerURIs[j])
  <2> DEFINE C(k) == IF k % 2 = 1 THEN Call("issue_worker_credential", WorkerURIs[(k + 1) \div 2])
                     ELSE Call("update_worker_status", WorkerURIs[k \div 2])
  <2>1. Credentials = [k \in 1..(2 * m) |-> C(k)]
    BY DEF Credentials, WorkerCount
  <2>2. ASSUME NEW k \in 1..(2 * m) PROVE C(k) \in Calls
    <3>1. CASE k % 2 = 1
      <4>1. (k + 1) \div 2 \in 1..m
        BY <1>0, <3>1
      <4> QED
        BY <1>2, <3>1, <4>1 DEF Call, Calls, CallNames
    <3>2. CASE k % 2 # 1
      <4>1. k \div 2 \in 1..m
        BY <1>0, <3>2
      <4> QED
        BY <1>2, <3>2, <4>1 DEF Call, Calls, CallNames
    <3> QED
      BY <3>1, <3>2
  <2>3. ASSUME NEW j \in 1..m
        PROVE  /\ C(2 * j - 1) = Call("issue_worker_credential", WorkerURIs[j])
               /\ C(2 * j) = Call("update_worker_status", WorkerURIs[j])
               /\ 2 * j - 1 \in 1..(2 * m) /\ 2 * j \in 1..(2 * m)
    <3>1. 2 * j - 1 \in 1..(2 * m) /\ 2 * j \in 1..(2 * m)
      BY <1>0
    <3> QED
      BY <3>1, HalfIndex
  <2> HIDE DEF C, m
  <2>4. Credentials \in Seq(Calls) /\ Len(Credentials) = 2 * m
    BY <1>0, <2>1, <2>2, IsASeq, LenProperties
  <2> QED
    BY <2>1, <2>3, <2>4
<1>r. PICK r : r = Governance \o ModelCalls
  OBVIOUS
<1>7. /\ r \in Seq(Calls) /\ Len(r) = 1 + n
      /\ r[1] = Governance[1]
      /\ \A j \in 1..n : r[1 + j] = ModelCalls[j]
  <2>1. IsJoin(r, Governance, ModelCalls)
    BY <1>3, <1>4, <1>r, Joined
  <2> QED
    BY <1>0, <1>3, <1>4, <2>1 DEF IsJoin
<1>s. PICK s : s = r \o Creations
  OBVIOUS
<1>8. /\ s \in Seq(Calls) /\ Len(s) = 1 + n + m
      /\ \A k \in 1..(1 + n) : s[k] = r[k]
      /\ \A j \in 1..m : s[1 + n + j] = Creations[j]
  <2>1. IsJoin(s, r, Creations)
    BY <1>5, <1>7, <1>s, Joined
  <2> QED
    BY <1>0, <1>5, <1>7, <2>1 DEF IsJoin
<1>9. /\ Plan \in Seq(Calls) /\ Len(Plan) = 1 + n + m + 2 * m
      /\ \A k \in 1..(1 + n + m) : Plan[k] = s[k]
      /\ \A j \in 1..(2 * m) : Plan[1 + n + m + j] = Credentials[j]
  <2>1. IsJoin(s \o Credentials, s, Credentials)
    BY <1>6, <1>8, Joined
  <2>2. Plan = s \o Credentials
    BY <1>r, <1>s DEF Plan
  <2>3. IsJoin(Plan, s, Credentials)
    BY <2>1, <2>2
  <2> QED
    BY <1>0, <1>6, <1>8, <2>3 DEF IsJoin
<1>10. Plan[1] = Call("set_governance_did", Alice)
  BY <1>0, <1>3, <1>7, <1>8, <1>9
<1>11. ASSUME NEW j \in 1..n PROVE Plan[1 + j] = Call("add_allowed_model", DefaultModels[j])
  BY <1>0, <1>4, <1>7, <1>8, <1>9, <1>11
<1>12. ASSUME NEW j \in 1..m
       PROVE  /\ Plan[1 + n + j] = Call("create_worker_did", WorkerURIs[j])
              /\ Plan[1 + n + m + 2 * j - 1] = Call("issue_worker_credential", WorkerURIs[j])
              /\ Plan[1 + n + m + 2 * j] = Call("update_worker_status", WorkerURIs[j])
  <2>1. /\ 1 + n + j \in 1..(1 + n + m) /\ 2 * j \in 1..(2 * m) /\ 2 * j - 1 \in 1..(2 * m)
        /\ 1 + n + m + 2 * j - 1 = 1 + n + m + (2 * j - 1)
    BY <1>0
  <2>2. Plan[1 + n + j] = Creations[j]
    BY <1>8, <1>9, <2>1
  <2>3. Plan[1 + n + m + (2 * j - 1)] = Credentials[2 * j - 1]
    BY <1>9, <2>1
  <2>4. Plan[1 + n + m + 2 * j] = Credentials[2 * j]
    BY <1>9, <2>1
  <2> QED
    BY <1>5, <1>6, <2>1, <2>2, <2>3, <2>4
<1> QED
  BY <1>0, <1>9, <1>10, <1>11, <1>12 DEF FirstCreation, FirstCredential

CallsAt(k, name, who) == k \in 1..Len(Plan) /\ Plan[k] = Call(name, who)

LEMMA PlanPlaces ==
    ASSUME NEW k \in 1..Len(Plan)
    PROVE  \/ k = 1 /\ CallsAt(k, "set_governance_did", Alice)
           \/ \E x \in Models : k > 1 /\ CallsAt(k, "add_allowed_model", x)
           \/ \E w \in Entries(WorkerURIs) : k > 1 /\
                 \/ CallsAt(k, "create_worker_did", w)
                 \/ /\ CallsAt(k, "issue_worker_credential", w)
                    /\ \E c \in 1..(k - 1) : CallsAt(c, "create_worker_did", w)
                 \/ /\ CallsAt(k, "update_worker_status", w)
                    /\ \E c \in 1..(k - 1) : CallsAt(c, "create_worker_did", w)
                    /\ CallsAt(k - 1, "issue_worker_credential", w)
<1> DEFINE n == ModelCount
           m == WorkerCount
<1>0. n \in Nat /\ m \in Nat /\ FirstCreation = 1 + n /\ FirstCredential = 1 + n + m
      /\ Len(Plan) = 1 + n + m + 2 * m
  BY Counts, PlanShape DEF FirstCreation, FirstCredential
<1> HIDE DEF n, m
<1>w. \A j \in 1..m : WorkerURIs[j] \in Entries(WorkerURIs)
  BY BootstrapAssumption DEF Entries, m, WorkerCount
<1>1. CASE k = 1
  BY <1>1, PlanShape DEF CallsAt
<1>2. CASE k \in 2..(1 + n)
  <2> DEFINE j == k - 1
  <2>1. j \in 1..n /\ k = 1 + j /\ k > 1
    BY <1>0, <1>2
  <2>2. DefaultModels[j] \in Models
    BY <2>1, BootstrapAssumption, ElementOfSeq DEF n, ModelCount
  <2>3. Plan[k] = Call("add_allowed_model", DefaultModels[j])
    BY <2>1, PlanShape DEF n
  <2> QED
    BY <2>1, <2>2, <2>3 DEF CallsAt
<1>3. CASE k \in (2 + n)..(1 + n + m)
  <2> DEFINE j == k - (1 + n)
  <2>1. j \in 1..m /\ k = 1 + n + j /\ k > 1
    BY <1>0, <1>3
  <2>2. Plan[k] = Call("create_worker_did", WorkerURIs[j])
    BY <1>0, <2>1, PlanShape DEF m
  <2> QED
    BY <1>w, <2>1, <2>2 DEF CallsAt
<1>4. ASSUME NEW j \in 1..m
      PROVE  LET c == 1 + n + j
                 i1 == 1 + n + m + 2 * j - 1
                 i2 == 1 + n + m + 2 * j
                 w == WorkerURIs[j]
             IN  /\ c \in 1..(i1 - 1) /\ c \in 1..(i2 - 1) /\ i1 > 1 /\ i2 > 1 /\ i2 - 1 = i1
                 /\ CallsAt(c, "create_worker_did", w)
                 /\ CallsAt(i1, "issue_worker_credential", w)
                 /\ CallsAt(i2, "update_worker_status", w)
  <2>1. /\ 1 + n + j \in 1..Len(Plan) /\ 1 + n + m + 2 * j - 1 \in 1..Len(Plan)
        /\ 1 + n + m + 2 * j \in 1..Len(Plan)
    BY <1>0
  <2>2. /\ Plan[1 + n + j] = Call("create_worker_did", WorkerURIs[j])
        /\ Plan[1 + n + m + 2 * j - 1] = Call("issue_worker_credential", WorkerURIs[j])
        /\ Plan[1 + n + m + 2 * j] = Call("update_worker_status", WorkerURIs[j])
    BY <1>0, PlanShape DEF m
  <2> QED
    BY <1>0, <2>1, <2>2 DEF CallsAt
<1>5. CASE k > 1 + n + m
  <2>1. \E j \in 1..m : k = 1 + n + m + 2 * j - 1 \/ k = 1 + n + m + 2 * j
    <3> DEFINE h == (k - (1 + n + m) + 1) \div 2
    <3>1. h \in 1..m /\ (k = 1 + n + m + 2 * h - 1 \/ k = 1 + n + m + 2 * h)
      BY <1>0, <1>5
    <3> QED
      BY <3>1
  <2>2. PICK j \in 1..m : k = 1 + n + m + 2 * j - 1 \/ k = 1 + n + m + 2 * j
    BY <2>1
  <2> QED
    BY <1>w, <1>4, <2>2
<1> QED
  BY <1>0, <1>1, <1>2, <1>3, <1>5

(* The plan as the invariant needs it: a worker's credential follows its     *)
(* creation, and its status follows its credential.                          *)
LEMMA PlanOrder ==
    ASSUME NEW k \in 1..Len(Plan), NEW c, c = Plan[k]
    PROVE  /\ c.name = "set_governance_did" <=> k = 1
           /\ c.name \in CallNames
           /\ c.name = "add_allowed_model" => c.who \in Models
           /\ c.name \in WorkerNames => c.who \in Entries(WorkerURIs)
           /\ c.name \in {"issue_worker_credential", "update_worker_status"} =>
                 \E p \in 1..(k - 1) : CallsAt(p, "create_worker_did", c.who)
           /\ c.name = "update_worker_status" =>
                 k - 1 \in 1..(k - 1) /\ CallsAt(k - 1, "issue_worker_credential", c.who)
<1>1. CASE k = 1 /\ CallsAt(k, "set_governance_did", Alice)
  BY <1>1 DEF CallsAt, Call, CallNames, WorkerNames
<1>2. ASSUME NEW x \in Models, k > 1 /\ CallsAt(k, "add_allowed_model", x)
      PROVE  c = Call("add_allowed_model", x) /\ k # 1
  BY <1>2 DEF CallsAt
<1>3. ASSUME NEW w \in Entries(WorkerURIs), k > 1, CallsAt(k, "create_worker_did", w)
      PROVE  c = Call("create_worker_did", w) /\ k # 1
  BY <1>3 DEF CallsAt
<1>4. ASSUME NEW w \in Entries(WorkerURIs), k > 1,
             CallsAt(k, "issue_worker_credential", w)
      PROVE  c = Call("issue_worker_credential", w) /\ k # 1
  BY <1>4 DEF CallsAt
<1>5. ASSUME NEW w \in Entries(WorkerURIs), k > 1,
             CallsAt(k, "update_worker_status", w)
      PROVE  c = Call("update_worker_status", w) /\ k # 1 /\ k - 1 \in 1..(k - 1)
  BY <1>5 DEF CallsAt
<1>6. \A name, who : Call(name, who).name = name /\ Call(name, who).who = who
  BY DEF Call
<1> QED
  BY <1>1, <1>2, <1>3, <1>4, <1>5, <1>6, PlanPlaces DEF CallNames, WorkerNames

(* Every worker has a call of every kind. *)
LEMMA PlanCovers ==
    ASSUME NEW w \in Entries(WorkerURIs)
    PROVE  \E k, l, p \in 1..Len(Plan) :
              /\ Plan[k] = Call("create_worker_did", w)
              /\ Plan[l] = Call("issue_worker_credential", w)
              /\ Plan[p] = Call("update_worker_status", w)
<1>1. PICK j \in 1..WorkerCount : w = WorkerURIs[j]
  BY BootstrapAssumption DEF Entries, WorkerCount
<1>2. /\ FirstCreation + j \in 1..Len(Plan) /\ FirstCredential + 2 * j - 1 \in 1..Len(Plan)
      /\ FirstCredential + 2 * j \in 1..Len(Plan)
  BY Counts, PlanShape DEF FirstCreation, FirstCredential
<1> QED
  BY <1>1, <1>2, PlanShape

-----------------------------------------------------------------------------
(* The inductive invariant. *)

Registered(w) == WorkerDIDs[w] # None /\ AccountToDID[w] # None

(* What the calls of runs and operators keep true of the pallets: the script *)
(* names no validity period.                                                 *)
PalletsInv ==
    /\ KiltInv
    /\ AIWorkerStatus \in [Accounts -> BOOLEAN \cup {None}]
    /\ \A d \in DIDs : WorkerCredentials[d] # None => WorkerCredentials[d].expires_at = None

(* The calls a run has behind it about something none of whose calls was     *)
(* refused, and what such a call leaves behind for good or, where an         *)
(* operator could interfere, until one does.                                 *)
Served(b, k) == k < at[b] /\ ~RefusedFor(b, Plan[k].who)

Effect(b, c) ==
    /\ c.name \in WorkerNames => c.who \in worker_dids[b]
    /\ ~disturbed[b] /\ c.name = "issue_worker_credential" =>
          WorkerCredentials[generate_did[c.who]] # None
    /\ ~disturbed[b] /\ c.name = "update_worker_status" =>
          (WorkerDIDs[c.who].status = Active => AIWorkerStatus[c.who] = TRUE)

RunInv(b) ==
    /\ pc[b] = "signed" => ~Skipped(b)
    /\ pc[b] = "complete" => at[b] = Len(Plan) + 1
    /\ \A w \in worker_dids[b] : Registered(w)
    /\ \A k \in 1..Len(Plan) : Served(b, k) => Effect(b, Plan[k])

(* A nonce of the sudo key is used up by the first call of a plan or later:  *)
(* whoever finds it used up finds the governance DID set.                    *)
GovernanceInv ==
    operator_calls = 0 =>
        /\ \A b \in Runs : at[b] > 1 \/ (pc[b] = "signed" /\ stale[b]) => GovernanceDID = GovDID
        /\ \A d \in DIDs : WorkerCredentials[d] # None => WorkerCredentials[d].issuer = GovDID

BootstrapInv ==
    /\ BootstrapTypeOK
    /\ crashes \in Nat /\ operator_calls \in Nat
    /\ PalletsInv
    /\ \A b \in Runs : RunInv(b)
    /\ GovernanceInv

(* What a step of the pallets leaves of workers, credentials and statuses.   *)
WorkersStay ==
    \A w \in Accounts : Registered(w) =>
        WorkerDIDs'[w] = WorkerDIDs[w] /\ AccountToDID'[w] = AccountToDID[w]

NothingLost ==
    /\ WorkersStay
    /\ \A d \in DIDs : WorkerCredentials[d] # None => WorkerCredentials'[d] # None
    /\ \A w \in Accounts : AIWorkerStatus[w] = TRUE => AIWorkerStatus'[w] = TRUE

-----------------------------------------------------------------------------

LEMMA BootstrapConstants ==
    /\ Entries(WorkerURIs) \subseteq Accounts
    /\ \A w \in Accounts : generate_did[w] \in DIDs
    /\ GovDID \in DIDs /\ None \notin DIDs
    /\ Len(Plan) \in Nat \ {0}
<1>1. Entries(WorkerURIs) \subseteq Accounts
  BY BootstrapAssumption, ElementOfSeq DEF Entries
<1>2. Len(Plan) \in Nat \ {0}
  BY PlanShape, Counts DEF FirstCredential, FirstCreation
<1> QED
  BY <1>1, <1>2, BootstrapAssumption, KiltAssumption

(* A registered worker is known by the DID generated for it. *)
LEMMA RegisteredDID ==
    ASSUME KiltInv, NEW w \in Accounts, Registered(w)
    PROVE  get_worker_did(w) = generate_did[w] /\ WorkerDIDs[w].did = generate_did[w]
  BY DEF KiltInv, DIDMapsAgree, Registered, get_worker_did

(* A registered, active worker whose credential is live is a valid worker.   *)
LEMMA ActiveIsValid ==
    ASSUME PalletsInv, NEW w \in Accounts, Registered(w),
           WorkerCredentials[generate_did[w]] # None
    PROVE  /\ get_worker_did(w) # None
           /\ CredentialLive(get_worker_did(w))
           /\ WorkerDIDs[w].status = Active => ValidWorker(w)
<1>1. get_worker_did(w) = generate_did[w] /\ generate_did[w] \in DIDs /\ get_worker_did(w) # None
  BY RegisteredDID, BootstrapConstants DEF PalletsInv
<1>2. CredentialLive(get_worker_did(w))
  BY <1>1 DEF CredentialLive, PalletsInv
<1>3. ASSUME WorkerDIDs[w].status = Active PROVE ValidWorker(w)
  <2>1. ASSUME NEW a \in Holders(get_worker_did(w)) PROVE a = w
    BY <1>1, NoHashCollision DEF Holders, PalletsInv, KiltInv, DIDMapsAgree
  <2>2. WorkerDIDs[w].status.tag = "Active"
    BY <1>3 DEF Active
  <2> QED
    BY <1>1, <1>2, <2>1, <2>2 DEF ValidWorker, verify_worker_credential, InSuspension
<1> QED
  BY <1>1, <1>2, <1>3

(* The calls of the script, each with what it leaves behind. *)
LEMMA DispatchCases ==
    ASSUME PalletsInv, NEW k \in 1..Len(Plan), NEW c, c = Plan[k], dispatch(c),
           c.name \in {"issue_worker_credential", "update_worker_status"} => Registered(c.who)
    PROVE  /\ PalletsInv' /\ NothingLost
           /\ c.name = "create_worker_did" => Registered(c.who)'
           /\ c.name = "issue_worker_credential" =>
                 WorkerCredentials'[generate_did[c.who]] # None
           /\ c.name = "update_worker_status" =>
                 AIWorkerStatus'[c.who] = TRUE \/ (~ValidWorker(c.who) /\ UNCHANGED vars)
           /\ GovernanceDID' = IF c.name = "set_governance_did" THEN GovDID ELSE GovernanceDID
           /\ \A d \in DIDs : \/ WorkerCredentials'[d] = WorkerCredentials[d]
                              \/ c.name = "issue_worker_credential"
                                 /\ WorkerCredentials'[d].issuer = GovernanceDID
<1> USE DEF PalletsInv
<1>0. c.name \in WorkerNames => c.who \in Accounts
  BY PlanOrder, BootstrapConstants
<1>1. CASE c.name = "set_governance_did" /\ set_governance_did(GovDID) /\ UNCHANGED aiVars
  <2>1. KiltInv'
    BY <1>1, GovernanceKeeps, BootstrapConstants
  <2> QED
    BY <1>1, <2>1 DEF set_governance_did, aiVars, NothingLost, WorkersStay
<1>2. CASE c.name = "add_allowed_model" /\ add_allowed_model(c.who, NameAndHash)
  BY <1>2 DEF add_allowed_model, kiltVars, NothingLost, WorkersStay, KiltInv, KiltTypeOK,
              DIDMapsAgree, CredentialWindow
<1>3. CASE c.name = "create_worker_did" /\ create_worker_did(c.who) /\ UNCHANGED aiVars
  <2>1. c.who \in Accounts /\ generate_did[c.who] \in DIDs
    BY <1>0, <1>3, BootstrapConstants DEF WorkerNames
  <2>2. KiltInv'
    BY <1>3, <2>1, CreateKeeps
  <2>3. WorkersStay
    BY <1>3, <2>1 DEF create_worker_did, WorkersStay, Registered, KiltInv, KiltTypeOK
  <2>4. Registered(c.who)'
    <3>1. AccountToDID'[c.who] = generate_did[c.who]
      BY <1>3, <2>1 DEF create_worker_did, KiltInv, KiltTypeOK
    <3>2. AccountToDID'[c.who] # None
      BY <2>1, <3>1, BootstrapConstants
    <3>3. WorkerDIDs'[c.who] # None
      BY <2>1, <2>2, <3>2 DEF KiltInv, DIDMapsAgree
    <3> QED
      BY <3>2, <3>3 DEF Registered
  <2> QED
    BY <1>3, <2>2, <2>3, <2>4 DEF create_worker_did, aiVars, NothingLost
<1>4. CASE c.name = "create_worker_did" /\ WorkerDIDs[c.who] # None /\ UNCHANGED vars
  <2>1. c.who \in Accounts
    BY <1>0, <1>4 DEF WorkerNames
  <2>2. Registered(c.who)'
    BY <1>4, <2>1 DEF Registered, vars, kiltVars, KiltInv, DIDMapsAgree
  <2> QED
    BY <1>4, <2>2 DEF vars, kiltVars, aiVars, NothingLost, WorkersStay, KiltInv, KiltTypeOK,
                      DIDMapsAgree, CredentialWindow
<1>5. CASE c.name = "issue_worker_credential"
           /\ issue_worker_credential(get_worker_did(c.who), None) /\ UNCHANGED aiVars
  <2>1. c.who \in Accounts /\ Registered(c.who)
    BY <1>0, <1>5 DEF WorkerNames
  <2>2. PICK d \in DIDs : d = get_worker_did(c.who) /\ d = generate_did[c.who]
    BY <2>1, RegisteredDID, BootstrapConstants
  <2>3. issue_worker_credential(d, None)
    BY <1>5, <2>2
  <2>4. KiltInv'
    BY <2>3, IssueKeeps
  <2> DEFINE issued == [issuer |-> GovernanceDID, subject |-> d, issued_at |-> block_number,
                        expires_at |-> None]
  <2>5. WorkerCredentials' = [WorkerCredentials EXCEPT ![d] = issued]
    BY <2>3 DEF issue_worker_credential
  <2>6. WorkerCredentials'[d] = issued /\ \A e \in DIDs : e # d => WorkerCredentials'[e] = WorkerCredentials[e]
    BY <2>5 DEF KiltInv, KiltTypeOK
  <2>7. issued # None
    <3>1. GovernanceDID \in DIDs /\ block_number \in Blocks
      BY DEF KiltInv, KiltTypeOK
    <3>2. issued \in AIWorkerCredential
      BY <3>1 DEF AIWorkerCredential
    <3> QED
      BY <3>2, KiltAssumption
  <2> QED
    BY <1>5, <2>2, <2>3, <2>4, <2>6, <2>7
    DEF issue_worker_credential, aiVars, NothingLost, WorkersStay
<1>6. CASE c.name = "update_worker_status" /\ update_ai_worker_status(c.who, TRUE)
  <2>1. c.who \in Accounts
    BY <1>0, <1>6 DEF WorkerNames
  <2>2. AIWorkerStatus' = [AIWorkerStatus EXCEPT ![c.who] = TRUE] /\ UNCHANGED kiltVars
    BY <1>6 DEF update_ai_worker_status
  <2>3. KiltInv'
    BY <2>2 DEF kiltVars, KiltInv, KiltTypeOK, DIDMapsAgree, CredentialWindow
  <2> QED
    BY <1>6, <2>1, <2>2, <2>3 DEF kiltVars, NothingLost, WorkersStay
<1>7. CASE c.name = "update_worker_status" /\ ~ValidWorker(c.who) /\ UNCHANGED vars
  BY <1>7 DEF vars, kiltVars, aiVars, NothingLost, WorkersStay, KiltInv, KiltTypeOK,
              DIDMapsAgree, CredentialWindow
<1> QED
  BY <1>1, <1>2, <1>3, <1>4, <1>5, <1>6, <1>7 DEF dispatch

-----------------------------------------------------------------------------
(* What a step does to a run: it stands still, or it goes on by a call.      *)

LEMMA EffectStays ==
    ASSUME PalletsInv, NothingLost, NEW b \in Runs, NEW c, Effect(b, c),
           worker_dids[b] \subseteq Accounts, \A w \in worker_dids[b] : Registered(w),
           worker_dids[b] \subseteq worker_dids'[b], disturbed'[b] = disturbed[b],
           disturbed[b] \in BOOLEAN,
           c.name \in WorkerNames => c.who \in Accounts
    PROVE  Effect(b, c)'
<1>1. c.name \in WorkerNames => c.who \in worker_dids'[b] /\ Registered(c.who) /\ c.who \in Accounts
  BY DEF Effect
<1>2. c.name \in WorkerNames => WorkerDIDs'[c.who] = WorkerDIDs[c.who]
  BY <1>1 DEF NothingLost, WorkersStay
<1>3. c.name \in WorkerNames => generate_did[c.who] \in DIDs
  BY <1>1, BootstrapConstants
<1> QED
  BY <1>1, <1>2, <1>3 DEF Effect, NothingLost, WorkerNames

LEMMA RunStays ==
    ASSUME BootstrapTypeOK, PalletsInv, NothingLost, NEW b \in Runs, RunInv(b),
           at'[b] = at[b], worker_dids'[b] = worker_dids[b], refusals'[b] = refusals[b],
           disturbed'[b] = disturbed[b], pc'[b] = "complete" => pc[b] = "complete",
           pc'[b] = "signed" => ~Skipped(b)
    PROVE  RunInv(b)'
<1>1. /\ worker_dids[b] \subseteq Entries(WorkerURIs) /\ disturbed[b] \in BOOLEAN
  BY DEF BootstrapTypeOK
<1>2. \A w \in worker_dids[b] : w \in Accounts /\ Registered(w)
  BY <1>1, BootstrapConstants DEF RunInv
<1>3. \A w \in worker_dids'[b] : Registered(w)'
  BY <1>2 DEF NothingLost, WorkersStay, Registered
<1>4. ASSUME NEW k \in 1..Len(Plan), Served(b, k)' PROVE Effect(b, Plan[k])'
  <2>1. Served(b, k)
    BY <1>4 DEF Served, RefusedFor
  <2>2. PICK c : c = Plan[k]
    OBVIOUS
  <2>3. Effect(b, c) /\ (c.name \in WorkerNames => c.who \in Accounts)
    BY <2>1, <2>2, PlanOrder, BootstrapConstants DEF RunInv
  <2>4. Effect(b, c)'
    BY <1>1, <1>2, <2>3, EffectStays
  <2> QED
    BY <2>2, <2>4
<1>5. pc'[b] = "signed" => ~Skipped(b)'
  BY DEF Skipped, call
<1> QED
  BY <1>3, <1>4, <1>5 DEF RunInv

LEMMA RunGoesOn ==
    ASSUME BootstrapTypeOK, PalletsInv, NothingLost, NEW b \in Runs, RunInv(b),
           at[b] <= Len(Plan), proceed(b),
           worker_dids[b] \subseteq worker_dids'[b], refusals[b] \subseteq refusals'[b],
           disturbed'[b] = disturbed[b],
           \A w \in worker_dids'[b] \ worker_dids[b] : Registered(w)',
           NEW c, c = Plan[at[b]], ~RefusedFor(b, c.who)' => Effect(b, c)'
    PROVE  RunInv(b)'
<1>1. /\ worker_dids[b] \subseteq Entries(WorkerURIs) /\ disturbed[b] \in BOOLEAN
      /\ at \in [Runs -> 1..(Len(Plan) + 1)] /\ at[b] \in Nat
      /\ pc \in [Runs -> {"next", "signed", "crashed", "complete"}]
  BY DEF BootstrapTypeOK
<1>2. \A w \in worker_dids[b] : w \in Accounts /\ Registered(w)
  BY <1>1, BootstrapConstants DEF RunInv
<1>3. \A w \in worker_dids'[b] : Registered(w)'
  BY <1>2 DEF NothingLost, WorkersStay, Registered
<1>4. /\ at'[b] = at[b] + 1 /\ pc'[b] # "signed"
      /\ pc'[b] = "complete" => at[b] = Len(Plan)
  BY <1>1 DEF proceed
<1>5. ASSUME NEW k \in 1..Len(Plan), Served(b, k)' PROVE Effect(b, Plan[k])'
  <2>1. PICK d : d = Plan[k]
    OBVIOUS
  <2>2. k <= at[b] /\ ~RefusedFor(b, d.who)'
    BY <1>1, <1>4, <1>5, <2>1 DEF Served
  <2>3. CASE k = at[b]
    BY <2>1, <2>2, <2>3
  <2>4. CASE k # at[b]
    <3>1. k < at[b]
      BY <1>1, <2>2, <2>4
    <3>2. ~RefusedFor(b, d.who)
      BY <2>2 DEF RefusedFor
    <3>3. Effect(b, d) /\ (d.name \in WorkerNames => d.who \in Accounts)
      BY <2>1, <3>1, <3>2, PlanOrder, BootstrapConstants DEF RunInv, Served
    <3>4. Effect(b, d)'
      BY <1>1, <1>2, <3>3, EffectStays
    <3> QED
      BY <2>1, <3>4
  <2> QED
    BY <2>3, <2>4
<1> QED
  BY <1>1, <1>3, <1>4, <1>5 DEF RunInv

(* A call that a run has before it, and what its run knows of it.            *)
LEMMA NextCall ==
    ASSUME BootstrapTypeOK, NEW b \in Runs, pc[b] \in {"next", "signed"}
    PROVE  /\ at[b] \in 1..Len(Plan) /\ call(b) = Plan[at[b]]
           /\ Signer(call(b)) = Alice \/ at[b] > 1
<1>1. at[b] \in 1..Len(Plan)
  BY BootstrapConstants DEF BootstrapTypeOK
<1>2. call(b) = Plan[at[b]]
  BY DEF call
<1>3. at[b] = 1 => Signer(call(b)) = Alice
  BY <1>1, <1>2, PlanOrder DEF Signer
<1>4. at[b] # 1 => at[b] > 1
  BY <1>1
<1> QED
  BY <1>1, <1>2, <1>3, <1>4

(* The calls of an unskipped credential or status are about a worker with a  *)
(* DID, and every call of a worker without a refusal is unskipped.           *)
LEMMA UnskippedRegistered ==
    ASSUME BootstrapTypeOK, NEW b \in Runs, RunInv(b), ~Skipped(b), NEW c, c = call(b),
           c.name \in {"issue_worker_credential", "update_worker_status"}
    PROVE  c.who \in worker_dids[b] /\ Registered(c.who)
  BY DEF Skipped, RunInv

LEMMA SkippedRefused ==
    ASSUME BootstrapTypeOK, NEW b \in Runs, RunInv(b), pc[b] = "next", Skipped(b)
    PROVE  RefusedFor(b, call(b).who)
<1>1. at[b] \in 1..Len(Plan) /\ call(b) = Plan[at[b]] /\ at[b] \in Nat
  BY NextCall
<1>2. PICK p \in 1..(at[b] - 1) : CallsAt(p, "create_worker_did", call(b).who)
  BY <1>1, PlanOrder DEF Skipped
<1>3. p \in 1..Len(Plan) /\ p < at[b]
  BY <1>1, <1>2 DEF CallsAt
<1>4. Plan[p].name = "create_worker_did" /\ Plan[p].who = call(b).who
  BY <1>2 DEF CallsAt, Call
<1>5. Served(b, p) => call(b).who \in worker_dids[b]
  BY <1>3, <1>4 DEF RunInv, Effect, WorkerNames
<1> QED
  BY <1>3, <1>4, <1>5 DEF Skipped, Served

(* What an included call of a run does to everything but the counters of     *)
(* runs: the call itself is done, and the governance DID is set.             *)
LEMMA CallIncluded ==
    ASSUME BootstrapInv, NEW b \in Runs, pc[b] = "signed", NEW c, c = Plan[at[b]], dispatch(c)
    PROVE  /\ PalletsInv' /\ NothingLost
           /\ c.name = "create_worker_did" => c.who \in Entries(WorkerURIs) /\ Registered(c.who)'
           /\ c.name \in {"issue_worker_credential", "update_worker_status"} =>
                 c.who \in worker_dids[b]
           /\ c.name = "issue_worker_credential" =>
                 WorkerCredentials'[generate_did[c.who]] # None
           /\ ~disturbed[b] /\ c.name = "update_worker_status" /\ ~RefusedFor(b, c.who) =>
                 (WorkerDIDs'[c.who].status = Active => AIWorkerStatus'[c.who] = TRUE)
           /\ operator_calls = 0 =>
                 /\ GovernanceDID' = GovDID
                 /\ \A d \in DIDs : WorkerCredentials'[d] # None =>
                        WorkerCredentials'[d].issuer = GovDID
<1>1. BootstrapTypeOK /\ PalletsInv /\ RunInv(b) /\ GovernanceInv
  BY DEF BootstrapInv
<1>2. at[b] \in 1..Len(Plan) /\ call(b) = c /\ ~Skipped(b) /\ at[b] \in Nat
  BY <1>1, NextCall DEF RunInv
<1>3. c.name \in {"issue_worker_credential", "update_worker_status"} =>
         c.who \in worker_dids[b] /\ Registered(c.who)
  BY <1>1, <1>2, UnskippedRegistered
<1>4. /\ PalletsInv' /\ NothingLost
      /\ c.name = "create_worker_did" => Registered(c.who)'
      /\ c.name = "issue_worker_credential" =>
            WorkerCredentials'[generate_did[c.who]] # None
      /\ c.name = "update_worker_status" =>
            AIWorkerStatus'[c.who] = TRUE \/ (~ValidWorker(c.who) /\ UNCHANGED vars)
      /\ GovernanceDID' = IF c.name = "set_governance_did" THEN GovDID ELSE GovernanceDID
      /\ \A d \in DIDs : \/ WorkerCredentials'[d] = WorkerCredentials[d]
                         \/ c.name = "issue_worker_credential"
                            /\ WorkerCredentials'[d].issuer = GovernanceDID
  BY <1>1, <1>2, <1>3, DispatchCases
<1>5. c.name \in WorkerNames => c.who \in Entries(WorkerURIs)
  BY <1>2, PlanOrder
<1>6. ASSUME ~disturbed[b], c.name = "update_worker_status", ~RefusedFor(b, c.who),
             WorkerDIDs'[c.who].status = Active
      PROVE  AIWorkerStatus'[c.who] = TRUE
  <2>1. SUFFICES ASSUME ~ValidWorker(c.who), UNCHANGED vars PROVE FALSE
    BY <1>4, <1>6
  <2>2. PICK k \in 1..Len(Plan) : k = at[b] - 1 /\ CallsAt(k, "issue_worker_credential", c.who)
    BY <1>2, <1>6, PlanOrder DEF CallsAt
  <2>3. Plan[k].name = "issue_worker_credential" /\ Plan[k].who = c.who
    BY <2>2 DEF CallsAt, Call
  <2>4. Served(b, k)
    BY <1>2, <1>6, <2>2, <2>3 DEF Served
  <2>5. WorkerCredentials[generate_did[c.who]] # None
    BY <1>1, <1>6, <2>3, <2>4 DEF RunInv, Effect
  <2>6. WorkerDIDs[c.who].status = Active
    BY <1>6, <2>1 DEF vars, kiltVars
  <2>7. c.who \in Accounts /\ Registered(c.who)
    BY <1>3, <1>5, <1>6, BootstrapConstants DEF WorkerNames
  <2> QED
    BY <1>1, <2>1, <2>5, <2>6, <2>7, ActiveIsValid
<1>7. ASSUME operator_calls = 0
      PROVE  /\ GovernanceDID' = GovDID
             /\ \A d \in DIDs : WorkerCredentials'[d] # None =>
                    WorkerCredentials'[d].issuer = GovDID
  <2>1. at[b] # 1 => GovernanceDID = GovDID
    BY <1>1, <1>2, <1>7 DEF GovernanceInv
  <2>2. at[b] = 1 <=> c.name = "set_governance_did"
    BY <1>2, PlanOrder
  <2> QED
    BY <1>1, <1>4, <1>7, <2>1, <2>2 DEF GovernanceInv
<1> QED
  BY <1>3, <1>4, <1>5, <1>6, <1>7 DEF WorkerNames

LEMMA SubmitKeeps == ASSUME BootstrapInv, NEW b \in Runs, submit(b) PROVE BootstrapInv'
<1> USE DEF submit
<1>1. BootstrapTypeOK /\ PalletsInv /\ (\A r \in Runs : RunInv(r)) /\ GovernanceInv
  BY DEF BootstrapInv
<1>2. PICK c : c = Plan[at[b]]
  OBVIOUS
<1>3. at[b] \in 1..Len(Plan) /\ call(b) = c
  BY <1>1, <1>2, NextCall
<1>4. dispatch(c)
  BY <1>3
<1>5. /\ PalletsInv' /\ NothingLost
      /\ c.name = "create_worker_did" => c.who \in Entries(WorkerURIs) /\ Registered(c.who)'
      /\ c.name \in {"issue_worker_credential", "update_worker_status"} =>
            c.who \in worker_dids[b]
      /\ c.name = "issue_worker_credential" =>
            WorkerCredentials'[generate_did[c.who]] # None
      /\ ~disturbed[b] /\ c.name = "update_worker_status" /\ ~RefusedFor(b, c.who) =>
            (WorkerDIDs'[c.who].status = Active => AIWorkerStatus'[c.who] = TRUE)
      /\ operator_calls = 0 =>
            /\ GovernanceDID' = GovDID
            /\ \A d \in DIDs : WorkerCredentials'[d] # None =>
                   WorkerCredentials'[d].issuer = GovDID
  BY <1>2, <1>4, CallIncluded
<1>6. /\ pc \in [Runs -> {"next", "signed", "crashed", "complete"}]
      /\ at \in [Runs -> 1..(Len(Plan) + 1)]
      /\ worker_dids \in [Runs -> SUBSET Entries(WorkerURIs)]
  BY <1>1 DEF BootstrapTypeOK
<1>7. /\ \A r \in Runs : r # b => at'[r] = at[r] /\ pc'[r] = pc[r] /\ worker_dids'[r] = worker_dids[r]
      /\ worker_dids' \in [Runs -> SUBSET Entries(WorkerURIs)]
      /\ worker_dids[b] \subseteq worker_dids'[b]
      /\ \A w \in worker_dids'[b] \ worker_dids[b] : Registered(w)'
      /\ c.name = "create_worker_did" => c.who \in worker_dids'[b]
  <2>1. \A r \in Runs : r # b => at'[r] = at[r] /\ pc'[r] = pc[r]
    BY <1>6 DEF proceed
  <2>2. CASE c.name = "create_worker_did"
    <3>1. AccountToDID'[c.who] # None
      BY <1>5, <2>2 DEF Registered
    <3>2. worker_dids' = [worker_dids EXCEPT ![b] = @ \cup {c.who}]
      BY <1>3, <2>2, <3>1
    <3> QED
      BY <1>5, <1>6, <2>1, <2>2, <3>2
  <2>3. CASE c.name # "create_worker_did"
    <3>1. worker_dids' = worker_dids
      BY <1>3, <2>3
    <3> QED
      BY <1>6, <2>1, <2>3, <3>1
  <2> QED
    BY <2>2, <2>3
<1>8. BootstrapTypeOK'
  <2>1. /\ at' \in [Runs -> 1..(Len(Plan) + 1)]
        /\ pc' \in [Runs -> {"next", "signed", "crashed", "complete"}]
        /\ pc'[b] \in {"next", "signed"} => at'[b] <= Len(Plan)
    BY <1>3, <1>6, BootstrapConstants DEF proceed
  <2>2. stale' \in [Runs -> BOOLEAN]
    BY DEF use_nonce
  <2> QED
    BY <1>1, <1>5, <1>7, <2>1, <2>2 DEF BootstrapTypeOK, PalletsInv, KiltInv
<1>9. RunInv(b)'
  <2>1. ASSUME ~RefusedFor(b, c.who)' PROVE Effect(b, c)'
    <3>1. ~RefusedFor(b, c.who)
      BY <2>1 DEF RefusedFor
    <3>2. c.name \in WorkerNames => c.who \in worker_dids'[b]
      BY <1>5, <1>7 DEF WorkerNames
    <3> QED
      BY <1>5, <3>1, <3>2 DEF Effect
  <2>2. at[b] <= Len(Plan) /\ refusals'[b] = refusals[b] /\ disturbed'[b] = disturbed[b]
    BY <1>3
  <2> QED
    BY <1>1, <1>2, <1>5, <1>7, <2>1, <2>2, RunGoesOn
<1>10. ASSUME NEW r \in Runs, r # b PROVE RunInv(r)'
  <2>1. pc'[r] = "signed" => ~Skipped(r)
    BY <1>1, <1>7, <1>10 DEF RunInv
  <2> QED
    BY <1>1, <1>5, <1>7, <1>10, <2>1, RunStays
<1>11. GovernanceInv'
  BY <1>5 DEF GovernanceInv
<1> QED
  BY <1>5, <1>8, <1>9, <1>10, <1>11 DEF BootstrapInv

(* The steps of a run that make no call of the pallets.                      *)
LEMMA PalletsRest ==
    ASSUME PalletsInv, UNCHANGED vars PROVE PalletsInv' /\ NothingLost
  BY DEF vars, kiltVars, aiVars, PalletsInv, NothingLost, WorkersStay, KiltInv, KiltTypeOK,
         DIDMapsAgree, CredentialWindow

LEMMA SkipKeeps == ASSUME BootstrapInv, NEW b \in Runs, skip(b) PROVE BootstrapInv'
<1> USE DEF skip
<1>1. BootstrapTypeOK /\ PalletsInv /\ (\A r \in Runs : RunInv(r)) /\ GovernanceInv
  BY DEF BootstrapInv
<1>2. PalletsInv' /\ NothingLost
  BY <1>1, PalletsRest
<1>3. at[b] \in 1..Len(Plan) /\ call(b) = Plan[at[b]]
  BY <1>1, NextCall
<1>4. RefusedFor(b, call(b).who)
  BY <1>1, SkippedRefused
<1>5. /\ pc \in [Runs -> {"next", "signed", "crashed", "complete"}]
      /\ at \in [Runs -> 1..(Len(Plan) + 1)]
  BY <1>1 DEF BootstrapTypeOK
<1>6. \A r \in Runs : r # b => at'[r] = at[r] /\ pc'[r] = pc[r]
  BY <1>5 DEF proceed
<1>7. BootstrapTypeOK'
  <2>1. /\ at' \in [Runs -> 1..(Len(Plan) + 1)]
        /\ pc' \in [Runs -> {"next", "signed", "crashed", "complete"}]
        /\ pc'[b] \in {"next", "signed"} => at'[b] <= Len(Plan)
    BY <1>3, <1>5, BootstrapConstants DEF proceed
  <2> QED
    BY <1>1, <1>2, <1>6, <2>1 DEF BootstrapTypeOK, PalletsInv, KiltInv
<1>8. RunInv(b)'
  <2>1. PICK c : c = Plan[at[b]]
    OBVIOUS
  <2>2. RefusedFor(b, c.who)'
    BY <1>3, <1>4, <2>1 DEF RefusedFor
  <2>3. at[b] <= Len(Plan)
    BY <1>3
  <2> QED
    BY <1>1, <1>2, <2>1, <2>2, <2>3, RunGoesOn
<1>9. ASSUME NEW r \in Runs, r # b PROVE RunInv(r)'
  <2>1. pc'[r] = "signed" => ~Skipped(r)
    BY <1>1, <1>6, <1>9 DEF RunInv
  <2> QED
    BY <1>1, <1>2, <1>6, <1>9, <2>1, RunStays
<1>10. GovernanceInv'
  <2>1. at[b] > 1
    <3>1. at[b] # 1
      BY <1>3, PlanOrder DEF Skipped
    <3> QED
      BY <1>3, <3>1
  <2>2. operator_calls = 0 => GovernanceDID = GovDID
    BY <1>1, <2>1 DEF GovernanceInv
  <2> QED
    BY <1>1, <2>2 DEF GovernanceInv, vars, kiltVars
<1> QED
  BY <1>2, <1>7, <1>8, <1>9, <1>10 DEF BootstrapInv

LEMMA SignKeeps == ASSUME BootstrapInv, NEW b \in Runs, sign(b) PROVE BootstrapInv'
<1> USE DEF sign
<1>1. BootstrapTypeOK /\ PalletsInv /\ (\A r \in Runs : RunInv(r)) /\ GovernanceInv
  BY DEF BootstrapInv
<1>2. PalletsInv' /\ NothingLost
  BY <1>1, PalletsRest
<1>3. /\ pc \in [Runs -> {"next", "signed", "crashed", "complete"}]
      /\ stale \in [Runs -> BOOLEAN]
  BY <1>1 DEF BootstrapTypeOK
<1>4. /\ \A r \in Runs : r # b => pc'[r] = pc[r] /\ stale'[r] = stale[r]
      /\ pc'[b] = "signed" /\ stale'[b] = FALSE
  BY <1>3
<1>5. BootstrapTypeOK'
  <2>1. pc' \in [Runs -> {"next", "signed", "crashed", "complete"}] /\ stale' \in [Runs -> BOOLEAN]
    BY <1>3
  <2> QED
    BY <1>1, <1>2, <1>4, <2>1 DEF BootstrapTypeOK, PalletsInv, KiltInv
<1>6. ASSUME NEW r \in Runs PROVE RunInv(r)'
  <2>1. pc'[r] = "signed" => ~Skipped(r)
    BY <1>1, <1>4 DEF RunInv
  <2>2. pc'[r] = "complete" => pc[r] = "complete"
    BY <1>4
  <2> QED
    BY <1>1, <1>2, <2>1, <2>2, RunStays
<1>7. GovernanceInv'
  BY <1>1, <1>4 DEF GovernanceInv, vars, kiltVars
<1> QED
  BY <1>2, <1>5, <1>6, <1>7 DEF BootstrapInv

LEMMA RefusalKeeps == ASSUME BootstrapInv, NEW b \in Runs, submit_refused(b) PROVE BootstrapInv'
<1> USE DEF submit_refused
<1>1. BootstrapTypeOK /\ PalletsInv /\ (\A r \in Runs : RunInv(r)) /\ GovernanceInv
  BY DEF BootstrapInv
<1>2. PalletsInv' /\ NothingLost
  BY <1>1, PalletsRest
<1>3. at[b] \in 1..Len(Plan) /\ DOMAIN Plan = 1..Len(Plan)
  BY <1>1, NextCall, PlanShape
<1>4. /\ pc \in [Runs -> {"next", "signed", "crashed", "complete"}]
      /\ at \in [Runs -> 1..(Len(Plan) + 1)]
      /\ refusals \in [Runs -> SUBSET DOMAIN Plan]
  BY <1>1 DEF BootstrapTypeOK
<1>5. /\ \A r \in Runs : r # b => at'[r] = at[r] /\ pc'[r] = pc[r] /\ refusals'[r] = refusals[r]
      /\ refusals'[b] = refusals[b] \cup {at[b]}
      /\ refusals' \in [Runs -> SUBSET DOMAIN Plan]
  BY <1>3, <1>4 DEF proceed
<1>6. BootstrapTypeOK'
  <2>1. /\ at' \in [Runs -> 1..(Len(Plan) + 1)]
        /\ pc' \in [Runs -> {"next", "signed", "crashed", "complete"}]
        /\ pc'[b] \in {"next", "signed"} => at'[b] <= Len(Plan)
    BY <1>3, <1>4, BootstrapConstants DEF proceed
  <2> QED
    BY <1>1, <1>2, <1>5, <2>1 DEF BootstrapTypeOK, PalletsInv, KiltInv
<1>7. RunInv(b)'
  <2>1. PICK c : c = Plan[at[b]]
    OBVIOUS
  <2>2. RefusedFor(b, c.who)'
    BY <1>5, <2>1 DEF RefusedFor
  <2>3. at[b] <= Len(Plan) /\ refusals[b] \subseteq refusals'[b]
    BY <1>3, <1>5
  <2> QED
    BY <1>1, <1>2, <2>1, <2>2, <2>3, RunGoesOn
<1>8. ASSUME NEW r \in Runs, r # b PROVE RunInv(r)'
  <2>1. pc'[r] = "signed" => ~Skipped(r)
    BY <1>1, <1>5, <1>8 DEF RunInv
  <2> QED
    BY <1>1, <1>2, <1>5, <1>8, <2>1, RunStays
<1>9. GovernanceInv'
  <2>1. operator_calls = 0 => GovernanceDID = GovDID
    BY <1>1 DEF GovernanceInv
  <2> QED
    BY <1>1, <2>1 DEF GovernanceInv, vars, kiltVars
<1> QED
  BY <1>2, <1>6, <1>7, <1>8, <1>9 DEF BootstrapInv

LEMMA CrashKeeps == ASSUME BootstrapInv, NEW b \in Runs, crash(b) PROVE BootstrapInv'
<1> USE DEF crash
<1>1. /\ BootstrapTypeOK /\ PalletsInv /\ (\A r \in Runs : RunInv(r)) /\ GovernanceInv
      /\ crashes \in Nat
  BY DEF BootstrapInv
<1>2. pc \in [Runs -> {"next", "signed", "crashed", "complete"}] /\ stale \in [Runs -> BOOLEAN]
  BY <1>1 DEF BootstrapTypeOK
<1>3. (\A r \in Runs : r # b => pc'[r] = pc[r]) /\ pc'[b] = "crashed"
  BY <1>2
<1>4. PICK c : c = Plan[at[b]]
  OBVIOUS
<1>5. call(b) = c
  BY <1>1, <1>4, NextCall
<1>6. CASE UNCHANGED <<vars, stale>>
  <2>1. PalletsInv' /\ NothingLost
    BY <1>1, <1>6, PalletsRest
  <2>2. GovernanceInv'
    BY <1>1, <1>3, <1>6 DEF GovernanceInv, vars, kiltVars
  <2>3. stale' \in [Runs -> BOOLEAN]
    BY <1>2, <1>6
  <2>4. BootstrapTypeOK'
    <3>1. pc' \in [Runs -> {"next", "signed", "crashed", "complete"}]
      BY <1>2
    <3>2. \A r \in Runs : pc'[r] \in {"next", "signed"} => at'[r] <= Len(Plan)
      BY <1>1, <1>3 DEF BootstrapTypeOK
    <3> QED
      BY <1>1, <2>1, <2>3, <3>1, <3>2 DEF BootstrapTypeOK, PalletsInv, KiltInv
  <2>5. ASSUME NEW r \in Runs PROVE RunInv(r)'
    <3>1. pc'[r] = "signed" => ~Skipped(r)
      BY <1>1, <1>3 DEF RunInv
    <3>2. pc'[r] = "complete" => pc[r] = "complete"
      BY <1>3
    <3> QED
      BY <1>1, <2>1, <3>1, <3>2, RunStays
  <2> QED
    BY <1>1, <2>1, <2>2, <2>4, <2>5 DEF BootstrapInv
<1>7. CASE ~stale[b] /\ dispatch(call(b)) /\ use_nonce(Signer(call(b)), b)
  <2>1. dispatch(c)
    BY <1>5, <1>7
  <2>2. /\ PalletsInv' /\ NothingLost
        /\ operator_calls = 0 =>
              /\ GovernanceDID' = GovDID
              /\ \A d \in DIDs : WorkerCredentials'[d] # None =>
                     WorkerCredentials'[d].issuer = GovDID
    BY <1>4, <2>1, CallIncluded
  <2>3. GovernanceInv'
    BY <2>2 DEF GovernanceInv
  <2>4. stale' \in [Runs -> BOOLEAN]
    BY <1>7 DEF use_nonce
  <2>5. BootstrapTypeOK'
    <3>1. pc' \in [Runs -> {"next", "signed", "crashed", "complete"}]
      BY <1>2
    <3> QED
      BY <1>1, <1>3, <2>2, <2>4, <3>1 DEF BootstrapTypeOK, PalletsInv, KiltInv
  <2>6. ASSUME NEW r \in Runs PROVE RunInv(r)'
    <3>1. pc'[r] = "signed" => ~Skipped(r)
      BY <1>1, <1>3 DEF RunInv
    <3>2. pc'[r] = "complete" => pc[r] = "complete"
      BY <1>3
    <3> QED
      BY <1>1, <2>2, <3>1, <3>2, RunStays
  <2> QED
    BY <1>1, <2>2, <2>3, <2>5, <2>6 DEF BootstrapInv
<1> QED
  BY <1>6, <1>7

(* An operator ends what the effects of a disturbed run promise, and nothing *)
(* a run that has not begun could rely on.                                   *)
LEMMA OperatorKeeps == ASSUME BootstrapInv, operator_call PROVE BootstrapInv'
<1> USE DEF operator_call
<1>1. /\ BootstrapTypeOK /\ PalletsInv /\ (\A r \in Runs : RunInv(r))
      /\ operator_calls \in Nat
  BY DEF BootstrapInv
<1>2. PICK d \in DIDs : revoke_worker_credential(d)
                        \/ \E p \in Nat \cup {None} : suspend_worker(d, p)
  BY KiltAssumption
<1>3. KiltInv'
  BY <1>1, <1>2, RevokeKeeps, SuspendKeeps DEF PalletsInv
<1>4. AccountToDID' = AccountToDID /\ AIWorkerStatus' = AIWorkerStatus
  BY <1>2 DEF revoke_worker_credential, suspend_worker, suspend_worker_credential, aiVars
<1>5. PalletsInv'
  <2>1. ASSUME NEW e \in DIDs, WorkerCredentials'[e] # None
        PROVE  WorkerCredentials'[e] = WorkerCredentials[e]
    BY <1>1, <1>2, <2>1
    DEF revoke_worker_credential, suspend_worker, suspend_worker_credential, PalletsInv,
        KiltInv, KiltTypeOK
  <2> QED
    BY <1>1, <1>3, <1>4, <2>1 DEF PalletsInv
<1>6. \A w \in Accounts : Registered(w) => Registered(w)'
  BY <1>3, <1>4 DEF Registered, KiltInv, DIDMapsAgree
<1>7. BootstrapTypeOK'
  BY <1>1, <1>3 DEF BootstrapTypeOK, KiltInv
<1>8. ASSUME NEW b \in Runs PROVE RunInv(b)'
  <2>1. /\ worker_dids[b] \subseteq Accounts /\ at[b] \in Nat /\ worker_dids' = worker_dids
        /\ RunInv(b)
    BY <1>1, BootstrapConstants DEF BootstrapTypeOK
  <2>2. \A w \in worker_dids[b] : Registered(w)'
    BY <1>6, <2>1 DEF RunInv
  <2>3. ASSUME NEW k \in 1..Len(Plan), Served(b, k)' PROVE Effect(b, Plan[k])'
    <3>1. Served(b, k) /\ at[b] # 1
      BY <2>1, <2>3 DEF Served, RefusedFor
    <3>2. disturbed'[b] = TRUE
      BY <3>1
    <3>3. Effect(b, Plan[k])
      BY <2>1, <3>1 DEF RunInv
    <3> QED
      BY <2>1, <3>2, <3>3 DEF Effect
  <2> QED
    BY <2>1, <2>2, <2>3 DEF RunInv, Skipped, call
<1>9. GovernanceInv'
  BY <1>1 DEF GovernanceInv
<1> QED
  BY <1>1, <1>5, <1>7, <1>8, <1>9 DEF BootstrapInv

LEMMA BlocksKeep == ASSUME BootstrapInv, blocks_pass PROVE BootstrapInv'
<1> USE DEF blocks_pass, runVars
<1>1. BootstrapTypeOK /\ PalletsInv /\ (\A r \in Runs : RunInv(r)) /\ GovernanceInv
  BY DEF BootstrapInv
<1>2. KiltInv'
  BY <1>1, NextBlockKeeps DEF PalletsInv
<1>3. PalletsInv' /\ NothingLost
  BY <1>1, <1>2 DEF next_block, aiVars, PalletsInv, NothingLost, WorkersStay
<1>4. ASSUME NEW r \in Runs PROVE RunInv(r)'
  <2>1. pc'[r] = "signed" => ~Skipped(r)
    BY <1>1 DEF RunInv
  <2> QED
    BY <1>1, <1>3, <2>1, RunStays
<1>5. GovernanceInv'
  BY <1>1 DEF GovernanceInv, next_block
<1>6. BootstrapTypeOK'
  BY <1>1, <1>2 DEF BootstrapTypeOK, KiltInv
<1> QED
  BY <1>3, <1>4, <1>5, <1>6 DEF BootstrapInv

LEMMA BootstrapInitInv == BootstrapInit => BootstrapInv
<1> SUFFICES ASSUME BootstrapInit PROVE BootstrapInv
  OBVIOUS
<1> USE DEF BootstrapInit, Init
<1>1. KiltInv
  BY KiltInitInv
<1>2. PalletsInv
  BY <1>1 DEF KiltInit, AiInit, PalletsInv
<1>3. BootstrapTypeOK
  BY <1>1, BootstrapConstants DEF BootstrapTypeOK, KiltInv
<1>4. \A b \in Runs : RunInv(b)
  BY DEF RunInv, Served
<1>5. GovernanceInv
  BY DEF GovernanceInv, KiltInit
<1> QED
  BY <1>2, <1>3, <1>4, <1>5 DEF BootstrapInv

LEMMA BootstrapNextInv == BootstrapInv /\ [BootstrapNext]_bootstrapVars => BootstrapInv'
<1> SUFFICES ASSUME BootstrapInv, [BootstrapNext]_bootstrapVars PROVE BootstrapInv'
  OBVIOUS
<1>1. ASSUME NEW b \in Runs, run_step(b) \/ crash(b) PROVE BootstrapInv'
  BY <1>1, SkipKeeps, SignKeeps, SubmitKeeps, RefusalKeeps, CrashKeeps DEF run_step
<1>2. CASE operator_call
  BY <1>2, OperatorKeeps
<1>3. CASE blocks_pass
  BY <1>3, BlocksKeep
<1>4. CASE UNCHANGED bootstrapVars
  <2>1. PalletsInv'
    BY <1>4, PalletsRest DEF BootstrapInv, bootstrapVars
  <2> QED
    BY <1>4, <2>1
    DEF bootstrapVars, runVars, vars, kiltVars, aiVars, BootstrapInv, BootstrapTypeOK, KiltTypeOK,
        RunInv, Served, RefusedFor, Effect, Registered, Skipped, call, GovernanceInv
<1> QED
  BY <1>1, <1>2, <1>3, <1>4 DEF BootstrapNext

-----------------------------------------------------------------------------

(* The invariant holds in every reachable state. *)
THEOREM BootstrapInvariance == BootstrapSpec => []BootstrapInv
  BY BootstrapInitInv, BootstrapNextInv, PTL DEF BootstrapSpec

(* Every run stays within its plan and the pallets keep their types.         *)
THEOREM BootstrapTypeCorrect == BootstrapSpec => []BootstrapTypeOK
<1>1. BootstrapInv => BootstrapTypeOK
  BY DEF BootstrapInv
<1> QED
  BY BootstrapInvariance, <1>1, PTL

(* However many runs of main overlap or break off, a worker none of whose    *)
(* calls was refused to a completed run is set up, until an operator         *)
(* intervenes.                                                               *)
THEOREM CompletedRunsServe == BootstrapSpec => []CompleteRunServes
<1>1. BootstrapInv => CompleteRunServes
  <2> SUFFICES ASSUME BootstrapInv, NEW b \in Runs, pc[b] = "complete", ~disturbed[b],
                      NEW w \in Entries(WorkerURIs), ~RefusedFor(b, w)
               PROVE  /\ get_worker_did(w) # None
                      /\ CredentialLive(get_worker_did(w))
                      /\ WorkerDIDs[w].status = Active => ValidWorker(w) /\ AIWorkerStatus[w] = TRUE
    BY DEF CompleteRunServes
  <2>1. PalletsInv /\ RunInv(b) /\ at[b] = Len(Plan) + 1 /\ w \in Accounts
    BY BootstrapConstants DEF BootstrapInv, RunInv
  <2>2. PICK k, l, p \in 1..Len(Plan) :
           /\ Plan[k] = Call("create_worker_did", w)
           /\ Plan[l] = Call("issue_worker_credential", w)
           /\ Plan[p] = Call("update_worker_status", w)
    BY PlanCovers
  <2>3. \A name : Call(name, w).name = name /\ Call(name, w).who = w
    BY DEF Call
  <2>4. Served(b, k) /\ Served(b, l) /\ Served(b, p)
    BY <2>1, <2>2, <2>3 DEF Served
  <2>5. Effect(b, Plan[k]) /\ Effect(b, Plan[l]) /\ Effect(b, Plan[p])
    BY <2>1, <2>4 DEF RunInv
  <2>6. Registered(w)
    BY <2>1, <2>2, <2>3, <2>5 DEF Effect, RunInv, WorkerNames
  <2>7. WorkerCredentials[generate_did[w]] # None
    BY <2>2, <2>3, <2>5 DEF Effect
  <2>8. WorkerDIDs[w].status = Active => AIWorkerStatus[w] = TRUE
    BY <2>2, <2>3, <2>5 DEF Effect
  <2> QED
    BY <2>1, <2>6, <2>7, <2>8, ActiveIsValid
<1> QED
  BY BootstrapInvariance, <1>1, PTL

(* As long as no operator intervenes, every credential is issued by the      *)
(* governance DID of the script, refused set_governance_did or not.          *)
THEOREM CredentialsAreGoverned == BootstrapSpec => []IssuedByGovernance
<1>1. BootstrapInv => IssuedByGovernance
  BY DEF BootstrapInv, GovernanceInv, IssuedByGovernance
<1> QED
  BY BootstrapInvariance, <1>1, PTL

=============================================================================
