---------------------- MODULE SuspensionEvents_proofs ----------------------
(***************************************************************************)
(* An observer may rely on the WorkerSuspended events of registered DIDs.  *)
(***************************************************************************)
EXTENDS SuspensionEvents, KiltPermissions_proofs

(* What HeldSuspensionBinds rests on: whoever held the DID when its          *)
(* suspension was last announced holds it still, suspended until the         *)
(* announced block.  That status survives the suspension itself.             *)
StatusAsAnnounced ==
    \A d \in DIDs : announced[d] # None /\ announced[d].held =>
        \E a \in Accounts : /\ WorkerDIDs[a] # None
                            /\ WorkerDIDs[a].did = d
                            /\ WorkerDIDs[a].status = Suspended(announced[d].until)

EventInv ==
    /\ KiltInv
    /\ announced \in [DIDs -> Announcement \cup {None}]
    /\ StatusAsAnnounced

(* Seen without the observer, its steps are steps of the pallet. *)
LEMMA EventStepIsKilt == [EventNext]_eventVars => [KiltNext]_kiltVars
<1>1. ASSUME NEW d \in SubjectDIDs, NEW p \in Durations, SuspendAndAnnounce(d, p)
      PROVE  KiltNext
  BY <1>1 DEF SuspendAndAnnounce, KiltNext, KiltRoot
<1>2. CASE Silent
  BY <1>2 DEF Silent, KiltNext, KiltRoot
<1> QED
  BY <1>1, <1>2 DEF EventNext, eventVars

(* A suspension leaves the status it announces with every holder. *)
LEMMA SuspendStatus ==
    ASSUME EventInv, NEW e \in SubjectDIDs, NEW p \in Durations, SuspendAndAnnounce(e, p)
    PROVE  announced' \in [DIDs -> Announcement \cup {None}] /\ StatusAsAnnounced'
<1> DEFINE duration == IF p = None THEN WorkerSuspensionPeriod ELSE p
           until == saturating_add(block_number, duration)
           held == Holders(e) # {}
           note == [until |-> until, held |-> held]
<1>1. e \in DIDs /\ until \in Blocks
  BY KiltAssumption, SaturatingAdd DEF EventInv, KiltInv, KiltTypeOK
<1>2. note \in Announcement
  BY <1>1 DEF Announcement
<1>3. announced' = [announced EXCEPT ![e] = note]
  BY DEF SuspendAndAnnounce
<1>4. WorkerDIDs' = [a \in Accounts |->
          IF a \in Holders(e) THEN [WorkerDIDs[a] EXCEPT !.status = Suspended(until)]
          ELSE WorkerDIDs[a]]
  BY DEF SuspendAndAnnounce, suspend_worker, suspend_worker_credential
<1>5. announced' \in [DIDs -> Announcement \cup {None}]
  BY <1>1, <1>2, <1>3 DEF EventInv
<1>6. ASSUME NEW d \in DIDs, announced'[d] # None, announced'[d].held
      PROVE  \E a \in Accounts :
                /\ WorkerDIDs'[a] # None
                /\ WorkerDIDs'[a].did = d
                /\ WorkerDIDs'[a].status = Suspended(announced'[d].until)
  <2>1. CASE d = e
    <3>1. announced'[d] = note
      BY <1>1, <1>3, <2>1 DEF EventInv
    <3>2. PICK a \in Accounts : a \in Holders(e)
      <4> HIDE DEF until, held
      <4>1. note.held = held
        OBVIOUS
      <4>2. held
        BY <1>6, <3>1, <4>1
      <4> QED
        BY <4>2 DEF held, Holders
    <3> HIDE DEF until, held
    <3>6. announced'[d].until = until
      BY <3>1
    <3> USE DEF until
    <3> DEFINE suspended == [WorkerDIDs[a] EXCEPT !.status = Suspended(until)]
    <3>3. WorkerDIDs[a] \in WorkerDID /\ WorkerDIDs[a].did = e
      BY <3>2 DEF Holders, EventInv, KiltInv, KiltTypeOK
    <3>4. suspended \in WorkerDID /\ suspended.did = e /\ suspended.status = Suspended(until)
      BY <1>1, <3>3 DEF WorkerDID, Suspended, CredentialStatus
    <3>5. suspended # None /\ WorkerDIDs'[a] = suspended
      BY <1>4, <3>2, <3>4, KiltAssumption
    <3> QED
      BY <2>1, <3>4, <3>5, <3>6
  <2>2. CASE d # e
    <3>1. announced'[d] = announced[d]
      BY <1>1, <1>3, <2>2 DEF EventInv
    <3>2. PICK a \in Accounts :
             /\ WorkerDIDs[a] # None
             /\ WorkerDIDs[a].did = d
             /\ WorkerDIDs[a].status = Suspended(announced[d].until)
      BY <1>6, <3>1 DEF EventInv, StatusAsAnnounced
    <3>3. WorkerDIDs'[a] = WorkerDIDs[a]
      BY <1>4, <2>2, <3>2 DEF Holders
    <3> QED
      BY <3>1, <3>2, <3>3
  <2> QED
    BY <2>1, <2>2
<1> QED
  BY <1>5, <1>6 DEF StatusAsAnnounced

(* Every other call leaves the status of the registered workers alone. *)
LEMMA SilentStatus ==
    ASSUME EventInv, Silent
    PROVE  announced' \in [DIDs -> Announcement \cup {None}] /\ StatusAsAnnounced'
<1>1. announced' = announced
  BY DEF Silent
<1>2. ASSUME NEW a \in Accounts, WorkerDIDs[a] # None
      PROVE  WorkerDIDs'[a] = WorkerDIDs[a]
  <2>1. CASE UNCHANGED WorkerDIDs
    BY <2>1
  <2>2. ASSUME NEW who \in Accounts, create_worker_did(who)
        PROVE  WorkerDIDs'[a] = WorkerDIDs[a]
    BY <1>2, <2>2 DEF create_worker_did, EventInv, KiltInv, KiltTypeOK
  <2> QED
    BY <2>1, <2>2 DEF Silent, KiltSigned, next_block, set_governance_did,
                      issue_worker_credential, revoke_worker_credential
<1>3. StatusAsAnnounced'
  <2> SUFFICES ASSUME NEW d \in DIDs, announced[d] # None, announced[d].held
               PROVE  \E a \in Accounts :
                         /\ WorkerDIDs'[a] # None
                         /\ WorkerDIDs'[a].did = d
                         /\ WorkerDIDs'[a].status = Suspended(announced[d].until)
    BY <1>1 DEF StatusAsAnnounced
  <2>1. PICK a \in Accounts :
           /\ WorkerDIDs[a] # None
           /\ WorkerDIDs[a].did = d
           /\ WorkerDIDs[a].status = Suspended(announced[d].until)
    BY DEF EventInv, StatusAsAnnounced
  <2> QED
    BY <1>2, <2>1
<1> QED
  BY <1>1, <1>3 DEF EventInv

(* The invariant of the pallet and its observer holds in every state. *)
THEOREM EventInvariance == EventSpec => []EventInv
<1>1. EventInit => EventInv
  BY KiltInitInv DEF EventInit, EventInv, StatusAsAnnounced
<1>2. EventInv /\ [EventNext]_eventVars => EventInv'
  <2> SUFFICES ASSUME EventInv, [EventNext]_eventVars PROVE EventInv'
    OBVIOUS
  <2>1. KiltInv'
    BY EventStepIsKilt, KiltNextInv DEF EventInv
  <2>2. announced' \in [DIDs -> Announcement \cup {None}] /\ StatusAsAnnounced'
    <3>1. CASE UNCHANGED eventVars
      BY <3>1 DEF eventVars, kiltVars, EventInv, StatusAsAnnounced
    <3> QED
      BY <3>1, SuspendStatus, SilentStatus DEF EventNext
  <2> QED
    BY <2>1, <2>2 DEF EventInv
<1> QED
  BY <1>1, <1>2, PTL DEF EventSpec

(* Until the announced block is over, a DID that was held when its           *)
(* suspension was announced fails verify_worker_credential.                  *)
THEOREM AnnouncedHeldSuspensionBinds == EventSpec => []HeldSuspensionBinds
<1>1. EventInv => HeldSuspensionBinds
  <2> SUFFICES ASSUME EventInv, NEW d \in DIDs, Announced(d), announced[d].held
               PROVE  ~verify_worker_credential(d)
    BY DEF HeldSuspensionBinds
  <2>1. PICK a \in Accounts :
           /\ WorkerDIDs[a] # None
           /\ WorkerDIDs[a].did = d
           /\ WorkerDIDs[a].status = Suspended(announced[d].until)
    BY DEF Announced, EventInv, StatusAsAnnounced
  <2>2. a \in Holders(d) /\ InSuspension(a)
    BY <2>1 DEF Announced, Holders, InSuspension, Suspended
  <2> QED
    BY <2>2 DEF verify_worker_credential
<1> QED
  BY <1>1, EventInvariance, PTL
=============================================================================
