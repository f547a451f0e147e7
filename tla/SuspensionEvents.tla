------------------------- MODULE SuspensionEvents --------------------------
(***************************************************************************)
(* An observer of pallet-qx-kilt-permissions that follows its events, as    *)
(* an indexer or an operator does: announced[d] is the last                 *)
(* WorkerSuspended { did: d, until } event and whether an account held d    *)
(* when it was deposited.                                                   *)
(***************************************************************************)
EXTENDS KiltPermissions

VARIABLE announced

Announcement == [until : Blocks, held : BOOLEAN]

ASSUME EventAssumption == None \notin Announcement

eventVars == <<kiltVars, announced>>

EventInit == KiltInit /\ announced = [d \in DIDs |-> None]

(* suspend_worker deposits the event whether or not it found a worker. *)
SuspendAndAnnounce(d, duration) ==
    /\ suspend_worker(d, duration)
    /\ announced' = [announced EXCEPT ![d] =
          [until |-> saturating_add(block_number,
                        IF duration = None THEN WorkerSuspensionPeriod ELSE duration),
           held |-> Holders(d) # {}]]

Silent ==
    /\ \/ next_block
       \/ KiltSigned
       \/ \E did \in GovernanceDIDs : set_governance_did(did)
       \/ \E d \in SubjectDIDs, p \in ValidityPeriods : issue_worker_credential(d, p)
       \/ \E d \in SubjectDIDs : revoke_worker_credential(d)
    /\ UNCHANGED announced

EventNext ==
    \/ \E d \in SubjectDIDs, p \in Durations : SuspendAndAnnounce(d, p)
    \/ Silent

EventSpec == EventInit /\ [][EventNext]_eventVars

-----------------------------------------------------------------------------

Announced(d) == announced[d] # None /\ block_number <= announced[d].until

(* An announced suspension of a DID that an account held binds: until the    *)
(* announced block is over the DID does not verify, whatever root issues,    *)
(* revokes or re-issues and whatever the worker calls meanwhile.             *)
HeldSuspensionBinds ==
    \A d \in DIDs : Announced(d) /\ announced[d].held => ~verify_worker_credential(d)

(* What docs/api-reference.md:300 says of suspend_worker, "Temporarily        *)
(* suspend a worker's credential": while an announced suspension lasts, the   *)
(* DID of a registered worker does not verify.                                *)
AnnouncedSuspensionBinds ==
    \A d \in DIDs :
        Announced(d) /\ Holders(d) # {} => ~verify_worker_credential(d)

=============================================================================
