------------------------------ MODULE MCParties ------------------------------
(***************************************************************************)
(* Finite instances of the components that several parties, devices or     *)
(* requests act on.  They share no state, so one run checks each of them   *)
(* on its own: focus says which of them moves.                             *)
(***************************************************************************)
EXTENDS Ownership, MaintainerApproval, Sessions, Authorizations, Replay

VARIABLE focus

PartiesInit ==
  /\ focus \in {"ownership", "approval", "sessions", "authorizations", "replay"}
  /\ OwnershipInit /\ ApprovalInit /\ SessionInit /\ AuthorizationInit /\ ReplayInit

PartiesNext ==
  /\ UNCHANGED focus
  /\ \/ /\ focus = "ownership" /\ OwnershipNext
        /\ UNCHANGED <<approvalVars, sessionVars, authorizationVars, replayVars>>
     \/ /\ focus = "approval" /\ ApprovalNext
        /\ UNCHANGED <<ownershipVars, sessionVars, authorizationVars, replayVars>>
     \/ /\ focus = "sessions" /\ SessionNext
        /\ UNCHANGED <<ownershipVars, approvalVars, authorizationVars, replayVars>>
     \/ /\ focus = "authorizations" /\ AuthorizationNext
        /\ UNCHANGED <<ownershipVars, approvalVars, sessionVars, replayVars>>
     \/ /\ focus = "replay" /\ ReplayNext
        /\ UNCHANGED <<ownershipVars, approvalVars, sessionVars, authorizationVars>>

(* Runs that skip what they cannot apply and stage, and runs that promote. *)
MCRunOptions == {<<TRUE, FALSE>>, <<FALSE, TRUE>>}

(* No definition tells devices, runs or the synchronised values apart. *)
Alike == Permutations(Devices) \cup Permutations(Replays) \cup Permutations(StateValues)
=============================================================================
