---------------------------- MODULE Authorizations ----------------------------
(***************************************************************************)
(* Delegated, time-boxed authorizations (core/authorizations/store.ts).    *)
(*                                                                         *)
(* Every call is one step, and changes nothing when the audit trail        *)
(* refuses its event.  Time is the step in which an authorization expires, *)
(* and the one in which its grace period ends; it answers for one scope    *)
(* and resource.  Calls an actor may not make change nothing and are left  *)
(* out.                                                                    *)
(***************************************************************************)
EXTENDS Naturals, FiniteSets

CONSTANTS
  Grants,       \* authorization ids
  Grantors,
  Grantees,
  MaxRenewals   \* bound on how often one is renewed

ASSUME AuthorizationConstants == MaxRenewals \in Nat

VARIABLES
  grants,    \* grants[g]: who to whom, its status, and how far its time has run
  entitled,  \* the grantors that hold the scope themselves (canDelegate)
  recorded   \* recorded[g]: the last change the audit trail accepted for g

authorizationVars == <<grants, entitled, recorded>>

NoGrant == [status |-> "none"]
Granted(g) == grants[g] # NoGrant
-----------------------------------------------------------------------------
(* authorizationState *)
State(g) ==
  IF grants[g].status # "active" THEN grants[g].status
  ELSE IF grants[g].time # "running" THEN "expired"
  ELSE IF grants[g].renewals > 0 THEN "renewed" ELSE "active"

Usable(g) == Granted(g) /\ State(g) \in {"active", "renewed"}

(* authorize: the authorizations it answers a grantee with. *)
Authorizes(grantee) == {g \in Grants : Usable(g) /\ grants[g].to = grantee /\ grants[g].from \in entitled}

(* Mutant: the change is made whether or not it was recorded. *)
AppliesAnyway(g, change, next, audited) ==
  /\ grants' = [grants EXCEPT ![g] = next]
  /\ recorded' = IF audited THEN [recorded EXCEPT ![g] = change] ELSE recorded
  /\ UNCHANGED entitled

(* The audit event first; a refused one ends the call. *)
Applies(g, change, next, audited) ==
  /\ audited
  /\ grants' = [grants EXCEPT ![g] = next]
  /\ recorded' = [recorded EXCEPT ![g] = change]
  /\ UNCHANGED entitled

Grant(g, from, to, audited) ==
  /\ ~Granted(g) /\ from \in entitled
  /\ Applies(g, "granted", [status |-> "active", from |-> from, to |-> to, time |-> "running", renewals |-> 0], audited)

Renewable(g) == State(g) \notin {"revoked", "cleaned"} /\ grants[g].time # "over"

Renew(g, audited) ==
  /\ Granted(g) /\ Renewable(g) /\ grants[g].renewals < MaxRenewals
  /\ Applies(g, "renewed", [grants[g] EXCEPT !.time = "running", !.renewals = @ + 1], audited)

Revoke(g, audited) ==
  /\ Granted(g) /\ State(g) \notin {"revoked", "cleaned"}
  /\ Applies(g, "revoked", [grants[g] EXCEPT !.status = "revoked"], audited)

Cleanable(g) == Granted(g) /\ State(g) = "expired" /\ grants[g].time = "over"

(* cleanup: all that is due, but for those the audit trail skips. *)
Cleanup(skipped) ==
  LET cleaned == {g \in Grants : Cleanable(g)} \ skipped
  IN /\ grants' = [g \in Grants |-> IF g \in cleaned THEN [grants[g] EXCEPT !.status = "cleaned"] ELSE grants[g]]
     /\ recorded' = [g \in Grants |-> IF g \in cleaned THEN "cleaned" ELSE recorded[g]]
     /\ UNCHANGED entitled

GrantAges(g) ==
  /\ Granted(g) /\ grants[g].time # "over"
  /\ grants' = [grants EXCEPT ![g].time = IF @ = "running" THEN "grace" ELSE "over"]
  /\ UNCHANGED <<entitled, recorded>>

EntitlementChanges(from) ==
  /\ entitled' = IF from \in entitled THEN entitled \ {from} ELSE entitled \cup {from}
  /\ UNCHANGED <<grants, recorded>>

AuthorizationInit ==
  /\ grants = [g \in Grants |-> NoGrant]
  /\ entitled = Grantors
  /\ recorded = [g \in Grants |-> "none"]

AuthorizationNext ==
  \/ \E g \in Grants, audited \in BOOLEAN :
       \/ \E from \in Grantors, to \in Grantees : Grant(g, from, to, audited)
       \/ Renew(g, audited) \/ Revoke(g, audited)
  \/ \E skipped \in SUBSET Grants : Cleanup(skipped)
  \/ \E g \in Grants : GrantAges(g)
  \/ \E from \in Grantors : EntitlementChanges(from)

AuthorizationSpec == AuthorizationInit /\ [][AuthorizationNext]_authorizationVars

-----------------------------------------------------------------------------
(***************************************************************************)
(* No change without a record: what an authorization is, is what the last  *)
(* audit event for it says, whatever events the audit trail refused (the   *)
(* record option: "behaves as if the audit trail rejected the event and    *)
(* applies nothing"); and who is authorized has a grant whose last         *)
(* recorded change is that it was given or renewed (authorize).            *)
(***************************************************************************)
ChangesAreRecorded ==
  /\ \A grantee \in Grantees : \A g \in Authorizes(grantee) : recorded[g] \in {"granted", "renewed"}
  /\ \A g \in Grants :
       /\ recorded[g] = "none" <=> ~Granted(g)
       /\ Granted(g) => CASE recorded[g] = "granted" -> grants[g].status = "active" /\ grants[g].renewals = 0
                          [] recorded[g] = "renewed" -> grants[g].status = "active" /\ grants[g].renewals > 0
                          [] OTHER -> grants[g].status = recorded[g]
=============================================================================
