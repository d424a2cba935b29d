---------------------------- MODULE PartiesProofs ----------------------------
(***************************************************************************)
(* What is proved of the components that several parties act on, for any   *)
(* number of parties, records and concurrent calls.                        *)
(***************************************************************************)
EXTENDS MaintainerApproval, Authorizations, OperationBrowser, LookupHook, FiniteSetTheorems, SequenceTheorems, TLAPS

(***************************************************************************)
(* Signed intents.  Beside its types, the invariant says that nobody has   *)
(* signed twice, that an intent past its approval has the signatures it    *)
(* requires, that its status tells whether its handler was called, and     *)
(* that an intent is executing for one execution only.                     *)
(***************************************************************************)
Intent == [status : {"absent", "pending", "approved", "expired", "executing", "executed", "failed"},
           required : Nat, signatures : Seq(Maintainers)]

ApprovalTypes ==
  /\ intents \in [Intents -> Intent]
  /\ executing \in [Executions -> Intents \cup {NotExecuting}]
  /\ handled \in [Intents -> Nat]
  /\ receipts \in [Intents -> {"none", "executed", "failed"}]

SignedOnce(signatures) == \A a, b \in 1..Len(signatures) : signatures[a] = signatures[b] => a = b

IntentHolds(i) ==
  /\ SignedOnce(intents[i].signatures)
  /\ intents[i].status \in {"approved", "executing", "executed", "failed"} =>
       Len(intents[i].signatures) >= intents[i].required
  /\ handled[i] = IF intents[i].status \in {"executing", "executed", "failed"} THEN 1 ELSE 0
  /\ intents[i].status = "failed" => receipts[i] # "none"

OneExecution ==
  /\ \A e \in Executions : executing[e] # NotExecuting => intents[executing[e]].status = "executing"
  /\ \A e, f \in Executions : executing[e] # NotExecuting /\ executing[e] = executing[f] => e = f

ApprovalInv == ApprovalTypes /\ OneExecution /\ \A i \in Intents : IntentHolds(i)

(* As many have signed as there are signatures, when nobody has signed twice. *)
LEMMA SignersCounted ==
  ASSUME NEW signatures \in Seq(Maintainers), SignedOnce(signatures)
  PROVE  Cardinality(Range(signatures)) = Len(signatures)
<1>1. Len(signatures) \in Nat /\ DOMAIN signatures = 1..Len(signatures)
  OBVIOUS
<1>2. Range(signatures) = {signatures[a] : a \in 1..Len(signatures)}
  BY <1>1 DEF Range
<1>3. signatures \in Bijection(1..Len(signatures), Range(signatures))
  BY <1>1, <1>2 DEF Bijection, Injection, Surjection, IsInjective, SignedOnce
<1>4. ExistsBijection(1..Len(signatures), Range(signatures))
  BY <1>3 DEF ExistsBijection
<1>. QED BY <1>1, <1>4, FS_CountingElements

(* One more signature, of someone who has not signed (signIntent). *)
LEMMA AnotherSigner ==
  ASSUME NEW signatures \in Seq(Maintainers), SignedOnce(signatures),
         NEW m \in Maintainers, m \notin Range(signatures)
  PROVE  /\ Append(signatures, m) \in Seq(Maintainers)
         /\ Len(Append(signatures, m)) = Len(signatures) + 1
         /\ SignedOnce(Append(signatures, m))
<1>1. \A a \in 1..Len(signatures) : signatures[a] # m
  BY DEF Range
<1>2. \A a \in 1..Len(Append(signatures, m)) :
        Append(signatures, m)[a] = IF a \in 1..Len(signatures) THEN signatures[a] ELSE m
  OBVIOUS
<1>3. Len(Append(signatures, m)) = Len(signatures) + 1 /\ Len(signatures) \in Nat
  OBVIOUS
<1>4. SignedOnce(Append(signatures, m))
  BY <1>1, <1>2, <1>3 DEF SignedOnce
<1>. QED BY <1>3, <1>4

(* A step that changes one intent, and no execution, keeps the invariant if that intent keeps to it. *)
LEMMA OneIntentMoves ==
  ASSUME ApprovalInv, NEW i \in Intents, NEW next \in Intent,
         intents' = [intents EXCEPT ![i] = next],
         UNCHANGED <<executing, handled, receipts>>,
         intents[i].status # "executing", IntentHolds(i)'
  PROVE  ApprovalInv'
<1>1. intents'[i] = next /\ \A j \in Intents \ {i} : intents'[j] = intents[j]
  BY DEF ApprovalInv, ApprovalTypes
<1>2. ApprovalTypes'
  BY <1>1 DEF ApprovalInv, ApprovalTypes
<1>3. OneExecution'
  BY <1>1 DEF ApprovalInv, ApprovalTypes, OneExecution
<1>4. \A j \in Intents \ {i} : IntentHolds(j)'
  BY <1>1 DEF ApprovalInv, IntentHolds
<1>. QED BY <1>2, <1>3, <1>4 DEF ApprovalInv

(* An intent that was not executed may expire. *)
LEMMA IntentExpires ==
  ASSUME ApprovalInv, NEW i \in Intents, intents[i].status \notin {"executing", "executed", "failed"},
         intents' = [intents EXCEPT ![i].status = "expired"],
         UNCHANGED <<executing, handled, receipts>>
  PROVE  ApprovalInv'
<1>. DEFINE next == [intents[i] EXCEPT !.status = "expired"]
<1>0. intents[i] \in Intent /\ intents \in [Intents -> Intent] /\ IntentHolds(i)
  BY DEF ApprovalInv, ApprovalTypes
<1>1. next \in Intent /\ next.status = "expired" /\ next.signatures = intents[i].signatures
  BY <1>0 DEF Intent
<1>2. intents' = [intents EXCEPT ![i] = next] /\ intents'[i] = next
  BY <1>0
<1>. HIDE DEF next
<1>3. IntentHolds(i)'
  BY <1>0, <1>1, <1>2 DEF IntentHolds
<1>. QED BY <1>1, <1>2, <1>3, OneIntentMoves, Zenon

LEMMA ProposeStep ==
  ASSUME ApprovalInv, NEW i \in Intents, NEW required \in Thresholds, ProposeIntent(i, required)
  PROVE  ApprovalInv'
<1>. DEFINE next == [status |-> "pending", required |-> required, signatures |-> <<>>]
<1>1. next \in Intent /\ next.status = "pending" /\ SignedOnce(next.signatures)
  BY ApprovalConstants DEF Intent, SignedOnce
<1>2. intents[i].status = "absent" /\ intents' = [intents EXCEPT ![i] = next] /\ intents'[i] = next
  BY DEF ProposeIntent, NoIntent, ApprovalInv, ApprovalTypes
<1>. HIDE DEF next
<1>3. IntentHolds(i)'
  BY <1>1, <1>2 DEF IntentHolds, ProposeIntent, ApprovalInv
<1>. QED BY <1>1, <1>2, <1>3, OneIntentMoves, Zenon DEF ProposeIntent

LEMMA SignStep ==
  ASSUME ApprovalInv, NEW i \in Intents, NEW m \in Maintainers, SignIntent(i, m)
  PROVE  ApprovalInv'
<1>1. CASE i \in overdue
  BY <1>1, IntentExpires DEF SignIntent
<1>2. CASE i \notin overdue
  <2>. DEFINE signed == Append(intents[i].signatures, m)
              status == IF Len(signed) >= intents[i].required THEN "approved" ELSE "pending"
              next == [status |-> status, required |-> intents[i].required, signatures |-> signed]
  <2>0. /\ intents[i] \in Intent /\ intents \in [Intents -> Intent] /\ IntentHolds(i)
        /\ intents[i].signatures \in Seq(Maintainers) /\ intents[i].required \in Nat
        /\ intents[i].status = "pending" /\ m \notin Range(intents[i].signatures)
    BY <1>2 DEF ApprovalInv, ApprovalTypes, Intent, SignIntent, NotSignedBy
  <2>1. signed \in Seq(Maintainers) /\ SignedOnce(signed) /\ Len(signed) \in Nat
    BY <2>0, AnotherSigner DEF IntentHolds
  <2>2. intents' = [intents EXCEPT ![i] = next]
    BY <1>2, <2>0 DEF SignIntent, Intent
  <2>3. status \in {"approved", "pending"} /\ (status = "approved" => Len(signed) >= intents[i].required)
    OBVIOUS
  <2>. HIDE DEF signed, status
  <2>4. next \in Intent
    BY <2>0, <2>1, <2>3 DEF Intent
  <2>5. intents'[i] = next
    BY <2>0, <2>2
  <2>6. IntentHolds(i)'
    BY <2>0, <2>1, <2>3, <2>5 DEF IntentHolds, SignIntent
  <2>. QED BY <2>0, <2>2, <2>4, <2>6, OneIntentMoves, Zenon DEF SignIntent
<1>. QED BY <1>1, <1>2

(* The intent is marked before its handler is called, so no second execution finds it approved (executeIntent). *)
LEMMA ExecuteStep ==
  ASSUME ApprovalInv, NEW i \in Intents, NEW e \in Executions, ExecuteIntent(e, i)
  PROVE  ApprovalInv'
<1>. DEFINE next == [intents[i] EXCEPT !.status = "executing"]
<1>0. /\ intents[i] \in Intent /\ IntentHolds(i) /\ intents[i].status = "approved"
      /\ handled[i] = 0 /\ executing[e] = NotExecuting
  BY DEF ApprovalInv, ApprovalTypes, ExecuteIntent, IntentHolds
<1>1. /\ next \in Intent /\ next.status = "executing"
      /\ next.signatures = intents[i].signatures /\ next.required = intents[i].required
  BY <1>0 DEF Intent
<1>2. intents'[i] = next /\ \A j \in Intents \ {i} : intents'[j] = intents[j]
  BY DEF ExecuteIntent, ApprovalInv, ApprovalTypes
<1>. HIDE DEF next
<1>3. executing'[e] = i /\ \A f \in Executions \ {e} : executing'[f] = executing[f]
  BY DEF ExecuteIntent, ApprovalInv, ApprovalTypes
<1>4. handled'[i] = 1 /\ \A j \in Intents \ {i} : handled'[j] = handled[j]
  BY <1>0 DEF ExecuteIntent, ApprovalInv, ApprovalTypes
<1>5. ApprovalTypes'
  BY <1>1, <1>2, <1>3, <1>4 DEF ExecuteIntent, ApprovalInv, ApprovalTypes
<1>6. \A f \in Executions : executing[f] # i
  BY <1>0, ApprovalConstants DEF ApprovalInv, OneExecution, NotExecuting
<1>7. OneExecution'
  BY <1>1, <1>2, <1>3, <1>6, ApprovalConstants DEF ApprovalInv, ApprovalTypes, OneExecution, NotExecuting
<1>8. IntentHolds(i)'
  BY <1>0, <1>1, <1>2, <1>4 DEF IntentHolds
<1>9. \A j \in Intents \ {i} : IntentHolds(j)'
  BY <1>2, <1>4 DEF ApprovalInv, IntentHolds, ExecuteIntent
<1>. QED BY <1>5, <1>7, <1>8, <1>9 DEF ApprovalInv

LEMMA SettlesStep ==
  ASSUME ApprovalInv, NEW e \in Executions, NEW status \in {"executed", "failed"}, HandlerSettles(e, status)
  PROVE  ApprovalInv'
<1>a. PICK i \in Intents : i = executing[e]
  BY DEF HandlerSettles, ApprovalInv, ApprovalTypes
<1>. DEFINE next == [intents[i] EXCEPT !.status = status]
<1>0. intents[i] \in Intent /\ IntentHolds(i) /\ intents[i].status = "executing"
  BY <1>a DEF HandlerSettles, ApprovalInv, ApprovalTypes, OneExecution
<1>1. /\ next \in Intent /\ next.status = status
      /\ next.signatures = intents[i].signatures /\ next.required = intents[i].required
  BY <1>0 DEF Intent
<1>2. intents'[i] = next /\ \A j \in Intents \ {i} : intents'[j] = intents[j]
  BY <1>a DEF HandlerSettles, ApprovalInv, ApprovalTypes
<1>3. executing'[e] = NotExecuting /\ \A f \in Executions \ {e} : executing'[f] = executing[f] /\ executing[f] # i
  BY <1>a DEF HandlerSettles, ApprovalInv, ApprovalTypes, OneExecution
<1>4. receipts'[i] = status /\ \A j \in Intents \ {i} : receipts'[j] = receipts[j]
  BY <1>a DEF HandlerSettles, ApprovalInv, ApprovalTypes
<1>. HIDE DEF next
<1>5. ApprovalTypes'
  BY <1>0, <1>1, <1>2, <1>3, <1>4 DEF HandlerSettles, ApprovalInv, ApprovalTypes
<1>6. OneExecution'
  BY <1>0, <1>2, <1>3 DEF ApprovalInv, ApprovalTypes, OneExecution
<1>7. IntentHolds(i)'
  BY <1>0, <1>1, <1>2, <1>4 DEF IntentHolds, HandlerSettles
<1>8. \A j \in Intents \ {i} : IntentHolds(j)'
  BY <1>2, <1>4, Zenon DEF ApprovalInv, IntentHolds, HandlerSettles
<1>. QED BY <1>5, <1>6, <1>7, <1>8 DEF ApprovalInv

LEMMA ApprovalStep == ApprovalInv /\ [ApprovalNext]_approvalVars => ApprovalInv'
<1>. SUFFICES ASSUME ApprovalInv, [ApprovalNext]_approvalVars PROVE ApprovalInv'
  OBVIOUS
<1>1. ASSUME UNCHANGED <<intents, executing, handled, receipts>> PROVE ApprovalInv'
  BY <1>1 DEF ApprovalInv, ApprovalTypes, OneExecution, IntentHolds
<1>2. ASSUME NEW i \in Intents, ExecuteOverdue(i) PROVE ApprovalInv'
  BY <1>2, IntentExpires, Zenon DEF ExecuteOverdue
<1>3. ASSUME NEW i \in Intents, VerifyProtectedAction(i) PROVE ApprovalInv'
  <2>1. intents[i].status \notin {"executing", "executed", "failed"}
    BY <1>3 DEF VerifyProtectedAction, ApprovalInv, IntentHolds
  <2>. QED BY <1>3, <2>1, IntentExpires, Zenon DEF VerifyProtectedAction
<1>4. ASSUME NEW i \in Intents, IntentLapses(i) PROVE ApprovalInv'
  BY <1>1, <1>4 DEF IntentLapses
<1>5. CASE UNCHANGED approvalVars
  BY <1>1, <1>5 DEF approvalVars
<1>. QED BY <1>2, <1>3, <1>4, <1>5, ProposeStep, SignStep, ExecuteStep, SettlesStep DEF ApprovalNext

(***************************************************************************)
(* An approval is used once: however many executions overlap, the handler  *)
(* of an intent is called at most once, and only when as many different    *)
(* maintainers as it requires have signed, for every threshold and any     *)
(* number of maintainers (executeIntent, signIntent).                      *)
(***************************************************************************)
THEOREM ApprovedOnce == ApprovalSpec => []HandledOnce
<1>1. ApprovalInit => ApprovalInv
  <2>. SUFFICES ASSUME ApprovalInit PROVE ApprovalInv
    OBVIOUS
  <2>1. NoIntent \in Intent /\ NoIntent.status = "absent" /\ SignedOnce(NoIntent.signatures)
    BY DEF NoIntent, Intent, SignedOnce
  <2>. QED BY <2>1 DEF ApprovalInit, ApprovalInv, ApprovalTypes, OneExecution, IntentHolds
<1>2. ApprovalInv => HandledOnce
  <2>. SUFFICES ASSUME ApprovalInv, NEW i \in Intents
                PROVE  /\ handled[i] <= 1
                       /\ handled[i] = 1 => Cardinality(Range(intents[i].signatures)) >= intents[i].required
    BY DEF HandledOnce
  <2>1. IntentHolds(i) /\ intents[i].signatures \in Seq(Maintainers)
    BY DEF ApprovalInv, ApprovalTypes, Intent
  <2>2. Cardinality(Range(intents[i].signatures)) = Len(intents[i].signatures)
    BY <2>1, SignersCounted DEF IntentHolds
  <2>. QED BY <2>1, <2>2 DEF IntentHolds
<1>. QED BY <1>1, <1>2, ApprovalStep, PTL DEF ApprovalSpec

-----------------------------------------------------------------------------
(***************************************************************************)
(* Authorizations: what one is and what is recorded of it move together.   *)
(***************************************************************************)
GrantRecord == [status : {"active", "revoked", "cleaned"}, from : Grantors, to : Grantees,
                time : {"running", "grace", "over"}, renewals : Nat]

RecordedAs(grant, change) ==
  \/ change = "granted" /\ grant.status = "active" /\ grant.renewals = 0
  \/ change = "renewed" /\ grant.status = "active" /\ grant.renewals > 0
  \/ change \in {"revoked", "cleaned"} /\ grant.status = change

Recorded(g) ==
  \/ grants[g] = NoGrant /\ recorded[g] = "none"
  \/ grants[g] \in GrantRecord /\ RecordedAs(grants[g], recorded[g])

AuthorizationInv ==
  /\ grants \in [Grants -> GrantRecord \cup {NoGrant}]
  /\ recorded \in [Grants -> {"none", "granted", "renewed", "revoked", "cleaned"}]
  /\ entitled \subseteq Grantors
  /\ \A g \in Grants : Recorded(g)

LEMMA GrantedRecord ==
  ASSUME NEW g \in Grants, Recorded(g)
  PROVE  /\ Granted(g) <=> grants[g] \in GrantRecord
         /\ Granted(g) => RecordedAs(grants[g], recorded[g])
<1>1. grants[g] \in GrantRecord => grants[g].status # NoGrant.status
  BY DEF GrantRecord, NoGrant
<1>. QED BY <1>1 DEF Recorded, Granted

(* One authorization changes, with the record that says so. *)
LEMMA OneGrantMoves ==
  ASSUME AuthorizationInv, NEW g \in Grants, NEW next \in GrantRecord, NEW change, RecordedAs(next, change),
         grants' = [grants EXCEPT ![g] = next], recorded' = [recorded EXCEPT ![g] = change], UNCHANGED entitled
  PROVE  AuthorizationInv'
<1>1. grants'[g] = next /\ recorded'[g] = change
  BY DEF AuthorizationInv
<1>2. \A h \in Grants \ {g} : grants'[h] = grants[h] /\ recorded'[h] = recorded[h]
  BY DEF AuthorizationInv
<1>3. Recorded(g)'
  BY <1>1 DEF Recorded
<1>4. \A h \in Grants \ {g} : Recorded(h)'
  BY <1>2 DEF AuthorizationInv, Recorded
<1>5. change \in {"granted", "renewed", "revoked", "cleaned"}
  BY DEF RecordedAs
<1>. QED BY <1>3, <1>4, <1>5 DEF AuthorizationInv

LEMMA AuthorizationStep == AuthorizationInv /\ [AuthorizationNext]_authorizationVars => AuthorizationInv'
<1>. SUFFICES ASSUME AuthorizationInv, [AuthorizationNext]_authorizationVars PROVE AuthorizationInv'
  OBVIOUS
<1>1. ASSUME NEW g \in Grants, NEW audited \in BOOLEAN, NEW from \in Grantors, NEW to \in Grantees,
             Grant(g, from, to, audited)
      PROVE  AuthorizationInv'
  <2>. DEFINE next == [status |-> "active", from |-> from, to |-> to, time |-> "running", renewals |-> 0]
  <2>1. next \in GrantRecord /\ RecordedAs(next, "granted")
    BY DEF GrantRecord, RecordedAs
  <2>2. grants' = [grants EXCEPT ![g] = next] /\ recorded' = [recorded EXCEPT ![g] = "granted"] /\ UNCHANGED entitled
    BY <1>1 DEF Grant, Applies
  <2>. HIDE DEF next
  <2>. QED BY <2>1, <2>2, OneGrantMoves, Zenon
<1>2. ASSUME NEW g \in Grants, NEW audited \in BOOLEAN, Renew(g, audited) PROVE AuthorizationInv'
  <2>. DEFINE next == [grants[g] EXCEPT !.time = "running", !.renewals = @ + 1]
  <2>1. grants[g] \in GrantRecord /\ grants[g].status = "active"
    <3>1. grants[g] \in GrantRecord /\ State(g) \notin {"revoked", "cleaned"}
      BY <1>2, GrantedRecord DEF Renew, Renewable, AuthorizationInv
    <3>. QED BY <3>1 DEF State, GrantRecord
  <2>2. next \in GrantRecord /\ RecordedAs(next, "renewed")
    <3>1. ASSUME NEW r \in GrantRecord, r.status = "active"
          PROVE  LET n == [r EXCEPT !.time = "running", !.renewals = @ + 1]
                 IN n \in GrantRecord /\ n.status = "active" /\ n.renewals = r.renewals + 1 /\ r.renewals \in Nat
      <4>1. r.renewals \in Nat /\ r.renewals + 1 \in Nat
        BY DEF GrantRecord
      <4>. DEFINE k == r.renewals + 1
      <4>. HIDE DEF k
      <4>2. ASSUME k \in Nat PROVE LET n == [r EXCEPT !.time = "running", !.renewals = k]
                 IN n \in GrantRecord /\ n.status = "active" /\ n.renewals = k
        BY <3>1, <4>2, Zenon DEF GrantRecord
      <4>. QED BY <4>1, <4>2 DEF k
    <3>2. /\ next \in GrantRecord /\ next.status = "active"
          /\ next.renewals = grants[g].renewals + 1 /\ grants[g].renewals \in Nat
      BY <2>1, <3>1, Zenon
    <3>. HIDE DEF next
    <3>. QED BY <3>2 DEF RecordedAs
  <2>3. grants' = [grants EXCEPT ![g] = next] /\ recorded' = [recorded EXCEPT ![g] = "renewed"] /\ UNCHANGED entitled
    BY <1>2 DEF Renew, Applies
  <2>. HIDE DEF next
  <2>. QED BY <2>2, <2>3, OneGrantMoves, Zenon
<1>3. ASSUME NEW g \in Grants, NEW audited \in BOOLEAN, Revoke(g, audited) PROVE AuthorizationInv'
  <2>. DEFINE next == [grants[g] EXCEPT !.status = "revoked"]
  <2>1. grants[g] \in GrantRecord
    BY <1>3, GrantedRecord DEF Revoke, AuthorizationInv
  <2>2. next \in GrantRecord /\ RecordedAs(next, "revoked")
    BY <2>1 DEF GrantRecord, RecordedAs
  <2>3. grants' = [grants EXCEPT ![g] = next] /\ recorded' = [recorded EXCEPT ![g] = "revoked"] /\ UNCHANGED entitled
    BY <1>3 DEF Revoke, Applies
  <2>. HIDE DEF next
  <2>. QED BY <2>2, <2>3, OneGrantMoves, Zenon
<1>4. ASSUME NEW skipped \in SUBSET Grants, Cleanup(skipped) PROVE AuthorizationInv'
  <2>1. ASSUME NEW g \in Grants PROVE Recorded(g)'
    <3>. DEFINE next == [grants[g] EXCEPT !.status = "cleaned"]
    <3>1. \/ grants'[g] = grants[g] /\ recorded'[g] = recorded[g]
          \/ Granted(g) /\ grants'[g] = next /\ recorded'[g] = "cleaned"
      BY <1>4 DEF Cleanup, Cleanable
    <3>2. Granted(g) => next \in GrantRecord /\ next.status = "cleaned"
      BY GrantedRecord DEF AuthorizationInv, GrantRecord
    <3>. HIDE DEF next
    <3>. QED BY <3>1, <3>2 DEF Recorded, RecordedAs, AuthorizationInv
  <2>2. grants' \in [Grants -> GrantRecord \cup {NoGrant}]
    BY <1>4, <2>1 DEF Cleanup, Recorded
  <2>3. recorded' \in [Grants -> {"none", "granted", "renewed", "revoked", "cleaned"}]
    BY <1>4 DEF Cleanup, AuthorizationInv
  <2>. QED BY <1>4, <2>1, <2>2, <2>3 DEF Cleanup, AuthorizationInv
<1>5. ASSUME NEW g \in Grants, GrantAges(g) PROVE AuthorizationInv'
  <2>. DEFINE next == [grants[g] EXCEPT !.time = IF @ = "running" THEN "grace" ELSE "over"]
  <2>1. grants[g] \in GrantRecord /\ RecordedAs(grants[g], recorded[g])
    BY <1>5, GrantedRecord DEF GrantAges, AuthorizationInv
  <2>2. next \in GrantRecord /\ RecordedAs(next, recorded[g])
    BY <2>1 DEF GrantRecord, RecordedAs
  <2>3. grants' = [grants EXCEPT ![g] = next] /\ recorded' = [recorded EXCEPT ![g] = recorded[g]] /\ UNCHANGED entitled
    BY <1>5 DEF GrantAges, AuthorizationInv
  <2>. HIDE DEF next
  <2>. QED BY <2>2, <2>3, OneGrantMoves, Zenon
<1>6. ASSUME NEW from \in Grantors, EntitlementChanges(from) PROVE AuthorizationInv'
  BY <1>6 DEF EntitlementChanges, AuthorizationInv, Recorded
<1>7. CASE UNCHANGED authorizationVars
  BY <1>7 DEF authorizationVars, AuthorizationInv, Recorded
<1>. QED BY <1>1, <1>2, <1>3, <1>4, <1>5, <1>6, <1>7 DEF AuthorizationNext

(***************************************************************************)
(* No authorization changes without a record of it, and nobody is          *)
(* authorized but by a grant recorded as given or renewed, whichever       *)
(* events the audit trail refuses, for any grantors, grantees and number   *)
(* of renewals (grant, renew, revoke, cleanup, authorize).                 *)
(***************************************************************************)
THEOREM NoChangeUnrecorded == AuthorizationSpec => []ChangesAreRecorded
<1>1. AuthorizationInit => AuthorizationInv
  BY DEF AuthorizationInit, AuthorizationInv, Recorded
<1>2. AuthorizationInv => ChangesAreRecorded
  <2>. SUFFICES ASSUME AuthorizationInv PROVE ChangesAreRecorded
    OBVIOUS
  <2>1. ASSUME NEW grantee \in Grantees, NEW g \in Authorizes(grantee) PROVE recorded[g] \in {"granted", "renewed"}
    <3>1. g \in Grants /\ Granted(g) /\ State(g) \in {"active", "renewed"}
      BY DEF Authorizes, Usable
    <3>2. RecordedAs(grants[g], recorded[g]) /\ grants[g] \in GrantRecord
      BY <3>1, GrantedRecord DEF AuthorizationInv
    <3>. QED BY <3>1, <3>2 DEF State, RecordedAs, GrantRecord
  <2>2. ASSUME NEW g \in Grants
        PROVE  /\ recorded[g] = "none" <=> ~Granted(g)
               /\ Granted(g) => CASE recorded[g] = "granted" -> grants[g].status = "active" /\ grants[g].renewals = 0
                                  [] recorded[g] = "renewed" -> grants[g].status = "active" /\ grants[g].renewals > 0
                                  [] OTHER -> grants[g].status = recorded[g]
    <3>1. Recorded(g) /\ (Granted(g) => RecordedAs(grants[g], recorded[g]))
      BY GrantedRecord DEF AuthorizationInv
    <3>2. recorded[g] = "none" <=> ~Granted(g)
      <4>1. Granted(g) => recorded[g] # "none"
        BY <3>1 DEF RecordedAs
      <4>2. ~Granted(g) => recorded[g] = "none"
        BY <3>1, GrantedRecord DEF Recorded
      <4>. QED BY <4>1, <4>2
    <3>3. CASE Granted(g) /\ recorded[g] = "granted"
      BY <3>1, <3>2, <3>3 DEF RecordedAs
    <3>4. CASE Granted(g) /\ recorded[g] = "renewed"
      BY <3>1, <3>2, <3>4 DEF RecordedAs
    <3>5. CASE Granted(g) /\ recorded[g] \notin {"granted", "renewed"}
      <4>1. grants[g].status = recorded[g]
        BY <3>1, <3>5 DEF RecordedAs
      <4>. QED BY <3>2, <3>5, <4>1
    <3>. QED BY <3>2, <3>3, <3>4, <3>5
  <2>. QED BY <2>1, <2>2 DEF ChangesAreRecorded
<1>. QED BY <1>1, <1>2, AuthorizationStep, PTL DEF AuthorizationSpec

-----------------------------------------------------------------------------
(***************************************************************************)
(* OperationBrowser: a request that may still change the page is for the   *)
(* account last submitted, and goes on from a result that was shown.       *)
(***************************************************************************)
PageLimit == IF HistoryPages = 0 THEN 1 ELSE HistoryPages

PagedResult == [account : Accounts, pages : Nat, index : Nat, more : BOOLEAN, filter : Filters \cup {"all"}]

Good(r) == r \in PagedResult /\ r.index < r.pages /\ r.pages <= PageLimit

FirstRequest == [kind : {"first"}, account : Accounts, mounted : BOOLEAN]
OlderRequest == [kind : {"older"}, account : Accounts, from : PagedResult, mounted : BOOLEAN]
Shown == [status : {"success"}, result : PagedResult, paging : {"idle", "older", "newer"}]

HeldHolds ==
  \/ held \in Shown /\ Good(held.result) /\ held.result.account = lastAsked
  \/ held \in [status : {"idle", "error", "loading"}]

RequestHolds(c) ==
  \/ requests[c] = NoRequest
  \/ requests[c] \in FirstRequest /\ (requests[c].mounted => requests[c].account = lastAsked)
  \/ /\ requests[c] \in OlderRequest
     /\ requests[c].mounted => /\ requests[c].account = lastAsked
                               /\ Good(requests[c].from) /\ requests[c].from.account = lastAsked

Waits == held.status = "loading" \/ (held.status = "success" /\ held.paging = "older")

NoticesHold ==
  /\ \A a \in Accounts : <<"recovery", a>> \in notices => <<"failure", a>> \in notices
  /\ lastFailed # NoAccount => <<"failure", lastFailed>> \in notices

BrowserInv ==
  /\ DOMAIN requests = BrowserCalls /\ lastAsked \in Accounts \cup {NoAccount}
  /\ HeldHolds
  /\ \A c \in BrowserCalls : RequestHolds(c)
  /\ Waits => \E c \in BrowserCalls : Live(c)
  /\ NoticesHold

LEMMA PendingRequest ==
  ASSUME NEW c \in BrowserCalls, RequestHolds(c)
  PROVE  /\ Pending(c) <=> requests[c] \in FirstRequest \cup OlderRequest
         /\ Pending(c) => /\ requests[c].mounted \in BOOLEAN /\ requests[c].account \in Accounts
                          /\ requests[c].kind = "first" => requests[c] \in FirstRequest
                          /\ requests[c].kind # "first" => requests[c] \in OlderRequest
<1>1. requests[c] \in FirstRequest => requests[c].kind # NoRequest.kind
  BY DEF FirstRequest, NoRequest
<1>2. requests[c] \in OlderRequest => requests[c].kind # NoRequest.kind
  BY DEF OlderRequest, NoRequest
<1>3. requests[c] \in FirstRequest => requests[c].kind = "first" /\ requests[c].mounted \in BOOLEAN /\ requests[c].account \in Accounts
  BY DEF FirstRequest
<1>4. requests[c] \in OlderRequest => requests[c].kind = "older" /\ requests[c].mounted \in BOOLEAN /\ requests[c].account \in Accounts
  BY DEF OlderRequest
<1>. QED BY <1>1, <1>2, <1>3, <1>4 DEF RequestHolds, Pending

(* What a page that arrives makes of the result it was asked from (appendOperationPage). *)
LEMMA OlderIsGood ==
  ASSUME NEW r, Good(r)
  PROVE  Good(OlderPage(r)) /\ OlderPage(r).account = r.account
<1>0. /\ r \in PagedResult /\ r.pages \in Nat /\ r.index \in Nat /\ r.index < r.pages /\ r.pages <= PageLimit
      /\ HistoryPages \in Nat /\ LastPageFull \in BOOLEAN
  BY BrowserConstants DEF Good, PagedResult
<1>1. ASSUME NEW k \in Nat PROVE LET n == [r EXCEPT !.index = k]
      IN n \in PagedResult /\ n.index = k /\ n.pages = r.pages /\ n.account = r.account
  BY <1>0 DEF PagedResult
<1>2. LET n == [r EXCEPT !.more = FALSE]
      IN n \in PagedResult /\ n.index = r.index /\ n.pages = r.pages /\ n.account = r.account
  BY <1>0, Zenon DEF PagedResult
<1>4. CASE r.index + 1 < r.pages
  BY <1>0, <1>1, <1>4 DEF OlderPage, Good
<1>5. CASE ~(r.index + 1 < r.pages) /\ (~r.more \/ HistoryPages = 0)
  BY <1>0, <1>5 DEF OlderPage, Good
<1>6. CASE ~(r.index + 1 < r.pages) /\ ~(~r.more \/ HistoryPages = 0) /\ r.pages >= HistoryPages
  BY <1>0, <1>2, <1>6 DEF OlderPage, Good
<1>7. CASE ~(r.index + 1 < r.pages) /\ ~(~r.more \/ HistoryPages = 0) /\ ~(r.pages >= HistoryPages)
  <2>1. MoreAfter(r.pages + 1) \in BOOLEAN /\ r.pages + 1 \in Nat /\ r.index + 1 \in Nat
    BY <1>0 DEF MoreAfter
  <2>2. OlderPage(r) = [r EXCEPT !.pages = r.pages + 1, !.index = r.index + 1, !.more = MoreAfter(r.pages + 1)]
    BY <1>7, Zenon DEF OlderPage
  <2>3. OlderPage(r) \in PagedResult /\ OlderPage(r).index = r.index + 1 /\ OlderPage(r).pages = r.pages + 1
        /\ OlderPage(r).account = r.account
    <3>. DEFINE j == r.pages + 1
                k == r.index + 1
                m == MoreAfter(r.pages + 1)
    <3>1. j \in Nat /\ k \in Nat /\ m \in BOOLEAN /\ OlderPage(r) = [r EXCEPT !.pages = j, !.index = k, !.more = m]
      BY <2>1, <2>2
    <3>. HIDE DEF j, k, m
    <3>2. OlderPage(r) \in PagedResult /\ OlderPage(r).index = k /\ OlderPage(r).pages = j /\ OlderPage(r).account = r.account
      BY <1>0, <3>1, Zenon DEF PagedResult
    <3>. QED BY <3>2 DEF j, k
  <2>4. r.pages + 1 <= PageLimit
    BY <1>0, <1>7 DEF PageLimit
  <2>. QED BY <1>0, <2>3, <2>4 DEF Good
<1>. QED BY <1>4, <1>5, <1>6, <1>7

(* What an abort leaves of a request says nothing of the account on screen. *)
LEMMA AbortedHolds ==
  ASSUME NEW d \in BrowserCalls, RequestHolds(d), requests'[d] = Aborted[d]
  PROVE  RequestHolds(d)'
<1>1. requests'[d] = NoRequest \/ (requests'[d] = requests[d] /\ (Pending(d) => ~requests[d].mounted))
  BY DEF Aborted, Live
<1>. QED BY <1>1 DEF RequestHolds, Pending

(* A submission or a retry aborts what came before and asks for one account. *)
LEMMA AsksFirst ==
  ASSUME BrowserInv, NEW c \in BrowserCalls, NEW a \in Accounts,
         requests' = [Aborted EXCEPT ![c] = [kind |-> "first", account |-> a, mounted |-> TRUE]],
         lastAsked' = a, held' = [status |-> "loading"], UNCHANGED <<lastFailed, notices>>
  PROVE  BrowserInv'
<1>. DEFINE new == [kind |-> "first", account |-> a, mounted |-> TRUE]
<1>1. new \in FirstRequest /\ new.mounted /\ new.account = a /\ new.kind # NoRequest.kind
  BY DEF FirstRequest, NoRequest
<1>2. DOMAIN requests' = BrowserCalls /\ requests'[c] = new /\ \A d \in BrowserCalls \ {c} : requests'[d] = Aborted[d]
  BY DEF Aborted
<1>. HIDE DEF new
<1>3. RequestHolds(c)' /\ Live(c)'
  BY <1>1, <1>2, Zenon DEF RequestHolds, Live, Pending
<1>4. \A d \in BrowserCalls \ {c} : RequestHolds(d)'
  BY <1>2, AbortedHolds DEF BrowserInv
<1>5. HeldHolds' /\ NoticesHold'
  BY DEF HeldHolds, NoticesHold, BrowserInv
<1>. QED BY <1>2, <1>3, <1>4, <1>5 DEF BrowserInv

(* Everything is aborted and nothing is loading. *)
LEMMA AbortsAll ==
  ASSUME BrowserInv, requests' = Aborted, held' \in [status : {"idle", "error"}],
         lastAsked' \in {lastAsked, NoAccount}, lastFailed' \in {lastFailed, NoAccount}, UNCHANGED notices
  PROVE  BrowserInv'
<1>1. \A d \in BrowserCalls : RequestHolds(d)'
  BY AbortedHolds DEF BrowserInv
<1>2. HeldHolds' /\ ~Waits'
  BY DEF HeldHolds, Waits
<1>3. NoticesHold'
  BY DEF NoticesHold, BrowserInv
<1>. QED BY <1>1, <1>2, <1>3 DEF BrowserInv, Aborted

LEMMA LoadOlderStep ==
  ASSUME BrowserInv, NEW c \in BrowserCalls, LoadOlder(c)
  PROVE  BrowserInv'
<1>. DEFINE new == [kind |-> "older", account |-> held.result.account, from |-> held.result, mounted |-> TRUE]
<1>0. held \in Shown /\ Good(held.result) /\ held.result.account = lastAsked
  BY DEF BrowserInv, HeldHolds, LoadOlder
<1>1. /\ new \in OlderRequest /\ new.mounted /\ new.account = lastAsked
      /\ new.from = held.result /\ new.kind # NoRequest.kind
  BY <1>0 DEF OlderRequest, NoRequest, Shown, PagedResult
<1>2. DOMAIN requests' = BrowserCalls /\ requests'[c] = new /\ \A d \in BrowserCalls \ {c} : requests'[d] = Aborted[d]
  BY DEF LoadOlder, Aborted
<1>. HIDE DEF new
<1>3. RequestHolds(c)' /\ Live(c)'
  BY <1>0, <1>1, <1>2, Zenon DEF RequestHolds, Live, Pending, LoadOlder
<1>4. \A d \in BrowserCalls \ {c} : RequestHolds(d)'
  BY <1>2, AbortedHolds DEF BrowserInv
<1>5. held' \in Shown /\ held'.result = held.result
  BY <1>0 DEF LoadOlder, Shown
<1>6. HeldHolds' /\ NoticesHold'
  BY <1>0, <1>5 DEF HeldHolds, NoticesHold, BrowserInv, LoadOlder
<1>. QED BY <1>2, <1>3, <1>4, <1>6 DEF BrowserInv, LoadOlder

(* The user moves within what was loaded. *)
LEMMA ResultTurns ==
  ASSUME BrowserInv, held \in Shown, held' \in Shown, Good(held'.result), held'.result.account = held.result.account,
         held'.paging # "older", UNCHANGED <<lastAsked, lastFailed, requests, notices>>
  PROVE  BrowserInv'
<1>1. HeldHolds' /\ ~Waits'
  BY DEF HeldHolds, Waits, Shown, BrowserInv
<1>2. \A c \in BrowserCalls : RequestHolds(c)'
  BY DEF RequestHolds, BrowserInv
<1>. QED BY <1>1, <1>2 DEF BrowserInv, NoticesHold

LEMMA LoadNewerStep == ASSUME BrowserInv, LoadNewer PROVE BrowserInv'
<1>0. held \in Shown /\ Good(held.result) /\ held.result.index > 0
  BY DEF BrowserInv, HeldHolds, LoadNewer
<1>1. PICK r \in PagedResult : r = held.result
  BY <1>0 DEF Good
<1>2. PICK k \in Nat : k = r.index - 1
  BY <1>0, <1>1 DEF PagedResult
<1>3. [r EXCEPT !.index = k] \in PagedResult /\ [r EXCEPT !.index = k].index = k
      /\ [r EXCEPT !.index = k].pages = r.pages /\ [r EXCEPT !.index = k].account = r.account
  BY <1>1 DEF PagedResult
<1>4. held' \in Shown /\ held'.result = [r EXCEPT !.index = k] /\ held'.paging = "newer"
  BY <1>0, <1>1, <1>2, <1>3, Zenon DEF LoadNewer, Shown
<1>5. k < r.pages /\ r.pages <= PageLimit
  BY <1>0, <1>1, <1>2 DEF Good, PagedResult
<1>. QED BY <1>0, <1>1, <1>3, <1>4, <1>5, ResultTurns, Zenon DEF LoadNewer, Good

LEMMA SetTypeFilterStep == ASSUME BrowserInv, NEW f \in Filters \cup {"all"}, SetTypeFilter(f) PROVE BrowserInv'
<1>0. held \in Shown /\ Good(held.result)
  BY DEF BrowserInv, HeldHolds, SetTypeFilter
<1>1. PICK r \in PagedResult : r = held.result
  BY <1>0 DEF Good
<1>3. [r EXCEPT !.filter = f] \in PagedResult /\ [r EXCEPT !.filter = f].index = r.index
      /\ [r EXCEPT !.filter = f].pages = r.pages /\ [r EXCEPT !.filter = f].account = r.account
  BY <1>1 DEF PagedResult
<1>4. held' \in Shown /\ held'.result = [r EXCEPT !.filter = f] /\ held'.paging = "idle"
  BY <1>0, <1>1, <1>3, Zenon DEF SetTypeFilter, Shown
<1>. QED BY <1>0, <1>1, <1>3, <1>4, ResultTurns, Zenon DEF SetTypeFilter, Good

(* Whoever is told of a recovery was told of the failure. *)
LEMMA RequestTells ==
  ASSUME BrowserInv, NEW c \in BrowserCalls, NEW good \in BOOLEAN, RequestEnds(c, good)
  PROVE  NoticesHold'
<1>1. PICK r : r = requests[c] /\ r.account \in Accounts /\ r.mounted \in BOOLEAN
  BY PendingRequest DEF RequestEnds, BrowserInv
<1>2. r.account # NoAccount
  BY <1>1, BrowserConstants DEF NoAccount
<1>3. CASE ~good
  <2>1. notices' = notices \cup {<<"failure", r.account>>} /\ lastFailed' \in {lastFailed, r.account}
    BY <1>1, <1>3 DEF RequestEnds
  <2>. QED BY <2>1 DEF NoticesHold, BrowserInv
<1>4. CASE good /\ Recovered(r)
  <2>1. /\ notices' = notices \cup {<<"recovery", r.account>>} /\ lastFailed = r.account
        /\ lastFailed' = NoAccount
    BY <1>1, <1>4 DEF RequestEnds, Recovered
  <2>. QED BY <1>2, <2>1 DEF NoticesHold, BrowserInv
<1>5. CASE good /\ ~Recovered(r)
  <2>1. notices' = notices /\ lastFailed' \in {lastFailed, NoAccount}
    BY <1>1, <1>5 DEF RequestEnds
  <2>. QED BY <2>1 DEF NoticesHold, BrowserInv
<1>. QED BY <1>3, <1>4, <1>5

LEMMA RequestEndsStep ==
  ASSUME BrowserInv, NEW c \in BrowserCalls, NEW good \in BOOLEAN, RequestEnds(c, good)
  PROVE  BrowserInv'
<1>1. /\ requests[c].account \in Accounts /\ requests[c].mounted \in BOOLEAN
      /\ requests[c].kind # "first" => requests[c] \in OlderRequest
  BY PendingRequest DEF RequestEnds, BrowserInv
<1>2. /\ DOMAIN requests' = BrowserCalls /\ requests'[c] = NoRequest
      /\ \A d \in BrowserCalls \ {c} : requests'[d] = requests[d]
  BY DEF RequestEnds, BrowserInv
<1>3. \A d \in BrowserCalls : RequestHolds(d)'
  <2>1. RequestHolds(c)'
    BY <1>2 DEF RequestHolds
  <2>2. \A d \in BrowserCalls \ {c} : RequestHolds(d)'
    BY <1>2 DEF RequestHolds, BrowserInv, RequestEnds
  <2>. QED BY <2>1, <2>2
<1>4. CASE ~requests[c].mounted
  <2>1. UNCHANGED <<held, lastAsked>>
    BY <1>4 DEF RequestEnds
  <2>2. HeldHolds'
    BY <2>1 DEF HeldHolds, BrowserInv
  <2>3. Waits' => \E d \in BrowserCalls : Live(d)'
    <3>1. \A d \in BrowserCalls : Live(d) => d # c
      BY <1>4 DEF Live
    <3>2. \A d \in BrowserCalls : Live(d) => Live(d)'
      BY <1>2, <3>1 DEF Live, Pending
    <3>. QED BY <2>1, <3>2 DEF Waits, BrowserInv
  <2>. QED BY <1>2, <1>3, <2>1, <2>2, <2>3, RequestTells DEF BrowserInv
<1>5. CASE requests[c].mounted
  <2>. DEFINE result == IF requests[c].kind = "first" THEN FirstPage(requests[c].account) ELSE OlderPage(requests[c].from)
  <2>1. requests[c].account = lastAsked
        /\ (requests[c].kind # "first" => Good(requests[c].from) /\ requests[c].from.account = lastAsked)
    <3>1. RequestHolds(c) /\ requests[c] # NoRequest
      BY DEF BrowserInv, RequestEnds, Pending
    <3>. QED BY <1>5, <3>1 DEF RequestHolds, FirstRequest, OlderRequest
  <2>2. Good(FirstPage(lastAsked)) /\ FirstPage(lastAsked).account = lastAsked
    <3>1. MoreAfter(1) \in BOOLEAN /\ 1 <= PageLimit
      BY BrowserConstants DEF MoreAfter, PageLimit
    <3>2. lastAsked \in Accounts
      BY <1>1, <2>1
    <3>. QED BY <3>1, <3>2 DEF FirstPage, Good, PagedResult
  <2>3. Good(result) /\ result.account = lastAsked
    BY <2>1, <2>2, OlderIsGood
  <2>. HIDE DEF result
  <2>4. held' = IF good THEN [status |-> "success", result |-> result, paging |-> "idle"] ELSE [status |-> "error"]
    BY <1>5 DEF RequestEnds, result
  <2>5. lastAsked' = lastAsked
    BY DEF RequestEnds
  <2>6. good => held' \in Shown /\ held'.result = result /\ held'.paging = "idle" /\ held'.status = "success"
    BY <2>3, <2>4 DEF Shown, Good
  <2>7. HeldHolds' /\ ~Waits'
    BY <2>3, <2>4, <2>5, <2>6 DEF HeldHolds, Waits
  <2>. QED BY <1>2, <1>3, <2>5, <2>7, RequestTells DEF BrowserInv
<1>. QED BY <1>1, <1>4, <1>5

LEMMA RemountStep == ASSUME BrowserInv, BrowserRemounts PROVE BrowserInv'
<1>1. ASSUME NEW d \in BrowserCalls PROVE RequestHolds(d)'
  <2>. DEFINE next == [requests[d] EXCEPT !.mounted = FALSE]
  <2>1. requests'[d] = IF Pending(d) THEN next ELSE NoRequest
    BY DEF BrowserRemounts
  <2>2. requests[d] \in FirstRequest => next \in FirstRequest /\ ~next.mounted
    BY Zenon DEF FirstRequest
  <2>3. requests[d] \in OlderRequest => next \in OlderRequest /\ ~next.mounted
    BY Zenon DEF OlderRequest
  <2>4. Pending(d) => requests[d] \in FirstRequest \cup OlderRequest
    BY PendingRequest DEF BrowserInv
  <2>. HIDE DEF next
  <2>. QED BY <2>1, <2>2, <2>3, <2>4 DEF RequestHolds
<1>2. HeldHolds' /\ ~Waits'
  BY DEF BrowserRemounts, NothingHeld, HeldHolds, Waits
<1>. QED BY <1>1, <1>2 DEF BrowserRemounts, BrowserInv, NoticesHold

LEMMA BrowserStep == BrowserInv /\ [BrowserNext]_browserVars => BrowserInv'
<1>. SUFFICES ASSUME BrowserInv, [BrowserNext]_browserVars PROVE BrowserInv'
  OBVIOUS
<1>1. CASE SubmitBad
  BY <1>1, AbortsAll DEF SubmitBad
<1>2. CASE ResetBrowser
  BY <1>2, AbortsAll DEF ResetBrowser, NothingHeld
<1>3. ASSUME NEW c \in BrowserCalls, NEW a \in Accounts, SubmitAccount(c, a) PROVE BrowserInv'
  BY <1>3, AsksFirst, Zenon DEF SubmitAccount
<1>4. ASSUME NEW c \in BrowserCalls, Retry(c) PROVE BrowserInv'
  <2>1. PICK a \in Accounts : a = lastAsked
    BY <1>4 DEF Retry, BrowserInv
  <2>. QED BY <1>4, <2>1, AsksFirst, ZenonT(40) DEF Retry
<1>5. CASE UNCHANGED browserVars
  BY <1>5 DEF browserVars, BrowserInv, HeldHolds, RequestHolds, Waits, Live, Pending, NoticesHold
<1>. QED BY <1>1, <1>2, <1>3, <1>4, <1>5, LoadOlderStep, LoadNewerStep, SetTypeFilterStep, RequestEndsStep, RemountStep
     DEF BrowserNext

(***************************************************************************)
(* The page of the operation browser shows the account last submitted, in  *)
(* pages its history has; what says it is loading has a request that will  *)
(* end it; no recovery is told of without its failure.  For any number of  *)
(* accounts, requests in flight and pages of history (submit, loadOlder,   *)
(* appendOperationPage, lastFailedAccount).                                *)
(***************************************************************************)
THEOREM ShowsAccountAsked == BrowserSpec => []BrowserShowsAsked
<1>1. BrowserInit => BrowserInv
  BY DEF BrowserInit, BrowserInv, HeldHolds, RequestHolds, Waits, NoticesHold, NothingHeld
<1>2. BrowserInv => BrowserShowsAsked
  BY DEF BrowserInv, BrowserShowsAsked, HeldHolds, Waits, NoticesHold, Good, PageLimit
<1>. QED BY <1>1, <1>2, BrowserStep, PTL DEF BrowserSpec

-----------------------------------------------------------------------------
(***************************************************************************)
(* Tool pages.  What a hook needs so that answers cannot come out of       *)
(* order: it drops the answers to earlier questions whenever something new *)
(* is submitted, or its form is locked while an answer is awaited; it asks *)
(* the selected network; it turns pages only of questions that a user      *)
(* submitted and that are answered later; and it filters only what is      *)
(* answered at once.                                                       *)
(***************************************************************************)
KeepsOrder(h) ==
  /\ ~h.fixed
  /\ {"question", "malformed"} \subseteq h.drops \/ (h.locked /\ h.turns # "shown")
  /\ h.turns # "no" => ~h.mounts /\ "at once" \notin h.answers
  /\ h.filters => ~h.mounts /\ "later" \notin h.answers /\ h.turns = "no"

(***************************************************************************)
(* Every hook that asks the selected network keeps its answers in order,   *)
(* those that show whatever is answered included (features/*/hooks).       *)
(***************************************************************************)
LEMMA ToolsKeepOrder == \A h \in SelectedNetworkHooks : KeepsOrder(h)
<1>. USE DEF useTomlValidator, KeepsOrder
<1>1. KeepsOrder(useTomlValidator)
  OBVIOUS
<1>2. KeepsOrder(usePaymentCsvPreflight)
  BY DEF usePaymentCsvPreflight
<1>3. KeepsOrder(useLedgerLookup)
  BY DEF useLedgerLookup
<1>4. KeepsOrder(useSequenceInspector)
  BY DEF useSequenceInspector, useLedgerLookup
<1>5. KeepsOrder(useAssetMetadata)
  BY DEF useAssetMetadata
<1>6. KeepsOrder(useTestnetFaucet)
  BY DEF useTestnetFaucet, useAssetMetadata
<1>7. KeepsOrder(useBalanceViewer)
  BY DEF useBalanceViewer, useAssetMetadata
<1>8. KeepsOrder(useFeeStats)
  BY DEF useFeeStats, useBalanceViewer, useAssetMetadata
<1>9. KeepsOrder(usePaymentHistory)
  BY DEF usePaymentHistory, useBalanceViewer, useAssetMetadata
<1>10. KeepsOrder(useTradeHistory)
  BY DEF useTradeHistory
<1>11. KeepsOrder(useEffectsTimeline)
  BY DEF useEffectsTimeline, useLedgerLookup
<1>12. KeepsOrder(usePathPaymentFinder)
  BY DEF usePathPaymentFinder
<1>13. KeepsOrder(useMemoInspector)
  BY DEF useMemoInspector, usePathPaymentFinder
<1>14. KeepsOrder(useFreighter)
  BY DEF useFreighter, usePathPaymentFinder
<1>15. KeepsOrder(useAddressValidator)
  BY DEF useAddressValidator
<1>16. KeepsOrder(useAccountSnapshotDiff)
  BY DEF useAccountSnapshotDiff, useAddressValidator
<1>. HIDE DEF useTomlValidator, KeepsOrder
<1>. QED
  BY <1>1, <1>2, <1>3, <1>4, <1>5, <1>6, <1>7, <1>8, <1>9, <1>10, <1>11, <1>12, <1>13, <1>14, <1>15, <1>16
  DEF SelectedNetworkHooks, useAnchorDiscovery, useClaimablePredicateBuilder, useLiquidityPoolCalculator,
      useOrderbookViewer, usePathPaymentInspector, useSep10Inspector, useSep7SignatureVerifier,
      useSignatureVerifier, useSimulationExplainer, useTradeAggregationViewer, useNetworkComparison,
      useStrkeyInspector, useHashCalculator, useLedgerRangePlanner, useMuxedAccountCodec, usePriceFractionLab,
      useTrustlineLimitPlanner, useHorizonHealth, useMultisigAnalyzer, useOfferInspector,
      useSponsorshipPlanner, useAccountMergePreflight, useClaimableBalances, usePreconditionsExplainer,
      useSponsoredReserves, useAccountDataEntries, useAssetStatistics, useFederationResolver,
      useAccountSigners, useAssetFlagsInspector, useContractEvents, useLiquidityPoolInspector,
      useReserveCalculator, useTransactionLookup, useTrustlineChecker, useActivityTimeline,
      usePaymentUriParser, useSorobanAuthInspector, usePaymentQr, useBatchAddressValidator,
      useFeeBumpInspector, useManageDataCodec, useResultCodeExplainer, useTransactionSizeAnalyzer,
      useXdrInspector, useSorobanDecoder, useTransactionDecoder, useOperationSourceMap,
      useTransactionEnvelopeDiff

Asker == Questions \cup {"nothing", "malformed", "mount"}
HookRequest == Asker \X Nat
HookCall == [request : HookRequest, network : Networks, late : BOOLEAN]
HookState == [status : {"idle", "loading", "waiting", "paging", "success", "error"},
              request : HookRequest, network : Networks]

HookTypes ==
  /\ hook \in Hooks /\ network \in Networks
  /\ shown \in HookState /\ asked \in HookRequest
  /\ calls \in [HookCalls -> HookCall]
  /\ account \in Asker /\ trail \in Seq(HookRequest) /\ filter \in HookRequest

(* A call whose answer will be shown. *)
Awaited(c) == InFlight(c) /\ ~calls[c].late

(* The page waits: a form that is locked is locked now. *)
PageWaits == shown.status \in {"loading", "waiting"} \/ (hook.turns = "shown" /\ shown.status = "paging")

(* The trail of past requests leads to what was asked. *)
TrailHolds == Len(trail) > asked[2] /\ \A i \in 1..Len(trail) : trail[i] = <<asked[1], i - 1>>

(***************************************************************************)
(* The strengthening: one answer is awaited at most, it answers what was   *)
(* asked last, and while it is awaited the page says so; every call in     *)
(* flight asks the selected network; and where pages can be turned, the    *)
(* account and the trail are those of what was asked.                      *)
(***************************************************************************)
CallsHold ==
  /\ \A c \in HookCalls : InFlight(c) => calls[c].network = network
  /\ \A c \in HookCalls : Awaited(c) => calls[c].request = asked /\ PageWaits
  /\ \A c, d \in HookCalls : Awaited(c) /\ Awaited(d) => c = d

PagesHold ==
  (shown.status = "success" \/ \E c \in HookCalls : Awaited(c)) =>
    /\ hook.turns = "account" => account = asked[1]
    /\ hook.turns = "trail" => TrailHolds

FilterHolds ==
  /\ ~hook.filters => filter = Nothing
  /\ hook.filters => \A c \in HookCalls : ~InFlight(c)
  /\ shown.status = "success" => filter \in {Nothing, shown.request}

HookInv ==
  /\ HookTypes
  /\ KeepsOrder(hook)
  /\ shown.network = network
  /\ shown.status # "idle" => shown.request = asked
  /\ CallsHold /\ PagesHold /\ FilterHolds

LEMMA HookFields ==
  ASSUME HookInv
  PROVE  /\ Visible = shown.status /\ ~hook.fixed
         /\ \A r : Sent(r) = [request |-> r, network |-> network, late |-> FALSE]
         /\ {Nothing, Malformed, AtMount} \subseteq HookRequest
         /\ Unasked \in HookCall
         /\ \A q \in Asker : <<q, 0>> \in HookRequest
<1>1. Visible = shown.status /\ ~hook.fixed
  BY Zenon DEF HookInv, Visible, KeepsOrder
<1>2. \A r : Sent(r) = [request |-> r, network |-> network, late |-> FALSE]
  BY <1>1 DEF Sent
<1>3. {Nothing, Malformed, AtMount} \subseteq HookRequest /\ \A q \in Asker : <<q, 0>> \in HookRequest
  BY DEF Nothing, Malformed, AtMount, HookRequest, Asker
<1>4. Unasked \in HookCall
  BY <1>3, HookConstants DEF Unasked, HookCall
<1>. QED BY <1>1, <1>2, <1>3, <1>4

(* Calls of which none is awaited. *)
NoneAwaited(f) == \A c \in HookCalls : f[c] # Unasked => f[c].late /\ f[c].network = network

(* After an event that supersedes the calls, or with none awaited, none is. *)
LEMMA NoneAfter ==
  ASSUME HookInv, NEW event, event \in hook.drops \/ ~PageWaits
  PROVE  /\ After(event) \in [HookCalls -> HookCall]
         /\ NoneAwaited(After(event))
         /\ \A c \in HookCalls : ~InFlight(c) => After(event)[c] = Unasked
<1>1. ASSUME NEW c \in HookCalls
      PROVE  /\ After(event)[c] \in HookCall
             /\ After(event)[c] # Unasked => After(event)[c].late /\ After(event)[c].network = network
             /\ ~InFlight(c) => After(event)[c] = Unasked
  <2>1. PICK call \in HookCall : call = calls[c]
    BY DEF HookInv, HookTypes
  <2>2. CASE InFlight(c) /\ event \in hook.drops
    <3>1. PICK late : late = [call EXCEPT !.late = TRUE]
      BY Zenon
    <3>2. late \in HookCall /\ late.late /\ late.network = call.network
      BY <3>1, Zenon DEF HookCall
    <3>3. After(event)[c] = late
      BY <2>1, <2>2, <3>1 DEF After, Supersedes
    <3>. QED BY <2>1, <2>2, <3>2, <3>3 DEF HookInv, CallsHold
  <2>3. CASE ~(InFlight(c) /\ event \in hook.drops)
    <3>1. After(event)[c] = calls[c]
      BY <2>3 DEF After, Supersedes
    <3>2. InFlight(c) => ~PageWaits
      BY <2>3
    <3>. QED BY <2>1, <3>1, <3>2 DEF HookInv, CallsHold, InFlight, Awaited
  <2>. QED BY <2>2, <2>3
<1>. QED BY <1>1, Zenon DEF After, NoneAwaited

(* Of calls none is awaited; or one that asks what is asked now. *)
LEMMA QuietCalls ==
  ASSUME HookInv, UNCHANGED network, calls' \in [HookCalls -> HookCall], NoneAwaited(calls')
  PROVE  CallsHold' /\ \A c \in HookCalls : ~Awaited(c)'
BY DEF CallsHold, NoneAwaited, InFlight, Awaited

LEMMA OneCall ==
  ASSUME HookInv, UNCHANGED network, NEW before \in [HookCalls -> HookCall], NoneAwaited(before),
         NEW c \in HookCalls, NEW call \in HookCall, calls' = [before EXCEPT ![c] = call],
         call.request = asked', call.network = network, PageWaits'
  PROVE  calls' \in [HookCalls -> HookCall] /\ CallsHold'
<1>1. /\ calls' \in [HookCalls -> HookCall] /\ calls'[c] = call
      /\ \A d \in HookCalls \ {c} : calls'[d] = before[d]
  OBVIOUS
<1>2. \A d \in HookCalls \ {c} : ~Awaited(d)'
  BY <1>1 DEF NoneAwaited, Awaited, InFlight
<1>3. \A d \in HookCalls : InFlight(d)' => calls'[d].network = network'
  BY <1>1 DEF NoneAwaited, InFlight
<1>. QED BY <1>1, <1>2, <1>3 DEF CallsHold

LEMMA MalformedShows == ASSUME HookInv, SubmitMalformed PROVE HookInv'
<1>1. "malformed" \in hook.drops \/ ~PageWaits
  BY HookFields, Zenon DEF SubmitMalformed, Unlocked, HookInv, KeepsOrder, PageWaits
<1>2. calls' \in [HookCalls -> HookCall] /\ NoneAwaited(calls') /\ \A c \in HookCalls : ~InFlight(c) => calls'[c] = Unasked
  BY <1>1, NoneAfter DEF SubmitMalformed
<1>3. UNCHANGED <<hook, network, account, filter>> /\ asked' = Malformed /\ trail' = <<>>
  BY DEF SubmitMalformed
<1>4. shown' \in HookState /\ shown'.status = "error" /\ shown'.request = Malformed /\ shown'.network = network
  BY HookFields DEF SubmitMalformed, Holding, HookState, HookInv, HookTypes
<1>5. CallsHold' /\ \A c \in HookCalls : ~Awaited(c)'
  BY <1>2, <1>3, QuietCalls
<1>6. PagesHold'
  BY <1>4, <1>5 DEF PagesHold
<1>7. FilterHolds'
  BY <1>2, <1>3, <1>4 DEF FilterHolds, HookInv, InFlight
<1>8. HookTypes'
  BY <1>2, <1>3, <1>4, HookFields DEF HookInv, HookTypes
<1>. QED BY <1>3, <1>4, <1>5, <1>6, <1>7, <1>8 DEF HookInv

LEMMA ResetShows == ASSUME HookInv, ResetHook PROVE HookInv'
<1>1. "reset" \in hook.drops
  BY DEF ResetHook
<1>2. calls' \in [HookCalls -> HookCall] /\ NoneAwaited(calls') /\ \A c \in HookCalls : ~InFlight(c) => calls'[c] = Unasked
  BY <1>1, NoneAfter DEF ResetHook
<1>3. UNCHANGED <<hook, network>> /\ asked' = Nothing /\ trail' = <<>> /\ account' = "nothing" /\ filter' = Nothing
  BY DEF ResetHook
<1>4. shown' \in HookState /\ shown'.status = "idle" /\ shown'.network = network
  BY HookFields DEF ResetHook, Holding, HookState, HookInv, HookTypes
<1>5. CallsHold' /\ \A c \in HookCalls : ~Awaited(c)'
  BY <1>2, <1>3, QuietCalls
<1>6. PagesHold'
  BY <1>4, <1>5 DEF PagesHold
<1>7. FilterHolds'
  BY <1>2, <1>3, <1>4 DEF FilterHolds, HookInv, InFlight
<1>8. HookTypes'
  BY <1>2, <1>3, <1>4, HookFields DEF HookInv, HookTypes, Asker
<1>. QED BY <1>3, <1>4, <1>5, <1>6, <1>7, <1>8, ZenonT(40) DEF HookInv

LEMMA AtOnceShows ==
  ASSUME HookInv, NEW q \in Questions, NEW status \in {"success", "error"}, SubmitAtOnce(q, status)
  PROVE  HookInv'
<1>1. "question" \in hook.drops \/ ~PageWaits
  BY HookFields, Zenon DEF SubmitAtOnce, Unlocked, HookInv, KeepsOrder, PageWaits
<1>2. calls' \in [HookCalls -> HookCall] /\ NoneAwaited(calls') /\ \A c \in HookCalls : ~InFlight(c) => calls'[c] = Unasked
  BY <1>1, NoneAfter, Zenon DEF SubmitAtOnce
<1>3. UNCHANGED <<hook, network, account, trail>> /\ asked' = <<q, 0>> /\ filter' = Nothing /\ asked' \in HookRequest
  BY HookFields, Zenon DEF SubmitAtOnce, Asker
<1>4. shown' \in HookState /\ shown'.request = asked' /\ shown'.network = network
  <2>1. Sent(<<q, 0>>).network = network /\ network \in Networks
    BY HookFields DEF HookInv, HookTypes
  <2>. QED BY <1>3, <2>1, ZenonT(40) DEF SubmitAtOnce, HookState
<1>5. CallsHold' /\ \A c \in HookCalls : ~Awaited(c)'
  BY <1>2, <1>3, QuietCalls
<1>6. hook.turns = "no"
  BY Zenon DEF HookInv, KeepsOrder, SubmitAtOnce
<1>7. PagesHold'
  BY <1>3, <1>6 DEF PagesHold
<1>8. FilterHolds'
  BY <1>2, <1>3, <1>4 DEF FilterHolds, HookInv, InFlight
<1>9. HookTypes'
  BY <1>2, <1>3, <1>4, HookFields DEF HookInv, HookTypes
<1>. QED BY <1>3, <1>4, <1>5, <1>7, <1>8, <1>9 DEF HookInv

LEMMA FilterShows == ASSUME HookInv, SetFilter PROVE HookInv'
<1>1. UNCHANGED <<hook, network, shown, asked, calls, account, trail>> /\ hook.filters /\ filter' = shown.request
  BY DEF SetFilter
<1>2. CallsHold' /\ PagesHold'
  BY <1>1 DEF HookInv, CallsHold, PagesHold, TrailHolds, PageWaits, Awaited, InFlight
<1>3. FilterHolds'
  BY <1>1 DEF HookInv, FilterHolds, InFlight
<1>4. shown.request \in HookRequest
  BY DEF HookInv, HookTypes, HookState
<1>5. HookTypes'
  BY <1>1, <1>4 DEF HookInv, HookTypes
<1>. QED BY <1>1, <1>2, <1>3, <1>5 DEF HookInv

(* A question, asked or repeated, is the one call that is awaited. *)
LEMMA QuestionShows ==
  ASSUME HookInv, NEW c \in HookCalls, NEW q \in Asker, SubmitQuestion(c, q)
  PROVE  HookInv'
<1>1. "question" \in hook.drops \/ ~PageWaits
  BY HookFields, ZenonT(40) DEF SubmitQuestion, Unlocked, HookInv, KeepsOrder, PageWaits
<1>2. PICK before \in [HookCalls -> HookCall] : before = After("question") /\ NoneAwaited(before)
  BY <1>1, NoneAfter
<1>3. PICK call \in HookCall : /\ call = Sent(<<q, 0>>) /\ call.request = <<q, 0>> /\ call.network = network
  <2>1. <<q, 0>> \in HookRequest /\ network \in Networks
    BY HookFields DEF HookInv, HookTypes
  <2>2. PICK call : call = [request |-> <<q, 0>>, network |-> network, late |-> FALSE]
    BY Zenon
  <2>3. call \in HookCall /\ call.request = <<q, 0>> /\ call.network = network
    BY <2>1, <2>2 DEF HookCall
  <2>4. call = Sent(<<q, 0>>)
    BY <2>2, HookFields, ZenonT(40)
  <2>. QED BY <2>3, <2>4
<1>4. /\ UNCHANGED <<hook, network, filter>> /\ asked' = <<q, 0>> /\ trail' = <<<<q, 0>>>> /\ account' = q
      /\ calls' = [before EXCEPT ![c] = call] /\ ~hook.filters
  BY <1>2, <1>3, Zenon DEF SubmitQuestion, HookInv, KeepsOrder
<1>5. shown' \in HookState /\ shown'.status = "loading" /\ shown'.request = asked' /\ shown'.network = network
  BY <1>4, HookFields, ZenonT(40) DEF SubmitQuestion, Holding, HookState, HookInv, HookTypes
<1>6. calls' \in [HookCalls -> HookCall] /\ CallsHold'
  BY <1>2, <1>3, <1>4, <1>5, OneCall DEF PageWaits
<1>7. PagesHold'
  BY <1>4 DEF PagesHold, TrailHolds
<1>8. FilterHolds'
  BY <1>4, <1>5 DEF FilterHolds, HookInv
<1>9. HookTypes'
  BY <1>4, <1>5, <1>6, HookFields DEF HookInv, HookTypes
<1>. QED BY <1>4, <1>5, <1>6, <1>7, <1>8, <1>9 DEF HookInv

(* A trail through the pages of q. *)
Leads(past, q) == \A i \in 1..Len(past) : past[i] = <<q, i - 1>>

(* One page on, the trail is cut at that page, and leads there. *)
LEMMA TrailLeads ==
  ASSUME NEW before \in Seq(HookRequest), NEW q \in Asker, NEW page \in Nat, page \in 1..Len(before),
         Leads(before, q), NEW next, next = Append(SubSeq(before, 1, page), <<q, page>>)
  PROVE  next \in Seq(HookRequest) /\ Len(next) > page /\ Leads(next, q)
<1>1. <<q, page>> \in HookRequest
  BY DEF HookRequest
<1>2. PICK past \in Seq(HookRequest) : past = SubSeq(before, 1, page)
  <2>1. \A i \in 1..page : before[i] \in HookRequest
    BY LenProperties, ElementOfSeq
  <2>2. 1 \in Int /\ page \in Int
    OBVIOUS
  <2>. QED BY <2>1, <2>2, SubSeqProperties, Zenon
<1>3. Len(past) = page /\ \A i \in 1..page : past[i] = before[i]
  BY <1>2
<1>4. /\ next = Append(past, <<q, page>>) /\ next \in Seq(HookRequest) /\ Len(next) = page + 1
      /\ next[page + 1] = <<q, page>> /\ \A i \in 1..page : next[i] = past[i]
  BY <1>1, <1>2, <1>3
<1>5. ASSUME NEW i \in 1..Len(next) PROVE next[i] = <<q, i - 1>>
  <2>1. CASE i = page + 1
    BY <1>4, <2>1
  <2>2. CASE i # page + 1
    <3>1. i \in 1..page /\ i \in 1..Len(before)
      BY <1>4, <2>2, LenProperties
    <3>. QED BY <1>3, <1>4, <3>1 DEF Leads
  <2>. QED BY <2>1, <2>2
<1>6. Len(next) > page
  BY <1>4
<1>. QED BY <1>4, <1>5, <1>6 DEF Leads

LEMMA TurnShows ==
  ASSUME HookInv, NEW c \in HookCalls, NEW by \in {-1, 1}, TurnPage(c, by)
  PROVE  HookInv'
<1>1. /\ shown.status = "success" /\ shown.request = asked /\ hook.turns # "no" /\ ~hook.filters
      /\ asked \in HookRequest /\ asked[1] \in Asker /\ asked[2] \in Nat
      /\ hook.turns = "account" => account = asked[1]
      /\ hook.turns # "shown" \/ "question" \in hook.drops
  BY HookFields, ZenonT(40) DEF TurnPage, HookInv, HookTypes, HookRequest, KeepsOrder, PagesHold
<1>2. PICK page \in Nat : page = asked[2] + by
  <2>1. shown.request[2] + by \in 0..LastPage
    BY Zenon DEF TurnPage
  <2>2. PICK page : page = asked[2] + by
    OBVIOUS
  <2>3. page \in 0..LastPage
    BY <1>1, <2>1, <2>2, Zenon
  <2>. QED BY <2>2, <2>3
<1>3. PICK r \in HookRequest : r = <<asked[1], page>>
  BY <1>1, <1>2, Zenon DEF HookRequest
<1>4. PICK older : older = Append(SubSeq(trail, 1, page), <<asked[1], page>>)
  BY Zenon
<1>5. /\ UNCHANGED <<hook, network, account, filter>> /\ asked' = r
      /\ trail' = IF hook.turns = "trail" /\ by = 1 THEN older ELSE trail
      /\ shown' = Holding(IF hook.turns = "shown" THEN "paging" ELSE "loading", r)
      /\ calls' = [After("question") EXCEPT ![c] = Sent(IF hook.turns = "trail" THEN trail'[page + 1] ELSE r)]
  BY <1>1, <1>2, <1>3, <1>4, Zenon DEF TurnPage
<1>6. hook.turns = "trail" => /\ trail' \in Seq(HookRequest) /\ Len(trail') > page
                              /\ \A i \in 1..Len(trail') : trail'[i] = <<asked[1], i - 1>>
  <2>1. SUFFICES ASSUME hook.turns = "trail"
                 PROVE  /\ trail' \in Seq(HookRequest) /\ Len(trail') > page
                        /\ \A i \in 1..Len(trail') : trail'[i] = <<asked[1], i - 1>>
    OBVIOUS
  <2>2. /\ trail \in Seq(HookRequest) /\ Len(trail) > asked[2]
        /\ \A i \in 1..Len(trail) : trail[i] = <<asked[1], i - 1>>
    BY <1>1, <2>1 DEF HookInv, HookTypes, PagesHold, TrailHolds
  <2>3. CASE by = 1
    <3>1. page \in 1..Len(trail) /\ trail' = older
      <4>1. page = asked[2] + 1 /\ asked[2] \in Nat /\ Len(trail) \in Nat /\ Len(trail) > asked[2]
        BY <1>1, <1>2, <2>2, <2>3, LenProperties
      <4>2. page \in 1..Len(trail)
        BY <4>1
      <4>3. trail' = older
        BY <1>5, <2>1, <2>3
      <4>. QED BY <4>2, <4>3
    <3>2. PICK q \in Asker : q = asked[1]
      BY <1>1
    <3>3. older = Append(SubSeq(trail, 1, page), <<q, page>>) /\ \A i \in 1..Len(trail) : trail[i] = <<q, i - 1>>
      BY <1>4, <2>2, <3>2
    <3>4. older \in Seq(HookRequest) /\ Len(older) > page /\ Leads(older, q)
      <4>1. trail \in Seq(HookRequest) /\ page \in 1..Len(trail) /\ Leads(trail, q)
        BY <2>2, <3>1, <3>3 DEF Leads
      <4>. QED BY <3>3, <4>1, TrailLeads, Zenon
    <3>. QED BY <3>1, <3>2, <3>4 DEF Leads
  <2>4. CASE by = -1
    <3>1. trail' = trail /\ Len(trail) \in Nat
      BY <1>5, <2>2, <2>4, LenProperties
    <3>2. Len(trail) > page
      BY <1>1, <1>2, <2>2, <2>4, <3>1
    <3>. QED BY <2>2, <3>1, <3>2
  <2>. QED BY <2>3, <2>4
<1>7. hook.turns = "trail" => trail'[page + 1] = r
  <2>1. SUFFICES ASSUME hook.turns = "trail" PROVE trail'[page + 1] = r
    OBVIOUS
  <2>2. page + 1 \in 1..Len(trail') /\ (page + 1) - 1 = page
    BY <1>6, <2>1, LenProperties
  <2>. QED BY <1>3, <1>6, <2>1, <2>2
<1>8. PICK call : call = [request |-> r, network |-> network, late |-> FALSE]
  BY Zenon
<1>9. call \in HookCall /\ call.request = r /\ call.network = network
  BY <1>3, <1>8 DEF HookCall, HookInv, HookTypes
<1>10. PICK before \in [HookCalls -> HookCall] : before = After("question") /\ NoneAwaited(before)
  BY <1>1, NoneAfter DEF PageWaits
<1>11. calls' = [before EXCEPT ![c] = call]
  <2>1. Sent(r) = call
    BY <1>8, HookFields
  <2>2. (IF hook.turns = "trail" THEN trail'[page + 1] ELSE r) = r
    BY <1>7
  <2>. QED BY <1>5, <1>10, <2>1, <2>2
<1>12. /\ shown' \in HookState /\ shown'.request = asked' /\ shown'.network = network /\ shown'.status # "success"
       /\ PageWaits'
  BY <1>3, <1>5 DEF Holding, HookState, HookInv, HookTypes, PageWaits
<1>13. calls' \in [HookCalls -> HookCall] /\ CallsHold'
  <2>1. call.request = asked' /\ UNCHANGED network
    BY <1>5, <1>9, Zenon
  <2>. QED BY <1>9, <1>10, <1>11, <1>12, <2>1, OneCall, Zenon
<1>14. asked'[1] = asked[1] /\ asked'[2] = page
  BY <1>3, <1>5, Zenon
<1>15. PagesHold'
  BY <1>1, <1>5, <1>6, <1>14, ZenonT(40) DEF PagesHold, TrailHolds
<1>16. FilterHolds'
  BY <1>1, <1>5, <1>12 DEF FilterHolds, HookInv
<1>17. trail' \in Seq(HookRequest)
  BY <1>5, <1>6, ZenonT(40) DEF HookInv, HookTypes
<1>18. HookTypes'
  BY <1>3, <1>5, <1>12, <1>13, <1>17 DEF HookInv, HookTypes
<1>. QED BY <1>5, <1>12, <1>13, <1>15, <1>16, <1>18 DEF HookInv

LEMMA AnswerShows ==
  ASSUME HookInv, NEW c \in HookCalls, NEW status \in {"success", "error"}, AnswerArrives(c, status)
  PROVE  HookInv'
<1>1. /\ UNCHANGED <<hook, network, asked, account, trail, filter>> /\ InFlight(c) /\ ~hook.filters /\ filter = Nothing
      /\ calls' = [calls EXCEPT ![c] = Unasked] /\ Unasked \in HookCall
  BY HookFields, ZenonT(40) DEF AnswerArrives, HookInv, FilterHolds
<1>2. /\ calls' \in [HookCalls -> HookCall] /\ calls'[c] = Unasked
      /\ \A d \in HookCalls \ {c} : calls'[d] = calls[d]
  BY <1>1 DEF HookInv, HookTypes
<1>3. ~Awaited(c)' /\ ~InFlight(c)' /\ \A d \in HookCalls \ {c} : Awaited(d)' = Awaited(d) /\ InFlight(d)' = InFlight(d)
  BY <1>2 DEF Awaited, InFlight
<1>4. CASE Awaited(c)
  <2>1. PICK now : now = [status |-> status, request |-> calls[c].request, network |-> calls[c].network]
    BY ZenonT(40)
  <2>2. calls[c].request = asked /\ calls[c].network = network /\ PagesHold
    BY <1>4 DEF HookInv, CallsHold, Awaited
  <2>3. now \in HookState /\ now.request = asked /\ now.network = network
    BY <2>1, <2>2 DEF HookState, HookInv, HookTypes
  <2>4. shown' = now
    BY <1>4, <2>1 DEF AnswerArrives, Shows, Awaited
  <2>5. \A d \in HookCalls : ~Awaited(d)'
    BY <1>3, <1>4, ZenonT(40) DEF HookInv, CallsHold
  <2>6. CallsHold'
    BY <1>1, <1>2, <1>3, <2>5 DEF HookInv, CallsHold
  <2>7. PagesHold'
    BY <1>1, <1>4, <2>2, ZenonT(40) DEF PagesHold, TrailHolds
  <2>. QED BY <1>1, <1>2, <2>3, <2>4, <2>6, <2>7 DEF HookInv, HookTypes, FilterHolds
<1>5. CASE ~Awaited(c)
  <2>1. shown' = shown
    BY <1>1, <1>5 DEF AnswerArrives, Shows, Awaited
  <2>2. CallsHold'
    BY <1>1, <1>2, <1>3, <2>1, ZenonT(40) DEF HookInv, CallsHold, PageWaits
  <2>3. PagesHold'
    BY <1>1, <1>3, <2>1 DEF HookInv, PagesHold, TrailHolds
  <2>. QED BY <1>1, <1>2, <2>1, <2>2, <2>3 DEF HookInv, HookTypes, FilterHolds
<1>. QED BY <1>4, <1>5

LEMMA RetryShows == ASSUME HookInv, NEW c \in HookCalls, RequestRetries(c) PROVE HookInv'
<1>1. UNCHANGED <<hook, network, asked, calls, account, trail, filter>> /\ Awaited(c)
  BY DEF RequestRetries, Shows, Awaited
<1>2. calls[c].request = asked /\ calls[c].network = network
  BY <1>1 DEF HookInv, CallsHold, Awaited
<1>3. PICK status \in {"waiting", "loading"} : shown' = [status |-> status, request |-> asked, network |-> network]
  BY <1>2 DEF RequestRetries
<1>4. shown' \in HookState /\ shown'.status = status /\ shown'.request = asked /\ shown'.network = network
  BY <1>3 DEF HookState, HookInv, HookTypes
<1>5. CallsHold'
  BY <1>1, <1>4 DEF HookInv, CallsHold, PageWaits, Awaited, InFlight
<1>6. PagesHold'
  BY <1>1, <1>4, ZenonT(40) DEF HookInv, PagesHold, TrailHolds, Awaited, InFlight
<1>7. FilterHolds'
  BY <1>1, <1>4, ZenonT(40) DEF HookInv, FilterHolds, InFlight
<1>. QED BY <1>1, <1>4, <1>5, <1>6, <1>7 DEF HookInv, HookTypes

(* A tool that is mounted asks at most one question, which its page waits for. *)
LEMMA MountShows ==
  ASSUME NEW n \in Networks, NEW h \in Hooks, KeepsOrder(h), hook = h
  PROVE  /\ Mounted(n).asked = IF h.mounts THEN AtMount ELSE Nothing
         /\ Mounted(n).asked \in HookRequest
         /\ Mounted(n).shown \in HookState /\ Mounted(n).shown.network = n
         /\ Mounted(n).shown.request = Mounted(n).asked
         /\ Mounted(n).shown.status = IF h.mounts THEN "loading" ELSE "idle"
         /\ Mounted(n).calls \in [HookCalls -> HookCall]
         /\ \A c \in HookCalls : Mounted(n).calls[c] # Unasked =>
              /\ h.mounts /\ c = CHOOSE d \in HookCalls : TRUE
              /\ Mounted(n).calls[c].request = AtMount /\ Mounted(n).calls[c].network = n
<1>1. {Nothing, AtMount} \subseteq HookRequest
  BY DEF Nothing, AtMount, HookRequest, Asker
<1>2. Unasked \in HookCall
  BY <1>1, HookConstants DEF Unasked, HookCall
<1>3. PICK own : own = [request |-> AtMount, network |-> n, late |-> FALSE]
  BY ZenonT(40)
<1>4. own \in HookCall /\ own.request = AtMount /\ own.network = n
  BY <1>1, <1>3 DEF HookCall
<1>5. PICK first : first = CHOOSE c \in HookCalls : TRUE
  OBVIOUS
<1>6. Mounted(n).calls = [c \in HookCalls |-> IF h.mounts /\ c = first THEN own ELSE Unasked]
  BY <1>3, <1>5 DEF Mounted
<1>7. Mounted(n).asked = (IF h.mounts THEN AtMount ELSE Nothing) /\ Mounted(n).asked \in HookRequest
  BY <1>1 DEF Mounted
<1>8. PICK state : state = [status |-> IF h.mounts THEN "loading" ELSE "idle",
                            request |-> IF h.mounts THEN AtMount ELSE Nothing, network |-> n]
  BY ZenonT(40)
<1>9. /\ state \in HookState /\ state.network = n /\ state.request = IF h.mounts THEN AtMount ELSE Nothing
      /\ state.status = IF h.mounts THEN "loading" ELSE "idle"
  BY <1>1, <1>8 DEF HookState
<1>10. Mounted(n).shown = state
  BY <1>8 DEF Mounted
<1>11. /\ Mounted(n).calls \in [HookCalls -> HookCall]
       /\ \A c \in HookCalls : Mounted(n).calls[c] # Unasked =>
            h.mounts /\ c = first /\ Mounted(n).calls[c].request = AtMount /\ Mounted(n).calls[c].network = n
  BY <1>2, <1>4, <1>6
<1>. QED BY <1>5, <1>7, <1>9, <1>10, <1>11

LEMMA MountedHolds ==
  ASSUME hook \in Hooks, KeepsOrder(hook), network \in Networks,
         asked = Mounted(network).asked, calls = Mounted(network).calls, shown = Mounted(network).shown,
         account = "nothing", trail = <<>>, filter = Nothing
  PROVE  HookInv
<1>1. /\ asked = (IF hook.mounts THEN AtMount ELSE Nothing) /\ asked \in HookRequest
      /\ shown \in HookState /\ shown.network = network /\ shown.request = asked
      /\ shown.status = IF hook.mounts THEN "loading" ELSE "idle"
      /\ calls \in [HookCalls -> HookCall]
      /\ \A c \in HookCalls : calls[c] # Unasked =>
           /\ hook.mounts /\ c = CHOOSE d \in HookCalls : TRUE
           /\ calls[c].request = AtMount /\ calls[c].network = network
  BY MountShows
<1>2. CallsHold
  BY <1>1, ZenonT(40) DEF CallsHold, Awaited, InFlight, PageWaits
<1>3. PagesHold
  BY <1>1, Zenon DEF PagesHold, KeepsOrder, Awaited, InFlight
<1>4. FilterHolds
  BY <1>1, Zenon DEF FilterHolds, KeepsOrder, InFlight
<1>5. HookTypes
  BY <1>1 DEF HookTypes, Asker, HookRequest, Nothing
<1>. QED BY <1>1, <1>2, <1>3, <1>4, <1>5 DEF HookInv

LEMMA SwitchShows == ASSUME HookInv, NEW n \in Networks, SwitchNetwork(n) PROVE HookInv'
<1>1. /\ hook \in Hooks /\ KeepsOrder(hook) /\ UNCHANGED hook /\ network' = n
      /\ account' = "nothing" /\ trail' = <<>> /\ filter' = Nothing
      /\ asked' = Mounted(n).asked /\ calls' = Mounted(n).calls /\ shown' = Mounted(n).shown
  BY DEF SwitchNetwork, HookInv, HookTypes
<1>2. /\ asked' = (IF hook.mounts THEN AtMount ELSE Nothing) /\ asked' \in HookRequest
      /\ shown' \in HookState /\ shown'.network = n /\ shown'.request = asked'
      /\ shown'.status = IF hook.mounts THEN "loading" ELSE "idle"
      /\ calls' \in [HookCalls -> HookCall]
      /\ \A c \in HookCalls : calls'[c] # Unasked =>
           /\ hook.mounts /\ c = CHOOSE d \in HookCalls : TRUE
           /\ calls'[c].request = AtMount /\ calls'[c].network = n
  BY <1>1, MountShows
<1>3. CallsHold'
  BY <1>1, <1>2, ZenonT(40) DEF CallsHold, Awaited, InFlight, PageWaits
<1>4. PagesHold'
  BY <1>1, <1>2, Zenon DEF PagesHold, KeepsOrder, Awaited, InFlight
<1>5. FilterHolds'
  BY <1>1, <1>2, ZenonT(40) DEF FilterHolds, KeepsOrder, InFlight
<1>6. HookTypes'
  BY <1>1, <1>2 DEF HookTypes, Asker, HookRequest, Nothing
<1>. QED BY <1>1, <1>2, <1>3, <1>4, <1>5, <1>6 DEF HookInv

LEMMA HookStep == HookInv /\ [HookNext]_hookVars => HookInv'
<1>1. SUFFICES ASSUME HookInv, [HookNext]_hookVars PROVE HookInv'
  OBVIOUS
<1>2. CASE SubmitMalformed
  BY <1>1, <1>2, MalformedShows
<1>3. CASE ResetHook
  BY <1>1, <1>3, ResetShows
<1>4. CASE SetFilter
  BY <1>1, <1>4, FilterShows
<1>5. ASSUME NEW c \in HookCalls, RequestRetries(c) PROVE HookInv'
  BY <1>1, <1>5, RetryShows
<1>6. ASSUME NEW c \in HookCalls, RepeatQuestion(c) PROVE HookInv'
  <2>1. account \in Asker /\ SubmitQuestion(c, account)
    BY <1>1, <1>6 DEF RepeatQuestion, HookInv, HookTypes
  <2>. QED BY <1>1, <2>1, QuestionShows
<1>7. ASSUME NEW c \in HookCalls, NEW q \in Questions, SubmitQuestion(c, q) PROVE HookInv'
  <2>1. q \in Asker
    BY DEF Asker
  <2>. QED BY <1>1, <1>7, <2>1, QuestionShows
<1>8. ASSUME NEW c \in HookCalls, NEW by \in {-1, 1}, TurnPage(c, by) PROVE HookInv'
  BY <1>1, <1>8, TurnShows
<1>9. ASSUME NEW c \in HookCalls, NEW status \in {"success", "error"}, AnswerArrives(c, status) PROVE HookInv'
  BY <1>1, <1>9, AnswerShows
<1>10. ASSUME NEW q \in Questions, NEW status \in {"success", "error"}, SubmitAtOnce(q, status) PROVE HookInv'
  BY <1>1, <1>10, AtOnceShows
<1>11. ASSUME NEW n \in Networks, SwitchNetwork(n) PROVE HookInv'
  BY <1>1, <1>11, SwitchShows
<1>12. CASE UNCHANGED hookVars
  BY <1>1, <1>12, Zenon DEF hookVars, HookInv, HookTypes, CallsHold, PagesHold, FilterHolds, TrailHolds, PageWaits, Awaited, InFlight
<1>. QED BY <1>1, <1>2, <1>3, <1>4, <1>5, <1>6, <1>7, <1>8, <1>9, <1>10, <1>11, <1>12 DEF HookNext

(***************************************************************************)
(* Whatever the questions, the pages and the networks, and however many    *)
(* calls are in flight: on the page of every tool that asks the selected   *)
(* network, what is shown is what was asked last, on that network, and a   *)
(* filter belongs to the answer it filters (features/*/hooks,              *)
(* core/network/NetworkProvider.tsx).                                      *)
(***************************************************************************)
THEOREM PagesShowWhatWasAsked ==
  ASSUME Hooks \subseteq SelectedNetworkHooks
  PROVE  HookSpec => []ShowsWhatWasAsked
<1>1. HookInit => HookInv
  BY ToolsKeepOrder, MountedHolds DEF HookInit
<1>2. HookInv => ShowsWhatWasAsked
  BY HookFields DEF HookInv, ShowsWhatWasAsked, FilterHolds
<1>. QED BY <1>1, <1>2, HookStep, PTL DEF HookSpec

(***************************************************************************)
(* And what those tools ask, and what they show, is about the network that *)
(* is selected, which the hooks of TestNetworkHooks do not keep to         *)
(* (features/*/hooks).                                                     *)
(***************************************************************************)
THEOREM PagesAskSelectedNetwork ==
  ASSUME Hooks \subseteq SelectedNetworkHooks
  PROVE  HookSpec => []AsksSelectedNetwork
<1>1. HookInit => HookInv
  BY ToolsKeepOrder, MountedHolds DEF HookInit
<1>2. HookInv => AsksSelectedNetwork
  BY DEF HookInv, AsksSelectedNetwork, CallsHold
<1>. QED BY <1>1, <1>2, HookStep, PTL DEF HookSpec
=============================================================================
