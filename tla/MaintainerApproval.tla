-------------------------- MODULE MaintainerApproval --------------------------
(***************************************************************************)
(* High-impact actions behind signed intents                               *)
(* (core/auth/maintainer-approval.ts).                                     *)
(*                                                                         *)
(* An execution awaits its handler; everything else is one step.  Keys,    *)
(* hashes and signatures are abstracted to who signed what, so a bad       *)
(* signature is a refusal; time is the step in which an intent's expiry    *)
(* passes.  Audit rows are left out.                                       *)
(***************************************************************************)
EXTENDS Naturals, Sequences, Functions, FiniteSets

CONSTANTS
  Intents,      \* intent ids
  Maintainers,  \* who signs and executes
  Thresholds,   \* the requiredSignatures that are asked for
  Executions    \* concurrent calls of executeIntent and executeProtectedAction

ASSUME ApprovalConstants == Thresholds \subseteq Nat /\ "none" \notin Intents

VARIABLES
  intents,    \* intents[i]: its status, what it requires and who signed
  overdue,    \* the intents whose expiresAt has passed
  executing,  \* executing[e]: the intent whose handler e awaits
  handled,    \* handled[i]: how often the handler of i was called
  receipts    \* receipts[i]: the status on the receipt of i, or none

approvalVars == <<intents, overdue, executing, handled, receipts>>

NoIntent == [status |-> "absent", required |-> 0, signatures |-> <<>>]
NotExecuting == "none"

-----------------------------------------------------------------------------
ProposeIntent(i, required) ==
  /\ intents[i] = NoIntent
  /\ intents' = [intents EXCEPT ![i] = [status |-> "pending", required |-> required, signatures |-> <<>>]]
  /\ UNCHANGED <<overdue, executing, handled, receipts>>

(* Mutant: a maintainer may sign the same intent again. *)
MaySignAgain(i, m) == TRUE

NotSignedBy(i, m) == m \notin Range(intents[i].signatures)

(* signIntent: an overdue intent is marked expired instead. *)
SignIntent(i, m) ==
  LET signed == Append(intents[i].signatures, m)
  IN /\ intents[i].status = "pending"
     /\ \/ i \in overdue /\ intents' = [intents EXCEPT ![i].status = "expired"]
        \/ /\ i \notin overdue /\ NotSignedBy(i, m)
           /\ intents' = [intents EXCEPT ![i].signatures = signed,
                            ![i].status = IF Len(signed) >= intents[i].required THEN "approved" ELSE @]
     /\ UNCHANGED <<overdue, executing, handled, receipts>>

(* Mutant: the intent is marked only after its handler. *)
ExecuteUnmarked(e, i) ==
  /\ executing[e] = NotExecuting /\ intents[i].status = "approved" /\ i \notin overdue
  /\ executing' = [executing EXCEPT ![e] = i]
  /\ handled' = [handled EXCEPT ![i] = @ + 1]
  /\ UNCHANGED <<intents, overdue, receipts>>

(* executeIntent up to the handler it awaits. *)
ExecuteIntent(e, i) ==
  /\ executing[e] = NotExecuting /\ intents[i].status = "approved" /\ i \notin overdue
  /\ intents' = [intents EXCEPT ![i].status = "executing"]
  /\ executing' = [executing EXCEPT ![e] = i]
  /\ handled' = [handled EXCEPT ![i] = @ + 1]
  /\ UNCHANGED <<overdue, receipts>>

(* executeIntent on an overdue approval. *)
ExecuteOverdue(i) ==
  /\ intents[i].status = "approved" /\ i \in overdue
  /\ intents' = [intents EXCEPT ![i].status = "expired"]
  /\ UNCHANGED <<overdue, executing, handled, receipts>>

(* The handler settles: the intent, and a receipt that says so. *)
HandlerSettles(e, status) ==
  LET i == executing[e]
  IN /\ i # NotExecuting
     /\ intents' = [intents EXCEPT ![i].status = status]
     /\ receipts' = [receipts EXCEPT ![i] = status]
     /\ executing' = [executing EXCEPT ![e] = NotExecuting]
     /\ UNCHANGED <<overdue, handled>>

(***************************************************************************)
(* verifyProtectedAction on its own: the one thing it writes is the expiry *)
(* of an intent that was not executed.  executeProtectedAction verifies    *)
(* and executes in one step; its other refusals change nothing.            *)
(***************************************************************************)
VerifyProtectedAction(i) ==
  /\ intents[i] # NoIntent /\ intents[i].status \notin {"executed", "executing"} /\ receipts[i] = "none"
  /\ i \in overdue
  /\ intents' = [intents EXCEPT ![i].status = "expired"]
  /\ UNCHANGED <<overdue, executing, handled, receipts>>

IntentLapses(i) ==
  /\ intents[i] # NoIntent /\ i \notin overdue
  /\ overdue' = overdue \cup {i}
  /\ UNCHANGED <<intents, executing, handled, receipts>>

ApprovalInit ==
  /\ intents = [i \in Intents |-> NoIntent]
  /\ overdue = {}
  /\ executing = [e \in Executions |-> NotExecuting]
  /\ handled = [i \in Intents |-> 0]
  /\ receipts = [i \in Intents |-> "none"]

ApprovalNext ==
  \/ \E i \in Intents : \/ \E required \in Thresholds : ProposeIntent(i, required)
                        \/ \E m \in Maintainers : SignIntent(i, m)
                        \/ \E e \in Executions : ExecuteIntent(e, i)
                        \/ ExecuteOverdue(i) \/ VerifyProtectedAction(i) \/ IntentLapses(i)
  \/ \E e \in Executions, status \in {"executed", "failed"} : HandlerSettles(e, status)

ApprovalSpec == ApprovalInit /\ [][ApprovalNext]_approvalVars

-----------------------------------------------------------------------------
(***************************************************************************)
(* An approval is used once: however many executions overlap, the handler  *)
(* of an intent is called at most once, and only when as many different    *)
(* maintainers as it requires have signed (executeIntent, signIntent;      *)
(* "single-execution state machine transitions").                          *)
(***************************************************************************)
HandledOnce ==
  \A i \in Intents :
    /\ handled[i] <= 1
    /\ handled[i] = 1 => Cardinality(Range(intents[i].signatures)) >= intents[i].required

=============================================================================
