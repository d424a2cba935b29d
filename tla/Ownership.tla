------------------------------ MODULE Ownership ------------------------------
(***************************************************************************)
(* The store of two-step ownership transfers (core/ownership/ownership.ts). *)
(*                                                                         *)
(* Every method is synchronous.  Time is the step in which a proposal's    *)
(* deadline passes; a lapsed proposal is marked expired only by the method *)
(* that next looks at it.  Calls carry an idempotency key or Unkeyed; the  *)
(* keys' own store is modelled in Idempotency, so here a key is free,      *)
(* claimed by begin, or completed.  A maintainer may act for anybody.      *)
(***************************************************************************)
EXTENDS Naturals, FiniteSets

CONSTANTS
  Proposals,    \* transfer ids
  Resources,    \* what is owned
  Parties,      \* principals; "maintainer" acts for any of them
  TransferKeys  \* idempotency keys

ASSUME OwnershipConstants == "none" \notin Proposals

VARIABLES
  proposals,    \* proposalsById
  pendingFor,   \* activeByResource: a proposal or "none"
  lapsed,       \* the proposals whose expiresAt has passed
  transferKeys  \* transferKeys[k]: free, in_flight or completed

ownershipVars == <<proposals, pendingFor, lapsed, transferKeys>>

Absent == [status |-> "absent", resource |-> "none", from |-> "none", to |-> "none"]
Unkeyed == "no key"
Actors == Parties \cup {"maintainer"}

-----------------------------------------------------------------------------
Lapsed(p) == proposals[p].status = "pending" /\ p \in lapsed

(* proposalsById and activeByResource after proposal p is given a final status. *)
Marked(ps, p, status) == [ps EXCEPT ![p].status = status]

Cleared(ptr, p) ==
  [ptr EXCEPT ![proposals[p].resource] = IF @ = p THEN "none" ELSE @]

(* begin: a key that is not free answers the call by itself. *)
MayBegin(k) == k # Unkeyed => transferKeys[k] = "free"
KeyAfter(k, status) == IF k = Unkeyed THEN transferKeys ELSE [transferKeys EXCEPT ![k] = status]

(* Mutant: a pending proposal of the resource is not looked for. *)
FreeToPropose(r) == TRUE

(* The conflict check of initiate. *)
NoConflict(r) == pendingFor[r] # "none" => Lapsed(pendingFor[r])

(***************************************************************************)
(* initiate.  A refusal after begin leaves the key claimed; the conflict   *)
(* check marks a lapsed proposal expired before the new one is stored.     *)
(***************************************************************************)
Initiate(p, r, from, to, actor, k) ==
  LET old == pendingFor[r]
      swept == IF old # "none" /\ Lapsed(old) THEN Marked(proposals, old, "expired") ELSE proposals
  IN /\ proposals[p] = Absent /\ MayBegin(k)
     /\ IF actor \in {from, "maintainer"} /\ from # to /\ NoConflict(r)
        THEN /\ proposals' = [swept EXCEPT ![p] = [status |-> "pending", resource |-> r, from |-> from, to |-> to]]
             /\ pendingFor' = [pendingFor EXCEPT ![r] = p]
             /\ transferKeys' = KeyAfter(k, "completed")
        ELSE /\ transferKeys' = KeyAfter(k, "in_flight")
             /\ UNCHANGED <<proposals, pendingFor>>
     /\ UNCHANGED lapsed

(* checkExpiration alone: getTransfer, queryTransfers, or a refused call on a lapsed proposal. *)
Expire(p) ==
  /\ Lapsed(p)
  /\ proposals' = Marked(proposals, p, "expired")
  /\ pendingFor' = Cleared(pendingFor, p)
  /\ UNCHANGED <<lapsed, transferKeys>>

(* sweepExpired. *)
SweepExpired ==
  /\ \E p \in Proposals : Lapsed(p)
  /\ proposals' = [p \in Proposals |-> IF Lapsed(p) THEN [proposals[p] EXCEPT !.status = "expired"] ELSE proposals[p]]
  /\ pendingFor' = [r \in Resources |-> IF pendingFor[r] # "none" /\ Lapsed(pendingFor[r]) THEN "none" ELSE pendingFor[r]]
  /\ UNCHANGED <<lapsed, transferKeys>>

Open(p) == proposals[p].status = "pending" /\ p \notin lapsed

Settle(p, status) ==
  /\ proposals' = Marked(proposals, p, status)
  /\ pendingFor' = Cleared(pendingFor, p)

(* accept: a refusal, which may mark the proposal expired, leaves the key claimed. *)
Accept(p, actor, k) ==
  /\ proposals[p] # Absent /\ MayBegin(k)
  /\ \/ /\ Open(p) /\ actor \in {proposals[p].to, "maintainer"}
        /\ Settle(p, "accepted")
        /\ transferKeys' = KeyAfter(k, "completed")
     \/ /\ ~Open(p) /\ Lapsed(p)
        /\ Settle(p, "expired")
        /\ transferKeys' = KeyAfter(k, "in_flight")
     \/ /\ ~Lapsed(p) /\ ~(Open(p) /\ actor \in {proposals[p].to, "maintainer"})
        /\ transferKeys' = KeyAfter(k, "in_flight")
        /\ UNCHANGED <<proposals, pendingFor>>
  /\ UNCHANGED lapsed

Cancel(p, actor) ==
  /\ Open(p) /\ actor \in {proposals[p].from, "maintainer"}
  /\ Settle(p, "cancelled")
  /\ UNCHANGED <<lapsed, transferKeys>>

Reject(p, actor) ==
  /\ Open(p) /\ actor \in {proposals[p].to, "maintainer"}
  /\ Settle(p, "rejected")
  /\ UNCHANGED <<lapsed, transferKeys>>

(* Time: the deadline of a pending proposal passes. *)
DeadlinePasses(p) ==
  /\ proposals[p].status = "pending" /\ p \notin lapsed
  /\ lapsed' = lapsed \cup {p}
  /\ UNCHANGED <<proposals, pendingFor, transferKeys>>

OwnershipInit ==
  /\ proposals = [p \in Proposals |-> Absent]
  /\ pendingFor = [r \in Resources |-> "none"]
  /\ lapsed = {}
  /\ transferKeys = [k \in TransferKeys |-> "free"]

OwnershipNext ==
  \/ SweepExpired
  \/ \E p \in Proposals :
       \/ Expire(p)
       \/ DeadlinePasses(p)
       \/ \E r \in Resources, from, to \in Parties, actor \in Actors, k \in TransferKeys \cup {Unkeyed} :
            Initiate(p, r, from, to, actor, k)
       \/ \E actor \in Actors : \/ \E k \in TransferKeys \cup {Unkeyed} : Accept(p, actor, k)
                                \/ Cancel(p, actor)
                                \/ Reject(p, actor)

OwnershipSpec == OwnershipInit /\ [][OwnershipNext]_ownershipVars

-----------------------------------------------------------------------------
(***************************************************************************)
(* The index and the proposals agree: a resource points to the one pending *)
(* proposal it has and to nothing else, across lapses that nobody has      *)
(* looked at yet (activeByResource; "Ensure no active pending transfer for *)
(* this resource").                                                        *)
(***************************************************************************)
OnePending ==
  \A r \in Resources :
    {p \in Proposals : proposals[p].status = "pending" /\ proposals[p].resource = r}
      = IF pendingFor[r] = "none" THEN {} ELSE {pendingFor[r]}

=============================================================================
