----------------------------- MODULE TicketCommit -----------------------------
(***************************************************************************)
(* The domain mutations under concurrency: callers that read a snapshot,   *)
(* run a mutation on it and store the result by compare-and-set            *)
(* (core/invariants/commit.ts), and the two-step transfers of tickets,     *)
(* which touch the domain state and the ownership store                    *)
(* (initiateSafeTicketTransfer, acceptSafeTicketTransfer).                 *)
(*                                                                         *)
(* A caller awaits its reads and its compare-and-sets: a step is a read    *)
(* with the mutation that follows it, or a compare-and-set.                *)
(***************************************************************************)
EXTENDS Tickets, Ownership

CONSTANTS
  Callers,            \* concurrent calls of commitMutation
  MaxCommitAttempts,  \* maxAttempts
  AcceptAlone,        \* does nobody store a state between an acceptance and its store?
  MaxCommits          \* bound: the version at which callers stop

ASSUME CommitConstants ==
  /\ MaxCommitAttempts \in Nat \ {0} /\ MaxCommits \in Nat /\ AcceptAlone \in BOOLEAN
  /\ Resources \subseteq TicketIds /\ Parties \subseteq Addresses
  /\ \A q \in TransferRequests : q.id \notin Proposals
  /\ \A p \in Proposals, t \in Resources, from, to \in Parties :
       [id |-> p, nonce |-> p, ticket |-> t, from |-> from, to |-> to, price |-> 0, parts |-> 0] \in SafeRequests

VARIABLES
  version,  \* the cell's version; the cell's state is domain
  caller    \* caller[c]: what c waits for

commitVars == <<domain, version, caller>>
ticketVars == <<domain, version, caller, proposals, pendingFor, lapsed, transferKeys>>

NoOp == [kind |-> "none"]
Done == [pc |-> "idle", op |-> NoOp, next |-> [ok |-> FALSE], seen |-> 0, tries |-> 0]

Accepting(c) == caller[c].pc = "swap" /\ caller[c].op.kind = "accept"

(* A ticket id is fresh when no ticket has it and nobody is issuing one under it. *)
FreshId(t) ==
  /\ ~Exists(domain, t)
  /\ \A c \in Callers : caller[c].op.kind = "issue" => caller[c].op.ticket # t

(* The op that caller c may run on a fresh snapshot: a new one or the one it retries. *)
Runs(c, op) ==
  /\ version < MaxCommits
  /\ \/ /\ caller[c].pc = "idle"
        /\ op.kind = "issue" /\ ~ReuseTicketIds => FreshId(op.ticket)
     \/ caller[c].pc = "retry" /\ caller[c].op = op

(* The caller awaits the compare-and-set of state next. *)
Swaps(c, op, next) ==
  caller' = [caller EXCEPT ![c] = [pc |-> "swap", op |-> op, next |-> next, seen |-> version, tries |-> @.tries + 1]]

(* A snapshot arrives and the mutation accepts it. *)
CommitReads(c, op) ==
  /\ Runs(c, op)
  /\ \E r \in Results(op, domain) : r.ok /\ Swaps(c, op, r.state)
  /\ UNCHANGED <<domain, version, ownershipVars>>

(* A retried mutation is refused on the new snapshot: rejected. *)
CommitRefused(c) ==
  /\ caller[c].pc = "retry"
  /\ \/ caller[c].op.kind # "accept" /\ \E r \in Results(caller[c].op, domain) : ~r.ok
     \/ caller[c].op.kind = "accept" /\ ~Open(caller[c].op.proposal)
  /\ caller' = [caller EXCEPT ![c] = Done]
  /\ UNCHANGED <<domain, version, ownershipVars>>

(* Mutant: the state is stored whatever the version is. *)
SwapAnyVersion(c) == TRUE

SwapWins(c) == caller[c].seen = version

MayRetry(c) == caller[c].tries < MaxCommitAttempts

(* compareAndSet answers: stored, lost and tried again, or a conflict. *)
CommitSwaps(c) ==
  /\ caller[c].pc = "swap"
  /\ AcceptAlone => \A d \in Callers \ {c} : ~Accepting(d)
  /\ IF SwapWins(c)
     THEN /\ domain' = caller[c].next /\ version' = version + 1
          /\ caller' = [caller EXCEPT ![c] = Done]
     ELSE /\ caller' = [caller EXCEPT ![c] = IF MayRetry(c) THEN [@ EXCEPT !.pc = "retry"] ELSE Done]
          /\ UNCHANGED <<domain, version>>
  /\ UNCHANGED ownershipVars

(* The caller's process dies, or its request is cut off. *)
CallerDies(c) ==
  /\ caller[c].pc # "idle"
  /\ AcceptAlone => ~Accepting(c)
  /\ caller' = [caller EXCEPT ![c] = Done]
  /\ UNCHANGED <<domain, version, ownershipVars>>

-----------------------------------------------------------------------------
(* initiateSafeTicketTransfer, on the current state. *)
SafeInitiate(p, t, from, to, actor) ==
  /\ Exists(domain, t) /\ domain.tickets[t].owner = from /\ ~Locked(domain.tickets[t])
  /\ from \notin Blacklist /\ to \notin Blacklist
  /\ actor \in {from, "maintainer"} /\ from # to /\ NoConflict(t)
  /\ Initiate(p, t, from, to, actor, Unkeyed)
  /\ UNCHANGED commitVars

(* The transfer that accepting p makes; its record and nonce are p's own. *)
SafeRequest(p) ==
  [id |-> p, nonce |-> p, ticket |-> proposals[p].resource, from |-> proposals[p].from,
   to |-> proposals[p].to, price |-> 0, parts |-> 0]

(* Mutant: the proposal is settled although the transfer is refused. *)
SafeAcceptFirst(c, p, actor) ==
  LET op == [kind |-> "accept", proposal |-> p]
  IN /\ Runs(c, op) /\ Open(p) /\ actor \in {proposals[p].to, "maintainer"}
     /\ Accept(p, actor, Unkeyed)
     /\ \E score \in Scores :
          LET r == TransferTicket(domain, SafeRequest(p), score)
          IN IF r.ok THEN Swaps(c, op, r.state) ELSE caller' = [caller EXCEPT ![c] = Done]
     /\ UNCHANGED <<domain, version>>

(***************************************************************************)
(* acceptSafeTicketTransfer as the mutation of a commit: it validates the  *)
(* transfer, then settles the proposal at once, before the state that it   *)
(* returns is stored.                                                      *)
(***************************************************************************)
SafeAccept(c, p, actor) ==
  LET op == [kind |-> "accept", proposal |-> p]
  IN /\ Runs(c, op) /\ Open(p) /\ actor \in {proposals[p].to, "maintainer"}
     /\ \E score \in Scores :
          LET r == TransferTicket(domain, SafeRequest(p), score)
          IN r.ok /\ Swaps(c, op, r.state)
     /\ Accept(p, actor, Unkeyed)
     /\ UNCHANGED <<domain, version>>

(* What else happens to the proposals. *)
ProposalMoves ==
  /\ \/ SweepExpired
     \/ \E p \in Proposals : \/ Expire(p)
                             \/ DeadlinePasses(p)
                             \/ \E actor \in Actors : Cancel(p, actor) \/ Reject(p, actor)
  /\ UNCHANGED commitVars

CommitInit ==
  /\ TicketInit /\ OwnershipInit
  /\ version = 0
  /\ caller = [c \in Callers |-> Done]

CommitNext ==
  \/ \E c \in Callers :
       \/ \E op \in OpsWith(TransferRequests) : CommitReads(c, op)
       \/ CommitRefused(c)
       \/ CommitSwaps(c)
       \/ CallerDies(c)
       \/ \E p \in Proposals, actor \in Actors : SafeAccept(c, p, actor)
  \/ \E p \in Proposals, t \in Resources, from, to \in Parties, actor \in Actors :
       SafeInitiate(p, t, from, to, actor)
  \/ ProposalMoves

CommitSpec == CommitInit /\ [][CommitNext]_ticketVars

-----------------------------------------------------------------------------
(***************************************************************************)
(* An accepted proposal has moved its ticket: the transfer is in the       *)
(* state, or its store is still awaited, and what is not accepted has      *)
(* moved nothing (acceptSafeTicketTransfer: "refuses risky acceptance      *)
(* without marking the proposal accepted").  With AcceptAlone only: a      *)
(* store lost to another caller leaves an accepted proposal behind.        *)
(***************************************************************************)
AcceptedMoves ==
  \A p \in Proposals :
    proposals[p].status = "accepted" <=>
      \/ \E c \in Callers : Accepting(c) /\ caller[c].op.proposal = p
      \/ \E i \in DOMAIN domain.transfers : domain.transfers[i].id = p
=============================================================================
