------------------------------- MODULE Tickets -------------------------------
(***************************************************************************)
(* The domain state and its mutations (core/invariants/mutations.ts and    *)
(* checker.ts) with the transfer risk gate that they call                  *)
(* (core/transfer-risk/policy.ts, records.ts, workflow.ts), and the        *)
(* abstract specification that every commit is held to: the state changes  *)
(* only by one mutation applied to the current state.                      *)
(*                                                                         *)
(* A mutation is pure: Results(op, s) is the set of its answers on the     *)
(* snapshot s, a refusal or the next state.  It is a set because the risk  *)
(* score depends on the clock, the device and the policy: a score is low   *)
(* (under reviewScore), high or extreme (from blockScore on).  There is    *)
(* one event.  Amounts are kept as a price and the sum of its parts;       *)
(* malformed amounts, windows, ids and reasons are refusals.               *)
(***************************************************************************)
EXTENDS Naturals, Sequences, FiniteSets

CONSTANTS
  TicketIds,         \* ids of tickets
  Addresses,         \* owners and reviewers
  Blacklist,         \* blacklistedAddresses
  Reviewers,         \* the organizer and the maintainers
  IssueTo,           \* the addresses that tickets are issued to
  Capacity,          \* the event's totalCapacity
  TransferRequests,  \* the requests made: [id, nonce, ticket, from, to, price, parts]
  SafeRequests,      \* the requests that accepting a proposal makes
  SeedTickets,       \* the tickets the state is seeded with: a set of functions
  ReuseTicketIds     \* may a ticket be issued under an id that is taken?

ASSUME TicketConstants ==
  /\ Capacity \in Nat /\ ReuseTicketIds \in BOOLEAN
  /\ Blacklist \subseteq Addresses /\ IssueTo \subseteq Addresses /\ Reviewers \subseteq Addresses
  /\ \A q \in TransferRequests \cup SafeRequests : q.ticket \in TicketIds /\ {q.from, q.to} \subseteq Addresses

VARIABLE domain  \* the DomainState

NoTicket == [owner |-> "nobody", status |-> "none", fraud |-> FALSE, nonce |-> 0]

Ticket == [owner : Addresses, status : {"issued", "transferred", "locked", "redeemed", "expired", "burned"},
           fraud : BOOLEAN, nonce : Nat]

(* A state is seeded with tickets nobody has transferred yet, within capacity. *)
ASSUME SeedsAreUnmoved ==
  \A tickets \in SeedTickets :
    LET there == {t \in TicketIds : tickets[t] # NoTicket}
    IN /\ tickets \in [TicketIds -> Ticket \cup {NoTicket}] /\ \A t \in TicketIds : tickets[t].nonce = 0
       /\ IsFiniteSet(there) /\ Cardinality(there) <= Capacity

(* VALID_TRANSITIONS, with its terminal states. *)
MayTransition(from, to) ==
  \/ from \in {"issued", "transferred"}
     /\ to \in {"transferred", "locked", "redeemed", "expired", "burned"}
  \/ from = "locked" /\ to \in {"issued", "transferred", "burned"}

Terminal(status) == status \in {"redeemed", "expired", "burned"}

Exists(s, t) == s.tickets[t] # NoTicket
Locked(ticket) == ticket.status = "locked" \/ ticket.fraud

Refused(s) == [ok |-> FALSE, state |-> s]
Answer(s) == [ok |-> TRUE, state |-> s]

-----------------------------------------------------------------------------
(* issueTicket: it does not ask whether the id is taken. *)
IssueTicket(s, t, owner) ==
  IF s.issued + 1 > Capacity \/ owner \in Blacklist
  THEN Refused(s)
  ELSE Answer([s EXCEPT !.issued = @ + 1,
                        !.tickets[t] = [owner |-> owner, status |-> "issued", fraud |-> FALSE, nonce |-> 0]])

(* Mutant: the sender need not own the ticket. *)
ValidUnowned(s, q) ==
  LET ticket == s.tickets[q.ticket]
  IN /\ q.from # q.to
     /\ Exists(s, q.ticket)
     /\ MayTransition(ticket.status, "transferred") /\ ~Locked(ticket)
     /\ q.from \notin Blacklist /\ q.to \notin Blacklist
     /\ q.parts = q.price
     /\ q.nonce \notin s.nonces /\ \A i \in DOMAIN s.transfers : s.transfers[i].id # q.id

(* validateTicketTransfer. *)
ValidTransfer(s, q) ==
  LET ticket == s.tickets[q.ticket]
  IN /\ q.from # q.to
     /\ Exists(s, q.ticket) /\ ticket.owner = q.from
     /\ MayTransition(ticket.status, "transferred") /\ ~Locked(ticket)
     /\ q.from \notin Blacklist /\ q.to \notin Blacklist
     /\ q.parts = q.price
     /\ q.nonce \notin s.nonces /\ \A i \in DOMAIN s.transfers : s.transfers[i].id # q.id

(* The attempts that a request's id or nonce finds; the code takes the first. *)
Matching(s, q) == SelectSeq(s.attempts, LAMBDA a : a.id = q.id \/ a.request.nonce = q.nonce)

(* Mutant: an approval of one request lets another of its ownership version pass. *)
AssessAnyApproved(s, q, score) ==
  LET version == s.tickets[q.ticket].nonce
      first == Matching(s, q)
      held == {s.attempts[i].status : i \in {j \in DOMAIN s.attempts :
                  s.attempts[j].request.ticket = q.ticket /\ s.attempts[j].version = version}}
  IN IF first # <<>> /\ (first[1].request # q \/ first[1].version # version) THEN "blocked"
     ELSE IF "rejected" \in held THEN "rejected"
     ELSE IF "blocked" \in held \/ score = "extreme" THEN "blocked"
     ELSE IF "approved" \in held THEN "allow"
     ELSE IF "review_required" \in held \/ score = "high" THEN "review_required"
     ELSE "allow"

(***************************************************************************)
(* assessTransferRisk: allow, or the status a refused request is recorded  *)
(* with.  Decisions hold a version of the ticket's ownership, whatever the *)
(* id and nonce of the request.                                            *)
(***************************************************************************)
Assess(s, q, score) ==
  LET version == s.tickets[q.ticket].nonce
      first == Matching(s, q)
      active == {s.attempts[i] : i \in {j \in DOMAIN s.attempts :
                   s.attempts[j].request.ticket = q.ticket /\ s.attempts[j].version = version}}
      held == {a.status : a \in active}
  IN IF first # <<>> /\ (first[1].request # q \/ first[1].version # version) THEN "blocked"
     ELSE IF "rejected" \in held THEN "rejected"
     ELSE IF "blocked" \in held \/ score = "extreme" THEN "blocked"
     ELSE IF \E a \in active : a.status = "approved" /\ a.request = q THEN "allow"
     ELSE IF held \cap {"review_required", "approved"} # {} \/ score = "high" THEN "review_required"
     ELSE "allow"

(* Mutant: a completed transfer leaves the competing requests as they are. *)
RecordAttemptAlone(s, q, version, status) ==
  [s EXCEPT !.attempts = Append(SelectSeq(@, LAMBDA a : a.id # q.id),
              [id |-> q.id, request |-> q, version |-> version, status |-> status]),
            !.audit = Append(@, [id |-> q.id, status |-> status])]

(***************************************************************************)
(* recordTransferAttempt: it replaces the attempt of this id and, when the *)
(* transfer is completed, blocks the competing requests of its version,    *)
(* with an audit row for each.                                             *)
(***************************************************************************)
RecordAttempt(s, q, version, status) ==
  LET others == SelectSeq(s.attempts, LAMBDA a : a.id # q.id)
      Superseded(a) ==
        /\ status = "completed" /\ a.request.ticket = q.ticket /\ a.version = version
        /\ a.status \in {"review_required", "approved"}
      blocked == SelectSeq(others, Superseded)
  IN [s EXCEPT !.attempts =
                 Append([i \in DOMAIN others |->
                           IF Superseded(others[i]) THEN [others[i] EXCEPT !.status = "blocked"] ELSE others[i]],
                        [id |-> q.id, request |-> q, version |-> version, status |-> status]),
               !.audit = @ \o [i \in DOMAIN blocked |-> [id |-> blocked[i].id, status |-> "blocked"]]
                           \o << [id |-> q.id, status |-> status] >>]

(* The ticket in its new owner's hands. *)
Handed(ticket, to) == [ticket EXCEPT !.owner = to, !.status = "transferred", !.nonce = @ + 1]

(* transferTicket, with its own call of the risk gate. *)
TransferTicket(s, q, score) ==
  IF ~ValidTransfer(s, q) \/ Assess(s, q, score) # "allow"
  THEN Refused(s)
  ELSE LET moved == [s EXCEPT !.tickets[q.ticket] = Handed(@, q.to),
                              !.transfers = Append(@, q),
                              !.nonces = @ \cup {q.nonce}]
       IN Answer(RecordAttempt(moved, q, s.tickets[q.ticket].nonce, "completed"))

(***************************************************************************)
(* requestTicketTransfer: a known request is answered with the state as it *)
(* is unless it was approved; a request that is not allowed is recorded,   *)
(* and that too is committed.  The clock may move before the second score. *)
(***************************************************************************)
RequestTransfer(s, q, score, rescore) ==
  LET first == Matching(s, q)
      verdict == Assess(s, q, score)
  IN IF first # <<>> /\ first[1].request # q THEN Refused(s)
     ELSE IF first # <<>> /\ first[1].status # "approved" THEN Answer(s)
     ELSE IF first # <<>> /\ s.tickets[q.ticket].nonce # first[1].version THEN Refused(s)
     ELSE IF ~ValidTransfer(s, q) THEN Refused(s)
     ELSE IF verdict = "allow" THEN TransferTicket(s, q, rescore)
     ELSE Answer(RecordAttempt(s, q, s.tickets[q.ticket].nonce, verdict))

(* reviewTicketTransfer: approve or reject a request that waits, of the current version. *)
ReviewTransfer(s, id, decision, reviewer) ==
  LET mine == {i \in DOMAIN s.attempts : s.attempts[i].id = id}
      Open(a) ==
        /\ reviewer \in Reviewers \ {a.request.from, a.request.to}
        /\ a.status = "review_required"
        /\ s.tickets[a.request.ticket].nonce = a.version
        /\ s.tickets[a.request.ticket].owner = a.request.from
        /\ s.tickets[a.request.ticket].status \in {"issued", "transferred"}
        /\ ~s.tickets[a.request.ticket].fraud
  IN IF \E i \in mine : Open(s.attempts[i])
     THEN Answer([s EXCEPT !.attempts = [i \in DOMAIN @ |-> IF i \in mine THEN [@[i] EXCEPT !.status = decision] ELSE @[i]],
                           !.audit = Append(@, [id |-> id, status |-> decision])])
     ELSE Refused(s)

(* redeemTicket, inside the ticket's window. *)
RedeemTicket(s, t, claimer) ==
  IF /\ Exists(s, t) /\ s.tickets[t].owner = claimer
     /\ MayTransition(s.tickets[t].status, "redeemed") /\ ~Locked(s.tickets[t])
  THEN Answer([s EXCEPT !.tickets[t].status = "redeemed"])
  ELSE Refused(s)

-----------------------------------------------------------------------------
Scores == {"low", "high", "extreme"}

(* The mutations that transfer by the given requests, or do not transfer. *)
OpsWith(requests) ==
  [kind : {"issue"}, ticket : TicketIds, owner : IssueTo]
  \cup [kind : {"transfer", "request"}, request : requests]
  \cup [kind : {"review"}, id : {q.id : q \in TransferRequests}, decision : {"approved", "rejected"},
        reviewer : Reviewers]
  \cup [kind : {"redeem"}, ticket : TicketIds, claimer : Addresses]

(* The mutate of commitMutation: what op answers on the snapshot s. *)
Results(op, s) ==
  CASE op.kind = "issue" -> {IssueTicket(s, op.ticket, op.owner)}
    [] op.kind = "transfer" -> {TransferTicket(s, op.request, score) : score \in Scores}
    [] op.kind = "request" ->
         {RequestTransfer(s, op.request, score, rescore) : score \in Scores, rescore \in Scores}
    [] op.kind = "review" -> {ReviewTransfer(s, op.id, op.decision, op.reviewer)}
    [] op.kind = "redeem" -> {RedeemTicket(s, op.ticket, op.claimer)}

Seeded(tickets) ==
  [issued |-> Cardinality({t \in TicketIds : tickets[t] # NoTicket}), tickets |-> tickets,
   transfers |-> <<>>, nonces |-> {}, attempts |-> <<>>, audit |-> <<>>]

TicketInit == \E tickets \in SeedTickets : domain = Seeded(tickets)

(* One mutation, on the current state. *)
Mutation ==
  \E op \in OpsWith(TransferRequests \cup SafeRequests) :
    \E r \in Results(op, domain) : r.ok /\ domain' = r.state

TicketSpec == TicketInit /\ [][domain' = domain \/ Mutation]_domain

-----------------------------------------------------------------------------
Existing(s) == {t \in TicketIds : Exists(s, t)}

(* Where the transfers of ticket t are. *)
Moves(s, t) == {i \in DOMAIN s.transfers : s.transfers[i].ticket = t}

(* They are as many as the ticket's nonce says, the last is to its owner, each starts where the one before ended. *)
Chain(s, t) ==
  /\ Cardinality(Moves(s, t)) = s.tickets[t].nonce
  /\ \A j \in Moves(s, t) : (\A i \in Moves(s, t) : i <= j) => s.transfers[j].to = s.tickets[t].owner
  /\ \A i, j \in Moves(s, t) : i < j /\ (\A k \in Moves(s, t) : k <= i \/ j <= k) =>
       s.transfers[j].from = s.transfers[i].to

UsedOnce(s) ==
  /\ s.nonces = {s.transfers[i].nonce : i \in DOMAIN s.transfers}
  /\ \A i, j \in DOMAIN s.transfers :
       s.transfers[i].id = s.transfers[j].id \/ s.transfers[i].nonce = s.transfers[j].nonce => i = j

(***************************************************************************)
(* Nobody's ticket is lost or doubled, and none is oversold: the transfers *)
(* of a ticket form a chain that ends at its owner, as many as its nonce   *)
(* counts, no nonce or id is used twice, and the event counts the tickets  *)
(* there are, within its capacity. A lost update, or a validation against  *)
(* a stale snapshot, breaks it (INV-01, INV-02, INV-09 and INV-10;         *)
(* issueTicket, validateTicketTransfer, transferTicket, commitMutation).   *)
(***************************************************************************)
OwnershipChain ==
  /\ \A t \in TicketIds : Chain(domain, t)
  /\ UsedOnce(domain)
  /\ domain.issued = Cardinality(Existing(domain)) /\ domain.issued <= Capacity

(* The statuses held against the current ownership version of ticket t. *)
HeldStatuses(s, t) ==
  {s.attempts[i].status : i \in {j \in DOMAIN s.attempts :
     s.attempts[j].request.ticket = t /\ s.attempts[j].version = s.tickets[t].nonce}}

(***************************************************************************)
(* A review cannot be bypassed: while a request for a version of a ticket  *)
(* is rejected or blocked the owner stays, and while one waits or is       *)
(* approved only an approved request moves the ticket, whatever ids and    *)
(* nonces other requests use (assessTransferRisk, requestTicketTransfer;   *)
(* "Pending and rejected reviews cannot be bypassed").                     *)
(***************************************************************************)
ReviewsHold ==
  [][\A t \in Existing(domain) :
       LET held == HeldStatuses(domain, t)
       IN domain'.tickets[t].owner # domain.tickets[t].owner =>
            /\ held \cap {"rejected", "blocked"} = {}
            /\ held \cap {"review_required", "approved"} # {} =>
                 \E i \in DOMAIN domain.attempts :
                   /\ domain.attempts[i].status = "approved"
                   /\ domain.attempts[i].version = domain.tickets[t].nonce
                   /\ domain.attempts[i].request = domain'.transfers[Len(domain'.transfers)]]_domain

(***************************************************************************)
(* The audit explains every request: the last row about it has its status, *)
(* no request waits or is approved for a version of the ticket that is     *)
(* gone, and a completed one is among the transfers, for a version that is *)
(* gone (recordTransferAttempt, reviewTicketTransfer: "Completing one      *)
(* reviewed request closes competing pending requests for that version").  *)
(***************************************************************************)
AuditExplains ==
  \A i \in DOMAIN domain.attempts :
    LET a == domain.attempts[i]
        rows == SelectSeq(domain.audit, LAMBDA row : row.id = a.id)
        version == domain.tickets[a.request.ticket].nonce
    IN /\ rows # <<>> /\ rows[Len(rows)].status = a.status
       /\ a.status \in {"review_required", "approved"} => a.version = version
       /\ a.status = "completed" =>
            a.version < version /\ \E j \in DOMAIN domain.transfers : domain.transfers[j] = a.request

(***************************************************************************)
(* verifyAll finds nothing wrong with a state that the mutations made.     *)
(* The code's own verifier, as far as the state is kept here: INV-05,      *)
(* INV-06, INV-09, INV-10 and INV-11.                                      *)
(***************************************************************************)
VerifyAll(s) ==
  /\ \A t \in TicketIds :
       /\ s.tickets[t].fraud => s.tickets[t].status \in {"locked", "burned"}
       /\ s.tickets[t].owner \in Blacklist => s.tickets[t].status \in {"locked", "burned"}
  /\ s.issued <= Capacity /\ Cardinality({t \in TicketIds : Exists(s, t)}) <= Capacity
  /\ \A i \in DOMAIN s.transfers :
       /\ s.transfers[i].parts = s.transfers[i].price
       /\ s.transfers[i].nonce \notin s.nonces
       /\ \A j \in 1..(i - 1) : s.transfers[j].nonce # s.transfers[i].nonce

StateVerifies == VerifyAll(domain)
=============================================================================
