---------------------------- MODULE TicketProofs ----------------------------
(***************************************************************************)
(* What is proved of the tickets: of the transfers agreed in two steps, of *)
(* the mutations of the domain state, and of their commits under           *)
(* concurrency, for any number of callers, tickets, proposals and          *)
(* requests.                                                               *)
(***************************************************************************)
EXTENDS TicketCommit, FiniteSetTheorems, TLAPS

(***************************************************************************)
(* Ownership transfers.  OnePending compares two sets; the invariant says  *)
(* the same element by element, with the types.                            *)
(***************************************************************************)
Proposal == [status : {"pending", "accepted", "cancelled", "rejected", "expired"},
             resource : Resources, from : Parties, to : Parties]

OwnershipTypes ==
  /\ proposals \in [Proposals -> Proposal \cup {Absent}]
  /\ pendingFor \in [Resources -> Proposals \cup {"none"}]

IndexAgrees ==
  /\ \A p \in Proposals : proposals[p].status = "pending" => pendingFor[proposals[p].resource] = p
  /\ \A r \in Resources : pendingFor[r] # "none" =>
       proposals[pendingFor[r]].status = "pending" /\ proposals[pendingFor[r]].resource = r

OwnershipInv == OwnershipTypes /\ IndexAgrees

(* A proposal that is there has all its fields. *)
LEMMA ProposalFields ==
  ASSUME OwnershipTypes, NEW p \in Proposals
  PROVE  /\ proposals[p] # Absent => proposals[p] \in Proposal /\ proposals[p].resource \in Resources
         /\ proposals[p].status = "pending" => proposals[p] \in Proposal
         /\ proposals[p] = Absent => proposals[p].status = "absent"
BY DEF OwnershipTypes, Proposal, Absent

(* Giving one pending proposal a final status, and its resource back, keeps index and proposals in step. *)
LEMMA SettleKeepsIndex ==
  ASSUME OwnershipInv, NEW p \in Proposals, proposals[p].status = "pending",
         NEW status \in {"accepted", "cancelled", "rejected", "expired"},
         proposals' = Marked(proposals, p, status), pendingFor' = Cleared(pendingFor, p)
  PROVE  OwnershipInv'
<1>0. proposals[p] \in Proposal /\ proposals[p].resource \in Resources
  BY ProposalFields DEF OwnershipInv, Proposal
<1>1. proposals'[p] = [proposals[p] EXCEPT !.status = status]
      /\ \A q \in Proposals \ {p} : proposals'[q] = proposals[q]
  BY DEF Marked, OwnershipInv, OwnershipTypes
<1>2. proposals'[p] \in Proposal /\ proposals'[p].status = status /\ proposals'[p].resource = proposals[p].resource
  BY <1>0, <1>1 DEF Proposal
<1>3. proposals' \in [Proposals -> Proposal \cup {Absent}]
  BY <1>1, <1>2 DEF Marked, OwnershipInv, OwnershipTypes
<1>4. pendingFor[proposals[p].resource] = p
  BY DEF OwnershipInv, IndexAgrees
<1>5. /\ pendingFor'[proposals[p].resource] = "none"
      /\ \A r \in Resources \ {proposals[p].resource} : pendingFor'[r] = pendingFor[r]
      /\ pendingFor' \in [Resources -> Proposals \cup {"none"}]
  BY <1>0, <1>4 DEF Cleared, OwnershipInv, OwnershipTypes
<1>6. \A q \in Proposals : proposals'[q].status = "pending" => pendingFor'[proposals'[q].resource] = q
  <2>. SUFFICES ASSUME NEW q \in Proposals, proposals'[q].status = "pending"
                PROVE  pendingFor'[proposals'[q].resource] = q
    OBVIOUS
  <2>1. q # p /\ proposals'[q] = proposals[q]
    BY <1>1, <1>2, Zenon
  <2>2. proposals[q].resource \in Resources /\ pendingFor[proposals[q].resource] = q
    BY <2>1, ProposalFields DEF OwnershipInv, IndexAgrees, Proposal
  <2>. QED BY <1>4, <1>5, <2>1, <2>2
<1>7. \A r \in Resources : pendingFor'[r] # "none" =>
        proposals'[pendingFor'[r]].status = "pending" /\ proposals'[pendingFor'[r]].resource = r
  <2>. SUFFICES ASSUME NEW r \in Resources, pendingFor'[r] # "none"
                PROVE  proposals'[pendingFor'[r]].status = "pending" /\ proposals'[pendingFor'[r]].resource = r
    OBVIOUS
  <2>1. r # proposals[p].resource /\ pendingFor'[r] = pendingFor[r] /\ pendingFor[r] \in Proposals
    BY <1>5 DEF OwnershipInv, OwnershipTypes
  <2>2. pendingFor[r] # p
    BY <2>1 DEF OwnershipInv, IndexAgrees
  <2>. QED BY <1>1, <2>1, <2>2 DEF OwnershipInv, IndexAgrees
<1>. QED BY <1>3, <1>5, <1>6, <1>7 DEF OwnershipInv, OwnershipTypes, IndexAgrees

(* A proposal that is made replaces at most a lapsed one of its resource (initiate). *)
LEMMA InitiateKeepsIndex ==
  ASSUME OwnershipInv, NEW p \in Proposals, NEW r \in Resources, NEW from \in Parties, NEW to \in Parties,
         NEW actor, NEW k, Initiate(p, r, from, to, actor, k)
  PROVE  OwnershipInv'
<1>1. CASE UNCHANGED <<proposals, pendingFor>>
  BY <1>1 DEF OwnershipInv, OwnershipTypes, IndexAgrees
<1>2. CASE ~UNCHANGED <<proposals, pendingFor>>
  <2> DEFINE old == pendingFor[r]
             swept == IF old # "none" /\ Lapsed(old) THEN Marked(proposals, old, "expired") ELSE proposals
             new == [status |-> "pending", resource |-> r, from |-> from, to |-> to]
  <2>1. /\ proposals[p] = Absent /\ NoConflict(r)
        /\ proposals' = [swept EXCEPT ![p] = new] /\ pendingFor' = [pendingFor EXCEPT ![r] = p]
    BY <1>2 DEF Initiate
  <2>2. new \in Proposal /\ proposals[p].status # "pending"
    BY <2>1 DEF Proposal, Absent
  <2>3. old # "none" => old \in Proposals /\ old # p /\ proposals[old].status = "pending" /\ proposals[old].resource = r
    BY <2>2 DEF OwnershipInv, OwnershipTypes, IndexAgrees
  <2>4. /\ swept \in [Proposals -> Proposal \cup {Absent}]
        /\ \A q \in Proposals : q # old => swept[q] = proposals[q]
        /\ old # "none" => swept[old].status = "expired"
    <3>1. CASE old = "none"
      BY <3>1 DEF OwnershipInv, OwnershipTypes
    <3>2. CASE old # "none"
      <4>1. Lapsed(old) /\ swept = Marked(proposals, old, "expired")
        BY <2>1, <3>2 DEF NoConflict
      <4>2. proposals[old] \in Proposal
        BY <2>3, <3>2, ProposalFields DEF OwnershipInv
      <4>3. [proposals[old] EXCEPT !.status = "expired"] \in Proposal
        BY <4>2 DEF Proposal
      <4>4. [proposals[old] EXCEPT !.status = "expired"].status = "expired"
        BY <4>2 DEF Proposal
      <4>. QED BY <2>3, <3>2, <4>1, <4>3, <4>4 DEF Marked, OwnershipInv, OwnershipTypes
    <3>. QED BY <3>1, <3>2
  <2> HIDE DEF old, swept, new
  <2>5. /\ proposals'[p] = new /\ \A q \in Proposals \ {p} : proposals'[q] = swept[q]
        /\ proposals' \in [Proposals -> Proposal \cup {Absent}]
    BY <2>1, <2>2, <2>4
  <2>6. /\ pendingFor'[r] = p /\ \A s \in Resources \ {r} : pendingFor'[s] = pendingFor[s]
        /\ pendingFor' \in [Resources -> Proposals \cup {"none"}]
    BY <2>1 DEF OwnershipInv, OwnershipTypes
  <2>7. new.status = "pending" /\ new.resource = r
    BY DEF new
  <2>8. \A q \in Proposals : proposals'[q].status = "pending" => pendingFor'[proposals'[q].resource] = q
    <3>. SUFFICES ASSUME NEW q \in Proposals, proposals'[q].status = "pending", q # p
                  PROVE  pendingFor'[proposals'[q].resource] = q
      BY <2>5, <2>6, <2>7
    <3>1. q # old
      BY <2>4, <2>5, OwnershipConstants
    <3>2. proposals'[q] = proposals[q]
      BY <2>4, <2>5, <3>1
    <3>3. proposals[q].resource \in Resources /\ pendingFor[proposals[q].resource] = q
      BY <3>2, ProposalFields DEF OwnershipInv, IndexAgrees, Proposal
    <3>4. proposals[q].resource # r
      BY <3>1, <3>3 DEF old
    <3>. QED BY <2>6, <3>2, <3>3, <3>4
  <2>9. \A s \in Resources : pendingFor'[s] # "none" =>
          proposals'[pendingFor'[s]].status = "pending" /\ proposals'[pendingFor'[s]].resource = s
    <3>. SUFFICES ASSUME NEW s \in Resources, pendingFor'[s] # "none", s # r
                  PROVE  proposals'[pendingFor'[s]].status = "pending" /\ proposals'[pendingFor'[s]].resource = s
      BY <2>5, <2>6, <2>7
    <3>1. /\ pendingFor'[s] = pendingFor[s] /\ pendingFor[s] \in Proposals
          /\ proposals[pendingFor[s]].status = "pending" /\ proposals[pendingFor[s]].resource = s
      BY <2>6 DEF OwnershipInv, OwnershipTypes, IndexAgrees
    <3>2. pendingFor[s] # p /\ pendingFor[s] # old
      BY <2>2, <2>3, <3>1, OwnershipConstants
    <3>. QED BY <2>4, <2>5, <3>1, <3>2
  <2>. QED BY <2>5, <2>6, <2>8, <2>9 DEF OwnershipInv, OwnershipTypes, IndexAgrees
<1>. QED BY <1>1, <1>2

(* The sweep settles every lapsed proposal and gives its resource back (sweepExpired). *)
LEMMA SweepKeepsIndex ==
  ASSUME OwnershipInv, SweepExpired
  PROVE  OwnershipInv'
<1>1. \A p \in Proposals : proposals'[p] = IF Lapsed(p) THEN [proposals[p] EXCEPT !.status = "expired"] ELSE proposals[p]
  BY DEF SweepExpired
<1>2. \A r \in Resources : pendingFor'[r] = IF pendingFor[r] # "none" /\ Lapsed(pendingFor[r]) THEN "none" ELSE pendingFor[r]
  BY DEF SweepExpired
<1>3. ASSUME NEW p \in Proposals, Lapsed(p)
      PROVE  proposals'[p] \in Proposal /\ proposals'[p].status = "expired"
  <2>1. proposals[p] \in Proposal
    BY <1>3, ProposalFields DEF Lapsed, OwnershipInv
  <2>. QED BY <1>1, <1>3, <2>1, Zenon DEF Proposal
<1>4. OwnershipTypes'
  <2>1. \A p \in Proposals : proposals'[p] \in Proposal \cup {Absent}
    BY <1>1, <1>3, Zenon DEF OwnershipInv, OwnershipTypes
  <2>2. \A r \in Resources : pendingFor'[r] \in Proposals \cup {"none"}
    BY <1>2 DEF OwnershipInv, OwnershipTypes
  <2>. QED BY <2>1, <2>2 DEF SweepExpired, OwnershipTypes
<1>5. ASSUME NEW p \in Proposals, proposals'[p].status = "pending"
      PROVE  pendingFor'[proposals'[p].resource] = p
  <2>1. ~Lapsed(p) /\ proposals'[p] = proposals[p]
    BY <1>1, <1>3, <1>5, Zenon
  <2>2. proposals[p].resource \in Resources /\ pendingFor[proposals[p].resource] = p
    BY <1>5, <2>1, ProposalFields DEF OwnershipInv, IndexAgrees, Proposal
  <2>. QED BY <1>2, <2>1, <2>2
<1>6. ASSUME NEW r \in Resources, pendingFor'[r] # "none"
      PROVE  proposals'[pendingFor'[r]].status = "pending" /\ proposals'[pendingFor'[r]].resource = r
  <2>1. pendingFor'[r] = pendingFor[r] /\ pendingFor[r] \in Proposals /\ ~Lapsed(pendingFor[r])
    BY <1>2, <1>6 DEF OwnershipInv, OwnershipTypes
  <2>2. ASSUME NEW p \in Proposals, ~Lapsed(p) PROVE proposals'[p] = proposals[p]
    BY <1>1, <2>2, Zenon
  <2>3. proposals'[pendingFor[r]] = proposals[pendingFor[r]]
    BY <2>1, <2>2
  <2>. QED BY <1>6, <2>1, <2>3 DEF OwnershipInv, IndexAgrees
<1>. QED BY <1>4, <1>5, <1>6 DEF OwnershipInv, IndexAgrees

LEMMA OwnershipStep == OwnershipInv /\ [OwnershipNext]_ownershipVars => OwnershipInv'
<1>. SUFFICES ASSUME OwnershipInv, [OwnershipNext]_ownershipVars PROVE OwnershipInv'
  OBVIOUS
<1>1. ASSUME UNCHANGED <<proposals, pendingFor>> PROVE OwnershipInv'
  BY <1>1 DEF OwnershipInv, OwnershipTypes, IndexAgrees
<1>2. ASSUME NEW p \in Proposals, Expire(p) PROVE OwnershipInv'
  BY <1>2, SettleKeepsIndex DEF Expire, Lapsed
<1>3. ASSUME NEW p \in Proposals, NEW actor, NEW k, Accept(p, actor, k) PROVE OwnershipInv'
  BY <1>1, <1>3, SettleKeepsIndex DEF Accept, Settle, Open, Lapsed
<1>4. ASSUME NEW p \in Proposals, NEW actor, Cancel(p, actor) \/ Reject(p, actor) PROVE OwnershipInv'
  BY <1>4, SettleKeepsIndex DEF Cancel, Reject, Settle, Open
<1>5. ASSUME NEW p \in Proposals, DeadlinePasses(p) PROVE OwnershipInv'
  BY <1>1, <1>5 DEF DeadlinePasses
<1>6. CASE UNCHANGED ownershipVars
  BY <1>1, <1>6 DEF ownershipVars
<1>. QED BY <1>2, <1>3, <1>4, <1>5, <1>6, SweepKeepsIndex, InitiateKeepsIndex DEF OwnershipNext

LEMMA OwnershipStarts == OwnershipInit => OwnershipInv
<1>. SUFFICES ASSUME OwnershipInit PROVE OwnershipInv
  OBVIOUS
<1>1. \A p \in Proposals : proposals[p] = Absent /\ proposals[p].status = "absent"
  BY DEF OwnershipInit, Absent
<1>. QED BY <1>1 DEF OwnershipInit, OwnershipInv, OwnershipTypes, IndexAgrees

(***************************************************************************)
(* A resource points to the one pending proposal it has and to nothing     *)
(* else, for any number of parties, proposals and resources, across lapses *)
(* nobody has looked at yet (initiate, accept, sweepExpired).              *)
(***************************************************************************)
THEOREM IndexIsExact == OwnershipSpec => []OnePending
<1>1. OwnershipInv => OnePending
  <2>. SUFFICES ASSUME OwnershipInv, NEW r \in Resources
                PROVE  {p \in Proposals : proposals[p].status = "pending" /\ proposals[p].resource = r}
                         = IF pendingFor[r] = "none" THEN {} ELSE {pendingFor[r]}
    BY DEF OnePending
  <2>1. CASE pendingFor[r] = "none"
    BY <2>1, OwnershipConstants DEF OwnershipInv, IndexAgrees
  <2>2. CASE pendingFor[r] # "none"
    BY <2>2 DEF OwnershipInv, OwnershipTypes, IndexAgrees
  <2>. QED BY <2>1, <2>2
<1>. QED BY <1>1, OwnershipStarts, OwnershipStep, PTL DEF OwnershipSpec

-----------------------------------------------------------------------------
(***************************************************************************)
(* Commits implement mutations.  A caller that would win its compare-and-  *)
(* set holds what a mutation makes of the state as it is now: nobody has   *)
(* stored anything since it read.                                          *)
(***************************************************************************)
AllRequests == TransferRequests \cup SafeRequests

(* What caller c waits to store is a mutation of the current state. *)
HoldsResult(c) ==
  IF caller[c].op.kind = "accept"
  THEN \E q \in SafeRequests, score \in Scores :
         /\ q.id = caller[c].op.proposal
         /\ TransferTicket(domain, q, score).ok /\ caller[c].next = TransferTicket(domain, q, score).state
  ELSE /\ caller[c].op \in OpsWith(TransferRequests)
       /\ \E r \in Results(caller[c].op, domain) : r.ok /\ caller[c].next = r.state

CallerFields(call) ==
  call = [pc |-> call.pc, op |-> call.op, next |-> call.next, seen |-> call.seen, tries |-> call.tries]

CallerHolds(c) ==
  /\ CallerFields(caller[c])
  /\ caller[c].seen \in Nat /\ caller[c].seen <= version
  /\ caller[c].pc = "swap" /\ caller[c].seen = version => HoldsResult(c)

CommitInv ==
  /\ OwnershipInv
  /\ version \in Nat
  /\ DOMAIN caller = Callers
  /\ \A c \in Callers : CallerHolds(c)

(* The operations of a commit have a kind of their own. *)
LEMMA OpKinds ==
  ASSUME NEW requests, NEW op \in OpsWith(requests)
  PROVE  op.kind \in {"issue", "transfer", "request", "review", "redeem"}
BY DEF OpsWith

(* The proposals move, if they move, as the ownership store says. *)
LEMMA CommitMovesProposals == [CommitNext]_ticketVars => [OwnershipNext]_ownershipVars
<1>. SUFFICES ASSUME CommitNext PROVE [OwnershipNext]_ownershipVars
  BY DEF ticketVars, ownershipVars
<1>1. ASSUME NEW c \in Callers, NEW p \in Proposals, NEW actor \in Actors, SafeAccept(c, p, actor) PROVE OwnershipNext
  <2>1. Accept(p, actor, Unkeyed)
    BY <1>1 DEF SafeAccept
  <2>. QED BY <2>1 DEF OwnershipNext
<1>2. ASSUME NEW p \in Proposals, NEW t \in Resources, NEW from \in Parties, NEW to \in Parties, NEW actor \in Actors,
             SafeInitiate(p, t, from, to, actor)
      PROVE  OwnershipNext
  <2>1. Initiate(p, t, from, to, actor, Unkeyed)
    BY <1>2 DEF SafeInitiate
  <2>. QED BY <2>1 DEF OwnershipNext
<1>3. CASE ProposalMoves
  BY <1>3 DEF ProposalMoves, OwnershipNext
<1>4. ASSUME NEW c \in Callers, \/ \E op \in OpsWith(TransferRequests) : CommitReads(c, op)
                                \/ CommitRefused(c) \/ CommitSwaps(c) \/ CallerDies(c)
      PROVE  UNCHANGED ownershipVars
  BY <1>4 DEF CommitReads, CommitRefused, CommitSwaps, CallerDies
<1>. QED BY <1>1, <1>2, <1>3, <1>4 DEF CommitNext

(* One caller moves, the state stays. *)
LEMMA OneCallerMoves ==
  ASSUME CommitInv, OwnershipInv', NEW c \in Callers, NEW next, caller' = [caller EXCEPT ![c] = next],
         UNCHANGED <<domain, version>>, CallerFields(next), next.seen \in Nat, next.seen <= version,
         next.pc = "swap" /\ next.seen = version => HoldsResult(c)'
  PROVE  CommitInv'
<1>1. caller'[c] = next /\ DOMAIN caller' = Callers /\ \A d \in Callers \ {c} : caller'[d] = caller[d]
  BY DEF CommitInv
<1>2. CallerHolds(c)'
  BY <1>1 DEF CallerHolds
<1>3. \A d \in Callers \ {c} : CallerHolds(d)'
  BY <1>1 DEF CallerHolds, CommitInv, HoldsResult
<1>. QED BY <1>1, <1>2, <1>3 DEF CommitInv

LEMMA DoneFields == CallerFields(Done) /\ Done.seen = 0 /\ Done.pc = "idle" /\ Done.op.kind = "none"
BY DEF Done, CallerFields, NoOp

LEMMA CommitReadsStep ==
  ASSUME CommitInv, OwnershipInv', NEW c \in Callers, NEW op \in OpsWith(TransferRequests), CommitReads(c, op)
  PROVE  CommitInv'
<1>1. PICK r \in Results(op, domain) : r.ok /\ Swaps(c, op, r.state)
  BY DEF CommitReads
<1>. DEFINE next == [pc |-> "swap", op |-> op, next |-> r.state, seen |-> version, tries |-> caller[c].tries + 1]
<1>2. caller' = [caller EXCEPT ![c] = next] /\ UNCHANGED <<domain, version>>
  BY <1>1, Zenon DEF Swaps, CommitReads
<1>3. CallerFields(next) /\ next.seen = version /\ next.op = op /\ next.next = r.state
  BY DEF CallerFields
<1>. HIDE DEF next
<1>4. caller'[c] = next /\ domain' = domain
  BY <1>2 DEF CommitInv
<1>5. HoldsResult(c)'
  <2>1. op.kind # "accept"
    BY OpKinds
  <2>. QED BY <1>1, <1>3, <1>4, <2>1 DEF HoldsResult
<1>6. next.seen \in Nat /\ next.seen <= version
  BY <1>3 DEF CommitInv
<1>. QED BY <1>2, <1>3, <1>5, <1>6, OneCallerMoves, Zenon

(* The request that an acceptance makes is one of its proposal's own. *)
LEMMA SafeRequestsAreSafe ==
  ASSUME OwnershipInv, NEW p \in Proposals, Open(p)
  PROVE  SafeRequest(p) \in SafeRequests /\ SafeRequest(p).id = p
<1>1. proposals[p].resource \in Resources /\ proposals[p].from \in Parties /\ proposals[p].to \in Parties
  BY ProposalFields DEF OwnershipInv, Open, Proposal
<1>. QED BY <1>1, CommitConstants DEF SafeRequest

LEMMA SafeAcceptStep ==
  ASSUME CommitInv, OwnershipInv', NEW c \in Callers, NEW p \in Proposals, NEW actor, SafeAccept(c, p, actor)
  PROVE  CommitInv'
<1>. DEFINE op == [kind |-> "accept", proposal |-> p]
<1>1. PICK score \in Scores : LET r == TransferTicket(domain, SafeRequest(p), score) IN r.ok /\ Swaps(c, op, r.state)
  BY DEF SafeAccept
<1>2. PICK r : r = TransferTicket(domain, SafeRequest(p), score)
  OBVIOUS
<1>. DEFINE next == [pc |-> "swap", op |-> op, next |-> r.state, seen |-> version, tries |-> caller[c].tries + 1]
<1>3. r.ok /\ caller' = [caller EXCEPT ![c] = next] /\ UNCHANGED <<domain, version>>
  BY <1>1, <1>2, Zenon DEF Swaps, SafeAccept
<1>4. CallerFields(next) /\ next.seen = version /\ next.op.kind = "accept" /\ next.op.proposal = p /\ next.next = r.state
  BY DEF CallerFields
<1>. HIDE DEF next
<1>5. caller'[c] = next /\ domain' = domain
  BY <1>3 DEF CommitInv
<1>6. SafeRequest(p) \in SafeRequests /\ SafeRequest(p).id = p
  BY SafeRequestsAreSafe DEF SafeAccept, CommitInv
<1>7. HoldsResult(c)'
  <2>1. PICK q \in SafeRequests : q = SafeRequest(p)
    BY <1>6
  <2>2. q.id = p /\ TransferTicket(domain, q, score).ok /\ r.state = TransferTicket(domain, q, score).state
    BY <1>2, <1>3, <1>6, <2>1
  <2>. QED BY <1>4, <1>5, <2>2 DEF HoldsResult
<1>8. next.seen \in Nat /\ next.seen <= version
  BY <1>4 DEF CommitInv
<1>. QED BY <1>3, <1>4, <1>7, <1>8, OneCallerMoves, Zenon

LEMMA CommitSwapsStep ==
  ASSUME CommitInv, OwnershipInv', NEW c \in Callers, CommitSwaps(c)
  PROVE  CommitInv'
<1>1. CASE SwapWins(c)
  <2>1. version' = version + 1 /\ caller' = [caller EXCEPT ![c] = Done]
    BY <1>1 DEF CommitSwaps
  <2>2. caller'[c] = Done /\ DOMAIN caller' = Callers /\ \A d \in Callers \ {c} : caller'[d] = caller[d]
    BY <2>1 DEF CommitInv
  <2>3. CallerHolds(c)'
    BY <2>1, <2>2, DoneFields DEF CallerHolds, CommitInv
  <2>4. \A d \in Callers \ {c} : CallerHolds(d)'
    <3>. SUFFICES ASSUME NEW d \in Callers \ {c} PROVE CallerHolds(d)'
      OBVIOUS
    <3>1. CallerFields(caller[d]) /\ caller[d].seen \in Nat /\ caller[d].seen <= version /\ version \in Nat
      BY DEF CommitInv, CallerHolds
    <3>2. caller'[d] = caller[d] /\ caller[d].seen # version' /\ caller[d].seen <= version'
      BY <2>1, <2>2, <3>1
    <3>. QED BY <3>1, <3>2 DEF CallerHolds
  <2>. QED BY <2>1, <2>2, <2>3, <2>4 DEF CommitInv
<1>2. CASE ~SwapWins(c)
  <2>. DEFINE next == IF MayRetry(c) THEN [caller[c] EXCEPT !.pc = "retry"] ELSE Done
  <2>1. caller' = [caller EXCEPT ![c] = next] /\ UNCHANGED <<domain, version>>
    BY <1>2 DEF CommitSwaps
  <2>2. CallerFields(next) /\ next.seen \in Nat /\ next.seen <= version /\ next.pc # "swap"
    BY DoneFields DEF CallerFields, CommitInv, CallerHolds
  <2>. HIDE DEF next
  <2>. QED BY <2>1, <2>2, OneCallerMoves, Zenon
<1>. QED BY <1>1, <1>2

LEMMA CommitStep == CommitInv /\ [CommitNext]_ticketVars => CommitInv'
<1>. SUFFICES ASSUME CommitInv, [CommitNext]_ticketVars PROVE CommitInv'
  OBVIOUS
<1>0. OwnershipInv'
  BY CommitMovesProposals, OwnershipStep DEF CommitInv
<1>1. ASSUME NEW c \in Callers, CommitRefused(c) \/ CallerDies(c) PROVE CommitInv'
  <2>1. caller' = [caller EXCEPT ![c] = Done] /\ UNCHANGED <<domain, version>>
    BY <1>1 DEF CommitRefused, CallerDies
  <2>2. Done.seen \in Nat /\ Done.seen <= version
    BY DoneFields DEF CommitInv
  <2>. QED BY <1>0, <2>1, <2>2, DoneFields, OneCallerMoves, Zenon
<1>2. ASSUME UNCHANGED commitVars PROVE CommitInv'
  BY <1>0, <1>2 DEF commitVars, CommitInv, CallerHolds, HoldsResult
<1>3. ASSUME NEW p, NEW t, NEW from, NEW to, NEW actor, SafeInitiate(p, t, from, to, actor) PROVE CommitInv'
  BY <1>2, <1>3 DEF SafeInitiate
<1>4. CASE ProposalMoves
  BY <1>2, <1>4 DEF ProposalMoves
<1>5. CASE UNCHANGED ticketVars
  BY <1>2, <1>5 DEF ticketVars, commitVars
<1>. QED BY <1>0, <1>1, <1>3, <1>4, <1>5, CommitReadsStep, SafeAcceptStep, CommitSwapsStep DEF CommitNext

(***************************************************************************)
(* The composition keeps the ownership store's own specification: what is  *)
(* proved of the store alone holds beside the commits                      *)
(* (initiateSafeTicketTransfer, acceptSafeTicketTransfer).                 *)
(***************************************************************************)
THEOREM CommitsKeepProposals == CommitSpec => OwnershipSpec
<1>1. CommitInit => OwnershipInit
  BY DEF CommitInit
<1>. QED BY <1>1, CommitMovesProposals, PTL DEF CommitSpec, OwnershipSpec

LEMMA CommitInvariant == CommitSpec => []CommitInv
<1>1. CommitInit => CommitInv
  <2>. SUFFICES ASSUME CommitInit PROVE CommitInv
    OBVIOUS
  <2>1. OwnershipInv
    BY OwnershipStarts DEF CommitInit
  <2>2. version \in Nat /\ DOMAIN caller = Callers /\ \A c \in Callers : caller[c] = Done
    BY DEF CommitInit
  <2>3. \A c \in Callers : CallerHolds(c)
    BY <2>2, DoneFields DEF CallerHolds, CommitInit
  <2>. QED BY <2>1, <2>2, <2>3 DEF CommitInv
<1>. QED BY <1>1, CommitStep, PTL DEF CommitSpec

(* A step of the commits changes the state as one mutation of it does, or not at all. *)
LEMMA CommitMutates ==
  CommitInv /\ [CommitNext]_ticketVars => [domain' = domain \/ Mutation]_domain
<1>. SUFFICES ASSUME CommitInv, [CommitNext]_ticketVars, domain' # domain PROVE Mutation
  OBVIOUS
<1>1. PICK c \in Callers : CommitSwaps(c) /\ SwapWins(c)
  <2>1. ASSUME NEW c \in Callers, CommitSwaps(c) PROVE SwapWins(c)
    BY <2>1 DEF CommitSwaps
  <2>2. ASSUME NEW c \in Callers, NEW op, CommitReads(c, op) PROVE FALSE
    BY <2>2 DEF CommitReads
  <2>3. ASSUME NEW c \in Callers, CommitRefused(c) \/ CallerDies(c) PROVE FALSE
    BY <2>3 DEF CommitRefused, CallerDies
  <2>4. ASSUME NEW c \in Callers, NEW p, NEW actor, SafeAccept(c, p, actor) PROVE FALSE
    BY <2>4 DEF SafeAccept
  <2>5. ASSUME NEW p, NEW t, NEW from, NEW to, NEW actor, SafeInitiate(p, t, from, to, actor) PROVE FALSE
    BY <2>5 DEF SafeInitiate, commitVars
  <2>6. ~ProposalMoves
    BY DEF ProposalMoves, commitVars
  <2>7. CommitNext
    BY DEF ticketVars
  <2>. QED BY <2>1, <2>2, <2>3, <2>4, <2>5, <2>6, <2>7 DEF CommitNext
<1>2. HoldsResult(c) /\ domain' = caller[c].next
  BY <1>1 DEF CommitSwaps, SwapWins, CommitInv, CallerHolds
<1>3. CASE caller[c].op.kind = "accept"
  <2>1. PICK q \in SafeRequests, score \in Scores :
          TransferTicket(domain, q, score).ok /\ domain' = TransferTicket(domain, q, score).state
    BY <1>2, <1>3 DEF HoldsResult
  <2>2. PICK op : op = [kind |-> "transfer", request |-> q]
    BY Zenon
  <2>3. op \in OpsWith(TransferRequests \cup SafeRequests) /\ op.kind = "transfer" /\ op.request = q
    BY <2>2 DEF OpsWith
  <2>4. Results(op, domain) = {TransferTicket(domain, q, sc) : sc \in Scores}
    BY <2>3 DEF Results
  <2>. QED BY <2>1, <2>3, <2>4 DEF Mutation
<1>4. CASE caller[c].op.kind # "accept"
  <2>1. caller[c].op \in OpsWith(TransferRequests \cup SafeRequests)
    BY <1>2, <1>4 DEF HoldsResult, OpsWith
  <2>. QED BY <1>2, <1>4, <2>1 DEF HoldsResult, Mutation
<1>. QED BY <1>3, <1>4

(***************************************************************************)
(* Commits implement mutations: however many callers read, compute, lose   *)
(* and retry, the state changes only by one mutation applied to the        *)
(* current state.  No update is lost and none is computed from a stale     *)
(* snapshot, for any number of callers and attempts (commitMutation).      *)
(***************************************************************************)
THEOREM CommitsAreMutations == CommitSpec => TicketSpec
<1>1. CommitInit => TicketInit
  BY DEF CommitInit
<1>. QED BY <1>1, CommitInvariant, CommitMutates, PTL DEF CommitSpec, TicketSpec

-----------------------------------------------------------------------------
(***************************************************************************)
(* What the mutations do to tickets, transfers and counts.                 *)
(***************************************************************************)
DomainFields(s) ==
  s = [issued |-> s.issued, tickets |-> s.tickets, transfers |-> s.transfers, nonces |-> s.nonces,
       attempts |-> s.attempts, audit |-> s.audit]

DomainOK(s) ==
  /\ DomainFields(s)
  /\ s.issued \in Nat
  /\ s.tickets \in [TicketIds -> Ticket \cup {NoTicket}]
  /\ s.transfers \in Seq(AllRequests)

SameTickets(s, n) ==
  /\ n.issued = s.issued /\ n.transfers = s.transfers /\ n.nonces = s.nonces
  /\ \A t \in TicketIds :
       /\ n.tickets[t].owner = s.tickets[t].owner /\ n.tickets[t].nonce = s.tickets[t].nonce
       /\ n.tickets[t] = NoTicket <=> s.tickets[t] = NoTicket

Transferred(s, q, n) ==
  /\ ValidTransfer(s, q) /\ \E score : Assess(s, q, score) = "allow"
  /\ n.issued = s.issued /\ n.transfers = Append(s.transfers, q) /\ n.nonces = s.nonces \cup {q.nonce}
  /\ n.tickets[q.ticket] # NoTicket
  /\ n.tickets[q.ticket].owner = q.to /\ n.tickets[q.ticket].nonce = s.tickets[q.ticket].nonce + 1
  /\ \A t \in TicketIds \ {q.ticket} : n.tickets[t] = s.tickets[t]

Issued(s, t, n) ==
  /\ n.issued = s.issued + 1 /\ n.issued <= Capacity /\ n.transfers = s.transfers /\ n.nonces = s.nonces
  /\ n.tickets[t] # NoTicket /\ n.tickets[t].nonce = 0
  /\ \A u \in TicketIds \ {t} : n.tickets[u] = s.tickets[u]

LEMMA FieldsOf ==
  ASSUME NEW n, NEW i, NEW tk, NEW tr, NEW no, NEW at, NEW au,
         n = [issued |-> i, tickets |-> tk, transfers |-> tr, nonces |-> no, attempts |-> at, audit |-> au]
  PROVE  DomainFields(n) /\ n.issued = i /\ n.tickets = tk /\ n.transfers = tr /\ n.nonces = no
BY DEF DomainFields

LEMMA TicketIsThere == \A ticket \in Ticket : ticket # NoTicket
<1>. SUFFICES ASSUME NEW ticket \in Ticket PROVE ticket.status # NoTicket.status
  OBVIOUS
<1>. QED BY DEF Ticket, NoTicket

(* The attempts and their audit are records beside the tickets (recordTransferAttempt, reviewTicketTransfer). *)
LEMMA RecordsAreBeside ==
  ASSUME NEW s, DomainOK(s), NEW n, DomainFields(n),
         n.issued = s.issued, n.tickets = s.tickets, n.transfers = s.transfers, n.nonces = s.nonces
  PROVE  DomainOK(n) /\ SameTickets(s, n)
BY DEF DomainOK, SameTickets

LEMMA RecordAttemptKeeps ==
  ASSUME NEW s, DomainOK(s), NEW q, NEW v, NEW status, NEW n, n = RecordAttempt(s, q, v, status)
  PROVE  DomainOK(n) /\ SameTickets(s, n) /\ n.tickets = s.tickets
<1>1. PICK i, tk, tr, no, at, au :
        s = [issued |-> i, tickets |-> tk, transfers |-> tr, nonces |-> no, attempts |-> at, audit |-> au]
  BY DEF DomainOK, DomainFields
<1>2. \E attempts, audit : RecordAttempt(s, q, v, status) = [s EXCEPT !.attempts = attempts, !.audit = audit]
  BY Zenon DEF RecordAttempt
<1>3. PICK attempts, audit : n = [s EXCEPT !.attempts = attempts, !.audit = audit]
  BY <1>2, Zenon
<1>4. n = [issued |-> i, tickets |-> tk, transfers |-> tr, nonces |-> no, attempts |-> attempts, audit |-> audit]
  BY <1>1, <1>3, Zenon
<1>5. n.issued = s.issued /\ n.tickets = s.tickets /\ n.transfers = s.transfers /\ n.nonces = s.nonces /\ DomainFields(n)
  BY <1>1, <1>4 DEF DomainFields
<1>. QED BY <1>5, RecordsAreBeside

LEMMA HandedTicket ==
  ASSUME NEW ticket \in Ticket, NEW to \in Addresses
  PROVE  Handed(ticket, to) \in Ticket /\ Handed(ticket, to).owner = to /\ Handed(ticket, to).nonce = ticket.nonce + 1
<1>1. PICK k \in Nat : k = ticket.nonce + 1
  BY DEF Ticket
<1>2. Handed(ticket, to) = [ticket EXCEPT !.owner = to, !.status = "transferred", !.nonce = k]
  BY <1>1 DEF Handed
<1>. QED BY <1>1, <1>2, Zenon DEF Ticket

LEMMA TransferOutcome ==
  ASSUME NEW s, DomainOK(s), NEW q \in AllRequests, NEW score, NEW r, r = TransferTicket(s, q, score), r.ok, NEW n, n = r.state
  PROVE  DomainOK(n) /\ Transferred(s, q, n)
<1>. DEFINE ticket == Handed(s.tickets[q.ticket], q.to)
            moved == [s EXCEPT !.tickets[q.ticket] = ticket, !.transfers = Append(@, q), !.nonces = @ \cup {q.nonce}]
<1>1. /\ ValidTransfer(s, q) /\ Assess(s, q, score) = "allow"
      /\ r = Answer(RecordAttempt(moved, q, s.tickets[q.ticket].nonce, "completed"))
  <2>1. ~(~ValidTransfer(s, q) \/ Assess(s, q, score) # "allow")
    <3>1. Refused(s).ok = FALSE
      BY DEF Refused
    <3>. QED BY <3>1 DEF TransferTicket
  <2>. QED BY <2>1 DEF TransferTicket
<1>2. n = RecordAttempt(moved, q, s.tickets[q.ticket].nonce, "completed")
  BY <1>1 DEF Answer
<1>3. PICK i, tk, tr, no, at, au :
        s = [issued |-> i, tickets |-> tk, transfers |-> tr, nonces |-> no, attempts |-> at, audit |-> au]
  BY DEF DomainOK, DomainFields
<1>4. q.ticket \in TicketIds /\ q.to \in Addresses
  BY TicketConstants DEF AllRequests
<1>5. /\ s.tickets \in [TicketIds -> Ticket \cup {NoTicket}] /\ s.tickets[q.ticket] \in Ticket
      /\ s.transfers \in Seq(AllRequests) /\ s.issued \in Nat
  BY <1>1, <1>4 DEF ValidTransfer, Exists, DomainOK
<1>6. ticket \in Ticket /\ ticket.owner = q.to /\ ticket.nonce = s.tickets[q.ticket].nonce + 1
  BY <1>4, <1>5, HandedTicket
<1>. HIDE DEF ticket
<1>7. moved = [issued |-> i, tickets |-> [tk EXCEPT ![q.ticket] = ticket], transfers |-> Append(tr, q),
               nonces |-> no \cup {q.nonce}, attempts |-> at, audit |-> au]
  <2>1. moved = [s EXCEPT !.tickets = [s.tickets EXCEPT ![q.ticket] = ticket], !.transfers = Append(s.transfers, q),
                          !.nonces = s.nonces \cup {q.nonce}]
    OBVIOUS
  <2>. HIDE DEF moved
  <2>2. PICK a, b, c : a = [tk EXCEPT ![q.ticket] = ticket] /\ b = Append(tr, q) /\ c = no \cup {q.nonce}
    BY Zenon
  <2>3. moved = [s EXCEPT !.tickets = a, !.transfers = b, !.nonces = c]
    BY <1>3, <2>1, <2>2
  <2>. QED BY <1>3, <2>2, <2>3, Zenon
<1>. HIDE DEF moved
<1>8. /\ moved.issued = s.issued /\ moved.tickets = [s.tickets EXCEPT ![q.ticket] = ticket] /\ DomainFields(moved)
      /\ moved.transfers = Append(s.transfers, q) /\ moved.nonces = s.nonces \cup {q.nonce}
  BY <1>3, <1>7 DEF DomainFields
<1>9. DomainOK(moved)
  BY <1>4, <1>5, <1>6, <1>8 DEF DomainOK
<1>10. DomainOK(n) /\ SameTickets(moved, n) /\ n.tickets = moved.tickets
  BY <1>2, <1>9, RecordAttemptKeeps
<1>11. /\ n.tickets[q.ticket] = ticket /\ ticket # NoTicket
       /\ \A t \in TicketIds \ {q.ticket} : n.tickets[t] = s.tickets[t]
  BY <1>4, <1>5, <1>6, <1>8, <1>10, TicketIsThere
<1>. QED BY <1>1, <1>6, <1>8, <1>10, <1>11, Zenon DEF Transferred, SameTickets

LEMMA IssueOutcome ==
  ASSUME NEW s, DomainOK(s), NEW t \in TicketIds, NEW owner \in Addresses,
         NEW r, r = IssueTicket(s, t, owner), r.ok
  PROVE  DomainOK(r.state) /\ Issued(s, t, r.state)
<1>0. PICK n : n = r.state
  OBVIOUS
<1>. DEFINE ticket == [owner |-> owner, status |-> "issued", fraud |-> FALSE, nonce |-> 0]
            m == [s EXCEPT !.issued = @ + 1, !.tickets[t] = ticket]
<1>1. r = Answer(m) /\ s.issued + 1 <= Capacity
  <2>1. ~(s.issued + 1 > Capacity \/ owner \in Blacklist)
    <3>1. Refused(s).ok = FALSE
      BY DEF Refused
    <3>. QED BY <3>1 DEF IssueTicket
  <2>2. s.issued \in Nat /\ Capacity \in Nat
    BY TicketConstants DEF DomainOK
  <2>. QED BY <2>1, <2>2 DEF IssueTicket
<1>2. n = m
  BY <1>0, <1>1 DEF Answer
<1>3. PICK i, tk, tr, no, at, au :
        s = [issued |-> i, tickets |-> tk, transfers |-> tr, nonces |-> no, attempts |-> at, audit |-> au]
  BY DEF DomainOK, DomainFields
<1>4. ticket \in Ticket /\ ticket.nonce = 0 /\ ticket # NoTicket
  <2>1. ticket \in Ticket /\ ticket.nonce = 0
    BY DEF Ticket
  <2>. QED BY <2>1, TicketIsThere, Zenon
<1>. HIDE DEF ticket
<1>5. n = [issued |-> i + 1, tickets |-> [tk EXCEPT ![t] = ticket], transfers |-> tr,
           nonces |-> no, attempts |-> at, audit |-> au]
  <2>1. n = [s EXCEPT !.issued = s.issued + 1, !.tickets = [s.tickets EXCEPT ![t] = ticket]]
    BY <1>2
  <2>2. PICK a, b : a = i + 1 /\ b = [tk EXCEPT ![t] = ticket]
    BY Zenon
  <2>3. n = [s EXCEPT !.issued = a, !.tickets = b]
    BY <1>3, <2>1, <2>2
  <2>4. n = [issued |-> a, tickets |-> b, transfers |-> tr, nonces |-> no, attempts |-> at, audit |-> au]
    BY <1>3, <2>3, Zenon
  <2>. QED BY <2>2, <2>4
<1>. HIDE DEF m
<1>6. /\ n.issued = s.issued + 1 /\ n.tickets = [s.tickets EXCEPT ![t] = ticket] /\ DomainFields(n)
      /\ n.transfers = s.transfers /\ n.nonces = s.nonces
  <2>1. s.issued = i /\ s.tickets = tk /\ s.transfers = tr /\ s.nonces = no
    BY <1>3, FieldsOf
  <2>2. DomainFields(n) /\ n.issued = i + 1 /\ n.tickets = [tk EXCEPT ![t] = ticket] /\ n.transfers = tr /\ n.nonces = no
    BY <1>5, FieldsOf
  <2>. QED BY <2>1, <2>2
<1>7. DomainOK(n)
  BY <1>4, <1>6 DEF DomainOK
<1>8. n.tickets[t] = ticket /\ \A u \in TicketIds \ {t} : n.tickets[u] = s.tickets[u]
  BY <1>6 DEF DomainOK
<1>. QED BY <1>0, <1>1, <1>4, <1>6, <1>7, <1>8 DEF Issued

LEMMA RedeemOutcome ==
  ASSUME NEW s, DomainOK(s), NEW t \in TicketIds, NEW claimer,
         NEW r, r = RedeemTicket(s, t, claimer), r.ok, NEW n, n = r.state
  PROVE  DomainOK(n) /\ SameTickets(s, n)
<1>1. Exists(s, t) /\ n = [s EXCEPT !.tickets[t].status = "redeemed"]
  <2>1. Refused(s).ok = FALSE
    BY DEF Refused
  <2>2. r = Answer([s EXCEPT !.tickets[t].status = "redeemed"]) /\ Exists(s, t)
    BY <2>1 DEF RedeemTicket
  <2>. QED BY <2>2 DEF Answer
<1>2. PICK ticket : ticket = [s.tickets[t] EXCEPT !.status = "redeemed"]
  BY Zenon
<1>3. /\ s.tickets[t] \in Ticket /\ ticket \in Ticket
      /\ ticket.owner = s.tickets[t].owner /\ ticket.nonce = s.tickets[t].nonce
  <2>1. s.tickets[t] \in Ticket
    BY <1>1 DEF DomainOK, Exists
  <2>. QED BY <1>2, <2>1 DEF Ticket
<1>4. PICK i, tk, tr, no, at, au :
        s = [issued |-> i, tickets |-> tk, transfers |-> tr, nonces |-> no, attempts |-> at, audit |-> au]
  BY DEF DomainOK, DomainFields
<1>5. n = [s EXCEPT !.tickets = [s.tickets EXCEPT ![t] = ticket]]
  BY <1>1, <1>2
<1>6. n = [issued |-> i, tickets |-> [tk EXCEPT ![t] = ticket], transfers |-> tr, nonces |-> no, attempts |-> at, audit |-> au]
  <2>1. PICK b : b = [tk EXCEPT ![t] = ticket]
    BY Zenon
  <2>2. n = [s EXCEPT !.tickets = b]
    BY <1>4, <1>5, <2>1
  <2>. QED BY <1>4, <2>1, <2>2
<1>7. /\ n.issued = s.issued /\ n.tickets = [s.tickets EXCEPT ![t] = ticket] /\ DomainFields(n)
      /\ n.transfers = s.transfers /\ n.nonces = s.nonces
  <2>1. s.issued = i /\ s.tickets = tk /\ s.transfers = tr /\ s.nonces = no
    BY <1>4, FieldsOf
  <2>2. DomainFields(n) /\ n.issued = i /\ n.tickets = [tk EXCEPT ![t] = ticket] /\ n.transfers = tr /\ n.nonces = no
    BY <1>6, FieldsOf
  <2>. QED BY <2>1, <2>2
<1>8. DomainOK(n)
  BY <1>3, <1>7 DEF DomainOK
<1>9. n.tickets[t] = ticket /\ \A u \in TicketIds \ {t} : n.tickets[u] = s.tickets[u]
  BY <1>7 DEF DomainOK
<1>10. ticket # NoTicket /\ s.tickets[t] # NoTicket
  BY <1>3, TicketIsThere
<1>. QED BY <1>3, <1>7, <1>8, <1>9, <1>10 DEF SameTickets

LEMMA ReviewOutcome ==
  ASSUME NEW s, DomainOK(s), NEW id, NEW decision, NEW reviewer,
         NEW r, r = ReviewTransfer(s, id, decision, reviewer), r.ok
  PROVE  DomainOK(r.state) /\ SameTickets(s, r.state)
<1>1. \E n, attempts, audit : /\ ReviewTransfer(s, id, decision, reviewer) = Answer(n)
                             /\ n = [s EXCEPT !.attempts = attempts, !.audit = audit]
  <2>1. Refused(s).ok = FALSE
    BY DEF Refused
  <2>2. ReviewTransfer(s, id, decision, reviewer) # Refused(s)
    BY <2>1
  <2>. QED BY <2>2, Zenon DEF ReviewTransfer
<1>2. PICK n, attempts, audit : r = Answer(n) /\ n = [s EXCEPT !.attempts = attempts, !.audit = audit]
  BY <1>1, Zenon
<1>3. n = r.state
  BY <1>2 DEF Answer
<1>4. PICK i, tk, tr, no, at, au :
        s = [issued |-> i, tickets |-> tk, transfers |-> tr, nonces |-> no, attempts |-> at, audit |-> au]
  BY DEF DomainOK, DomainFields
<1>5. n = [issued |-> i, tickets |-> tk, transfers |-> tr, nonces |-> no, attempts |-> attempts, audit |-> audit]
  BY <1>2, <1>4, Zenon
<1>6. n.issued = s.issued /\ n.tickets = s.tickets /\ n.transfers = s.transfers /\ n.nonces = s.nonces /\ DomainFields(n)
  <2>1. s.issued = i /\ s.tickets = tk /\ s.transfers = tr /\ s.nonces = no
    BY <1>4, FieldsOf
  <2>. QED BY <1>5, <2>1, FieldsOf
<1>. QED BY <1>3, <1>6, RecordsAreBeside

LEMMA RequestOutcome ==
  ASSUME NEW s, DomainOK(s), NEW q \in AllRequests, NEW score, NEW rescore,
         NEW r, r = RequestTransfer(s, q, score, rescore), r.ok
  PROVE  DomainOK(r.state) /\ (SameTickets(s, r.state) \/ Transferred(s, q, r.state))
<1>. DEFINE v == s.tickets[q.ticket].nonce
            verdict == Assess(s, q, score)
<1>1. \/ r = Answer(s)
      \/ r = TransferTicket(s, q, rescore)
      \/ r = Answer(RecordAttempt(s, q, v, verdict))
  <2>1. Refused(s).ok = FALSE
    BY DEF Refused
  <2>2. RequestTransfer(s, q, score, rescore) # Refused(s)
    BY <2>1
  <2>. QED BY <2>2, Zenon DEF RequestTransfer
<1>. HIDE DEF v, verdict
<1>2. CASE r = Answer(s)
  <2>1. r.state = s
    BY <1>2 DEF Answer
  <2>. QED BY <2>1 DEF SameTickets
<1>3. CASE r = TransferTicket(s, q, rescore)
  BY <1>3, TransferOutcome
<1>4. CASE r = Answer(RecordAttempt(s, q, v, verdict))
  <2>1. r.state = RecordAttempt(s, q, v, verdict)
    BY <1>4 DEF Answer
  <2>. QED BY <2>1, RecordAttemptKeeps
<1>. QED BY <1>1, <1>2, <1>3, <1>4

(* A mutation that is not refused leaves tickets and transfers, issues a ticket or transfers one. *)
LEMMA MutationOutcome ==
  ASSUME NEW s, DomainOK(s), NEW op \in OpsWith(AllRequests), NEW r \in Results(op, s), r.ok
  PROVE  /\ DomainOK(r.state)
         /\ \/ SameTickets(s, r.state)
            \/ op.kind = "issue" /\ op.ticket \in TicketIds /\ Issued(s, op.ticket, r.state)
            \/ op.kind \in {"transfer", "request"} /\ op.request \in AllRequests /\ Transferred(s, op.request, r.state)
<1>1. CASE op.kind = "issue"
  <2>1. op.ticket \in TicketIds /\ op.owner \in Addresses
    BY <1>1, TicketConstants DEF OpsWith
  <2>2. r = IssueTicket(s, op.ticket, op.owner)
    BY <1>1 DEF Results
  <2>. QED BY <1>1, <2>1, <2>2, IssueOutcome
<1>2. CASE op.kind = "transfer"
  <2>1. op.request \in AllRequests
    BY <1>2 DEF OpsWith
  <2>2. PICK score \in Scores : r = TransferTicket(s, op.request, score)
    BY <1>2 DEF Results
  <2>. QED BY <1>2, <2>1, <2>2, TransferOutcome
<1>3. CASE op.kind = "request"
  <2>1. op.request \in AllRequests
    BY <1>3 DEF OpsWith
  <2>2. PICK score \in Scores, rescore \in Scores : r = RequestTransfer(s, op.request, score, rescore)
    BY <1>3 DEF Results
  <2>. QED BY <1>3, <2>1, <2>2, RequestOutcome
<1>4. CASE op.kind = "review"
  <2>1. r = ReviewTransfer(s, op.id, op.decision, op.reviewer)
    BY <1>4 DEF Results
  <2>. QED BY <2>1, ReviewOutcome
<1>5. CASE op.kind = "redeem"
  <2>1. op.ticket \in TicketIds
    BY <1>5 DEF OpsWith
  <2>2. r = RedeemTicket(s, op.ticket, op.claimer)
    BY <1>5 DEF Results
  <2>. QED BY <2>1, <2>2, RedeemOutcome
<1>. QED BY <1>1, <1>2, <1>3, <1>4, <1>5, OpKinds

-----------------------------------------------------------------------------
(***************************************************************************)
(* The chain of a ticket's owners.                                         *)
(***************************************************************************)
Chained(s) ==
  /\ DomainOK(s)
  /\ \A t \in TicketIds : Chain(s, t)
  /\ UsedOnce(s)
  /\ IsFiniteSet(Existing(s)) /\ s.issued = Cardinality(Existing(s)) /\ s.issued <= Capacity

LEMMA MovesAreFinite ==
  ASSUME NEW s, DomainOK(s), NEW t
  PROVE  IsFiniteSet(Moves(s, t)) /\ Moves(s, t) \subseteq 1..Len(s.transfers)
<1>1. Len(s.transfers) \in Nat /\ DOMAIN s.transfers = 1..Len(s.transfers)
  BY DEF DomainOK
<1>2. IsFiniteSet(1..Len(s.transfers))
  BY <1>1, FS_Interval
<1>3. Moves(s, t) \subseteq 1..Len(s.transfers)
  BY <1>1 DEF Moves
<1>. QED BY <1>2, <1>3, FS_Subset

(* A chain depends on the transfers, the owner and the nonce. *)
LEMMA SameChain ==
  ASSUME NEW s, NEW n, NEW t, Chain(s, t), n.transfers = s.transfers,
         n.tickets[t].owner = s.tickets[t].owner, n.tickets[t].nonce = s.tickets[t].nonce
  PROVE  Chain(n, t)
<1>1. Moves(n, t) = Moves(s, t)
  BY DEF Moves
<1>. QED BY <1>1 DEF Chain

LEMMA SameTicketsChained ==
  ASSUME NEW s, Chained(s), NEW n, DomainOK(n), SameTickets(s, n)
  PROVE  Chained(n)
<1>1. Existing(n) = Existing(s)
  BY DEF Existing, Exists, SameTickets
<1>2. \A t \in TicketIds : Chain(n, t)
  BY SameChain DEF Chained, SameTickets
<1>3. UsedOnce(n)
  BY DEF Chained, SameTickets, UsedOnce
<1>. QED BY <1>1, <1>2, <1>3 DEF Chained, SameTickets

LEMMA IssuedChained ==
  ASSUME NEW s, Chained(s), NEW n, DomainOK(n), NEW t \in TicketIds, ~Exists(s, t), Issued(s, t, n)
  PROVE  Chained(n)
<1>1. Existing(n) = Existing(s) \cup {t} /\ t \notin Existing(s)
  BY DEF Existing, Exists, Issued
<1>2. IsFiniteSet(Existing(n)) /\ Cardinality(Existing(n)) = Cardinality(Existing(s)) + 1
  BY <1>1, FS_AddElement DEF Chained
<1>3. \A u \in TicketIds \ {t} : Chain(n, u)
  BY SameChain DEF Chained, Issued
<1>4. Chain(n, t)
  <2>1. Cardinality(Moves(s, t)) = 0
    BY DEF Chained, Chain, Exists, NoTicket
  <2>2. Moves(s, t) = {}
    BY <2>1, MovesAreFinite, FS_EmptySet DEF Chained
  <2>3. Moves(n, t) = {}
    BY <2>2 DEF Moves, Issued
  <2>4. Cardinality({}) = 0
    BY FS_EmptySet
  <2>. QED BY <2>3, <2>4 DEF Chain, Issued
<1>5. UsedOnce(n)
  BY DEF Chained, Issued, UsedOnce
<1>. QED BY <1>2, <1>3, <1>4, <1>5 DEF Chained, Issued

LEMMA TransferredChained ==
  ASSUME NEW s, Chained(s), NEW n, DomainOK(n), NEW q \in AllRequests, Transferred(s, q, n)
  PROVE  Chained(n)
<1>0. PICK last \in Nat : last = Len(s.transfers)
  BY DEF Chained, DomainOK
<1>1. /\ DOMAIN s.transfers = 1..last /\ DOMAIN n.transfers = 1..(last + 1)
      /\ n.transfers[last + 1] = q /\ \A i \in 1..last : n.transfers[i] = s.transfers[i]
  BY <1>0 DEF Transferred, Chained, DomainOK
<1>2. PICK t \in TicketIds : t = q.ticket
  BY TicketConstants DEF AllRequests
<1>3. /\ s.tickets[t] # NoTicket /\ s.tickets[t].owner = q.from
      /\ q.nonce \notin s.nonces /\ \A i \in 1..last : s.transfers[i].id # q.id
  BY <1>1, <1>2 DEF Transferred, ValidTransfer, Exists
<1>4. Existing(n) = Existing(s)
  BY <1>2, <1>3 DEF Existing, Exists, Transferred
<1>5. UsedOnce(n)
  <2>1. \A i \in 1..last : s.transfers[i].nonce \in s.nonces
    BY <1>1 DEF Chained, UsedOnce
  <2>2. n.nonces = {n.transfers[i].nonce : i \in 1..(last + 1)}
    <3>1. s.nonces = {n.transfers[i].nonce : i \in 1..last}
      BY <1>1 DEF Chained, UsedOnce
    <3>2. 1..(last + 1) = 1..last \cup {last + 1}
      BY <1>0
    <3>. QED BY <1>1, <3>1, <3>2 DEF Transferred
  <2>3. ASSUME NEW i \in 1..(last + 1), NEW j \in 1..(last + 1),
               n.transfers[i].id = n.transfers[j].id \/ n.transfers[i].nonce = n.transfers[j].nonce
        PROVE  i = j
    <3>1. CASE i \in 1..last /\ j \in 1..last
      BY <1>1, <2>3, <3>1, ZenonT(40) DEF Chained, UsedOnce
    <3>2. CASE i = last + 1 /\ j \in 1..last
      BY <1>1, <1>3, <2>1, <2>3, <3>2
    <3>3. CASE j = last + 1 /\ i \in 1..last
      BY <1>1, <1>3, <2>1, <2>3, <3>3
    <3>. QED BY <3>1, <3>2, <3>3
  <2>. QED BY <1>1, <2>2, <2>3 DEF UsedOnce
<1>6. ASSUME NEW u \in TicketIds \ {t} PROVE Chain(n, u)
  <2>1. Moves(n, u) = Moves(s, u)
    BY <1>1, <1>2 DEF Moves
  <2>2. \A i \in Moves(s, u) : n.transfers[i] = s.transfers[i]
    BY <1>1 DEF Moves
  <2>3. n.tickets[u] = s.tickets[u] /\ Chain(s, u)
    BY <1>2 DEF Transferred, Chained
  <2>. QED BY <2>1, <2>2, <2>3 DEF Chain
<1>7. Chain(n, t)
  <2>1. Moves(n, t) = Moves(s, t) \cup {last + 1} /\ last + 1 \notin Moves(s, t)
    BY <1>1, <1>2 DEF Moves
  <2>2. IsFiniteSet(Moves(s, t)) /\ Moves(s, t) \subseteq 1..last
    BY <1>0, MovesAreFinite DEF Chained
  <2>3. \A i \in Moves(s, t) : n.transfers[i] = s.transfers[i]
    BY <1>1, <2>2
  <2>4. Cardinality(Moves(n, t)) = n.tickets[t].nonce
    <3>1. Cardinality(Moves(n, t)) = Cardinality(Moves(s, t)) + 1
      BY <2>1, <2>2, FS_AddElement, Zenon
    <3>. QED BY <1>2, <3>1 DEF Transferred, Chained, Chain
  <2>5. ASSUME NEW j \in Moves(n, t), \A i \in Moves(n, t) : i <= j PROVE n.transfers[j].to = n.tickets[t].owner
    <3>1. j = last + 1
      BY <2>1, <2>2, <2>5
    <3>. QED BY <1>1, <1>2, <3>1 DEF Transferred
  <2>6. ASSUME NEW i \in Moves(n, t), NEW j \in Moves(n, t), i < j, \A k \in Moves(n, t) : k <= i \/ j <= k
        PROVE  n.transfers[j].from = n.transfers[i].to
    <3>1. i \in Moves(s, t) /\ i \in Nat
      BY <2>1, <2>2, <2>6
    <3>2. CASE j \in Moves(s, t)
      BY <2>1, <2>3, <2>6, <3>1, <3>2 DEF Chained, Chain
    <3>3. CASE j = last + 1
      <4>1. \A k \in Moves(s, t) : k <= i
        BY <2>1, <2>2, <2>6, <3>3
      <4>2. s.transfers[i].to = s.tickets[t].owner
        BY <3>1, <4>1 DEF Chained, Chain
      <4>. QED BY <1>1, <1>3, <2>3, <3>1, <3>3, <4>2
    <3>. QED BY <2>1, <3>2, <3>3
  <2>. QED BY <2>4, <2>5, <2>6 DEF Chain
<1>. QED BY <1>4, <1>5, <1>6, <1>7 DEF Chained, Transferred

(* What a compare-and-set that wins does to the state. *)
LEMMA StoredOutcome ==
  ASSUME CommitInv, DomainOK(domain), NEW c \in Callers, CommitSwaps(c), SwapWins(c)
  PROVE  /\ DomainOK(domain')
         /\ \/ caller[c].op.kind # "accept" /\ SameTickets(domain, domain')
            \/ /\ caller[c].op.kind = "issue" /\ caller[c].op.ticket \in TicketIds
               /\ Issued(domain, caller[c].op.ticket, domain')
            \/ caller[c].op.kind # "accept" /\ \E q \in TransferRequests : Transferred(domain, q, domain')
            \/ /\ caller[c].op.kind = "accept"
               /\ \E q \in SafeRequests : q.id = caller[c].op.proposal /\ Transferred(domain, q, domain')
<1>1. HoldsResult(c) /\ domain' = caller[c].next
  BY DEF CommitSwaps, SwapWins, CommitInv, CallerHolds
<1>2. CASE caller[c].op.kind = "accept"
  <2>1. PICK q \in SafeRequests, score \in Scores :
          /\ q.id = caller[c].op.proposal
          /\ TransferTicket(domain, q, score).ok /\ domain' = TransferTicket(domain, q, score).state
    BY <1>1, <1>2 DEF HoldsResult
  <2>2. DomainOK(domain') /\ Transferred(domain, q, domain')
    BY <2>1, TransferOutcome DEF AllRequests
  <2>. QED BY <1>2, <2>1, <2>2
<1>3. CASE caller[c].op.kind # "accept"
  <2>1. PICK op \in OpsWith(TransferRequests) : op = caller[c].op
    BY <1>1, <1>3 DEF HoldsResult
  <2>2. PICK r \in Results(op, domain) : r.ok /\ domain' = r.state
    BY <1>1, <1>3, <2>1 DEF HoldsResult
  <2>3. op \in OpsWith(AllRequests) /\ (op.kind \in {"transfer", "request"} => op.request \in TransferRequests)
    BY Zenon DEF OpsWith, AllRequests
  <2>4. /\ DomainOK(domain')
        /\ \/ SameTickets(domain, domain')
           \/ op.kind = "issue" /\ op.ticket \in TicketIds /\ Issued(domain, op.ticket, domain')
           \/ op.kind \in {"transfer", "request"} /\ Transferred(domain, op.request, domain')
    BY <2>2, <2>3, MutationOutcome
  <2>. QED BY <1>3, <2>1, <2>3, <2>4
<1>. QED BY <1>2, <1>3

(* Who issues a ticket issues one that is not there, and is alone in issuing it. *)
FreshIds ==
  /\ \A c \in Callers : caller[c].op.kind = "issue" =>
       caller[c].op.ticket \in TicketIds /\ ~Exists(domain, caller[c].op.ticket)
  /\ \A c, d \in Callers :
       caller[c].op.kind = "issue" /\ caller[d].op.kind = "issue" /\ caller[c].op.ticket = caller[d].op.ticket => c = d

LEMMA FreshIdsStay ==
  ASSUME CommitInv, FreshIds, NEW c \in Callers, NEW next, caller' = [caller EXCEPT ![c] = next], UNCHANGED domain,
         next.op = caller[c].op \/ (next.op.kind = "issue" => next.op.ticket \in TicketIds /\ FreshId(next.op.ticket))
  PROVE  FreshIds'
<1>1. caller'[c] = next /\ \A d \in Callers \ {c} : caller'[d] = caller[d]
  BY DEF CommitInv
<1>. QED BY <1>1 DEF FreshIds, FreshId, Exists

LEMMA StoredIsFresh ==
  ASSUME CommitInv, Chained(domain), FreshIds, NEW c \in Callers, CommitSwaps(c), SwapWins(c)
  PROVE  Chained(domain') /\ FreshIds'
<1>0. /\ DomainOK(domain')
      /\ \/ SameTickets(domain, domain')
         \/ /\ caller[c].op.kind = "issue" /\ caller[c].op.ticket \in TicketIds
            /\ Issued(domain, caller[c].op.ticket, domain')
         \/ \E q \in AllRequests : Transferred(domain, q, domain')
  BY StoredOutcome, Zenon DEF Chained, AllRequests
<1>1. caller'[c] = Done /\ \A d \in Callers \ {c} : caller'[d] = caller[d]
  BY DEF CommitSwaps, CommitInv
<1>2. Done.op.kind = "none"
  BY DoneFields
<1>3. \A d, e \in Callers : caller'[d].op.kind = "issue" /\ caller'[e].op.kind = "issue"
                             /\ caller'[d].op.ticket = caller'[e].op.ticket => d = e
  BY <1>1, <1>2 DEF FreshIds
<1>4. ASSUME NEW d \in Callers \ {c}, caller[d].op.kind = "issue"
      PROVE  caller[d].op.ticket \in TicketIds /\ ~Exists(domain', caller[d].op.ticket)
  <2>1. PICK t \in TicketIds : t = caller[d].op.ticket /\ ~Exists(domain, t)
    BY <1>4 DEF FreshIds
  <2>2. caller[c].op.kind = "issue" => t # caller[c].op.ticket
    BY <1>4, <2>1 DEF FreshIds
  <2>3. ~Exists(domain', t)
    BY <1>0, <2>1, <2>2, ZenonT(40) DEF SameTickets, Issued, Transferred, ValidTransfer, Exists
  <2>. QED BY <2>1, <2>3
<1>5. FreshIds'
  BY <1>1, <1>2, <1>3, <1>4, ZenonT(40) DEF FreshIds
<1>6. caller[c].op.kind = "issue" => ~Exists(domain, caller[c].op.ticket)
  BY DEF FreshIds
<1>7. Chained(domain')
  BY <1>0, <1>6, SameTicketsChained, IssuedChained, TransferredChained
<1>. QED BY <1>5, <1>7

LEMMA ChainStep ==
  ASSUME ~ReuseTicketIds, CommitInv, Chained(domain), FreshIds, [CommitNext]_ticketVars
  PROVE  Chained(domain') /\ FreshIds'
<1>1. ASSUME NEW c \in Callers, NEW next, caller' = [caller EXCEPT ![c] = next], UNCHANGED domain,
             next.op = caller[c].op \/ (next.op.kind = "issue" => next.op.ticket \in TicketIds /\ FreshId(next.op.ticket))
      PROVE  Chained(domain') /\ FreshIds'
  BY <1>1, FreshIdsStay, ZenonT(40)
<1>2. ASSUME NEW c \in Callers, NEW op \in OpsWith(TransferRequests), CommitReads(c, op) PROVE Chained(domain') /\ FreshIds'
  <2>1. PICK r \in Results(op, domain) : Swaps(c, op, r.state)
    BY <1>2 DEF CommitReads
  <2>2. PICK next : next = [pc |-> "swap", op |-> op, next |-> r.state, seen |-> version, tries |-> caller[c].tries + 1]
    BY Zenon
  <2>3. next.op = op /\ caller' = [caller EXCEPT ![c] = next] /\ UNCHANGED domain
    BY <1>2, <2>1, <2>2, ZenonT(40) DEF Swaps, CommitReads
  <2>4. op.kind = "issue" => op.ticket \in TicketIds
    BY DEF OpsWith
  <2>5. op = caller[c].op \/ (op.kind = "issue" => FreshId(op.ticket))
    BY <1>2 DEF CommitReads, Runs
  <2>. QED BY <1>1, <2>3, <2>4, <2>5, ZenonT(40)
<1>3. ASSUME NEW c \in Callers, NEW p, NEW actor, SafeAccept(c, p, actor) PROVE Chained(domain') /\ FreshIds'
  <2>1. PICK state : Swaps(c, [kind |-> "accept", proposal |-> p], state)
    BY <1>3, Zenon DEF SafeAccept
  <2>2. PICK next : next = [pc |-> "swap", op |-> [kind |-> "accept", proposal |-> p], next |-> state,
                            seen |-> version, tries |-> caller[c].tries + 1]
    BY ZenonT(40)
  <2>3. next.op.kind = "accept" /\ caller' = [caller EXCEPT ![c] = next] /\ UNCHANGED domain
    BY <1>3, <2>1, <2>2, Zenon DEF Swaps, SafeAccept
  <2>. QED BY <1>1, <2>3, ZenonT(40)
<1>4. ASSUME NEW c \in Callers, CommitRefused(c) \/ CallerDies(c) PROVE Chained(domain') /\ FreshIds'
  <2>1. caller' = [caller EXCEPT ![c] = Done] /\ UNCHANGED domain
    BY <1>4 DEF CommitRefused, CallerDies
  <2>. QED BY <1>1, <2>1, DoneFields, Zenon
<1>5. ASSUME NEW c \in Callers, CommitSwaps(c), ~SwapWins(c) PROVE Chained(domain') /\ FreshIds'
  <2>1. PICK next : next = IF MayRetry(c) THEN [caller[c] EXCEPT !.pc = "retry"] ELSE Done
    BY ZenonT(40)
  <2>2. caller' = [caller EXCEPT ![c] = next] /\ UNCHANGED domain
    BY <1>5, <2>1 DEF CommitSwaps
  <2>3. next.op = caller[c].op \/ next.op.kind = "none"
    BY <2>1, DoneFields DEF CommitInv, CallerHolds, CallerFields
  <2>. QED BY <1>1, <2>2, <2>3, Zenon
<1>6. ASSUME UNCHANGED <<domain, caller>> PROVE Chained(domain') /\ FreshIds'
  BY <1>6 DEF FreshIds
<1>7. ASSUME NEW p, NEW t, NEW from, NEW to, NEW actor, SafeInitiate(p, t, from, to, actor)
      PROVE  Chained(domain') /\ FreshIds'
  BY <1>6, <1>7 DEF SafeInitiate, commitVars
<1>8. CASE ProposalMoves
  BY <1>6, <1>8 DEF ProposalMoves, commitVars
<1>9. CASE UNCHANGED ticketVars
  BY <1>6, <1>9 DEF ticketVars
<1>. QED BY <1>2, <1>3, <1>4, <1>5, <1>7, <1>8, <1>9, StoredIsFresh DEF CommitNext

LEMMA SeededChained == ASSUME TicketInit PROVE Chained(domain)
<1>1. PICK tickets \in SeedTickets : domain = Seeded(tickets)
  BY DEF TicketInit
<1>2. PICK there : there = {t \in TicketIds : tickets[t] # NoTicket}
  BY Zenon
<1>3. /\ tickets \in [TicketIds -> Ticket \cup {NoTicket}] /\ \A t \in TicketIds : tickets[t].nonce = 0
      /\ IsFiniteSet(there) /\ Cardinality(there) <= Capacity
  BY <1>2, SeedsAreUnmoved, ZenonT(40)
<1>4. domain = [issued |-> Cardinality(there), tickets |-> tickets,
                transfers |-> <<>>, nonces |-> {}, attempts |-> <<>>, audit |-> <<>>]
  BY <1>1, <1>2 DEF Seeded
<1>5. /\ domain.issued = Cardinality(there) /\ domain.tickets = tickets /\ domain.transfers = <<>>
      /\ domain.nonces = {} /\ DomainFields(domain)
  BY <1>4, FieldsOf
<1>6. Cardinality(there) \in Nat /\ Existing(domain) = there
  BY <1>2, <1>3, <1>5, FS_CardinalityType DEF Existing, Exists
<1>7. \A t \in TicketIds : Chain(domain, t)
  <2>1. \A t \in TicketIds : Moves(domain, t) = {}
    BY <1>5 DEF Moves
  <2>2. Cardinality({}) = 0
    BY FS_EmptySet
  <2>. QED BY <1>3, <1>5, <2>1, <2>2, Zenon DEF Chain
<1>8. UsedOnce(domain)
  BY <1>5 DEF UsedOnce
<1>. QED BY <1>3, <1>5, <1>6, <1>7, <1>8 DEF Chained, DomainOK

(***************************************************************************)
(* Nobody's ticket is lost or doubled, and none is oversold: the transfers *)
(* of every ticket form a chain that ends at its owner, as many as its     *)
(* nonce counts, no nonce or id is used twice, and the event counts the    *)
(* tickets there are, within its capacity.  For any number of concurrent   *)
(* callers, lost compare-and-sets and deaths, when tickets are issued      *)
(* under fresh ids (issueTicket, validateTicketTransfer, transferTicket,   *)
(* commitMutation).                                                        *)
(***************************************************************************)
THEOREM TicketsFormChains ==
  ASSUME ~ReuseTicketIds
  PROVE  CommitSpec => []OwnershipChain
<1>1. CommitInit => Chained(domain) /\ FreshIds
  BY SeededChained, DoneFields DEF CommitInit, FreshIds
<1>2. CommitInv /\ Chained(domain) /\ FreshIds /\ [CommitNext]_ticketVars => (Chained(domain) /\ FreshIds)'
  BY ChainStep
<1>3. Chained(domain) => OwnershipChain
  BY DEF Chained, OwnershipChain
<1>. QED BY <1>1, <1>2, <1>3, CommitInvariant, PTL DEF CommitSpec

-----------------------------------------------------------------------------
(***************************************************************************)
(* Accepted proposals.  Nobody stores between an acceptance and its store, *)
(* so the acceptance never loses it.                                       *)
(***************************************************************************)
HasMoved(s, p) == \E i \in DOMAIN s.transfers : s.transfers[i].id = p
AcceptedBy(p) == \E c \in Callers : Accepting(c) /\ caller[c].op.proposal = p

AcceptanceInv ==
  /\ DomainOK(domain)
  /\ \A c \in Callers : Accepting(c) => caller[c].seen = version
  /\ \A p \in Proposals : proposals[p].status = "accepted" <=> AcceptedBy(p) \/ HasMoved(domain, p)

(* Only an acceptance makes a proposal accepted, and nothing undoes it. *)
LEMMA AcceptedStays ==
  ASSUME OwnershipInv,
         \/ \E p \in Proposals, t \in Resources, from, to \in Parties, actor \in Actors : SafeInitiate(p, t, from, to, actor)
         \/ ProposalMoves
  PROVE  \A p \in Proposals : proposals'[p].status = "accepted" <=> proposals[p].status = "accepted"
<1>0. \A p \in Proposals : proposals[p].status = "pending" => \A status : [proposals[p] EXCEPT !.status = status].status = status
  <2>1. \A p \in Proposals : proposals[p].status = "pending" => proposals[p] \in Proposal
    BY ProposalFields DEF OwnershipInv
  <2>. QED BY <2>1 DEF Proposal
<1>1. ASSUME NEW p \in Proposals, proposals[p].status = "pending", NEW status, status # "accepted",
             proposals' = Marked(proposals, p, status)
      PROVE  \A q \in Proposals : proposals'[q].status = "accepted" <=> proposals[q].status = "accepted"
  <2>1. proposals'[p] = [proposals[p] EXCEPT !.status = status] /\ \A q \in Proposals \ {p} : proposals'[q] = proposals[q]
    BY <1>1 DEF Marked, OwnershipInv, OwnershipTypes
  <2>. QED BY <1>0, <1>1, <2>1, ZenonT(40)
<1>2. ASSUME NEW p \in Proposals, NEW actor, Expire(p) \/ Cancel(p, actor) \/ Reject(p, actor)
      PROVE  \A q \in Proposals : proposals'[q].status = "accepted" <=> proposals[q].status = "accepted"
  BY <1>1, <1>2, Zenon DEF Expire, Cancel, Reject, Settle, Open, Lapsed
<1>3. ASSUME SweepExpired
      PROVE  \A q \in Proposals : proposals'[q].status = "accepted" <=> proposals[q].status = "accepted"
  BY <1>0, <1>3 DEF SweepExpired, Lapsed
<1>4. ASSUME NEW p \in Proposals, NEW t \in Resources, NEW from \in Parties, NEW to \in Parties, NEW actor,
             SafeInitiate(p, t, from, to, actor)
      PROVE  \A q \in Proposals : proposals'[q].status = "accepted" <=> proposals[q].status = "accepted"
  <2>1. PICK new : new = [status |-> "pending", resource |-> t, from |-> from, to |-> to]
    BY ZenonT(40)
  <2>2. PICK old : old = pendingFor[t]
    OBVIOUS
  <2>3. PICK swept : swept = IF old # "none" /\ Lapsed(old) THEN Marked(proposals, old, "expired") ELSE proposals
    OBVIOUS
  <2>4. proposals' = [swept EXCEPT ![p] = new] /\ proposals[p] = Absent
    BY <1>4, <2>1, <2>2, <2>3 DEF SafeInitiate, Initiate
  <2>5. new.status = "pending" /\ proposals[p].status = "absent"
    BY <2>1, <2>4 DEF Absent
  <2>6. DOMAIN swept = Proposals
    BY <2>3 DEF Marked, OwnershipInv, OwnershipTypes
  <2>7. \A q \in Proposals \ {p} : swept[q].status = "accepted" <=> proposals[q].status = "accepted"
    <3>1. CASE old # "none" /\ Lapsed(old)
      <4>1. old \in Proposals /\ proposals[old].status = "pending"
        BY <2>2, <3>1 DEF OwnershipInv, OwnershipTypes, Lapsed
      <4>2. swept[old] = [proposals[old] EXCEPT !.status = "expired"] /\ \A q \in Proposals \ {old} : swept[q] = proposals[q]
        BY <2>3, <3>1, <4>1 DEF Marked, OwnershipInv, OwnershipTypes
      <4>. QED BY <1>0, <4>1, <4>2, Zenon
    <3>2. CASE ~(old # "none" /\ Lapsed(old))
      BY <2>3, <3>2
    <3>. QED BY <3>1, <3>2
  <2>8. proposals'[p] = new /\ \A q \in Proposals \ {p} : proposals'[q] = swept[q]
    BY <2>4, <2>6
  <2>. QED BY <2>5, <2>7, <2>8, Zenon
<1>5. ASSUME NEW p \in Proposals, DeadlinePasses(p)
      PROVE  \A q \in Proposals : proposals'[q].status = "accepted" <=> proposals[q].status = "accepted"
  BY <1>5 DEF DeadlinePasses
<1>. QED BY <1>2, <1>3, <1>4, <1>5 DEF ProposalMoves

(* The transfers that are there stay, and a new one has its request's id. *)
LEMMA MovedBy ==
  ASSUME NEW s, DomainOK(s), NEW n, NEW q, Transferred(s, q, n), NEW p
  PROVE  HasMoved(n, p) <=> HasMoved(s, p) \/ q.id = p
<1>0. PICK last \in Nat : last = Len(s.transfers)
  BY DEF DomainOK
<1>1. /\ DOMAIN s.transfers = 1..last /\ DOMAIN n.transfers = 1..(last + 1)
      /\ n.transfers[last + 1] = q /\ \A i \in 1..last : n.transfers[i] = s.transfers[i]
  BY <1>0 DEF Transferred, DomainOK
<1>2. 1..(last + 1) = 1..last \cup {last + 1}
  BY <1>0
<1>. QED BY <1>1, <1>2 DEF HasMoved

(* One caller moves that neither was nor becomes an acceptance. *)
LEMMA OthersAccept ==
  ASSUME CommitInv, AcceptanceInv, NEW c \in Callers, ~Accepting(c), UNCHANGED <<domain, version>>,
         NEW next, caller' = [caller EXCEPT ![c] = next], next.pc # "swap" \/ next.op.kind # "accept",
         \A p \in Proposals : proposals'[p].status = "accepted" <=> proposals[p].status = "accepted"
  PROVE  AcceptanceInv'
<1>1. caller'[c] = next /\ \A d \in Callers \ {c} : caller'[d] = caller[d]
  BY DEF CommitInv
<1>2. ~Accepting(c)' /\ \A d \in Callers \ {c} : Accepting(d)' <=> Accepting(d)
  BY <1>1 DEF Accepting
<1>3. \A p \in Proposals : AcceptedBy(p)' <=> AcceptedBy(p)
  BY <1>1, <1>2 DEF AcceptedBy
<1>4. \A d \in Callers : Accepting(d)' => caller'[d].seen = version'
  BY <1>1, <1>2 DEF AcceptanceInv
<1>5. \A p \in Proposals : HasMoved(domain, p)' <=> HasMoved(domain, p)
  BY DEF HasMoved
<1>6. DomainOK(domain)'
  BY DEF AcceptanceInv
<1>. QED BY <1>3, <1>4, <1>5, <1>6 DEF AcceptanceInv

LEMMA AcceptsStep ==
  ASSUME CommitInv, AcceptanceInv, NEW c \in Callers, NEW p \in Proposals, NEW actor, SafeAccept(c, p, actor)
  PROVE  AcceptanceInv'
<1>1. PICK state : Swaps(c, [kind |-> "accept", proposal |-> p], state)
  BY ZenonT(40) DEF SafeAccept
<1>2. PICK next : next = [pc |-> "swap", op |-> [kind |-> "accept", proposal |-> p], next |-> state,
                          seen |-> version, tries |-> caller[c].tries + 1]
  BY ZenonT(40)
<1>3. /\ next.pc = "swap" /\ next.op.kind = "accept" /\ next.op.proposal = p /\ next.seen = version
      /\ caller'[c] = next /\ \A d \in Callers \ {c} : caller'[d] = caller[d]
  BY <1>1, <1>2 DEF Swaps, CommitInv
<1>4. UNCHANGED <<domain, version>> /\ ~Accepting(c)
  BY ZenonT(40) DEF SafeAccept, Runs, Accepting
<1>5. Accepting(c)' /\ \A d \in Callers \ {c} : Accepting(d)' <=> Accepting(d)
  BY <1>3 DEF Accepting
<1>6. \A d \in Callers : Accepting(d)' => caller'[d].seen = version'
  BY <1>3, <1>4, <1>5 DEF AcceptanceInv
<1>7. \A q \in Proposals : AcceptedBy(q)' <=> AcceptedBy(q) \/ q = p
  BY <1>3, <1>4, <1>5 DEF AcceptedBy
<1>8. proposals'[p].status = "accepted" /\ \A q \in Proposals \ {p} : proposals'[q] = proposals[q]
  <2>1. proposals' = Marked(proposals, p, "accepted") /\ proposals[p].status = "pending"
    BY ZenonT(40) DEF SafeAccept, Accept, Settle, Open, Lapsed
  <2>2. proposals[p] \in Proposal
    BY <2>1, ProposalFields DEF CommitInv, OwnershipInv
  <2>3. [proposals[p] EXCEPT !.status = "accepted"].status = "accepted"
    BY <2>2 DEF Proposal
  <2>. QED BY <2>1, <2>3 DEF Marked, CommitInv, OwnershipInv, OwnershipTypes
<1>9. \A q \in Proposals : HasMoved(domain, q)' <=> HasMoved(domain, q)
  BY <1>4 DEF HasMoved
<1>10. DomainOK(domain)'
  BY <1>4 DEF AcceptanceInv
<1>11. \A q \in Proposals : proposals'[q].status = "accepted" <=> AcceptedBy(q)' \/ HasMoved(domain, q)'
  BY <1>7, <1>8, <1>9 DEF AcceptanceInv
<1>. QED BY <1>6, <1>10, <1>11 DEF AcceptanceInv

LEMMA StoreAccepts ==
  ASSUME AcceptAlone, CommitInv, AcceptanceInv, NEW c \in Callers, CommitSwaps(c), SwapWins(c)
  PROVE  AcceptanceInv'
<1>1. \A d \in Callers \ {c} : ~Accepting(d)
  BY DEF CommitSwaps
<1>2. caller'[c] = Done /\ \A d \in Callers \ {c} : caller'[d] = caller[d]
  BY DEF CommitSwaps, CommitInv
<1>3. \A d \in Callers : ~Accepting(d)'
  BY <1>1, <1>2, DoneFields DEF Accepting
<1>4. \A p \in Proposals : ~AcceptedBy(p)'
  BY <1>3 DEF AcceptedBy
<1>5. proposals' = proposals
  BY DEF CommitSwaps, ownershipVars
<1>6. DomainOK(domain)'
  BY StoredOutcome, ZenonT(40) DEF AcceptanceInv
<1>7. CASE caller[c].op.kind = "accept"
  <2>1. PICK q \in SafeRequests : q.id = caller[c].op.proposal /\ Transferred(domain, q, domain')
    BY <1>7, StoredOutcome, ZenonT(40) DEF AcceptanceInv
  <2>2. \A p \in Proposals : HasMoved(domain, p)' <=> HasMoved(domain, p) \/ q.id = p
    BY <2>1, MovedBy, Zenon DEF AcceptanceInv
  <2>3. \A p \in Proposals : AcceptedBy(p) <=> q.id = p
    BY <1>1, <1>7, <2>1 DEF AcceptedBy, Accepting, CommitSwaps
  <2>4. \A p \in Proposals : proposals'[p].status = "accepted" <=> AcceptedBy(p)' \/ HasMoved(domain, p)'
    BY <1>4, <1>5, <2>2, <2>3, ZenonT(40) DEF AcceptanceInv
  <2>. QED BY <1>3, <1>6, <2>4, ZenonT(40) DEF AcceptanceInv
<1>8. CASE caller[c].op.kind # "accept"
  <2>1. \/ domain'.transfers = domain.transfers
        \/ \E q \in TransferRequests : Transferred(domain, q, domain')
    BY <1>8, StoredOutcome, Zenon DEF AcceptanceInv, SameTickets, Issued
  <2>2. \A p \in Proposals : HasMoved(domain, p)' <=> HasMoved(domain, p)
    <3>1. CASE domain'.transfers = domain.transfers
      BY <3>1 DEF HasMoved
    <3>2. CASE \E q \in TransferRequests : Transferred(domain, q, domain')
      BY <3>2, MovedBy, CommitConstants DEF AcceptanceInv
    <3>. QED BY <2>1, <3>1, <3>2
  <2>3. \A p \in Proposals : ~AcceptedBy(p)
    BY <1>1, <1>8 DEF AcceptedBy, Accepting
  <2>4. \A p \in Proposals : proposals'[p].status = "accepted" <=> AcceptedBy(p)' \/ HasMoved(domain, p)'
    BY <1>4, <1>5, <2>2, <2>3 DEF AcceptanceInv
  <2>. QED BY <1>3, <1>6, <2>4 DEF AcceptanceInv
<1>. QED BY <1>7, <1>8

LEMMA AcceptanceStep ==
  ASSUME AcceptAlone, CommitInv, AcceptanceInv, [CommitNext]_ticketVars
  PROVE  AcceptanceInv'
<1>1. ASSUME NEW c \in Callers, NEW op \in OpsWith(TransferRequests), CommitReads(c, op) PROVE AcceptanceInv'
  <2>1. PICK r \in Results(op, domain) : Swaps(c, op, r.state)
    BY <1>1 DEF CommitReads
  <2>2. PICK next : next = [pc |-> "swap", op |-> op, next |-> r.state, seen |-> version, tries |-> caller[c].tries + 1]
    BY Zenon
  <2>3. next.op = op /\ caller' = [caller EXCEPT ![c] = next] /\ UNCHANGED <<domain, version, proposals>>
    BY <1>1, <2>1, <2>2, ZenonT(40) DEF Swaps, CommitReads, ownershipVars
  <2>4. next.op.kind # "accept" /\ ~Accepting(c)
    BY <1>1, <2>3, OpKinds, Zenon DEF CommitReads, Runs, Accepting
  <2>. QED BY <2>3, <2>4, OthersAccept, Zenon
<1>2. ASSUME NEW c \in Callers, CommitRefused(c) \/ CallerDies(c) PROVE AcceptanceInv'
  <2>1. caller' = [caller EXCEPT ![c] = Done] /\ UNCHANGED <<domain, version, proposals>> /\ ~Accepting(c)
    BY <1>2 DEF CommitRefused, CallerDies, Accepting, ownershipVars
  <2>. QED BY <2>1, DoneFields, OthersAccept, ZenonT(40)
<1>3. ASSUME NEW c \in Callers, CommitSwaps(c), ~SwapWins(c) PROVE AcceptanceInv'
  <2>1. PICK next : next = IF MayRetry(c) THEN [caller[c] EXCEPT !.pc = "retry"] ELSE Done
    BY Zenon
  <2>2. caller' = [caller EXCEPT ![c] = next] /\ UNCHANGED <<domain, version, proposals>>
    BY <1>3, <2>1 DEF CommitSwaps, ownershipVars
  <2>3. ~Accepting(c)
    BY <1>3 DEF AcceptanceInv, SwapWins
  <2>4. next.pc # "swap"
    BY <2>1, DoneFields DEF CommitInv, CallerHolds, CallerFields
  <2>. QED BY <2>2, <2>3, <2>4, OthersAccept, Zenon
<1>4. ASSUME UNCHANGED <<domain, version, caller>>,
             \A p \in Proposals : proposals'[p].status = "accepted" <=> proposals[p].status = "accepted"
      PROVE  AcceptanceInv'
  <2>1. \A p \in Proposals : (AcceptedBy(p)' <=> AcceptedBy(p)) /\ (HasMoved(domain, p)' <=> HasMoved(domain, p))
    BY <1>4 DEF AcceptedBy, Accepting, HasMoved
  <2>2. \A c \in Callers : Accepting(c)' => caller'[c].seen = version'
    BY <1>4 DEF AcceptanceInv, Accepting
  <2>. QED BY <1>4, <2>1, <2>2 DEF AcceptanceInv
<1>5. CASE \/ \E p \in Proposals, t \in Resources, from, to \in Parties, actor \in Actors : SafeInitiate(p, t, from, to, actor)
           \/ ProposalMoves
  <2>1. UNCHANGED <<domain, version, caller>>
    BY <1>5, ZenonT(40) DEF SafeInitiate, ProposalMoves, commitVars
  <2>2. \A p \in Proposals : proposals'[p].status = "accepted" <=> proposals[p].status = "accepted"
    BY <1>5, AcceptedStays DEF CommitInv
  <2>. QED BY <1>4, <2>1, <2>2
<1>6. CASE UNCHANGED ticketVars
  BY <1>4, <1>6 DEF ticketVars
<1>. QED BY <1>1, <1>2, <1>3, <1>5, <1>6, AcceptsStep, StoreAccepts DEF CommitNext

(***************************************************************************)
(* An accepted proposal has moved its ticket, or its store is awaited, and *)
(* one that is not accepted has moved nothing, when nobody stores a state  *)
(* between an acceptance and its store.  For any number of proposals,      *)
(* tickets and concurrent callers (acceptSafeTicketTransfer).              *)
(***************************************************************************)
THEOREM AcceptanceMovesTickets ==
  ASSUME AcceptAlone
  PROVE  CommitSpec => []AcceptedMoves
<1>1. CommitInit => AcceptanceInv
  <2>. SUFFICES ASSUME CommitInit PROVE AcceptanceInv
    OBVIOUS
  <2>1. DomainOK(domain) /\ domain.transfers = <<>>
    <3>1. DomainOK(domain)
      BY SeededChained DEF CommitInit, Chained
    <3>2. domain.transfers = <<>>
      BY DEF CommitInit, TicketInit, Seeded
    <3>. QED BY <3>1, <3>2
  <2>2. \A c \in Callers : ~Accepting(c)
    BY DoneFields DEF CommitInit, Accepting
  <2>3. \A p \in Proposals : proposals[p].status = "absent"
    BY DEF CommitInit, OwnershipInit, Absent
  <2>. QED BY <2>1, <2>2, <2>3 DEF AcceptanceInv, AcceptedBy, HasMoved
<1>2. CommitInv /\ AcceptanceInv /\ [CommitNext]_ticketVars => AcceptanceInv'
  BY AcceptanceStep
<1>3. AcceptanceInv => AcceptedMoves
  BY DEF AcceptanceInv, AcceptedMoves, AcceptedBy, HasMoved
<1>. QED BY <1>1, <1>2, <1>3, CommitInvariant, PTL DEF CommitSpec

-----------------------------------------------------------------------------
(***************************************************************************)
(* Reviews.  A transfer that is allowed finds nothing held against it.     *)
(***************************************************************************)
LEMMA AllowedTransfer ==
  ASSUME NEW s, NEW q, NEW score, Assess(s, q, score) = "allow"
  PROVE  /\ HeldStatuses(s, q.ticket) \cap {"rejected", "blocked"} = {}
         /\ HeldStatuses(s, q.ticket) \cap {"review_required", "approved"} # {} =>
              \E i \in DOMAIN s.attempts : /\ s.attempts[i].status = "approved"
                                           /\ s.attempts[i].version = s.tickets[q.ticket].nonce
                                           /\ s.attempts[i].request = q
<1>. DEFINE mine == {j \in DOMAIN s.attempts :
                       s.attempts[j].request.ticket = q.ticket /\ s.attempts[j].version = s.tickets[q.ticket].nonce}
            active == {s.attempts[i] : i \in mine}
            held == {a.status : a \in active}
<1>1. held = HeldStatuses(s, q.ticket)
  <2>1. HeldStatuses(s, q.ticket) = {s.attempts[i].status : i \in mine}
    BY DEF HeldStatuses
  <2>. QED BY <2>1, ZenonT(40)
<1>2. /\ "rejected" \notin held /\ "blocked" \notin held
      /\ \/ \E a \in active : a.status = "approved" /\ a.request = q
         \/ held \cap {"review_required", "approved"} = {}
  BY ZenonT(40) DEF Assess
<1>. QED BY <1>1, <1>2, ZenonT(40)

(* What moves a ticket that exists is an allowed transfer. *)
Reviewed(s, n) ==
  \A t \in Existing(s) :
    n.tickets[t].owner # s.tickets[t].owner =>
      /\ HeldStatuses(s, t) \cap {"rejected", "blocked"} = {}
      /\ HeldStatuses(s, t) \cap {"review_required", "approved"} # {} =>
           \E i \in DOMAIN s.attempts : /\ s.attempts[i].status = "approved"
                                        /\ s.attempts[i].version = s.tickets[t].nonce
                                        /\ s.attempts[i].request = n.transfers[Len(n.transfers)]

LEMMA TransferIsReviewed ==
  ASSUME NEW s, DomainOK(s), NEW q \in AllRequests, NEW n, Transferred(s, q, n)
  PROVE  Reviewed(s, n)
<1>1. n.transfers = Append(s.transfers, q) /\ s.transfers \in Seq(AllRequests)
  BY Zenon DEF Transferred, DomainOK
<1>2. n.transfers[Len(n.transfers)] = q
  BY <1>1
<1>3. \A t \in TicketIds \ {q.ticket} : n.tickets[t] = s.tickets[t]
  BY DEF Transferred
<1>4. PICK score : Assess(s, q, score) = "allow"
  BY DEF Transferred
<1>. QED BY <1>2, <1>3, <1>4, AllowedTransfer DEF Reviewed, Existing

LEMMA StoreIsReviewed ==
  ASSUME CommitInv, Chained(domain), FreshIds, NEW c \in Callers, CommitSwaps(c)
  PROVE  Reviewed(domain, domain')
<1>0. DomainOK(domain)
  BY DEF Chained
<1>1. CASE ~SwapWins(c)
  BY <1>1 DEF CommitSwaps, Reviewed
<1>2. CASE SwapWins(c) /\ SameTickets(domain, domain')
  BY <1>2 DEF SameTickets, Reviewed, Existing
<1>3. CASE SwapWins(c) /\ caller[c].op.kind = "issue" /\ Issued(domain, caller[c].op.ticket, domain')
  <2>1. ~Exists(domain, caller[c].op.ticket)
    BY <1>3 DEF FreshIds
  <2>. QED BY <1>3, <2>1, ZenonT(40) DEF Issued, Reviewed, Existing
<1>4. CASE \E q \in AllRequests : Transferred(domain, q, domain')
  BY <1>0, <1>4, TransferIsReviewed
<1>. QED BY <1>0, <1>1, <1>2, <1>3, <1>4, StoredOutcome DEF AllRequests

(***************************************************************************)
(* A review cannot be bypassed, for any number of concurrent callers and   *)
(* any requests: while one for a version of a ticket's ownership is        *)
(* rejected or blocked no compare-and-set moves the ticket, and while one  *)
(* waits or is approved only an approved request does.  What is decided    *)
(* before the store is what was true at the version it replaces            *)
(* (assessTransferRisk, requestTicketTransfer, commitMutation).            *)
(***************************************************************************)
THEOREM ReviewsCannotBeBypassed ==
  ASSUME ~ReuseTicketIds
  PROVE  CommitSpec => ReviewsHold
<1>1. CommitInit => Chained(domain) /\ FreshIds
  BY SeededChained, DoneFields DEF CommitInit, FreshIds
<1>2. CommitInv /\ Chained(domain) /\ FreshIds /\ [CommitNext]_ticketVars => (Chained(domain) /\ FreshIds)'
  BY ChainStep
<1>3. CommitInv /\ Chained(domain) /\ FreshIds /\ [CommitNext]_ticketVars => domain' = domain \/ Reviewed(domain, domain')
  <2>. SUFFICES ASSUME CommitInv, Chained(domain), FreshIds, [CommitNext]_ticketVars
                PROVE  domain' = domain \/ Reviewed(domain, domain')
    OBVIOUS
  <2>1. ASSUME NEW c \in Callers, NEW op, CommitReads(c, op) PROVE domain' = domain
    BY <2>1 DEF CommitReads
  <2>2. ASSUME NEW c \in Callers, CommitRefused(c) \/ CallerDies(c) PROVE domain' = domain
    BY <2>2 DEF CommitRefused, CallerDies
  <2>3. ASSUME NEW c \in Callers, NEW p, NEW actor, SafeAccept(c, p, actor) PROVE domain' = domain
    BY <2>3 DEF SafeAccept
  <2>4. ASSUME NEW p, NEW t, NEW from, NEW to, NEW actor, SafeInitiate(p, t, from, to, actor) PROVE domain' = domain
    BY <2>4 DEF SafeInitiate, commitVars
  <2>5. CASE ProposalMoves
    BY <2>5 DEF ProposalMoves, commitVars
  <2>6. CASE UNCHANGED ticketVars
    BY <2>6 DEF ticketVars
  <2>. QED BY <2>1, <2>2, <2>3, <2>4, <2>5, <2>6, StoreIsReviewed DEF CommitNext
<1>4. CommitInv /\ Chained(domain) /\ FreshIds /\ [CommitNext]_ticketVars =>
        [\A t \in Existing(domain) :
           LET held == HeldStatuses(domain, t)
           IN domain'.tickets[t].owner # domain.tickets[t].owner =>
                /\ held \cap {"rejected", "blocked"} = {}
                /\ held \cap {"review_required", "approved"} # {} =>
                     \E i \in DOMAIN domain.attempts :
                       /\ domain.attempts[i].status = "approved"
                       /\ domain.attempts[i].version = domain.tickets[t].nonce
                       /\ domain.attempts[i].request = domain'.transfers[Len(domain'.transfers)]]_domain
  BY <1>3 DEF Reviewed
<1>. QED BY <1>1, <1>2, <1>4, CommitInvariant, PTL DEF CommitSpec, ReviewsHold
=============================================================================
