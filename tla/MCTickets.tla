------------------------------ MODULE MCTickets ------------------------------
(* Finite instances of TicketCommit. *)
EXTENDS TicketCommit, TLC

CONSTANTS t1, t2, t3, ann, bob, eve, org, p1, c1, c2

Request(id, nonce, from, to) ==
  [id |-> id, nonce |-> nonce, ticket |-> t1, from |-> from, to |-> to, price |-> 2, parts |-> 2]

(* Rivals for ann's ticket; a proposal is bob's way to give it back. *)
MCRequests == {Request("x1", "n1", ann, bob), Request("x2", "n2", ann, org)}

MCSafeRequests ==
  [id : {p1}, nonce : {p1}, ticket : Resources, from : Parties, to : Parties, price : {0}, parts : {0}]

Owned(owner, status) == [owner |-> owner, status |-> status, fraud |-> FALSE, nonce |-> 0]

(* Ann's ticket, issued or locked. *)
MCSeeds == {[t \in TicketIds |-> IF t = t1 THEN Owned(ann, status) ELSE NoTicket] : status \in {"issued", "locked"}}

(* No definition tells callers apart, nor the tickets that are not seeded. *)
Symmetric == Permutations(Callers) \cup Permutations({t2, t3})
=============================================================================
