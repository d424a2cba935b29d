------------------------------- MODULE Quota -------------------------------
(***************************************************************************)
(* The quota store (core/quota/quota.ts) for one metered operation: the    *)
(* counters in storage, the reservations that make a spend visible before  *)
(* it is written, receipts and their refunds, and overrides.               *)
(*                                                                         *)
(* A call is synchronous, but storage is injected and a write can call     *)
(* back into the store before its value lands (quota.concurrency.test.ts). *)
(* So a call is a frame on a stack that holds the write it is making.      *)
(*                                                                         *)
(* A window is long against a call, so it rolls between calls; a counter   *)
(* or receipt of an older window counts for nothing and is dropped then.   *)
(* The count of denials, which no decision reads, is left out.             *)
(***************************************************************************)
EXTENDS Integers, Sequences, FiniteSetsExt

CONSTANTS
  Principals,      \* who spends
  QuotaLimit,      \* what a principal may spend in a window
  GlobalLimit,     \* what all of them may
  Costs,           \* the costs of a spend
  OverrideLimits,  \* limits a maintainer may set, up to the policy's ceiling
  Reentry,         \* what a write may call: "none", "foreign" spends, "any"
  MaxQuotaCalls    \* bound: spends asked for in a window

ASSUME QuotaConstants ==
  /\ QuotaLimit \in Nat \ {0} /\ GlobalLimit \in Nat /\ GlobalLimit >= QuotaLimit
  /\ Costs \subseteq Nat \ {0} /\ OverrideLimits \subseteq Nat
  /\ Reentry \in {"none", "foreign", "any"} /\ MaxQuotaCalls \in Nat

VARIABLES
  used,        \* used[s]: the counter of subject s in storage
  reserved,    \* reserved[s]: the spends decided for s and not yet written
  overrides,   \* overrides[s]: the limit set by an override, or NoLimit
  frames,      \* the calls on the stack, each at a write
  receipts,    \* the receipts given out in this window
  held,        \* the ids of receipts that callers on this page still have
  refunded,    \* the ids whose receipts were refunded
  quotaCalls   \* how many spends were asked for

quotaVars == <<used, reserved, overrides, frames, receipts, held, refunded, quotaCalls>>

Shared == "*"
Subjects == Principals \cup {Shared}
NoLimit == -1
NoReservation == [live |-> FALSE, total |-> 0, owners |-> {}]
QuotaIds == 1..MaxQuotaCalls

(* A call: what it does, for whom, and the value it is writing where. *)
Frame == [call : {"spend", "refuse", "refund"}, id : QuotaIds, who : Principals,
          cost : Costs, at : Subjects, value : Nat]

-----------------------------------------------------------------------------
(* Mutant: a decision ignores what is reserved. *)
ReadStoredCounter(s) == used[s]

(* readCounter: a live reservation holds the stored total and its own. *)
ReadCounter(s) == IF reserved[s].live THEN reserved[s].total ELSE used[s]

EffectiveLimit(s) ==
  IF overrides[s] # NoLimit THEN overrides[s] ELSE IF s = Shared THEN GlobalLimit ELSE QuotaLimit

(* reserveCounter *)
Reserve(s, cost, id) ==
  [live |-> TRUE, total |-> ReadCounter(s) + cost, owners |-> reserved[s].owners \cup {id}]

(* Mutant: an entry that nobody owns stays. *)
KeepUnowned(entry) == entry

(* An entry is dropped when no cost in it is still unwritten. *)
DropUnowned(entry) == IF entry.owners = {} THEN NoReservation ELSE entry

(* May a call for principal p begin: from outside, or within one write? *)
MayEnter(p, spend) ==
  \/ frames = <<>>
  \/ /\ Len(frames) = 1
     /\ \/ Reentry = "any"
        \/ Reentry = "foreign" /\ spend /\ frames[1].at \notin {Shared, p}

(***************************************************************************)
(* evaluate, when it spends, up to its first write.  The cost is reserved  *)
(* on both counters before anything is read.  A refused spend hands its    *)
(* reservations back and writes the refusing counter; an accepted one      *)
(* commits the principal's counter.                                        *)
(***************************************************************************)
Consume(p, cost) ==
  LET id == quotaCalls + 1
      own == Reserve(p, cost, id)
      shared == Reserve(Shared, cost, id)
      refusing == IF own.total > EffectiveLimit(p) THEN {p}
                  ELSE IF shared.total > EffectiveLimit(Shared) THEN {Shared} ELSE {}
      Push(call, at, value) ==
        frames' = Append(frames, [call |-> call, id |-> id, who |-> p, cost |-> cost,
                                  at |-> at, value |-> value])
  IN /\ MayEnter(p, TRUE) /\ id \in QuotaIds
     /\ quotaCalls' = id
     /\ \/ /\ refusing = {}
           /\ reserved' = [reserved EXCEPT ![p] = [own EXCEPT !.owners = @ \ {id}],
                                           ![Shared] = shared]
           /\ Push("spend", p, used[p] + cost)
        \/ \E s \in refusing :
           /\ reserved' = [reserved EXCEPT ![p] = DropUnowned(@), ![Shared] = DropUnowned(@)]
           /\ Push("refuse", s, used[s])
     /\ UNCHANGED <<used, overrides, receipts, held, refunded>>

(* Mutant: a receipt is refunded however often it is presented. *)
RefundAgain(r) ==
  /\ MayEnter(r.who, FALSE) /\ r.id \in held
  /\ refunded' = refunded \cup {r.id}
  /\ frames' = Append(frames, [call |-> "refund", id |-> r.id, who |-> r.who, cost |-> r.cost,
                               at |-> r.who, value |-> Max({0, ReadCounter(r.who) - r.cost})])
  /\ UNCHANGED <<used, reserved, overrides, receipts, held, quotaCalls>>

(* refund up to its first write; the same receipt again is ignored. *)
Refund(r) ==
  /\ MayEnter(r.who, FALSE) /\ r.id \in held \ refunded
  /\ refunded' = refunded \cup {r.id}
  /\ frames' = Append(frames, [call |-> "refund", id |-> r.id, who |-> r.who, cost |-> r.cost,
                               at |-> r.who, value |-> Max({0, ReadCounter(r.who) - r.cost})])
  /\ UNCHANGED <<used, reserved, overrides, receipts, held, quotaCalls>>

(***************************************************************************)
(* The write of the topmost call lands and the call goes on: a spend from  *)
(* the principal's counter to the shared one and then to its receipt, a    *)
(* refund from one counter to the other.                                   *)
(***************************************************************************)
WriteLands ==
  LET top == frames[Len(frames)]
      popped == SubSeq(frames, 1, Len(frames) - 1)
      AtShared(value) == Append(popped, [top EXCEPT !.at = Shared, !.value = value])
  IN /\ frames # <<>>
     /\ used' = [used EXCEPT ![top.at] = top.value]
     /\ \/ /\ top.call = "spend" /\ top.at # Shared
           /\ reserved' = [reserved EXCEPT ![top.at] = DropUnowned(@), ![Shared].owners = @ \ {top.id}]
           /\ frames' = AtShared(used[Shared] + top.cost)
           /\ UNCHANGED <<receipts, held>>
        \/ /\ top.call = "spend" /\ top.at = Shared
           /\ reserved' = [reserved EXCEPT ![Shared] = DropUnowned(@)]
           /\ frames' = popped
           /\ receipts' = receipts \cup {[id |-> top.id, who |-> top.who, cost |-> top.cost]}
           /\ held' = held \cup {top.id}
        \/ /\ top.call = "refund" /\ top.at # Shared
           /\ frames' = AtShared(Max({0, ReadCounter(Shared) - top.cost}))
           /\ UNCHANGED <<reserved, receipts, held>>
        \/ /\ top.call = "refuse" \/ (top.call = "refund" /\ top.at = Shared)
           /\ frames' = popped
           /\ UNCHANGED <<reserved, receipts, held>>
     /\ UNCHANGED <<overrides, refunded, quotaCalls>>

-----------------------------------------------------------------------------
(* grantOverride by a maintainer, with a limit and a time the policy allows. *)
GrantOverride(s, limit) ==
  /\ frames = <<>>
  /\ overrides' = [overrides EXCEPT ![s] = limit]
  /\ UNCHANGED <<used, reserved, frames, receipts, held, refunded, quotaCalls>>

(* revokeOverride, or a read that finds the override expired. *)
OverrideEnds(s) ==
  /\ frames = <<>> /\ overrides[s] # NoLimit
  /\ overrides' = [overrides EXCEPT ![s] = NoLimit]
  /\ UNCHANGED <<used, reserved, frames, receipts, held, refunded, quotaCalls>>

(* The next window begins. *)
WindowRolls ==
  /\ frames = <<>> /\ quotaCalls > 0
  /\ used' = [s \in Subjects |-> 0]
  /\ receipts' = {} /\ held' = {} /\ refunded' = {} /\ quotaCalls' = 0
  /\ UNCHANGED <<reserved, overrides, frames>>

(***************************************************************************)
(* The page is loaded again: the receipts that callers held are gone, and  *)
(* with them the tokens of refunded ones.  Not within a synchronous call.  *)
(***************************************************************************)
QuotaReload ==
  /\ frames = <<>>
  /\ held' = {}
  /\ UNCHANGED <<used, reserved, overrides, frames, receipts, refunded, quotaCalls>>

QuotaInit ==
  /\ used = [s \in Subjects |-> 0]
  /\ reserved = [s \in Subjects |-> NoReservation]
  /\ overrides = [s \in Subjects |-> NoLimit]
  /\ frames = <<>> /\ receipts = {} /\ held = {} /\ refunded = {} /\ quotaCalls = 0

QuotaNext ==
  \/ \E p \in Principals, cost \in Costs : Consume(p, cost)
  \/ \E r \in receipts : Refund(r)
  \/ WriteLands
  \/ \E s \in Subjects, limit \in OverrideLimits : GrantOverride(s, limit)
  \/ \E s \in Subjects : OverrideEnds(s)
  \/ WindowRolls
  \/ QuotaReload

-----------------------------------------------------------------------------
(* What subject s has spent: the receipts that were not refunded. *)
Spent(s) ==
  MapThenSumSet(LAMBDA r : r.cost,
                {r \in receipts : r.id \notin refunded /\ s \in {r.who, Shared}})

(***************************************************************************)
(* Between calls the books balance: every counter is what the receipts     *)
(* given out and not refunded add up to, so that no nested spend is lost   *)
(* or counted twice, and no reservation is left to count against a subject *)
(* for the rest of the window (commitCounter, releaseCounter, refund); and *)
(* a receipt is given out only within both limits, whatever other spends   *)
(* were decided and not yet written at the time (evaluate).                *)
(***************************************************************************)
SpendsAreCounted ==
  /\ [](frames = <<>> => \A s \in Subjects : used[s] = Spent(s) /\ ~reserved[s].live)
  /\ [][\A r \in receipts' \ receipts : \A s \in {r.who, Shared} : Spent(s)' <= EffectiveLimit(s)]_quotaVars

=============================================================================
