------------------------------- MODULE Repair -------------------------------
(***************************************************************************)
(* Reconciliation and repair (core/reconciliation): a dry run reports what *)
(* drifted and plans writes, an approved plan is checked against the world *)
(* again and applied, and a failed or completed repair is undone.          *)
(*                                                                         *)
(* The world is one account's lines for one asset, the jobs of one dedupe  *)
(* key in snapshot order, and one record of each other kind; <<"job", i>>  *)
(* names the i-th job.  Times are kept as what a check makes of them.  A   *)
(* call runs without an await, so it is one step.  An action stands for    *)
(* its kind and its record: what the code copies into before and after is  *)
(* read from the snapshot that the plan was made of.                       *)
(***************************************************************************)
EXTENDS Naturals, Sequences, FiniteSets, SequencesExt

CONSTANTS
  Worlds,         \* the worlds a first dry run may meet
  DropDuplicates, \* may a caller drop a line held twice without deduping it?
  MaxMoves        \* bound: how often the world moves by itself

ASSUME RepairConstants == DropDuplicates \in BOOLEAN /\ MaxMoves \in Nat

VARIABLES
  world,      \* what is stored, and what the ledger says
  plan,       \* the plan that waits for approval: its actions and the snapshot it saw
  repaired,   \* the outcome of the last apply: its journal and snapshot, and the world around it
  outcome,    \* how the last apply or rollback ended, and its rollbackFailed
  moves       \* how often the world has moved

repairVars == <<world, plan, repaired, outcome, moves>>

NoPlan == [actions |-> {}, seen |-> <<>>, expired |-> FALSE]
Ended(how, unreverted) == [how |-> how, unreverted |-> unreverted]
NotRepaired == [journal |-> <<>>, seen |-> <<>>, from |-> <<>>, result |-> <<>>]

-----------------------------------------------------------------------------
(* reconcile: what each check reports about a world. *)

Drift(invariant, record) == [invariant |-> invariant, record |-> record]
Line == <<"line", 0>>
Note == <<"note", 0>>
Claim == <<"claim", 0>>
Envelope == <<"envelope", 0>>
JobOf(i) == <<"job", i>>

PendingIn(w) == {i \in DOMAIN w.jobs : w.jobs[i].status \in {"queued", "retrying"}}
DeclaredStatuses == {"queued", "running", "retrying", "succeeded", "dead_lettered"}

LedgerEntryPresent(w) == IF w.lines # <<>> /\ w.entry = 0 THEN {Drift("ledger_entry_present", Line)} ELSE {}
AmountAgrees(w) ==
  IF w.entry # 0 /\ \E i \in DOMAIN w.lines : w.lines[i].balance # w.entry THEN {Drift("amount_agrees", Line)} ELSE {}
SingleLinePerAsset(w) == IF Len(w.lines) > 1 THEN {Drift("single_line_per_asset", Line)} ELSE {}

StateDeclared(w) == {Drift("state_declared", JobOf(i)) : i \in {j \in DOMAIN w.jobs : w.jobs[j].status \notin DeclaredStatuses}}
BudgetConsistent(w) ==
  {Drift("budget_consistent", JobOf(i)) :
     i \in {j \in DOMAIN w.jobs : w.jobs[j].status \in {"queued", "running", "retrying"} /\ w.jobs[j].spent}}

(* duplicates: every pending job of the key but the first. *)
DedupeUnique(w) == {Drift("dedupe_unique", JobOf(i)) : i \in {j \in PendingIn(w) : \E k \in PendingIn(w) : k < j}}

StaleJobs(w) == {i \in PendingIn(w) : w.jobs[i].overdue}
JobProgress(w) == {Drift("progress", JobOf(i)) : i \in StaleJobs(w)}
SchedulerStalled(w) == Cardinality(StaleJobs(w)) > 1 /\ StaleJobs(w) = PendingIn(w)

ClaimFresh(w) ==
  IF w.claim.expired \/ (w.claim.status = "in_flight" /\ ~w.claim.replayed) THEN {Drift("claim_fresh", Claim)} ELSE {}
CountMatches(w) == IF w.envelope.stored /\ ~w.envelope.counted THEN {Drift("count_matches", Envelope)} ELSE {}
EnvelopeRetention(w) == IF w.envelope.stored /\ w.envelope.expired THEN {Drift("retention", Envelope)} ELSE {}
NoteDeclared(w) == IF w.note.copies > 0 /\ ~w.note.declared THEN {Drift("note_declared", Note)} ELSE {}
NoteUnique(w) == IF w.note.copies > 1 THEN {Drift("identity_unique", Note)} ELSE {}
OperationSettles(w) == IF w.unsettled THEN {Drift("settles", <<"operation", 0>>)} ELSE {}

Reconcile(w) ==
  UNION {LedgerEntryPresent(w), AmountAgrees(w), SingleLinePerAsset(w), StateDeclared(w), BudgetConsistent(w),
         DedupeUnique(w), JobProgress(w), ClaimFresh(w), CountMatches(w), EnvelopeRetention(w),
         NoteDeclared(w), NoteUnique(w), OperationSettles(w)}

-----------------------------------------------------------------------------
(* planRepairs: the actions a strategy finds for a finding. *)

Act(kind, record) == [kind |-> kind, record |-> record]
Irreversible ==
  {"dead_letter_job", "cancel_duplicate_job", "sweep_idempotency", "purge_envelope", "drop_notification",
   "collapse_notification"}

(* missingLedgerCause: the ledger was read for this account. *)
TrustlineRemoved(w) == w.others = "account"

Earlier(w, i, j) ==
  \/ w.jobs[i].enqueuedAt < w.jobs[j].enqueuedAt
  \/ w.jobs[i].enqueuedAt = w.jobs[j].enqueuedAt /\ i < j
OldestJob(w) == CHOOSE i \in PendingIn(w) : \A j \in PendingIn(w) \ {i} : Earlier(w, i, j)
TerminalJobs(w) == {d.record : d \in BudgetConsistent(w)}
Duplicates(w) == {JobOf(i) : i \in PendingIn(w) \ {OldestJob(w)}} \ TerminalJobs(w)

BalanceStrategy(w, d) ==
  CASE d.invariant = "ledger_entry_present" /\ TrustlineRemoved(w) -> {Act("drop_balance_line", Line)}
    [] d.invariant = "amount_agrees" /\ Len(w.lines) = 1 -> {Act("recache_balance", Line)}
    [] d.invariant = "single_line_per_asset" -> {Act("dedupe_balance_lines", Line)}
    [] OTHER -> {}

JobStrategy(w, d) ==
  CASE d.invariant = "budget_consistent" -> {Act("dead_letter_job", d.record)}
    [] d.invariant = "dedupe_unique" -> {Act("cancel_duplicate_job", r) : r \in Duplicates(w)}
    [] d.invariant = "progress" /\ d.record \notin TerminalJobs(w) /\ ~SchedulerStalled(w) ->
         {Act("requeue_job", d.record)}
    [] OTHER -> {}

RecordStrategy(w, d) ==
  CASE d.invariant = "claim_fresh" /\ w.claim.expired -> {Act("sweep_idempotency", Claim)}
    [] d.invariant = "retention" -> {Act("purge_envelope", Envelope)}
    [] d.invariant = "note_declared" -> {Act("drop_notification", Note)}
    [] d.invariant = "identity_unique" -> {Act("collapse_notification", Note)}
    [] OTHER -> {}

(* Mutant: a claim is swept whether or not it has expired. *)
StrategyUnexpired(w, d) ==
  IF d.invariant = "claim_fresh" THEN {Act("sweep_idempotency", Claim)} ELSE BalanceStrategy(w, d) \cup JobStrategy(w, d)

Strategy(w, d) == BalanceStrategy(w, d) \cup JobStrategy(w, d) \cup RecordStrategy(w, d)

PlanRepairs(w) == UNION {Strategy(w, d) : d \in Reconcile(w)}

(* The order of the actions' ids. *)
Kinds ==
  <<"cancel_duplicate_job", "collapse_notification", "dead_letter_job", "dedupe_balance_lines", "drop_balance_line",
    "drop_notification", "purge_envelope", "recache_balance", "requeue_job", "sweep_idempotency">>
KindRank(kind) == CHOOSE i \in DOMAIN Kinds : Kinds[i] = kind
InOrder(actions) ==
  SetToSortSeq(actions, LAMBDA a, b : \/ KindRank(a.kind) < KindRank(b.kind)
                                      \/ a.kind = b.kind /\ a.record[2] < b.record[2])

-----------------------------------------------------------------------------
(* What an action sees and writes. *)

(* newest: a line without cachedAt is oldest, and a tie keeps the first. *)
Newest(lines) ==
  lines[CHOOSE i \in DOMAIN lines : \A j \in DOMAIN lines :
          \/ lines[i].cachedAt > lines[j].cachedAt
          \/ lines[i].cachedAt = lines[j].cachedAt /\ i <= j]

(* before and after of the same action, taken from two snapshots, are equal. *)
SameWrite(a, w, v) ==
  CASE a.kind \in {"drop_balance_line", "recache_balance"} -> w.lines[1] = v.lines[1] /\ w.entry = v.entry
    [] a.kind = "dedupe_balance_lines" -> w.lines = v.lines
    [] a.kind = "dead_letter_job" -> w.jobs[a.record[2]].status = v.jobs[a.record[2]].status
    [] a.kind = "cancel_duplicate_job" -> /\ w.jobs[a.record[2]].status = v.jobs[a.record[2]].status
                                          /\ OldestJob(w) = OldestJob(v)
    [] a.kind = "requeue_job" -> /\ w.jobs[a.record[2]].status = v.jobs[a.record[2]].status
                                 /\ w.jobs[a.record[2]].overdue = v.jobs[a.record[2]].overdue
    [] a.kind = "sweep_idempotency" -> w.claim = v.claim
    [] a.kind = "purge_envelope" -> w.envelope = v.envelope
    [] OTHER -> w.note = v.note

(* Mutant: the approved action is compared with nothing. *)
StillAppliesAlways(a) == a.kind \in {"recache_balance", "dedupe_balance_lines"} \/ a \in PlanRepairs(world)

StillApplies(a) == a \in PlanRepairs(world) /\ SameWrite(a, plan.seen, world)

(* The handlers: apply writes after, revert writes before. *)
Applied(a, w, seen) ==
  CASE a.kind = "drop_balance_line" -> [w EXCEPT !.lines = <<>>]
    [] a.kind = "recache_balance" -> [w EXCEPT !.lines = <<[balance |-> seen.entry, cachedAt |-> 2]>>]
    [] a.kind = "dedupe_balance_lines" -> [w EXCEPT !.lines = <<Newest(seen.lines)>>]
    [] a.kind \in {"dead_letter_job", "cancel_duplicate_job"} -> [w EXCEPT !.jobs[a.record[2]].status = "dead_lettered"]
    [] a.kind = "requeue_job" -> [w EXCEPT !.jobs[a.record[2]].status = "queued", !.jobs[a.record[2]].overdue = FALSE]
    [] a.kind = "sweep_idempotency" -> [w EXCEPT !.claim = [status |-> "none", expired |-> FALSE, replayed |-> FALSE]]
    [] a.kind = "purge_envelope" -> [w EXCEPT !.envelope.stored = FALSE]
    [] a.kind = "drop_notification" -> [w EXCEPT !.note.copies = 0]
    [] a.kind = "collapse_notification" -> [w EXCEPT !.note.copies = IF @ = 0 THEN 0 ELSE 1]

Reverted(a, w, seen) ==
  CASE a.kind \in {"drop_balance_line", "recache_balance"} -> [w EXCEPT !.lines = <<seen.lines[1]>>]
    [] a.kind = "dedupe_balance_lines" -> [w EXCEPT !.lines = seen.lines]
    [] a.kind = "requeue_job" -> [w EXCEPT !.jobs[a.record[2]].status = seen.jobs[a.record[2]].status,
                                           !.jobs[a.record[2]].overdue = seen.jobs[a.record[2]].overdue]

AfterApplying(journal, w, seen) == FoldLeft(LAMBDA v, a : Applied(a, v, seen), w, journal)

(* Mutant: the oldest action is undone first. *)
AfterRevertingInOrder(journal, stuck, w, seen) ==
  FoldLeft(LAMBDA v, a : IF a.kind \in Irreversible \/ a \in stuck THEN v ELSE Reverted(a, v, seen), w, journal)

(* revertJournal: newest first, past the actions that cannot be undone. *)
AfterReverting(journal, stuck, w, seen) ==
  FoldLeft(LAMBDA v, a : IF a.kind \in Irreversible \/ a \in stuck THEN v ELSE Reverted(a, v, seen), w, Reverse(journal))

RollbackFailed(journal, stuck) == {a \in ToSet(journal) : a.kind \in Irreversible \/ a \in stuck}

-----------------------------------------------------------------------------
(* The workflow, and the world around it. *)

DryRun ==
  /\ plan' = [actions |-> PlanRepairs(world), seen |-> world, expired |-> FALSE]
  /\ UNCHANGED <<world, repaired, outcome, moves>>

PlanExpires ==
  /\ plan.actions # {} /\ ~plan.expired
  /\ plan' = [plan EXCEPT !.expired = TRUE]
  /\ UNCHANGED <<world, repaired, outcome, moves>>

(* A selection of the plan's actions. *)
Selections == {only \in SUBSET plan.actions :
  \/ DropDuplicates
  \/ Act("drop_balance_line", Line) \in only => Len(world.lines) <= 1 \/ Act("dedupe_balance_lines", Line) \in only}

(* The selected actions, when every check before the first write passes. *)
Selected(only, allowIrreversible) ==
  InOrder({a \in only : allowIrreversible \/ a.kind \notin Irreversible})
MayApply(selected) == ~plan.expired /\ selected # <<>> /\ \A i \in DOMAIN selected : StillApplies(selected[i])

ApplyRepairPlan(only, allowIrreversible) ==
  LET selected == Selected(only, allowIrreversible)
  IN /\ MayApply(selected)
     /\ world' = AfterApplying(selected, world, plan.seen)
     /\ repaired' = [journal |-> selected, seen |-> plan.seen, from |-> world, result |-> world']
     /\ outcome' = Ended("applied", {})
     /\ UNCHANGED <<plan, moves>>

(* The handler of the last action throws, and what was applied is undone but for stuck. *)
ApplyFails(only, allowIrreversible, stuck) ==
  LET selected == Selected(only, allowIrreversible)
      journal == Front(selected)
  IN /\ MayApply(selected)
     /\ world' = AfterReverting(journal, stuck, AfterApplying(journal, world, plan.seen), plan.seen)
     /\ outcome' = Ended("failed", RollbackFailed(journal, stuck))
     /\ UNCHANGED <<plan, repaired, moves>>

RollbackRepair(stuck) ==
  /\ repaired # NotRepaired
  /\ world' = AfterReverting(repaired.journal, stuck, world, repaired.seen)
  /\ outcome' = Ended("rolled back", RollbackFailed(repaired.journal, stuck))
  /\ repaired' = NotRepaired
  /\ UNCHANGED <<plan, moves>>

(* Other writers: the ledger closes, a line is cached, a job runs or is late, a claim expires. *)
WorldMoves ==
  /\ moves < MaxMoves /\ moves' = moves + 1
  /\ \/ \E b \in 0..2 : world' = [world EXCEPT !.entry = b]
     \/ \E b \in 1..2 : world' = [world EXCEPT !.lines = <<[balance |-> b, cachedAt |-> 2]>>]
     \/ \E i \in DOMAIN world.jobs :
          \/ i \in PendingIn(world) /\ world' = [world EXCEPT !.jobs[i].overdue = TRUE]
          \/ i \in PendingIn(world) /\ world' = [world EXCEPT !.jobs[i].status = "running"]
          \/ world.jobs[i].status = "running" /\ world' = [world EXCEPT !.jobs[i].status = "succeeded"]
     \/ world.claim.status # "none" /\ world' = [world EXCEPT !.claim.expired = TRUE]
     \/ world' = [world EXCEPT !.note.copies = 1]
  /\ world' # world
  /\ UNCHANGED <<plan, repaired, outcome>>

RepairInit ==
  /\ world \in Worlds /\ plan = NoPlan /\ repaired = NotRepaired
  /\ outcome = Ended("none", {}) /\ moves = 0

RepairNext ==
  \/ DryRun \/ PlanExpires \/ WorldMoves
  \/ \E only \in Selections, allowIrreversible \in BOOLEAN :
       \/ ApplyRepairPlan(only, allowIrreversible)
       \/ \E stuck \in SUBSET only : ApplyFails(only, allowIrreversible, stuck)
  \/ \E stuck \in SUBSET ToSet(repaired.journal) : RollbackRepair(stuck)

-----------------------------------------------------------------------------
(* An apply or a rollback that wrote something: only they and the world's own moves do. *)
Ends(how) == world' # world /\ moves' = moves /\ outcome'.how = how

Justified(a, w, v) ==
  LET i == a.record[2]
  IN CASE a.kind = "recache_balance" -> v.lines[1].balance = w.entry
       [] a.kind = "drop_balance_line" -> w.entry = 0
       [] a.kind = "dedupe_balance_lines" -> ToSet(v.lines) \subseteq ToSet(w.lines)
       [] a.kind = "dead_letter_job" -> w.jobs[i].spent
       [] a.kind = "cancel_duplicate_job" -> i \in PendingIn(w) /\ PendingIn(w) # {i}
       [] a.kind = "requeue_job" -> w.jobs[i].overdue
       [] a.kind = "sweep_idempotency" -> w.claim.expired
       [] a.kind = "purge_envelope" -> w.envelope.expired
       [] OTHER -> w.note.copies > 1 \/ ~w.note.declared

OneActionEach(journal) == \A i, j \in DOMAIN journal : journal[i].record = journal[j].record => i = j

(***************************************************************************)
(* A repair writes only what the world calls for when it writes, not when  *)
(* it was planned: a balance becomes the ledger's, and only spent jobs,    *)
(* duplicates, late jobs, expired claims and expired envelopes are touched *)
(* ("an apply can never act on drift that has since moved": stillApplies). *)
(* With one action for each record it fixes what it was there for and      *)
(* breaks nothing: the findings whose actions were all applied are gone,   *)
(* and no new one appears (planRepairs, applyRepairPlan).                  *)
(***************************************************************************)
RepairsAreJustified ==
  [][Ends("applied") =>
       /\ \A a \in ToSet(repaired'.journal) : Justified(a, world, world')
       /\ OneActionEach(repaired'.journal) =>
            /\ Reconcile(world') \subseteq Reconcile(world)
            /\ \A d \in Reconcile(world) :
                 Strategy(world, d) # {} /\ Strategy(world, d) \subseteq ToSet(repaired'.journal)
                   => d \notin Reconcile(world')]_repairVars

(* v and w have the same records but those of the given actions. *)
AgreeBut(actions, v, w) ==
  LET touched == {a.record : a \in actions}
  IN /\ Line \notin touched => v.lines = w.lines
     /\ \A i \in DOMAIN w.jobs : JobOf(i) \notin touched => v.jobs[i] = w.jobs[i]
     /\ Claim \notin touched => v.claim = w.claim
     /\ Envelope \notin touched => v.envelope = w.envelope
     /\ Note \notin touched => v.note = w.note

(***************************************************************************)
(* A repair that fails, and a rollback that finds the world as the repair  *)
(* left it, put back everything but the records of the actions they report *)
(* (applyRepairPlan, rollbackRepair).                                      *)
(***************************************************************************)
UndoRestores ==
  [][/\ Ends("failed") => AgreeBut(outcome'.unreverted, world', world)
     /\ repaired # NotRepaired /\ repaired' = NotRepaired /\ world = repaired.result
          => AgreeBut(outcome'.unreverted, world', repaired.from)]_repairVars

=============================================================================
