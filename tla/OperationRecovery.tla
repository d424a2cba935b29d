------------------------- MODULE OperationRecovery -------------------------
(***************************************************************************)
(* One recoverable multi-step operation (core/operations/recovery.ts), the *)
(* record that storage keeps of it and the calls of runOperation that work *)
(* on it.                                                                  *)
(*                                                                         *)
(* A call runs without interruption between two awaits, and it awaits only *)
(* the step it has called, so an action is what a call does from one await *)
(* to the next.  Such a stretch writes the record several times; a refused *)
(* write ends the call and a process that dies keeps what was written, so  *)
(* both leave the last record that reached storage.                        *)
(*                                                                         *)
(* Clock, attempts, keys, outputs and error codes are left out: no         *)
(* decision reads them.                                                    *)
(***************************************************************************)
EXTENDS Lifecycle, Naturals, Sequences, FiniteSetsExt

CONSTANTS
  NSteps,       \* how many steps the definition declares
  Runners,      \* callers of runOperation, in as many tabs or processes
  ActMidRun     \* may an operator act on the record while a call is under way?

ASSUME RecoveryConstants ==
  NSteps \in Nat \ {0} /\ ActMidRun \in BOOLEAN

VARIABLES
  stored,     \* the record in storage
  runner,     \* runner[r]: the call of r: the step it awaits and its record
  done,       \* done[s]: step s has taken effect outside, or needed none
  settled     \* the steps whose report of that reached storage

vars == <<stored, runner, done, settled>>

Steps == 1..NSteps
StepStatuses == {"pending", "running", "succeeded", "failed", "skipped", "interrupted"}
Checkpoint == [status : StepStatuses, committed : BOOLEAN]
Record == [state : RecoverableOperation.states, steps : [Steps -> Checkpoint]]

(* The record createRecord makes stands for an absent one as well. *)
NewRecord == [state |-> "pending",
              steps |-> [s \in Steps |-> [status |-> "pending", committed |-> FALSE]]]

NoCall == [at |-> 0, rec |-> NewRecord]

TypeOK ==
  /\ stored \in Record
  /\ runner \in [Runners -> [at : 0..NSteps, rec : Record]]
  /\ done \in [Steps -> BOOLEAN]
  /\ settled \subseteq Steps

-----------------------------------------------------------------------------
Advance(rec, event) == [rec EXCEPT !.state = Resolve(RecoverableOperation, @, event)]

Closed(rec) == IsTerminal(RecoverableOperation, rec.state)

WithStep(rec, s, status, committed) ==
  [rec EXCEPT !.steps[s] = [status |-> status, committed |-> committed]]

(* Mutant: a committed step that did not succeed is run again. *)
DecideByStatus(c) ==
  IF c.status \in {"succeeded", "skipped"} THEN "skip" ELSE "run"

DecideStep(c) ==
  IF c.status \in {"succeeded", "skipped"} THEN "skip"
  ELSE IF c.committed THEN "confirm" ELSE "run"

(* The steps that the loop does not pass over. *)
Open(rec) == {s \in Steps : DecideStep(rec.steps[s]) # "skip"}

(***************************************************************************)
(* The loop over the steps, up to the next await: the records it writes    *)
(* and the call it leaves.  It skips finished steps, stops at one that     *)
(* needs confirming, checkpoints a step before it calls it, and closes the *)
(* operation when none is left.                                            *)
(***************************************************************************)
Loop(rec) ==
  IF Open(rec) = {}
  THEN [writes |-> <<Advance(rec, "complete")>>, call |-> NoCall]
  ELSE LET s == Min(Open(rec))
           begun == WithStep(rec, s, "running", rec.steps[s].committed)
       IN IF DecideStep(rec.steps[s]) = "confirm"
          THEN [writes |-> <<>>, call |-> NoCall]
          ELSE [writes |-> <<begun>>, call |-> [at |-> s, rec |-> begun]]

(* At most two writes lie between two awaits. *)
AllWrites == 2

(* No more than n of the writes reach storage; the call goes on if all do. *)
Perform(r, writes, call, n) ==
  LET landed == Min({n, Len(writes)})
  IN /\ stored' = IF landed = 0 THEN stored ELSE writes[landed]
     /\ runner' = [runner EXCEPT ![r] = IF landed = Len(writes) THEN call ELSE NoCall]

(* Mutant: a failed operation is started instead of retried. *)
OpeningRestarts(rec) ==
  CASE rec.state = "running"     -> <<>>
    [] rec.state = "interrupted" -> <<Advance(rec, "resume")>>
    [] OTHER                     -> <<Advance(rec, "start")>>

(* What runOperation does first with the record it reads. *)
Opening(rec) ==
  CASE rec.state = "running"     -> <<>>
    [] rec.state = "interrupted" -> <<Advance(rec, "resume")>>
    [] rec.state = "failed"      -> <<Advance(rec, "retry")>>
    [] OTHER                     -> <<Advance(rec, "start")>>

(* runOperation up to its first await; a closed operation is only reported. *)
RunOperation(r, n) ==
  /\ runner[r].at = 0
  /\ ~Closed(stored)
  /\ LET opening == Opening(stored)
         loop == Loop(IF opening = <<>> THEN stored ELSE opening[1])
     IN Perform(r, opening \o loop.writes, loop.call, n)
  /\ UNCHANGED <<done, settled>>

-----------------------------------------------------------------------------
(* Step s reports that it is through: applyOutcome, then the next steps.   *)
StepFinishes(r, status, committed, n) ==
  LET s == runner[r].at
      rec == WithStep(runner[r].rec, s, status, committed)
      loop == Loop(rec)
  IN /\ s # 0
     /\ Perform(r, <<rec>> \o loop.writes, loop.call, n)
     /\ done' = [done EXCEPT ![s] = TRUE]
     /\ settled' = IF n > 0 THEN settled \cup {s} ELSE settled

(* A skipped step keeps the flag of its checkpoint. *)
StepSucceeds(r, n) ==
  \/ \E committed \in BOOLEAN : StepFinishes(r, "succeeded", committed, n)
  \/ runner[r].at # 0 /\ StepFinishes(r, "skipped", runner[r].rec.steps[runner[r].at].committed, n)

(***************************************************************************)
(* Step s reports a failure or an interruption, or throws, which counts as *)
(* an interruption without a known effect.  A failure after the effect is  *)
(* an interruption.  Either way the operation leaves "running".            *)
(***************************************************************************)
StepStops(r, status, committed, n) ==
  LET s == runner[r].at
      plain == status = "failed" /\ ~committed
      rec == WithStep(runner[r].rec, s, IF plain THEN "failed" ELSE "interrupted", committed)
  IN /\ s # 0
     /\ Perform(r, <<Advance(rec, IF plain THEN "fail" ELSE "interrupt")>>, NoCall, n)
     /\ \E effect \in BOOLEAN :
          /\ committed => effect
          /\ plain => ~effect
          /\ done' = [done EXCEPT ![s] = @ \/ effect]
     /\ settled' = IF committed /\ n > 0 THEN settled \cup {s} ELSE settled

(* The tab closes while the step is awaited; the effect may still land. *)
RunnerDies(r) ==
  /\ runner[r].at # 0
  /\ \E effect \in BOOLEAN : done' = [done EXCEPT ![runner[r].at] = @ \/ effect]
  /\ runner' = [runner EXCEPT ![r] = NoCall]
  /\ UNCHANGED <<stored, settled>>

-----------------------------------------------------------------------------
(* readForResolution: there is a record and it is not closed. *)
OperatorMayAct ==
  /\ stored # NewRecord /\ ~Closed(stored)
  /\ ActMidRun \/ \A r \in Runners : runner[r].at = 0

(* Mutant: both resolutions close the step. *)
ResolveBlindly(s, resolution) ==
  LET rec == WithStep(stored, s, "succeeded", resolution = "applied")
  IN /\ OperatorMayAct
     /\ resolution = IF done[s] THEN "applied" ELSE "not_applied"
     /\ stored' = IF rec.state = "interrupted" THEN Advance(rec, "resume") ELSE Advance(rec, "retry")
     /\ UNCHANGED <<runner, done, settled>>

(***************************************************************************)
(* resolveInterruptedStep.  The operator has looked and tells the truth;   *)
(* the code takes any step, whatever its status.  A running operation has  *)
(* no rule for "retry" and stays as it is.                                 *)
(***************************************************************************)
ResolveInterruptedStep(s, resolution) ==
  LET rec == IF resolution = "applied" THEN WithStep(stored, s, "succeeded", TRUE)
                                       ELSE WithStep(stored, s, "pending", FALSE)
  IN /\ OperatorMayAct
     /\ resolution = IF done[s] THEN "applied" ELSE "not_applied"
     /\ stored' = IF rec.state = "interrupted" THEN Advance(rec, "resume") ELSE Advance(rec, "retry")
     /\ UNCHANGED <<runner, done, settled>>

AbandonOperation ==
  /\ OperatorMayAct
  /\ stored' = Advance(stored, "abandon")
  /\ UNCHANGED <<runner, done, settled>>

-----------------------------------------------------------------------------
Init ==
  /\ stored = NewRecord
  /\ runner = [r \in Runners |-> NoCall]
  /\ done = [s \in Steps |-> FALSE]
  /\ settled = {}

Next ==
  \/ \E r \in Runners, n \in 0..AllWrites :
       \/ RunOperation(r, n)
       \/ StepSucceeds(r, n)
       \/ \E status \in {"failed", "interrupted"}, committed \in BOOLEAN :
            StepStops(r, status, committed, n)
  \/ \E r \in Runners : RunnerDies(r)
  \/ \E s \in Steps, resolution \in {"applied", "not_applied"} :
       ResolveInterruptedStep(s, resolution)
  \/ AbandonOperation

Spec == Init /\ [][Next]_vars

(* The operator confirms a step that the operation is parked on. *)
ConfirmStep ==
  \E s \in Steps : /\ DecideStep(stored.steps[s]) = "confirm"
                   /\ ResolveInterruptedStep(s, "applied")

(***************************************************************************)
(* Recovery is driven by callers: somebody keeps resuming the operation    *)
(* and confirms where it asks, a step that is called over and over         *)
(* succeeds in the end, and storage is not refused for ever.               *)
(***************************************************************************)
FairSpec ==
  /\ Spec
  /\ \A r \in Runners : /\ SF_vars(RunOperation(r, AllWrites))
                        /\ SF_vars(StepSucceeds(r, AllWrites))
  /\ SF_vars(ConfirmStep)

-----------------------------------------------------------------------------
(***************************************************************************)
(* A step whose stored checkpoint once said that its effect landed is      *)
(* never called again, however often calls die, writes are refused and     *)
(* operators resolve steps (decideStep).                                   *)
(***************************************************************************)
NeverRecalled ==
  [][\A r \in Runners : runner'[r].at # runner[r].at => runner'[r].at \notin settled]_vars

(***************************************************************************)
(* When a step is called, every step before it has taken effect, also      *)
(* after interruptions and resolutions (the loop of runOperation).         *)
(***************************************************************************)
CalledInOrder == \A r \in Runners : \A s \in 1..runner[r].at - 1 : done[s]

(***************************************************************************)
(* A completed operation has all its effects: no interruption, lost write  *)
(* or truthful resolution lets one slip (runOperation).                    *)
(***************************************************************************)
CompletedIsDone == stored.state = "completed" => \A s \in Steps : done[s]

(***************************************************************************)
(* A completed or abandoned operation stays as it is                       *)
(* (TERMINAL_OPERATION_STATES, readForResolution, runOperation).           *)
(***************************************************************************)
ClosedStays == [][Closed(stored) => stored' = stored]_vars

(***************************************************************************)
(* An operation that was started is completed or abandoned in the end:     *)
(* every stop leaves a record from which a resume or a confirmation goes   *)
(* on (decideStep, operationMachine).                                      *)
(***************************************************************************)
EveryOperationCloses == (stored # NewRecord) ~> Closed(stored)
=============================================================================
