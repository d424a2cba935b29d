------------------------------ MODULE Backfill ------------------------------
(***************************************************************************)
(* The operator-safe backfill (core/migration/backfill.ts): runs that read *)
(* records in batches, write the transformed ones and save a checkpoint    *)
(* after every batch by compare-and-set, and the rollback that writes the  *)
(* journaled before-images back.                                           *)
(*                                                                         *)
(* A step is what an operator's call does between two awaits.  A record is *)
(* "old" or "new"; every before-image is the old record, so the journal is *)
(* the set of records it restores.  A dry run writes nothing and is left   *)
(* out, as are counts, samples and error texts.                            *)
(***************************************************************************)
EXTENDS Naturals, FiniteSets

CONSTANTS
  NRecords,      \* records are 1..NRecords, in the order of their ids
  Declined,      \* the records the transform skips
  BatchSize,
  MaxFailures,   \* a run halts after a batch with more failures than this
  Operators,     \* calls of runBackfill and rollbackBackfill
  MaxRevision    \* bound: how often a checkpoint is saved

ASSUME BackfillConstants ==
  /\ NRecords \in Nat /\ BatchSize \in Nat \ {0} /\ MaxFailures \in Nat /\ MaxRevision \in Nat
  /\ Declined \subseteq 1..NRecords

VARIABLES
  target,      \* target[r]: what the record store holds
  saved,       \* the stored checkpoint; revision 0 when there is none
  operator,    \* operator[o]: the call of o
  gaps,        \* records left or made old: a failed write, a restored image
  lost         \* records whose before-image died with an unfinished batch

backfillVars == <<target, saved, operator, gaps, lost>>

BackfillRecords == 1..NRecords
NoCheckpoint == [revision |-> 0, status |-> "running", last |-> 0, journal |-> {}]

(* A call: where it is, its copy of the checkpoint, the records it has yet *)
(* to write in this batch, those it wrote since it last saved, and the     *)
(* failures of this call.                                                  *)
AtRest == [pc |-> "idle", copy |-> NoCheckpoint, todo |-> {}, wrote |-> {}, failures |-> 0]

-----------------------------------------------------------------------------
(* Mutant: a restart forgets the earlier before-images. *)
RestartForgets(checkpoint) == [NoCheckpoint EXCEPT !.revision = checkpoint.revision]

(* A restart begins at the first record and keeps the journal. *)
Restarted(checkpoint) ==
  [NoCheckpoint EXCEPT !.revision = checkpoint.revision, !.journal = checkpoint.journal]

(* runBackfill: load the checkpoint; a closed one needs a restart. *)
BackfillBegins(o, restart) ==
  /\ operator[o].pc = "idle"
  /\ restart \/ saved.status \notin {"completed", "rolled_back"}
  /\ operator' = [operator EXCEPT ![o] =
       [AtRest EXCEPT !.pc = "read", !.copy = IF restart THEN Restarted(saved) ELSE saved]]
  /\ UNCHANGED <<target, saved, gaps, lost>>

(* Mutant: a batch begins one record too late. *)
NextBatchSkips(last) ==
  {r \in BackfillRecords : last + 1 < r /\ r <= last + 1 + BatchSize}

(* The records of the next batch. *)
NextBatch(last) ==
  {r \in BackfillRecords : last < r /\ r <= last + BatchSize}

(* The call moves on to the write of a record or, when none is left, to    *)
(* the save at the end of the batch.                                       *)
NextWrite(call) == [call EXCEPT !.pc = IF call.todo = {} THEN "save" ELSE "write"]

(***************************************************************************)
(* A batch was read: records that are new already are unchanged.  What the *)
(* checkpoint will say after the batch is known from here on, but for      *)
(* failures.                                                               *)
(***************************************************************************)
BatchRead(o) ==
  LET call == operator[o]
      batch == NextBatch(call.copy.last)
      done == Cardinality(batch) < BatchSize
  IN /\ call.pc = "read"
     /\ \E last \in batch \cup {call.copy.last} :
          /\ \A r \in batch : r <= last
          /\ operator' = [operator EXCEPT ![o] = NextWrite(
               [call EXCEPT !.copy.last = last, !.copy.status = IF done THEN "completed" ELSE "running",
                            !.todo = {r \in batch \ Declined : target[r] = "old"}])]
     /\ UNCHANGED <<target, saved, gaps, lost>>

(* The source is unavailable: halt where the call is. *)
ReadFails(o) ==
  /\ operator[o].pc = "read"
  /\ operator' = [operator EXCEPT ![o].pc = "save", ![o].copy.status = "halted"]
  /\ UNCHANGED <<target, saved, gaps, lost>>

(* The record a call writes next. *)
Foremost(todo, r) == r \in todo /\ \A q \in todo : r <= q

(* The write of a record lands and its before-image is journaled. *)
RecordWritten(o) ==
  LET call == operator[o]
  IN \E r \in BackfillRecords :
       /\ call.pc = "write" /\ Foremost(call.todo, r)
       /\ target' = [target EXCEPT ![r] = "new"]
       /\ operator' = [operator EXCEPT ![o] = NextWrite(
            [call EXCEPT !.todo = @ \ {r}, !.wrote = @ \cup {r}, !.copy.journal = @ \cup {r}])]
       /\ gaps' = gaps \ {r}
       /\ UNCHANGED <<saved, lost>>

(* The transform throws or the write fails; too many failures halt the run. *)
RecordFails(o) ==
  LET call == operator[o]
      halted == call.failures + 1 > MaxFailures
  IN \E r \in BackfillRecords :
       /\ call.pc = "write" /\ Foremost(call.todo, r)
       /\ operator' = [operator EXCEPT ![o] = NextWrite(
            [call EXCEPT !.todo = @ \ {r}, !.failures = @ + 1,
                         !.copy.status = IF halted THEN "halted" ELSE @])]
       /\ gaps' = IF target[r] = "old" THEN gaps \cup {r} ELSE gaps
       /\ UNCHANGED <<target, saved, lost>>

(* save: the stored revision must be the one the call read. *)
RevisionMatches(copy) == saved.revision = copy.revision

(* persist: the loser of a race stops. *)
BatchSaved(o) ==
  LET call == operator[o]
      next == [call.copy EXCEPT !.revision = @ + 1]
  IN /\ call.pc = "save" /\ saved.revision < MaxRevision
     /\ \/ /\ RevisionMatches(call.copy)
           /\ saved' = next
           /\ operator' = [operator EXCEPT ![o] =
                IF next.status = "running"
                THEN [AtRest EXCEPT !.pc = "read", !.copy = next, !.failures = call.failures] ELSE AtRest]
           /\ UNCHANGED lost
        \/ /\ ~RevisionMatches(call.copy)
           /\ operator' = [operator EXCEPT ![o] = AtRest]
           /\ lost' = lost \cup call.wrote
           /\ UNCHANGED saved
     /\ UNCHANGED <<target, gaps>>

(* The process dies at an await. *)
OperatorDies(o) ==
  /\ operator[o].pc # "idle"
  /\ operator' = [operator EXCEPT ![o] = AtRest]
  /\ lost' = lost \cup operator[o].wrote
  /\ UNCHANGED <<target, saved, gaps>>

-----------------------------------------------------------------------------
(* rollbackBackfill loads the checkpoint and goes through its journal. *)
RollbackBegins(o) ==
  /\ operator[o].pc = "idle" /\ saved.revision > 0
  /\ operator' = [operator EXCEPT ![o] = [AtRest EXCEPT !.pc = "undo", !.copy = saved, !.todo = saved.journal]]
  /\ UNCHANGED <<target, saved, gaps, lost>>

(* A before-image is written back, or that fails and its entry remains. *)
ImageRestored(o, ok) ==
  LET call == operator[o]
  IN /\ call.pc = "undo"
     /\ \E r \in call.todo :
          /\ operator' = [operator EXCEPT ![o].todo = @ \ {r},
                                          ![o].copy.journal = IF ok THEN @ \ {r} ELSE @]
          /\ target' = IF ok THEN [target EXCEPT ![r] = "old"] ELSE target
          /\ gaps' = IF ok THEN gaps \cup {r} ELSE gaps
     /\ UNCHANGED <<saved, lost>>

(* The rest of the journal is saved; without one the backfill is undone. *)
RollbackSaved(o) ==
  LET call == operator[o]
  IN /\ call.pc = "undo" /\ call.todo = {} /\ saved.revision < MaxRevision
     /\ saved' = IF RevisionMatches(call.copy)
                 THEN [call.copy EXCEPT !.revision = @ + 1,
                                        !.status = IF call.copy.journal = {} THEN "rolled_back" ELSE @]
                 ELSE saved
     /\ operator' = [operator EXCEPT ![o] = AtRest]
     /\ UNCHANGED <<target, gaps, lost>>

BackfillInit ==
  /\ target = [r \in BackfillRecords |-> "old"]
  /\ saved = NoCheckpoint
  /\ operator = [o \in Operators |-> AtRest]
  /\ gaps = {} /\ lost = {}

BackfillNext ==
  \E o \in Operators :
    \/ \E restart \in BOOLEAN : BackfillBegins(o, restart)
    \/ BatchRead(o) \/ ReadFails(o)
    \/ RecordWritten(o) \/ RecordFails(o)
    \/ BatchSaved(o)
    \/ OperatorDies(o)
    \/ RollbackBegins(o)
    \/ \E ok \in BOOLEAN : ImageRestored(o, ok)
    \/ RollbackSaved(o)

BackfillSpec == BackfillInit /\ [][BackfillNext]_backfillVars

-----------------------------------------------------------------------------
(***************************************************************************)
(* No record is passed over: what a stored checkpoint says is behind it    *)
(* has been transformed, unless its write failed or a rollback restored    *)
(* it, whatever crashes, resumes and second operators there were           *)
(* (runBackfill).  And what was transformed can be restored: its           *)
(* before-image is in the stored journal or with the call that wrote it;   *)
(* only a batch cut off before its save takes images with it (journal,     *)
(* rollbackBackfill).                                                      *)
(***************************************************************************)
NothingPassedOver ==
  /\ \A r \in BackfillRecords \ Declined : r <= saved.last /\ target[r] = "old" => r \in gaps
  /\ \A r \in BackfillRecords : target[r] = "new" =>
       r \in saved.journal \cup lost \cup UNION {operator[o].wrote : o \in Operators}
=============================================================================
