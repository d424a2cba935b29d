------------------------------ MODULE Migration ------------------------------
(***************************************************************************)
(* Migrations (core/migration/runner.ts, storage-schema.ts, postChecks.ts, *)
(* types.ts): the runner applies a migration to a data set, checks the     *)
(* result, rolls it back when a check fails, and verifies the rollback.    *)
(* The migration is StorageV1ToV2Migration, followed by checks and by a    *)
(* rollback check that whoever runs it supplied.                           *)
(*                                                                         *)
(* A step ends at each await, one for every check.  A record has a         *)
(* version, a state, a correlation and a checksum; the checksum of a       *)
(* record is the state and the correlation it was computed over.  Other    *)
(* fields are carried along, and reports say only what is relied on.       *)
(***************************************************************************)
EXTENDS Naturals, Sequences, FiniteSets

CONSTANTS
  Texts,       \* what a text field of a record may hold
  DataSets,    \* the data sets a migration may meet
  MaxRetries,  \* maxRetries of retryRollback
  MaxRuns      \* bound on the runs

VARIABLES
  handler,  \* does the migration define a rollback?
  dataset,  \* what the owner of the data holds
  original, \* what it held before the last run (history)
  run,      \* the run in progress: its stage, input, output and failed checks
  report,   \* the report of the last run
  runs

migrationVars == <<handler, dataset, original, run, report, runs>>

-----------------------------------------------------------------------------
(* The two versions of a record. *)

Missing == "missing"
NoChecksum == <<>>
ShortChecksum == <<"short">>
Checksum(r) == <<r.state, r.correlation>>

(* A record of version 1 has neither a checksum nor a partition. *)
StoredRecord ==
  [id : Texts, version : {1}, state : Texts, correlation : Texts, checksum : {NoChecksum}, partition : {Missing}]
  \cup [id : Texts, version : {2}, state : Texts, correlation : Texts,
        checksum : {NoChecksum, ShortChecksum} \cup (Texts \X Texts), partition : Texts]

ASSUME MigrationConstants ==
  /\ {Missing, "made up", "default"} \subseteq Texts
  /\ DataSets \subseteq Seq(StoredRecord)
  /\ MaxRetries \in Nat /\ MaxRuns \in Nat

UpgradeV1ToV2(r) ==
  [r EXCEPT !.version = 2, !.checksum = Checksum(r), !.partition = "default",
            !.correlation = IF @ = Missing THEN "made up" ELSE @]

DowngradeV2ToV1(r) == [r EXCEPT !.version = 1, !.checksum = NoChecksum, !.partition = Missing]

Apply(records) == [i \in DOMAIN records |-> IF records[i].version = 2 THEN records[i] ELSE UpgradeV1ToV2(records[i])]
Rollback(records) == [i \in DOMAIN records |-> IF records[i].version = 2 THEN DowngradeV2ToV1(records[i]) ELSE records[i]]
AffectedCount(records) == Cardinality({i \in DOMAIN records : records[i].version # 2})

(* checkStorageCompatibility: what executeStorageSchemaMigration asks first. *)
Compatible(records) ==
  \A i \in DOMAIN records :
    /\ records[i].id # Missing
    /\ IF records[i].version = 2 THEN records[i].checksum # NoChecksum ELSE records[i].state # Missing

(* The checks of the migration, and one supplied with it. *)
AllVersion2(records) == \A i \in DOMAIN records : records[i].version = 2
ValidChecksums(records) == \A i \in DOMAIN records : records[i].checksum \notin {NoChecksum, ShortChecksum}
UniqueIds(records) == \A i, j \in DOMAIN records : records[i].id = records[j].id => i = j
PostChecks == <<"all_records_schema_version_2", "valid_integrity_checksums", "supplied">>
Passes(check, records) ==
  CASE check = "all_records_schema_version_2" -> {AllVersion2(records)}
    [] check = "valid_integrity_checksums" -> {ValidChecksums(records)}
    [] check = "supplied" -> {UniqueIds(records), FALSE}

IdsOf(records) == {records[i].id : i \in DOMAIN records} \ {Missing}

(* verifyRollback: as many records, every id, and what the supplied rollback check says. *)
Verified(from, restored, supplied) == Len(restored) = Len(from) /\ IdsOf(from) \subseteq IdsOf(restored) /\ supplied

-----------------------------------------------------------------------------
Idle == [stage |-> "idle", from |-> <<>>, output |-> <<>>, next |-> 0, failed |-> FALSE, auto |-> FALSE, attempts |-> 0]
Report(status, output, affected) == [status |-> status, output |-> output, affected |-> affected]

(* execute, up to its first await: apply throws, or the checks begin. *)
Execute(auto, throws) ==
  /\ run = Idle /\ runs < MaxRuns /\ runs' = runs + 1
  /\ original' = dataset
  /\ IF throws
       THEN report' = Report("failed", <<>>, 0) /\ UNCHANGED run
       ELSE /\ run' = [Idle EXCEPT !.stage = "checking", !.from = dataset, !.output = Apply(dataset), !.next = 1, !.auto = auto]
            /\ UNCHANGED report
  /\ UNCHANGED <<handler, dataset>>

(* preview, and execute in dry run mode. *)
DryRunMigration ==
  /\ run = Idle
  /\ report' = Report("dry_run", <<>>, AffectedCount(dataset))
  /\ UNCHANGED <<handler, dataset, original, run, runs>>

(* executeStorageSchemaMigration: it gives no records back, and its data set stays as it is. *)
ExecuteStorageSchemaMigration(permitted, dry) ==
  /\ run = Idle
  /\ report' = Report(CASE ~permitted -> "permission_denied"
                       [] permitted /\ ~Compatible(dataset) -> "corrupt_record_detected"
                       [] permitted /\ Compatible(dataset) /\ ~dry /\ ~ValidChecksums(Apply(dataset)) -> "migration_validation_failed"
                       [] OTHER -> "passed", <<>>, AffectedCount(dataset))
  /\ UNCHANGED <<handler, dataset, original, run, runs>>

(* Mutant: the last check decides. *)
CheckFinishesLast(passed) ==
  /\ run.stage = "checking" /\ run.next <= Len(PostChecks)
  /\ passed \in Passes(PostChecks[run.next], run.output)
  /\ run' = [run EXCEPT !.next = @ + 1, !.failed = ~passed]
  /\ UNCHANGED <<handler, dataset, original, report, runs>>

(* A check returns, or throws, which counts as failed. *)
CheckFinishes(passed) ==
  /\ run.stage = "checking" /\ run.next <= Len(PostChecks)
  /\ passed \in Passes(PostChecks[run.next], run.output)
  /\ run' = [run EXCEPT !.next = @ + 1, !.failed = @ \/ ~passed]
  /\ UNCHANGED <<handler, dataset, original, report, runs>>

Finish(status, output) ==
  /\ report' = Report(status, output, AffectedCount(run.from))
  /\ run' = Idle
  /\ UNCHANGED <<handler, dataset, original, runs>>

Checked == run.stage = "checking" /\ run.next > Len(PostChecks)

Succeed == Checked /\ ~run.failed /\ Finish("applied", run.output)

(* No rollback is asked for or defined, or it throws. *)
FailUnrestored(throws) ==
  /\ Checked /\ run.failed /\ (~run.auto \/ ~handler \/ throws)
  /\ Finish("failed", <<>>)

(* The rollback ran; its verification is awaited. *)
RollBack ==
  /\ Checked /\ run.failed /\ run.auto /\ handler
  /\ run' = [run EXCEPT !.stage = "verifying", !.output = Rollback(run.output)]
  /\ UNCHANGED <<handler, dataset, original, report, runs>>

VerifyRollback(supplied) ==
  /\ run.stage = "verifying"
  /\ Finish(IF Verified(run.from, run.output, supplied) THEN "rolled_back" ELSE "rollback_verification_failed", run.output)

(* retryRollback, after a verification that failed: up to MaxRetries more attempts. *)
RetryRollback(throws, supplied) ==
  LET restored == Rollback(Apply(original))
      verified == handler /\ ~throws /\ Verified(original, restored, supplied)
      gone == ~handler \/ run.attempts >= MaxRetries
  IN /\ report.status = "rollback_verification_failed" /\ run.stage \in {"idle", "retrying"}
     /\ IF verified \/ gone
          THEN /\ report' = Report(IF verified THEN "rolled_back" ELSE "verification_failed",
                                   IF handler /\ ~throws THEN restored ELSE <<>>, report.affected)
               /\ run' = Idle
          ELSE run' = [Idle EXCEPT !.stage = "retrying", !.attempts = run.attempts + 1] /\ UNCHANGED report
     /\ UNCHANGED <<handler, dataset, original, runs>>

(* The owner keeps the records a report gives back. *)
KeepOutput ==
  /\ run = Idle /\ report.status \in {"applied", "rolled_back"}
  /\ dataset' = report.output
  /\ report' = Report("kept", <<>>, 0)
  /\ UNCHANGED <<handler, original, run, runs>>

MigrationInit ==
  /\ handler \in BOOLEAN /\ dataset \in DataSets /\ original = dataset /\ run = Idle /\ runs = 0
  /\ report = Report("none", <<>>, 0)

MigrationNext ==
  \/ DryRunMigration \/ Succeed \/ RollBack \/ KeepOutput
  \/ \E b \in BOOLEAN :
       \/ CheckFinishes(b) \/ FailUnrestored(b) \/ VerifyRollback(b)
       \/ \E c \in BOOLEAN : Execute(b, c) \/ ExecuteStorageSchemaMigration(b, c) \/ RetryRollback(b, c)

MigrationSpec == MigrationInit /\ [][MigrationNext]_migrationVars

-----------------------------------------------------------------------------
(* Was the record one that a downgrade can give back? *)
Reversible1(r) == r.version = 1 /\ r.correlation # Missing

(***************************************************************************)
(* Whatever is applied, rolled back, retried and kept, no record is lost   *)
(* or renamed.  What a run reports as applied passed every check and is    *)
(* left alone by another run; what it reports as rolled back is, for each  *)
(* record that was still of version 1, the record it was (execute,         *)
(* verifyRollback, retryRollback).                                         *)
(***************************************************************************)
MigratesSafely ==
  /\ Len(dataset) = Len(original) /\ \A i \in DOMAIN dataset : dataset[i].id = original[i].id
  /\ report.status = "applied" =>
       /\ AllVersion2(report.output) /\ ValidChecksums(report.output) /\ UniqueIds(report.output)
       /\ Apply(report.output) = report.output
  /\ report.status = "rolled_back" =>
       /\ Len(report.output) = Len(original)
       /\ \A i \in DOMAIN original : Reversible1(original[i]) => report.output[i] = original[i]
=============================================================================
