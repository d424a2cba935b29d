-------------------------- MODULE MaintenanceProofs --------------------------
(***************************************************************************)
(* Theorems about what operators run: rollouts (Rollout), snapshots        *)
(* (Snapshots), migrations (Migration), the service mode (ServiceStatus)   *)
(* and backfills (Backfill).                                               *)
(***************************************************************************)
EXTENDS Rollout, Snapshots, Migration, ServiceStatus, Backfill, SequenceTheorems, TLAPS

(***************************************************************************)
(* Rollouts.  The strengthening: whoever pulled the flag holds a switch    *)
(* that is still off, its own or one it shares.                            *)
(***************************************************************************)
Counters == [successes : Nat, failures : Nat, consecutive : Nat, tripped : BOOLEAN, report : {"none"}]

RolloutInv ==
  /\ breaker \in Counters
  /\ \A p \in pulled :
       \/ p = "breaker" /\ breaker.tripped
       \/ p = "everything" /\ killAll
       \/ p \in {"operator"} \cup Guards /\ emergency

LEMMA BreakerHolds == ASSUME RolloutInv, NEW success \in BOOLEAN, RecordFeature(success) PROVE RolloutInv'
<1>1. PICK b \in Counters : b = breaker
  BY DEF RolloutInv
<1>2. PICK next : next = [b EXCEPT !.successes = IF success THEN @ + 1 ELSE @, !.failures = IF success THEN @ ELSE @ + 1]
  OBVIOUS
<1>3. next \in Counters /\ next.tripped = b.tripped
  <2>1. PICK s \in Nat : s = IF success THEN b.successes + 1 ELSE b.successes
    BY <1>1 DEF Counters
  <2>2. PICK f \in Nat : f = IF success THEN b.failures ELSE b.failures + 1
    BY <1>1 DEF Counters
  <2>3. next = [b EXCEPT !.successes = s, !.failures = f]
    BY <1>2, <2>1, <2>2
  <2>. QED BY <1>1, <2>3, Zenon DEF Counters
<1>4. PICK tripped \in BOOLEAN : tripped = (next.tripped \/ (~success /\ Breached(next)))
  BY Zenon DEF Breached
<1>5. PICK last : last = [next EXCEPT !.tripped = tripped]
  BY Zenon
<1>6. last \in Counters /\ last.tripped = tripped
  BY <1>3, <1>5 DEF Counters
<1>7. breaker' = last
  BY <1>1, <1>2, <1>4, <1>5 DEF RecordFeature
<1>8. /\ UNCHANGED <<emergency, killAll>> /\ (b.tripped => tripped)
      /\ pulled' = pulled \cup IF last.tripped THEN {"breaker"} ELSE {}
  BY <1>3, <1>4, <1>7, Zenon DEF RecordFeature
<1>. QED BY <1>1, <1>6, <1>7, <1>8 DEF RolloutInv

LEMMA RolloutStep == RolloutInv /\ [RolloutNext]_rolloutVars => RolloutInv'
<1>1. SUFFICES ASSUME RolloutInv, [RolloutNext]_rolloutVars PROVE RolloutInv'
  OBVIOUS
<1>. USE <1>1 DEF RolloutInv
<1>2. CASE ResetCircuitBreaker
  <2>1. Quiet \in Counters
    BY DEF Quiet, Counters
  <2>. QED BY <1>2, <2>1 DEF ResetCircuitBreaker
<1>3. CASE TriggerEmergencyDisable
  BY <1>3 DEF TriggerEmergencyDisable
<1>4. CASE ClearEmergencyDisable
  BY <1>4 DEF ClearEmergencyDisable
<1>5. ASSUME NEW on \in BOOLEAN, GlobalKillSwitch(on) PROVE RolloutInv'
  BY <1>5 DEF GlobalKillSwitch
<1>6. ASSUME NEW success \in BOOLEAN, RecordFeature(success) PROVE RolloutInv'
  BY <1>6, BreakerHolds
<1>7. ASSUME NEW c \in Configs, ConfigureRollout(c) PROVE RolloutInv'
  BY <1>7 DEF ConfigureRollout
<1>8. ASSUME NEW c \in Configs, NEW g \in Guards, CreateRolloutGuard(g, c) PROVE RolloutInv'
  BY <1>8 DEF CreateRolloutGuard
<1>9. ASSUME NEW g \in Guards, RecordSuccess(g) PROVE RolloutInv'
  BY <1>9 DEF RecordSuccess
<1>10. ASSUME NEW g \in Guards, NEW counters, NEW b, ExecuteRollback(g, counters, b), UNCHANGED <<killAll, breaker>>
       PROVE  RolloutInv'
  BY <1>10 DEF ExecuteRollback
<1>11. ASSUME NEW g \in Guards, NEW b \in BOOLEAN, RecordFailure(g, b) PROVE RolloutInv'
  <2>1. PICK next : next = [guards[g] EXCEPT !.failures = @ + 1, !.consecutive = @ + 1]
    OBVIOUS
  <2>2. /\ UNCHANGED <<killAll, breaker>>
        /\ ExecuteRollback(g, next, b) \/ UNCHANGED <<emergency, pulled>>
    BY <1>11, <2>1 DEF RecordFailure
  <2>3. CASE ExecuteRollback(g, next, b)
    BY <1>10, <2>2, <2>3
  <2>4. CASE UNCHANGED <<emergency, pulled>>
    BY <2>2, <2>4
  <2>. QED BY <2>2, <2>3, <2>4
<1>12. ASSUME NEW g \in Guards, NEW b \in BOOLEAN, ManualRollback(g, b) PROVE RolloutInv'
  BY <1>10, <1>12 DEF ManualRollback
<1>13. CASE UNCHANGED rolloutVars
  BY <1>13 DEF rolloutVars
<1>. QED BY <1>2, <1>3, <1>4, <1>5, <1>6, <1>7, <1>8, <1>9, <1>11, <1>12, <1>13 DEF RolloutNext

(***************************************************************************)
(* Whatever the configurations, limits and guards: once a guard, the       *)
(* breaker or an operator pulled the flag nobody has the feature, on the   *)
(* allow list or off it, until that is cleared (isFeatureEnabled,          *)
(* executeRollback).                                                       *)
(***************************************************************************)
THEOREM PulledFlagIsOff == RolloutSpec => []PulledStaysOff
<1>1. RolloutInit => RolloutInv
  BY DEF RolloutInit, RolloutInv, Quiet, Counters
<1>2. RolloutInv => PulledStaysOff
  BY DEF RolloutInv, PulledStaysOff, IsFeatureEnabled
<1>. QED BY <1>1, <1>2, RolloutStep, PTL DEF RolloutSpec

-----------------------------------------------------------------------------
(***************************************************************************)
(* Snapshots.  The strengthening: a snapshot has the index of what was     *)
(* captured, and its hash if it has one; only its records can have been    *)
(* written to since.                                                       *)
(***************************************************************************)
ArchRecord == [state : {"active", "archived", "restored"}, value : ArchValues]
Records == [Ids -> ArchRecord]
SnapTaken ==
  /\ snap.records \in Records /\ captured \in Records
  /\ snap.ledgerSequence \in Nat
  /\ snap.index = IndexOf(captured)
  /\ snap.contentHash \in {<<>>, captured}
SnapFields == {"records", "schemaVersion", "ledgerSequence", "index", "contentHash"}

SnapInv ==
  /\ live \in Records /\ ledger \in Nat /\ writes \in Nat
  /\ snap = NoSnapshot \/ SnapTaken
  /\ shared => SnapTaken
  /\ DOMAIN snap = SnapFields

(* A write in place keeps all of that. *)
LEMMA WriteKeeps ==
  ASSUME SnapInv, NEW records \in Records, InPlace(records),
         writes' = writes + 1, UNCHANGED <<ledger, captured, shared>>
  PROVE  SnapInv' /\ writes' # writes /\ ledger' = ledger
<1>1. writes' \in Nat /\ writes' # writes
  BY DEF SnapInv
<1>2. CASE shared
  <2>1. PICK now : now = [snap EXCEPT !.records = records]
    BY Zenon
  <2>2. /\ now.records = records /\ now.ledgerSequence = snap.ledgerSequence /\ now.index = snap.index
        /\ now.contentHash = snap.contentHash /\ DOMAIN now = SnapFields
    BY <2>1 DEF SnapInv, SnapFields
  <2>3. snap' = now
    BY <1>2, <2>1 DEF InPlace
  <2>4. SnapTaken'
    BY <1>2, <2>2, <2>3 DEF SnapInv, SnapTaken, IndexOf
  <2>. QED BY <1>1, <2>2, <2>3, <2>4 DEF SnapInv, InPlace
<1>3. CASE ~shared
  BY <1>1, <1>3 DEF SnapInv, InPlace, SnapTaken, IndexOf
<1>. QED BY <1>2, <1>3

(* Records with the same index hold the same values. *)
LEMMA IndexTellsValues ==
  ASSUME NEW r \in Records, NEW s \in Records, \A v \in ArchValues : IndexOf(s)[v] = IndexOf(r)[v]
  PROVE  ValuesOf(r) = ValuesOf(s)
<1>1. ASSUME NEW id \in Ids PROVE r[id].value = s[id].value
  <2>1. r[id].value \in ArchValues
    BY DEF Records, ArchRecord
  <2>2. id \in IndexOf(r)[r[id].value]
    BY <2>1 DEF IndexOf
  <2>3. id \in IndexOf(s)[r[id].value]
    BY <2>1, <2>2
  <2>. QED BY <2>1, <2>3 DEF IndexOf
<1>. QED BY <1>1 DEF ValuesOf

(* What a step of the archive may do. *)
RestoreHolds ==
  /\ live' # live /\ writes' = writes =>
       /\ restored'.status = "restored"
       /\ live' = captured \/ (~restored'.hashChecked /\ (restored'.mismatches # {} \/ ValuesOf(live') = ValuesOf(captured)))
       /\ \A id \in Ids : live'[id].value \notin Broken
  /\ ledger' < ledger => restored'.status = "restored" /\ ledger' >= restored'.atLeast

LEMMA RestoreStep ==
  ASSUME SnapInv, NEW hashed \in BOOLEAN, NEW allow \in BOOLEAN, NEW bounded \in BOOLEAN, NEW dryRun \in BOOLEAN,
         VerifyAndRestore(hashed, allow, bounded, dryRun)
  PROVE  SnapInv' /\ RestoreHolds
<1>1. PICK refused \in BOOLEAN : refused = (\/ SchemaMismatch(allow) \/ (bounded /\ LedgerRegression)
                                           \/ HashMismatch(hashed) \/ InvariantFailed)
  BY Zenon DEF SchemaMismatch, LedgerRegression, HashMismatch, InvariantFailed
<1>2. /\ SnapTaken /\ UNCHANGED <<snap, captured, writes>>
      /\ restored' = [status |-> IF refused THEN "refused" ELSE IF dryRun THEN "dry run" ELSE "restored",
                      hashChecked |-> hashed /\ snap.contentHash # <<>>,
                      atLeast |-> IF bounded THEN ledger ELSE 0,
                      mismatches |-> IF refused THEN {} ELSE Mismatches]
      /\ refused \/ dryRun => UNCHANGED <<live, ledger, shared>>
      /\ ~(refused \/ dryRun) => live' = snap.records /\ ledger' = snap.ledgerSequence /\ shared' = FALSE
  BY <1>1, Zenon DEF VerifyAndRestore, SnapInv
<1>3. CASE refused \/ dryRun
  <2>1. UNCHANGED <<live, ledger, shared, snap, captured, writes>>
    BY <1>2, <1>3, Zenon
  <2>2. SnapInv'
    BY <2>1 DEF SnapInv, SnapTaken, IndexOf
  <2>3. ~(ledger' < ledger)
    BY <2>1 DEF SnapInv
  <2>. QED BY <2>1, <2>2, <2>3 DEF RestoreHolds
<1>4. CASE ~(refused \/ dryRun)
  <2>1. SnapInv'
    BY <1>2, <1>4, Zenon DEF SnapInv, SnapTaken, IndexOf
  <2>2. /\ restored'.status = "restored" /\ restored'.hashChecked = (hashed /\ snap.contentHash # <<>>)
        /\ restored'.atLeast = (IF bounded THEN ledger ELSE 0) /\ restored'.mismatches = Mismatches
    BY <1>2, <1>4, Zenon
  <2>3. \A id \in Ids : live'[id].value \notin Broken
    BY <1>1, <1>2, <1>4, Zenon DEF InvariantFailed
  <2>4. restored'.hashChecked => live' = captured
    BY <1>1, <1>2, <1>4, <2>2, Zenon DEF HashMismatch, SnapTaken
  <2>5. restored'.mismatches = {} => ValuesOf(live') = ValuesOf(captured)
    <3>1. SUFFICES ASSUME Mismatches = {} PROVE ValuesOf(snap.records) = ValuesOf(captured)
      BY <1>2, <1>4, <2>2, Zenon
    <3>2. \A v \in ArchValues : IndexOf(captured)[v] = IndexOf(snap.records)[v]
      BY <1>2, <3>1, Zenon DEF Mismatches, SnapTaken
    <3>. QED BY <1>2, <3>2, IndexTellsValues, Zenon DEF SnapTaken
  <2>6. ledger' < ledger => ledger' >= restored'.atLeast
    <3>1. ledger' = snap.ledgerSequence /\ ledger' \in Nat /\ ledger \in Nat
      BY <1>2, <1>4, Zenon DEF SnapTaken, SnapInv
    <3>2. CASE bounded
      <4>1. ~(ledger' < ledger)
        BY <1>1, <1>4, <3>1, <3>2, Zenon DEF LedgerRegression
      <4>. QED BY <4>1
    <3>3. CASE ~bounded
      <4>1. restored'.atLeast = 0
        BY <2>2, <3>3
      <4>. QED BY <3>1, <4>1
    <3>. QED BY <3>2, <3>3
  <2>. QED BY <2>1, <2>2, <2>3, <2>4, <2>5, <2>6 DEF RestoreHolds
<1>. QED BY <1>3, <1>4

LEMMA SnapStep == SnapInv /\ [SnapNext]_snapVars => SnapInv' /\ (SnapNext => RestoreHolds)
<1>1. SUFFICES ASSUME SnapInv, [SnapNext]_snapVars PROVE SnapInv' /\ (SnapNext => RestoreHolds)
  OBVIOUS
<1>2. ASSUME NEW records \in Records, InPlace(records), writes' = writes + 1, UNCHANGED <<ledger, captured, shared>>
      PROVE  SnapInv' /\ RestoreHolds
  <2>1. SnapInv' /\ writes' # writes /\ ledger' = ledger
    BY <1>1, <1>2, WriteKeeps
  <2>. QED BY <1>1, <2>1 DEF RestoreHolds, SnapInv
<1>3. ASSUME NEW id \in Ids, NEW v \in ArchValues, WriteRecord(id, v) PROVE SnapInv' /\ RestoreHolds
  <2>1. PICK records : records = [live EXCEPT ![id].value = v]
    BY Zenon
  <2>2. records \in Records
    BY <1>1, <2>1 DEF SnapInv, Records, ArchRecord
  <2>. QED BY <1>2, <1>3, <2>1, <2>2 DEF WriteRecord
<1>4. ASSUME NEW id \in Ids, ArchiveRecord(id) \/ RestoreRecord(id) PROVE SnapInv' /\ RestoreHolds
  <2>1. PICK state \in {"archived", "restored"} : /\ InPlace([live EXCEPT ![id].state = state])
                                                 /\ writes' = writes + 1 /\ UNCHANGED <<ledger, captured, shared>>
    BY <1>4 DEF ArchiveRecord, RestoreRecord
  <2>2. PICK records : records = [live EXCEPT ![id].state = state]
    BY Zenon
  <2>3. records \in Records
    BY <1>1, <2>2 DEF SnapInv, Records, ArchRecord
  <2>. QED BY <1>2, <2>1, <2>2, <2>3
<1>5. CASE Copy
  BY <1>1, <1>5 DEF Copy, SnapInv, SnapTaken, IndexOf, RestoreHolds
<1>6. CASE Moves
  BY <1>1, <1>6 DEF Moves, SnapInv, SnapTaken, IndexOf, RestoreHolds
<1>7. ASSUME NEW hashed \in BOOLEAN, CaptureSnapshot(hashed) PROVE SnapInv' /\ RestoreHolds
  <2>1. /\ snap' = [records |-> live, schemaVersion |-> schema, ledgerSequence |-> ledger, index |-> IndexOf(live),
                    contentHash |-> IF hashed THEN live ELSE <<>>]
        /\ captured' = live /\ UNCHANGED <<live, ledger, writes>>
    BY <1>7 DEF CaptureSnapshot
  <2>2. /\ snap'.records = live /\ snap'.ledgerSequence = ledger /\ snap'.index = IndexOf(live)
        /\ snap'.contentHash \in {<<>>, live} /\ DOMAIN snap' = SnapFields
    BY <2>1 DEF SnapFields
  <2>3. SnapTaken'
    BY <1>1, <2>1, <2>2 DEF SnapTaken, SnapInv, IndexOf
  <2>. QED BY <1>1, <2>1, <2>2, <2>3 DEF SnapInv, RestoreHolds
<1>8. ASSUME NEW hashed \in BOOLEAN, NEW allow \in BOOLEAN, NEW bounded \in BOOLEAN, NEW dryRun \in BOOLEAN,
             VerifyAndRestore(hashed, allow, bounded, dryRun)
      PROVE  SnapInv' /\ RestoreHolds
  BY <1>1, <1>8, RestoreStep
<1>9. CASE UNCHANGED snapVars
  BY <1>1, <1>9 DEF snapVars, SnapInv, SnapTaken, IndexOf, RestoreHolds
<1>. QED BY <1>1, <1>3, <1>4, <1>5, <1>6, <1>7, <1>8, <1>9 DEF SnapNext

(***************************************************************************)
(* Whatever the records, the values and the versions: a restore puts back  *)
(* what was captured, or tells by its index that a value was written to    *)
(* the snapshot; and a refused restore, or a dry run, writes nothing       *)
(* (captureSnapshot, verifyAndRestore).                                    *)
(***************************************************************************)
THEOREM SnapshotsRestoreWhatTheyCaptured == SnapSpec => RestoresWhatWasCaptured
<1>1. SnapInit => SnapInv
  BY DEF SnapInit, SnapInv, Records, ArchRecord, NoSnapshot, SnapFields
<1>2. SnapInv /\ [SnapNext]_snapVars => SnapInv'
  BY SnapStep
<1>3. SnapInv /\ [SnapNext]_snapVars => [RestoreHolds]_snapVars
  BY SnapStep
<1>. QED BY <1>1, <1>2, <1>3, PTL DEF SnapSpec, RestoresWhatWasCaptured, RestoreHolds

-----------------------------------------------------------------------------
(***************************************************************************)
(* Migrations.  What the two directions of a migration do to a record.     *)
(***************************************************************************)
LEMMA UpgradeKeeps ==
  ASSUME NEW r \in StoredRecord, r.version # 2
  PROVE  UpgradeV1ToV2(r) \in StoredRecord /\ UpgradeV1ToV2(r).id = r.id /\ UpgradeV1ToV2(r).version = 2
BY MigrationConstants, Zenon DEF StoredRecord, UpgradeV1ToV2, Checksum, Missing, NoChecksum, ShortChecksum

LEMMA DowngradeKeeps ==
  ASSUME NEW r \in StoredRecord, r.version = 2
  PROVE  DowngradeV2ToV1(r) \in StoredRecord /\ DowngradeV2ToV1(r).id = r.id
BY Zenon DEF StoredRecord, DowngradeV2ToV1, Missing, NoChecksum, ShortChecksum

LEMMA DowngradeReverses ==
  ASSUME NEW r \in StoredRecord, Reversible1(r)
  PROVE  DowngradeV2ToV1(UpgradeV1ToV2(r)) = r
<1>1. r.version # 2 /\ r.correlation # Missing
  BY DEF Reversible1
<1>. QED BY <1>1, Zenon DEF StoredRecord, UpgradeV1ToV2, DowngradeV2ToV1, Checksum, Missing, NoChecksum, ShortChecksum

(* The same records under the same ids. *)
SameIds(records, others) ==
  /\ records \in Seq(StoredRecord)
  /\ Len(records) = Len(others) /\ \A i \in 1..Len(others) : records[i].id = others[i].id

LEMMA ApplyKeeps ==
  ASSUME NEW records \in Seq(StoredRecord)
  PROVE  SameIds(Apply(records), records)
<1>1. ASSUME NEW i \in 1..Len(records)
      PROVE  Apply(records)[i] \in StoredRecord /\ Apply(records)[i].id = records[i].id
  <2>1. PICK r \in StoredRecord : r = records[i]
    BY ElementOfSeq
  <2>2. Apply(records)[i] = IF r.version = 2 THEN r ELSE UpgradeV1ToV2(r)
    BY <2>1 DEF Apply
  <2>. QED BY <2>1, <2>2, UpgradeKeeps
<1>2. Apply(records) = [i \in 1..Len(records) |-> Apply(records)[i]] /\ Len(records) \in Nat
  BY LenProperties DEF Apply
<1>3. Apply(records) \in Seq(StoredRecord) /\ Len(Apply(records)) = Len(records)
  BY <1>1, <1>2, LenProperties
<1>. QED BY <1>1, <1>3 DEF SameIds

LEMMA RollbackKeeps ==
  ASSUME NEW records \in Seq(StoredRecord)
  PROVE  SameIds(Rollback(records), records)
<1>1. ASSUME NEW i \in 1..Len(records)
      PROVE  Rollback(records)[i] \in StoredRecord /\ Rollback(records)[i].id = records[i].id
  <2>1. PICK r \in StoredRecord : r = records[i]
    BY ElementOfSeq
  <2>2. Rollback(records)[i] = IF r.version = 2 THEN DowngradeV2ToV1(r) ELSE r
    BY <2>1 DEF Rollback
  <2>. QED BY <2>1, <2>2, DowngradeKeeps
<1>2. Rollback(records) = [i \in 1..Len(records) |-> Rollback(records)[i]] /\ Len(records) \in Nat
  BY LenProperties DEF Rollback
<1>3. Rollback(records) \in Seq(StoredRecord) /\ Len(Rollback(records)) = Len(records)
  BY <1>1, <1>2, LenProperties
<1>. QED BY <1>1, <1>3 DEF SameIds

(* A rollback gives back every record that it can. *)
GivesBack(records, others) == \A i \in 1..Len(others) : Reversible1(others[i]) => records[i] = others[i]

LEMMA RollbackReverses ==
  ASSUME NEW records \in Seq(StoredRecord)
  PROVE  SameIds(Rollback(Apply(records)), records) /\ GivesBack(Rollback(Apply(records)), records)
<1>1. PICK applied \in Seq(StoredRecord) : applied = Apply(records) /\ SameIds(applied, records)
  BY ApplyKeeps DEF SameIds
<1>2. SameIds(Rollback(applied), applied)
  BY RollbackKeeps
<1>3. ASSUME NEW i \in 1..Len(records), Reversible1(records[i]) PROVE Rollback(applied)[i] = records[i]
  <2>1. PICK r \in StoredRecord : r = records[i] /\ r.version = 1 /\ Reversible1(r)
    BY <1>3, ElementOfSeq DEF Reversible1
  <2>2. applied[i] = UpgradeV1ToV2(r) /\ UpgradeV1ToV2(r).version = 2
    BY <1>1, <2>1, UpgradeKeeps, LenProperties DEF Apply
  <2>3. i \in DOMAIN applied
    BY <1>1, LenProperties DEF SameIds
  <2>4. Rollback(applied)[i] = DowngradeV2ToV1(UpgradeV1ToV2(r))
    BY <2>2, <2>3 DEF Rollback
  <2>. QED BY <2>1, <2>4, DowngradeReverses
<1>4. SameIds(Rollback(applied), records)
  BY <1>1, <1>2 DEF SameIds
<1>. QED BY <1>1, <1>3, <1>4 DEF GivesBack

LEMMA ApplyOnce ==
  ASSUME NEW records \in Seq(StoredRecord), AllVersion2(records)
  PROVE  Apply(records) = records
<1>1. \A i \in DOMAIN records : Apply(records)[i] = records[i]
  BY DEF Apply, AllVersion2
<1>2. Apply(records) = [i \in DOMAIN records |-> Apply(records)[i]] /\ records = [i \in DOMAIN records |-> records[i]]
  BY DEF Apply
<1>. QED BY <1>1, <1>2

(***************************************************************************)
(* The strengthening: a run works on what the owner holds, its output is   *)
(* that data set migrated or rolled back, and it has passed the checks it  *)
(* has left behind; a report that gives records back is about the data set *)
(* that the owner still holds.                                             *)
(***************************************************************************)
RunRecord ==
  [stage : {"idle", "checking", "verifying", "retrying"}, from : Seq(StoredRecord), output : Seq(StoredRecord),
   next : 0..4, failed : BOOLEAN, auto : BOOLEAN, attempts : Nat]

PassedBefore(n, records) ==
  /\ n > 1 => AllVersion2(records)
  /\ n > 2 => ValidChecksums(records)
  /\ n > 3 => UniqueIds(records)

RunHolds(r) ==
  /\ r \in RunRecord
  /\ r.stage # "idle" => dataset = original
  /\ r.stage \in {"checking", "verifying"} => r.from = original
  /\ r.stage = "checking" =>
       r.output = Apply(original) /\ r.next >= 1 /\ (~r.failed => PassedBefore(r.next, r.output))
  /\ r.stage = "verifying" => r.output = Rollback(Apply(original))

ReportHolds ==
  /\ report.status \in {"applied", "rolled_back", "rollback_verification_failed"} => dataset = original
  /\ report.status = "applied" => report.output = Apply(original) /\ PassedBefore(4, report.output)
  /\ report.status = "rolled_back" => report.output = Rollback(Apply(original))

MigrationInv ==
  /\ dataset \in Seq(StoredRecord) /\ original \in Seq(StoredRecord) /\ SameIds(dataset, original)
  /\ RunHolds(run) /\ ReportHolds

LEMMA IdleHolds == Idle \in RunRecord /\ Idle.stage = "idle"
BY EmptySeq DEF Idle, RunRecord

(* The data set stays as it is; the run and the report may move on. *)
LEMMA MigrationMoves ==
  ASSUME MigrationInv, UNCHANGED <<dataset, original>>, RunHolds(run'), ReportHolds'
  PROVE  MigrationInv'
BY DEF MigrationInv, RunHolds, SameIds

LEMMA ExecuteHolds ==
  ASSUME MigrationInv, NEW auto \in BOOLEAN, NEW throws \in BOOLEAN, Execute(auto, throws)
  PROVE  MigrationInv'
<1>1. /\ run = Idle /\ original' = dataset /\ UNCHANGED dataset
      /\ dataset' \in Seq(StoredRecord) /\ original' \in Seq(StoredRecord) /\ SameIds(dataset, original)'
  BY DEF Execute, MigrationInv, SameIds
<1>2. CASE throws
  <2>1. report'.status = "failed" /\ run' = run
    BY <1>2 DEF Execute, Report
  <2>2. RunHolds(run)'
    BY <1>1, <2>1, IdleHolds DEF RunHolds
  <2>. QED BY <1>1, <2>1, <2>2 DEF MigrationInv, ReportHolds
<1>3. CASE ~throws
  <2>1. PICK applied \in Seq(StoredRecord) : applied = Apply(dataset)
    BY ApplyKeeps DEF MigrationInv, SameIds
  <2>2. PICK r : r = [Idle EXCEPT !.stage = "checking", !.from = dataset, !.output = applied, !.next = 1, !.auto = auto]
    OBVIOUS
  <2>3. /\ r \in RunRecord /\ r.stage = "checking" /\ r.from = dataset /\ r.output = applied /\ r.next = 1
    <3>1. PICK from \in Seq(StoredRecord) : from = dataset
      BY DEF MigrationInv
    <3>2. r = [stage |-> "checking", from |-> from, output |-> applied, next |-> 1, failed |-> FALSE,
               auto |-> auto, attempts |-> 0]
      BY <2>2, <3>1, Zenon DEF Idle
    <3>. QED BY <3>1, <3>2 DEF RunRecord
  <2>4. run' = r /\ UNCHANGED report
    BY <1>3, <2>1, <2>2 DEF Execute
  <2>5. RunHolds(run)'
    BY <1>1, <2>1, <2>3, <2>4 DEF RunHolds, PassedBefore
  <2>6. ReportHolds'
    <3>1. report.status \in {"applied", "rolled_back", "rollback_verification_failed"} => original' = original
      BY <1>1 DEF MigrationInv, ReportHolds
    <3>. QED BY <1>1, <2>4, <3>1 DEF MigrationInv, ReportHolds
  <2>. QED BY <1>1, <2>5, <2>6 DEF MigrationInv
<1>. QED BY <1>2, <1>3

(* A check that passes is one more that the output has passed. *)
LEMMA CheckHolds == ASSUME MigrationInv, NEW passed \in BOOLEAN, CheckFinishes(passed) PROVE MigrationInv'
<1>1. PICK r \in RunRecord : r = run /\ RunHolds(r)
  BY DEF MigrationInv, RunHolds
<1>2. /\ r.stage = "checking" /\ r.next \in 1..3 /\ UNCHANGED <<dataset, original, report>>
      /\ passed \in Passes(PostChecks[r.next], r.output)
  BY <1>1 DEF CheckFinishes, PostChecks, RunHolds, RunRecord
<1>3. PICK failed \in BOOLEAN : failed = (r.failed \/ ~passed)
  BY Zenon
<1>4. PICK next \in 0..4 : next = r.next + 1
  BY <1>2
<1>5. PICK now : now = [r EXCEPT !.next = next, !.failed = failed]
  OBVIOUS
<1>6. /\ now \in RunRecord /\ now.stage = "checking" /\ now.from = r.from /\ now.output = r.output
      /\ now.next = r.next + 1 /\ now.failed = failed
  BY <1>2, <1>4, <1>5, Zenon DEF RunRecord
<1>7. run' = now
  BY <1>1, <1>3, <1>4, <1>5 DEF CheckFinishes
<1>8. ~failed => PassedBefore(r.next + 1, r.output)
  <2>1. SUFFICES ASSUME ~failed PROVE PassedBefore(r.next + 1, r.output)
    OBVIOUS
  <2>2. passed = TRUE /\ PassedBefore(r.next, r.output)
    BY <1>1, <1>2, <1>3, <2>1, Zenon DEF RunHolds
  <2>3. CASE r.next = 1
    BY <1>2, <2>2, <2>3 DEF PostChecks, Passes, PassedBefore
  <2>4. CASE r.next = 2
    BY <1>2, <2>2, <2>4 DEF PostChecks, Passes, PassedBefore
  <2>5. CASE r.next = 3
    <3>1. PostChecks[r.next] = "supplied"
      BY <2>5 DEF PostChecks
    <3>2. passed \in {UniqueIds(r.output), FALSE}
      BY <1>2, <3>1, Zenon DEF Passes
    <3>3. UniqueIds(r.output)
      BY <2>2, <3>2, Zenon
    <3>. QED BY <2>2, <2>5, <3>3 DEF PassedBefore
  <2>. QED BY <1>2, <2>3, <2>4, <2>5
<1>9. RunHolds(now)
  BY <1>1, <1>2, <1>6, <1>8 DEF RunHolds
<1>10. ReportHolds'
  BY <1>2 DEF MigrationInv, ReportHolds
<1>. QED BY <1>2, <1>7, <1>9, <1>10, MigrationMoves

(* A run that finishes, with a report that holds. *)
LEMMA FinishHolds ==
  ASSUME MigrationInv, NEW status, NEW output, Finish(status, output), run.stage # "idle",
         status = "applied" => output = Apply(original) /\ PassedBefore(4, output),
         status = "rolled_back" => output = Rollback(Apply(original))
  PROVE  MigrationInv'
<1>1. /\ UNCHANGED <<dataset, original>> /\ run' = Idle
      /\ report'.status = status /\ report'.output = output /\ dataset = original
  BY DEF Finish, Report, MigrationInv, RunHolds
<1>2. RunHolds(run')
  BY <1>1, IdleHolds DEF RunHolds
<1>3. ReportHolds'
  BY <1>1 DEF ReportHolds, PassedBefore, AllVersion2, ValidChecksums, UniqueIds
<1>. QED BY <1>1, <1>2, <1>3, MigrationMoves

(* A report that gives nothing back, while nothing runs. *)
LEMMA ReportOnly ==
  ASSUME MigrationInv, UNCHANGED <<dataset, original, run>>,
         report'.status \notin {"applied", "rolled_back", "rollback_verification_failed"}
  PROVE  MigrationInv'
BY MigrationMoves DEF MigrationInv, ReportHolds

LEMMA SucceedHolds == ASSUME MigrationInv, Succeed PROVE MigrationInv'
<1>1. PICK r \in RunRecord : r = run /\ RunHolds(r)
  BY DEF MigrationInv, RunHolds
<1>2. r.stage = "checking" /\ ~r.failed /\ r.next > 3 /\ Finish("applied", r.output)
  BY <1>1 DEF Succeed, Checked, PostChecks
<1>3. r.output = Apply(original) /\ PassedBefore(4, r.output)
  BY <1>1, <1>2 DEF RunHolds, RunRecord, PassedBefore
<1>. QED BY <1>1, <1>2, <1>3, FinishHolds

LEMMA RollBackHolds == ASSUME MigrationInv, RollBack PROVE MigrationInv'
<1>1. PICK r \in RunRecord : r = run /\ RunHolds(r)
  BY DEF MigrationInv, RunHolds
<1>2. r.stage = "checking" /\ UNCHANGED <<dataset, original, report>> /\ r.output = Apply(original)
  BY <1>1 DEF RollBack, Checked, RunHolds
<1>3. PICK back \in Seq(StoredRecord) : back = Rollback(r.output)
  BY RollbackKeeps DEF RunRecord, SameIds
<1>4. PICK now : now = [r EXCEPT !.stage = "verifying", !.output = back]
  OBVIOUS
<1>5. now \in RunRecord /\ now.stage = "verifying" /\ now.from = r.from /\ now.output = back
  BY <1>4, Zenon DEF RunRecord
<1>6. run' = now
  BY <1>1, <1>3, <1>4 DEF RollBack
<1>7. RunHolds(now)
  BY <1>1, <1>2, <1>3, <1>5 DEF RunHolds
<1>8. ReportHolds'
  BY <1>2 DEF MigrationInv, ReportHolds
<1>. QED BY <1>2, <1>6, <1>7, <1>8, MigrationMoves

LEMMA VerifyHolds == ASSUME MigrationInv, NEW supplied \in BOOLEAN, VerifyRollback(supplied) PROVE MigrationInv'
<1>1. PICK status \in {"rolled_back", "rollback_verification_failed"} : Finish(status, run.output)
  BY DEF VerifyRollback
<1>2. run.stage = "verifying" /\ run.output = Rollback(Apply(original))
  BY DEF VerifyRollback, MigrationInv, RunHolds
<1>. QED BY <1>1, <1>2, FinishHolds

LEMMA RetryHolds ==
  ASSUME MigrationInv, NEW throws \in BOOLEAN, NEW supplied \in BOOLEAN, RetryRollback(throws, supplied)
  PROVE  MigrationInv'
<1>1. PICK back : back = Rollback(Apply(original))
  OBVIOUS
<1>2. UNCHANGED <<dataset, original>> /\ dataset = original
  BY DEF RetryRollback, MigrationInv, ReportHolds
<1>3. PICK r \in RunRecord : r = run
  BY DEF MigrationInv, RunHolds
<1>4. \/ run' = Idle /\ (report'.status = "rolled_back" => report'.output = back) /\ report'.status # "applied"
      \/ run' = [Idle EXCEPT !.stage = "retrying", !.attempts = r.attempts + 1] /\ UNCHANGED report
  BY <1>1, <1>3 DEF RetryRollback, Report
<1>5. CASE run' = Idle /\ (report'.status = "rolled_back" => report'.output = back) /\ report'.status # "applied"
  <2>1. RunHolds(run')
    BY <1>5, IdleHolds DEF RunHolds
  <2>2. ReportHolds'
    BY <1>1, <1>2, <1>5 DEF ReportHolds
  <2>. QED BY <1>2, <2>1, <2>2, MigrationMoves
<1>6. CASE run' = [Idle EXCEPT !.stage = "retrying", !.attempts = r.attempts + 1] /\ UNCHANGED report
  <2>1. PICK attempts \in Nat : attempts = r.attempts + 1
    BY <1>3 DEF RunRecord
  <2>2. PICK now : now = [Idle EXCEPT !.stage = "retrying", !.attempts = attempts]
    OBVIOUS
  <2>3. run' = now
    BY <1>6, <2>1, <2>2
  <2>4. now \in RunRecord /\ now.stage = "retrying"
    <3>1. PICK none \in Seq(StoredRecord) : none = <<>>
      BY EmptySeq, Zenon
    <3>2. now = [stage |-> "retrying", from |-> none, output |-> none, next |-> 0, failed |-> FALSE,
                 auto |-> FALSE, attempts |-> attempts]
      BY <2>2, <3>1, Zenon DEF Idle
    <3>. QED BY <2>1, <3>2 DEF RunRecord
  <2>5. RunHolds(now)
    BY <1>2, <2>4 DEF RunHolds
  <2>6. ReportHolds'
    BY <1>2, <1>6 DEF MigrationInv, ReportHolds
  <2>. QED BY <1>2, <2>3, <2>5, <2>6, MigrationMoves
<1>. QED BY <1>4, <1>5, <1>6

LEMMA KeepHolds == ASSUME MigrationInv, KeepOutput PROVE MigrationInv'
<1>1. /\ UNCHANGED <<original, run>> /\ run = Idle /\ dataset' = report.output /\ report'.status = "kept"
      /\ report.output \in {Apply(original), Rollback(Apply(original))}
  BY DEF KeepOutput, Report, MigrationInv, ReportHolds
<1>2. SameIds(dataset', original)
  BY <1>1, ApplyKeeps, RollbackReverses DEF MigrationInv
<1>3. RunHolds(run)'
  BY <1>1, IdleHolds DEF RunHolds
<1>4. ReportHolds'
  BY <1>1 DEF ReportHolds
<1>. QED BY <1>1, <1>2, <1>3, <1>4 DEF MigrationInv, SameIds

LEMMA MigrationStep == MigrationInv /\ [MigrationNext]_migrationVars => MigrationInv'
<1>1. SUFFICES ASSUME MigrationInv, [MigrationNext]_migrationVars PROVE MigrationInv'
  OBVIOUS
<1>2. CASE DryRunMigration
  BY <1>1, <1>2, ReportOnly DEF DryRunMigration, Report
<1>3. CASE Succeed
  BY <1>1, <1>3, SucceedHolds
<1>4. CASE RollBack
  BY <1>1, <1>4, RollBackHolds
<1>5. CASE KeepOutput
  BY <1>1, <1>5, KeepHolds
<1>6. ASSUME NEW b \in BOOLEAN, CheckFinishes(b) PROVE MigrationInv'
  BY <1>1, <1>6, CheckHolds
<1>7. ASSUME NEW b \in BOOLEAN, FailUnrestored(b) PROVE MigrationInv'
  <2>1. run.stage # "idle" /\ Finish("failed", <<>>)
    BY <1>7 DEF FailUnrestored, Checked
  <2>. QED BY <1>1, <2>1, FinishHolds
<1>8. ASSUME NEW b \in BOOLEAN, VerifyRollback(b) PROVE MigrationInv'
  BY <1>1, <1>8, VerifyHolds
<1>9. ASSUME NEW b \in BOOLEAN, NEW c \in BOOLEAN, Execute(b, c) PROVE MigrationInv'
  BY <1>1, <1>9, ExecuteHolds
<1>10. ASSUME NEW b \in BOOLEAN, NEW c \in BOOLEAN, ExecuteStorageSchemaMigration(b, c) PROVE MigrationInv'
  <2>1. /\ UNCHANGED <<dataset, original, run>>
        /\ report'.status \in {"permission_denied", "corrupt_record_detected", "migration_validation_failed", "passed"}
    BY <1>10 DEF ExecuteStorageSchemaMigration, Report
  <2>. QED BY <1>1, <2>1, ReportOnly
<1>11. ASSUME NEW b \in BOOLEAN, NEW c \in BOOLEAN, RetryRollback(b, c) PROVE MigrationInv'
  BY <1>1, <1>11, RetryHolds
<1>12. CASE UNCHANGED migrationVars
  BY <1>1, <1>12 DEF migrationVars, MigrationInv, SameIds, RunHolds, ReportHolds
<1>. QED BY <1>1, <1>2, <1>3, <1>4, <1>5, <1>6, <1>7, <1>8, <1>9, <1>10, <1>11, <1>12 DEF MigrationNext

(***************************************************************************)
(* Whatever the data set, of either version and of any length: no run      *)
(* loses or renames a record, what is reported as applied passed every     *)
(* check, and what is reported as rolled back is what there was, wherever  *)
(* version 1 could say it (runner.ts: execute, verifyRollback,             *)
(* retryRollback).                                                         *)
(***************************************************************************)
THEOREM MigrationsAreSafe == MigrationSpec => []MigratesSafely
<1>1. MigrationInit => MigrationInv
  <2>1. SUFFICES ASSUME MigrationInit PROVE MigrationInv
    OBVIOUS
  <2>2. dataset \in Seq(StoredRecord) /\ original = dataset /\ run = Idle /\ report.status = "none"
    BY <2>1, MigrationConstants, Zenon DEF MigrationInit, Report
  <2>3. RunHolds(run)
    BY <2>2, IdleHolds DEF RunHolds
  <2>4. SameIds(dataset, original) /\ ReportHolds
    BY <2>2 DEF SameIds, ReportHolds
  <2>. QED BY <2>2, <2>3, <2>4 DEF MigrationInv
<1>2. MigrationInv => MigratesSafely
  <2>1. SUFFICES ASSUME MigrationInv PROVE MigratesSafely
    OBVIOUS
  <2>2. /\ DOMAIN dataset = 1..Len(dataset) /\ DOMAIN original = 1..Len(original)
        /\ Len(dataset) = Len(original) /\ \A i \in DOMAIN dataset : dataset[i].id = original[i].id
    BY <2>1, LenProperties DEF MigrationInv, SameIds
  <2>3. report.status = "applied" =>
          /\ AllVersion2(report.output) /\ ValidChecksums(report.output) /\ UniqueIds(report.output)
          /\ Apply(report.output) = report.output
    <3>1. SUFFICES ASSUME report.status = "applied"
                   PROVE  /\ AllVersion2(report.output) /\ ValidChecksums(report.output) /\ UniqueIds(report.output)
                          /\ Apply(report.output) = report.output
      OBVIOUS
    <3>2. report.output = Apply(original) /\ PassedBefore(4, report.output) /\ original \in Seq(StoredRecord)
      BY <2>1, <3>1 DEF MigrationInv, ReportHolds
    <3>3. report.output \in Seq(StoredRecord)
      BY <3>2, ApplyKeeps DEF SameIds
    <3>. QED BY <3>2, <3>3, ApplyOnce DEF PassedBefore
  <2>4. report.status = "rolled_back" =>
          SameIds(report.output, original) /\ GivesBack(report.output, original)
    BY <2>1, RollbackReverses DEF MigrationInv, ReportHolds
  <2>. QED BY <2>2, <2>3, <2>4 DEF MigratesSafely, SameIds, GivesBack
<1>. QED BY <1>1, <1>2, MigrationStep, PTL DEF MigrationSpec

-----------------------------------------------------------------------------
(***************************************************************************)
(* The service mode.  The strengthening: the stored mode is one that a     *)
(* change accepts or the normal one, and the trail's last.                 *)
(***************************************************************************)
StatusInv ==
  /\ clock \in Nat /\ service \in ModeStates /\ service = trail
  /\ health \in [Published \cup Internal -> {"operational", "major_outage"}]

LEMMA StatusStep == StatusInv /\ [StatusNext]_statusVars => StatusInv'
<1>1. SUFFICES ASSUME StatusInv, [StatusNext]_statusVars PROVE StatusInv'
  OBVIOUS
<1>. USE <1>1 DEF StatusInv
<1>2. ASSUME NEW next \in ModeStates, NEW audited \in BOOLEAN, ChangeMode(next, audited) PROVE StatusInv'
  BY <1>2 DEF ChangeMode
<1>3. ASSUME NEW audited \in BOOLEAN, ExpireMode(audited) PROVE StatusInv'
  BY <1>3 DEF ExpireMode, ModeStates
<1>4. ASSUME NEW c \in Published \cup Internal, NEW status \in {"operational", "major_outage"}, Probed(c, status)
      PROVE  StatusInv'
  BY <1>4 DEF Probed
<1>5. ASSUME NEW impact \in DOMAIN ImpactRank, NEW public \in BOOLEAN, ReportIncident(impact, public) PROVE StatusInv'
  BY <1>5 DEF ReportIncident
<1>6. CASE ResolveIncident
  BY <1>6 DEF ResolveIncident
<1>7. CASE Tick
  BY <1>7 DEF Tick
<1>8. CASE UNCHANGED statusVars
  BY <1>8 DEF statusVars
<1>. QED BY <1>2, <1>3, <1>4, <1>5, <1>6, <1>7, <1>8 DEF StatusNext

(* While clock, incident and window stay, only health and mode move what is told. *)
LEMMA SameMoment ==
  ASSUME UNCHANGED <<clock, incident, maintenance>>
  PROVE  /\ Feed' = BuildPublicStatusFeed(ApplyServiceMode(health', service'))
         /\ Notice' = ToPublicServiceNotice(service')
BY DEF Feed, Notice, BuildPublicStatusFeed, ApplyServiceMode, ToPublicServiceNotice, EffectiveServiceMode, MaintenanceState,
       Announced, Underway, Listed

(* Only what is published is in the feed. *)
LEMMA FeedIsPublished ==
  ASSUME NEW a, NEW b, \A c \in Published : a[c] = b[c]
  PROVE  BuildPublicStatusFeed(a) = BuildPublicStatusFeed(b)
<1>1. Listed(a) = Listed(b)
  BY DEF Listed
<1>. QED BY <1>1 DEF BuildPublicStatusFeed

(* A mode whose window is over is told as the normal one. *)
LEMMA ExpiredIsNormal ==
  ASSUME StatusInv, service.until # Never, clock >= service.until
  PROVE  /\ ToPublicServiceNotice(service) = ToPublicServiceNotice(NormalService)
         /\ \A h : ApplyServiceMode(h, service) = ApplyServiceMode(h, NormalService)
<1>1. EffectiveServiceMode(service) = NormalService /\ EffectiveServiceMode(NormalService) = NormalService
  BY DEF EffectiveServiceMode, NormalService
<1>. QED BY <1>1 DEF ToPublicServiceNotice, ApplyServiceMode

(* What is published is never shown better than the mode in force says. *)
ShownAsTold ==
  \A c \in Published : Feed.components[c] = "under_maintenance" \/ Notice.mode = "normal"
    \/ OverallRank[Feed.components[c]] >= OverallRank[Floor[Notice.mode]]

LEMMA ModeIsShown == StatusInv => ShownAsTold
<1>1. SUFFICES ASSUME StatusInv, NEW c \in Published, Notice.mode # "normal", Feed.components[c] # "under_maintenance"
               PROVE  OverallRank[Feed.components[c]] >= OverallRank[Floor[Notice.mode]]
  BY DEF ShownAsTold
<1>2. PICK e : e = EffectiveServiceMode(service)
  OBVIOUS
<1>3. Notice = e /\ e.mode \in Modes
  BY <1>1, <1>2 DEF Notice, ToPublicServiceNotice, EffectiveServiceMode, StatusInv, ModeStates, NormalService
<1>4. PICK told : told = ApplyServiceMode(health, service)
  OBVIOUS
<1>5. told[c] = WorseComponentStatus(health[c], Floor[e.mode]) /\ health[c] \in {"operational", "major_outage"}
  BY <1>1, <1>2, <1>3, <1>4 DEF ApplyServiceMode, StatusInv
<1>6. Feed.components[c] = told[c]
  BY <1>1, <1>4, ZenonT(40) DEF Feed, BuildPublicStatusFeed, Listed
<1>. QED BY <1>3, <1>5, <1>6 DEF OverallRank, Modes, WorseComponentStatus, Floor

(* Whatever a deployment sets, its page is served and tells the mode. *)
LEMMA SettingsAreServed == ASSUME StatusInv, NEW env \in Settings PROVE Serves(env)
<1>1. PICK state : state = ServiceModeFromEnv(env)
  OBVIOUS
<1>2. PICK notice : notice = ToPublicServiceNotice(state)
  OBVIOUS
<1>3. state.message \in {"none", "safe"} /\ NormalService.message = "none"
  BY <1>1, Zenon DEF ServiceModeFromEnv, NormalService
<1>4. notice.message \in {"none", "safe"}
  BY <1>2, <1>3 DEF ToPublicServiceNotice, EffectiveServiceMode
<1>5. BuildStatusResponse(env).status = 200 /\ BuildStatusResponse(env).notice = notice
  BY <1>1, <1>2, <1>4 DEF BuildStatusResponse
<1>6. ASSUME env.mode # "", clock >= env.since, env.until = Never \/ clock < env.until
      PROVE  notice.mode # "normal"
  <2>1. /\ state.mode \in Modes /\ state.since \in {Never, env.since} /\ state.until \in {Never, env.until}
    BY <1>1, <1>6, Zenon DEF ServiceModeFromEnv, Settings, Modes
  <2>2. EffectiveServiceMode(state) = state
    <3>1. ~(state.since # Never /\ clock < state.since)
      <4>1. env.since \in {Never, 1} /\ clock \in Nat /\ clock >= env.since
        BY <1>6, Zenon DEF Settings, StatusInv
      <4>. QED BY <2>1, <4>1 DEF Never
    <3>2. ~(state.until # Never /\ clock >= state.until)
      <4>1. env.until \in {Never, 1, 2} /\ clock \in Nat /\ (env.until = Never \/ clock < env.until)
        BY <1>6, ZenonT(40) DEF Settings, StatusInv
      <4>. QED BY <2>1, <4>1 DEF Never
    <3>. QED BY <3>1, <3>2 DEF EffectiveServiceMode
  <2>. QED BY <1>2, <2>1, <2>2 DEF ToPublicServiceNotice, Modes
<1>. QED BY <1>5, <1>6, Zenon DEF Serves

(* What a step does to what the public is told. *)
StepIsTold ==
  /\ service' = trail'
  /\ (service' = NormalService /\ service.until # Never /\ clock >= service.until) => Notice' = Notice /\ Feed' = Feed
  /\ (\A c \in Published : health'[c] = health[c]) /\ health' # health => Feed' = Feed
  /\ \A c \in Published : Feed'.components[c] = "under_maintenance" \/ Notice'.mode = "normal"
       \/ OverallRank[Feed'.components[c]] >= OverallRank[Floor[Notice'.mode]]
  /\ clock' # clock => \A env \in Settings : Serves(env)'

LEMMA StatusTold == ASSUME StatusInv, StatusInv', StatusNext PROVE StepIsTold
<1>1. service' = trail' /\ ShownAsTold'
  <2>1. ShownAsTold'
    BY ModeIsShown, PTL
  <2>. QED BY <2>1 DEF StatusInv
<1>2. (service' = NormalService /\ service.until # Never /\ clock >= service.until) => Notice' = Notice /\ Feed' = Feed
  <2>1. SUFFICES ASSUME service' = NormalService, service.until # Never, clock >= service.until
                 PROVE  Notice' = Notice /\ Feed' = Feed
    OBVIOUS
  <2>2. service' # service
    BY <2>1 DEF NormalService
  <2>3. UNCHANGED <<clock, incident, maintenance, health>>
    BY <2>2 DEF StatusNext, ChangeMode, ExpireMode, Probed, ReportIncident, ResolveIncident, Tick
  <2>4. /\ Feed' = BuildPublicStatusFeed(ApplyServiceMode(health, NormalService))
        /\ Notice' = ToPublicServiceNotice(NormalService)
    BY <2>1, <2>3, SameMoment
  <2>5. /\ ApplyServiceMode(health, service) = ApplyServiceMode(health, NormalService)
        /\ ToPublicServiceNotice(service) = ToPublicServiceNotice(NormalService)
    BY <2>1, ExpiredIsNormal
  <2>. QED BY <2>4, <2>5 DEF Feed, Notice
<1>3. (\A c \in Published : health'[c] = health[c]) /\ health' # health => Feed' = Feed
  <2>1. SUFFICES ASSUME \A c \in Published : health'[c] = health[c], health' # health PROVE Feed' = Feed
    OBVIOUS
  <2>2. UNCHANGED <<clock, incident, maintenance, service>>
    BY <2>1 DEF StatusNext, ChangeMode, ExpireMode, Probed, ReportIncident, ResolveIncident, Tick
  <2>3. \A c \in Published : c \in DOMAIN health /\ c \in DOMAIN health'
    BY DEF StatusInv
  <2>4. \A c \in Published : ApplyServiceMode(health', service)[c] = ApplyServiceMode(health, service)[c]
    BY <2>1, <2>3 DEF ApplyServiceMode
  <2>5. BuildPublicStatusFeed(ApplyServiceMode(health', service)) = BuildPublicStatusFeed(ApplyServiceMode(health, service))
    BY <2>4, FeedIsPublished
  <2>. QED BY <2>2, <2>5, SameMoment DEF Feed
<1>4. \A env \in Settings : Serves(env)'
  <2>1. ASSUME NEW env \in Settings PROVE Serves(env)'
    BY SettingsAreServed, PTL
  <2>. QED BY <2>1
<1>. QED BY <1>1, <1>2, <1>3, <1>4 DEF StepIsTold, ShownAsTold

(***************************************************************************)
(* Whatever the components, the clock and the history kept: a mode is told *)
(* from the clock alone once it was audited, nothing internal moves the    *)
(* feed, and no setting keeps the status page from being served            *)
(* (service-mode.ts, effectiveServiceMode, applyServiceMode; feed.ts).     *)
(***************************************************************************)
THEOREM PublicIsTold == StatusSpec => StatusIsTold
<1>1. StatusInit => StatusInv
  BY DEF StatusInit, StatusInv, ModeStates
<1>2. StatusInv /\ StatusInv' /\ [StatusNext]_statusVars => [statusVars' # statusVars => StepIsTold]_statusVars
  BY StatusTold
<1>3. StatusSpec => []StatusInv
  BY <1>1, StatusStep, PTL DEF StatusSpec
<1>. QED BY <1>2, <1>3, PTL DEF StatusSpec, StatusIsTold, StepIsTold

(***************************************************************************)
(* The backfill.  The strengthening says of every running call what        *)
(* NothingPassedOver says of the stored checkpoint, because the call's     *)
(* copy is what it will store: the copy has passed over nothing but what   *)
(* the call still has to write, and, as long as its revision is the        *)
(* stored one, its journal restores everything that no other call and no   *)
(* lost batch accounts for.                                                *)
(***************************************************************************)
SavedCheckpoint ==
  [revision : Nat, status : {"running", "halted", "completed", "rolled_back"}, last : Nat,
   journal : SUBSET BackfillRecords]

RunningCall ==
  [pc : {"idle", "read", "write", "save", "undo"}, copy : SavedCheckpoint,
   todo : SUBSET BackfillRecords, wrote : SUBSET BackfillRecords, failures : Nat]

BackfillTypes ==
  /\ target \in [BackfillRecords -> {"old", "new"}]
  /\ saved \in SavedCheckpoint
  /\ operator \in [Operators -> RunningCall]
  /\ gaps \subseteq BackfillRecords /\ lost \subseteq BackfillRecords

(* Nothing up to last was passed over, but for the records of todo. *)
Behind(last, todo) ==
  \A r \in BackfillRecords \ Declined : r <= last /\ target[r] = "old" => r \in gaps \/ r \in todo

(* Every transformed record has its before-image in the journal, with a    *)
(* call or among the lost.                                                 *)
Restorable(journal) ==
  \A r \in BackfillRecords : target[r] = "new" =>
    r \in journal \/ r \in lost \/ \E o \in Operators : r \in operator[o].wrote

CallInv(call) ==
  /\ call.pc = "idle" => call = AtRest
  /\ call.pc \in {"read", "save"} => call.todo = {}
  /\ call.pc = "undo" => call.wrote = {}
  /\ call.copy.revision <= saved.revision
  /\ call.wrote \subseteq call.copy.journal
  /\ call.pc # "idle" =>
       /\ Behind(call.copy.last, IF call.pc = "write" THEN call.todo ELSE {})
       /\ call.copy.revision = saved.revision => Restorable(call.copy.journal)

BackfillInv ==
  /\ BackfillTypes
  /\ Behind(saved.last, {})
  /\ Restorable(saved.journal)
  /\ \A o \in Operators : CallInv(operator[o])

(* A copy keeps its promise about the records behind it: a step makes no   *)
(* record an unrecorded old one.                                           *)
LEMMA StaysBehind ==
  ASSUME NEW last, NEW todo, Behind(last, todo),
         \A r \in BackfillRecords : target'[r] = "old" => r \in gaps' \/ (target[r] = "old" /\ r \notin gaps)
  PROVE  Behind(last, todo)'
BY DEF Behind

(* A journal keeps its promise while one call changes. *)
LEMMA StaysRestorable ==
  ASSUME NEW o \in Operators, NEW call \in RunningCall, NEW journal, NEW after,
         operator \in [Operators -> RunningCall], operator' = [operator EXCEPT ![o] = call],
         Restorable(journal), lost \subseteq lost',
         \A r \in BackfillRecords : target'[r] = "new" =>
           \/ r \in after \/ r \in call.wrote
           \/ target[r] = "new" /\ (r \in journal => r \in after),
         \A r \in operator[o].wrote : r \in after \/ r \in call.wrote \/ r \in lost'
  PROVE  Restorable(after)'
<1> SUFFICES ASSUME NEW r \in BackfillRecords, target'[r] = "new"
             PROVE  r \in after \/ r \in lost' \/ \E u \in Operators : r \in operator'[u].wrote
  BY DEF Restorable
<1>1. operator'[o] = call /\ \A u \in Operators \ {o} : operator'[u] = operator[u]
  OBVIOUS
<1>2. CASE r \in after \/ r \in call.wrote
  BY <1>1, <1>2
<1>3. CASE target[r] = "new" /\ (r \in journal => r \in after)
  <2>1. r \in journal \/ r \in lost \/ \E u \in Operators : r \in operator[u].wrote
    BY <1>3 DEF Restorable
  <2>2. QED
    BY <2>1, <1>1, <1>3
<1>4. QED
  BY <1>2, <1>3

(* A call that is not the one taking the step keeps its share of the       *)
(* invariant when no checkpoint is written over the copy it holds.         *)
LEMMA CallStays ==
  ASSUME NEW c, CallInv(c), c.copy.revision <= saved'.revision,
         \A last, todo : Behind(last, todo) => Behind(last, todo)',
         c.pc # "idle" /\ c.copy.revision = saved'.revision => Restorable(c.copy.journal)'
  PROVE  CallInv(c)'
<1>1. PICK todo : todo = IF c.pc = "write" THEN c.todo ELSE {}
  OBVIOUS
<1>2. c.pc # "idle" => Behind(c.copy.last, todo)
  BY <1>1 DEF CallInv
<1>3. c.pc # "idle" => Behind(c.copy.last, todo)'
  BY <1>2, Zenon
<1>4. c.pc # "idle" => Behind(c.copy.last, IF c.pc = "write" THEN c.todo ELSE {})'
  BY <1>1, <1>3
<1>. QED BY <1>4, ZenonT(40) DEF CallInv

(* A step of one call preserves the invariant when the call keeps its own  *)
(* part and the checkpoint is left alone or stored under a new revision.   *)
LEMMA CallStep ==
  ASSUME BackfillInv, BackfillTypes', NEW o \in Operators, NEW call \in RunningCall,
         operator' = [operator EXCEPT ![o] = call], lost \subseteq lost',
         \A r \in BackfillRecords : target'[r] = "old" => r \in gaps' \/ (target[r] = "old" /\ r \notin gaps),
         \A r \in BackfillRecords : target'[r] = "new" => target[r] = "new" \/ r \in call.wrote,
         \/ saved' = saved /\ \A r \in operator[o].wrote : r \in call.wrote \/ r \in lost'
         \/ saved.revision < saved'.revision /\ Behind(saved.last, {})' /\ Restorable(saved.journal)',
         CallInv(call)'
  PROVE  BackfillInv'
<1>1. operator \in [Operators -> RunningCall] /\ saved \in SavedCheckpoint /\ saved' \in SavedCheckpoint
  BY ZenonT(40) DEF BackfillInv, BackfillTypes
<1>2. CASE saved' = saved /\ \A r \in operator[o].wrote : r \in call.wrote \/ r \in lost'
  <2>1. \A last, todo : Behind(last, todo) => Behind(last, todo)'
    BY StaysBehind
  <2>2. ASSUME NEW journal, Restorable(journal) PROVE Restorable(journal)'
    BY <1>1, <1>2, <2>2, StaysRestorable, ZenonT(40)
  <2>3. PICK s : s = saved
    BY Zenon
  <2>4. Behind(s.last, {}) /\ Restorable(s.journal)
    BY <2>3 DEF BackfillInv
  <2>5. Behind(s.last, {})' /\ Restorable(s.journal)'
    BY <2>1, <2>2, <2>4
  <2>6. ASSUME NEW u \in Operators PROVE CallInv(operator[u])'
    <3>1. CASE u = o
      BY <3>1, <1>1
    <3>2. CASE u # o
      <4>1. PICK c : c = operator[u]
        BY Zenon
      <4>2. CallInv(c) /\ operator'[u] = c
        BY <4>1, <3>2, <1>1 DEF BackfillInv
      <4>3. c.copy.revision <= saved.revision
        BY <4>2, Zenon DEF CallInv
      <4>4. c.pc # "idle" /\ c.copy.revision = saved.revision => Restorable(c.copy.journal)
        BY <4>2, Zenon DEF CallInv
      <4>5. c.pc # "idle" /\ c.copy.revision = saved.revision => Restorable(c.copy.journal)'
        BY <4>4, <2>2, Zenon
      <4>6. CallInv(c)'
        BY <4>2, <4>3, <4>5, <1>2, <2>1, CallStays, Zenon
      <4>7. QED
        BY <4>2, <4>6, Zenon
    <3>3. QED
      BY <3>1, <3>2
  <2>7. QED
    BY <2>3, <2>5, <2>6, <1>2, ZenonT(40) DEF BackfillInv
<1>3. CASE saved.revision < saved'.revision /\ Behind(saved.last, {})' /\ Restorable(saved.journal)'
  <2>1. ASSUME NEW u \in Operators PROVE CallInv(operator[u])'
    <3>1. CASE u = o
      BY <3>1, <1>1
    <3>2. CASE u # o
      <4>1. PICK c \in RunningCall : c = operator[u]
        BY <1>1, Zenon
      <4>2. CallInv(c) /\ operator'[u] = c
        BY <4>1, <3>2, <1>1 DEF BackfillInv
      <4>3. c.copy.revision <= saved'.revision /\ c.copy.revision # saved'.revision
        <5>1. c.copy.revision \in Nat /\ saved.revision \in Nat /\ saved'.revision \in Nat
          BY <1>1 DEF RunningCall, SavedCheckpoint
        <5>2. c.copy.revision <= saved.revision
          BY <4>2, ZenonT(40) DEF CallInv
        <5>3. QED
          BY <5>1, <5>2, <1>3
      <4>4. \A last, todo : Behind(last, todo) => Behind(last, todo)'
        BY StaysBehind, ZenonT(40)
      <4>5. CallInv(c)'
        BY <4>2, <4>3, <4>4, CallStays, Zenon
      <4>6. QED
        BY <4>2, <4>5, Zenon
    <3>3. QED
      BY <3>1, <3>2
  <2>2. QED
    BY <1>3, <2>1, ZenonT(40) DEF BackfillInv
<1>4. QED
  BY <1>2, <1>3

LEMMA AtRestHolds ==
  ASSUME saved' \in SavedCheckpoint
  PROVE  /\ AtRest \in RunningCall /\ AtRest.wrote = {} /\ NoCheckpoint \in SavedCheckpoint
         /\ CallInv(AtRest)'
<1>1. AtRest \in RunningCall /\ AtRest.wrote = {} /\ NoCheckpoint \in SavedCheckpoint
  BY Zenon DEF AtRest, RunningCall, NoCheckpoint, SavedCheckpoint
<1>2. AtRest.pc = "idle" /\ AtRest.copy.revision = 0 /\ AtRest.todo = {}
  BY DEF AtRest, NoCheckpoint
<1>3. saved'.revision \in Nat
  BY DEF SavedCheckpoint
<1>4. AtRest.copy.revision <= saved'.revision
  BY <1>2, <1>3
<1>5. AtRest.wrote \subseteq AtRest.copy.journal
  BY <1>1, Zenon
<1>6. QED
  BY <1>1, <1>2, <1>4, <1>5, ZenonT(40) DEF CallInv

(* The facts about a call and its copy that the action lemmas start from. *)
LEMMA CallFacts ==
  ASSUME BackfillInv, NEW o \in Operators
  PROVE  /\ operator[o] \in RunningCall /\ CallInv(operator[o])
         /\ operator[o].copy \in SavedCheckpoint /\ saved \in SavedCheckpoint
         /\ operator \in [Operators -> RunningCall]
BY DEF BackfillInv, BackfillTypes, RunningCall

LEMMA BeginsHolds ==
  ASSUME BackfillInv, NEW o \in Operators, NEW restart \in BOOLEAN, BackfillBegins(o, restart)
  PROVE  BackfillInv'
<1>1. PICK copy : copy = IF restart THEN Restarted(saved) ELSE saved
  OBVIOUS
<1>2. /\ copy \in SavedCheckpoint /\ copy.revision = saved.revision /\ copy.journal = saved.journal
      /\ copy.last = 0 \/ copy.last = saved.last
  BY <1>1, CallFacts, Zenon DEF SavedCheckpoint, Restarted, NoCheckpoint
<1>3. PICK call : call = [AtRest EXCEPT !.pc = "read", !.copy = copy]
  OBVIOUS
<1>4. /\ call \in RunningCall /\ call.pc = "read" /\ call.copy = copy
      /\ call.todo = {} /\ call.wrote = {}
  BY <1>2, <1>3, ZenonT(40) DEF AtRest, RunningCall
<1>5. operator' = [operator EXCEPT ![o] = call] /\ UNCHANGED <<target, saved, gaps, lost>>
  BY <1>1, <1>3 DEF BackfillBegins
<1>6. operator[o] = AtRest /\ operator[o].wrote = {}
  <2>1. CallInv(operator[o]) /\ operator[o].pc = "idle"
    BY CallFacts DEF BackfillBegins
  <2>2. operator[o] = AtRest
    BY <2>1 DEF CallInv
  <2>3. QED
    BY <2>2 DEF AtRest
<1>7. BackfillTypes'
  BY <1>4, <1>5, ZenonT(40) DEF BackfillInv, BackfillTypes
<1>8. Behind(copy.last, {})
  <2>1. CASE copy.last = 0
    <3>1. \A r \in BackfillRecords : ~(r <= 0)
      BY DEF BackfillRecords
    <3>2. QED
      BY <2>1, <3>1, Zenon DEF Behind
  <2>2. CASE copy.last = saved.last
    BY <2>2, Zenon DEF BackfillInv
  <2>3. QED
    BY <1>2, <2>1, <2>2, Zenon
<1>9. Restorable(copy.journal)
  BY <1>2 DEF BackfillInv
<1>10. Behind(copy.last, {})'
  BY <1>8, <1>5 DEF Behind
<1>11. Restorable(copy.journal)'
  BY <1>9, <1>5, <1>4, <1>6, CallFacts, StaysRestorable, ZenonT(40)
<1>12. CallInv(call)'
  <2>1. copy.revision <= saved'.revision
    BY <1>2, <1>5 DEF SavedCheckpoint
  <2>2. QED
    BY <1>4, <1>10, <1>11, <2>1, ZenonT(40) DEF CallInv
<1>13. QED
  BY <1>4, <1>5, <1>6, <1>7, <1>12, CallStep, Zenon

LEMMA ReadHolds ==
  ASSUME BackfillInv, NEW o \in Operators, BatchRead(o)
  PROVE  BackfillInv'
<1> DEFINE batch == NextBatch(operator[o].copy.last)
           status == IF Cardinality(batch) < BatchSize THEN "completed" ELSE "running"
           todo == {r \in batch \ Declined : target[r] = "old"}
<1>1. PICK c \in RunningCall : c = operator[o]
  BY CallFacts
<1>2. c.copy \in SavedCheckpoint /\ CallInv(c) /\ c.pc = "read"
  BY <1>1, CallFacts DEF BatchRead
<1>3. PICK last \in batch \cup {c.copy.last} :
        /\ \A r \in batch : r <= last
        /\ operator' = [operator EXCEPT ![o] = NextWrite(
             [c EXCEPT !.copy.last = last, !.copy.status = status, !.todo = todo])]
  BY <1>1, Zenon DEF BatchRead
<1>4. UNCHANGED <<target, saved, gaps, lost>>
  BY DEF BatchRead
<1>5. PICK b \in SUBSET BackfillRecords : b = batch
  BY Zenon DEF NextBatch
<1>6. last \in Nat
  BY <1>2, <1>3, <1>5 DEF SavedCheckpoint, BackfillRecords
<1>7. \A r \in BackfillRecords : r <= last => r <= c.copy.last \/ r \in b
  <2> SUFFICES ASSUME NEW r \in BackfillRecords, r <= last PROVE r <= c.copy.last \/ r \in b
    OBVIOUS
  <2>1. PICK l \in Nat : l = c.copy.last
    BY <1>2 DEF SavedCheckpoint
  <2>2. b = {q \in BackfillRecords : l < q /\ q <= l + BatchSize}
    BY <1>5, <1>1, <2>1 DEF NextBatch
  <2>3. last = l \/ last \in b
    BY <1>3, <1>5, <2>1
  <2>4. r \in Nat /\ BatchSize \in Nat
    BY BackfillConstants DEF BackfillRecords
  <2>5. QED
    BY <1>6, <2>1, <2>2, <2>3, <2>4
<1>8. PICK t \in SUBSET BackfillRecords : t = todo
  BY <1>5, Zenon
<1>9. \A r \in BackfillRecords \ Declined : r \in b /\ target[r] = "old" => r \in t
  BY <1>5, <1>8
<1>10. PICK st \in {"completed", "running"} : st = status
  OBVIOUS
<1> HIDE DEF batch, status, todo
<1>11. PICK copy : copy = [c.copy EXCEPT !.last = last, !.status = st]
  OBVIOUS
<1>12. /\ copy \in SavedCheckpoint /\ copy.last = last
       /\ copy.revision = c.copy.revision /\ copy.journal = c.copy.journal
  BY <1>2, <1>6, <1>10, <1>11, Zenon DEF SavedCheckpoint
<1>13. PICK mid : mid = [c EXCEPT !.copy = copy, !.todo = t]
  OBVIOUS
<1>14. PICK call : call = NextWrite(mid)
  OBVIOUS
<1>15. mid = [c EXCEPT !.copy.last = last, !.copy.status = status, !.todo = todo]
  BY <1>8, <1>10, <1>11, <1>13, Zenon DEF RunningCall, SavedCheckpoint
<1>16. /\ call \in RunningCall /\ call.copy = copy /\ call.todo = t /\ call.wrote = c.wrote
       /\ call.pc = IF t = {} THEN "save" ELSE "write"
  BY <1>12, <1>13, <1>14, Zenon DEF RunningCall, NextWrite
<1>17. operator' = [operator EXCEPT ![o] = call]
  BY <1>3, <1>14, <1>15
<1>18. BackfillTypes'
  BY <1>4, <1>16, <1>17 DEF BackfillInv, BackfillTypes
<1>19. Behind(last, t)'
  <2>1. Behind(c.copy.last, {})
    BY <1>2 DEF CallInv
  <2>2. QED
    BY <2>1, <1>4, <1>7, <1>9 DEF Behind
<1>20. copy.revision = saved'.revision => Restorable(copy.journal)'
  <2> SUFFICES ASSUME copy.revision = saved'.revision PROVE Restorable(copy.journal)'
    OBVIOUS
  <2>1. Restorable(copy.journal)
    BY <1>2, <1>4, <1>12, Zenon DEF CallInv
  <2>2. QED
    BY <2>1, <1>1, <1>4, <1>16, <1>17, CallFacts, StaysRestorable, ZenonT(40)
<1>21. CallInv(call)'
  <2>1. copy.revision <= saved'.revision /\ c.wrote \subseteq copy.journal
    BY <1>2, <1>4, <1>12, ZenonT(40) DEF CallInv
  <2>2. Behind(last, IF call.pc = "write" THEN call.todo ELSE {})'
    BY <1>16, <1>19
  <2>3. QED
    BY <1>12, <1>16, <1>20, <2>1, <2>2 DEF CallInv
<1>22. QED
  BY <1>1, <1>4, <1>16, <1>17, <1>18, <1>21, CallStep, Zenon

LEMMA ReadFailsHolds ==
  ASSUME BackfillInv, NEW o \in Operators, ReadFails(o)
  PROVE  BackfillInv'
<1>1. PICK c \in RunningCall : c = operator[o]
  BY CallFacts
<1>2. c.copy \in SavedCheckpoint /\ CallInv(c) /\ c.pc = "read"
  BY <1>1, CallFacts DEF ReadFails
<1>3. PICK copy : copy = [c.copy EXCEPT !.status = "halted"]
  BY Zenon
<1>4. /\ copy \in SavedCheckpoint /\ copy.last = c.copy.last
      /\ copy.revision = c.copy.revision /\ copy.journal = c.copy.journal
  BY <1>2, <1>3 DEF SavedCheckpoint
<1>5. PICK call : call = [c EXCEPT !.pc = "save", !.copy = copy]
  OBVIOUS
<1>6. /\ call \in RunningCall /\ call.copy = copy /\ call.todo = c.todo /\ call.wrote = c.wrote
      /\ call.pc = "save"
  BY <1>4, <1>5, Zenon DEF RunningCall
<1>7. operator' = [operator EXCEPT ![o] = call] /\ UNCHANGED <<target, saved, gaps, lost>>
  BY <1>1, <1>3, <1>5, ZenonT(40) DEF ReadFails, RunningCall, SavedCheckpoint
<1>8. BackfillTypes'
  BY <1>6, <1>7 DEF BackfillInv, BackfillTypes
<1>9. Behind(copy.last, {})'
  BY <1>2, <1>4, <1>7, Zenon DEF CallInv, Behind
<1>10. copy.revision = saved'.revision => Restorable(copy.journal)'
  <2> SUFFICES ASSUME copy.revision = saved'.revision PROVE Restorable(copy.journal)'
    OBVIOUS
  <2>1. Restorable(copy.journal)
    BY <1>2, <1>4, <1>7, ZenonT(40) DEF CallInv
  <2>2. QED
    BY <2>1, <1>1, <1>6, <1>7, CallFacts, StaysRestorable, Zenon
<1>11. CallInv(call)'
  <2>1. copy.revision <= saved'.revision /\ c.wrote \subseteq copy.journal /\ c.todo = {}
    BY <1>2, <1>4, <1>7 DEF CallInv
  <2>2. QED
    BY <1>6, <1>9, <1>10, <2>1 DEF CallInv
<1>12. QED
  BY <1>1, <1>6, <1>7, <1>8, <1>11, CallStep, Zenon

LEMMA WrittenHolds ==
  ASSUME BackfillInv, NEW o \in Operators, RecordWritten(o)
  PROVE  BackfillInv'
<1>1. PICK c \in RunningCall : c = operator[o]
  BY CallFacts
<1>2. PICK r \in BackfillRecords :
        /\ c.pc = "write" /\ r \in c.todo
        /\ target' = [target EXCEPT ![r] = "new"]
        /\ operator' = [operator EXCEPT ![o] = NextWrite(
             [c EXCEPT !.todo = @ \ {r}, !.wrote = @ \cup {r}, !.copy.journal = @ \cup {r}])]
        /\ gaps' = gaps \ {r}
        /\ UNCHANGED <<saved, lost>>
  BY <1>1, Zenon DEF RecordWritten, Foremost
<1>3. c.copy \in SavedCheckpoint /\ CallInv(c)
  BY <1>1, CallFacts
<1>4. PICK copy : copy = [c.copy EXCEPT !.journal = c.copy.journal \cup {r}]
  BY Zenon
<1>5. /\ copy \in SavedCheckpoint /\ copy.last = c.copy.last
      /\ copy.revision = c.copy.revision /\ copy.journal = c.copy.journal \cup {r}
  BY <1>3, <1>4 DEF SavedCheckpoint
<1>6. PICK mid : mid = [c EXCEPT !.copy = copy, !.todo = c.todo \ {r}, !.wrote = c.wrote \cup {r}]
  OBVIOUS
<1>7. mid = [c EXCEPT !.todo = @ \ {r}, !.wrote = @ \cup {r}, !.copy.journal = @ \cup {r}]
  BY <1>4, <1>6, Zenon DEF RunningCall, SavedCheckpoint
<1>8. PICK call : call = NextWrite(mid)
  OBVIOUS
<1>9. /\ call \in RunningCall /\ call.copy = copy /\ call.todo = c.todo \ {r}
      /\ call.wrote = c.wrote \cup {r} /\ call.pc = IF call.todo = {} THEN "save" ELSE "write"
  BY <1>5, <1>6, <1>8, Zenon DEF RunningCall, NextWrite
<1>10. operator' = [operator EXCEPT ![o] = call]
  BY <1>2, <1>7, <1>8
<1>11. target \in [BackfillRecords -> {"old", "new"}]
  BY DEF BackfillInv, BackfillTypes
<1>12. target'[r] = "new" /\ \A q \in BackfillRecords \ {r} : target'[q] = target[q]
  BY <1>2, <1>11
<1>13. BackfillTypes'
  BY <1>2, <1>9, <1>10 DEF BackfillInv, BackfillTypes
<1>14. Behind(copy.last, call.todo)'
  <2>1. Behind(copy.last, c.todo)
    BY <1>2, <1>3, <1>5 DEF CallInv
  <2>2. QED
    BY <2>1, <1>2, <1>9, <1>12 DEF Behind
<1>15. copy.revision = saved'.revision => Restorable(copy.journal)'
  <2> SUFFICES ASSUME copy.revision = saved'.revision PROVE Restorable(copy.journal)'
    OBVIOUS
  <2>1. Restorable(c.copy.journal)
    BY <1>2, <1>3, <1>5 DEF CallInv
  <2>2. \A q \in BackfillRecords : target'[q] = "new" =>
           \/ q \in copy.journal \/ q \in call.wrote
           \/ target[q] = "new" /\ (q \in c.copy.journal => q \in copy.journal)
    BY <1>5, <1>12
  <2>3. \A q \in operator[o].wrote : q \in copy.journal \/ q \in call.wrote \/ q \in lost'
    BY <1>1, <1>9
  <2>4. QED
    BY <2>1, <2>2, <2>3, <1>2, <1>9, <1>10, CallFacts, StaysRestorable, ZenonT(40)
<1>16. CallInv(call)'
  <2>1. copy.revision <= saved'.revision /\ call.wrote \subseteq copy.journal
    BY <1>2, <1>3, <1>5, <1>9 DEF CallInv
  <2>2. Behind(copy.last, IF call.pc = "write" THEN call.todo ELSE {})'
    BY <1>9, <1>14
  <2>3. QED
    BY <1>9, <1>15, <2>1, <2>2 DEF CallInv
<1>17. \A q \in BackfillRecords : target'[q] = "old" => q \in gaps' \/ (target[q] = "old" /\ q \notin gaps)
  BY <1>2, <1>12
<1>18. \A q \in BackfillRecords : target'[q] = "new" => target[q] = "new" \/ q \in call.wrote
  BY <1>9, <1>12
<1>19. \A q \in operator[o].wrote : q \in call.wrote \/ q \in lost'
  BY <1>1, <1>9
<1>20. QED
  BY <1>2, <1>9, <1>10, <1>13, <1>16, <1>17, <1>18, <1>19, CallStep, Zenon

LEMMA WriteFailsHolds ==
  ASSUME BackfillInv, NEW o \in Operators, RecordFails(o)
  PROVE  BackfillInv'
<1> DEFINE status == IF operator[o].failures + 1 > MaxFailures THEN "halted" ELSE operator[o].copy.status
<1>1. PICK c \in RunningCall : c = operator[o]
  BY CallFacts
<1>2. PICK r \in BackfillRecords :
        /\ c.pc = "write" /\ r \in c.todo
        /\ operator' = [operator EXCEPT ![o] = NextWrite(
             [c EXCEPT !.todo = @ \ {r}, !.failures = @ + 1, !.copy.status = status])]
        /\ gaps' = IF target[r] = "old" THEN gaps \cup {r} ELSE gaps
        /\ UNCHANGED <<target, saved, lost>>
  BY <1>1, Zenon DEF RecordFails, Foremost
<1>3. c.copy \in SavedCheckpoint /\ CallInv(c)
  BY <1>1, CallFacts
<1>4. PICK st \in {"running", "halted", "completed", "rolled_back"} : st = status
  BY <1>1, <1>3 DEF SavedCheckpoint
<1> HIDE DEF status
<1>5. PICK copy : copy = [c.copy EXCEPT !.status = st]
  BY Zenon
<1>6. /\ copy \in SavedCheckpoint /\ copy.last = c.copy.last
      /\ copy.revision = c.copy.revision /\ copy.journal = c.copy.journal
  BY <1>3, <1>4, <1>5 DEF SavedCheckpoint
<1>7. PICK mid : mid = [c EXCEPT !.copy = copy, !.todo = c.todo \ {r}, !.failures = c.failures + 1]
  OBVIOUS
<1>8. mid = [c EXCEPT !.todo = @ \ {r}, !.failures = @ + 1, !.copy.status = status]
  BY <1>4, <1>5, <1>7, Zenon DEF RunningCall, SavedCheckpoint
<1>9. PICK call : call = NextWrite(mid)
  OBVIOUS
<1>10. /\ call \in RunningCall /\ call.copy = copy /\ call.todo = c.todo \ {r}
       /\ call.wrote = c.wrote /\ call.pc = IF call.todo = {} THEN "save" ELSE "write"
  <2>1. PICK f \in Nat : f = c.failures + 1
    BY DEF RunningCall
  <2>2. QED
    BY <2>1, <1>6, <1>7, <1>9, Zenon DEF RunningCall, NextWrite
<1>11. operator' = [operator EXCEPT ![o] = call]
  BY <1>2, <1>8, <1>9
<1>12. BackfillTypes'
  BY <1>2, <1>10, <1>11 DEF BackfillInv, BackfillTypes
<1>13. Behind(copy.last, call.todo)'
  <2>1. Behind(copy.last, c.todo)
    BY <1>2, <1>3, <1>6 DEF CallInv
  <2>2. QED
    BY <2>1, <1>2, <1>10 DEF Behind
<1>14. copy.revision = saved'.revision => Restorable(copy.journal)'
  <2> SUFFICES ASSUME copy.revision = saved'.revision PROVE Restorable(copy.journal)'
    OBVIOUS
  <2>1. Restorable(copy.journal)
    BY <1>2, <1>3, <1>6 DEF CallInv
  <2>2. QED
    BY <2>1, <1>1, <1>2, <1>10, <1>11, CallFacts, StaysRestorable, ZenonT(40)
<1>15. CallInv(call)'
  <2>1. copy.revision <= saved'.revision /\ call.wrote \subseteq copy.journal
    BY <1>2, <1>3, <1>6, <1>10 DEF CallInv
  <2>2. Behind(copy.last, IF call.pc = "write" THEN call.todo ELSE {})'
    BY <1>10, <1>13
  <2>3. QED
    BY <1>10, <1>14, <2>1, <2>2 DEF CallInv
<1>16. QED
  BY <1>1, <1>2, <1>10, <1>11, <1>12, <1>15, CallStep, ZenonT(40)

LEMMA BatchSavedHolds ==
  ASSUME BackfillInv, NEW o \in Operators, BatchSaved(o)
  PROVE  BackfillInv'
<1>1. PICK c \in RunningCall : c = operator[o]
  BY CallFacts
<1>2. c.copy \in SavedCheckpoint /\ CallInv(c) /\ c.pc = "save" /\ UNCHANGED <<target, gaps>>
  BY <1>1, CallFacts DEF BatchSaved
<1>3. PICK next : next = [c.copy EXCEPT !.revision = c.copy.revision + 1]
  BY Zenon
<1>4. /\ next \in SavedCheckpoint /\ next.last = c.copy.last /\ next.journal = c.copy.journal
      /\ next.revision = c.copy.revision + 1
  <2>1. PICK n \in Nat : n = c.copy.revision + 1
    BY <1>2 DEF SavedCheckpoint
  <2>2. QED
    BY <2>1, <1>2, <1>3 DEF SavedCheckpoint
<1>5. CASE RevisionMatches(c.copy)
  <2>1. PICK call : call = IF next.status = "running"
                           THEN [AtRest EXCEPT !.pc = "read", !.copy = next, !.failures = c.failures]
                           ELSE AtRest
    OBVIOUS
  <2>2. saved' = next /\ operator' = [operator EXCEPT ![o] = call] /\ lost' = lost
    BY <1>1, <1>3, <1>5, <2>1 DEF BatchSaved
  <2>3. /\ call \in RunningCall /\ call.wrote = {} /\ call.todo = {}
        /\ call = AtRest \/ (call.pc = "read" /\ call.copy = next)
    BY <2>1, <1>4, ZenonT(40) DEF AtRest, NoCheckpoint, RunningCall, SavedCheckpoint
  <2>4. BackfillTypes'
    BY <1>2, <1>4, <2>2, <2>3, Zenon DEF BackfillInv, BackfillTypes
  <2>5. saved.revision < saved'.revision
    BY <1>2, <1>4, <1>5, <2>2 DEF RevisionMatches, SavedCheckpoint
  <2>6. Behind(next.last, {})'
    BY <1>2, <1>4, Zenon DEF CallInv, Behind
  <2>7. Restorable(next.journal)'
    <3>1. Restorable(next.journal) /\ c.wrote \subseteq next.journal
      BY <1>2, <1>4, <1>5, Zenon DEF CallInv, RevisionMatches
    <3>2. QED
      BY <3>1, <1>1, <1>2, <2>2, <2>3, CallFacts, StaysRestorable, Zenon
  <2>8. CallInv(call)'
    <3>1. CASE call = AtRest
      BY <3>1, <1>4, <2>2, AtRestHolds
    <3>2. CASE call.pc = "read" /\ call.copy = next
      <4>1. next.revision <= saved'.revision
        BY <1>4, <2>2 DEF SavedCheckpoint
      <4>2. QED
        BY <3>2, <4>1, <2>3, <2>6, <2>7 DEF CallInv
    <3>3. QED
      BY <2>3, <3>1, <3>2
  <2>9. Behind(saved.last, {})' /\ Restorable(saved.journal)'
    BY <2>2, <2>6, <2>7
  <2>10. QED
    BY <1>2, <2>2, <2>3, <2>4, <2>5, <2>8, <2>9, CallStep, Zenon
<1>6. CASE ~RevisionMatches(c.copy)
  <2>1. operator' = [operator EXCEPT ![o] = AtRest] /\ lost' = lost \cup c.wrote /\ saved' = saved
    BY <1>1, <1>6 DEF BatchSaved
  <2>2. AtRest \in RunningCall /\ CallInv(AtRest)'
    BY <2>1, CallFacts, AtRestHolds
  <2>3. BackfillTypes'
    BY <1>2, <2>1, <2>2 DEF BackfillInv, BackfillTypes, RunningCall
  <2>4. QED
    BY <1>1, <1>2, <2>1, <2>2, <2>3, CallStep, ZenonT(40)
<1>7. QED
  BY <1>5, <1>6

LEMMA DiesHolds ==
  ASSUME BackfillInv, NEW o \in Operators, OperatorDies(o)
  PROVE  BackfillInv'
<1>1. /\ operator' = [operator EXCEPT ![o] = AtRest] /\ lost' = lost \cup operator[o].wrote
      /\ UNCHANGED <<target, saved, gaps>>
  BY ZenonT(40) DEF OperatorDies
<1>2. AtRest \in RunningCall /\ CallInv(AtRest)'
  BY <1>1, CallFacts, AtRestHolds, Zenon
<1>3. BackfillTypes'
  BY <1>1, <1>2 DEF BackfillInv, BackfillTypes, RunningCall
<1>4. QED
  BY <1>1, <1>2, <1>3, CallStep, ZenonT(40)

LEMMA RollbackBeginsHolds ==
  ASSUME BackfillInv, NEW o \in Operators, RollbackBegins(o)
  PROVE  BackfillInv'
<1>1. PICK copy \in SavedCheckpoint : copy = saved
  BY CallFacts
<1>2. PICK call : call = [AtRest EXCEPT !.pc = "undo", !.copy = copy, !.todo = copy.journal]
  OBVIOUS
<1>3. call \in RunningCall /\ call.pc = "undo" /\ call.copy = copy /\ call.wrote = {}
  BY <1>2, Zenon DEF AtRest, RunningCall, SavedCheckpoint
<1>4. operator' = [operator EXCEPT ![o] = call] /\ UNCHANGED <<target, saved, gaps, lost>>
  BY <1>1, <1>2 DEF RollbackBegins
<1>5. operator[o].wrote = {}
  <2>1. CallInv(operator[o]) /\ operator[o].pc = "idle"
    BY CallFacts DEF RollbackBegins
  <2>2. operator[o] = AtRest
    BY <2>1, ZenonT(40) DEF CallInv
  <2>3. QED
    BY <2>2 DEF AtRest
<1>6. BackfillTypes'
  BY <1>3, <1>4, Zenon DEF BackfillInv, BackfillTypes
<1>7. Behind(copy.last, {}) /\ Restorable(copy.journal)
  BY <1>1 DEF BackfillInv
<1>8. Behind(copy.last, {})'
  BY <1>7, <1>4 DEF Behind
<1>9. Restorable(copy.journal)'
  BY <1>3, <1>4, <1>5, <1>7, CallFacts, StaysRestorable, ZenonT(40)
<1>10. CallInv(call)'
  <2>1. copy.revision <= saved'.revision
    BY <1>1, <1>4 DEF SavedCheckpoint
  <2>2. QED
    BY <1>3, <1>8, <1>9, <2>1, Zenon DEF CallInv
<1>11. QED
  BY <1>3, <1>4, <1>5, <1>6, <1>10, CallStep, Zenon

LEMMA ImageHolds ==
  ASSUME BackfillInv, NEW o \in Operators, NEW ok \in BOOLEAN, ImageRestored(o, ok)
  PROVE  BackfillInv'
<1>1. PICK c \in RunningCall : c = operator[o]
  BY CallFacts
<1>2. PICK r \in c.todo :
        /\ operator' = [operator EXCEPT ![o].todo = @ \ {r},
                                        ![o].copy.journal = IF ok THEN @ \ {r} ELSE @]
        /\ target' = IF ok THEN [target EXCEPT ![r] = "old"] ELSE target
        /\ gaps' = IF ok THEN gaps \cup {r} ELSE gaps
  BY <1>1, Zenon DEF ImageRestored
<1>3. c.copy \in SavedCheckpoint /\ CallInv(c) /\ c.pc = "undo" /\ UNCHANGED <<saved, lost>>
  BY <1>1, CallFacts DEF ImageRestored
<1>4. r \in BackfillRecords
  BY <1>2 DEF RunningCall
<1>5. PICK journal \in SUBSET BackfillRecords :
        journal = IF ok THEN c.copy.journal \ {r} ELSE c.copy.journal
  BY <1>3, Zenon DEF SavedCheckpoint
<1>6. PICK copy : copy = [c.copy EXCEPT !.journal = journal]
  BY Zenon
<1>7. /\ copy \in SavedCheckpoint /\ copy.last = c.copy.last
      /\ copy.revision = c.copy.revision /\ copy.journal = journal
  BY <1>3, <1>6 DEF SavedCheckpoint
<1>8. PICK call : call = [c EXCEPT !.copy = copy, !.todo = c.todo \ {r}]
  OBVIOUS
<1>9. call \in RunningCall /\ call.copy = copy /\ call.wrote = c.wrote /\ call.pc = "undo"
  BY <1>3, <1>7, <1>8, Zenon DEF RunningCall
<1>10. operator' = [operator EXCEPT ![o] = call]
  BY <1>1, <1>2, <1>5, <1>6, <1>8, CallFacts, Zenon DEF RunningCall, SavedCheckpoint
<1>11. target \in [BackfillRecords -> {"old", "new"}]
  BY DEF BackfillInv, BackfillTypes
<1>12. /\ \A q \in BackfillRecords \ {r} : target'[q] = target[q]
       /\ target'[r] = IF ok THEN "old" ELSE target[r]
  BY <1>2, <1>4, <1>11
<1>13. BackfillTypes'
  BY <1>2, <1>3, <1>4, <1>9, <1>10, ZenonT(40) DEF BackfillInv, BackfillTypes
<1>14. \A q \in BackfillRecords : target'[q] = "old" => q \in gaps' \/ (target[q] = "old" /\ q \notin gaps)
  BY <1>2, <1>12
<1>15. \A q \in BackfillRecords : target'[q] = "new" => target[q] = "new" /\ (q \in c.copy.journal => q \in journal)
  BY <1>5, <1>12
<1>16. Behind(copy.last, {})'
  <2>1. Behind(copy.last, {})
    BY <1>3, <1>7 DEF CallInv
  <2>2. QED
    BY <2>1, <1>14, StaysBehind
<1>17. copy.revision = saved'.revision => Restorable(copy.journal)'
  <2> SUFFICES ASSUME copy.revision = saved'.revision PROVE Restorable(copy.journal)'
    OBVIOUS
  <2>1. Restorable(c.copy.journal)
    BY <1>3, <1>7 DEF CallInv
  <2>2. Restorable(journal)'
    BY <2>1, <1>1, <1>3, <1>9, <1>10, <1>15, CallFacts, StaysRestorable, ZenonT(40)
  <2>3. QED
    BY <2>2, <1>7
<1>18. CallInv(call)'
  <2>1. copy.revision <= saved'.revision /\ call.wrote = {}
    BY <1>3, <1>7, <1>9, Zenon DEF CallInv
  <2>2. QED
    BY <1>9, <1>16, <1>17, <2>1, Zenon DEF CallInv
<1>19. QED
  BY <1>1, <1>3, <1>9, <1>10, <1>13, <1>14, <1>15, <1>18, CallStep, Zenon

LEMMA RollbackSavedHolds ==
  ASSUME BackfillInv, NEW o \in Operators, RollbackSaved(o)
  PROVE  BackfillInv'
<1>1. PICK c \in RunningCall : c = operator[o]
  BY CallFacts
<1>2. c.copy \in SavedCheckpoint /\ CallInv(c) /\ c.pc = "undo" /\ c.wrote = {}
  BY <1>1, CallFacts DEF RollbackSaved, CallInv
<1>3. operator' = [operator EXCEPT ![o] = AtRest] /\ UNCHANGED <<target, gaps, lost>>
  BY DEF RollbackSaved
<1>4. CASE RevisionMatches(c.copy)
  <2>1. PICK status \in {"running", "halted", "completed", "rolled_back"} :
          status = IF c.copy.journal = {} THEN "rolled_back" ELSE c.copy.status
    BY <1>2 DEF SavedCheckpoint
  <2>2. PICK n \in Nat : n = c.copy.revision + 1
    BY <1>2 DEF SavedCheckpoint
  <2>3. PICK next : next = [c.copy EXCEPT !.revision = n, !.status = status]
    OBVIOUS
  <2>4. next \in SavedCheckpoint /\ next.last = c.copy.last /\ next.journal = c.copy.journal /\ next.revision = n
    BY <1>2, <2>1, <2>3, Zenon DEF SavedCheckpoint
  <2>5. saved' = next
    BY <1>1, <1>4, <2>1, <2>2, <2>3 DEF RollbackSaved
  <2>6. AtRest \in RunningCall /\ AtRest.wrote = {} /\ CallInv(AtRest)'
    BY <2>4, <2>5, AtRestHolds
  <2>7. BackfillTypes'
    BY <1>3, <2>4, <2>5, <2>6, ZenonT(40) DEF BackfillInv, BackfillTypes
  <2>8. saved.revision < saved'.revision
    BY <1>2, <1>4, <2>2, <2>4, <2>5 DEF RevisionMatches, SavedCheckpoint
  <2>9. Behind(next.last, {})'
    BY <1>2, <1>3, <2>4, ZenonT(40) DEF CallInv, Behind
  <2>10. Restorable(next.journal)'
    <3>1. Restorable(next.journal)
      BY <1>2, <1>4, <2>4 DEF CallInv, RevisionMatches
    <3>2. QED
      BY <3>1, <1>1, <1>2, <1>3, <2>6, CallFacts, StaysRestorable, Zenon
  <2>11. Behind(saved.last, {})' /\ Restorable(saved.journal)'
    BY <2>5, <2>9, <2>10
  <2>12. QED
    BY <1>3, <2>6, <2>7, <2>8, <2>11, CallStep, ZenonT(40)
<1>5. CASE ~RevisionMatches(c.copy)
  <2>1. saved' = saved
    BY <1>1, <1>5 DEF RollbackSaved
  <2>2. AtRest \in RunningCall /\ CallInv(AtRest)'
    BY <2>1, CallFacts, AtRestHolds
  <2>3. BackfillTypes'
    BY <1>3, <2>1, <2>2 DEF BackfillInv, BackfillTypes
  <2>4. QED
    BY <1>1, <1>2, <1>3, <2>1, <2>2, <2>3, CallStep, Zenon
<1>6. QED
  BY <1>4, <1>5

(* No record is passed over and none becomes unrecoverable but by a batch  *)
(* cut off before its save, for any number of records and of operators     *)
(* whose runs, deaths, restarts and rollbacks overlap (runBackfill,        *)
(* rollbackBackfill): compare-and-set on the revision is enough.           *)
THEOREM BackfillPassesNothingOver == BackfillSpec => []NothingPassedOver
<1>1. BackfillInit => BackfillInv
  <2> SUFFICES ASSUME BackfillInit PROVE BackfillInv
    OBVIOUS
  <2>1. AtRest \in RunningCall /\ NoCheckpoint \in SavedCheckpoint
    BY DEF AtRest, RunningCall, NoCheckpoint, SavedCheckpoint
  <2>2. BackfillTypes
    BY <2>1 DEF BackfillInit, BackfillTypes
  <2>3. NoCheckpoint.last = 0 /\ NoCheckpoint.revision = 0 /\ AtRest.copy = NoCheckpoint
        /\ AtRest.pc = "idle" /\ AtRest.wrote = {} /\ AtRest.todo = {}
    BY DEF NoCheckpoint, AtRest
  <2>4. CallInv(AtRest)
    <3>1. AtRest.copy.revision <= saved.revision
      BY <2>3 DEF BackfillInit
    <3>2. AtRest.wrote \subseteq AtRest.copy.journal
      BY <2>3, Zenon
    <3>3. QED
      BY <2>3, <3>1, <3>2, ZenonT(40) DEF CallInv
  <2>5. Behind(saved.last, {}) /\ Restorable(saved.journal)
    BY <2>3 DEF Behind, Restorable, BackfillInit, BackfillRecords
  <2>6. QED
    BY <2>2, <2>4, <2>5, Zenon DEF BackfillInv, BackfillInit
<1>2. BackfillInv /\ [BackfillNext]_backfillVars => BackfillInv'
  <2> SUFFICES ASSUME BackfillInv, [BackfillNext]_backfillVars PROVE BackfillInv'
    OBVIOUS
  <2>1. CASE UNCHANGED backfillVars
    BY <2>1 DEF BackfillInv, BackfillTypes, Behind, Restorable, CallInv, backfillVars
  <2>2. CASE BackfillNext
    BY <2>2, BeginsHolds, ReadHolds, ReadFailsHolds, WrittenHolds, WriteFailsHolds, BatchSavedHolds,
       DiesHolds, RollbackBeginsHolds, ImageHolds, RollbackSavedHolds DEF BackfillNext
  <2>3. QED
    BY <2>1, <2>2
<1>3. BackfillInv => NothingPassedOver
  <2> SUFFICES ASSUME BackfillInv PROVE NothingPassedOver
    OBVIOUS
  <2>1. Behind(saved.last, {}) /\ Restorable(saved.journal)
    BY DEF BackfillInv
  <2>2. QED
    BY <2>1, Zenon DEF NothingPassedOver, Behind, Restorable
<1>4. QED
  BY <1>1, <1>2, <1>3, PTL DEF BackfillSpec
=============================================================================
