------------------------------ MODULE Snapshots ------------------------------
(***************************************************************************)
(* Archived records and snapshots (core/archive): records are archived and *)
(* restored one at a time, and captured together to be verified and put    *)
(* back after a loss.                                                      *)
(*                                                                         *)
(* captureSnapshot keeps the caller's array, not a copy: what the caller   *)
(* writes into it later is in the snapshot too, until the caller starts a  *)
(* new array.  A content hash is the records it was computed over.         *)
(* Identifiers, times, telemetry and messages are left out.                *)
(***************************************************************************)
EXTENDS Naturals, FiniteSets

CONSTANTS
  Ids,         \* record identifiers
  ArchValues,  \* the values a record may hold
  Broken,      \* the values some invariant of the restorer refuses
  MaxSchema, MaxLedger, \* bounds on versions and ledger sequences
  MaxWrites    \* bound on the writes to live records

ASSUME SnapshotConstants ==
  /\ Broken \subseteq ArchValues /\ MaxSchema \in Nat \ {0} /\ MaxLedger \in Nat /\ MaxWrites \in Nat

VARIABLES
  live,     \* live[id]: the record's state and value
  schema,   \* the schema version of the running application
  ledger,   \* the ledger sequence it has reached
  snap,     \* the last snapshot
  captured, \* what live was when it was captured (history)
  shared,   \* is the snapshot's array still the live one?
  restored, \* the outcome of the last verifyAndRestore
  writes

snapVars == <<live, schema, ledger, snap, captured, shared, restored, writes>>

NoSnapshot == [records |-> <<>>, schemaVersion |-> 0, ledgerSequence |-> 0, index |-> <<>>, contentHash |-> <<>>]
NotRestored == [status |-> "none", hashChecked |-> FALSE, atLeast |-> 0, mismatches |-> {}]

(* indexBuilder: the ids that hold each value. *)
IndexOf(records) == [v \in ArchValues |-> {id \in Ids : records[id].value = v}]

-----------------------------------------------------------------------------
(* A write in place is a write to the snapshot's array while it is shared. *)
InPlace(records) ==
  /\ live' = records
  /\ snap' = IF shared THEN [snap EXCEPT !.records = records] ELSE snap

WriteRecord(id, v) ==
  /\ writes < MaxWrites /\ writes' = writes + 1
  /\ InPlace([live EXCEPT ![id].value = v])
  /\ UNCHANGED <<schema, ledger, captured, shared, restored>>

(* archiveRecord. *)
ArchiveRecord(id) ==
  /\ live[id].state # "archived" /\ writes < MaxWrites /\ writes' = writes + 1
  /\ InPlace([live EXCEPT ![id].state = "archived"])
  /\ UNCHANGED <<schema, ledger, captured, shared, restored>>

(* restoreRecord. *)
RestoreRecord(id) ==
  /\ live[id].state = "archived" /\ writes < MaxWrites /\ writes' = writes + 1
  /\ InPlace([live EXCEPT ![id].state = "restored"])
  /\ UNCHANGED <<schema, ledger, captured, shared, restored>>

(* The caller copies the records before it goes on writing. *)
Copy ==
  /\ shared /\ shared' = FALSE
  /\ UNCHANGED <<live, schema, ledger, snap, captured, restored, writes>>

CaptureSnapshot(hashed) ==
  /\ snap' = [records |-> live, schemaVersion |-> schema, ledgerSequence |-> ledger, index |-> IndexOf(live),
              contentHash |-> IF hashed THEN live ELSE <<>>]
  /\ captured' = live /\ shared' = TRUE
  /\ UNCHANGED <<live, schema, ledger, restored, writes>>

(* The application is upgraded or rolled back, and the ledger moves on. *)
Moves ==
  /\ \/ \E v \in 1..MaxSchema \ {schema} : schema' = v /\ ledger' = ledger
     \/ ledger < MaxLedger /\ ledger' = ledger + 1 /\ schema' = schema
  /\ UNCHANGED <<live, snap, captured, shared, restored, writes>>

-----------------------------------------------------------------------------
SchemaMismatch(allowSchemaMigration) ==
  \/ snap.schemaVersion < schema /\ ~allowSchemaMigration
  \/ snap.schemaVersion > schema

LedgerRegression == snap.ledgerSequence < ledger

(* Mutant: the hash is compared with the one computed at capture. *)
HashTrusted(hashed) == FALSE

HashMismatch(hashed) == snap.contentHash # <<>> /\ hashed /\ snap.records # snap.contentHash

InvariantFailed == \E id \in Ids : snap.records[id].value \in Broken

Mismatches == {v \in ArchValues : snap.index[v] # IndexOf(snap.records)[v]}

(***************************************************************************)
(* verifyAndRestore, and preflight, which is its dry run: every check is   *)
(* made before the first write.  A caller that gives no minimum ledger     *)
(* sequence does not mind restoring an older one.                          *)
(***************************************************************************)
VerifyAndRestore(hashed, allowSchemaMigration, bounded, dryRun) ==
  LET refused == \/ SchemaMismatch(allowSchemaMigration) \/ (bounded /\ LedgerRegression)
                 \/ HashMismatch(hashed) \/ InvariantFailed
  IN /\ snap # NoSnapshot
     /\ restored' = [status |-> IF refused THEN "refused" ELSE IF dryRun THEN "dry run" ELSE "restored",
                     hashChecked |-> hashed /\ snap.contentHash # <<>>,
                     atLeast |-> IF bounded THEN ledger ELSE 0,
                     mismatches |-> IF refused THEN {} ELSE Mismatches]
     /\ IF refused \/ dryRun THEN UNCHANGED <<live, ledger, shared>>
        ELSE live' = snap.records /\ ledger' = snap.ledgerSequence /\ shared' = FALSE
     /\ UNCHANGED <<schema, snap, captured, writes>>

SnapInit ==
  /\ live \in [Ids -> [state : {"active"}, value : ArchValues]]
  /\ schema = 1 /\ ledger = 0 /\ snap = NoSnapshot /\ captured = <<>> /\ shared = FALSE
  /\ restored = NotRestored /\ writes = 0

SnapNext ==
  \/ Copy \/ Moves
  \/ \E id \in Ids : ArchiveRecord(id) \/ RestoreRecord(id) \/ \E v \in ArchValues : WriteRecord(id, v)
  \/ \E hashed \in BOOLEAN :
       \/ CaptureSnapshot(hashed)
       \/ \E allowSchemaMigration, bounded, dryRun \in BOOLEAN :
            VerifyAndRestore(hashed, allowSchemaMigration, bounded, dryRun)

SnapSpec == SnapInit /\ [][SnapNext]_snapVars

-----------------------------------------------------------------------------
ValuesOf(records) == [id \in Ids |-> records[id].value]

(***************************************************************************)
(* A restore that goes through puts back what was captured, never a record *)
(* that an invariant refuses and never a ledger below the asked minimum.   *)
(* Writes that reached the snapshot through the shared array are caught by *)
(* the hash, or told by the rebuilt index if they changed a value; and a   *)
(* refused restore, or a dry run, leaves everything as it is               *)
(* (verifyAndRestore, preflight).                                          *)
(***************************************************************************)
RestoresWhatWasCaptured ==
  [][/\ live' # live /\ writes' = writes =>
          /\ restored'.status = "restored"
          /\ live' = captured \/ (~restored'.hashChecked /\ (restored'.mismatches # {} \/ ValuesOf(live') = ValuesOf(captured)))
          /\ \A id \in Ids : live'[id].value \notin Broken
     /\ ledger' < ledger => restored'.status = "restored" /\ ledger' >= restored'.atLeast]_snapVars
=============================================================================
