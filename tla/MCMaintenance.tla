---------------------------- MODULE MCMaintenance ----------------------------
(***************************************************************************)
(* Finite instances of the components that operators run: repairs,         *)
(* migrations, exports, snapshots, rollouts and the service mode.  They    *)
(* share no state, so one run checks each of them on its own: focus says   *)
(* which of them moves.                                                    *)
(***************************************************************************)
EXTENDS Repair, Exports, Snapshots, Migration, Rollout, ServiceStatus

-----------------------------------------------------------------------------
(* Worlds with drift in the balances, in the jobs, or in the rest. *)
Undrifted ==
  [lines |-> <<>>, entry |-> 0, others |-> "nothing", jobs |-> <<>>,
   claim |-> [status |-> "none", expired |-> FALSE, replayed |-> FALSE],
   envelope |-> [stored |-> FALSE, expired |-> FALSE, counted |-> TRUE],
   note |-> [copies |-> 0, declared |-> TRUE], unsettled |-> FALSE]

CachedLine == [balance : 1..2, cachedAt : 0..1]
BalanceWorlds ==
  {[Undrifted EXCEPT !.lines = l, !.entry = e, !.others = o] :
     l \in [1..1 -> CachedLine] \cup [1..2 -> CachedLine], e \in 0..2, o \in {"nothing", "account"}}

StoredJob ==
  [status : {"queued"}, spent : BOOLEAN, overdue : BOOLEAN, enqueuedAt : 0..1]
  \cup [status : {"running"}, spent : BOOLEAN, overdue : {FALSE}, enqueuedAt : {0}]
  \cup [status : {"retrying", "legacy"}, spent : {FALSE}, overdue : {FALSE}, enqueuedAt : {0}]
JobWorlds == {[Undrifted EXCEPT !.jobs = j] : j \in [1..2 -> StoredJob]}

Claims == {Undrifted.claim} \cup [status : {"in_flight"}, expired : BOOLEAN, replayed : BOOLEAN]
Envelopes == {Undrifted.envelope} \cup [stored : {TRUE}, expired : BOOLEAN, counted : BOOLEAN]
Notes == {Undrifted.note} \cup [copies : 1..2, declared : BOOLEAN]
OtherWorlds ==
  {[Undrifted EXCEPT !.unsettled = TRUE]}
  \cup {[Undrifted EXCEPT !.claim = c, !.note = n] : c \in Claims, n \in Notes}
  \cup {[Undrifted EXCEPT !.envelope = e, !.note = n] : e \in Envelopes, n \in Notes}

MCWorlds == {Undrifted} \cup BalanceWorlds \cup JobWorlds \cup OtherWorlds

(* Two records of either version, with and without a correlation, a checksum and an id of their own. *)
Version1(id, correlation) ==
  [id |-> id, version |-> 1, state |-> "s", correlation |-> correlation, checksum |-> NoChecksum, partition |-> Missing]
Version2(id, checksum) ==
  [id |-> id, version |-> 2, state |-> "s", correlation |-> "c", checksum |-> checksum, partition |-> "default"]
RecordsOf(id) ==
  {Version1(id, "c"), Version1(id, Missing), Version2(id, <<"s", "c">>), Version2(id, ShortChecksum), Version2(id, NoChecksum)}
MCTexts == {Missing, "made up", "default", "s", "c", "r1", "r2"}
MCDataSets == {<<a, b>> : a \in RecordsOf("r1"), b \in RecordsOf("r1") \cup RecordsOf("r2") \cup RecordsOf(Missing)}

(* One subject whose bucket is low, and one whose bucket is high. *)
MCBucket == [s \in Subjects |-> IF s = "low" THEN 10 ELSE 90]
MCConfigs ==
  [percentage : {0, 50, 100}, networks : {{}, {"testnet"}}, allowlist : {{}, {"low"}}, blocklist : {{}, {"high"}}]

-----------------------------------------------------------------------------
VARIABLE focus

First(S) == CHOOSE x \in S : TRUE

MaintenanceInit ==
  /\ focus \in {"repair", "exports", "snapshots", "migration", "rollout", "status"}
  /\ RepairInit /\ (focus # "repair" => world = Undrifted)
  /\ ExportInit /\ (focus # "exports" => listed = {} /\ reader = First([maintainer : BOOLEAN, ordered : BOOLEAN]))
  /\ SnapInit /\ (focus # "snapshots" => live = First([Ids -> [state : {"active"}, value : ArchValues]]))
  /\ MigrationInit /\ (focus # "migration" => handler /\ dataset = First(DataSets))
  /\ StatusInit /\ (focus # "status" => maintenance = NoMaintenance)
  /\ RolloutInit

MaintenanceNext ==
  /\ UNCHANGED focus
  /\ \/ /\ focus = "repair" /\ RepairNext
        /\ UNCHANGED <<exportVars, snapVars, migrationVars, rolloutVars, statusVars>>
     \/ /\ focus = "exports" /\ ExportNext
        /\ UNCHANGED <<repairVars, snapVars, migrationVars, rolloutVars, statusVars>>
     \/ /\ focus = "snapshots" /\ SnapNext
        /\ UNCHANGED <<repairVars, exportVars, migrationVars, rolloutVars, statusVars>>
     \/ /\ focus = "migration" /\ MigrationNext
        /\ UNCHANGED <<repairVars, exportVars, snapVars, rolloutVars, statusVars>>
     \/ /\ focus = "rollout" /\ RolloutNext
        /\ UNCHANGED <<repairVars, exportVars, snapVars, migrationVars, statusVars>>
     \/ /\ focus = "status" /\ StatusNext
        /\ UNCHANGED <<repairVars, exportVars, snapVars, migrationVars, rolloutVars>>
=============================================================================
