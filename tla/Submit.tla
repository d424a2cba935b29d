------------------------------- MODULE Submit -------------------------------
(***************************************************************************)
(* WorkerFramework.submit: the guarded enqueue that composes the gate, the *)
(* idempotency store, the quota and the queue in one synchronous call.     *)
(*                                                                         *)
(* The idempotency records are in browser storage and survive a page load; *)
(* the framework, its jobs and its quota store do not.  Jobs of earlier    *)
(* page loads and resets are told apart by an epoch, as their random ids   *)
(* are in the code.  A claim is settled before submit returns, unless      *)
(* writing the outcome throws: then it stays in flight.  The quota is the  *)
(* number of charges left in the window.                                   *)
(***************************************************************************)
EXTENDS Backpressure

CONSTANTS
  SubmitKeys,     \* idempotency keys
  QuotaLimit,     \* charges per window
  MaxEpochs,      \* bound: page loads and resets
  MaxRemovals,    \* bound: removals of the record of a key by expiry
  StorageCanFail  \* may setItem throw when the outcome is recorded?

ASSUME SubmitConstants ==
  /\ QuotaLimit \in Nat /\ MaxEpochs \in Nat /\ MaxRemovals \in Nat
  /\ StorageCanFail \in BOOLEAN

VARIABLES
  records,   \* the idempotency records in storage
  known,     \* the keys this framework's store has claimed
  quota,     \* charges left in the window
  epoch,     \* which framework instance the jobs belong to
  reply,     \* the answer of submit, if the last step was a submission
  decided,   \* history: which job answers a key, and whether it is a new one
  removed    \* history: how often the record of a key was removed

submitVars == <<records, known, quota, epoch, reply, decided, removed>>
everything == <<allVars, submitVars>>

-----------------------------------------------------------------------------
JobRef == [epoch : 0..MaxEpochs, job : JobIds]
NoRef == [epoch |-> 0, job |-> 0]
Submission == [operation : Operations, dedupeKey : DedupeKeys \cup {NoKey}]

Free == [status |-> "none"]
InFlight == [status : {"in_flight"}, request : Submission, expired : BOOLEAN]
Completed == [status : {"completed"}, request : Submission, expired : BOOLEAN, ref : JobRef]

Silence == [kind |-> "none"]
-----------------------------------------------------------------------------
Replies(kind, k, sub, ref) ==
  reply' = [kind |-> kind, key |-> k, request |-> sub, ref |-> ref]

Here(j) == [epoch |-> epoch, job |-> j]

GateIsFull(op) == op \in Gated /\ Full

Expired(k) == records[k] # Free /\ records[k].expired

(* begin answers with the outcome on record. *)
Replayable(k, sub) ==
  records[k].status = "completed" /\ ~Expired(k) /\ records[k].request = sub

(* The gate is asked first, before the records are looked at. *)
SubmitGateFull(k, sub) ==
  /\ GateIsFull(sub.operation)
  /\ Replies("full", k, sub, NoRef)
  /\ UNCHANGED <<allVars, records, known, quota, epoch, decided, removed>>

(* begin refuses and drops an expired record. *)
SubmitExpired(k, sub) ==
  /\ ~GateIsFull(sub.operation)
  /\ Expired(k)
  /\ records' = [records EXCEPT ![k] = Free]
  /\ removed' = [removed EXCEPT ![k] = @ + 1]
  /\ Replies("refused", k, sub, NoRef)
  /\ UNCHANGED <<allVars, known, quota, epoch, decided>>

(* begin refuses a claim in flight and another request under the key. *)
SubmitConflict(k, sub) ==
  /\ ~GateIsFull(sub.operation)
  /\ records[k] # Free /\ ~Expired(k) /\ ~Replayable(k, sub)
  /\ Replies("refused", k, sub, NoRef)
  /\ UNCHANGED <<allVars, records, known, quota, epoch, decided, removed>>

(* Mutant: the recorded job is not looked up in the jobs map of this page. *)
ReplayWhateverPage(k, sub) ==
  /\ ~GateIsFull(sub.operation) /\ Replayable(k, sub)
  /\ Replies("replayed", k, sub, Here(records[k].ref.job))
  /\ UNCHANGED <<allVars, records, known, quota, epoch, decided, removed>>

(* begin replays: the recorded job, if this framework still knows it. *)
SubmitReplay(k, sub) ==
  /\ ~GateIsFull(sub.operation)
  /\ Replayable(k, sub)
  /\ IF records[k].ref.epoch = epoch
     THEN Replies("replayed", k, sub, records[k].ref)
     ELSE Replies("refused", k, sub, NoRef)
  /\ UNCHANGED <<allVars, records, known, quota, epoch, decided, removed>>

(* The charge is refused: the claim is abandoned and nothing is created. *)
SubmitOverQuota(k, sub) ==
  /\ ~GateIsFull(sub.operation)
  /\ records[k] = Free
  /\ quota = 0
  /\ known' = known \cup {k}
  /\ Replies("refused", k, sub, NoRef)
  /\ UNCHANGED <<allVars, records, quota, epoch, decided, removed>>

(* What begin and complete leave in storage; without an outcome if its write threw. *)
Claimed(sub) == [status |-> "in_flight", request |-> sub, expired |-> FALSE]
Outcome(sub, j) ==
  [status |-> "completed", request |-> sub, expired |-> FALSE, ref |-> Here(j)]

(* Mutant: the claim is released when its outcome cannot be written. *)
RecordOrRelease(k, sub, j, new) ==
  /\ decided' = decided \cup {[key |-> k, request |-> sub, ref |-> Here(j), new |-> new]}
  /\ \/ /\ records' = [records EXCEPT ![k] = Outcome(sub, j)]
        /\ Replies("created", k, sub, Here(j))
     \/ /\ StorageCanFail
        /\ records' = records
        /\ reply' = Silence

(* complete, after which submit answers with job j; or it throws. *)
RecordOutcome(k, sub, j, new) ==
  /\ decided' = decided \cup {[key |-> k, request |-> sub, ref |-> Here(j), new |-> new]}
  /\ \/ /\ records' = [records EXCEPT ![k] = Outcome(sub, j)]
        /\ Replies("created", k, sub, Here(j))
     \/ /\ StorageCanFail
        /\ records' = [records EXCEPT ![k] = Claimed(sub)]
        /\ reply' = Silence

(* begin claims the key and consume charges the window. *)
ClaimAndCharge(k) ==
  /\ records[k] = Free
  /\ quota > 0
  /\ known' = known \cup {k}
  /\ quota' = quota - 1

(* A first submission creates a job. *)
SubmitFresh(k, sub) ==
  /\ ~GateIsFull(sub.operation)
  /\ ClaimAndCharge(k)
  /\ Create(sub.operation, sub.dedupeKey)
  /\ RecordOutcome(k, sub, created + 1, TRUE)
  /\ UNCHANGED <<gateVars, epoch, removed>>

(* A first submission with a dedupe key that a pending job holds is answered with that job. *)
SubmitDeduped(k, sub) ==
  /\ ~GateIsFull(sub.operation)
  /\ ClaimAndCharge(k)
  /\ \E j \in Holders(sub.dedupeKey) :
       /\ \A i \in Holders(sub.dedupeKey) : j <= i
       /\ RecordOutcome(k, sub, j, FALSE)
  /\ UNCHANGED <<allVars, epoch, removed>>

SubmitJob(k, sub) ==
  \/ SubmitGateFull(k, sub)
  \/ SubmitExpired(k, sub)
  \/ SubmitConflict(k, sub)
  \/ SubmitReplay(k, sub)
  \/ SubmitOverQuota(k, sub)
  \/ SubmitFresh(k, sub)
  \/ SubmitDeduped(k, sub)

-----------------------------------------------------------------------------
(* The time-to-live of a record passes. *)
RecordExpires(k) ==
  /\ records[k] # Free /\ removed[k] < MaxRemovals
  /\ records' = [records EXCEPT ![k].expired = TRUE]
  /\ reply' = Silence
  /\ UNCHANGED <<allVars, known, quota, epoch, decided, removed>>

(* A new quota window opens. *)
WindowOpens ==
  /\ quota' = QuotaLimit
  /\ reply' = Silence
  /\ UNCHANGED <<allVars, records, known, epoch, decided, removed>>

(* The queue, the gate and the quota of a new framework instance. *)
StartAfresh ==
  /\ epoch < MaxEpochs
  /\ epoch' = epoch + 1
  /\ Clear
  /\ known' = {}
  /\ quota' = QuotaLimit
  /\ reply' = Silence
  /\ UNCHANGED decided

(* The page is loaded again: memory is lost, the records are not. *)
PageLoad ==
  /\ StartAfresh
  /\ capacity' = Capacity0 /\ waiters' = 0
  /\ UNCHANGED <<records, removed>>

(***************************************************************************)
(* reset() of a framework that owns its quota.  The idempotency store      *)
(* removes the records of the keys it knows.                               *)
(***************************************************************************)
FrameworkReset ==
  /\ StartAfresh
  /\ GateReset
  /\ records' = [k \in SubmitKeys |-> IF k \in known THEN Free ELSE records[k]]
  /\ removed' = [k \in SubmitKeys |-> IF k \in known /\ records[k] # Free
                                        THEN removed[k] + 1 ELSE removed[k]]

SubmitInit ==
  /\ GateInit
  /\ records = [k \in SubmitKeys |-> Free]
  /\ known = {} /\ quota = QuotaLimit /\ epoch = 0 /\ reply = Silence
  /\ decided = {} /\ removed = [k \in SubmitKeys |-> 0]

SubmitNext ==
  \/ \E k \in SubmitKeys, sub \in Submission : SubmitJob(k, sub)
  \/ /\ GateAdvance
     /\ reply' = Silence
     /\ UNCHANGED <<records, known, quota, epoch, decided, removed>>
  \/ \E k \in SubmitKeys : RecordExpires(k)
  \/ WindowOpens
  \/ PageLoad
  \/ FrameworkReset

SubmitSpec == SubmitInit /\ [][SubmitNext]_everything

-----------------------------------------------------------------------------
(***************************************************************************)
(* A key creates one job, and one more for each removal of its record, by  *)
(* expiry or by reset(): not for a page load, a lost write, a full gate, a *)
(* spent quota or a retry in between.  And a replay names a job of this    *)
(* page that answered the same request under the same key before, whatever *)
(* happened to the records and the jobs since (submit).                    *)
(***************************************************************************)
OneJobPerKey ==
  /\ \A k \in SubmitKeys :
       Cardinality({d \in decided : d.key = k /\ d.new}) <= 1 + removed[k]
  /\ reply.kind = "replayed" =>
       /\ reply.ref.epoch = epoch /\ reply.ref.job <= created
       /\ \E d \in decided : d.key = reply.key /\ d.request = reply.request /\ d.ref = reply.ref

(* Only a submission that creates a job is charged (submit). *)
OnlyJobsAreCharged == [][quota' < quota => created' > created]_everything

(* A full gate does not turn a replay away (submit). *)
ReplaysAreExempt ==
  [][reply' # reply /\ reply'.kind = "full"
       => ~Replayable(reply'.key, reply'.request)]_everything
=============================================================================
