---------------------------- MODULE Backpressure ----------------------------
(***************************************************************************)
(* The bounded enqueue gate of core/workers/backpressure.ts in front of    *)
(* the worker queue, which is seen here as the board of its jobs.          *)
(*                                                                         *)
(* The gate keeps no count of its own: it reads the live jobs of its label *)
(* from the queue whenever it decides.  Jobs of gated operations come in   *)
(* through the gate, and under BypassGate also through the framework's own *)
(* enqueue.  The counters of stats() are left out.                         *)
(***************************************************************************)
EXTENDS JobBoard

CONSTANTS
  Gated,        \* operations whose name starts with the label of the gate
  Ceiling,      \* maxCapacityCeiling
  Capacity0,    \* maxConcurrent at creation
  Policy,       \* overflowPolicy: "reject" or "drop_oldest"
  CanLower,     \* may a maintainer lower the capacity?
  BypassGate,   \* is framework.enqueue called for gated operations?
  MaxWaiters    \* bound on pending waitForCapacity promises

ASSUME BackpressureConstants ==
  /\ Gated \subseteq Operations
  /\ {Ceiling, Capacity0} \subseteq Nat \ {0}
  /\ Policy \in {"reject", "drop_oldest"}
  /\ CanLower \in BOOLEAN /\ BypassGate \in BOOLEAN /\ MaxWaiters \in Nat

VARIABLES
  capacity,   \* maxConcurrent
  waiters     \* how many waitForCapacity promises are unresolved

gateVars == <<capacity, waiters>>
allVars == <<boardVars, gateVars>>

-----------------------------------------------------------------------------
LiveStatuses == {"queued", "retrying", "running"}

Metered(j) == board[j].operation \in Gated

(* countLive *)
LiveJobs == {j \in JobIds : Metered(j) /\ board[j].status \in LiveStatuses}
Live == Cardinality(LiveJobs)

(* The candidates of oldestEvictable; job ids follow enqueuedAt. *)
Evictable == {j \in JobIds : Metered(j) /\ IsPending(board[j].status)}

(* Mutant: off by one. *)
FullTooLate == Live > capacity

Full == Live >= capacity

(* The gate has room, or does not meter the operation: framework.enqueue. *)
Admit(op, key) ==
  /\ op \in Gated => ~Full
  /\ Create(op, key)
  /\ UNCHANGED gateVars

(***************************************************************************)
(* The gate is full and evicts: deadLetter of the oldest candidate, then   *)
(* framework.enqueue, which answers a pending job of the same dedupe key   *)
(* if there is still one and creates a job otherwise.                      *)
(***************************************************************************)
Evict(op, key) ==
  /\ created < MaxJobs
  /\ op \in Gated /\ Full /\ Policy = "drop_oldest"
  /\ \E victim \in Evictable :
       /\ \A j \in Evictable : victim <= j
       /\ LET after == [board EXCEPT ![victim].status = Resolve(WorkerJob, @, "dead_letter")]
          IN IF Holders(key) \ {victim} = {}
             THEN /\ board' = [after EXCEPT ![created + 1] = Queued(op, key)]
                  /\ created' = created + 1
             ELSE /\ board' = after
                  /\ created' = created
  /\ UNCHANGED gateVars

Evicts == \E op \in Operations, key \in DedupeKeys \cup {NoKey} : Evict(op, key)

(* gate.enqueue; a refusal changes nothing. *)
GateEnqueue(op, key) == Admit(op, key) \/ Evict(op, key)

(* framework.enqueue called directly: it does not consult the gates. *)
DirectEnqueue(op, key) ==
  /\ op \in Gated => BypassGate
  /\ Create(op, key)
  /\ UNCHANGED gateVars

(* waitForCapacity of a full gate registers a waiter. *)
WaitForCapacity ==
  /\ Full
  /\ waiters < MaxWaiters
  /\ waiters' = waiters + 1
  /\ UNCHANGED <<boardVars, capacity>>

(* A maintainer changes the ceiling; only a raise notifies the waiters. *)
AdjustCapacity(next) ==
  /\ next \in 1..Ceiling
  /\ next < capacity => CanLower
  /\ capacity' = next
  /\ waiters' = IF next > capacity THEN 0 ELSE waiters
  /\ UNCHANGED boardVars

(* reset() of the gate, which the framework's reset() calls as well. *)
GateReset ==
  /\ waiters' = 0
  /\ UNCHANGED capacity

-----------------------------------------------------------------------------
GateInit ==
  /\ BoardInit
  /\ capacity = Capacity0 /\ waiters = 0

(* Everything but the framework's reset(). *)
GateAdvance ==
  \/ \E op \in Operations, key \in DedupeKeys \cup {NoKey} :
       GateEnqueue(op, key) \/ DirectEnqueue(op, key)
  \/ \E j \in JobIds : Take(j) /\ UNCHANGED gateVars
  \/ WaitForCapacity
  \/ \E next \in 0..Ceiling + 1 : AdjustCapacity(next)
  \/ GateReset /\ UNCHANGED boardVars

GateNext ==
  \/ GateAdvance
  \/ Clear /\ GateReset

GateSpec == GateInit /\ [][GateNext]_allVars

(* Job j settles; WorkerQueue shows that every job does under fair draining. *)
JobSettles(j) ==
  Take(j) /\ IsTerminal(WorkerJob, board'[j].status) /\ UNCHANGED gateVars

GateFairSpec == GateSpec /\ \A j \in JobIds : SF_allVars(JobSettles(j))

-----------------------------------------------------------------------------
(***************************************************************************)
(* However jobs fail, retry, run and settle, and wherever the ceiling is   *)
(* moved, the live jobs of the gate grow only up to the ceiling of that    *)
(* moment (enqueue, countLive).                                            *)
(***************************************************************************)
NeverOverfilled == [][Live' <= Live \/ Live' <= capacity]_allVars

(***************************************************************************)
(* A full gate whose capacity was lowered refuses new work until the       *)
(* backlog drains to the new limit (adjustCapacity, enqueue).              *)
(***************************************************************************)
RefusesWhileOver == [][Live > capacity => created' <= created]_allVars

(* A job is evicted only to make room for a new one (enqueue). *)
EvictsForNewJob == [][Evicts => created' > created]_allVars

(***************************************************************************)
(* A producer that waits for capacity is woken once a slot is open         *)
(* (waitForCapacity, notifyWaiters).                                       *)
(***************************************************************************)
WaitersWake == (waiters > 0 /\ ~Full) ~> (waiters = 0 \/ Full)
=============================================================================
