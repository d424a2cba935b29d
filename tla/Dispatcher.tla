----------------------------- MODULE Dispatcher -----------------------------
(***************************************************************************)
(* The side effect dispatcher (core/operations/dispatcher.ts): jobs found  *)
(* by idempotency key, runs that await an effect and then write back the   *)
(* copy of the job they made before it, and a driver that runs what replay *)
(* lists.                                                                  *)
(***************************************************************************)
EXTENDS Naturals

CONSTANTS
  DispatchKeys,        \* idempotency keys
  MaxDispatchAttempts, \* maxAttempts
  Drivers,             \* who calls run
  RunTwice,            \* may a driver run a job that another still runs?
  MaxDriverDeaths      \* bound: how often a driver dies

ASSUME DispatchConstants ==
  /\ MaxDispatchAttempts \in Nat \ {0} /\ RunTwice \in BOOLEAN /\ MaxDriverDeaths \in Nat
  /\ "none" \notin DispatchKeys

VARIABLES
  dispatched,  \* dispatched[k]: the job stored for key k
  driving,     \* driving[d]: the key driver d awaits the effect of, and its copy
  effects,     \* effects[k]: has the effect of k been reported as done?
  deaths       \* how often a driver has died

dispatchVars == <<dispatched, driving, effects, deaths>>

NoJob == [status |-> "absent", attempts |-> 0]
Resting == [key |-> "none", copy |-> NoJob]

DispatchSettled(job) == job.status \in {"succeeded", "dead_lettered"}

(* Mutant: a second submit of a key makes a job of its own. *)
DispatchAfresh(k) ==
  /\ dispatched' = [dispatched EXCEPT ![k] = [status |-> "queued", attempts |-> 0]]
  /\ UNCHANGED <<driving, effects, deaths>>

(* submit: a known key is answered with its job. *)
DispatchSubmit(k) ==
  /\ dispatched[k] = NoJob
  /\ dispatched' = [dispatched EXCEPT ![k] = [status |-> "queued", attempts |-> 0]]
  /\ UNCHANGED <<driving, effects, deaths>>

(***************************************************************************)
(* run up to the await.  A driver takes its work from replay, which lists  *)
(* queued jobs; by id it may also run a job that a crash left running.     *)
(***************************************************************************)
DispatchRun(d, k) ==
  LET running == [status |-> "running", attempts |-> dispatched[k].attempts + 1]
  IN /\ driving[d] = Resting
     /\ dispatched[k] # NoJob /\ ~DispatchSettled(dispatched[k])
     /\ RunTwice \/ \A e \in Drivers : driving[e].key # k
     /\ dispatched' = [dispatched EXCEPT ![k] = running]
     /\ driving' = [driving EXCEPT ![d] = [key |-> k, copy |-> running]]
     /\ UNCHANGED <<effects, deaths>>

(* The effect resolves. *)
DispatchSucceeds(d) ==
  LET k == driving[d].key
  IN /\ driving[d] # Resting
     /\ dispatched' = [dispatched EXCEPT ![k] = [driving[d].copy EXCEPT !.status = "succeeded"]]
     /\ driving' = [driving EXCEPT ![d] = Resting]
     /\ effects' = [effects EXCEPT ![k] = TRUE]
     /\ UNCHANGED deaths

FailedCopy(copy) ==
  [copy EXCEPT !.status = IF copy.attempts >= MaxDispatchAttempts THEN "dead_lettered" ELSE "queued"]

(* The effect rejects. *)
DispatchFails(d) ==
  /\ driving[d] # Resting
  /\ dispatched' = [dispatched EXCEPT ![driving[d].key] = FailedCopy(driving[d].copy)]
  /\ driving' = [driving EXCEPT ![d] = Resting]
  /\ UNCHANGED <<effects, deaths>>

(* The process dies during the effect: the job stays running. *)
DriverDies(d) ==
  /\ driving[d] # Resting /\ deaths < MaxDriverDeaths
  /\ driving' = [driving EXCEPT ![d] = Resting]
  /\ deaths' = deaths + 1
  /\ UNCHANGED <<dispatched, effects>>

DispatchInit ==
  /\ dispatched = [k \in DispatchKeys |-> NoJob]
  /\ driving = [d \in Drivers |-> Resting]
  /\ effects = [k \in DispatchKeys |-> FALSE]
  /\ deaths = 0

DispatchNext ==
  \/ \E k \in DispatchKeys : DispatchSubmit(k)
  \/ \E d \in Drivers : \/ \E k \in DispatchKeys : DispatchRun(d, k)
                        \/ DispatchSucceeds(d)
                        \/ DispatchFails(d)
                        \/ DriverDies(d)

DispatchSpec == DispatchInit /\ [][DispatchNext]_dispatchVars

-----------------------------------------------------------------------------
(***************************************************************************)
(* A job whose effect was reported as done stays succeeded: no resubmitted *)
(* key, late failure or rerun after a crash puts it back in the queue, as  *)
(* long as drivers do not run one job at the same time (submit, run).      *)
(***************************************************************************)
DoneStaysDone == \A k \in DispatchKeys : effects[k] => dispatched[k].status = "succeeded"

=============================================================================
