---------------------------- MODULE WorkerQueue ----------------------------
(***************************************************************************)
(* The in-memory background worker of core/workers/queue.ts: enqueue with  *)
(* dedupe keys, draining, handler attempts, retries with backoff, manual   *)
(* retry and dead-letter, cancellation and shutdown.                       *)
(*                                                                         *)
(* JavaScript runs one call at a time.  The call stack is explicit: a      *)
(* "drain" frame is a drain loop between two jobs of the due list it       *)
(* computed on entry, a "handler" frame is the synchronous part of a job   *)
(* handler.  A handler may return, throw, or suspend on a promise; a       *)
(* suspended attempt sits in inFlight and settles later from the event     *)
(* loop, in any order with other work.  A handler is user code, so it may  *)
(* call the framework while it is on the stack (ReentrantHandlers).        *)
(*                                                                         *)
(* Abstractions.  A job id is its position in the jobs map, so "oldest     *)
(* first" is id order.  nextAttemptAt is kept as "none", "waiting" or      *)
(* "elapsed"; Elapse is the clock passing it, so the backoff arithmetic of *)
(* retryBackoff is left out.  lastError keeps the code only.  Telemetry    *)
(* and correlation ids are left out.  A call the code refuses (an unknown  *)
(* or settled id, a dedupe hit) changes nothing and is a stuttering step.  *)
(***************************************************************************)
EXTENDS Integers, Sequences, FiniteSets, Lifecycle

CONSTANTS
  MaxJobs,           \* bound: jobs created between two resets
  Operations,        \* operation names
  DedupeKeys,        \* dedupe keys a caller may pass
  NoKey,             \* "no dedupe key was given"
  Budgets,           \* values of maxAttempts
  MaxRetries,        \* bound: manual retryJob calls per job
  MaxDepth,          \* bound: frames on the call stack
  MaxOverlap,        \* bound: handlers of one job active at a time
  MaxDrains,         \* bound: drain() calls awaited at a time
  ReentrantHandlers, \* may a handler call the framework while on the stack?
  ReprocessRunning,  \* may a caller processJob() a job that is running?
  ResetWhileStopping \* may a caller reset() while a shutdown() is waiting?

ASSUME WorkerQueueConstants ==
  /\ {MaxJobs, MaxDepth, MaxOverlap} \subseteq Nat \ {0}
  /\ {MaxRetries, MaxDrains} \subseteq Nat
  /\ Operations # {}
  /\ Budgets # {} /\ Budgets \subseteq Nat \ {0}
  /\ NoKey \notin DedupeKeys
  /\ {ReentrantHandlers, ReprocessRunning, ResetWhileStopping} \subseteq BOOLEAN

JobIds == 1..MaxJobs

VARIABLES
  registered, \* operations that have a handler
  jobs,       \* the jobs map
  created,    \* how many jobs the map holds; their ids are 1..created
  retries,    \* history: manual retries of each job
  runs,       \* history: handler invocations of each job
  stack,      \* call stack, innermost frame last
  inFlight,   \* suspended attempts, as [job, run]
  phase,      \* shutdownPhase
  aborted,    \* controller.signal.aborted
  waiting,    \* atAbort snapshots of the shutdown() calls still waiting
  report,     \* what the last shutdown() since a reset returned
  drains,     \* drain() calls that await in-flight handlers
  summary     \* what the last drain() since a reset returned

jobVars == <<registered, jobs, created, retries>>
callVars == <<stack, inFlight, runs>>
stopVars == <<phase, aborted, waiting, report>>
drainVars == <<drains, summary>>
vars == <<jobVars, callVars, stopVars, drainVars>>

-----------------------------------------------------------------------------
(* Types *)

Statuses == WorkerJob.states
Codes == {"none", "unregistered", "cancelled", "thrown"}

Job == [ operation : Operations, dedupeKey : DedupeKeys \cup {NoKey},
         maxAttempts : Budgets, attempts : Nat, status : Statuses \cup {"absent"},
         wait : {"none", "waiting", "elapsed"}, lastError : Codes ]

Attempt == [job : JobIds, run : Nat]
Snapshot == [JobIds -> Statuses \cup {"absent"}]

DrainFrame == [ kind : {"drain"}, due : SUBSET JobIds, all : SUBSET JobIds,
                inherited : SUBSET JobIds, early : Nat, awaits : BOOLEAN ]
HandlerFrame == [kind : {"handler"}, job : JobIds, run : Nat]

Report == [pending : SUBSET JobIds, interrupted : SUBSET JobIds, settled : SUBSET JobIds]
AwaitedDrain == [ wait : SUBSET Attempt, due : SUBSET JobIds,
                  inherited : SUBSET JobIds, early : Nat ]
Summary == [ran : Nat, outcomes : Nat]

NoReport == [pending |-> {}, interrupted |-> {}, settled |-> {}]
NoSummary == [ran |-> 0, outcomes |-> 0]
NoJob == [ operation |-> CHOOSE o \in Operations : TRUE, dedupeKey |-> NoKey,
           maxAttempts |-> CHOOSE b \in Budgets : TRUE, attempts |-> 0,
           status |-> "absent", wait |-> "none", lastError |-> "none" ]
NoSnapshot == [j \in JobIds |-> "absent"]

TypeOK ==
  /\ registered \subseteq Operations
  /\ jobs \in [JobIds -> Job]
  /\ created \in 0..MaxJobs
  /\ \A j \in JobIds : jobs[j].status = "absent" <=> j > created
  /\ retries \in [JobIds -> Nat]
  /\ runs \in [JobIds -> Nat]
  /\ stack \in Seq(DrainFrame \cup HandlerFrame)
  /\ inFlight \subseteq Attempt
  /\ phase \in {"idle", "cancelling", "stopped"}
  /\ aborted \in BOOLEAN
  /\ waiting \subseteq Snapshot
  /\ report \in Report
  /\ drains \subseteq AwaitedDrain
  /\ summary \in Summary

-----------------------------------------------------------------------------
(* Reading the state *)

Status(j) == jobs[j].status
Exists(j) == j <= created
Terminal(s) == IsTerminal(WorkerJob, s)
Pending(s) == s \in {"queued", "retrying"}

(* Mutant: the status is not looked at. *)
DueWhateverStatus(j) == jobs[j].wait # "waiting"

(* isDue *)
Due(j) == Pending(Status(j)) /\ jobs[j].wait # "waiting"

(* Attempts of j that have started and not settled, on the stack or suspended. *)
OnStack(j) == {i \in 1..Len(stack) : stack[i].kind = "handler" /\ stack[i].job = j}
Suspended(j) == {a \in inFlight : a.job = j}
Active(j) == Cardinality(OnStack(j)) + Cardinality(Suspended(j))

Top == stack[Len(stack)]
Below == SubSeq(stack, 1, Len(stack) - 1)

(* Who may call the framework now: the event loop, or a handler on top of the stack. *)
CanCall ==
  stack # <<>> => ReentrantHandlers /\ Len(stack) < MaxDepth /\ Top.kind = "handler"

-----------------------------------------------------------------------------
(* Job records *)

(* move *)
Move(job, event) == [job EXCEPT !.status = Resolve(WorkerJob, @, event)]

(* Mutants: a failed attempt leaves the job running; the budget is one too large. *)
FailedStaysRunning(job) == [job EXCEPT !.lastError = "thrown", !.wait = "waiting"]
FailedOneMore(job) ==
  LET failed == [job EXCEPT !.lastError = "thrown"]
  IN IF job.attempts > job.maxAttempts
     THEN Move(failed, "exhaust")
     ELSE [Move(failed, "fail") EXCEPT !.wait = "waiting"]

(* handleFailure; nextAttemptAt is written whether or not the move was legal. *)
Failed(job) ==
  LET failed == [job EXCEPT !.lastError = "thrown"]
  IN IF job.attempts >= job.maxAttempts
     THEN Move(failed, "exhaust")
     ELSE [Move(failed, "fail") EXCEPT !.wait = "waiting"]

(* The abort branch of settle: neither a success nor a fault. *)
Cancelled(job) ==
  LET cancelled == [job EXCEPT !.lastError = "cancelled"]
  IN Move(cancelled, IF job.attempts >= job.maxAttempts THEN "exhaust" ELSE "fail")

(* The success branch of settle; lastError is cleared even if the move is refused. *)
Succeeded(job) == [Move(job, "succeed") EXCEPT !.lastError = "none"]

(* Mutant: a handler that returned has succeeded, aborted or not. *)
SettledByOutcome(job, outcome) ==
  IF outcome = "returned" THEN Succeeded(job)
  ELSE IF aborted THEN Cancelled(job) ELSE Failed(job)

(* settle *)
Settled(job, outcome) ==
  IF aborted THEN Cancelled(job)
  ELSE IF outcome = "returned" THEN Succeeded(job) ELSE Failed(job)

(* Mutant: a job without a handler has nothing to do and is done. *)
UnregisteredIsDone(job) == Move(Move(job, "start"), "succeed")

(* The branch of runJob for an operation without a handler. *)
Unregistered(job) == [Move(job, "dead_letter") EXCEPT !.lastError = "unregistered"]

-----------------------------------------------------------------------------
(***************************************************************************)
(* runJob, started from a caller whose stack (after the call) is below:    *)
(* the attempt is counted, an unregistered operation is dead-lettered on   *)
(* the spot, and otherwise the handler is on the stack whether or not the  *)
(* "start" move was accepted.                                              *)
(***************************************************************************)
RunJob(j, below) ==
  LET counted == [jobs[j] EXCEPT !.attempts = @ + 1]
  IN IF counted.operation \in registered
     THEN /\ jobs' = [jobs EXCEPT ![j] = Move(counted, "start")]
          /\ runs' = [runs EXCEPT ![j] = @ + 1]
          /\ stack' = Append(below, [kind |-> "handler", job |-> j, run |-> runs[j] + 1])
     ELSE /\ jobs' = [jobs EXCEPT ![j] = Unregistered(counted)]
          /\ stack' = below
          /\ runs' = runs

-----------------------------------------------------------------------------
(* Filling the queue *)

Register(op) ==
  /\ CanCall
  /\ op \notin registered
  /\ registered' = registered \cup {op}
  /\ UNCHANGED <<jobs, created, retries, callVars, stopVars, drainVars>>

(* findingDedupe *)
Duplicates(key) ==
  {j \in JobIds : Exists(j) /\ key # NoKey /\ jobs[j].dedupeKey = key /\ Pending(Status(j))}

NewJob(op, key, max, delayed) ==
  [ operation |-> op, dedupeKey |-> key, maxAttempts |-> max, attempts |-> 0,
    status |-> WorkerJob.initial, wait |-> IF delayed THEN "waiting" ELSE "none",
    lastError |-> "none" ]

Enqueue(op, key, max, delayed) ==
  /\ CanCall
  /\ created < MaxJobs
  /\ Duplicates(key) = {}
  /\ jobs' = [jobs EXCEPT ![created + 1] = NewJob(op, key, max, delayed)]
  /\ created' = created + 1
  /\ UNCHANGED <<registered, retries, callVars, stopVars, drainVars>>

(* The clock passes a job's nextAttemptAt. *)
Elapse(j) ==
  /\ jobs[j].wait = "waiting"
  /\ jobs' = [jobs EXCEPT ![j].wait = "elapsed"]
  /\ UNCHANGED <<registered, created, retries, callVars, stopVars, drainVars>>

-----------------------------------------------------------------------------
(* Running jobs *)

Awaiting == Cardinality(drains) + Cardinality({i \in 1..Len(stack) :
              stack[i].kind = "drain" /\ stack[i].awaits})

(* Entering drainDueJobs() (awaits = FALSE) or drain() (awaits = TRUE). *)
Drain(awaits) ==
  LET due == {j \in JobIds : Exists(j) /\ Due(j)}
      running == {j \in JobIds : Exists(j) /\ Status(j) = "running"}
  IN /\ CanCall
     /\ phase = "idle"
     /\ IF awaits THEN Awaiting < MaxDrains ELSE due # {}
     /\ stack' = Append(stack,
          [ kind |-> "drain", due |-> due, all |-> IF awaits THEN due ELSE {},
            inherited |-> IF awaits THEN running ELSE {}, early |-> 0, awaits |-> awaits ])
     /\ UNCHANGED <<jobVars, inFlight, runs, stopVars, drainVars>>

(* bumpSummary for a job of drain() that settled before the loop moved on. *)
CountEarly(frame) == IF frame.awaits THEN [frame EXCEPT !.early = @ + 1] ELSE frame

(* One iteration of the drain loop; the phase is not looked at again. *)
DrainStep ==
  /\ stack # <<>> /\ Top.kind = "drain"
  /\ \E j \in Top.due :
       /\ \A k \in Top.due : j <= k
       /\ LET rest == [Top EXCEPT !.due = @ \ {j}]
          IN RunJob(j, Append(Below, IF jobs[j].operation \in registered
                                     THEN rest ELSE CountEarly(rest)))
  /\ UNCHANGED <<registered, created, retries, inFlight, stopVars, drainVars>>

(* The loop is over: drainDueJobs returns, drain() awaits what is in flight. *)
DrainReturn ==
  /\ stack # <<>> /\ Top.kind = "drain" /\ Top.due = {}
  /\ stack' = Below
  /\ drains' = IF Top.awaits
               THEN drains \cup {[ wait |-> inFlight, due |-> Top.all,
                                   inherited |-> Top.inherited, early |-> Top.early ]}
               ELSE drains
  /\ UNCHANGED <<jobVars, inFlight, runs, stopVars, summary>>

(* The awaited handlers have settled: drain() counts its jobs and returns. *)
DrainResolve(d) ==
  /\ stack = <<>>
  /\ d.wait \cap inFlight = {}
  /\ drains' = drains \ {d}
  /\ LET others == d.inherited \ d.due
     IN summary' = [ ran |-> Cardinality(d.due) + Cardinality(others),
                     outcomes |-> d.early + Cardinality(d.due) + Cardinality(others) ]
  /\ UNCHANGED <<jobVars, callVars, stopVars>>

ProcessJob(j) ==
  /\ CanCall
  /\ Exists(j)
  /\ ~Terminal(Status(j))
  /\ phase = "idle"
  /\ Status(j) = "running" => ReprocessRunning
  /\ Active(j) < MaxOverlap
  /\ RunJob(j, stack)
  /\ UNCHANGED <<registered, created, retries, inFlight, stopVars, drainVars>>

(* What is left of the stack when the handler on top is done synchronously. *)
AfterSyncSettle ==
  IF Below # <<>> /\ Below[Len(Below)].kind = "drain"
  THEN [Below EXCEPT ![Len(Below)] = CountEarly(@)]
  ELSE Below

(* The handler on top returns a value that is not a promise, or throws. *)
HandlerSettles(outcome) ==
  /\ stack # <<>> /\ Top.kind = "handler"
  /\ jobs' = [jobs EXCEPT ![Top.job] = Settled(@, outcome)]
  /\ stack' = AfterSyncSettle
  /\ UNCHANGED <<registered, created, retries, inFlight, runs, stopVars, drainVars>>

(* The handler on top returns a promise. *)
HandlerSuspends ==
  /\ stack # <<>> /\ Top.kind = "handler"
  /\ inFlight' = inFlight \cup {[job |-> Top.job, run |-> Top.run]}
  /\ stack' = Below
  /\ UNCHANGED <<jobVars, runs, stopVars, drainVars>>

(* Mutant: a settled promise is not taken out of the in-flight set. *)
AsyncSettleLeaks(a, outcome) ==
  /\ stack = <<>>
  /\ inFlight' = inFlight
  /\ jobs' = [jobs EXCEPT ![a.job] = Settled(@, outcome)]
  /\ UNCHANGED <<registered, created, retries, stack, runs, stopVars, drainVars>>

(* The promise of a suspended attempt resolves or rejects. *)
AsyncSettle(a, outcome) ==
  /\ stack = <<>>
  /\ inFlight' = inFlight \ {a}
  /\ jobs' = [jobs EXCEPT ![a.job] = Settled(@, outcome)]
  /\ UNCHANGED <<registered, created, retries, stack, runs, stopVars, drainVars>>

-----------------------------------------------------------------------------
(* Operator decisions *)

RetryJob(j) ==
  /\ CanCall
  /\ Exists(j)
  /\ CanTransition(WorkerJob, Status(j), "retry")
  /\ retries[j] < MaxRetries
  /\ jobs' = [jobs EXCEPT ![j] = [Move(@, "retry") EXCEPT !.wait = "none", !.attempts = 0]]
  /\ retries' = [retries EXCEPT ![j] = @ + 1]
  /\ UNCHANGED <<registered, created, callVars, stopVars, drainVars>>

DeadLetter(j) ==
  /\ CanCall
  /\ Exists(j)
  /\ CanTransition(WorkerJob, Status(j), "dead_letter")
  /\ jobs' = [jobs EXCEPT ![j] = Move(@, "dead_letter")]
  /\ UNCHANGED <<registered, created, retries, callVars, stopVars, drainVars>>

-----------------------------------------------------------------------------
(* Stopping *)

Cancel ==
  /\ CanCall
  /\ phase = "idle"
  /\ phase' = "cancelling"
  /\ aborted' = TRUE
  /\ UNCHANGED <<jobVars, callVars, waiting, report, drainVars>>

(* Mutant: a job that was running when the abort landed is classified only *)
(* by what became of it while shutdown() waited.                           *)
ReportAfterwards(snap) ==
  LET ids == {j \in JobIds : Exists(j)}
      settled == {j \in ids : snap[j] # "absent" /\ Terminal(snap[j])}
      interrupted == {j \in ids \ settled : jobs[j].lastError = "cancelled"}
  IN [ settled |-> settled, interrupted |-> interrupted,
       pending |-> ids \ (settled \cup interrupted) ]

(* The report of a shutdown() whose atAbort snapshot is snap. *)
ReportOf(snap) ==
  LET ids == {j \in JobIds : Exists(j)}
      before(j) == IF snap[j] = "absent" THEN Status(j) ELSE snap[j]
      settled == {j \in ids : Terminal(before(j))}
      interrupted == {j \in ids \ settled :
                        before(j) = "running" \/ jobs[j].lastError = "cancelled"}
  IN [ settled |-> settled, interrupted |-> interrupted,
       pending |-> ids \ (settled \cup interrupted) ]

(***************************************************************************)
(* shutdown() takes its snapshot, cancels, and with nothing in flight      *)
(* finishes in the same call.  Otherwise it waits; the timeout may win the *)
(* race, so ShutdownResume is enabled whether or not the handlers settled. *)
(***************************************************************************)
Shutdown ==
  LET atAbort == [j \in JobIds |-> Status(j)]
  IN /\ CanCall
     /\ aborted' = (aborted \/ phase = "idle")
     /\ IF inFlight = {}
        THEN /\ phase' = "stopped"
             /\ report' = ReportOf(atAbort)
             /\ waiting' = waiting
        ELSE /\ phase' = IF phase = "idle" THEN "cancelling" ELSE phase
             /\ waiting' = waiting \cup {atAbort}
             /\ report' = report
     /\ UNCHANGED <<jobVars, callVars, drainVars>>

(* Mutant: no timeout in the race. *)
ShutdownResumeWhenQuiet(snap) ==
  /\ stack = <<>> /\ inFlight = {}
  /\ waiting' = waiting \ {snap}
  /\ phase' = "stopped"
  /\ report' = ReportOf(snap)
  /\ UNCHANGED <<jobVars, callVars, aborted, drainVars>>

ShutdownResume(snap) ==
  /\ stack = <<>>
  /\ waiting' = waiting \ {snap}
  /\ phase' = "stopped"
  /\ report' = ReportOf(snap)
  /\ UNCHANGED <<jobVars, callVars, aborted, drainVars>>

(***************************************************************************)
(* reset().  A shutdown() that is waiting goes on waiting, its snapshot    *)
(* now names no job.  A handler still suspended settles a job that nothing *)
(* refers to any more, so its attempt is dropped.  Modelled only with no   *)
(* call on the stack and no drain() awaited.                               *)
(***************************************************************************)
Reset ==
  /\ stack = <<>> /\ drains = {}
  /\ waiting # {} => ResetWhileStopping
  /\ registered' = {}
  /\ jobs' = [j \in JobIds |-> NoJob]
  /\ created' = 0
  /\ retries' = [j \in JobIds |-> 0]
  /\ runs' = [j \in JobIds |-> 0]
  /\ inFlight' = {}
  /\ phase' = "idle"
  /\ aborted' = FALSE
  /\ waiting' = {NoSnapshot : snap \in waiting}
  /\ report' = NoReport /\ summary' = NoSummary
  /\ UNCHANGED <<stack, drains>>

-----------------------------------------------------------------------------
Init ==
  /\ registered = {}
  /\ jobs = [j \in JobIds |-> NoJob]
  /\ created = 0
  /\ retries = [j \in JobIds |-> 0]
  /\ runs = [j \in JobIds |-> 0]
  /\ stack = <<>>
  /\ inFlight = {}
  /\ phase = "idle" /\ aborted = FALSE
  /\ waiting = {} /\ report = NoReport
  /\ drains = {} /\ summary = NoSummary

(* The handler on top of the stack ends its synchronous part. *)
HandlerEnds ==
  \/ \E outcome \in {"returned", "threw"} : HandlerSettles(outcome)
  \/ HandlerSuspends

(* A suspended attempt of job j settles. *)
Settles(j) ==
  \E a \in Suspended(j), outcome \in {"returned", "threw"} : AsyncSettle(a, outcome)

(* Everything but new jobs and reset(). *)
Advance ==
  \/ \E op \in Operations : Register(op)
  \/ \E awaits \in BOOLEAN : Drain(awaits)
  \/ DrainStep
  \/ DrainReturn
  \/ \E d \in drains : DrainResolve(d)
  \/ HandlerEnds
  \/ \E j \in JobIds : \/ Elapse(j) \/ ProcessJob(j) \/ Settles(j)
                       \/ RetryJob(j) \/ DeadLetter(j)
  \/ Cancel
  \/ Shutdown
  \/ \E snap \in waiting : ShutdownResume(snap)

Next ==
  \/ \E op \in Operations, key \in DedupeKeys \cup {NoKey}, max \in Budgets,
        delayed \in BOOLEAN : Enqueue(op, key, max, delayed)
  \/ Advance
  \/ Reset

Spec == Init /\ [][Next]_vars

(***************************************************************************)
(* What the platform owes: a call that was made runs on, an awaited result *)
(* is delivered, time passes, a timer fires.                               *)
(***************************************************************************)
PlatformFairness ==
  /\ WF_vars(DrainStep) /\ WF_vars(DrainReturn) /\ WF_vars(HandlerEnds)
  /\ SF_vars(\E d \in drains : DrainResolve(d))
  /\ SF_vars(\E snap \in waiting : ShutdownResume(snap))
  /\ \A j \in JobIds : WF_vars(Elapse(j))

(* What the user of the framework owes: the promise of a handler settles,  *)
(* and due work is drained again and again.                                *)
UserFairness ==
  /\ \A j \in JobIds : SF_vars(Settles(j))
  /\ SF_vars(Drain(FALSE))

PlatformSpec == Spec /\ PlatformFairness

-----------------------------------------------------------------------------
(* Safety *)

(***************************************************************************)
(* The handlers of one job never overlap, whether on the stack or waiting  *)
(* on a promise (drain, processJob).                                       *)
(***************************************************************************)
OneHandlerPerJob == \A j \in JobIds : Active(j) <= 1

(***************************************************************************)
(* A job is "running" only while an attempt of it is active, so nothing    *)
(* stays "running" with nobody left to settle it (runJob, settle).         *)
(***************************************************************************)
RunningIsActive == \A j \in JobIds : Status(j) = "running" => Active(j) >= 1

(***************************************************************************)
(* The retry budget: over its life the handler of a job is invoked at most *)
(* maxAttempts times per manual retry plus once more maxAttempts times,    *)
(* and a job that is still to run has attempts left (handleFailure).       *)
(***************************************************************************)
WithinBudget ==
  \A j \in JobIds : Exists(j) =>
    /\ runs[j] <= jobs[j].maxAttempts * (retries[j] + 1)
    /\ Pending(Status(j)) => jobs[j].attempts < jobs[j].maxAttempts

(* A settled job keeps its status for good (the worker_job table). *)
TerminalAbsorbing ==
  [][\A j \in JobIds : Terminal(Status(j)) => Status(j)' \in {Status(j), "absent"}]_vars

(***************************************************************************)
(* The handler of a settled job is never invoked again                     *)
(* (processJob, drainDueJobs).                                             *)
(***************************************************************************)
SettledNeverRuns ==
  [][\A j \in JobIds : Terminal(Status(j)) => runs[j]' <= runs[j]]_vars

(***************************************************************************)
(* No attempt that settles after the abort is a success (settle).          *)
(***************************************************************************)
NoSuccessAfterAbort ==
  [][aborted => \A j \in JobIds : Status(j)' = "succeeded" => Status(j) = "succeeded"]_vars

(* Once the framework is cancelled no handler is invoked (drain, processJob). *)
NoStartAfterAbort ==
  [][aborted => \A j \in JobIds : runs[j]' <= runs[j]]_vars

(***************************************************************************)
(* The shutdown report tells the truth at the moment it is made: a pending *)
(* job has no handler at work, an interrupted one did not succeed and a    *)
(* settled one is settled (shutdown).                                      *)
(***************************************************************************)
ReportSound ==
  [][report' # report =>
       /\ \A j \in report'.pending : Active(j)' = 0
       /\ \A j \in report'.interrupted : Status(j)' # "succeeded"
       /\ \A j \in report'.settled : Terminal(Status(j)')]_vars

(* The jobs a shutdown() reports as pending are queued or retrying (shutdown). *)
PendingCanRun ==
  [][report' # report => \A j \in report'.pending : Pending(Status(j)')]_vars

(***************************************************************************)
(* The recorded error of a dead-lettered job is kept (settle, deadLetter). *)
(***************************************************************************)
DeadLetterErrorKept ==
  [][\A j \in JobIds :
       Status(j) = "dead_lettered" /\ Status(j)' = "dead_lettered"
         => jobs[j].lastError \in {"none", jobs[j].lastError'}]_vars

(* The summary of drain() counts one outcome for each job it ran. *)
SummaryIsFinal == summary.outcomes = summary.ran

(* The queue leaves "idle" only with an aborted signal (cancel, reset). *)
IdleUntilCancelled == [][phase = "idle" /\ phase' # "idle" => aborted']_vars

-----------------------------------------------------------------------------
(* Liveness *)

(***************************************************************************)
(* If handlers settle and due work is drained, every job is settled unless *)
(* the framework is stopped or reset first (drainDueJobs, handleFailure).  *)
(***************************************************************************)
EveryJobSettles ==
  UserFairness =>
    \A j \in JobIds : Pending(Status(j)) ~> (Terminal(Status(j)) \/ aborted \/ ~Exists(j))

(***************************************************************************)
(* A shutdown() finishes although handlers ignore the signal and never     *)
(* settle: nothing is assumed of them there.  If they settle, an awaited   *)
(* drain() returns although other work is started, cancelled or shut down  *)
(* while it waits (shutdown, drain).                                       *)
(***************************************************************************)
AwaitedCallsReturn ==
  /\ (waiting # {}) ~> (phase # "cancelling")
  /\ UserFairness => ((drains # {}) ~> (drains = {}))
=============================================================================
