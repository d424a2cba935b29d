----------------------- MODULE WorkerQueueDiscipline -----------------------
(***************************************************************************)
(* What the worker queue guarantees to disciplined users: handlers do not  *)
(* call the framework while they are on the stack, and nobody reprocesses  *)
(* a job that is running.  Awaiting a promise is allowed, so any number of *)
(* handlers may be in flight and settle in any order, and operators may    *)
(* retry, dead-letter, cancel, shut down and reset at any time.            *)
(***************************************************************************)
EXTENDS WorkerQueueProofs

(***************************************************************************)
(* The inductive invariant.  The stack is a handler, or a drain loop with  *)
(* at most one handler on it, and exists only while the framework is idle; *)
(* jobs that a loop is still to run are pending; the job of a handler on   *)
(* the stack is running and has no suspended attempt; a suspended attempt  *)
(* is the only one of its job, which is running or was dead-lettered       *)
(* meanwhile; a running job has an attempt; the budget is respected.       *)
(***************************************************************************)
StackShape ==
  /\ Len(stack) <= 2
  /\ Len(stack) = 2 => stack[1].kind = "drain" /\ stack[2].kind = "handler"
  /\ stack # <<>> => phase = "idle"
  /\ aborted => phase # "idle"

DueArePending ==
  \A i \in 1..Len(stack) : stack[i].kind = "drain" =>
    \A j \in stack[i].due : Pending(Status(j))

HandlerIsRunning ==
  \A i \in 1..Len(stack) : stack[i].kind = "handler" =>
    /\ Status(stack[i].job) = "running"
    /\ \A a \in inFlight : a.job # stack[i].job

SuspendedIsAlone ==
  /\ \A a \in inFlight : Status(a.job) \in {"running", "dead_lettered"}
  /\ \A a, b \in inFlight : a.job = b.job => a = b

RunningHasAttempt ==
  \A j \in JobIds : Status(j) = "running" =>
    \/ \E i \in 1..Len(stack) : stack[i].kind = "handler" /\ stack[i].job = j
    \/ \E a \in inFlight : a.job = j

BudgetLeft ==
  \A j \in JobIds :
    /\ jobs[j].attempts <= jobs[j].maxAttempts
    /\ Pending(Status(j)) => jobs[j].attempts < jobs[j].maxAttempts

DInv ==
  /\ TypeOK /\ StackShape /\ DueArePending /\ HandlerIsRunning
  /\ SuspendedIsAlone /\ RunningHasAttempt /\ BudgetLeft

-----------------------------------------------------------------------------
(* A pending job starts, or is dead-lettered for want of a handler (runJob). *)
LEMMA PendingMoves ==
  ASSUME NEW s, Pending(s)
  PROVE  /\ Resolve(WorkerJob, s, "start") = "running"
         /\ Resolve(WorkerJob, s, "dead_letter") = "dead_lettered"
<1>1. /\ <<s, "start", "running">> \in WorkerJob.rules
      /\ <<s, "dead_letter", "dead_lettered">> \in WorkerJob.rules
  BY DEF Pending, WorkerJob
<1>. QED BY <1>1, ResolveRule

(***************************************************************************)
(* An attempt of a running job settles it or, while the budget lasts,      *)
(* sends it to "retrying" (settle, handleFailure).                         *)
(***************************************************************************)
LEMMA RunningSettles ==
  ASSUME NEW job \in Job, NEW outcome, job.status = "running", job.attempts <= job.maxAttempts
  PROVE  /\ Settled(job, outcome).status \in {"succeeded", "dead_lettered", "retrying"}
         /\ Settled(job, outcome).status = "retrying" => job.attempts < job.maxAttempts
<1>1. /\ Resolve(WorkerJob, "running", "succeed") = "succeeded"
      /\ Resolve(WorkerJob, "running", "exhaust") = "dead_lettered"
      /\ Resolve(WorkerJob, "running", "fail") = "retrying"
  <2>1. /\ <<"running", "succeed", "succeeded">> \in WorkerJob.rules
        /\ <<"running", "exhaust", "dead_lettered">> \in WorkerJob.rules
        /\ <<"running", "fail", "retrying">> \in WorkerJob.rules
    BY DEF WorkerJob
  <2>. QED BY <2>1, ResolveRule
<1>2. job.attempts \in Nat /\ job.maxAttempts \in Nat
  BY WorkerQueueConstants, Zenon DEF Job
<1>3. Succeeded(job).status = "succeeded"
  BY <1>1, MoveJob DEF Succeeded, SameJob, Job
<1>4. /\ Failed(job).status \in {"dead_lettered", "retrying"}
      /\ Failed(job).status = "retrying" => job.attempts < job.maxAttempts
  <2>. DEFINE failed == [job EXCEPT !.lastError = "thrown"]
  <2>1. failed \in Job /\ failed.status = "running"
    BY DEF Job, Codes
  <2>. HIDE DEF failed
  <2>2. \A e : /\ Move(failed, e) \in Job
               /\ Move(failed, e).status = Resolve(WorkerJob, "running", e)
    BY <2>1, MoveJob DEF SameJob
  <2>3. \A e : [Move(failed, e) EXCEPT !.wait = "waiting"].status = Resolve(WorkerJob, "running", e)
    BY <2>2 DEF Job
  <2>4. Failed(job) = IF job.attempts >= job.maxAttempts THEN Move(failed, "exhaust")
                      ELSE [Move(failed, "fail") EXCEPT !.wait = "waiting"]
    BY DEF Failed, failed
  <2>. QED BY <1>1, <1>2, <2>2, <2>3, <2>4
<1>5. /\ Cancelled(job).status \in {"dead_lettered", "retrying"}
      /\ Cancelled(job).status = "retrying" => job.attempts < job.maxAttempts
  <2>. DEFINE cancelled == [job EXCEPT !.lastError = "cancelled"]
  <2>1. cancelled \in Job /\ cancelled.status = "running"
    BY DEF Job, Codes
  <2>. HIDE DEF cancelled
  <2>2. \A e : Move(cancelled, e).status = Resolve(WorkerJob, "running", e)
    BY <2>1, MoveJob
  <2>3. Cancelled(job) = Move(cancelled, IF job.attempts >= job.maxAttempts THEN "exhaust" ELSE "fail")
    BY DEF Cancelled, cancelled
  <2>. QED BY <1>1, <1>2, <2>2, <2>3
<1>. QED BY <1>3, <1>4, <1>5 DEF Settled

(* Without re-entrancy only the event loop calls the framework. *)
LEMMA OnlyTheLoopCalls ==
  ASSUME ~ReentrantHandlers, CanCall
  PROVE  stack = <<>>
BY DEF CanCall

(***************************************************************************)
(* Running a pending job from the event loop or from a drain loop          *)
(* (runJob called by processJob, drainDueJobs, drain).                     *)
(***************************************************************************)
LEMMA DisciplinedRun ==
  ASSUME DInv, TypeOK', NEW j \in JobIds, Pending(Status(j)), NEW below \in Seq(Frame),
         RunJob(j, below), inFlight' = inFlight, phase' = phase, aborted' = aborted,
         phase = "idle", Len(below) <= 1,
         Len(below) = 1 => below[1].kind = "drain",
         \A i \in 1..Len(below) : \A k \in below[i].due :
           k \in JobIds /\ k # j /\ Pending(Status(k)),
         \A i \in 1..Len(stack) : stack[i].kind = "drain"
  PROVE  DInv'
<1>. DEFINE counted == [jobs[j] EXCEPT !.attempts = @ + 1]
<1>1. jobs \in [JobIds -> Job] /\ inFlight \subseteq Attempt
  BY DEF DInv, TypeOK
<1>2. Status(j) \in {"queued", "retrying"} /\ jobs[j].attempts < jobs[j].maxAttempts
  BY DEF Pending, DInv, BudgetLeft
<1>3. \A a \in inFlight : a.job \in JobIds /\ a.job # j
  BY <1>1, <1>2 DEF DInv, SuspendedIsAlone, Attempt
<1>4. ASSUME NEW new \in Job, jobs' = [jobs EXCEPT ![j] = new]
      PROVE  /\ Status(j)' = new.status /\ jobs'[j] = new
             /\ \A k \in JobIds \ {j} : jobs'[k] = jobs[k] /\ Status(k)' = Status(k)
  BY <1>1, <1>4 DEF Status
<1>5. jobs[j].attempts \in Nat /\ jobs[j].maxAttempts \in Nat
  BY <1>1, WorkerQueueConstants, Zenon DEF Job
<1>6. /\ SameJob(jobs[j], Move(counted, "start")) /\ SameJob(jobs[j], Unregistered(counted))
      /\ Move(counted, "start").attempts = jobs[j].attempts + 1
      /\ Unregistered(counted).attempts = jobs[j].attempts + 1
      /\ Move(counted, "start").status = Resolve(WorkerJob, jobs[j].status, "start")
      /\ Unregistered(counted).status = Resolve(WorkerJob, jobs[j].status, "dead_letter")
  <2>1. jobs[j] \in Job
    BY <1>1
  <2>. QED BY <2>1, CountedJob, Zenon
<1>7. /\ Resolve(WorkerJob, jobs[j].status, "start") = "running"
      /\ Resolve(WorkerJob, jobs[j].status, "dead_letter") = "dead_lettered"
  BY PendingMoves DEF Status
<1>. HIDE DEF counted
<1>8. Len(below) \in Nat
  OBVIOUS
<1>9. Len(below) \in {0, 1}
  BY <1>8
<1>10. CASE counted.operation \in registered
  <2>. DEFINE new == Move(counted, "start")
              frame == [kind |-> "handler", job |-> j, run |-> runs[j] + 1]
  <2>1. jobs' = [jobs EXCEPT ![j] = new] /\ stack' = Append(below, frame)
    BY <1>10 DEF RunJob, counted
  <2>2. /\ new \in Job /\ new.status = "running" /\ new.attempts = jobs[j].attempts + 1
        /\ new.maxAttempts = jobs[j].maxAttempts
    BY <1>6, <1>7 DEF SameJob
  <2>. HIDE DEF new
  <2>3. frame.kind = "handler" /\ frame.job = j
    OBVIOUS
  <2>. HIDE DEF frame
  <2>4. /\ Len(stack') = Len(below) + 1 /\ stack'[Len(below) + 1] = frame
        /\ \A i \in 1..Len(below) : stack'[i] = below[i]
    BY <2>1
  <2>5. Len(below) \in {0, 1}
    BY <1>9
  <2>6. /\ Status(j)' = "running" /\ jobs'[j] = new
        /\ \A k \in JobIds \ {j} : jobs'[k] = jobs[k] /\ Status(k)' = Status(k)
    BY <1>4, <2>1, <2>2, Zenon
  <2>7. StackShape'
    BY <2>3, <2>4, <2>5 DEF DInv, StackShape
  <2>8. DueArePending'
    BY <2>3, <2>4, <2>5, <2>6 DEF DueArePending
  <2>9. HandlerIsRunning'
    BY <1>3, <2>3, <2>4, <2>5, <2>6 DEF HandlerIsRunning
  <2>10. SuspendedIsAlone'
    BY <1>3, <2>6 DEF DInv, SuspendedIsAlone
  <2>11. RunningHasAttempt'
    <3>1. Len(below) + 1 \in 1..Len(stack')
      BY <2>4, <2>5
    <3>2. \A k \in JobIds \ {j} : Status(k) = "running" => \E a \in inFlight : a.job = k
      BY DEF DInv, RunningHasAttempt
    <3>. QED BY <2>3, <2>4, <2>6, <3>1, <3>2 DEF RunningHasAttempt
  <2>12. BudgetLeft'
    <3>1. /\ jobs'[j].attempts <= jobs'[j].maxAttempts
          /\ ~Pending(Status(j)')
      BY <1>2, <1>5, <2>2, <2>6 DEF Pending
    <3>2. \A k \in JobIds \ {j} : /\ jobs'[k].attempts <= jobs'[k].maxAttempts
                                  /\ Pending(Status(k)') => jobs'[k].attempts < jobs'[k].maxAttempts
      BY <2>6 DEF DInv, BudgetLeft
    <3>. QED BY <3>1, <3>2 DEF BudgetLeft
  <2>. QED BY <2>7, <2>8, <2>9, <2>10, <2>11, <2>12 DEF DInv
<1>11. CASE counted.operation \notin registered
  <2>. DEFINE new == Unregistered(counted)
  <2>1. jobs' = [jobs EXCEPT ![j] = new] /\ stack' = below
    BY <1>11 DEF RunJob, counted
  <2>2. /\ new \in Job /\ new.status = "dead_lettered" /\ new.attempts = jobs[j].attempts + 1
        /\ new.maxAttempts = jobs[j].maxAttempts
    BY <1>6, <1>7 DEF SameJob
  <2>. HIDE DEF new
  <2>3. Len(below) \in {0, 1}
    BY <1>9
  <2>4. /\ Status(j)' = "dead_lettered" /\ jobs'[j] = new
        /\ \A k \in JobIds \ {j} : jobs'[k] = jobs[k] /\ Status(k)' = Status(k)
    BY <1>4, <2>1, <2>2, Zenon
  <2>5. StackShape'
    BY <2>1, <2>3 DEF DInv, StackShape
  <2>6. DueArePending'
    BY <2>1, <2>3, <2>4 DEF DueArePending
  <2>7. HandlerIsRunning'
    BY <2>1, <2>3 DEF HandlerIsRunning
  <2>8. SuspendedIsAlone'
    BY <1>3, <2>4 DEF DInv, SuspendedIsAlone
  <2>9. RunningHasAttempt'
    <3>1. \A k \in JobIds \ {j} : Status(k) = "running" => \E a \in inFlight : a.job = k
      BY DEF DInv, RunningHasAttempt
    <3>. QED BY <2>4, <3>1 DEF RunningHasAttempt
  <2>10. BudgetLeft'
    <3>1. jobs'[j].attempts <= jobs'[j].maxAttempts /\ ~Pending(Status(j)')
      BY <1>2, <1>5, <2>2, <2>4 DEF Pending
    <3>2. \A k \in JobIds \ {j} : /\ jobs'[k].attempts <= jobs'[k].maxAttempts
                                  /\ Pending(Status(k)') => jobs'[k].attempts < jobs'[k].maxAttempts
      BY <2>4 DEF DInv, BudgetLeft
    <3>. QED BY <3>1, <3>2 DEF BudgetLeft
  <2>. QED BY <2>5, <2>6, <2>7, <2>8, <2>9, <2>10 DEF DInv
<1>. QED BY <1>10, <1>11

(***************************************************************************)
(* An attempt of job j that was running or dead-lettered settles; it is    *)
(* the only attempt of j and is gone afterwards (settle).                  *)
(***************************************************************************)
LEMMA DisciplinedSettle ==
  ASSUME DInv, NEW j \in JobIds, NEW outcome, Status(j) \in {"running", "dead_lettered"},
         jobs'[j] = Settled(jobs[j], outcome),
         \A k \in JobIds \ {j} : jobs'[k] = jobs[k]
  PROVE  /\ Status(j)' \notin {"running", "absent"}
         /\ \A k \in JobIds \ {j} : Status(k)' = Status(k)
         /\ BudgetLeft'
<1>1. jobs \in [JobIds -> Job] /\ jobs[j] \in Job
  BY DEF DInv, TypeOK
<1>. DEFINE new == Settled(jobs[j], outcome)
<1>2. /\ SameJob(jobs[j], new) /\ new.attempts = jobs[j].attempts
  BY <1>1, SettledJob
<1>3. jobs[j].attempts <= jobs[j].maxAttempts
  BY DEF DInv, BudgetLeft
<1>4. /\ new.status \in {"succeeded", "dead_lettered", "retrying"}
      /\ new.status = "retrying" => jobs[j].attempts < jobs[j].maxAttempts
  <2>1. CASE jobs[j].status = "running"
    BY <1>1, <1>3, <2>1, RunningSettles
  <2>2. CASE jobs[j].status = "dead_lettered"
    BY <1>2, <2>2 DEF SameJob
  <2>. QED BY <2>1, <2>2 DEF Status
<1>5. jobs'[j] = new
  OBVIOUS
<1>. HIDE DEF new
<1>6. /\ jobs'[j] = new
      /\ \A k \in JobIds \ {j} : jobs'[k] = jobs[k] /\ Status(k)' = Status(k)
  BY <1>5 DEF Status
<1>7. BudgetLeft'
  <2>1. /\ jobs'[j].attempts <= jobs'[j].maxAttempts
        /\ Pending(Status(j)') => jobs'[j].attempts < jobs'[j].maxAttempts
    BY <1>2, <1>3, <1>4, <1>6 DEF SameJob, Pending, Status
  <2>2. \A k \in JobIds \ {j} : /\ jobs'[k].attempts <= jobs'[k].maxAttempts
                                /\ Pending(Status(k)') => jobs'[k].attempts < jobs'[k].maxAttempts
    BY <1>6 DEF DInv, BudgetLeft
  <2>. QED BY <2>1, <2>2 DEF BudgetLeft
<1>. QED BY <1>4, <1>6, <1>7 DEF Status

(***************************************************************************)
(* Operator decisions and enqueueing write one job from the event loop     *)
(* while no attempt of it is made to vanish or appear (enqueue, retryJob,  *)
(* deadLetter).                                                            *)
(***************************************************************************)
LEMMA DisciplinedWrite ==
  ASSUME DInv, TypeOK', stack = <<>>, NEW j \in JobIds, NEW new,
         jobs' = [jobs EXCEPT ![j] = new],
         stack' = stack, inFlight' = inFlight, phase' = phase, aborted' = aborted,
         new.status # "running",
         Status(j) \in {"running", "dead_lettered"} => new.status = "dead_lettered",
         new.attempts <= new.maxAttempts,
         Pending(new.status) => new.attempts < new.maxAttempts
  PROVE  DInv'
<1>1. jobs \in [JobIds -> Job] /\ inFlight \subseteq Attempt
  BY DEF DInv, TypeOK
<1>2. /\ jobs'[j] = new /\ Status(j)' = new.status
      /\ \A k \in JobIds \ {j} : jobs'[k] = jobs[k] /\ Status(k)' = Status(k)
  BY <1>1 DEF Status
<1>3. StackShape' /\ DueArePending' /\ HandlerIsRunning'
  BY DEF DInv, StackShape, DueArePending, HandlerIsRunning
<1>4. SuspendedIsAlone'
  <2>1. \A a \in inFlight : a.job \in JobIds
    BY <1>1 DEF Attempt
  <2>. QED BY <1>2, <2>1 DEF DInv, SuspendedIsAlone
<1>5. RunningHasAttempt'
  BY <1>2 DEF DInv, RunningHasAttempt
<1>6. BudgetLeft'
  BY <1>2 DEF DInv, BudgetLeft
<1>. QED BY <1>3, <1>4, <1>5, <1>6 DEF DInv

(* The invariant holds when the framework is created (createWorkerFramework). *)
LEMMA DisciplinedInit ==
  ASSUME Init
  PROVE  DInv
<1>1. TypeOK
  BY TypeInit
<1>2. \A j \in JobIds : Status(j) = "absent" /\ jobs[j].attempts = 0 /\ jobs[j].maxAttempts \in Nat
  <2>1. NoJob.status = "absent" /\ NoJob.attempts = 0
    BY DEF NoJob
  <2>2. NoJob.maxAttempts \in Nat
    BY WorkerQueueConstants, ZenonT(40) DEF NoJob
  <2>. QED BY <2>1, <2>2 DEF Init, Status
<1>3. StackShape /\ DueArePending /\ HandlerIsRunning /\ SuspendedIsAlone
  BY DEF Init, StackShape, DueArePending, HandlerIsRunning, SuspendedIsAlone
<1>4. RunningHasAttempt /\ BudgetLeft
  BY <1>2 DEF RunningHasAttempt, BudgetLeft, Pending
<1>. QED BY <1>1, <1>3, <1>4 DEF DInv

(* A stack of at most two frames has no, one or two frames. *)
LEMMA UpToTwo ==
  ASSUME NEW n \in Nat, n <= 2
  PROVE  n \in {0, 1, 2}
OBVIOUS

(* Every step of disciplined users preserves the invariant. *)
LEMMA DisciplinedStep ==
  ASSUME ~ReentrantHandlers, ~ReprocessRunning, DInv, [Next]_vars
  PROVE  DInv'
<1>. USE DEF vars, jobVars, callVars, stopVars, drainVars
<1>1. TypeOK /\ TypeOK'
  BY TypeStep DEF DInv
<1>2. /\ stack \in Seq(Frame) /\ jobs \in [JobIds -> Job] /\ inFlight \subseteq Attempt
      /\ Len(stack) \in {0, 1, 2} /\ (stack # <<>> <=> Len(stack) # 0)
  <2>1. stack \in Seq(Frame) /\ jobs \in [JobIds -> Job] /\ inFlight \subseteq Attempt
    BY <1>1 DEF TypeOK, Frame
  <2>2. Len(stack) \in Nat /\ (stack # <<>> <=> Len(stack) # 0)
    BY <2>1, EmptySeq
  <2>3. Len(stack) <= 2
    BY DEF DInv, StackShape
  <2>4. Len(stack) \in {0, 1, 2}
    BY <2>2, <2>3, UpToTwo, Zenon
  <2>. QED BY <2>1, <2>2, <2>4
<1>3. ASSUME jobs' = jobs, stack' = stack, inFlight' = inFlight, StackShape' PROVE DInv'
  BY <1>1, <1>3 DEF DInv, DueArePending, HandlerIsRunning, SuspendedIsAlone, RunningHasAttempt,
                    BudgetLeft, Status
<1>4. ASSUME NEW op \in Operations, Register(op) PROVE DInv'
  BY <1>3, <1>4 DEF Register, DInv, StackShape
<1>5. ASSUME NEW op \in Operations, NEW key \in DedupeKeys \cup {NoKey}, NEW max \in Budgets,
             NEW delayed \in BOOLEAN, Enqueue(op, key, max, delayed)
      PROVE  DInv'
  <2>. DEFINE new == NewJob(op, key, max, delayed)
  <2>1. new.status = "queued" /\ new.attempts = 0 /\ new.maxAttempts = max
    BY DEF NewJob, WorkerJob
  <2>2. max \in Nat \ {0}
    BY WorkerQueueConstants
  <2>3. created + 1 \in JobIds /\ Status(created + 1) = "absent"
    <3>1. created \in Nat /\ created + 1 \in JobIds
      BY <1>1, <1>5, WorkerQueueConstants DEF Enqueue, TypeOK, JobIds
    <3>2. \A j \in JobIds : jobs[j].status = "absent" <=> j > created
      BY <1>1 DEF TypeOK
    <3>. QED BY <3>1, <3>2 DEF Status
  <2>4. /\ stack = <<>> /\ jobs' = [jobs EXCEPT ![created + 1] = new]
        /\ stack' = stack /\ inFlight' = inFlight /\ phase' = phase /\ aborted' = aborted
    BY <1>5, OnlyTheLoopCalls DEF Enqueue
  <2>. HIDE DEF new
  <2>5. /\ new.status # "running" /\ new.attempts <= new.maxAttempts
        /\ new.attempts < new.maxAttempts
        /\ Status(created + 1) \in {"running", "dead_lettered"} => new.status = "dead_lettered"
    BY <2>1, <2>2, <2>3
  <2>. QED BY <1>1, <2>3, <2>4, <2>5, DisciplinedWrite, Zenon
<1>6. ASSUME NEW awaits \in BOOLEAN, Drain(awaits) PROVE DInv'
  <2>. DEFINE due == {j \in JobIds : Exists(j) /\ Due(j)}
              frame == [ kind |-> "drain", due |-> due, all |-> IF awaits THEN due ELSE {},
                         inherited |-> IF awaits
                                       THEN {j \in JobIds : Exists(j) /\ Status(j) = "running"}
                                       ELSE {},
                         early |-> 0, awaits |-> awaits ]
  <2>1. /\ stack = <<>> /\ stack' = Append(stack, frame) /\ phase = "idle"
        /\ jobs' = jobs /\ inFlight' = inFlight /\ phase' = phase /\ aborted' = aborted
    BY <1>6, OnlyTheLoopCalls DEF Drain
  <2>2. frame.kind = "drain" /\ \A j \in frame.due : Pending(Status(j))
    BY DEF Due
  <2>. HIDE DEF frame
  <2>3. Len(stack') = 1 /\ stack'[1] = frame
    BY <2>1
  <2>4. \A j \in JobIds : Status(j)' = Status(j)
    BY <2>1 DEF Status
  <2>5. StackShape' /\ DueArePending' /\ HandlerIsRunning'
    <3>1. \A j : Status(j)' = Status(j)
      BY <2>1 DEF Status
    <3>2. aborted => phase # "idle"
      BY DEF DInv, StackShape
    <3>3. StackShape'
      BY <2>1, <2>3, <3>2 DEF StackShape
    <3>4. DueArePending'
      BY <2>2, <2>3, <3>1 DEF DueArePending
    <3>5. HandlerIsRunning'
      BY <2>2, <2>3 DEF HandlerIsRunning
    <3>. QED BY <3>3, <3>4, <3>5
  <2>6. SuspendedIsAlone' /\ BudgetLeft'
    BY <2>1 DEF DInv, SuspendedIsAlone, BudgetLeft, Status
  <2>7. RunningHasAttempt'
    BY <1>2, <2>1, <2>4 DEF DInv, RunningHasAttempt
  <2>. QED BY <1>1, <2>5, <2>6, <2>7 DEF DInv
<1>7. ASSUME DrainStep PROVE DInv'
  <2>1. Top \in DrainFrame /\ Below \in Seq(Frame) /\ Len(Below) = Len(stack) - 1
    BY <1>2, <1>7, StackTop, FrameKinds DEF DrainStep
  <2>2. Len(stack) = 1 /\ Top = stack[1]
    BY <1>2, <1>7 DEF DrainStep, Top, DInv, StackShape
  <2>3. Below = <<>>
    BY <2>1, <2>2, EmptySeq
  <2>4. PICK j \in Top.due : LET rest == [Top EXCEPT !.due = @ \ {j}]
             IN RunJob(j, Append(Below, IF jobs[j].operation \in registered
                                        THEN rest ELSE CountEarly(rest)))
    BY <1>7, Zenon DEF DrainStep
  <2>. DEFINE rest == [Top EXCEPT !.due = @ \ {j}]
              frame == IF jobs[j].operation \in registered THEN rest ELSE CountEarly(rest)
  <2>5. rest \in DrainFrame /\ rest.due = Top.due \ {j} /\ rest.kind = "drain"
    BY <2>1 DEF DrainFrame
  <2>. HIDE DEF rest
  <2>6. frame \in Frame /\ frame.due = Top.due \ {j} /\ frame.kind = "drain"
    BY <2>5, CountEarlyFrame DEF Frame
  <2>7. RunJob(j, Append(Below, frame))
    BY <2>4 DEF rest
  <2>. HIDE DEF frame
  <2>8. \A k \in Top.due : k \in JobIds /\ Pending(Status(k))
    BY <1>2, <1>7, <2>1, <2>2 DEF DInv, DueArePending, DrainStep, DrainFrame
  <2>. DEFINE below == Append(Below, frame)
  <2>9. below \in Seq(Frame) /\ Len(below) = 1 /\ below[1] = frame
    BY <2>3, <2>6
  <2>10. /\ inFlight' = inFlight /\ phase' = phase /\ aborted' = aborted /\ phase = "idle"
         /\ \A i \in 1..Len(stack) : stack[i].kind = "drain"
    BY <1>2, <1>7, <2>2 DEF DrainStep, DInv, StackShape
  <2>11. RunJob(j, below)
    BY <2>7
  <2>. HIDE DEF below
  <2>12. \A i \in 1..Len(below) : \A k \in below[i].due :
           k \in JobIds /\ k # j /\ Pending(Status(k))
    BY <2>6, <2>8, <2>9
  <2>13. j \in JobIds /\ Pending(Status(j)) /\ Len(below) <= 1
         /\ (Len(below) = 1 => below[1].kind = "drain")
    BY <2>6, <2>8, <2>9
  <2>. QED BY <1>1, <2>9, <2>10, <2>11, <2>12, <2>13, DisciplinedRun, Zenon
<1>8. ASSUME NEW j \in JobIds, ProcessJob(j) PROVE DInv'
  <2>1. stack = <<>> /\ inFlight' = inFlight /\ phase' = phase /\ aborted' = aborted
        /\ phase = "idle" /\ RunJob(j, stack)
    BY <1>8, OnlyTheLoopCalls DEF ProcessJob
  <2>2. Pending(Status(j))
    <3>1. Status(j) \in Statuses /\ Status(j) \notin WorkerJob.terminal /\ Status(j) # "running"
      <4>1. Status(j) # "absent"
        BY <1>1, <1>8 DEF TypeOK, ProcessJob, Exists, Status, JobIds
      <4>. QED BY <1>2, <1>8, <4>1 DEF ProcessJob, Terminal, IsTerminal, Status, Job
    <3>. QED BY <3>1 DEF Statuses, WorkerJob, Pending
  <2>3. /\ stack \in Seq(Frame) /\ Len(stack) <= 1 /\ Len(stack) # 1
        /\ \A i \in 1..Len(stack) : FALSE
    BY <1>2, <2>1
  <2>. QED BY <1>1, <2>1, <2>2, <2>3, DisciplinedRun, ZenonT(40)
<1>9. ASSUME DrainReturn PROVE DInv'
  <2>1. Len(stack) = 1 /\ Top = stack[1]
    BY <1>2, <1>9 DEF DrainReturn, Top, DInv, StackShape
  <2>2. Below = <<>>
    BY <1>2, <1>9, <2>1, StackTop, EmptySeq DEF DrainReturn
  <2>3. /\ stack' = <<>> /\ jobs' = jobs /\ inFlight' = inFlight
        /\ phase' = phase /\ aborted' = aborted /\ stack[1].kind = "drain"
    BY <1>9, <2>1, <2>2 DEF DrainReturn
  <2>4. StackShape' /\ DueArePending' /\ HandlerIsRunning'
    BY <2>3 DEF DInv, StackShape, DueArePending, HandlerIsRunning
  <2>5. SuspendedIsAlone' /\ BudgetLeft'
    BY <2>3 DEF DInv, SuspendedIsAlone, BudgetLeft, Status
  <2>6. RunningHasAttempt'
    BY <2>1, <2>3 DEF DInv, RunningHasAttempt, Status
  <2>. QED BY <1>1, <2>4, <2>5, <2>6 DEF DInv
<1>10. ASSUME NEW d \in drains, DrainResolve(d) PROVE DInv'
  BY <1>3, <1>10 DEF DrainResolve, DInv, StackShape
<1>11. ASSUME stack # <<>>, Top.kind = "handler"
       PROVE  /\ Top.job \in JobIds /\ Status(Top.job) = "running"
              /\ \A a \in inFlight : a.job # Top.job
              /\ Len(stack) \in 1..2 /\ Top = stack[Len(stack)]
              /\ Len(stack) = 2 => stack[1].kind = "drain"
  <2>1. Top \in HandlerFrame
    BY <1>2, <1>11, StackTop, FrameKinds
  <2>2. Len(stack) \in 1..2 /\ Top = stack[Len(stack)]
    BY <1>2, <1>11 DEF Top
  <2>3. Len(stack) \in 1..Len(stack)
    BY <2>2
  <2>4. Status(Top.job) = "running" /\ \A a \in inFlight : a.job # Top.job
    BY <1>11, <2>2, <2>3 DEF DInv, HandlerIsRunning
  <2>5. Len(stack) = 2 => stack[1].kind = "drain"
    BY DEF DInv, StackShape
  <2>. QED BY <2>1, <2>2, <2>4, <2>5 DEF HandlerFrame
<1>12. ASSUME NEW outcome \in {"returned", "threw"}, HandlerSettles(outcome) PROVE DInv'
  <2>0. PICK j \in JobIds : j = Top.job
    BY <1>11, <1>12 DEF HandlerSettles
  <2>1. /\ j \in JobIds /\ Status(j) = "running" /\ (\A a \in inFlight : a.job # j)
        /\ Len(stack) \in 1..2 /\ Top = stack[Len(stack)] /\ Top.kind = "handler"
        /\ (Len(stack) = 2 => stack[1].kind = "drain")
    BY <1>11, <1>12, <2>0 DEF HandlerSettles
  <2>2. /\ jobs' = [jobs EXCEPT ![j] = Settled(jobs[j], outcome)] /\ stack' = AfterSyncSettle
        /\ inFlight' = inFlight /\ phase' = phase /\ aborted' = aborted
    BY <1>12, <2>0 DEF HandlerSettles
  <2>3. /\ stack' \in Seq(Frame) /\ Len(stack') = Len(stack) - 1
        /\ \A i \in 1..Len(stack') :
             stack'[i].kind = stack[i].kind /\ (stack[i].kind = "drain" => stack'[i].due = stack[i].due)
    BY <1>2, <1>12, <2>2, StackAfterSync DEF HandlerSettles
  <2>4. /\ Status(j)' \notin {"running", "absent"} /\ BudgetLeft'
        /\ \A k \in JobIds \ {j} : jobs'[k] = jobs[k] /\ Status(k)' = Status(k)
    <3>1. Status(j) \in {"running", "dead_lettered"}
      BY <2>1
    <3>2. jobs'[j] = Settled(jobs[j], outcome) /\ \A k \in JobIds \ {j} : jobs'[k] = jobs[k]
      BY <1>2, <2>2
    <3>3. BudgetLeft'
      BY <2>0, <3>1, <3>2, DisciplinedSettle
    <3>4. Status(j)' \notin {"running", "absent"}
      BY <2>0, <3>1, <3>2, DisciplinedSettle
    <3>5. \A k \in JobIds \ {j} : Status(k)' = Status(k)
      BY <2>0, <3>1, <3>2, DisciplinedSettle
    <3>. QED BY <3>2, <3>3, <3>4, <3>5
  <2>5. \A i \in 1..Len(stack') : i = 1 /\ Len(stack) = 2 /\ stack'[i].kind = "drain" /\ i \in 1..Len(stack)
    <3>1. PICK n \in 1..2 : n = Len(stack) /\ Len(stack') = n - 1
      BY <2>1, <2>3
    <3>2. \A i \in 1..(n - 1) : i = 1 /\ n = 2 /\ i \in 1..n
      OBVIOUS
    <3>. QED BY <2>1, <2>3, <3>1, <3>2, ZenonT(40)
  <2>6. StackShape'
    BY <2>1, <2>2, <2>3 DEF DInv, StackShape
  <2>7. DueArePending'
    <3>1. ASSUME NEW i \in 1..Len(stack'), NEW k \in stack'[i].due PROVE Pending(Status(k)')
      <4>1. k \in stack[1].due /\ 1 \in 1..Len(stack) /\ stack[1].kind = "drain"
        BY <2>3, <2>5, <3>1
      <4>2. Pending(Status(k))
        BY <4>1 DEF DInv, DueArePending
      <4>3. stack[1] \in DrainFrame
        BY <1>2, <4>1, FrameKinds, ElementOfSeq
      <4>4. k \in JobIds /\ k # j
        BY <2>1, <4>1, <4>2, <4>3 DEF DrainFrame, Pending
      <4>. QED BY <2>4, <4>2, <4>4
    <3>. QED BY <3>1 DEF DueArePending
  <2>8. HandlerIsRunning'
    BY <2>5 DEF HandlerIsRunning
  <2>9. SuspendedIsAlone'
    <3>1. \A a \in inFlight : a.job \in JobIds \ {j}
      BY <1>2, <2>1 DEF Attempt
    <3>. QED BY <2>2, <2>4, <3>1 DEF DInv, SuspendedIsAlone
  <2>10. RunningHasAttempt'
    <3>1. ASSUME NEW k \in JobIds, Status(k)' = "running" PROVE \E a \in inFlight' : a.job = k
      <4>1. k # j /\ Status(k) = "running"
        BY <2>4, <3>1
      <4>2. \A i \in 1..Len(stack) : stack[i].kind = "handler" => stack[i].job = j
        <5>1. \A i \in 1..Len(stack) : i = Len(stack) \/ (i = 1 /\ Len(stack) = 2)
          <6>1. PICK n \in 1..2 : n = Len(stack)
            BY <2>1
          <6>2. \A i \in 1..n : i = n \/ (i = 1 /\ n = 2)
            OBVIOUS
          <6>. QED BY <6>1, <6>2
        <5>. QED BY <2>0, <2>1, <5>1
      <4>. QED BY <2>2, <4>1, <4>2 DEF DInv, RunningHasAttempt
    <3>. QED BY <3>1 DEF RunningHasAttempt
  <2>. QED BY <1>1, <2>4, <2>6, <2>7, <2>8, <2>9, <2>10 DEF DInv
<1>13. ASSUME HandlerSuspends PROVE DInv'
  <2>0. PICK a \in Attempt : a = [job |-> Top.job, run |-> Top.run]
    <3>1. Top \in HandlerFrame
      BY <1>2, <1>13, StackTop, FrameKinds DEF HandlerSuspends
    <3>. QED BY <3>1, ZenonT(40) DEF HandlerFrame, Attempt
  <2>1. /\ a.job = Top.job /\ a.job \in JobIds /\ Status(a.job) = "running"
        /\ \A b \in inFlight : b.job # a.job
    BY <1>11, <1>13, <2>0 DEF HandlerSuspends, Attempt
  <2>2. /\ Len(stack) \in 1..2 /\ Top = stack[Len(stack)] /\ Top.kind = "handler"
        /\ (Len(stack) = 2 => stack[1].kind = "drain")
    BY <1>11, <1>13 DEF HandlerSuspends
  <2>3. /\ jobs' = jobs /\ stack' = Below /\ inFlight' = inFlight \cup {a}
        /\ phase' = phase /\ aborted' = aborted
    BY <1>13, <2>0 DEF HandlerSuspends
  <2>4. /\ stack' \in Seq(Frame) /\ Len(stack') = Len(stack) - 1
        /\ \A i \in 1..Len(stack') : stack'[i] = stack[i]
    BY <1>2, <1>13, <2>3, StackTop DEF HandlerSuspends
  <2>5. \A i \in 1..Len(stack') : i = 1 /\ Len(stack) = 2 /\ stack'[i].kind = "drain" /\ i \in 1..Len(stack)
    <3>1. PICK n \in 1..2 : n = Len(stack) /\ Len(stack') = n - 1
      BY <2>2, <2>4
    <3>2. \A i \in 1..(n - 1) : i = 1 /\ n = 2 /\ i \in 1..n
      OBVIOUS
    <3>. QED BY <2>2, <2>4, <3>1, <3>2, Zenon
  <2>6. \A k : Status(k)' = Status(k)
    BY <2>3 DEF Status
  <2>7. StackShape'
    BY <2>2, <2>3, <2>4 DEF DInv, StackShape
  <2>8. DueArePending' /\ HandlerIsRunning'
    BY <2>4, <2>5, <2>6 DEF DInv, DueArePending, HandlerIsRunning
  <2>9. SuspendedIsAlone'
    BY <2>1, <2>3, <2>6 DEF DInv, SuspendedIsAlone
  <2>10. RunningHasAttempt'
    <3>1. ASSUME NEW k \in JobIds, Status(k) = "running" PROVE \E b \in inFlight' : b.job = k
      <4>1. CASE k = a.job
        BY <2>3, <4>1
      <4>2. CASE k # a.job
        <5>1. \A i \in 1..Len(stack) : stack[i].kind = "handler" => stack[i].job = a.job
          <6>1. PICK n \in 1..2 : n = Len(stack)
            BY <2>2
          <6>2. \A i \in 1..n : i = n \/ (i = 1 /\ n = 2)
            OBVIOUS
          <6>. QED BY <2>1, <2>2, <6>1, <6>2
        <5>. QED BY <2>3, <3>1, <4>2, <5>1 DEF DInv, RunningHasAttempt
      <4>. QED BY <4>1, <4>2
    <3>. QED BY <2>6, <3>1 DEF RunningHasAttempt
  <2>11. BudgetLeft'
    BY <2>3, <2>6 DEF DInv, BudgetLeft
  <2>. QED BY <1>1, <2>7, <2>8, <2>9, <2>10, <2>11 DEF DInv
<1>14. ASSUME NEW j \in JobIds, Elapse(j) PROVE DInv'
  <2>1. /\ jobs' = [jobs EXCEPT ![j].wait = "elapsed"]
        /\ stack' = stack /\ inFlight' = inFlight /\ phase' = phase /\ aborted' = aborted
    BY <1>14 DEF Elapse
  <2>2. \A k \in JobIds : /\ jobs'[k].status = jobs[k].status /\ jobs'[k].attempts = jobs[k].attempts
                          /\ jobs'[k].maxAttempts = jobs[k].maxAttempts
    BY <1>2, <2>1 DEF Job
  <2>3. \A k \in JobIds : Status(k)' = Status(k)
    BY <2>2 DEF Status
  <2>4. /\ \A a \in inFlight : a.job \in JobIds
        /\ \A i \in 1..Len(stack) :
             /\ stack[i].kind = "handler" => stack[i].job \in JobIds
             /\ stack[i].kind = "drain" => \A k \in stack[i].due : k \in JobIds
    <3>1. \A i \in 1..Len(stack) : stack[i] \in Frame
      BY <1>2, ElementOfSeq
    <3>. QED BY <1>2, <3>1, FrameKinds DEF Attempt, HandlerFrame, DrainFrame
  <2>5. StackShape'
    BY <2>1 DEF DInv, StackShape
  <2>6. DueArePending' /\ HandlerIsRunning' /\ SuspendedIsAlone'
    BY <2>1, <2>3, <2>4 DEF DInv, DueArePending, HandlerIsRunning, SuspendedIsAlone
  <2>7. RunningHasAttempt' /\ BudgetLeft'
    BY <2>1, <2>2, <2>3 DEF DInv, RunningHasAttempt, BudgetLeft
  <2>. QED BY <1>1, <2>5, <2>6, <2>7 DEF DInv
<1>15. ASSUME NEW a \in inFlight, NEW outcome \in {"returned", "threw"}, AsyncSettle(a, outcome)
       PROVE  DInv'
  <2>0. PICK j \in JobIds : j = a.job
    BY <1>2 DEF Attempt
  <2>1. /\ stack = <<>> /\ stack' = stack /\ inFlight' = inFlight \ {a}
        /\ jobs' = [jobs EXCEPT ![j] = Settled(jobs[j], outcome)]
        /\ phase' = phase /\ aborted' = aborted
    BY <1>15, <2>0 DEF AsyncSettle
  <2>2. Status(j) \in {"running", "dead_lettered"} /\ \A b \in inFlight \ {a} : b.job # j
    BY <2>0 DEF DInv, SuspendedIsAlone
  <2>3. jobs'[j] = Settled(jobs[j], outcome) /\ \A k \in JobIds \ {j} : jobs'[k] = jobs[k]
    BY <1>2, <2>1
  <2>4. BudgetLeft'
    BY <2>2, <2>3, DisciplinedSettle
  <2>5. Status(j)' \notin {"running", "absent"}
    BY <2>2, <2>3, DisciplinedSettle
  <2>6. \A k \in JobIds \ {j} : Status(k)' = Status(k)
    BY <2>2, <2>3, DisciplinedSettle
  <2>7. StackShape' /\ DueArePending' /\ HandlerIsRunning'
    BY <2>1 DEF DInv, StackShape, DueArePending, HandlerIsRunning
  <2>8. SuspendedIsAlone'
    <3>1. \A b \in inFlight \ {a} : b.job \in JobIds \ {j}
      BY <1>2, <2>2 DEF Attempt
    <3>. QED BY <2>1, <2>6, <3>1 DEF DInv, SuspendedIsAlone
  <2>9. RunningHasAttempt'
    <3>1. ASSUME NEW k \in JobIds, Status(k)' = "running" PROVE \E b \in inFlight \ {a} : b.job = k
      <4>1. k # j /\ Status(k) = "running"
        BY <2>5, <2>6, <3>1
      <4>2. PICK b \in inFlight : b.job = k
        BY <2>1, <4>1 DEF DInv, RunningHasAttempt
      <4>. QED BY <2>0, <4>1, <4>2
    <3>. QED BY <2>1, <3>1 DEF RunningHasAttempt
  <2>. QED BY <1>1, <2>4, <2>7, <2>8, <2>9 DEF DInv
<1>16. ASSUME NEW j \in JobIds, RetryJob(j) PROVE DInv'
  <2>. DEFINE new == [Move(jobs[j], "retry") EXCEPT !.wait = "none", !.attempts = 0]
  <2>1. /\ stack = <<>> /\ jobs' = [jobs EXCEPT ![j] = new]
        /\ stack' = stack /\ inFlight' = inFlight /\ phase' = phase /\ aborted' = aborted
    BY <1>16, OnlyTheLoopCalls DEF RetryJob
  <2>2. Status(j) = "retrying"
    <3>1. \A r \in WorkerJob.rules : r[2] = "retry" => r[1] = "retrying"
      BY DEF WorkerJob
    <3>. QED BY <1>16, <3>1 DEF RetryJob, CanTransition
  <2>3. jobs[j] \in Job /\ jobs[j].maxAttempts \in Nat \ {0}
    BY <1>2, WorkerQueueConstants, ZenonT(40) DEF Job
  <2>4. /\ Move(jobs[j], "retry") \in Job
        /\ Move(jobs[j], "retry").status = "queued"
        /\ Move(jobs[j], "retry").maxAttempts = jobs[j].maxAttempts
    <3>1. Resolve(WorkerJob, "retrying", "retry") = "queued"
      <4>1. <<"retrying", "retry", "queued">> \in WorkerJob.rules
        BY DEF WorkerJob
      <4>. QED BY <4>1, ResolveRule
    <3>. QED BY <2>2, <2>3, <3>1, MoveJob DEF SameJob, Status
  <2>5. new.status = "queued" /\ new.attempts = 0 /\ new.maxAttempts = jobs[j].maxAttempts
    BY <2>4 DEF Job
  <2>. HIDE DEF new
  <2>6. /\ new.status # "running" /\ new.attempts <= new.maxAttempts
        /\ new.attempts < new.maxAttempts
        /\ Status(j) \in {"running", "dead_lettered"} => new.status = "dead_lettered"
    BY <2>2, <2>3, <2>5
  <2>. QED BY <1>1, <2>1, <2>6, DisciplinedWrite, Zenon
<1>17. ASSUME NEW j \in JobIds, DeadLetter(j) PROVE DInv'
  <2>. DEFINE new == Move(jobs[j], "dead_letter")
  <2>1. /\ stack = <<>> /\ jobs' = [jobs EXCEPT ![j] = new]
        /\ stack' = stack /\ inFlight' = inFlight /\ phase' = phase /\ aborted' = aborted
    BY <1>17, OnlyTheLoopCalls DEF DeadLetter
  <2>2. jobs[j] \in Job /\ jobs[j].attempts <= jobs[j].maxAttempts
    BY <1>2 DEF DInv, BudgetLeft
  <2>3. Resolve(WorkerJob, jobs[j].status, "dead_letter") = "dead_lettered"
    <3>1. \A r \in WorkerJob.rules : r[2] = "dead_letter" => r = <<r[1], "dead_letter", "dead_lettered">>
      BY DEF WorkerJob
    <3>2. PICK r \in WorkerJob.rules : r[1] = jobs[j].status /\ r[2] = "dead_letter"
      BY <1>17, Zenon DEF DeadLetter, CanTransition, Status
    <3>3. <<jobs[j].status, "dead_letter", "dead_lettered">> \in WorkerJob.rules
      BY <3>1, <3>2
    <3>. QED BY <3>3, ResolveRule
  <2>4. /\ new.status = "dead_lettered" /\ new.attempts = jobs[j].attempts
        /\ new.maxAttempts = jobs[j].maxAttempts
    BY <2>2, <2>3, MoveJob DEF SameJob
  <2>. HIDE DEF new
  <2>5. /\ new.status # "running" /\ new.attempts <= new.maxAttempts
        /\ ~Pending(new.status)
    BY <2>2, <2>4 DEF Pending
  <2>. QED BY <1>1, <2>1, <2>4, <2>5, DisciplinedWrite, Zenon
<1>18. ASSUME Cancel \/ Shutdown PROVE DInv'
  <2>1. /\ stack = <<>> /\ jobs' = jobs /\ stack' = stack /\ inFlight' = inFlight
        /\ phase' # "idle" \/ ~aborted'
    BY <1>18, OnlyTheLoopCalls DEF Cancel, Shutdown
  <2>2. StackShape'
    BY <2>1 DEF StackShape
  <2>. QED BY <1>3, <2>1, <2>2
<1>19. ASSUME NEW snap \in waiting, ShutdownResume(snap) PROVE DInv'
  <2>1. /\ stack = <<>> /\ jobs' = jobs /\ stack' = stack /\ inFlight' = inFlight
        /\ phase' = "stopped"
    BY <1>19 DEF ShutdownResume
  <2>2. StackShape'
    BY <2>1 DEF StackShape
  <2>. QED BY <1>3, <2>1, <2>2
<1>20. ASSUME Reset PROVE DInv'
  <2>1. /\ stack' = <<>> /\ inFlight' = {} /\ ~aborted'
        /\ \A j \in JobIds : jobs'[j] = NoJob
    BY <1>20 DEF Reset
  <2>2. NoJob.status = "absent" /\ NoJob.attempts = 0 /\ NoJob.maxAttempts \in Nat
    BY WorkerQueueConstants, ZenonT(40) DEF NoJob
  <2>3. StackShape' /\ DueArePending' /\ HandlerIsRunning' /\ SuspendedIsAlone'
    BY <2>1 DEF StackShape, DueArePending, HandlerIsRunning, SuspendedIsAlone
  <2>4. RunningHasAttempt' /\ BudgetLeft'
    BY <2>1, <2>2 DEF RunningHasAttempt, BudgetLeft, Pending, Status
  <2>. QED BY <1>1, <2>3, <2>4 DEF DInv
<1>21. ASSUME UNCHANGED vars PROVE DInv'
  BY <1>3, <1>21 DEF DInv, StackShape
<1>. QED
  BY <1>4, <1>5, <1>6, <1>7, <1>8, <1>9, <1>10, <1>12, <1>13, <1>14, <1>15, <1>16, <1>17, <1>18,
     <1>19, <1>20, <1>21 DEF Next, Advance, HandlerEnds, Settles, Suspended

-----------------------------------------------------------------------------
(* The invariant holds in every disciplined run. *)
THEOREM Disciplined ==
  ASSUME ~ReentrantHandlers, ~ReprocessRunning
  PROVE  Spec => []DInv
<1>1. Init => DInv
  BY DisciplinedInit
<1>2. DInv /\ [Next]_vars => DInv'
  BY DisciplinedStep
<1>. QED BY <1>1, <1>2, PTL DEF Spec

(* A set of at most one element has cardinality zero or one. *)
LEMMA AtMostOne ==
  ASSUME NEW S, \A x, y \in S : x = y
  PROVE  /\ IsFiniteSet(S)
         /\ S = {} => Cardinality(S) = 0
         /\ S # {} => Cardinality(S) = 1
<1>1. CASE S = {}
  BY <1>1, FS_EmptySet
<1>2. CASE S # {}
  <2>1. PICK x \in S : S = {x}
    BY <1>2
  <2>. QED BY <1>2, <2>1, FS_Singleton
<1>. QED BY <1>1, <1>2

(***************************************************************************)
(* Every job has at most one active attempt, and a running job has one     *)
(* (runJob, settle).                                                       *)
(***************************************************************************)
LEMMA AttemptsOfAJob ==
  ASSUME DInv, NEW j \in JobIds
  PROVE  /\ Active(j) \in 0..1
         /\ Status(j) = "running" => Active(j) = 1
<1>1. \A i, k \in OnStack(j) : i = k
  <2>1. PICK n \in Nat : n = Len(stack)
    BY LenProperties DEF DInv, TypeOK
  <2>2. n \in {0, 1, 2}
    BY <2>1, UpToTwo DEF DInv, StackShape
  <2>3. \A i \in OnStack(j) : i = n
    <3>. SUFFICES ASSUME NEW i \in 1..n, stack[i].kind = "handler" PROVE i = n
      BY <2>1 DEF OnStack
    <3>1. n = 2 => i # 1
      BY <2>1 DEF DInv, StackShape
    <3>. QED BY <2>2, <3>1
  <2>. QED BY <2>3
<1>2. \A a, b \in Suspended(j) : a = b
  BY DEF DInv, SuspendedIsAlone, Suspended
<1>3. OnStack(j) = {} \/ Suspended(j) = {}
  BY DEF DInv, HandlerIsRunning, OnStack, Suspended
<1>4. Status(j) = "running" => OnStack(j) # {} \/ Suspended(j) # {}
  BY DEF DInv, RunningHasAttempt, OnStack, Suspended
<1>. QED BY <1>1, <1>2, <1>3, <1>4, AtMostOne DEF Active

(***************************************************************************)
(* The handlers of one job never overlap, however many drains, promises    *)
(* and operator decisions interleave (drain, processJob).                  *)
(***************************************************************************)
THEOREM NoOverlap ==
  ASSUME ~ReentrantHandlers, ~ReprocessRunning
  PROVE  Spec => []OneHandlerPerJob
<1>1. DInv => OneHandlerPerJob
  BY AttemptsOfAJob DEF OneHandlerPerJob
<1>. QED BY <1>1, Disciplined, PTL

(***************************************************************************)
(* A job that says it is running has a handler that can still settle it    *)
(* (runJob, settle).                                                       *)
(***************************************************************************)
THEOREM NobodyStaysRunning ==
  ASSUME ~ReentrantHandlers, ~ReprocessRunning
  PROVE  Spec => []RunningIsActive
<1>1. DInv => RunningIsActive
  BY AttemptsOfAJob DEF RunningIsActive
<1>. QED BY <1>1, Disciplined, PTL

(***************************************************************************)
(* The handler count of a job rises only for a pending job while the       *)
(* framework is idle and not aborted (runJob and its callers).             *)
(***************************************************************************)
LEMMA HandlerStarts ==
  ASSUME ~ReentrantHandlers, ~ReprocessRunning, DInv, [Next]_vars, NEW j \in JobIds
  PROVE  runs[j]' <= runs[j] \/ (Pending(Status(j)) /\ ~aborted)
<1>1. runs \in [JobIds -> Nat] /\ jobs \in [JobIds -> Job]
  BY DEF DInv, TypeOK
<1>2. ASSUME NEW k \in JobIds, NEW below, RunJob(k, below), Pending(Status(k)), phase = "idle"
      PROVE  runs[j]' <= runs[j] \/ (Pending(Status(j)) /\ ~aborted)
  <2>1. ~aborted
    BY <1>2 DEF DInv, StackShape
  <2>2. CASE j = k
    BY <1>2, <2>1, <2>2
  <2>3. CASE j # k
    <3>1. runs'[j] = runs[j]
      BY <1>1, <1>2, <2>3 DEF RunJob
    <3>. QED BY <1>1, <3>1
  <2>. QED BY <2>2, <2>3
<1>3. ASSUME NEW k \in JobIds, ProcessJob(k) PROVE runs[j]' <= runs[j] \/ (Pending(Status(j)) /\ ~aborted)
  <2>1. Pending(Status(k))
    <3>1. Status(k) \in Statuses \/ Status(k) = "absent"
      BY <1>1 DEF Status, Job
    <3>2. Status(k) # "absent"
      BY <1>3 DEF ProcessJob, Exists, Status, DInv, TypeOK, JobIds
    <3>. QED BY <1>3, <3>1, <3>2 DEF ProcessJob, Terminal, IsTerminal, Pending, Statuses, WorkerJob
  <2>. QED BY <1>2, <1>3, <2>1 DEF ProcessJob
<1>4. ASSUME DrainStep PROVE runs[j]' <= runs[j] \/ (Pending(Status(j)) /\ ~aborted)
  <2>1. PICK k \in Top.due :
           LET rest == [Top EXCEPT !.due = @ \ {k}]
           IN RunJob(k, Append(Below, IF jobs[k].operation \in registered
                                      THEN rest ELSE CountEarly(rest)))
    BY <1>4, Zenon DEF DrainStep
  <2>2. stack # <<>> /\ Top.kind = "drain" /\ stack \in Seq(Frame)
    BY <1>4 DEF DrainStep, DInv, TypeOK, Frame
  <2>3. Len(stack) \in 1..Len(stack) /\ Top = stack[Len(stack)] /\ Top \in Frame
    <3>1. Len(stack) \in Nat /\ Len(stack) # 0
      BY <2>2, EmptySeq
    <3>2. Len(stack) \in 1..Len(stack)
      BY <3>1
    <3>. QED BY <2>2, <3>2, StackTop DEF Top
  <2>4. Pending(Status(k)) /\ phase = "idle"
    BY <2>1, <2>2, <2>3 DEF DInv, DueArePending, StackShape
  <2>5. k \in JobIds
    BY <2>1, <2>2, <2>3, FrameKinds DEF DrainFrame
  <2>. QED BY <1>2, <2>1, <2>4, <2>5
<1>5. ASSUME Reset PROVE runs[j]' <= runs[j]
  <2>1. runs'[j] = 0
    BY <1>5 DEF Reset
  <2>. QED BY <1>1, <2>1
<1>6. ASSUME runs' = runs PROVE runs[j]' <= runs[j]
  BY <1>1, <1>6
<1>7. ASSUME Next, ~DrainStep, ~Reset, ~\E k \in JobIds : ProcessJob(k) PROVE runs' = runs
  BY <1>7, Zenon DEF Next, Advance, HandlerEnds, Settles, Register, Enqueue, Drain, DrainReturn, DrainResolve,
              HandlerSettles, HandlerSuspends, AsyncSettle, Elapse, RetryJob, DeadLetter, Cancel,
              Shutdown, ShutdownResume, callVars
<1>. QED BY <1>3, <1>4, <1>5, <1>6, <1>7 DEF vars, callVars

(***************************************************************************)
(* The handler of a settled job is never invoked again                     *)
(* (processJob, drainDueJobs).                                             *)
(***************************************************************************)
THEOREM SettledJobsRest ==
  ASSUME ~ReentrantHandlers, ~ReprocessRunning
  PROVE  Spec => SettledNeverRuns
<1>1. DInv /\ [Next]_vars
        => [\A j \in JobIds : Terminal(Status(j)) => runs[j]' <= runs[j]]_vars
  <2>. SUFFICES ASSUME DInv, [Next]_vars, NEW j \in JobIds, Terminal(Status(j))
                PROVE  runs[j]' <= runs[j]
    OBVIOUS
  <2>1. ~Pending(Status(j))
    BY DEF Terminal, IsTerminal, WorkerJob, Pending
  <2>. QED BY <2>1, HandlerStarts
<1>. QED BY <1>1, Disciplined, PTL DEF Spec, SettledNeverRuns

(***************************************************************************)
(* Once cancel() or shutdown() has aborted the framework no handler is     *)
(* invoked (drain, processJob).                                            *)
(***************************************************************************)
THEOREM NothingStartsAfterAbort ==
  ASSUME ~ReentrantHandlers, ~ReprocessRunning
  PROVE  Spec => NoStartAfterAbort
<1>1. DInv /\ [Next]_vars => [aborted => \A j \in JobIds : runs[j]' <= runs[j]]_vars
  BY HandlerStarts
<1>. QED BY <1>1, Disciplined, PTL DEF Spec, NoStartAfterAbort

-----------------------------------------------------------------------------
(* The retry budget *)

(***************************************************************************)
(* Every handler invocation was paid for by a counted attempt: one of the  *)
(* current count, or one of an earlier count that a manual retry reset     *)
(* (runJob, retryJob).                                                     *)
(***************************************************************************)
RunsCounted ==
  \A j \in JobIds :
    /\ runs[j] <= jobs[j].maxAttempts * retries[j] + jobs[j].attempts
    /\ ~Exists(j) => runs[j] = 0

(* One more retry allows maxAttempts more runs. *)
LEMMA OneMoreBudget ==
  ASSUME NEW m \in Nat, NEW r \in Nat
  PROVE  m * r \in Nat /\ m * (r + 1) = m * r + m
OBVIOUS

(* The numbers the count is made of. *)
LEMMA CountsAreNumbers ==
  ASSUME NEW k \in JobIds, jobs \in [JobIds -> Job], runs \in [JobIds -> Nat],
         retries \in [JobIds -> Nat]
  PROVE  /\ jobs[k].maxAttempts \in Nat /\ retries[k] \in Nat /\ jobs[k].attempts \in Nat
         /\ runs[k] \in Nat
<1>1. jobs[k].maxAttempts \in Budgets /\ jobs[k].attempts \in Nat
  BY DEF Job
<1>2. jobs[k].maxAttempts \in Nat
  BY <1>1, WorkerQueueConstants, Zenon
<1>3. retries[k] \in Nat /\ runs[k] \in Nat
  OBVIOUS
<1>. QED BY <1>1, <1>2, <1>3

(* Which fields of the jobs the count depends on. *)
SameCount ==
  /\ runs' = runs /\ retries' = retries /\ created' = created
  /\ \A j \in JobIds : /\ jobs'[j].attempts = jobs[j].attempts
                       /\ jobs'[j].maxAttempts = jobs[j].maxAttempts

(* An invocation is counted when it is made (runJob). *)
LEMMA RunIsCounted ==
  ASSUME TypeOK, RunsCounted, NEW k \in JobIds, NEW below, RunJob(k, below), Exists(k),
         retries' = retries, created' = created
  PROVE  RunsCounted'
<1>1. jobs \in [JobIds -> Job] /\ runs \in [JobIds -> Nat] /\ retries \in [JobIds -> Nat]
  BY DEF TypeOK
<1>2. jobs[k] \in Job
  BY <1>1
<1>. DEFINE counted == [jobs[k] EXCEPT !.attempts = @ + 1]
<1>3. /\ SameJob(jobs[k], Move(counted, "start"))
      /\ Move(counted, "start").attempts = jobs[k].attempts + 1
      /\ SameJob(jobs[k], Unregistered(counted))
      /\ Unregistered(counted).attempts = jobs[k].attempts + 1
  BY <1>2, CountedJob, Zenon
<1>4. PICK new : /\ jobs' = [jobs EXCEPT ![k] = new] /\ SameJob(jobs[k], new)
                 /\ new.attempts = jobs[k].attempts + 1
  BY <1>3 DEF RunJob
<1>5. runs' = runs \/ runs' = [runs EXCEPT ![k] = runs[k] + 1]
  BY DEF RunJob
<1>6. /\ jobs'[k].attempts = jobs[k].attempts + 1 /\ jobs'[k].maxAttempts = jobs[k].maxAttempts
      /\ runs'[k] <= runs[k] + 1 /\ runs'[k] \in Nat
  BY <1>1, <1>4, <1>5 DEF SameJob
<1>7. \A j \in JobIds \ {k} : jobs'[j] = jobs[j] /\ runs'[j] = runs[j]
  BY <1>1, <1>4, <1>5
<1>8. /\ jobs[k].maxAttempts \in Nat /\ retries[k] \in Nat /\ jobs[k].attempts \in Nat
      /\ runs[k] \in Nat
  BY <1>1, CountsAreNumbers
<1>9. jobs[k].maxAttempts * retries[k] \in Nat
  BY <1>8, OneMoreBudget
<1>10. runs[k] <= jobs[k].maxAttempts * retries[k] + jobs[k].attempts
  BY DEF RunsCounted
<1>11. runs'[k] <= jobs'[k].maxAttempts * retries'[k] + jobs'[k].attempts
  <2>1. PICK p \in Nat : p = jobs[k].maxAttempts * retries[k]
    BY <1>9
  <2>2. jobs'[k].maxAttempts * retries'[k] = p
    BY <1>6, <2>1
  <2>3. runs[k] <= p + jobs[k].attempts
    BY <1>10, <2>1
  <2>4. runs'[k] <= p + (jobs[k].attempts + 1)
    BY <1>6, <1>8, <2>3
  <2>. QED BY <1>6, <2>2, <2>4
<1>12. Exists(k)'
  BY DEF Exists
<1>13. ASSUME NEW j \in JobIds, j # k
       PROVE  /\ runs'[j] <= jobs'[j].maxAttempts * retries'[j] + jobs'[j].attempts
              /\ ~Exists(j)' => runs'[j] = 0
  BY <1>7, <1>13 DEF RunsCounted, Exists
<1>. QED BY <1>11, <1>12, <1>13 DEF RunsCounted

(* A step that changes no count keeps it. *)
LEMMA CountStays ==
  ASSUME RunsCounted, SameCount
  PROVE  RunsCounted'
BY DEF RunsCounted, SameCount, Exists

(* A job that settles or moves keeps its count (settle, deadLetter). *)
LEMMA MoveKeepsCount ==
  ASSUME TypeOK, NEW k \in JobIds, NEW new, jobs' = [jobs EXCEPT ![k] = new],
         SameJob(jobs[k], new), new.attempts = jobs[k].attempts,
         runs' = runs, retries' = retries, created' = created
  PROVE  SameCount
BY DEF TypeOK, SameJob, SameCount

(* A manual retry forgets at most one budget of attempts (retryJob). *)
LEMMA RetryIsCounted ==
  ASSUME DInv, RunsCounted, NEW k \in JobIds, RetryJob(k)
  PROVE  RunsCounted'
<1>1. /\ jobs \in [JobIds -> Job] /\ runs \in [JobIds -> Nat] /\ retries \in [JobIds -> Nat]
      /\ runs' = runs /\ created' = created /\ Exists(k)
  BY DEF DInv, TypeOK, RetryJob, callVars
<1>2. PICK m : m = Move(jobs[k], "retry")
  OBVIOUS
<1>3. m \in Job /\ m.maxAttempts = jobs[k].maxAttempts
  BY <1>1, <1>2, MoveJob DEF SameJob
<1>4. PICK new : new = [m EXCEPT !.wait = "none", !.attempts = 0]
  OBVIOUS
<1>5. new.maxAttempts = jobs[k].maxAttempts /\ new.attempts = 0
  BY <1>3, <1>4 DEF Job
<1>6. jobs' = [jobs EXCEPT ![k] = new] /\ retries' = [retries EXCEPT ![k] = retries[k] + 1]
  BY <1>2, <1>4 DEF RetryJob
<1>7. /\ jobs'[k].maxAttempts = jobs[k].maxAttempts /\ jobs'[k].attempts = 0
      /\ retries'[k] = retries[k] + 1
      /\ \A j \in JobIds \ {k} : jobs'[j] = jobs[j] /\ retries'[j] = retries[j]
  BY <1>1, <1>5, <1>6
<1>8. /\ jobs[k].maxAttempts \in Nat /\ retries[k] \in Nat /\ jobs[k].attempts \in Nat
      /\ runs[k] \in Nat /\ jobs[k].attempts <= jobs[k].maxAttempts
  BY <1>1, CountsAreNumbers DEF DInv, BudgetLeft
<1>9. runs[k] <= jobs[k].maxAttempts * retries[k] + jobs[k].attempts
  BY DEF RunsCounted
<1>10. runs'[k] <= jobs'[k].maxAttempts * retries'[k] + jobs'[k].attempts
  <2>1. PICK b \in Nat, r \in Nat, p \in Nat : b = jobs[k].maxAttempts /\ r = retries[k] /\ p = b * r
    BY <1>8, OneMoreBudget
  <2>2. b * (r + 1) = p + b
    BY <2>1, OneMoreBudget
  <2>3. runs[k] <= p + jobs[k].attempts
    BY <1>9, <2>1
  <2>4. runs[k] <= (p + b) + 0
    BY <1>8, <2>1, <2>3
  <2>. QED BY <1>1, <1>7, <2>1, <2>2, <2>4
<1>11. ASSUME NEW j \in JobIds, j # k
       PROVE  /\ runs'[j] <= jobs'[j].maxAttempts * retries'[j] + jobs'[j].attempts
              /\ ~Exists(j)' => runs'[j] = 0
  BY <1>1, <1>7, <1>11 DEF RunsCounted, Exists
<1>. QED BY <1>1, <1>10, <1>11 DEF RunsCounted, Exists

(* Every step keeps the count. *)
LEMMA CountStep ==
  ASSUME ~ReentrantHandlers, ~ReprocessRunning, DInv, RunsCounted, [Next]_vars
  PROVE  RunsCounted'
<1>. USE DEF vars, jobVars, callVars, stopVars, drainVars
<1>1. TypeOK /\ stack \in Seq(Frame) /\ jobs \in [JobIds -> Job]
  BY DEF DInv, TypeOK, Frame
<1>2. ASSUME NEW op \in Operations, NEW key \in DedupeKeys \cup {NoKey}, NEW max \in Budgets,
             NEW delayed \in BOOLEAN, Enqueue(op, key, max, delayed)
      PROVE  RunsCounted'
  <2>1. PICK k \in JobIds : k = created + 1
    BY <1>1, <1>2, WorkerQueueConstants DEF Enqueue, TypeOK, JobIds
  <2>2. /\ runs' = runs /\ retries' = retries /\ created' = created + 1
        /\ jobs' = [jobs EXCEPT ![k] = NewJob(op, key, max, delayed)]
    BY <1>2, <2>1 DEF Enqueue
  <2>3. \A j \in JobIds \ {k} : jobs'[j] = jobs[j]
    BY <1>1, <2>2
  <2>4. runs[k] = 0 /\ created \in Nat
    BY <1>1, <2>1 DEF RunsCounted, Exists, TypeOK
  <2>5. jobs'[k].maxAttempts \in Nat /\ retries'[k] \in Nat /\ jobs'[k].attempts \in Nat
    <3>1. jobs'[k] \in Job
      BY <1>1, TypeStep DEF TypeOK
    <3>2. jobs'[k].maxAttempts \in Budgets /\ jobs'[k].attempts \in Nat
      BY <3>1 DEF Job
    <3>3. retries'[k] \in Nat
      BY <1>1, <2>2 DEF TypeOK
    <3>. QED BY <3>2, <3>3, WorkerQueueConstants, ZenonT(40)
  <2>6. jobs'[k].maxAttempts * retries'[k] + jobs'[k].attempts \in Nat
    <3>1. PICK m \in Nat, r \in Nat, a \in Nat :
            m = jobs'[k].maxAttempts /\ r = retries'[k] /\ a = jobs'[k].attempts
      BY <2>5
    <3>2. m * r \in Nat
      BY OneMoreBudget
    <3>. QED BY <3>1, <3>2
  <2>7. runs'[k] <= jobs'[k].maxAttempts * retries'[k] + jobs'[k].attempts /\ runs'[k] = 0
    BY <2>2, <2>4, <2>6
  <2>8. ASSUME NEW j \in JobIds, j # k
        PROVE  /\ runs'[j] <= jobs'[j].maxAttempts * retries'[j] + jobs'[j].attempts
               /\ ~Exists(j)' => runs'[j] = 0
    <3>1. ~Exists(j)' => ~Exists(j)
      BY <2>2, <2>4 DEF Exists, JobIds
    <3>. QED BY <2>2, <2>3, <2>8, <3>1, ZenonT(40) DEF RunsCounted
  <2>. QED BY <2>7, <2>8 DEF RunsCounted
<1>3. ASSUME DrainStep PROVE RunsCounted'
  <2>1. Top \in DrainFrame
    BY <1>1, <1>3, StackTop, FrameKinds DEF DrainStep
  <2>2. PICK k \in Top.due : \E below : RunJob(k, below)
    BY <1>3 DEF DrainStep
  <2>3. PICK below : RunJob(k, below)
    BY <2>2
  <2>4. k \in JobIds /\ created' = created /\ retries' = retries
    BY <1>3, <2>1 DEF DrainFrame, DrainStep
  <2>5. Pending(Status(k))
    <3>1. Len(stack) \in 1..Len(stack) /\ Top = stack[Len(stack)]
      <4>1. Len(stack) \in Nat /\ Len(stack) # 0
        BY <1>1, <1>3, EmptySeq DEF DrainStep
      <4>. QED BY <4>1 DEF Top
    <3>. QED BY <1>3, <3>1 DEF DInv, DueArePending, DrainStep
  <2>6. Exists(k)
    BY <1>1, <2>4, <2>5 DEF TypeOK, Pending, Status, Exists, JobIds
  <2>. QED BY <1>1, <2>3, <2>4, <2>6, RunIsCounted, ZenonT(40)
<1>4. ASSUME NEW k \in JobIds, ProcessJob(k) PROVE RunsCounted'
  <2>1. RunJob(k, stack) /\ Exists(k) /\ retries' = retries /\ created' = created
    BY <1>4 DEF ProcessJob
  <2>. QED BY <1>1, <2>1, RunIsCounted
<1>5. ASSUME NEW k \in JobIds, NEW outcome, jobs' = [jobs EXCEPT ![k] = Settled(jobs[k], outcome)],
             runs' = runs, retries' = retries, created' = created
      PROVE  RunsCounted'
  <2>1. PICK new : new = Settled(jobs[k], outcome)
    OBVIOUS
  <2>2. SameJob(jobs[k], new) /\ new.attempts = jobs[k].attempts
    BY <1>1, <2>1, SettledJob, Zenon
  <2>3. jobs' = [jobs EXCEPT ![k] = new]
    BY <1>5, <2>1
  <2>. QED BY <1>1, <1>5, <2>2, <2>3, MoveKeepsCount, CountStays, ZenonT(40)
<1>6. ASSUME NEW outcome, HandlerSettles(outcome) PROVE RunsCounted'
  <2>1. PICK k \in JobIds : k = Top.job
    BY <1>1, <1>6, StackTop, FrameKinds DEF HandlerSettles, HandlerFrame
  <2>2. /\ jobs' = [jobs EXCEPT ![k] = Settled(jobs[k], outcome)]
        /\ runs' = runs /\ retries' = retries /\ created' = created
    BY <1>6, <2>1 DEF HandlerSettles
  <2>. QED BY <1>5, <2>2, Zenon
<1>7. ASSUME NEW a \in inFlight, NEW outcome, AsyncSettle(a, outcome) PROVE RunsCounted'
  <2>1. PICK k \in JobIds : k = a.job
    BY <1>1 DEF TypeOK, Attempt
  <2>2. /\ jobs' = [jobs EXCEPT ![k] = Settled(jobs[k], outcome)]
        /\ runs' = runs /\ retries' = retries /\ created' = created
    BY <1>7, <2>1 DEF AsyncSettle
  <2>. QED BY <1>5, <2>2, Zenon
<1>8. ASSUME NEW k \in JobIds, Elapse(k) PROVE RunsCounted'
  <2>1. PICK new : new = [jobs[k] EXCEPT !.wait = "elapsed"]
    BY Zenon
  <2>2. SameJob(jobs[k], new) /\ new.attempts = jobs[k].attempts
    BY <1>1, <2>1, ZenonT(40) DEF SameJob, Job
  <2>3. jobs' = [jobs EXCEPT ![k] = new] /\ runs' = runs /\ retries' = retries /\ created' = created
    BY <1>8, <2>1 DEF Elapse
  <2>. QED BY <1>1, <2>2, <2>3, MoveKeepsCount, CountStays, Zenon
<1>9. ASSUME NEW k \in JobIds, DeadLetter(k) PROVE RunsCounted'
  <2>1. PICK new : new = Move(jobs[k], "dead_letter")
    OBVIOUS
  <2>2. SameJob(jobs[k], new) /\ new.attempts = jobs[k].attempts
    BY <1>1, <2>1, MoveJob
  <2>3. jobs' = [jobs EXCEPT ![k] = new] /\ runs' = runs /\ retries' = retries /\ created' = created
    BY <1>9, <2>1 DEF DeadLetter
  <2>. QED BY <1>1, <2>2, <2>3, MoveKeepsCount, CountStays, Zenon
<1>10. ASSUME Reset PROVE RunsCounted'
  <2>1. \A j \in JobIds : jobs'[j] = NoJob /\ runs'[j] = 0 /\ retries'[j] = 0
    BY <1>10 DEF Reset
  <2>2. NoJob.maxAttempts \in Nat /\ NoJob.attempts = 0
    BY WorkerQueueConstants, Zenon DEF NoJob
  <2>3. NoJob.maxAttempts * 0 = 0
    BY <2>2
  <2>. QED BY <2>1, <2>2, <2>3 DEF RunsCounted
<1>11. ASSUME \/ \E op \in Operations : Register(op)
              \/ \E awaits \in BOOLEAN : Drain(awaits)
              \/ DrainReturn
              \/ \E d \in drains : DrainResolve(d)
              \/ HandlerSuspends
              \/ Cancel
              \/ Shutdown
              \/ \E snap \in waiting : ShutdownResume(snap)
              \/ UNCHANGED vars
       PROVE  SameCount
  BY <1>11, Zenon DEF Register, Drain, DrainReturn, DrainResolve, HandlerSuspends, Cancel, Shutdown,
               ShutdownResume, SameCount
<1>12. (\E k \in JobIds : RetryJob(k)) => RunsCounted'
  BY RetryIsCounted
<1>. QED
  BY <1>2, <1>3, <1>4, <1>6, <1>7, <1>8, <1>9, <1>10, <1>11, <1>12, CountStays
     DEF Next, Advance, HandlerEnds, Settles, Suspended

(***************************************************************************)
(* The retry budget is kept whatever mix of throws, rejections, timeouts   *)
(* and manual retries a job goes through: its handler is invoked at most   *)
(* maxAttempts times for each time its count started, and a job that is    *)
(* still to run has attempts left (runJob, handleFailure, retryJob).       *)
(***************************************************************************)
THEOREM BudgetIsKept ==
  ASSUME ~ReentrantHandlers, ~ReprocessRunning
  PROVE  Spec => []WithinBudget
<1>1. Init => RunsCounted
  <2>. SUFFICES ASSUME Init PROVE RunsCounted
    OBVIOUS
  <2>1. \A j \in JobIds : jobs[j] = NoJob /\ runs[j] = 0 /\ retries[j] = 0
    BY DEF Init
  <2>2. NoJob.maxAttempts \in Nat /\ NoJob.attempts = 0
    BY WorkerQueueConstants, ZenonT(40) DEF NoJob
  <2>3. NoJob.maxAttempts * 0 = 0
    BY <2>2
  <2>. QED BY <2>1, <2>2, <2>3 DEF RunsCounted
<1>2. DInv /\ RunsCounted /\ [Next]_vars => RunsCounted'
  BY CountStep
<1>3. DInv /\ RunsCounted => WithinBudget
  <2>. SUFFICES ASSUME DInv, RunsCounted, NEW k \in JobIds
                PROVE  /\ runs[k] <= jobs[k].maxAttempts * (retries[k] + 1)
                       /\ Pending(Status(k)) => jobs[k].attempts < jobs[k].maxAttempts
    BY DEF WithinBudget
  <2>1. jobs \in [JobIds -> Job] /\ runs \in [JobIds -> Nat] /\ retries \in [JobIds -> Nat]
    BY DEF DInv, TypeOK
  <2>2. /\ jobs[k].attempts <= jobs[k].maxAttempts
        /\ Pending(Status(k)) => jobs[k].attempts < jobs[k].maxAttempts
    BY DEF DInv, BudgetLeft
  <2>3. runs[k] <= jobs[k].maxAttempts * retries[k] + jobs[k].attempts
    BY DEF RunsCounted
  <2>4. PICK m \in Nat, r \in Nat, a \in Nat, n \in Nat :
          m = jobs[k].maxAttempts /\ r = retries[k] /\ a = jobs[k].attempts /\ n = runs[k]
    BY <2>1, CountsAreNumbers
  <2>5. m * r \in Nat /\ m * (r + 1) = m * r + m
    BY OneMoreBudget
  <2>6. n <= m * r + a /\ a <= m
    BY <2>2, <2>3, <2>4
  <2>7. n <= m * (r + 1)
    <3>1. PICK p \in Nat : p = m * r
      BY <2>5
    <3>. QED BY <2>5, <2>6, <3>1
  <2>. QED BY <2>2, <2>4, <2>7, Zenon
<1>. QED BY <1>1, <1>2, <1>3, Disciplined, PTL DEF Spec

-----------------------------------------------------------------------------
(* The shutdown report *)

(* The phase and the signal agree, and whoever waits for a shutdown() has aborted (cancel). *)
StopsOnce ==
  /\ aborted <=> phase # "idle"
  /\ waiting # {} => aborted

(***************************************************************************)
(* What a snapshot taken at the abort still says while shutdown() waits: a *)
(* settled job is as it was, one that was not has not succeeded since, and *)
(* one that was pending has no handler at work (shutdown).                 *)
(***************************************************************************)
StillSays(s, j) ==
  /\ Terminal(s) => Status(j) = s
  /\ ~Terminal(s) => Status(j) # "succeeded"
  /\ Pending(s) => \A a \in inFlight : a.job # j

SnapshotsHold ==
  \A snap \in waiting : \A j \in JobIds : snap[j] # "absent" => StillSays(snap[j], j)

ShutdownInv == DInv /\ StopsOnce /\ SnapshotsHold

(* Only these steps change how far the framework has stopped. *)
LEMMA WhoStops ==
  ASSUME [Next]_vars
  PROVE  \/ UNCHANGED stopVars
         \/ Cancel \/ Shutdown \/ Reset
         \/ \E snap \in waiting : ShutdownResume(snap)
BY ZenonT(40) DEF Next, Advance, HandlerEnds, Settles, Register, Enqueue, Drain, DrainStep, DrainReturn,
       DrainResolve, HandlerSettles, HandlerSuspends, AsyncSettle, Elapse, ProcessJob, RetryJob,
       DeadLetter, vars

(* Only a handler that returns a promise is put in flight (runJob). *)
LEMMA WhoSuspends ==
  ASSUME [Next]_vars
  PROVE  inFlight' \subseteq inFlight \/ HandlerSuspends
BY Zenon DEF Next, Advance, HandlerEnds, Settles, Register, Enqueue, Drain, DrainStep, DrainReturn,
       DrainResolve, HandlerSettles, AsyncSettle, Elapse, ProcessJob, RetryJob, DeadLetter, Cancel,
       Shutdown, ShutdownResume, Reset, vars, callVars

(* While a shutdown() waits, jobs are neither started nor completed nor removed. *)
LEMMA AbortedStep ==
  ASSUME ~ReentrantHandlers, ~ReprocessRunning, ~ResetWhileStopping, ShutdownInv, [Next]_vars,
         waiting # {}
  PROVE  /\ inFlight' \subseteq inFlight
         /\ aborted' /\ phase' # "idle"
         /\ \A j \in JobIds : /\ Status(j)' = "succeeded" => Status(j) = "succeeded"
                              /\ Terminal(Status(j)) => Status(j)' = Status(j)
<1>. USE DEF vars, jobVars, callVars, stopVars, drainVars
<1>1. /\ aborted /\ phase # "idle" /\ stack = <<>> /\ TypeOK /\ TypeOK'
      /\ jobs \in [JobIds -> Job]
  BY DisciplinedStep, ZenonT(40) DEF ShutdownInv, StopsOnce, DInv, StackShape, TypeOK
<1>2. ~Reset
  BY DEF Reset
<1>3. /\ inFlight' \subseteq inFlight /\ aborted' /\ phase' # "idle"
  <2>1. inFlight' \subseteq inFlight
    BY <1>1, WhoSuspends, Zenon DEF HandlerSuspends
  <2>2. aborted' /\ phase' # "idle"
    BY <1>1, <1>2, WhoStops, ZenonT(40) DEF Cancel, Shutdown, ShutdownResume
  <2>. QED BY <2>1, <2>2
<1>4. created' \in Nat /\ created \in Nat /\ created' >= created
  <2>1. created' \in Nat /\ created \in Nat
    BY <1>1 DEF TypeOK
  <2>2. created' = created \/ created' = created + 1
    <3>1. (\E op \in Operations, key \in DedupeKeys \cup {NoKey}, max \in Budgets,
              delayed \in BOOLEAN : Enqueue(op, key, max, delayed)) => created' = created + 1
      BY DEF Enqueue
    <3>2. OneJobMoves => created' = created
      BY DEF OneJobMoves
    <3>. QED BY <1>1, <1>2, <3>1, <3>2, JobsChange, ZenonT(40)
  <2>. QED BY <2>1, <2>2
<1>5. ASSUME NEW j \in JobIds
      PROVE  /\ Status(j)' = "succeeded" => Status(j) = "succeeded"
             /\ Terminal(Status(j)) => Status(j)' = Status(j)
  <2>1. StatusStep(jobs[j], jobs'[j])
    BY <1>1, JobStep, ZenonT(40)
  <2>2. Status(j)' = "succeeded" => Status(j) = "succeeded"
    BY <1>1, <2>1 DEF StatusStep, Status
  <2>3. ASSUME Terminal(Status(j)) PROVE Status(j)' = Status(j)
    <3>1. Status(j) \in {"succeeded", "dead_lettered"}
      BY <2>3 DEF Terminal, IsTerminal, WorkerJob
    <3>2. j \in Nat /\ ~(j > created)
      BY <1>1, <3>1 DEF TypeOK, Status, JobIds
    <3>3. ~(j > created')
      BY <1>4, <3>2
    <3>4. Status(j)' # "absent"
      BY <1>1, <3>3 DEF TypeOK, Status
    <3>. QED BY <2>1, <3>1, <3>4 DEF StatusStep, Status
  <2>. QED BY <2>2, <2>3
<1>. QED BY <1>3, <1>5

(* Every step keeps what the snapshots say. *)
LEMMA ShutdownStep ==
  ASSUME ~ReentrantHandlers, ~ReprocessRunning, ~ResetWhileStopping, ShutdownInv, [Next]_vars
  PROVE  ShutdownInv'
<1>. USE DEF vars, jobVars, callVars, stopVars, drainVars
<1>1. DInv /\ DInv' /\ TypeOK
  BY DisciplinedStep DEF ShutdownInv, DInv
<1>2. ASSUME NEW snap \in waiting PROVE \A j \in JobIds : snap[j] # "absent" => StillSays(snap[j], j)'
  <2>. SUFFICES ASSUME NEW j \in JobIds, snap[j] # "absent" PROVE StillSays(snap[j], j)'
    OBVIOUS
  <2>1. StillSays(snap[j], j)
    BY <1>2 DEF ShutdownInv, SnapshotsHold
  <2>2. /\ inFlight' \subseteq inFlight
        /\ Status(j)' = "succeeded" => Status(j) = "succeeded"
        /\ Terminal(Status(j)) => Status(j)' = Status(j)
    BY <1>2, AbortedStep
  <2>. QED BY <2>1, <2>2 DEF StillSays
<1>3. ASSUME Shutdown PROVE ShutdownInv'
  <2>1. PICK now : now = [j \in JobIds |-> Status(j)]
    BY ZenonT(40)
  <2>2. /\ stack = <<>> /\ jobs' = jobs /\ inFlight' = inFlight /\ phase' # "idle"
        /\ aborted' /\ waiting' \subseteq waiting \cup {now}
    <3>1. aborted' /\ phase' # "idle"
      BY <1>3, ZenonT(40) DEF Shutdown, ShutdownInv, StopsOnce
    <3>. QED BY <1>3, <2>1, <3>1, OnlyTheLoopCalls DEF Shutdown
  <2>3. ASSUME NEW j \in JobIds PROVE StillSays(now[j], j)'
    <3>1. now[j] = Status(j) /\ Status(j)' = Status(j)
      BY <2>1, <2>2 DEF Status
    <3>2. Pending(Status(j)) => \A a \in inFlight : a.job # j
      BY <1>1 DEF DInv, SuspendedIsAlone, Pending
    <3>3. Status(j) = "succeeded" => Terminal(Status(j))
      BY DEF Terminal, IsTerminal, WorkerJob
    <3>. QED BY <2>2, <3>1, <3>2, <3>3 DEF StillSays
  <2>4. SnapshotsHold'
    BY <1>2, <2>2, <2>3 DEF SnapshotsHold
  <2>5. StopsOnce'
    BY <2>2 DEF StopsOnce
  <2>. QED BY <1>1, <2>4, <2>5 DEF ShutdownInv
<1>4. ASSUME waiting' \subseteq waiting PROVE SnapshotsHold'
  BY <1>2, <1>4 DEF SnapshotsHold
<1>5. ASSUME Reset PROVE waiting' = {} /\ ~aborted' /\ phase' = "idle"
  <2>1. waiting = {}
    BY <1>5 DEF Reset
  <2>. QED BY <1>5, <2>1 DEF Reset
<1>6. ASSUME Next, ~Shutdown, ~Reset
      PROVE  waiting' \subseteq waiting /\ (aborted' <=> phase' # "idle") /\ (aborted => aborted')
  <2>1. (aborted <=> phase # "idle") /\ (waiting # {} => aborted)
    BY DEF ShutdownInv, StopsOnce
  <2>2. CASE UNCHANGED stopVars
    BY <2>1, <2>2
  <2>3. CASE Cancel
    BY <2>1, <2>3 DEF Cancel
  <2>4. ASSUME NEW snap \in waiting, ShutdownResume(snap)
        PROVE  waiting' \subseteq waiting /\ (aborted' <=> phase' # "idle") /\ (aborted => aborted')
    <3>1. aborted /\ aborted' = aborted /\ phase' = "stopped" /\ waiting' \subseteq waiting
      BY <2>1, <2>4 DEF ShutdownResume
    <3>. QED BY <3>1
  <2>. QED BY <1>6, <2>2, <2>3, <2>4, WhoStops
<1>7. CASE Reset
  BY <1>1, <1>5, <1>7 DEF ShutdownInv, StopsOnce, SnapshotsHold
<1>8. CASE Next /\ ~Shutdown /\ ~Reset
  <2>1. StopsOnce'
    BY <1>6, <1>8 DEF ShutdownInv, StopsOnce
  <2>. QED BY <1>1, <1>4, <1>6, <1>8, <2>1 DEF ShutdownInv
<1>9. CASE UNCHANGED vars
  <2>1. StopsOnce'
    BY <1>9 DEF ShutdownInv, StopsOnce
  <2>. QED BY <1>1, <1>4, <1>9, <2>1 DEF ShutdownInv
<1>. QED BY <1>3, <1>7, <1>8, <1>9

(* A job that is neither settled nor running, and not being run, has no handler (runJob). *)
LEMMA NoAttempts ==
  ASSUME TypeOK, stack = <<>>, NEW j \in JobIds, \A a \in inFlight : a.job # j
  PROVE  Active(j) = 0
<1>1. OnStack(j) = {}
  BY DEF OnStack
<1>2. Suspended(j) = {}
  BY DEF Suspended
<1>. QED BY <1>1, <1>2, FS_EmptySet DEF Active

(***************************************************************************)
(* The classification of shutdown() is right about a job whose snapshot    *)
(* still holds, and about one it has no snapshot of (shutdown).            *)
(***************************************************************************)
LEMMA ReportIsTrue ==
  ASSUME DInv, stack = <<>>, NEW snap \in Snapshot,
         \A j \in JobIds : snap[j] # "absent" => StillSays(snap[j], j)
  PROVE  /\ \A j \in ReportOf(snap).pending : Active(j) = 0
         /\ \A j \in ReportOf(snap).interrupted : Status(j) # "succeeded"
         /\ \A j \in ReportOf(snap).settled : Terminal(Status(j))
<1>. DEFINE before(j) == IF snap[j] = "absent" THEN Status(j) ELSE snap[j]
<1>1. TypeOK /\ jobs \in [JobIds -> Job] /\ \A j \in JobIds : snap[j] \in Statuses \cup {"absent"}
  BY DEF DInv, TypeOK, Snapshot
<1>2. ASSUME NEW j \in JobIds
      PROVE  /\ Terminal(before(j)) => Terminal(Status(j))
             /\ ~Terminal(before(j)) => Status(j) # "succeeded"
             /\ Pending(before(j)) => \A a \in inFlight : a.job # j
  <2>1. Pending(Status(j)) => \A a \in inFlight : a.job # j
    BY DEF DInv, SuspendedIsAlone, Pending
  <2>2. Status(j) = "succeeded" => Terminal(Status(j))
    BY DEF Terminal, IsTerminal, WorkerJob
  <2>3. CASE snap[j] = "absent"
    BY <2>1, <2>2, <2>3, ZenonT(40)
  <2>4. CASE snap[j] # "absent"
    BY <2>4, ZenonT(40) DEF StillSays
  <2>. QED BY <2>3, <2>4
<1>3. ASSUME NEW j \in JobIds, Exists(j), ~Terminal(before(j)), before(j) # "running"
      PROVE  Pending(before(j))
  <2>1. Status(j) \in Statuses
    BY <1>1, <1>3 DEF TypeOK, Status, Exists, JobIds, Job
  <2>2. before(j) \in Statuses
    BY <1>1, <2>1
  <2>. QED BY <1>3, <2>2 DEF Statuses, WorkerJob, Terminal, IsTerminal, Pending
<1>4. /\ ReportOf(snap).settled = {j \in {k \in JobIds : Exists(k)} : Terminal(before(j))}
      /\ \A j \in ReportOf(snap).interrupted : j \in JobIds /\ ~Terminal(before(j))
      /\ \A j \in ReportOf(snap).pending :
           j \in JobIds /\ Exists(j) /\ ~Terminal(before(j)) /\ before(j) # "running"
  BY ZenonT(40) DEF ReportOf
<1>. HIDE DEF before
<1>5. \A j \in ReportOf(snap).pending : Active(j) = 0
  BY <1>1, <1>2, <1>3, <1>4, NoAttempts, ZenonT(40)
<1>. QED BY <1>2, <1>4, <1>5

(***************************************************************************)
(* The report of shutdown() tells the truth at the moment it is made,      *)
(* however handlers settle, operators decide and timeouts fire while it    *)
(* waits: a pending job has no handler at work, an interrupted one did not *)
(* succeed and a settled one is settled (shutdown).                        *)
(***************************************************************************)
THEOREM ReportsAreTrue ==
  ASSUME ~ReentrantHandlers, ~ReprocessRunning, ~ResetWhileStopping
  PROVE  Spec => ReportSound
<1>1. Init => ShutdownInv
  BY DisciplinedInit, ZenonT(40) DEF ShutdownInv, Init, StopsOnce, SnapshotsHold
<1>2. ShutdownInv /\ [Next]_vars => ShutdownInv'
  BY ShutdownStep
<1>3. ShutdownInv /\ [Next]_vars
        => [report' # report =>
              /\ \A j \in report'.pending : Active(j)' = 0
              /\ \A j \in report'.interrupted : Status(j)' # "succeeded"
              /\ \A j \in report'.settled : Terminal(Status(j)')]_vars
  <2>. SUFFICES ASSUME ShutdownInv, [Next]_vars, report' # report
                PROVE  /\ \A j \in report'.pending : Active(j)' = 0
                       /\ \A j \in report'.interrupted : Status(j)' # "succeeded"
                       /\ \A j \in report'.settled : Terminal(Status(j)')
    OBVIOUS
  <2>1. ASSUME NEW snap \in Snapshot, stack = <<>>, report' = ReportOf(snap),
               \A j \in JobIds : snap[j] # "absent" => StillSays(snap[j], j),
               jobs' = jobs, stack' = stack, inFlight' = inFlight
        PROVE  /\ \A j \in report'.pending : Active(j)' = 0
               /\ \A j \in report'.interrupted : Status(j)' # "succeeded"
               /\ \A j \in report'.settled : Terminal(Status(j)')
    <3>1. /\ \A j \in ReportOf(snap).pending : Active(j) = 0
          /\ \A j \in ReportOf(snap).interrupted : Status(j) # "succeeded"
          /\ \A j \in ReportOf(snap).settled : Terminal(Status(j))
      BY <2>1, ReportIsTrue DEF ShutdownInv
    <3>2. \A j : Active(j)' = Active(j) /\ Status(j)' = Status(j)
      BY <2>1 DEF Active, OnStack, Suspended, Status
    <3>. QED BY <2>1, <3>1, <3>2
  <2>2. CASE Shutdown
    <3>1. PICK now : now = [j \in JobIds |-> Status(j)]
      BY ZenonT(40)
    <3>2. /\ stack = <<>> /\ report' = ReportOf(now)
          /\ jobs' = jobs /\ stack' = stack /\ inFlight' = inFlight
      BY <2>2, <3>1, OnlyTheLoopCalls DEF Shutdown, jobVars, callVars
    <3>3. now \in Snapshot
      BY <3>1 DEF ShutdownInv, DInv, TypeOK, Snapshot, Status, Job
    <3>4. ASSUME NEW j \in JobIds PROVE StillSays(now[j], j)
      <4>1. now[j] = Status(j)
        BY <3>1
      <4>2. Pending(Status(j)) => \A a \in inFlight : a.job # j
        BY DEF ShutdownInv, DInv, SuspendedIsAlone, Pending
      <4>3. Status(j) = "succeeded" => Terminal(Status(j))
        BY DEF Terminal, IsTerminal, WorkerJob
      <4>. QED BY <4>1, <4>2, <4>3 DEF StillSays
    <3>. QED BY <2>1, <3>2, <3>3, <3>4
  <2>3. ASSUME NEW snap \in waiting, ShutdownResume(snap)
        PROVE  /\ \A j \in report'.pending : Active(j)' = 0
               /\ \A j \in report'.interrupted : Status(j)' # "succeeded"
               /\ \A j \in report'.settled : Terminal(Status(j)')
    <3>1. /\ stack = <<>> /\ report' = ReportOf(snap)
          /\ jobs' = jobs /\ stack' = stack /\ inFlight' = inFlight
      BY <2>3 DEF ShutdownResume, jobVars, callVars
    <3>2. snap \in Snapshot
      BY <2>3 DEF ShutdownInv, DInv, TypeOK
    <3>3. \A j \in JobIds : snap[j] # "absent" => StillSays(snap[j], j)
      BY <2>3 DEF ShutdownInv, SnapshotsHold
    <3>. QED BY <2>1, <3>1, <3>2, <3>3
  <2>4. CASE Reset
    BY <2>4 DEF Reset, NoReport
  <2>5. ~(UNCHANGED stopVars) /\ ~Cancel
    BY DEF stopVars, Cancel
  <2>. QED BY <2>2, <2>3, <2>4, <2>5, WhoStops
<1>. QED BY <1>1, <1>2, <1>3, PTL DEF Spec, ReportSound
=============================================================================
