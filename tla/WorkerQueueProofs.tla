------------------------- MODULE WorkerQueueProofs -------------------------
(***************************************************************************)
(* Theorems about WorkerQueue for every number of jobs, every set of       *)
(* operations, keys and budgets and every bound.                           *)
(***************************************************************************)
EXTENDS QueueBoard, TLAPS, SequenceTheorems, FiniteSetTheorems

-----------------------------------------------------------------------------
(* The worker_job table *)

(* A known state moves to a known state (resolve). *)
LEMMA ResolveStatus ==
  ASSUME NEW s \in Statuses, NEW e
  PROVE  Resolve(WorkerJob, s, e) \in Statuses
<1>1. CASE CanTransition(WorkerJob, s, e)
  <2>1. PICK r \in WorkerJob.rules : r[1] = s /\ r[2] = e
    BY <1>1 DEF CanTransition
  <2>2. (CHOOSE q \in WorkerJob.rules : q[1] = s /\ q[2] = e) \in WorkerJob.rules
    BY <2>1
  <2>3. \A q \in WorkerJob.rules : q[3] \in Statuses
    BY DEF WorkerJob, Statuses
  <2>. QED BY <1>1, <2>2, <2>3 DEF Resolve
<1>2. CASE ~CanTransition(WorkerJob, s, e)
  BY <1>2 DEF Resolve
<1>. QED BY <1>1, <1>2

(* A job that does not exist or is settled moves nowhere (resolve). *)
LEMMA ResolveStays ==
  ASSUME NEW s \in {"absent", "succeeded", "dead_lettered"}, NEW e
  PROVE  Resolve(WorkerJob, s, e) = s
<1>1. \A r \in WorkerJob.rules : r[1] # s
  BY DEF WorkerJob
<1>. QED BY <1>1 DEF Resolve, CanTransition

(* The rule the table has is the one that is found (resolve). *)
LEMMA ResolveRule ==
  ASSUME NEW s, NEW e, NEW t, <<s, e, t>> \in WorkerJob.rules
  PROVE  CanTransition(WorkerJob, s, e) /\ Resolve(WorkerJob, s, e) = t
<1>1. \A r, q \in WorkerJob.rules : r[1] = q[1] /\ r[2] = q[2] => r = q
  BY WorkerJobIsValid DEF ValidDefinition
<1>2. CanTransition(WorkerJob, s, e)
  BY DEF CanTransition
<1>. DEFINE c == CHOOSE r \in WorkerJob.rules : r[1] = s /\ r[2] = e
<1>3. c = <<s, e, t>>
  BY <1>1
<1>4. Resolve(WorkerJob, s, e) = c[3]
  BY <1>2 DEF Resolve
<1>. HIDE DEF c
<1>5. c[3] = t
  BY <1>3
<1>. QED BY <1>2, <1>4, <1>5

(* Only the event "succeed" leads to "succeeded" (resolve). *)
LEMMA ResolveSucceeded ==
  ASSUME NEW s, NEW e, e # "succeed", Resolve(WorkerJob, s, e) = "succeeded"
  PROVE  s = "succeeded"
<1>1. \A r \in WorkerJob.rules : r[3] = "succeeded" => r[2] = "succeed"
  BY DEF WorkerJob
<1>2. CASE CanTransition(WorkerJob, s, e)
  <2>1. PICK r \in WorkerJob.rules : r[1] = s /\ r[2] = e
    BY <1>2 DEF CanTransition
  <2>2. LET c == CHOOSE q \in WorkerJob.rules : q[1] = s /\ q[2] = e
        IN c \in WorkerJob.rules /\ c[2] = e
    BY <2>1
  <2>. QED BY <1>1, <1>2, <2>2 DEF Resolve
<1>3. CASE ~CanTransition(WorkerJob, s, e)
  BY <1>3 DEF Resolve
<1>. QED BY <1>2, <1>3

-----------------------------------------------------------------------------
(* Job records *)

(***************************************************************************)
(* What every writer of a job record preserves: it is a job of the same    *)
(* operation, key and budget; it exists iff it existed; a settled job      *)
(* keeps its status.                                                       *)
(***************************************************************************)
SameJob(old, new) ==
  /\ new \in Job
  /\ new.operation = old.operation
  /\ new.dedupeKey = old.dedupeKey
  /\ new.maxAttempts = old.maxAttempts
  /\ new.status = "absent" <=> old.status = "absent"
  /\ old.status \in {"succeeded", "dead_lettered"} => new.status = old.status

(* A move changes the status only, as the table says (move). *)
LEMMA MoveJob ==
  ASSUME NEW job \in Job, NEW e
  PROVE  /\ SameJob(job, Move(job, e))
         /\ Move(job, e) = [job EXCEPT !.status = Resolve(WorkerJob, job.status, e)]
         /\ Move(job, e).attempts = job.attempts
         /\ Move(job, e).status = Resolve(WorkerJob, job.status, e)
<1>1. Resolve(WorkerJob, job.status, e) \in Statuses \cup {"absent"}
  BY ResolveStatus, ResolveStays DEF Job
<1>2. Resolve(WorkerJob, job.status, e) = "absent" <=> job.status = "absent"
  <2>1. "absent" \notin Statuses BY DEF Statuses, WorkerJob
  <2>. QED BY <2>1, ResolveStatus, ResolveStays DEF Job
<1>3. job.status \in {"succeeded", "dead_lettered"} => Resolve(WorkerJob, job.status, e) = job.status
  BY ResolveStays
<1>. QED BY <1>1, <1>2, <1>3 DEF Move, SameJob, Job

(* Every way an attempt settles preserves the job (settle). *)
LEMMA SettledJob ==
  ASSUME NEW job \in Job, NEW outcome
  PROVE  /\ SameJob(job, Settled(job, outcome))
         /\ Settled(job, outcome).attempts = job.attempts
         /\ aborted /\ Settled(job, outcome).status = "succeeded" => job.status = "succeeded"
<1>1. SameJob(job, Succeeded(job)) /\ Succeeded(job).attempts = job.attempts
  BY MoveJob DEF Succeeded, SameJob, Job, Codes
<1>2. SameJob(job, Failed(job)) /\ Failed(job).attempts = job.attempts
  <2>. DEFINE failed == [job EXCEPT !.lastError = "thrown"]
  <2>1. failed \in Job /\ SameJob(job, failed) /\ failed.attempts = job.attempts
    BY DEF SameJob, Job, Codes
  <2>2. \A e : SameJob(job, Move(failed, e)) /\ Move(failed, e).attempts = job.attempts
    BY <2>1, MoveJob, ZenonT(40) DEF SameJob
  <2>. HIDE DEF failed
  <2>3. \A e : LET m == [Move(failed, e) EXCEPT !.wait = "waiting"]
              IN SameJob(job, m) /\ m.attempts = job.attempts
    BY <2>2 DEF SameJob, Job
  <2>. QED BY <2>2, <2>3 DEF Failed, failed
<1>3. /\ SameJob(job, Cancelled(job)) /\ Cancelled(job).attempts = job.attempts
      /\ Cancelled(job).status = "succeeded" => job.status = "succeeded"
  <2>. DEFINE cancelled == [job EXCEPT !.lastError = "cancelled"]
              e == IF job.attempts >= job.maxAttempts THEN "exhaust" ELSE "fail"
  <2>1. /\ cancelled \in Job /\ SameJob(job, cancelled) /\ cancelled.attempts = job.attempts
        /\ cancelled.status = job.status
    BY DEF SameJob, Job, Codes
  <2>2. e # "succeed"
    OBVIOUS
  <2>. HIDE DEF cancelled, e
  <2>3. SameJob(job, Move(cancelled, e)) /\ Move(cancelled, e).attempts = job.attempts
    BY <2>1, MoveJob DEF SameJob
  <2>4. Move(cancelled, e).status = "succeeded" => job.status = "succeeded"
    BY <2>1, <2>2, MoveJob, ResolveSucceeded
  <2>. QED BY <2>3, <2>4 DEF Cancelled, cancelled, e
<1>. QED BY <1>1, <1>2, <1>3 DEF Settled

(* The first step of runJob: the attempt is counted. *)
LEMMA CountedJob ==
  ASSUME NEW job \in Job, NEW e
  PROVE  LET counted == [job EXCEPT !.attempts = @ + 1]
         IN /\ counted \in Job
            /\ SameJob(job, Move(counted, e))
            /\ Move(counted, e).attempts = job.attempts + 1
            /\ Move(counted, e).status = Resolve(WorkerJob, job.status, e)
            /\ SameJob(job, Unregistered(counted))
            /\ Unregistered(counted).attempts = job.attempts + 1
            /\ Unregistered(counted).status = Resolve(WorkerJob, job.status, "dead_letter")
<1>. DEFINE counted == [job EXCEPT !.attempts = @ + 1]
<1>1. /\ counted \in Job /\ SameJob(job, counted) /\ counted.attempts = job.attempts + 1
      /\ counted.status = job.status
  BY DEF SameJob, Job
<1>. HIDE DEF counted
<1>2. \A f : /\ SameJob(job, Move(counted, f)) /\ Move(counted, f).attempts = job.attempts + 1
             /\ Move(counted, f).status = Resolve(WorkerJob, job.status, f)
  BY <1>1, MoveJob DEF SameJob
<1>3. /\ SameJob(job, Unregistered(counted)) /\ Unregistered(counted).attempts = job.attempts + 1
      /\ Unregistered(counted).status = Resolve(WorkerJob, job.status, "dead_letter")
  BY <1>2 DEF Unregistered, SameJob, Job, Codes
<1>. QED BY <1>1, <1>2, <1>3 DEF counted

-----------------------------------------------------------------------------
(* The call stack *)

Frame == DrainFrame \cup HandlerFrame

(* Taking the top frame off leaves a stack (the end of a call). *)
LEMMA StackTop ==
  ASSUME stack \in Seq(Frame), stack # <<>>
  PROVE  /\ Top \in Frame /\ Below \in Seq(Frame)
         /\ Len(Below) = Len(stack) - 1
         /\ \A i \in 1..Len(Below) : Below[i] = stack[i]
<1>1. Len(stack) \in Nat /\ Len(stack) # 0
  BY EmptySeq
<1>2. Top \in Frame
  BY <1>1, ElementOfSeq DEF Top
<1>3. PICK n \in Nat : n = Len(stack) /\ n # 0
  BY <1>1
<1>4. \A i \in 1..n - 1 : stack[i] \in Frame
  BY <1>3, ElementOfSeq
<1>5. Len(SubSeq(stack, 1, n - 1)) = IF 1 <= n - 1 THEN n - 1 - 1 + 1 ELSE 0
  BY <1>4, SubSeqProperties
<1>6. Len(Below) = n - 1
  BY <1>3, <1>5 DEF Below
<1>7. Below \in Seq(Frame) /\ \A i \in 1..n - 1 : Below[i] = stack[i]
  BY <1>1, <1>3 DEF Below
<1>. QED BY <1>2, <1>3, <1>6, <1>7

(* Frames are told apart by their kind. *)
LEMMA FrameKinds ==
  ASSUME NEW f \in Frame
  PROVE  /\ f.kind = "drain" => f \in DrainFrame
         /\ f.kind = "handler" => f \in HandlerFrame
BY DEF Frame, DrainFrame, HandlerFrame

(* Counting an outcome keeps a drain frame one (bumpSummary). *)
LEMMA CountEarlyFrame ==
  ASSUME NEW f \in DrainFrame
  PROVE  /\ CountEarly(f) \in DrainFrame
         /\ CountEarly(f).due = f.due /\ CountEarly(f).kind = "drain"
BY DEF CountEarly, DrainFrame

(* What a handler that settles at once leaves below it (drainDueJobs, drain). *)
LEMMA StackAfterSync ==
  ASSUME stack \in Seq(Frame), stack # <<>>
  PROVE  /\ AfterSyncSettle \in Seq(Frame)
         /\ Len(AfterSyncSettle) = Len(stack) - 1
         /\ \A i \in 1..Len(AfterSyncSettle) :
              /\ AfterSyncSettle[i].kind = stack[i].kind
              /\ stack[i].kind = "handler" => AfterSyncSettle[i] = stack[i]
              /\ stack[i].kind = "drain" => AfterSyncSettle[i].due = stack[i].due
<1>. DEFINE n == Len(Below)
<1>1. CASE Below # <<>> /\ Below[n].kind = "drain"
  <2>1. n \in 1..n /\ Below[n] \in DrainFrame
    BY <1>1, StackTop, FrameKinds
  <2>2. AfterSyncSettle = [Below EXCEPT ![n] = CountEarly(Below[n])]
    BY <1>1 DEF AfterSyncSettle
  <2>3. CountEarly(Below[n]) \in Frame
    BY <2>1, CountEarlyFrame DEF Frame
  <2>4. /\ AfterSyncSettle \in Seq(Frame) /\ Len(AfterSyncSettle) = n
        /\ \A i \in 1..n : AfterSyncSettle[i] = IF i = n THEN CountEarly(Below[n]) ELSE Below[i]
    BY <2>1, <2>2, <2>3, StackTop
  <2>. QED BY <1>1, <2>1, <2>4, StackTop, CountEarlyFrame
<1>2. CASE ~(Below # <<>> /\ Below[n].kind = "drain")
  <2>1. AfterSyncSettle = Below
    BY <1>2 DEF AfterSyncSettle
  <2>. QED BY <2>1, StackTop
<1>. QED BY <1>1, <1>2

-----------------------------------------------------------------------------
(* Type correctness *)

(* Writing back one job keeps the map well typed (move, settle, runJob). *)
LEMMA JobWritten ==
  ASSUME TypeOK, NEW j \in JobIds, NEW new, SameJob(jobs[j], new),
         jobs' = [jobs EXCEPT ![j] = new]
  PROVE  /\ jobs' \in [JobIds -> Job]
         /\ \A k \in JobIds : jobs'[k].status = "absent" <=> k > created
BY DEF TypeOK, SameJob

(* runJob writes one job and leaves a stack (runJob). *)
LEMMA RunJobTypes ==
  ASSUME TypeOK, NEW j \in JobIds, NEW below \in Seq(Frame), RunJob(j, below)
  PROVE  /\ jobs' \in [JobIds -> Job]
         /\ \A k \in JobIds : jobs'[k].status = "absent" <=> k > created
         /\ runs' \in [JobIds -> Nat]
         /\ stack' \in Seq(Frame)
<1>. DEFINE counted == [jobs[j] EXCEPT !.attempts = @ + 1]
<1>1. jobs[j] \in Job
  BY DEF TypeOK
<1>2. SameJob(jobs[j], Move(counted, "start")) /\ SameJob(jobs[j], Unregistered(counted))
  BY <1>1, CountedJob
<1>3. CASE counted.operation \in registered
  <2>1. /\ jobs' = [jobs EXCEPT ![j] = Move(counted, "start")]
        /\ runs' = [runs EXCEPT ![j] = @ + 1]
        /\ stack' = Append(below, [kind |-> "handler", job |-> j, run |-> runs[j] + 1])
    BY <1>3 DEF RunJob
  <2>2. runs[j] + 1 \in Nat /\ runs' \in [JobIds -> Nat]
    BY <2>1 DEF TypeOK
  <2>3. [kind |-> "handler", job |-> j, run |-> runs[j] + 1] \in Frame
    BY <2>2 DEF Frame, HandlerFrame
  <2>. QED BY <1>2, <2>1, <2>2, <2>3, JobWritten, AppendProperties, Zenon
<1>4. CASE counted.operation \notin registered
  <2>1. jobs' = [jobs EXCEPT ![j] = Unregistered(counted)] /\ runs' = runs /\ stack' = below
    BY <1>4 DEF RunJob
  <2>. QED BY <1>2, <2>1, JobWritten, Zenon DEF TypeOK
<1>. QED BY <1>3, <1>4

(* The framework starts well typed (createWorkerFramework). *)
LEMMA TypeInit ==
  ASSUME Init
  PROVE  TypeOK
<1>1. MaxJobs \in Nat /\ (\A j \in JobIds : j > 0)
  BY WorkerQueueConstants DEF JobIds
<1>2. NoJob \in Job /\ NoJob.status = "absent"
  BY WorkerQueueConstants DEF NoJob, Job, Codes
<1>3. NoReport \in Report /\ NoSummary \in Summary
  BY DEF NoReport, Report, NoSummary, Summary
<1>4. <<>> \in Seq(DrainFrame \cup HandlerFrame)
  OBVIOUS
<1>5. jobs \in [JobIds -> Job] /\ \A j \in JobIds : jobs[j].status = "absent" <=> j > created
  BY <1>1, <1>2 DEF Init
<1>6. /\ registered \subseteq Operations /\ created \in 0..MaxJobs
      /\ retries \in [JobIds -> Nat] /\ runs \in [JobIds -> Nat]
      /\ stack \in Seq(DrainFrame \cup HandlerFrame) /\ inFlight \subseteq Attempt
  BY <1>1, <1>4 DEF Init
<1>7. /\ phase \in {"idle", "cancelling", "stopped"} /\ aborted \in BOOLEAN
      /\ waiting \subseteq Snapshot /\ report \in Report
      /\ drains \subseteq AwaitedDrain /\ summary \in Summary
  BY <1>3, Zenon DEF Init
<1>. QED BY <1>5, <1>6, <1>7 DEF TypeOK

(* A shutdown report lists job ids (shutdown). *)
LEMMA ReportType ==
  ASSUME NEW snap
  PROVE  ReportOf(snap) \in Report
BY DEF ReportOf, Report

(* Every step keeps the state well typed (all operations of the framework). *)
LEMMA TypeStep ==
  ASSUME TypeOK, [Next]_vars
  PROVE  TypeOK'
<1>. USE DEF TypeOK, vars, jobVars, callVars, stopVars, drainVars
<1>. DEFINE JobsOK == /\ jobs' \in [JobIds -> Job]
                      /\ \A j \in JobIds : jobs'[j].status = "absent" <=> j > created'
<1>0. stack \in Seq(Frame)
  BY DEF Frame
<1>1. ASSUME NEW op \in Operations, Register(op) PROVE TypeOK'
  BY <1>1 DEF Register
<1>2. ASSUME NEW op \in Operations, NEW key \in DedupeKeys \cup {NoKey}, NEW max \in Budgets,
             NEW delayed \in BOOLEAN, Enqueue(op, key, max, delayed)
      PROVE  TypeOK'
  <2>1. NewJob(op, key, max, delayed) \in Job /\ NewJob(op, key, max, delayed).status # "absent"
    BY DEF NewJob, Job, Codes, Statuses, WorkerJob
  <2>2. created + 1 \in JobIds /\ created' = created + 1 /\ created' \in 0..MaxJobs
    BY <1>2, WorkerQueueConstants DEF Enqueue, JobIds
  <2>3. JobsOK
    BY <1>2, <2>1, <2>2 DEF Enqueue, JobIds
  <2>. QED BY <1>2, <2>2, <2>3 DEF Enqueue
<1>3. ASSUME NEW awaits \in BOOLEAN, Drain(awaits) PROVE TypeOK'
  <2>. DEFINE due == {j \in JobIds : Exists(j) /\ Due(j)}
              running == {j \in JobIds : Exists(j) /\ Status(j) = "running"}
              frame == [ kind |-> "drain", due |-> due, all |-> IF awaits THEN due ELSE {},
                         inherited |-> IF awaits THEN running ELSE {}, early |-> 0,
                         awaits |-> awaits ]
  <2>1. frame \in Frame
    BY DEF Frame, DrainFrame
  <2>2. stack' = Append(stack, frame)
    BY <1>3 DEF Drain
  <2>. HIDE DEF frame
  <2>3. stack' \in Seq(Frame)
    BY <1>0, <2>1, <2>2, AppendProperties
  <2>. QED BY <1>3, <2>3 DEF Drain, Frame
<1>4. ASSUME DrainStep PROVE TypeOK'
  <2>1. Top \in DrainFrame /\ Below \in Seq(Frame)
    BY <1>0, <1>4, StackTop, FrameKinds DEF DrainStep
  <2>2. PICK j \in Top.due : LET rest == [Top EXCEPT !.due = @ \ {j}]
             IN RunJob(j, Append(Below, IF jobs[j].operation \in registered
                                        THEN rest ELSE CountEarly(rest)))
    BY <1>4, Zenon DEF DrainStep
  <2>. DEFINE rest == [Top EXCEPT !.due = @ \ {j}]
              frame == IF jobs[j].operation \in registered THEN rest ELSE CountEarly(rest)
  <2>3. j \in JobIds /\ rest \in DrainFrame
    BY <2>1, Zenon DEF DrainFrame
  <2>. HIDE DEF rest
  <2>4. frame \in Frame
    BY <2>3, CountEarlyFrame DEF Frame
  <2>5. RunJob(j, Append(Below, frame))
    BY <2>2 DEF rest
  <2>. HIDE DEF frame
  <2>6. Append(Below, frame) \in Seq(Frame)
    BY <2>1, <2>4, AppendProperties
  <2>7. /\ jobs' \in [JobIds -> Job]
        /\ \A k \in JobIds : jobs'[k].status = "absent" <=> k > created
        /\ runs' \in [JobIds -> Nat] /\ stack' \in Seq(Frame)
    BY <2>3, <2>5, <2>6, RunJobTypes, Zenon
  <2>. QED BY <1>4, <2>7 DEF DrainStep, Frame
<1>5. ASSUME DrainReturn PROVE TypeOK'
  <2>1. Top \in DrainFrame /\ Below \in Seq(Frame)
    BY <1>0, <1>5, StackTop, FrameKinds DEF DrainReturn
  <2>2. [ wait |-> inFlight, due |-> Top.all, inherited |-> Top.inherited,
          early |-> Top.early ] \in AwaitedDrain
    BY <2>1 DEF DrainFrame, AwaitedDrain
  <2>. QED BY <1>5, <2>1, <2>2 DEF DrainReturn, Frame
<1>6. ASSUME NEW d \in drains, DrainResolve(d) PROVE TypeOK'
  <2>1. d.due \subseteq JobIds /\ d.inherited \subseteq JobIds /\ d.early \in Nat
    BY DEF AwaitedDrain
  <2>2. \A S \in SUBSET JobIds : Cardinality(S) \in Nat
    <3>1. IsFiniteSet(JobIds)
      BY WorkerQueueConstants, FS_Interval DEF JobIds
    <3>. QED BY <3>1, FS_Subset, FS_CardinalityType
  <2>3. summary' \in Summary
    BY <1>6, <2>1, <2>2 DEF DrainResolve, Summary
  <2>. QED BY <1>6, <2>3 DEF DrainResolve
<1>7. ASSUME NEW outcome \in {"returned", "threw"}, HandlerSettles(outcome) PROVE TypeOK'
  <2>1. Top.job \in JobIds /\ AfterSyncSettle \in Seq(Frame)
    BY <1>0, <1>7, StackTop, StackAfterSync, FrameKinds DEF HandlerSettles, HandlerFrame
  <2>2. SameJob(jobs[Top.job], Settled(jobs[Top.job], outcome))
    BY <2>1, SettledJob
  <2>3. JobsOK
    BY <1>7, <2>1, <2>2, JobWritten, Zenon DEF HandlerSettles
  <2>. QED BY <1>7, <2>1, <2>3 DEF HandlerSettles, Frame
<1>8. ASSUME HandlerSuspends PROVE TypeOK'
  <2>1. Top \in HandlerFrame /\ Below \in Seq(Frame)
    BY <1>0, <1>8, StackTop, FrameKinds DEF HandlerSuspends
  <2>2. [job |-> Top.job, run |-> Top.run] \in Attempt
    BY <2>1 DEF HandlerFrame, Attempt
  <2>. QED BY <1>8, <2>1, <2>2 DEF HandlerSuspends, Frame
<1>9. ASSUME NEW j \in JobIds, Elapse(j) PROVE TypeOK'
  <2>1. SameJob(jobs[j], [jobs[j] EXCEPT !.wait = "elapsed"])
    BY ZenonT(40) DEF SameJob, Job
  <2>2. JobsOK
    BY <1>9, <2>1, JobWritten, Zenon DEF Elapse
  <2>. QED BY <1>9, <2>2 DEF Elapse
<1>10. ASSUME NEW j \in JobIds, ProcessJob(j) PROVE TypeOK'
  <2>1. /\ jobs' \in [JobIds -> Job]
        /\ \A k \in JobIds : jobs'[k].status = "absent" <=> k > created
        /\ runs' \in [JobIds -> Nat] /\ stack' \in Seq(Frame)
    BY <1>0, <1>10, RunJobTypes DEF ProcessJob
  <2>. QED BY <1>10, <2>1 DEF ProcessJob, Frame
<1>11. ASSUME NEW a \in inFlight, NEW outcome \in {"returned", "threw"}, AsyncSettle(a, outcome)
       PROVE  TypeOK'
  <2>1. a.job \in JobIds
    BY DEF Attempt
  <2>2. SameJob(jobs[a.job], Settled(jobs[a.job], outcome))
    BY <2>1, SettledJob
  <2>3. JobsOK
    BY <1>11, <2>1, <2>2, JobWritten, Zenon DEF AsyncSettle
  <2>. QED BY <1>11, <2>3 DEF AsyncSettle
<1>12. ASSUME NEW j \in JobIds, RetryJob(j) PROVE TypeOK'
  <2>1. SameJob(jobs[j], [Move(jobs[j], "retry") EXCEPT !.wait = "none", !.attempts = 0])
    <3>1. jobs[j] \in Job
      OBVIOUS
    <3>2. SameJob(jobs[j], Move(jobs[j], "retry"))
      BY <3>1, MoveJob
    <3>. QED BY <3>2, Zenon DEF SameJob, Job
  <2>2. JobsOK
    BY <1>12, <2>1, JobWritten, Zenon DEF RetryJob
  <2>3. retries' \in [JobIds -> Nat]
    BY <1>12 DEF RetryJob
  <2>. QED BY <1>12, <2>2, <2>3 DEF RetryJob
<1>13. ASSUME NEW j \in JobIds, DeadLetter(j) PROVE TypeOK'
  <2>1. SameJob(jobs[j], Move(jobs[j], "dead_letter"))
    BY MoveJob
  <2>2. JobsOK
    BY <1>13, <2>1, JobWritten, Zenon DEF DeadLetter
  <2>. QED BY <1>13, <2>2 DEF DeadLetter
<1>14. ASSUME Cancel PROVE TypeOK'
  BY <1>14 DEF Cancel
<1>15. ASSUME Shutdown PROVE TypeOK'
  <2>1. [j \in JobIds |-> Status(j)] \in Snapshot
    BY DEF Snapshot, Status, Job
  <2>. QED BY <1>15, <2>1, ReportType, Zenon DEF Shutdown
<1>16. ASSUME NEW snap \in waiting, ShutdownResume(snap) PROVE TypeOK'
  BY <1>16, ReportType DEF ShutdownResume
<1>17. ASSUME Reset PROVE TypeOK'
  <2>1. NoJob \in Job /\ NoJob.status = "absent" /\ NoSnapshot \in Snapshot
    BY WorkerQueueConstants DEF NoJob, Job, Codes, NoSnapshot, Snapshot
  <2>2. JobsOK /\ created' \in 0..MaxJobs
    BY <1>17, <2>1, WorkerQueueConstants DEF Reset, JobIds
  <2>3. NoReport \in Report /\ NoSummary \in Summary
    BY DEF NoReport, Report, NoSummary, Summary
  <2>. QED BY <1>17, <2>1, <2>2, <2>3, Zenon DEF Reset
<1>18. ASSUME UNCHANGED vars PROVE TypeOK'
  BY <1>18
<1>. QED
  BY <1>1, <1>2, <1>3, <1>4, <1>5, <1>6, <1>7, <1>8, <1>9, <1>10, <1>11, <1>12, <1>13, <1>14,
     <1>15, <1>16, <1>17, <1>18, ZenonT(40) DEF Next, Advance, HandlerEnds, Settles, Suspended

(***************************************************************************)
(* In every run of the framework, with any number of jobs and whatever     *)
(* handlers and callers do, the state is well typed; in particular only    *)
(* states of the worker_job table are ever written to a job.               *)
(***************************************************************************)
THEOREM TypeCorrect == Spec => []TypeOK
<1>1. Init => TypeOK
  BY TypeInit
<1>2. TypeOK /\ [Next]_vars => TypeOK'
  BY TypeStep
<1>. QED BY <1>1, <1>2, PTL DEF Spec

-----------------------------------------------------------------------------
(* Settled jobs and late successes *)

(* What one write of a job may do to its status. *)
StatusStep(old, new) ==
  /\ old.status \in {"succeeded", "dead_lettered"} => new.status \in {old.status, "absent"}
  /\ aborted /\ new.status = "succeeded" => old.status = "succeeded"

(* Any write through SameJob that does not make a success is such a step (move). *)
LEMMA SameJobStep ==
  ASSUME NEW old, NEW new, SameJob(old, new), new.status = "succeeded" => old.status = "succeeded"
  PROVE  StatusStep(old, new)
BY DEF SameJob, StatusStep

(* Starting a job, or dead-lettering it for want of a handler (runJob). *)
LEMMA RunJobStep ==
  ASSUME TypeOK, NEW j \in JobIds, NEW below, RunJob(j, below), NEW k \in JobIds
  PROVE  StatusStep(jobs[k], jobs'[k])
<1>. DEFINE counted == [jobs[j] EXCEPT !.attempts = @ + 1]
<1>1. jobs[j] \in Job
  BY DEF TypeOK
<1>2. /\ StatusStep(jobs[j], Move(counted, "start"))
      /\ StatusStep(jobs[j], Unregistered(counted))
  BY <1>1, CountedJob, ResolveSucceeded, SameJobStep
<1>3. jobs' = [jobs EXCEPT ![j] = IF counted.operation \in registered
                                  THEN Move(counted, "start") ELSE Unregistered(counted)]
  BY DEF RunJob
<1>. HIDE DEF counted
<1>. QED BY <1>2, <1>3 DEF TypeOK, StatusStep

(***************************************************************************)
(* No step moves a settled job, and no step makes a job succeed once the   *)
(* signal is aborted (settle, runJob, retryJob, deadLetter).               *)
(***************************************************************************)
LEMMA JobStep ==
  ASSUME TypeOK, [Next]_vars, NEW k \in JobIds
  PROVE  StatusStep(jobs[k], jobs'[k])
<1>. USE DEF vars, jobVars, callVars, stopVars, drainVars
<1>0. /\ stack \in Seq(Frame)
      /\ jobs \in [JobIds -> Job]
  BY DEF TypeOK, Frame
<1>1. ASSUME jobs' = jobs PROVE StatusStep(jobs[k], jobs'[k])
  BY <1>1 DEF StatusStep
<1>2. ASSUME NEW op \in Operations, NEW key \in DedupeKeys \cup {NoKey}, NEW max \in Budgets,
             NEW delayed \in BOOLEAN, Enqueue(op, key, max, delayed)
      PROVE  StatusStep(jobs[k], jobs'[k])
  <2>1. NewJob(op, key, max, delayed).status = "queued"
    BY DEF NewJob, WorkerJob
  <2>2. created + 1 \in JobIds /\ jobs[created + 1].status = "absent"
    <3>1. created \in Nat /\ created + 1 \in JobIds
      BY <1>2, WorkerQueueConstants DEF Enqueue, TypeOK, JobIds
    <3>2. \A j \in JobIds : jobs[j].status = "absent" <=> j > created
      BY DEF TypeOK
    <3>. QED BY <3>1, <3>2
  <2>3. jobs' = [jobs EXCEPT ![created + 1] = NewJob(op, key, max, delayed)]
    BY <1>2 DEF Enqueue
  <2>. QED BY <1>0, <2>1, <2>2, <2>3 DEF StatusStep
<1>3. ASSUME DrainStep PROVE StatusStep(jobs[k], jobs'[k])
  <2>1. Top \in DrainFrame
    BY <1>0, <1>3, StackTop, FrameKinds DEF DrainStep
  <2>2. PICK j \in Top.due : \E below : RunJob(j, below)
    BY <1>3 DEF DrainStep
  <2>3. PICK below : RunJob(j, below)
    BY <2>2
  <2>4. j \in JobIds
    BY <2>1 DEF DrainFrame
  <2>. QED BY <2>3, <2>4, RunJobStep, Zenon
<1>4. ASSUME NEW j \in JobIds, ProcessJob(j) PROVE StatusStep(jobs[k], jobs'[k])
  BY <1>4, RunJobStep DEF ProcessJob
<1>5. ASSUME NEW j \in JobIds, NEW outcome, jobs' = [jobs EXCEPT ![j] = Settled(@, outcome)]
      PROVE  StatusStep(jobs[k], jobs'[k])
  <2>1. /\ SameJob(jobs[j], Settled(jobs[j], outcome))
        /\ aborted /\ Settled(jobs[j], outcome).status = "succeeded" => jobs[j].status = "succeeded"
    BY <1>0, SettledJob
  <2>. QED BY <1>0, <1>5, <2>1 DEF StatusStep, SameJob
<1>6. ASSUME NEW outcome, HandlerSettles(outcome) PROVE StatusStep(jobs[k], jobs'[k])
  <2>1. Top.job \in JobIds
    BY <1>0, <1>6, StackTop, FrameKinds DEF HandlerSettles, HandlerFrame
  <2>. QED BY <1>5, <1>6, <2>1, Zenon DEF HandlerSettles
<1>7. ASSUME NEW a \in inFlight, NEW outcome, AsyncSettle(a, outcome)
      PROVE  StatusStep(jobs[k], jobs'[k])
  <2>1. a.job \in JobIds
    BY DEF TypeOK, Attempt
  <2>. QED BY <1>5, <1>7, <2>1, Zenon DEF AsyncSettle
<1>8. ASSUME NEW j \in JobIds, Elapse(j) PROVE StatusStep(jobs[k], jobs'[k])
  BY <1>0, <1>8 DEF Elapse, StatusStep, Job
<1>9. ASSUME NEW j \in JobIds, NEW e, e # "succeed", NEW job,
             job.status = Move(jobs[j], e).status, jobs' = [jobs EXCEPT ![j] = job]
      PROVE  StatusStep(jobs[k], jobs'[k])
  <2>1. jobs[j] \in Job
    BY <1>0
  <2>2. SameJob(jobs[j], Move(jobs[j], e)) /\ Move(jobs[j], e).status = Resolve(WorkerJob, jobs[j].status, e)
    BY <2>1, MoveJob
  <2>3. StatusStep(jobs[j], Move(jobs[j], e))
    BY <1>9, <2>2, SameJobStep, ResolveSucceeded
  <2>. QED BY <1>0, <1>9, <2>3 DEF StatusStep
<1>10. ASSUME NEW j \in JobIds, RetryJob(j) PROVE StatusStep(jobs[k], jobs'[k])
  <2>. DEFINE job == [Move(jobs[j], "retry") EXCEPT !.wait = "none", !.attempts = 0]
  <2>1. Move(jobs[j], "retry") \in Job
    BY <1>0, MoveJob DEF SameJob
  <2>2. job.status = Move(jobs[j], "retry").status
    BY <2>1 DEF Job
  <2>3. jobs' = [jobs EXCEPT ![j] = job]
    BY <1>10 DEF RetryJob
  <2>. QED BY <1>9, <2>2, <2>3, Zenon
<1>11. ASSUME NEW j \in JobIds, DeadLetter(j) PROVE StatusStep(jobs[k], jobs'[k])
  BY <1>9, <1>11, Zenon DEF DeadLetter
<1>12. ASSUME Reset PROVE StatusStep(jobs[k], jobs'[k])
  <2>1. jobs'[k].status = "absent"
    BY <1>12 DEF Reset, NoJob
  <2>. QED BY <2>1 DEF StatusStep
<1>13. ASSUME \/ \E op \in Operations : Register(op)
              \/ \E awaits \in BOOLEAN : Drain(awaits)
              \/ DrainReturn
              \/ \E d \in drains : DrainResolve(d)
              \/ HandlerSuspends
              \/ Cancel
              \/ Shutdown
              \/ \E snap \in waiting : ShutdownResume(snap)
              \/ UNCHANGED vars
       PROVE  jobs' = jobs
  BY <1>13, Zenon DEF Register, Drain, DrainReturn, DrainResolve, HandlerSuspends, Cancel, Shutdown,
               ShutdownResume
<1>. QED
  BY <1>1, <1>2, <1>3, <1>4, <1>6, <1>7, <1>8, <1>10, <1>11, <1>12, <1>13
     DEF Next, Advance, HandlerEnds, Settles, Suspended

(***************************************************************************)
(* A settled job keeps its status for good: no retry, late handler, cancel *)
(* or shutdown moves it (move and the worker_job table).                   *)
(***************************************************************************)
THEOREM SettledForGood == Spec => TerminalAbsorbing
<1>1. TypeOK /\ [Next]_vars
        => [\A j \in JobIds : Terminal(Status(j)) => Status(j)' \in {Status(j), "absent"}]_vars
  <2>. SUFFICES ASSUME TypeOK, [Next]_vars, NEW j \in JobIds, Terminal(Status(j))
                PROVE  Status(j)' \in {Status(j), "absent"}
    OBVIOUS
  <2>1. Status(j) \in {"succeeded", "dead_lettered"}
    BY DEF Terminal, IsTerminal, WorkerJob
  <2>. QED BY <2>1, JobStep DEF StatusStep, Status
<1>. QED BY <1>1, TypeCorrect, PTL DEF Spec, TerminalAbsorbing

(***************************************************************************)
(* After cancel() or shutdown() no attempt becomes a success, in whatever  *)
(* order handlers settle (settle).                                         *)
(***************************************************************************)
THEOREM NoLateSuccess == Spec => NoSuccessAfterAbort
<1>1. TypeOK /\ [Next]_vars
        => [aborted => \A j \in JobIds : Status(j)' = "succeeded" => Status(j) = "succeeded"]_vars
  BY JobStep DEF StatusStep, Status
<1>. QED BY <1>1, TypeCorrect, PTL DEF Spec, NoSuccessAfterAbort

-----------------------------------------------------------------------------
(* The job board *)

(* A status stays or takes one rule of the worker_job table (move). *)
FollowsTable(s, t) == s = t \/ \E r \in WorkerJob.rules : r[1] = s /\ r[3] = t

(* The lookup answers what the table says (resolve). *)
LEMMA ResolveFollows ==
  ASSUME NEW s, NEW e
  PROVE  FollowsTable(s, Resolve(WorkerJob, s, e))
<1>1. CASE CanTransition(WorkerJob, s, e)
  <2>1. PICK r \in WorkerJob.rules : r[1] = s /\ r[2] = e
    BY <1>1 DEF CanTransition
  <2>2. PICK q : q = CHOOSE p \in WorkerJob.rules : p[1] = s /\ p[2] = e
    OBVIOUS
  <2>3. q \in WorkerJob.rules /\ q[1] = s
    BY <2>1, <2>2
  <2>4. Resolve(WorkerJob, s, e) = q[3]
    BY <1>1, <2>2 DEF Resolve
  <2>. QED BY <2>3, <2>4 DEF FollowsTable
<1>2. CASE ~CanTransition(WorkerJob, s, e)
  BY <1>2 DEF Resolve, FollowsTable
<1>. QED BY <1>1, <1>2

(* What a step that writes one job does to it. *)
BoardMove(old, new) == SameJob(old, new) /\ FollowsTable(old.status, new.status)

(* Every way an attempt settles is a move of the table (settle). *)
LEMMA SettledMoves ==
  ASSUME NEW job \in Job, NEW outcome
  PROVE  BoardMove(job, Settled(job, outcome))
<1>1. ASSUME NEW code \in Codes, NEW e
      PROVE  LET m == Move([job EXCEPT !.lastError = code], e)
             IN m \in Job /\ FollowsTable(job.status, m.status)
  <2>1. PICK n : n = [job EXCEPT !.lastError = code]
    BY Zenon
  <2>2. n \in Job /\ n.status = job.status
    BY <1>1, <2>1 DEF Job
  <2>3. SameJob(n, Move(n, e)) /\ Move(n, e).status = Resolve(WorkerJob, n.status, e)
    BY <2>2, MoveJob
  <2>4. Move(n, e) \in Job /\ FollowsTable(n.status, Move(n, e).status)
    BY <2>3, ResolveFollows DEF SameJob
  <2>. QED BY <2>1, <2>2, <2>4
<1>2. FollowsTable(job.status, Succeeded(job).status)
  <2>1. Move(job, "succeed") \in Job /\ FollowsTable(job.status, Move(job, "succeed").status)
    BY MoveJob, ResolveFollows DEF SameJob
  <2>2. Succeeded(job).status = Move(job, "succeed").status
    BY <2>1 DEF Succeeded, Job
  <2>. QED BY <2>1, <2>2
<1>3. FollowsTable(job.status, Cancelled(job).status)
  <2>1. "cancelled" \in Codes
    BY DEF Codes
  <2>. QED BY <1>1, <2>1 DEF Cancelled
<1>4. FollowsTable(job.status, Failed(job).status)
  <2>1. "thrown" \in Codes
    BY DEF Codes
  <2>2. PICK x : x = Move([job EXCEPT !.lastError = "thrown"], "exhaust")
    OBVIOUS
  <2>3. PICK y : y = Move([job EXCEPT !.lastError = "thrown"], "fail")
    OBVIOUS
  <2>4. FollowsTable(job.status, x.status) /\ y \in Job /\ FollowsTable(job.status, y.status)
    BY <1>1, <2>1, <2>2, <2>3
  <2>5. [y EXCEPT !.wait = "waiting"].status = y.status
    BY <2>4 DEF Job
  <2>6. Failed(job) = IF job.attempts >= job.maxAttempts THEN x ELSE [y EXCEPT !.wait = "waiting"]
    BY <2>2, <2>3 DEF Failed
  <2>. QED BY <2>4, <2>5, <2>6
<1>5. FollowsTable(job.status, Settled(job, outcome).status)
  BY <1>2, <1>3, <1>4 DEF Settled
<1>6. SameJob(job, Settled(job, outcome))
  BY SettledJob
<1>. QED BY <1>5, <1>6 DEF BoardMove

(* Starting a job, or dead-lettering it, is a move of the table (runJob). *)
LEMMA RunJobMoves ==
  ASSUME TypeOK, NEW j \in JobIds, NEW below, RunJob(j, below)
  PROVE  \E new \in Job : jobs' = [jobs EXCEPT ![j] = new] /\ BoardMove(jobs[j], new)
<1>1. jobs[j] \in Job
  BY DEF TypeOK
<1>. DEFINE counted == [jobs[j] EXCEPT !.attempts = @ + 1]
<1>2. /\ SameJob(jobs[j], Move(counted, "start")) /\ SameJob(jobs[j], Unregistered(counted))
      /\ Move(counted, "start").status = Resolve(WorkerJob, jobs[j].status, "start")
      /\ Unregistered(counted).status = Resolve(WorkerJob, jobs[j].status, "dead_letter")
  BY <1>1, CountedJob
<1>3. PICK new : new = IF counted.operation \in registered THEN Move(counted, "start")
                                                         ELSE Unregistered(counted)
  OBVIOUS
<1>4. jobs' = [jobs EXCEPT ![j] = new]
  BY <1>3 DEF RunJob
<1>. HIDE DEF counted
<1>5. SameJob(jobs[j], new) /\ FollowsTable(jobs[j].status, new.status)
  BY <1>2, <1>3, ResolveFollows
<1>. QED BY <1>4, <1>5, ZenonT(40) DEF BoardMove, SameJob

(* One job is written, along the table, and none appears or goes. *)
OneJobMoves ==
  /\ created' = created
  /\ \E j \in JobIds, new \in Job : jobs' = [jobs EXCEPT ![j] = new] /\ BoardMove(jobs[j], new)

(***************************************************************************)
(* Whatever a step does, it leaves the jobs alone, adds one, moves one or  *)
(* removes them all (all operations of the framework).                     *)
(***************************************************************************)
LEMMA JobsChange ==
  ASSUME TypeOK, [Next]_vars
  PROVE  \/ jobs' = jobs /\ created' = created
         \/ \E op \in Operations, key \in DedupeKeys \cup {NoKey}, max \in Budgets,
               delayed \in BOOLEAN : Enqueue(op, key, max, delayed)
         \/ OneJobMoves
         \/ Reset
<1>. USE DEF vars, jobVars, callVars, stopVars, drainVars
<1>0. stack \in Seq(Frame) /\ jobs \in [JobIds -> Job]
  BY DEF TypeOK, Frame
<1>1. ASSUME DrainStep PROVE OneJobMoves
  <2>1. Top \in DrainFrame
    BY <1>0, <1>1, StackTop, FrameKinds DEF DrainStep
  <2>2. PICK j \in Top.due : \E below : RunJob(j, below)
    BY <1>1 DEF DrainStep
  <2>3. PICK below : RunJob(j, below)
    BY <2>2
  <2>4. j \in JobIds /\ created' = created
    BY <1>1, <2>1 DEF DrainFrame, DrainStep
  <2>. QED BY <2>3, <2>4, RunJobMoves DEF OneJobMoves
<1>2. ASSUME NEW j \in JobIds, ProcessJob(j) PROVE OneJobMoves
  BY <1>2, RunJobMoves DEF ProcessJob, OneJobMoves
<1>3. ASSUME NEW j \in JobIds, NEW new, jobs' = [jobs EXCEPT ![j] = new], created' = created,
             BoardMove(jobs[j], new)
      PROVE  OneJobMoves
  BY <1>3, Zenon DEF OneJobMoves, BoardMove, SameJob
<1>4. ASSUME NEW outcome, HandlerSettles(outcome) PROVE OneJobMoves
  <2>1. PICK j \in JobIds : j = Top.job
    BY <1>0, <1>4, StackTop, FrameKinds DEF HandlerSettles, HandlerFrame
  <2>2. jobs' = [jobs EXCEPT ![j] = Settled(jobs[j], outcome)] /\ created' = created
    BY <1>4, <2>1 DEF HandlerSettles
  <2>3. BoardMove(jobs[j], Settled(jobs[j], outcome))
    BY <1>0, SettledMoves
  <2>. QED BY <1>3, <2>2, <2>3, Zenon
<1>5. ASSUME NEW a \in inFlight, NEW outcome, AsyncSettle(a, outcome) PROVE OneJobMoves
  <2>1. PICK j \in JobIds : j = a.job
    BY DEF TypeOK, Attempt
  <2>2. jobs' = [jobs EXCEPT ![j] = Settled(jobs[j], outcome)] /\ created' = created
    BY <1>5, <2>1 DEF AsyncSettle
  <2>3. BoardMove(jobs[j], Settled(jobs[j], outcome))
    BY <1>0, SettledMoves
  <2>. QED BY <1>3, <2>2, <2>3, Zenon
<1>6. ASSUME NEW j \in JobIds, Elapse(j) PROVE OneJobMoves
  <2>1. PICK new : new = [jobs[j] EXCEPT !.wait = "elapsed"]
    BY Zenon
  <2>2. BoardMove(jobs[j], new)
    BY <1>0, <2>1 DEF BoardMove, SameJob, FollowsTable, Job
  <2>3. jobs' = [jobs EXCEPT ![j] = new] /\ created' = created
    BY <1>6, <2>1 DEF Elapse
  <2>. QED BY <1>3, <2>2, <2>3, Zenon
<1>7. ASSUME NEW j \in JobIds, NEW e
      PROVE  Move(jobs[j], e) \in Job /\ BoardMove(jobs[j], Move(jobs[j], e))
  <2>1. jobs[j] \in Job
    BY <1>0
  <2>2. SameJob(jobs[j], Move(jobs[j], e))
        /\ Move(jobs[j], e).status = Resolve(WorkerJob, jobs[j].status, e)
    BY <2>1, MoveJob
  <2>3. FollowsTable(jobs[j].status, Move(jobs[j], e).status)
    BY <2>2, ResolveFollows
  <2>. QED BY <2>2, <2>3 DEF BoardMove, SameJob
<1>8. ASSUME NEW j \in JobIds, RetryJob(j) PROVE OneJobMoves
  <2>1. PICK m : m = Move(jobs[j], "retry")
    OBVIOUS
  <2>2. m \in Job /\ BoardMove(jobs[j], m)
    BY <1>7, <2>1
  <2>3. PICK new : new = [m EXCEPT !.wait = "none", !.attempts = 0]
    OBVIOUS
  <2>4. BoardMove(jobs[j], new)
    BY <2>2, <2>3, Zenon DEF BoardMove, SameJob, Job
  <2>5. jobs' = [jobs EXCEPT ![j] = new] /\ created' = created
    BY <1>8, <2>1, <2>3 DEF RetryJob
  <2>. QED BY <1>3, <2>4, <2>5, Zenon
<1>9. ASSUME NEW j \in JobIds, DeadLetter(j) PROVE OneJobMoves
  BY <1>3, <1>7, <1>9, ZenonT(40) DEF DeadLetter
<1>10. ASSUME \/ \E op \in Operations : Register(op)
              \/ \E awaits \in BOOLEAN : Drain(awaits)
              \/ DrainReturn
              \/ \E d \in drains : DrainResolve(d)
              \/ HandlerSuspends
              \/ Cancel
              \/ Shutdown
              \/ \E snap \in waiting : ShutdownResume(snap)
              \/ UNCHANGED vars
       PROVE  jobs' = jobs /\ created' = created
  BY <1>10, Zenon DEF Register, Drain, DrainReturn, DrainResolve, HandlerSuspends, Cancel, Shutdown,
               ShutdownResume
<1>. QED
  BY <1>1, <1>2, <1>4, <1>5, <1>6, <1>8, <1>9, <1>10
     DEF Next, Advance, HandlerEnds, Settles, Suspended

(* Seen changes where the jobs do (the refinement mapping). *)
LEMMA SeenAt ==
  ASSUME NEW j \in JobIds
  PROVE  /\ Seen[j] = [ operation |-> jobs[j].operation, dedupeKey |-> jobs[j].dedupeKey,
                        status |-> jobs[j].status ]
         /\ Seen'[j] = [ operation |-> jobs'[j].operation, dedupeKey |-> jobs'[j].dedupeKey,
                         status |-> jobs'[j].status ]
BY DEF Seen

(* A queue without jobs is a vacant board (createWorkerFramework, reset). *)
LEMMA VacantBoard ==
  /\ jobs = [j \in JobIds |-> NoJob] => Seen = [j \in Board!JobIds |-> Board!Vacant]
  /\ jobs' = [j \in JobIds |-> NoJob] => Seen' = [j \in Board!JobIds |-> Board!Vacant]
<1>1. [ operation |-> NoJob.operation, dedupeKey |-> NoJob.dedupeKey,
        status |-> NoJob.status ] = Board!Vacant
  BY DEF NoJob, Board!Vacant
<1>. QED BY <1>1, Zenon DEF Seen, Board!JobIds, JobIds

(* Adding a job to the queue creates one on the board (enqueue). *)
LEMMA EnqueueCreates ==
  ASSUME TypeOK, NEW op \in Operations, NEW key \in DedupeKeys \cup {NoKey}, NEW max \in Budgets,
         NEW delayed \in BOOLEAN, Enqueue(op, key, max, delayed)
  PROVE  Board!Create(op, key)
<1>. DEFINE new == NewJob(op, key, max, delayed)
<1>1. jobs \in [JobIds -> Job] /\ created \in Nat /\ created + 1 \in JobIds
  BY WorkerQueueConstants DEF Enqueue, TypeOK, JobIds
<1>2. Board!Holders(key) = {}
  <2>1. \A j \in JobIds : Pending(jobs[j].status) => Exists(j)
    BY <1>1 DEF TypeOK, Pending, Exists, JobIds
  <2>2. \A j \in JobIds : Seen[j].dedupeKey = jobs[j].dedupeKey /\ Seen[j].status = jobs[j].status
    BY DEF Seen
  <2>. QED BY <2>1, <2>2, Zenon DEF Enqueue, Duplicates, Board!Holders, Board!IsPending, Board!JobIds,
                             JobIds, Pending, Status
<1>3. [operation |-> new.operation, dedupeKey |-> new.dedupeKey, status |-> new.status]
        = Board!Queued(op, key)
  BY DEF NewJob, Board!Queued, Board!WorkerJob, WorkerJob
<1>4. jobs' = [jobs EXCEPT ![created + 1] = new] /\ created' = created + 1 /\ created < MaxJobs
  BY DEF Enqueue
<1>. HIDE DEF new
<1>5. Seen' = [Seen EXCEPT ![created + 1] = Board!Queued(op, key)]
  <2>1. jobs'[created + 1] = new /\ \A j \in JobIds : j # created + 1 => jobs'[j] = jobs[j]
    BY <1>1, <1>4
  <2>2. Seen'[created + 1] = Board!Queued(op, key)
    BY <1>1, <1>3, <2>1, SeenAt, Zenon
  <2>3. \A j \in JobIds : j # created + 1 => Seen'[j] = Seen[j]
    BY <2>1, SeenAt, Zenon
  <2>4. Seen' = [j \in JobIds |-> Seen'[j]] /\ Seen = [j \in JobIds |-> Seen[j]]
    BY DEF Seen
  <2>. QED BY <1>1, <2>2, <2>3, <2>4
<1>. QED BY <1>2, <1>4, <1>5 DEF Board!Create

(* A move of one job is a move on the board, or is not seen (move). *)
LEMMA MoveTakes ==
  ASSUME TypeOK, OneJobMoves
  PROVE  (\E j \in Board!JobIds : Board!Take(j)) \/ UNCHANGED <<Seen, created>>
<1>1. PICK j \in JobIds, new \in Job : jobs' = [jobs EXCEPT ![j] = new] /\ BoardMove(jobs[j], new)
  BY Zenon DEF OneJobMoves
<1>2. /\ jobs'[j] = new /\ \A k \in JobIds : k # j => jobs'[k] = jobs[k]
      /\ created' = created
  BY <1>1 DEF TypeOK, OneJobMoves
<1>3. new.operation = jobs[j].operation /\ new.dedupeKey = jobs[j].dedupeKey
  BY <1>1 DEF BoardMove, SameJob
<1>4. \A k \in JobIds : k # j => Seen'[k] = Seen[k]
  BY <1>2, SeenAt, Zenon
<1>5. Seen' = [k \in JobIds |-> Seen'[k]] /\ Seen = [k \in JobIds |-> Seen[k]]
  BY DEF Seen
<1>6. CASE new.status = jobs[j].status
  <2>1. Seen'[j] = Seen[j]
    BY <1>2, <1>3, <1>6, SeenAt, Zenon
  <2>. QED BY <1>2, <1>4, <1>5, <2>1
<1>7. CASE new.status # jobs[j].status
  <2>1. PICK r \in WorkerJob.rules : r[1] = jobs[j].status /\ r[3] = new.status
    BY <1>1, <1>7 DEF BoardMove, FollowsTable
  <2>2. PICK s : s = Seen[j]
    OBVIOUS
  <2>3. /\ s = [ operation |-> jobs[j].operation, dedupeKey |-> jobs[j].dedupeKey,
                 status |-> jobs[j].status ]
        /\ Seen'[j] = [ operation |-> jobs[j].operation, dedupeKey |-> jobs[j].dedupeKey,
                        status |-> r[3] ]
    BY <1>2, <1>3, <2>1, <2>2, SeenAt
  <2>4. Seen'[j] = [s EXCEPT !.status = r[3]] /\ s.status = r[1]
    BY <2>1, <2>3
  <2>5. Seen' = [Seen EXCEPT ![j] = [s EXCEPT !.status = r[3]]]
    BY <1>4, <1>5, <2>4
  <2>6. Seen' = [Seen EXCEPT ![j].status = r[3]] /\ r[1] = Seen[j].status
    BY <2>2, <2>4, <2>5
  <2>7. Board!Take(j)
    <3>1. Board!WorkerJob = WorkerJob
      BY DEF Board!WorkerJob, WorkerJob
    <3>. QED BY <1>2, <2>1, <2>6, <3>1, Zenon DEF Board!Take
  <2>. QED BY <2>7 DEF Board!JobIds, JobIds
<1>. QED BY <1>6, <1>7

(***************************************************************************)
(* The worker queue implements the job board: jobs appear queued and one   *)
(* at a time, never next to a pending job of their dedupe key, and move    *)
(* one at a time along the worker_job table (enqueue, move, reset).        *)
(***************************************************************************)
THEOREM QueueIsABoard == Spec => ImplementsBoard
<1>1. Init => Board!BoardInit
  BY VacantBoard DEF Init, Board!BoardInit
<1>2. TypeOK /\ [Next]_vars => [Board!BoardNext]_<<Seen, created>>
  <2>. SUFFICES ASSUME TypeOK, [Next]_vars
                PROVE  Board!BoardNext \/ UNCHANGED <<Seen, created>>
    OBVIOUS
  <2>1. CASE jobs' = jobs /\ created' = created
    BY <2>1 DEF Seen
  <2>2. CASE \E op \in Operations, key \in DedupeKeys \cup {NoKey}, max \in Budgets,
                delayed \in BOOLEAN : Enqueue(op, key, max, delayed)
    BY <2>2, EnqueueCreates DEF Board!BoardNext
  <2>3. CASE OneJobMoves
    BY <2>3, MoveTakes DEF Board!BoardNext
  <2>4. CASE Reset
    BY <2>4, VacantBoard DEF Reset, Board!Clear, Board!BoardNext
  <2>. QED BY <2>1, <2>2, <2>3, <2>4, JobsChange
<1>. QED BY <1>1, <1>2, TypeCorrect, PTL DEF Spec, ImplementsBoard, Board!BoardSpec, Board!boardVars
=============================================================================
