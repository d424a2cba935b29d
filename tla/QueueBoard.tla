----------------------------- MODULE QueueBoard -----------------------------
(***************************************************************************)
(* The worker queue implements the job board: of a job only its operation, *)
(* its dedupe key and its status are seen, and of the steps only those     *)
(* that change one of them.                                                *)
(***************************************************************************)
EXTENDS WorkerQueue

(* What the neighbours of the queue see of its jobs map. *)
Seen == [j \in JobIds |-> [ operation |-> jobs[j].operation,
                            dedupeKey |-> jobs[j].dedupeKey,
                            status    |-> jobs[j].status ]]

Board == INSTANCE JobBoard WITH board <- Seen

(***************************************************************************)
(* Whatever handlers, operators and shutdowns do, jobs appear queued and   *)
(* one at a time, never next to a pending job of the same dedupe key, and  *)
(* move one at a time along the worker_job table (enqueue, move, reset).   *)
(***************************************************************************)
ImplementsBoard == Board!BoardSpec
=============================================================================
