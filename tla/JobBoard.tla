------------------------------ MODULE JobBoard ------------------------------
(***************************************************************************)
(* What the worker queue promises to its neighbours: a board of jobs that  *)
(* are created queued, one at a time, unless a pending job holds the same  *)
(* dedupe key, and that move one at a time along the worker_job table.     *)
(* When and why they move is left open.  WorkerQueue implements it; the    *)
(* gate and submit are built on it.                                        *)
(***************************************************************************)
EXTENDS Integers, FiniteSets, Lifecycle

CONSTANTS
  MaxJobs,     \* bound: jobs created between two resets
  Operations,  \* operation names
  DedupeKeys,  \* dedupe keys a caller may pass
  NoKey        \* "no dedupe key was given"

ASSUME BoardConstants == MaxJobs \in Nat

JobIds == 1..MaxJobs

VARIABLES
  board,    \* the jobs map: operation, dedupe key and status of each job
  created   \* how many jobs the map holds; their ids are 1..created

boardVars == <<board, created>>

(* A place on the board that holds no job. *)
Vacant == [ operation |-> CHOOSE o \in Operations : TRUE, dedupeKey |-> NoKey,
            status |-> "absent" ]

IsPending(s) == s \in {"queued", "retrying"}

(* findingDedupe *)
Holders(key) ==
  {j \in JobIds : key # NoKey /\ board[j].dedupeKey = key /\ IsPending(board[j].status)}

Queued(op, key) == [operation |-> op, dedupeKey |-> key, status |-> WorkerJob.initial]

(* enqueue *)
Create(op, key) ==
  /\ created < MaxJobs
  /\ Holders(key) = {}
  /\ board' = [board EXCEPT ![created + 1] = Queued(op, key)]
  /\ created' = created + 1

(* move: one job takes one rule of the table. *)
Take(j) ==
  /\ \E r \in WorkerJob.rules :
       /\ r[1] = board[j].status
       /\ board' = [board EXCEPT ![j].status = r[3]]
  /\ UNCHANGED created

(* reset *)
Clear ==
  /\ board' = [j \in JobIds |-> Vacant]
  /\ created' = 0

BoardInit == board = [j \in JobIds |-> Vacant] /\ created = 0

BoardNext ==
  \/ \E op \in Operations, key \in DedupeKeys \cup {NoKey} : Create(op, key)
  \/ \E j \in JobIds : Take(j)
  \/ Clear

BoardSpec == BoardInit /\ [][BoardNext]_boardVars
=============================================================================
