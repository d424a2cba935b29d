----------------------------- MODULE Lifecycle -----------------------------
(***************************************************************************)
(* The declarative state machines of core/lifecycle.                       *)
(*                                                                         *)
(* A machine is a record with its initial state, its states, its terminal  *)
(* states and a set of rules <<from, event, to>>.  Resolve is the lookup   *)
(* every mutating path goes through; a move that the table omits is        *)
(* refused and leaves the record where it was.  The concrete machines are  *)
(* the tables of core/lifecycle/records.ts and of core/operations.         *)
(*                                                                         *)
(* Telemetry and audit emission of applyTransition are left out: no record *)
(* state depends on them.                                                  *)
(***************************************************************************)

(***************************************************************************)
(* validateDefinition: what createLifecycle refuses to build.  It throws   *)
(* on an undeclared initial, terminal or rule state, on a rule that leaves *)
(* a terminal state and on two rules for one (from, event) pair.           *)
(***************************************************************************)
ValidDefinition(m) ==
  /\ m.initial \in m.states
  /\ m.terminal \subseteq m.states
  /\ \A r \in m.rules : /\ r[1] \in m.states \ m.terminal
                        /\ r[3] \in m.states
  /\ \A r, q \in m.rules : r[1] = q[1] /\ r[2] = q[2] => r = q

(***************************************************************************)
(* canTransition and resolve.  Resolve answers the state after the event,  *)
(* which is the state itself when the table has no rule for it.            *)
(***************************************************************************)
CanTransition(m, from, event) ==
  \E r \in m.rules : r[1] = from /\ r[2] = event

Resolve(m, from, event) ==
  IF CanTransition(m, from, event)
  THEN (CHOOSE r \in m.rules : r[1] = from /\ r[2] = event)[3]
  ELSE from

IsTerminal(m, s) == s \in m.terminal

-----------------------------------------------------------------------------
(* workerJobMachine *)
WorkerJob ==
  [ initial  |-> "queued",
    states   |-> {"queued", "running", "retrying", "succeeded", "dead_lettered"},
    terminal |-> {"succeeded", "dead_lettered"},
    rules    |-> { <<"queued",   "start",       "running">>,
                   <<"queued",   "fail",        "retrying">>,
                   <<"queued",   "dead_letter", "dead_lettered">>,
                   <<"running",  "succeed",     "succeeded">>,
                   <<"running",  "fail",        "retrying">>,
                   <<"running",  "exhaust",     "dead_lettered">>,
                   <<"running",  "dead_letter", "dead_lettered">>,
                   <<"retrying", "start",       "running">>,
                   <<"retrying", "fail",        "retrying">>,
                   <<"retrying", "exhaust",     "dead_lettered">>,
                   <<"retrying", "retry",       "queued">>,
                   <<"retrying", "dead_letter", "dead_lettered">> } ]

(* The recoverable multi-step operation of core/operations/recovery.ts. *)
RecoverableOperation ==
  [ initial  |-> "pending",
    states   |-> {"pending", "running", "interrupted", "completed", "failed", "abandoned"},
    terminal |-> {"completed", "abandoned"},
    rules    |-> { <<"pending",     "start",     "running">>,
                   <<"pending",     "abandon",   "abandoned">>,
                   <<"running",     "complete",  "completed">>,
                   <<"running",     "interrupt", "interrupted">>,
                   <<"running",     "fail",      "failed">>,
                   <<"running",     "abandon",   "abandoned">>,
                   <<"interrupted", "resume",    "running">>,
                   <<"interrupted", "complete",  "completed">>,
                   <<"interrupted", "fail",      "failed">>,
                   <<"interrupted", "abandon",   "abandoned">>,
                   <<"failed",      "retry",     "running">>,
                   <<"failed",      "abandon",   "abandoned">> } ]

ASSUME WorkerJobIsValid == ValidDefinition(WorkerJob)

ASSUME RecoverableOperationIsValid == ValidDefinition(RecoverableOperation)
=============================================================================
