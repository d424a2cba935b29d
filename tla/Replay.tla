------------------------------- MODULE Replay -------------------------------
(***************************************************************************)
(* The event replay engine (core/replay/replay.ts, store.ts): runs that    *)
(* fold the event log into the slot of one projection version, under a     *)
(* lock that lapses, and the pointer to the version that readers use.      *)
(*                                                                         *)
(* A run awaits only its reads of the log, with their retries, so a step   *)
(* goes from one read to the next.  Events are their sequence numbers and  *)
(* a projection's state is the sequence of events applied to it.  Dry runs *)
(* write nothing and are left out, and so is untilSequence, a log that     *)
(* ends early; upcasting and counts are data.                              *)
(***************************************************************************)
EXTENDS Naturals, Sequences, FiniteSetsExt, SequencesExt

CONSTANTS
  NEvents,      \* the log grows up to this many events
  Poison,       \* the events that cannot be applied
  ReplayBatch,  \* batchSize
  Versions,     \* versions of the projection, numbers from 1
  RunOptions,   \* do calls skip poison (poisonPolicy), do they promote? pairs
  Replays       \* calls of replayProjection

ASSUME ReplayConstants ==
  /\ NEvents \in Nat /\ ReplayBatch \in Nat \ {0}
  /\ Versions \subseteq Nat \ {0} /\ Poison \subseteq 1..NEvents
  /\ RunOptions \subseteq BOOLEAN \X BOOLEAN

VARIABLES
  logEnd,     \* the last event in the log
  slots,      \* slots[v]: the stored slot of version v
  active,     \* the version readers use and the one before it; 0 for none
  lock,       \* the run that holds the projection's lock, and has it lapsed?
  replay,     \* replay[r]: the run r
  disturbed   \* has a run outlived its lock or had the pointer moved under it?

replayVars == <<logEnd, slots, active, lock, replay, disturbed>>

EmptySlot == [status |-> "none", state |-> <<>>, checkpoint |-> 0]
Nobody == "nobody"
Free == [owner |-> Nobody, lapsed |-> FALSE]

(* A run: its version and options, whether the version was live and which  *)
(* version was when it began, and its state and checkpoint.                *)
Ended == [pc |-> "idle", version |-> 0, skip |-> FALSE, promote |-> FALSE, live |-> FALSE,
          activeThen |-> 0, state |-> <<>>, checkpoint |-> 0]

-----------------------------------------------------------------------------
(* acquireLock: it is free, lapsed or one's own already. *)
OwnsLock(r) == lock.owner \in {Nobody, r} \/ lock.lapsed

Held(r) == [owner |-> r, lapsed |-> FALSE]

(* releaseLock *)
Released(r) == IF lock.owner = r THEN Free ELSE lock

(* Mutant: a slot claims the log up to its end. *)
SlotAhead(run, status) == [status |-> status, state |-> run.state, checkpoint |-> logEnd]

SlotOf(run, status) == [status |-> status, state |-> run.state, checkpoint |-> run.checkpoint]

(* Mutant: no version counts as live. *)
NeverLive(v) == FALSE

IsLive(v) == active.version = v

(* A rebuild spares the live version; a resume needs a slot. *)
MayReplay(v, mode) ==
  IF mode = "rebuild" THEN ~IsLive(v) ELSE slots[v].status # "none"

(* replayProjection up to its first read. *)
ReplayBegins(r, v, mode, skip, promote) ==
  LET from == IF mode = "resume" THEN slots[v] ELSE EmptySlot
      run == [pc |-> "reading", version |-> v, skip |-> skip, promote |-> promote,
              live |-> IsLive(v), activeThen |-> active.version,
              state |-> from.state, checkpoint |-> from.checkpoint]
  IN /\ replay[r] = Ended /\ MayReplay(v, mode) /\ OwnsLock(r)
     /\ lock' = Held(r)
     /\ replay' = [replay EXCEPT ![r] = run]
     /\ slots' = IF mode = "rebuild" /\ ~run.live
                 THEN [slots EXCEPT ![v] = SlotOf(run, "building")] ELSE slots
     /\ UNCHANGED <<logEnd, active, disturbed>>

(* The run ends without a word in its slot: another one owns the lock. *)
LosesLock(r) ==
  /\ ~OwnsLock(r)
  /\ replay' = [replay EXCEPT ![r] = Ended]
  /\ UNCHANGED <<logEnd, slots, active, lock, disturbed>>

(* halt: a staging slot keeps what was applied, for a resume. *)
Halts(r, run) ==
  /\ IF ~run.live /\ OwnsLock(r)
     THEN slots' = [slots EXCEPT ![run.version] = SlotOf(run, "failed")] /\ lock' = Free
     ELSE slots' = slots /\ lock' = Released(r)
  /\ replay' = [replay EXCEPT ![r] = Ended]
  /\ UNCHANGED <<logEnd, active, disturbed>>

(* The loop over a batch: it skips poison events or stops before the first. *)
Applied(run, events) ==
  LET bad == {i \in DOMAIN events : events[i] \in Poison}
      taken == IF run.skip \/ bad = {} THEN events ELSE SubSeq(events, 1, Min(bad) - 1)
  IN [run EXCEPT !.state = @ \o SelectSeq(taken, LAMBDA e : e \notin Poison),
                 !.checkpoint = IF taken = <<>> THEN @ ELSE Last(taken)]

(* The events a read returns after checkpoint c. *)
BatchAfter(c) == [i \in 1..Min({ReplayBatch, logEnd - c}) |-> c + i]

(* A read returned events: apply them, and commit them to a staging slot. *)
EventsArrive(r) ==
  LET run == replay[r]
      batch == BatchAfter(run.checkpoint)
      next == Applied(run, batch)
  IN /\ run.pc = "reading" /\ batch # <<>>
     /\ \/ next.checkpoint # Last(batch) /\ Halts(r, next)
        \/ next.checkpoint = Last(batch) /\ LosesLock(r)
        \/ /\ next.checkpoint = Last(batch) /\ OwnsLock(r)
           /\ lock' = Held(r)
           /\ replay' = [replay EXCEPT ![r] = next]
           /\ slots' = IF run.live THEN slots
                       ELSE [slots EXCEPT ![run.version] = SlotOf(next, "building")]
           /\ UNCHANGED <<logEnd, active, disturbed>>

(* The log is read to its end: the state is valid, so the slot is ready.   *)
LogEnds(r) ==
  LET run == replay[r]
  IN /\ run.pc = "reading" /\ BatchAfter(run.checkpoint) = <<>>
     /\ \/ LosesLock(r)
        \/ /\ OwnsLock(r)
           /\ slots' = [slots EXCEPT ![run.version] = SlotOf(run, "ready")]
           /\ active' = IF run.promote /\ ~run.live
                        THEN [version |-> run.version, previous |-> run.activeThen] ELSE active
           /\ replay' = [replay EXCEPT ![r] = Ended]
           /\ lock' = Free
           /\ UNCHANGED <<logEnd, disturbed>>

(* The source stays unavailable through all retries, an event needs a      *)
(* missing upcaster, too many were skipped, or validation fails.           *)
ReplayFails(r) == replay[r].pc = "reading" /\ Halts(r, replay[r])

(* The process dies during a read; its lock stays until it lapses. *)
ReplayDies(r) ==
  /\ replay[r].pc = "reading"
  /\ replay' = [replay EXCEPT ![r] = Ended]
  /\ lock' = IF lock.owner = r THEN [lock EXCEPT !.owner = "dead"] ELSE lock
  /\ UNCHANGED <<logEnd, slots, active, disturbed>>

(* lockTtlMs passes since the lock was last refreshed. *)
LockLapses ==
  /\ lock.owner # Nobody /\ ~lock.lapsed
  /\ lock' = [lock EXCEPT !.lapsed = TRUE]
  /\ disturbed' = (disturbed \/ lock.owner \in Replays)
  /\ UNCHANGED <<logEnd, slots, active, replay>>

-----------------------------------------------------------------------------
(* swapActive: only to another version that is ready; it takes no lock. *)
SwapActive(v) ==
  /\ v # 0 /\ slots[v].status = "ready" /\ v # active.version
  /\ active' = [version |-> v, previous |-> active.version]
  /\ disturbed' = (disturbed \/ \E r \in Replays : replay[r] # Ended)
  /\ UNCHANGED <<logEnd, slots, lock, replay>>

PromoteProjection(v) == SwapActive(v)
RollbackProjection == active.previous # 0 /\ SwapActive(active.previous)

EventAppended ==
  /\ logEnd < NEvents
  /\ logEnd' = logEnd + 1
  /\ UNCHANGED <<slots, active, lock, replay, disturbed>>

ReplayInit ==
  /\ logEnd = 0
  /\ slots = [v \in Versions |-> EmptySlot]
  /\ active = [version |-> 0, previous |-> 0]
  /\ lock = Free
  /\ replay = [r \in Replays |-> Ended]
  /\ disturbed = FALSE

ReplayNext ==
  \/ \E r \in Replays :
       \/ \E v \in Versions, mode \in {"rebuild", "resume"}, option \in RunOptions :
            ReplayBegins(r, v, mode, option[1], option[2])
       \/ EventsArrive(r)
       \/ LogEnds(r)
       \/ ReplayFails(r)
       \/ ReplayDies(r)
  \/ LockLapses
  \/ \E v \in Versions : PromoteProjection(v)
  \/ RollbackProjection
  \/ EventAppended

-----------------------------------------------------------------------------
(***************************************************************************)
(* A slot holds exactly the events up to its checkpoint that can be        *)
(* applied, each once and in order, whichever runs failed, died, lost the  *)
(* lock or resumed (replayProjection, writeSlot).  And readers never see a *)
(* version that is being built or has failed: while runs keep within their *)
(* lock and the pointer is left alone under them, the active slot is ready *)
(* (version_active, commitPerBatch, swapActive).                           *)
(***************************************************************************)
ProjectionIsPrefix ==
  /\ \A v \in Versions :
       slots[v].state = SelectSeq([i \in 1..slots[v].checkpoint |-> i], LAMBDA e : e \notin Poison)
  /\ ~disturbed /\ active.version # 0 => slots[active.version].status = "ready"

=============================================================================
