---------------------------- MODULE Idempotency ----------------------------
(***************************************************************************)
(* The idempotency store of core/idempotency and its wrapper               *)
(* withIdempotency, used by several tabs that share one storage.           *)
(*                                                                         *)
(* A call claims its key, runs the work, which takes time, and records the *)
(* outcome by key.  Meanwhile other calls present the same key, operators  *)
(* abandon, look up, sweep or reset, time-to-live periods pass and tabs    *)
(* reload.  begin, complete, fail, abandon, lookup, sweep and reset are    *)
(* synchronous, so each is one step; begin reads and writes the storage    *)
(* without a lock, so two tabs in the same instant are not covered.        *)
(*                                                                         *)
(* The operation name and the request are compared by begin in the same    *)
(* way and with the same answer: a request here stands for both.  Missing  *)
(* and malformed keys are refused without a trace and are left out, as are *)
(* timestamps, correlation ids, the replay counter and telemetry.          *)
(***************************************************************************)
EXTENDS Integers, FiniteSets

CONSTANTS
  Keys,               \* valid idempotency keys
  Requests,           \* operation and payload of a call
  Digest,             \* requestDigest, a function of the request
  Tabs,               \* realms that share the storage
  Values,             \* what a run may return: "plain", "secret", "unwritable"
  CallsPerTab,        \* bound on concurrent calls of one tab
  MaxStarts,          \* bound on the runs of one key
  FreeWhileRunning,   \* may abandon or reset free a key while a call of it runs?
  ExpireWhileRunning, \* may the time-to-live of a key pass while a call of it runs?
  StorageCanFail      \* may setItem throw when an outcome is recorded?

ASSUME IdempotencyConstants ==
  /\ Values \subseteq {"plain", "secret", "unwritable"}
  /\ CallsPerTab \in Nat \ {0} /\ MaxStarts \in Nat \ {0}
  /\ FreeWhileRunning \in BOOLEAN /\ ExpireWhileRunning \in BOOLEAN /\ StorageCanFail \in BOOLEAN
  /\ DOMAIN Digest = Requests
  /\ "none" \notin Keys

Callers == Tabs \X (1..CallsPerTab)

VARIABLES
  store,     \* the shared storage: key -> record
  known,     \* tab -> the keys its store instance claimed (knownKeys)
  calls,     \* withIdempotency calls whose work is running
  answer,    \* the last answer a call was given
  started,   \* key -> runs started (history)
  freed,     \* key -> times the record of the key was removed (history)
  released,  \* key -> times it was removed by abandon or reset (history)
  produced   \* what runs produced, by key and request (history)

history == <<started, freed, released, produced>>
vars == <<store, known, calls, answer, history>>

-----------------------------------------------------------------------------
NoRecord == [status |-> "none"]

(* What a record holds: a redacted response or a failure code. *)
Recorded == {"plain", "redacted", "failed", "threw"}

IdempotencyRecord ==
  [ status : {"in_flight"}, digest : {Digest[r] : r \in Requests}, expired : BOOLEAN ]
    \cup
  [ status : {"completed", "failed"}, digest : {Digest[r] : r \in Requests},
    expired : BOOLEAN, outcome : Recorded ]

NoCall == [key |-> "none"]
Call == [key : Keys, request : Requests]

Answer == [kind : {"fresh", "replay", "error", "none"}, key : Keys \cup {"none"},
           request : Requests \cup {"none"}, outcome : Recorded \cup Values \cup {"none"}]
NoAnswer == [kind |-> "none", key |-> "none", request |-> "none", outcome |-> "none"]

Outcomes == Values \cup {"failed", "threw"}

TypeOK ==
  /\ store \in [Keys -> IdempotencyRecord \cup {NoRecord}]
  /\ known \in [Tabs -> SUBSET Keys]
  /\ calls \in [Callers -> Call \cup {NoCall}]
  /\ answer \in Answer
  /\ started \in [Keys -> Nat] /\ freed \in [Keys -> Nat] /\ released \in [Keys -> Nat]
  /\ produced \subseteq [key : Keys, request : Requests, outcome : Outcomes]

Running(c) == calls[c] # NoCall
RunsOf(k) == {c \in Callers : calls[c].key = k}
InFlight(k) == store[k].status = "in_flight"
Expired(k) == store[k] # NoRecord /\ store[k].expired

(* write: an object response is redacted before it is stored. *)
Redact(v) == IF v = "secret" THEN "redacted" ELSE v

Quiet(k) == RunsOf(k) = {}

-----------------------------------------------------------------------------
(* The record of a removed key is gone from the storage; known is not told. *)
Remove(ks) ==
  /\ store' = [k \in Keys |-> IF k \in ks THEN NoRecord ELSE store[k]]
  /\ freed' = [k \in Keys |-> IF k \in ks THEN freed[k] + 1 ELSE freed[k]]

Answered(kind, c, outcome) ==
  answer' = [kind |-> kind, key |-> c.key, request |-> c.request, outcome |-> outcome]

(* Mutants: an in-flight record, or a failed one, does not stop a new claim. *)
ClaimOver(c, call, status) ==
  /\ store[call.key].status \in {"none", status}
  /\ started[call.key] < MaxStarts
  /\ store' = [store EXCEPT ![call.key] =
       [status |-> "in_flight", digest |-> Digest[call.request], expired |-> FALSE]]
  /\ known' = [known EXCEPT ![c[1]] = @ \cup {call.key}]
  /\ calls' = [calls EXCEPT ![c] = call]
  /\ started' = [started EXCEPT ![call.key] = @ + 1]
  /\ UNCHANGED <<answer, freed, released, produced>>
ClaimInFlight(c, call) == ClaimOver(c, call, "in_flight")
(* begin finds no record: claim, and the work starts. *)
Claim(c, call) ==
  /\ store[call.key] = NoRecord
  /\ started[call.key] < MaxStarts
  /\ store' = [store EXCEPT ![call.key] =
       [status |-> "in_flight", digest |-> Digest[call.request], expired |-> FALSE]]
  /\ known' = [known EXCEPT ![c[1]] = @ \cup {call.key}]
  /\ calls' = [calls EXCEPT ![c] = call]
  /\ started' = [started EXCEPT ![call.key] = @ + 1]
  /\ UNCHANGED <<answer, freed, released, produced>>

(* Mutant: an expired record is refused and kept. *)
RefuseExpiredAndKeep(c, call) ==
  /\ Expired(call.key)
  /\ Answered("error", call, "none")
  /\ UNCHANGED <<store, known, calls, history>>

(* begin finds an expired record, drops it and refuses. *)
RefuseExpired(c, call) ==
  /\ Expired(call.key)
  /\ Remove({call.key})
  /\ Answered("error", call, "none")
  /\ UNCHANGED <<known, calls, started, released, produced>>

(* begin finds another request under the key, or the first one in flight. *)
Refuse(c, call) ==
  /\ store[call.key] # NoRecord /\ ~Expired(call.key)
  /\ store[call.key].digest # Digest[call.request] \/ InFlight(call.key)
  /\ Answered("error", call, "none")
  /\ UNCHANGED <<store, known, calls, history>>

(* Mutant: the digest is not compared. *)
ReplayAnyRequest(c, call) ==
  /\ store[call.key] # NoRecord /\ ~Expired(call.key) /\ ~InFlight(call.key)
  /\ Answered("replay", call, store[call.key].outcome)
  /\ UNCHANGED <<store, known, calls, history>>

(* begin finds the settled record of the same request and replays it. *)
Replay(c, call) ==
  /\ store[call.key] # NoRecord /\ ~Expired(call.key) /\ ~InFlight(call.key)
  /\ store[call.key].digest = Digest[call.request]
  /\ Answered("replay", call, store[call.key].outcome)
  /\ UNCHANGED <<store, known, calls, history>>

(* withIdempotency up to its first await. *)
Begin(c, call) ==
  /\ ~Running(c)
  /\ Claim(c, call) \/ RefuseExpired(c, call) \/ Refuse(c, call) \/ Replay(c, call)

-----------------------------------------------------------------------------
(* The work of a call is done and its outcome is recorded under the key. *)

Settled(k, status, outcome) ==
  [status |-> status, digest |-> store[k].digest, expired |-> store[k].expired,
   outcome |-> outcome]

(* Mutant: complete and fail do not look at the status. *)
RecordOverSettled(k, status, outcome) ==
  /\ store[k] # NoRecord
  /\ store' = [store EXCEPT ![k] = Settled(k, status, outcome)]

(* complete and fail: only an in-flight record is settled. *)
Record(k, status, outcome) ==
  /\ InFlight(k)
  /\ store' = [store EXCEPT ![k] = Settled(k, status, outcome)]

(***************************************************************************)
(* The work succeeded.  If complete throws, because the response cannot be *)
(* serialised or the storage refuses, the catch block records a failure,   *)
(* and when that throws too the claim stays in flight.                     *)
(***************************************************************************)
SettleSuccess(c, v) ==
  LET call == calls[c]
      k == call.key
  IN \/ /\ v # "unwritable"
        /\ Record(k, "completed", Redact(v))
        /\ Answered("fresh", call, v)
     \/ /\ v = "unwritable" \/ StorageCanFail
        /\ Record(k, "failed", "threw")
        /\ Answered("error", call, "none")
     \/ /\ ~InFlight(k) \/ StorageCanFail
        /\ Answered("error", call, "none")
        /\ UNCHANGED store

(* The work answered an error, or threw. *)
SettleFailure(c, outcome) ==
  /\ Answered("error", calls[c], "none")
  /\ \/ Record(calls[c].key, "failed", outcome)
     \/ /\ ~InFlight(calls[c].key) \/ StorageCanFail
        /\ UNCHANGED store

(* withIdempotency from the end of the work on. *)
Settle(c) ==
  /\ Running(c)
  /\ \E outcome \in Outcomes :
       /\ IF outcome \in Values THEN SettleSuccess(c, outcome) ELSE SettleFailure(c, outcome)
       /\ produced' = produced \cup
            {[key |-> calls[c].key, request |-> calls[c].request, outcome |-> outcome]}
  /\ calls' = [calls EXCEPT ![c] = NoCall]
  /\ UNCHANGED <<known, started, freed, released>>

-----------------------------------------------------------------------------
(* Housekeeping and the environment *)

Abandon(k) ==
  /\ InFlight(k)
  /\ Quiet(k) \/ FreeWhileRunning
  /\ Remove({k})
  /\ released' = [released EXCEPT ![k] = @ + 1]
  /\ UNCHANGED <<known, calls, answer, started, produced>>

(* lookup drops an expired record; otherwise it only reads. *)
Lookup(k) ==
  /\ Expired(k)
  /\ Remove({k})
  /\ UNCHANGED <<known, calls, answer, started, released, produced>>

(* sweep sees the keys of all(): the ones this instance claimed. *)
Sweep(t) ==
  LET dropped == {k \in known[t] : Expired(k)}
  IN /\ Remove(dropped)
     /\ known' = [known EXCEPT ![t] = @ \ dropped]
     /\ UNCHANGED <<calls, answer, started, released, produced>>

Reset(t) ==
  LET dropped == {k \in known[t] : store[k] # NoRecord}
  IN /\ \A k \in dropped : Quiet(k) \/ FreeWhileRunning
     /\ Remove(dropped)
     /\ known' = [known EXCEPT ![t] = {}]
     /\ released' = [k \in Keys |-> IF k \in dropped THEN released[k] + 1 ELSE released[k]]
     /\ UNCHANGED <<calls, answer, started, produced>>

(* The time-to-live of a record passes. *)
Expire(k) ==
  /\ store[k] # NoRecord /\ ~Expired(k)
  /\ Quiet(k) \/ ExpireWhileRunning
  /\ store' = [store EXCEPT ![k].expired = TRUE]
  /\ UNCHANGED <<known, calls, answer, history>>

(* A tab reloads: its calls and its instance are gone, the storage is not. *)
Reload(t) ==
  /\ calls' = [c \in Callers |-> IF c[1] = t THEN NoCall ELSE calls[c]]
  /\ known' = [known EXCEPT ![t] = {}]
  /\ UNCHANGED <<store, answer, history>>

-----------------------------------------------------------------------------
Init ==
  /\ store = [k \in Keys |-> NoRecord]
  /\ known = [t \in Tabs |-> {}]
  /\ calls = [c \in Callers |-> NoCall]
  /\ answer = NoAnswer
  /\ started = [k \in Keys |-> 0] /\ freed = [k \in Keys |-> 0]
  /\ released = [k \in Keys |-> 0] /\ produced = {}

(* Some caller presents key k. *)
Presented(k) == \E c \in Callers, call \in Call : call.key = k /\ Begin(c, call)

Next ==
  \/ \E k \in Keys : Presented(k) \/ Abandon(k) \/ Lookup(k) \/ Expire(k)
  \/ \E c \in Callers : Settle(c)
  \/ \E t \in Tabs : Sweep(t) \/ Reset(t) \/ Reload(t)

Spec == Init /\ [][Next]_vars

(***************************************************************************)
(* Time passes, started work ends or its tab goes away, and a key that is  *)
(* needed is presented again: the retry loop of the caller.                *)
(***************************************************************************)
FairSpec ==
  /\ Spec
  /\ \A c \in Callers : WF_vars(Settle(c))
  /\ \A k \in Keys : WF_vars(Expire(k)) /\ WF_vars(Presented(k))

-----------------------------------------------------------------------------
(* Safety *)

(***************************************************************************)
(* While the work of a key runs no other call runs it, in whatever tab     *)
(* (begin, claim).                                                         *)
(***************************************************************************)
OneRunPerKey == \A c, d \in Callers : Running(c) /\ calls[c].key = calls[d].key => c = d

(***************************************************************************)
(* A replay is the outcome of a run of that very request under that key,   *)
(* as it was stored (begin, complete, fail).                               *)
(***************************************************************************)
ReplayIsReal ==
  answer.kind = "replay" =>
    \E p \in produced : /\ p.key = answer.key /\ p.request = answer.request
                        /\ Redact(p.outcome) = answer.outcome

(***************************************************************************)
(* The work of a key is run by one call at a time, and the other calls are *)
(* given what it produced for their very request (begin, complete, fail).  *)
(***************************************************************************)
ServesOnce == OneRunPerKey /\ ReplayIsReal

(***************************************************************************)
(* A recorded outcome is final: nobody overwrites it, whoever settles late *)
(* (complete, fail).                                                       *)
(***************************************************************************)
OutcomeIsFinal ==
  [][\A k \in Keys : store[k].status \in {"completed", "failed"} =>
       \/ store'[k] = NoRecord
       \/ /\ store'[k].status = store[k].status
          /\ store'[k].outcome = store[k].outcome]_vars

(***************************************************************************)
(* Every run of a key after the first was made possible by the removal of  *)
(* its record: failures and reloads alone never re-run work (begin).       *)
(***************************************************************************)
RunsNeedRelease == \A k \in Keys : started[k] <= 1 + freed[k]

(***************************************************************************)
(* Only an explicit release lets the work of a key run again; an expired   *)
(* key is an error and never a second run (begin).                         *)
(***************************************************************************)
OnlyReleaseReruns == \A k \in Keys : started[k] <= 1 + released[k]

(* After sweep() no expired record is left in the storage (sweep, all). *)
SweepIsComplete == [][(\E t \in Tabs : Sweep(t)) => \A k \in Keys : ~Expired(k)']_vars

-----------------------------------------------------------------------------
(* Liveness *)

(***************************************************************************)
(* A key is not in flight for ever, even if the tab that claimed it is     *)
(* gone: the retries of the caller free it once it has expired (begin).    *)
(***************************************************************************)
EveryClaimEnds == \A k \in Keys : InFlight(k) ~> ~InFlight(k)
=============================================================================
