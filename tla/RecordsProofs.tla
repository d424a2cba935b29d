---------------------------- MODULE RecordsProofs ----------------------------
(***************************************************************************)
(* What is proved of the two stores that keep a record of what was done:   *)
(* the idempotency store, for any number of tabs, calls, keys and          *)
(* requests, and the hash-chained ledger, for any limit and any clock.     *)
(***************************************************************************)
EXTENDS Idempotency, Ledger, SequenceTheorems, WellFoundedInduction, TLAPS

-----------------------------------------------------------------------------
(***************************************************************************)
(* The idempotency store: types, that recorded outcomes are final, that    *)
(* work runs again only when its record was removed and, when no key is    *)
(* freed while its work runs, that at most one call runs a key.            *)
(***************************************************************************)
Digests == {Digest[r] : r \in Requests}

(* The fields of a record (isRecord). *)
LEMMA RecordFields ==
  ASSUME NEW r \in IdempotencyRecord
  PROVE  /\ r.status \in {"in_flight", "completed", "failed"}
         /\ r.digest \in Digests /\ r.expired \in BOOLEAN
         /\ r.status \in {"completed", "failed"} => r.outcome \in Recorded
         /\ r # NoRecord
<1>1. CASE r \in [status : {"in_flight"}, digest : Digests, expired : BOOLEAN]
  BY <1>1 DEF NoRecord
<1>2. CASE r \in [status : {"completed", "failed"}, digest : Digests, expired : BOOLEAN,
                  outcome : Recorded]
  BY <1>2 DEF NoRecord
<1>. QED BY <1>1, <1>2 DEF IdempotencyRecord, Digests

(* A claim and a settled record are records (claim, complete, fail). *)
LEMMA RecordsMade ==
  ASSUME NEW d \in Digests, NEW e \in BOOLEAN
  PROVE  /\ [status |-> "in_flight", digest |-> d, expired |-> e] \in IdempotencyRecord
         /\ \A s \in {"completed", "failed"}, o \in Recorded :
              [status |-> s, digest |-> d, expired |-> e, outcome |-> o] \in IdempotencyRecord
BY DEF IdempotencyRecord, Digests

(* What is stored of an outcome is a redacted response or a failure code (write). *)
LEMMA RedactType ==
  ASSUME NEW v \in Values, v # "unwritable"
  PROVE  Redact(v) \in Recorded
BY IdempotencyConstants DEF Redact, Recorded

(* Marking a record as expired changes nothing else. *)
LEMMA ExpiredRecord ==
  ASSUME NEW r \in IdempotencyRecord
  PROVE  /\ [r EXCEPT !.expired = TRUE] \in IdempotencyRecord
         /\ [r EXCEPT !.expired = TRUE].status = r.status
         /\ [r EXCEPT !.expired = TRUE].digest = r.digest
         /\ r.status \in {"completed", "failed"} => [r EXCEPT !.expired = TRUE].outcome = r.outcome
<1>1. CASE r \in [status : {"in_flight"}, digest : Digests, expired : BOOLEAN]
  <2>1. [r EXCEPT !.expired = TRUE] \in [status : {"in_flight"}, digest : Digests, expired : BOOLEAN]
    BY <1>1, Zenon
  <2>. QED BY <1>1, <2>1 DEF IdempotencyRecord, Digests
<1>2. CASE r \in [status : {"completed", "failed"}, digest : Digests, expired : BOOLEAN,
                  outcome : Recorded]
  <2>1. [r EXCEPT !.expired = TRUE] \in [status : {"completed", "failed"}, digest : Digests,
                                         expired : BOOLEAN, outcome : Recorded]
    BY <1>2, Zenon
  <2>. QED BY <1>2, <2>1 DEF IdempotencyRecord, Digests
<1>. QED BY <1>1, <1>2 DEF IdempotencyRecord, Digests

(***************************************************************************)
(* How one step may change the record of one key: not at all, by removal,  *)
(* by a claim of a free key, by settling a claim, or by its expiry.        *)
(***************************************************************************)
StoreStep(k) ==
  \/ store'[k] = store[k]
  \/ store'[k] = NoRecord /\ store[k] # NoRecord
  \/ /\ store[k] = NoRecord
     /\ \E d \in Digests : store'[k] = [status |-> "in_flight", digest |-> d, expired |-> FALSE]
  \/ /\ InFlight(k)
     /\ \E s \in {"completed", "failed"}, o \in Recorded : store'[k] = Settled(k, s, o)
  \/ store[k] # NoRecord /\ store'[k] = [store[k] EXCEPT !.expired = TRUE]

(* Such a change keeps a record a record. *)
LEMMA StoreStepType ==
  ASSUME NEW k \in Keys, store[k] \in IdempotencyRecord \cup {NoRecord}, StoreStep(k)
  PROVE  store'[k] \in IdempotencyRecord \cup {NoRecord}
<1>1. InFlight(k) => store[k] \in IdempotencyRecord
  BY DEF InFlight, NoRecord
<1>2. \A s \in {"completed", "failed"}, o \in Recorded :
        InFlight(k) => Settled(k, s, o) \in IdempotencyRecord
  BY <1>1, RecordFields, RecordsMade, Zenon DEF Settled
<1>. QED BY <1>2, RecordsMade, ExpiredRecord, Zenon DEF StoreStep

(* Removing records is such a step for every key (remove). *)
LEMMA RemoveStep ==
  ASSUME NEW ks \in SUBSET Keys, Remove(ks), TypeOK
  PROVE  /\ \A k \in Keys : StoreStep(k)
         /\ DOMAIN store' = Keys /\ store' = [k \in Keys |-> store'[k]]
         /\ freed' \in [Keys -> Nat]
<1>1. \A k \in Keys : store'[k] = IF k \in ks THEN NoRecord ELSE store[k]
  BY DEF Remove
<1>. QED BY <1>1 DEF Remove, StoreStep, TypeOK

(* complete and fail are such a step for every key. *)
LEMMA RecordStep ==
  ASSUME NEW k \in Keys, NEW status \in {"completed", "failed"}, NEW outcome \in Recorded,
         Record(k, status, outcome), TypeOK
  PROVE  /\ \A j \in Keys : StoreStep(j)
         /\ store' = [j \in Keys |-> store'[j]]
<1>1. /\ store'[k] = Settled(k, status, outcome) /\ InFlight(k)
      /\ \A j \in Keys \ {k} : store'[j] = store[j]
  BY DEF Record, TypeOK
<1>2. store' = [j \in Keys |-> store'[j]]
  BY Zenon DEF Record, TypeOK
<1>. QED BY <1>1, <1>2 DEF StoreStep

(* The end of a call changes the store by such steps only (withIdempotency). *)
LEMMA SettleStep ==
  ASSUME TypeOK, NEW c \in Callers, Settle(c)
  PROVE  /\ \A j \in Keys : StoreStep(j)
         /\ store' = [j \in Keys |-> store'[j]]
         /\ answer' \in Answer
<1>1. calls[c] \in Call /\ calls[c].key \in Keys /\ calls[c].request \in Requests
  BY DEF Settle, Running, TypeOK, Call
<1>2. ASSUME store' = store
      PROVE  (\A j \in Keys : StoreStep(j)) /\ store' = [j \in Keys |-> store'[j]]
  BY <1>2 DEF StoreStep, TypeOK
<1>3. \A kind \in {"fresh", "error"}, o \in Values \cup {"none"} :
        Answered(kind, calls[c], o) => answer' \in Answer
  BY <1>1 DEF Answered, Answer
<1>4. ASSUME NEW v \in Values, SettleSuccess(c, v)
      PROVE  /\ \A j \in Keys : StoreStep(j)
             /\ store' = [j \in Keys |-> store'[j]]
             /\ answer' \in Answer
  <2>1. CASE v # "unwritable" /\ Record(calls[c].key, "completed", Redact(v))
                              /\ Answered("fresh", calls[c], v)
    BY <1>1, <1>3, <2>1, RedactType, RecordStep
  <2>2. CASE Record(calls[c].key, "failed", "threw") /\ Answered("error", calls[c], "none")
    BY <1>1, <1>3, <2>2, RecordStep DEF Recorded
  <2>3. CASE UNCHANGED store /\ Answered("error", calls[c], "none")
    BY <1>2, <1>3, <2>3
  <2>. QED BY <1>4, <2>1, <2>2, <2>3 DEF SettleSuccess
<1>5. ASSUME NEW o \in {"failed", "threw"}, SettleFailure(c, o)
      PROVE  /\ \A j \in Keys : StoreStep(j)
             /\ store' = [j \in Keys |-> store'[j]]
             /\ answer' \in Answer
  <2>1. answer' \in Answer
    BY <1>3, <1>5 DEF SettleFailure
  <2>2. CASE Record(calls[c].key, "failed", o)
    BY <1>1, <2>1, <2>2, RecordStep DEF Recorded
  <2>3. CASE UNCHANGED store
    BY <1>2, <2>1, <2>3
  <2>. QED BY <1>5, <2>2, <2>3 DEF SettleFailure
<1>. QED BY <1>4, <1>5 DEF Settle, Outcomes

(* begin changes the store by such steps only. *)
LEMMA BeginStep ==
  ASSUME TypeOK, NEW c \in Callers, NEW call \in Call, Begin(c, call)
  PROVE  /\ \A j \in Keys : StoreStep(j)
         /\ store' = [j \in Keys |-> store'[j]]
         /\ answer' \in Answer /\ freed' \in [Keys -> Nat]
<1>0. call.key \in Keys /\ call.request \in Requests /\ Digest[call.request] \in Digests
  BY DEF Call, Digests
<1>1. \A kind \in {"replay", "error"}, o \in Recorded \cup {"none"} :
        Answered(kind, call, o) => answer' \in Answer
  BY <1>0 DEF Answered, Answer
<1>2. ASSUME store' = store
      PROVE  (\A j \in Keys : StoreStep(j)) /\ store' = [j \in Keys |-> store'[j]]
  BY <1>2 DEF StoreStep, TypeOK
<1>3. CASE Claim(c, call)
  <2>1. /\ store[call.key] = NoRecord
        /\ store'[call.key] = [status |-> "in_flight", digest |-> Digest[call.request], expired |-> FALSE]
        /\ \A j \in Keys \ {call.key} : store'[j] = store[j]
        /\ store' = [j \in Keys |-> store'[j]]
    BY <1>0, <1>3, Zenon DEF Claim, TypeOK
  <2>2. \A j \in Keys : StoreStep(j)
    BY <1>0, <2>1 DEF StoreStep
  <2>. QED BY <1>3, <2>1, <2>2 DEF Claim, TypeOK
<1>4. CASE RefuseExpired(c, call)
  BY <1>0, <1>1, <1>4, RemoveStep DEF RefuseExpired
<1>5. CASE Refuse(c, call)
  BY <1>1, <1>2, <1>5 DEF Refuse, history, TypeOK
<1>6. CASE Replay(c, call)
  <2>1. store[call.key].outcome \in Recorded
    BY <1>0, <1>6, RecordFields DEF Replay, InFlight, TypeOK
  <2>. QED BY <1>1, <1>2, <1>6, <2>1 DEF Replay, history, TypeOK
<1>. QED BY <1>3, <1>4, <1>5, <1>6 DEF Begin

(***************************************************************************)
(* Every step changes the record of every key by a store step (the whole   *)
(* interface of createIdempotencyStore).                                   *)
(***************************************************************************)
LEMMA EveryStoreStep ==
  ASSUME TypeOK, [Next]_vars
  PROVE  /\ \A j \in Keys : StoreStep(j)
         /\ store' = [j \in Keys |-> store'[j]]
         /\ answer' \in Answer /\ freed' \in [Keys -> Nat]
<1>1. ASSUME store' = store
      PROVE  (\A j \in Keys : StoreStep(j)) /\ store' = [j \in Keys |-> store'[j]]
  BY <1>1 DEF StoreStep, TypeOK
<1>2. answer \in Answer /\ freed \in [Keys -> Nat]
  BY DEF TypeOK
<1>3. ASSUME NEW k \in Keys, Abandon(k) \/ Lookup(k)
      PROVE  Remove({k}) /\ answer' = answer
  BY <1>3 DEF Abandon, Lookup
<1>4. ASSUME NEW t \in Tabs, Sweep(t) \/ Reset(t)
      PROVE  \E ks \in SUBSET Keys : Remove(ks) /\ answer' = answer
  BY <1>4 DEF Sweep, Reset, TypeOK
<1>5. ASSUME NEW k \in Keys, Expire(k)
      PROVE  (\A j \in Keys : StoreStep(j)) /\ store' = [j \in Keys |-> store'[j]]
  <2>1. store[k] # NoRecord /\ store' = [store EXCEPT ![k].expired = TRUE]
    BY <1>5 DEF Expire
  <2>2. /\ store'[k] = [store[k] EXCEPT !.expired = TRUE]
        /\ \A j \in Keys \ {k} : store'[j] = store[j]
        /\ store' = [j \in Keys |-> store'[j]]
    BY <2>1, Zenon DEF TypeOK
  <2>. QED BY <2>1, <2>2, Zenon DEF StoreStep
<1>6. ASSUME NEW c \in Callers, Settle(c) PROVE freed' = freed
  BY <1>6 DEF Settle
<1>7. ASSUME NEW t \in Tabs, Reload(t) PROVE store' = store /\ answer' = answer /\ freed' = freed
  BY <1>7 DEF Reload, history
<1>8. ASSUME NEW k \in Keys, Expire(k) PROVE answer' = answer /\ freed' = freed
  BY <1>8 DEF Expire, history
<1>9. CASE \E k \in Keys : Presented(k)
  BY <1>9, BeginStep DEF Presented
<1>10. CASE \E k \in Keys : Abandon(k) \/ Lookup(k)
  BY <1>2, <1>3, <1>10, RemoveStep, Zenon
<1>11. CASE \E t \in Tabs : Sweep(t) \/ Reset(t)
  BY <1>2, <1>4, <1>11, RemoveStep
<1>12. CASE \E c \in Callers : Settle(c)
  BY <1>2, <1>6, <1>12, SettleStep
<1>13. CASE UNCHANGED vars
  BY <1>1, <1>2, <1>13 DEF vars, history
<1>. QED BY <1>1, <1>2, <1>5, <1>7, <1>8, <1>9, <1>10, <1>11, <1>12, <1>13 DEF Next

-----------------------------------------------------------------------------
(* The initial store is well typed (createIdempotencyStore). *)
LEMMA TypeInit ==
  ASSUME Init
  PROVE  TypeOK
BY DEF Init, TypeOK, NoAnswer, Answer

(* Every step keeps the state well typed. *)
LEMMA TypeStep ==
  ASSUME TypeOK, [Next]_vars
  PROVE  TypeOK'
<1>1. store' \in [Keys -> IdempotencyRecord \cup {NoRecord}]
  <2>1. \A k \in Keys : store'[k] \in IdempotencyRecord \cup {NoRecord}
    BY EveryStoreStep, StoreStepType DEF TypeOK
  <2>. QED BY <2>1, EveryStoreStep
<1>2. answer' \in Answer /\ freed' \in [Keys -> Nat]
  BY EveryStoreStep
<1>3. ASSUME NEW c \in Callers, NEW call \in Call, Begin(c, call)
      PROVE  /\ known' \in [Tabs -> SUBSET Keys] /\ calls' \in [Callers -> Call \cup {NoCall}]
             /\ started' \in [Keys -> Nat] /\ released' = released /\ produced' = produced
  <2>1. call.key \in Keys /\ c[1] \in Tabs
    BY DEF Call, Callers
  <2>. QED BY <1>3, <2>1 DEF Begin, Claim, RefuseExpired, Refuse, Replay, history, TypeOK
<1>4. ASSUME NEW c \in Callers, Settle(c)
      PROVE  /\ known' = known /\ calls' \in [Callers -> Call \cup {NoCall}]
             /\ started' = started /\ released' = released
             /\ produced' \subseteq [key : Keys, request : Requests, outcome : Outcomes]
  <2>1. calls[c].key \in Keys /\ calls[c].request \in Requests
    BY <1>4 DEF Settle, Running, TypeOK, Call
  <2>. QED BY <1>4, <2>1 DEF Settle, TypeOK
<1>5. ASSUME NEW k \in Keys, Abandon(k) \/ Lookup(k) \/ Expire(k)
      PROVE  /\ known' = known /\ calls' = calls /\ started' = started /\ produced' = produced
             /\ released' \in [Keys -> Nat]
  BY <1>5 DEF Abandon, Lookup, Expire, history, TypeOK
<1>6. ASSUME NEW t \in Tabs, Sweep(t) \/ Reset(t) \/ Reload(t)
      PROVE  /\ known' \in [Tabs -> SUBSET Keys] /\ calls' \in [Callers -> Call \cup {NoCall}]
             /\ started' = started /\ produced' = produced /\ released' \in [Keys -> Nat]
  <2>1. CASE Sweep(t)
    BY <2>1 DEF Sweep, TypeOK
  <2>2. CASE Reset(t)
    BY <2>2 DEF Reset, TypeOK
  <2>3. CASE Reload(t)
    BY <2>3 DEF Reload, history, TypeOK
  <2>. QED BY <1>6, <2>1, <2>2, <2>3
<1>7. /\ known' \in [Tabs -> SUBSET Keys] /\ calls' \in [Callers -> Call \cup {NoCall}]
      /\ started' \in [Keys -> Nat] /\ released' \in [Keys -> Nat]
      /\ produced' \subseteq [key : Keys, request : Requests, outcome : Outcomes]
  <2>1. CASE \E k \in Keys : Presented(k)
    BY <1>3, <2>1 DEF Presented, TypeOK
  <2>2. CASE \E c \in Callers : Settle(c)
    BY <1>4, <2>2 DEF TypeOK
  <2>3. CASE \E k \in Keys : Abandon(k) \/ Lookup(k) \/ Expire(k)
    BY <1>5, <2>3 DEF TypeOK
  <2>4. CASE \E t \in Tabs : Sweep(t) \/ Reset(t) \/ Reload(t)
    BY <1>6, <2>4 DEF TypeOK
  <2>5. CASE UNCHANGED vars
    BY <2>5 DEF vars, history, TypeOK
  <2>. QED BY <2>1, <2>2, <2>3, <2>4, <2>5 DEF Next
<1>. QED BY <1>1, <1>2, <1>7 DEF TypeOK

(* The state of the store and of its calls is well typed in every run. *)
THEOREM TypeCorrect == Spec => []TypeOK
<1>1. Init => TypeOK
  BY TypeInit
<1>2. TypeOK /\ [Next]_vars => TypeOK'
  BY TypeStep
<1>. QED BY <1>1, <1>2, PTL DEF Spec

(***************************************************************************)
(* A recorded outcome is never overwritten, whoever settles late, frees or *)
(* claims the key (complete, fail).                                        *)
(***************************************************************************)
THEOREM RecordsAreFinal == Spec => OutcomeIsFinal
<1>1. TypeOK /\ [Next]_vars =>
        [\A k \in Keys : store[k].status \in {"completed", "failed"} =>
           \/ store'[k] = NoRecord
           \/ /\ store'[k].status = store[k].status
              /\ store'[k].outcome = store[k].outcome]_vars
  <2>. SUFFICES ASSUME TypeOK, [Next]_vars, NEW k \in Keys,
                       store[k].status \in {"completed", "failed"}
                PROVE  \/ store'[k] = NoRecord
                       \/ /\ store'[k].status = store[k].status
                          /\ store'[k].outcome = store[k].outcome
    OBVIOUS
  <2>1. store[k] \in IdempotencyRecord /\ store[k] # NoRecord /\ ~InFlight(k)
    BY DEF TypeOK, NoRecord, InFlight
  <2>2. StoreStep(k)
    BY EveryStoreStep
  <2>. QED BY <2>1, <2>2, ExpiredRecord, Zenon DEF StoreStep
<1>. QED BY <1>1, TypeCorrect, PTL DEF Spec, OutcomeIsFinal

-----------------------------------------------------------------------------
(***************************************************************************)
(* The runs of a key are accounted for: each was followed by a removal of  *)
(* the record, but for the one whose record is still there.                *)
(***************************************************************************)
Held(k) == IF store[k] = NoRecord THEN 0 ELSE 1
Accounted == \A k \in Keys : started[k] <= freed[k] + Held(k)

(* The books of one key stay balanced when its record is removed. *)
LEMMA RemoveAccounted ==
  ASSUME TypeOK, Accounted, NEW ks \in SUBSET Keys, \A k \in ks : store[k] # NoRecord,
         Remove(ks), started' = started
  PROVE  Accounted'
<1>. SUFFICES ASSUME NEW k \in Keys PROVE started'[k] <= freed'[k] + Held(k)'
  BY DEF Accounted
<1>1. started[k] \in Nat /\ freed[k] \in Nat /\ started[k] <= freed[k] + Held(k)
  BY DEF TypeOK, Accounted
<1>2. CASE k \in ks
  <2>1. store'[k] = NoRecord /\ freed'[k] = freed[k] + 1 /\ store[k] # NoRecord
    BY <1>2 DEF Remove
  <2>. QED BY <1>1, <2>1 DEF Held
<1>3. CASE k \notin ks
  <2>1. store'[k] = store[k] /\ freed'[k] = freed[k]
    BY <1>3 DEF Remove
  <2>. QED BY <1>1, <2>1 DEF Held
<1>. QED BY <1>2, <1>3

(* They stay balanced when no record comes or goes. *)
LEMMA KeptAccounted ==
  ASSUME TypeOK, Accounted, started' = started, freed' = freed,
         \A k \in Keys : store'[k] = NoRecord <=> store[k] = NoRecord
  PROVE  Accounted'
BY DEF Accounted, Held

(* Every step keeps the books balanced. *)
LEMMA AccountedStep ==
  ASSUME TypeOK, Accounted, [Next]_vars
  PROVE  Accounted'
<1>1. ASSUME NEW c \in Callers, NEW call \in Call, Begin(c, call) PROVE Accounted'
  <2>0. call.key \in Keys
    BY DEF Call
  <2>1. CASE Claim(c, call)
    <3>1. /\ store[call.key] = NoRecord
          /\ store'[call.key].status = "in_flight" /\ started'[call.key] = started[call.key] + 1
          /\ freed' = freed
          /\ \A k \in Keys \ {call.key} : store'[k] = store[k] /\ started'[k] = started[k]
      BY <2>0, <2>1 DEF Claim, TypeOK
    <3>2. Held(call.key) = 0 /\ Held(call.key)' = 1
      BY <3>1 DEF Held, NoRecord
    <3>3. \A k \in Keys : started[k] \in Nat /\ freed[k] \in Nat
      BY DEF TypeOK
    <3>. QED BY <3>1, <3>2, <3>3 DEF Accounted, Held
  <2>2. CASE RefuseExpired(c, call)
    BY <2>0, <2>2, RemoveAccounted DEF RefuseExpired, Expired
  <2>3. CASE Refuse(c, call) \/ Replay(c, call)
    BY <2>3, KeptAccounted DEF Refuse, Replay, history
  <2>. QED BY <1>1, <2>1, <2>2, <2>3 DEF Begin
<1>2. ASSUME NEW c \in Callers, Settle(c) PROVE Accounted'
  <2>1. ASSUME NEW k, NEW status, NEW outcome, k \in Keys, Record(k, status, outcome)
        PROVE  \A j \in Keys : store'[j] = NoRecord <=> store[j] = NoRecord
    <3>1. /\ store'[k] = Settled(k, status, outcome) /\ InFlight(k)
          /\ \A j \in Keys \ {k} : store'[j] = store[j]
      BY <2>1 DEF Record, TypeOK
    <3>2. store'[k] # NoRecord
      <4>1. Settled(k, status, outcome) # NoRecord
        BY DEF Settled, NoRecord
      <4>. QED BY <3>1, <4>1
    <3>3. store[k] # NoRecord
      BY <3>1 DEF InFlight, NoRecord
    <3>. QED BY <3>1, <3>2, <3>3
  <2>2. calls[c].key \in Keys
    BY <1>2 DEF Settle, Running, TypeOK, Call
  <2>3. \A k \in Keys : store'[k] = NoRecord <=> store[k] = NoRecord
    BY <1>2, <2>1, <2>2 DEF Settle, SettleSuccess, SettleFailure
  <2>. QED BY <1>2, <2>3, KeptAccounted DEF Settle
<1>3. ASSUME NEW k \in Keys, Abandon(k) \/ Lookup(k) PROVE Accounted'
  <2>1. store[k] # NoRecord /\ Remove({k}) /\ started' = started
    BY <1>3 DEF Abandon, Lookup, InFlight, Expired, NoRecord
  <2>. QED BY <2>1, RemoveAccounted
<1>4. ASSUME NEW t \in Tabs, Sweep(t) \/ Reset(t) PROVE Accounted'
  <2>1. PICK ks \in SUBSET Keys : Remove(ks) /\ \A k \in ks : store[k] # NoRecord
    BY <1>4 DEF Sweep, Reset, Expired, TypeOK
  <2>2. started' = started
    BY <1>4 DEF Sweep, Reset
  <2>. QED BY <2>1, <2>2, RemoveAccounted
<1>5. ASSUME NEW k \in Keys, Expire(k) PROVE Accounted'
  <2>1. /\ store[k] # NoRecord /\ store'[k] = [store[k] EXCEPT !.expired = TRUE]
        /\ \A j \in Keys \ {k} : store'[j] = store[j]
        /\ started' = started /\ freed' = freed
    BY <1>5 DEF Expire, history, TypeOK
  <2>2. store'[k] # NoRecord
    <3>1. store[k] \in IdempotencyRecord
      BY <2>1 DEF TypeOK
    <3>. QED BY <2>1, <3>1, ExpiredRecord, RecordFields
  <2>. QED BY <2>1, <2>2, KeptAccounted
<1>6. ASSUME (\E t \in Tabs : Reload(t)) \/ UNCHANGED vars PROVE Accounted'
  BY <1>6, KeptAccounted DEF Reload, vars, history
<1>. QED BY <1>1, <1>2, <1>3, <1>4, <1>5, <1>6 DEF Next, Presented

(***************************************************************************)
(* Work runs again only after the record of its key was removed: failures, *)
(* retries and reloads alone never re-run it (begin).                      *)
(***************************************************************************)
THEOREM RerunsNeedRemoval == Spec => []RunsNeedRelease
<1>1. Init => Accounted
  BY DEF Init, Accounted, Held
<1>2. TypeOK /\ Accounted /\ [Next]_vars => Accounted'
  BY AccountedStep
<1>3. TypeOK /\ Accounted => RunsNeedRelease
  <2>. SUFFICES ASSUME TypeOK, Accounted, NEW k \in Keys PROVE started[k] <= 1 + freed[k]
    BY DEF RunsNeedRelease
  <2>1. started[k] \in Nat /\ freed[k] \in Nat /\ Held(k) \in {0, 1} /\ started[k] <= freed[k] + Held(k)
    BY DEF TypeOK, Accounted, Held
  <2>. QED BY <2>1
<1>. QED BY <1>1, <1>2, <1>3, TypeCorrect, PTL DEF Spec

-----------------------------------------------------------------------------
(***************************************************************************)
(* With nothing freed while work runs, a call that runs holds the claim of *)
(* its key, which is live and carries the digest of its request.           *)
(***************************************************************************)
HoldsClaim ==
  \A c \in Callers : Running(c) =>
    /\ InFlight(calls[c].key) /\ ~Expired(calls[c].key)
    /\ store[calls[c].key].digest = Digest[calls[c].request]

(* Calls keep their claims when other keys change and calls only end. *)
LEMMA ClaimsKept ==
  ASSUME TypeOK, HoldsClaim, OneRunPerKey, NEW S \in SUBSET Keys,
         \A k \in Keys \ S : store'[k] = store[k],
         \A c \in Callers : \/ calls'[c] = NoCall
                            \/ calls'[c] = calls[c] /\ calls[c].key \notin S
  PROVE  HoldsClaim' /\ OneRunPerKey'
<1>1. \A c \in Callers : calls[c] # NoCall => calls[c].key \in Keys
  BY DEF TypeOK, Call
<1>2. NoCall.key \notin Keys
  BY IdempotencyConstants DEF NoCall
<1>3. ASSUME NEW c \in Callers, calls'[c] # NoCall
      PROVE  /\ calls'[c] = calls[c] /\ calls[c] # NoCall /\ calls[c].key \in Keys
             /\ store'[calls[c].key] = store[calls[c].key]
  BY <1>1, <1>3
<1>4. HoldsClaim'
  BY <1>3 DEF HoldsClaim, Running, InFlight, Expired
<1>5. OneRunPerKey'
  <2>. SUFFICES ASSUME NEW c \in Callers, NEW d \in Callers, calls'[c] # NoCall,
                       calls'[c].key = calls'[d].key
                PROVE  c = d
    BY DEF OneRunPerKey, Running
  <2>1. calls'[d] # NoCall
    BY <1>2, <1>3
  <2>. QED BY <1>3, <2>1 DEF OneRunPerKey, Running
<1>. QED BY <1>4, <1>5

(* A running call and its claim survive every step but the end of the call. *)
LEMMA ClaimStep ==
  ASSUME ~FreeWhileRunning, ~ExpireWhileRunning, TypeOK, [Next]_vars,
         HoldsClaim, OneRunPerKey
  PROVE  HoldsClaim' /\ OneRunPerKey'
<1>0. /\ \A c \in Callers : calls[c] # NoCall => calls[c].key \in Keys
      /\ NoCall.key \notin Keys
  BY IdempotencyConstants DEF NoCall, TypeOK, Call
<1>1. ASSUME NEW ks \in SUBSET Keys, Remove(ks), calls' = calls,
             \A k \in ks : Quiet(k) \/ Expired(k)
      PROVE  HoldsClaim' /\ OneRunPerKey'
  <2>1. \A k \in Keys \ ks : store'[k] = store[k]
    BY <1>1 DEF Remove
  <2>2. \A c \in Callers : calls[c] = NoCall \/ calls[c].key \notin ks
    BY <1>1 DEF Quiet, RunsOf, HoldsClaim, Running
  <2>. QED BY <1>1, <2>1, <2>2, ClaimsKept
<1>2. ASSUME store' = store, calls' = calls PROVE HoldsClaim' /\ OneRunPerKey'
  BY <1>2 DEF HoldsClaim, OneRunPerKey, Running, InFlight, Expired
<1>3. ASSUME NEW c \in Callers, NEW call \in Call, Claim(c, call)
      PROVE  HoldsClaim' /\ OneRunPerKey'
  <2>0. call.key \in Keys /\ call.request \in Requests /\ call # NoCall
    BY <1>0 DEF Call
  <2>1. /\ store[call.key] = NoRecord
        /\ store'[call.key] = [status |-> "in_flight", digest |-> Digest[call.request], expired |-> FALSE]
        /\ \A k \in Keys \ {call.key} : store'[k] = store[k]
        /\ calls'[c] = call /\ \A d \in Callers \ {c} : calls'[d] = calls[d]
    BY <1>3, <2>0 DEF Claim, TypeOK
  <2>2. \A d \in Callers : calls[d].key # call.key
    BY <1>0, <2>0, <2>1 DEF HoldsClaim, Running, InFlight, NoRecord
  <2>3. HoldsClaim'
    <3>1. ASSUME NEW d \in Callers \ {c}, calls[d] # NoCall
          PROVE  calls'[d] = calls[d] /\ store'[calls[d].key] = store[calls[d].key]
      BY <1>0, <2>1, <2>2, <3>1
    <3>2. /\ store'[call.key].status = "in_flight" /\ ~store'[call.key].expired
          /\ store'[call.key].digest = Digest[call.request]
      BY <2>1
    <3>. QED BY <2>1, <3>1, <3>2 DEF HoldsClaim, Running, InFlight, Expired
  <2>4. OneRunPerKey'
    BY <2>1, <2>2 DEF OneRunPerKey, Running
  <2>. QED BY <2>3, <2>4
<1>4. ASSUME NEW c \in Callers, NEW call \in Call, Begin(c, call)
      PROVE  HoldsClaim' /\ OneRunPerKey'
  <2>1. CASE RefuseExpired(c, call)
    BY <1>1, <2>1 DEF RefuseExpired, Call
  <2>2. CASE Refuse(c, call) \/ Replay(c, call)
    BY <1>2, <2>2 DEF Refuse, Replay
  <2>. QED BY <1>3, <1>4, <2>1, <2>2 DEF Begin
<1>5. ASSUME NEW c \in Callers, Settle(c) PROVE HoldsClaim' /\ OneRunPerKey'
  <2>0. PICK k \in Keys : k = calls[c].key
    BY <1>0, <1>5 DEF Settle, Running
  <2>1. \A j \in Keys \ {k} : store'[j] = store[j]
    BY <1>5, <2>0 DEF Settle, SettleSuccess, SettleFailure, Record, TypeOK
  <2>2. calls'[c] = NoCall /\ \A d \in Callers \ {c} : calls'[d] = calls[d]
    BY <1>5 DEF Settle, TypeOK
  <2>3. \A d \in Callers \ {c} : calls[d].key \notin {k}
    BY <1>5, <2>0 DEF OneRunPerKey, Settle
  <2>4. \A d \in Callers : calls'[d] = NoCall \/ (calls'[d] = calls[d] /\ calls[d].key \notin {k})
    BY <2>2, <2>3
  <2>. QED BY <2>1, <2>4, ClaimsKept, Zenon
<1>6. ASSUME NEW k \in Keys, Abandon(k) \/ Lookup(k) PROVE HoldsClaim' /\ OneRunPerKey'
  BY <1>1, <1>6 DEF Abandon, Lookup
<1>7. ASSUME NEW t \in Tabs, Sweep(t) \/ Reset(t) PROVE HoldsClaim' /\ OneRunPerKey'
  <2>1. PICK ks \in SUBSET Keys : Remove(ks) /\ \A k \in ks : Quiet(k) \/ Expired(k)
    BY <1>7 DEF Sweep, Reset, TypeOK
  <2>. QED BY <1>1, <1>7, <2>1 DEF Sweep, Reset
<1>8. ASSUME NEW k \in Keys, Expire(k) PROVE HoldsClaim' /\ OneRunPerKey'
  <2>1. \A j \in Keys \ {k} : store'[j] = store[j]
    BY <1>8 DEF Expire, TypeOK
  <2>2. calls' = calls /\ \A c \in Callers : calls[c].key \notin {k}
    BY <1>8 DEF Expire, Quiet, RunsOf
  <2>. QED BY <2>1, <2>2, ClaimsKept, Zenon
<1>9. ASSUME NEW t \in Tabs, Reload(t) PROVE HoldsClaim' /\ OneRunPerKey'
  <2>1. store' = store /\ \A c \in Callers : calls'[c] = NoCall \/ calls'[c] = calls[c]
    BY <1>9 DEF Reload
  <2>2. \A c \in Callers : calls'[c] = NoCall \/ (calls'[c] = calls[c] /\ calls[c].key \notin {})
    BY <2>1
  <2>3. \A k \in Keys \ {} : store'[k] = store[k]
    BY <2>1
  <2>4. {} \in SUBSET Keys
    OBVIOUS
  <2>. QED BY <2>2, <2>3, <2>4, ClaimsKept, Zenon
<1>10. ASSUME UNCHANGED vars PROVE HoldsClaim' /\ OneRunPerKey'
  BY <1>2, <1>10 DEF vars
<1>. QED BY <1>4, <1>5, <1>6, <1>7, <1>8, <1>9, <1>10 DEF Next, Presented

(***************************************************************************)
(* When no key is freed or expires while its work runs, at most one call   *)
(* runs a key, in whatever tabs the calls are made (begin, claim).         *)
(***************************************************************************)
THEOREM OneRun ==
  ASSUME ~FreeWhileRunning, ~ExpireWhileRunning
  PROVE  Spec => []OneRunPerKey
<1>1. Init => HoldsClaim /\ OneRunPerKey
  <2>1. Init => \A c \in Callers : calls[c] = NoCall
    BY DEF Init
  <2>. QED BY <2>1 DEF HoldsClaim, OneRunPerKey, Running
<1>2. TypeOK /\ HoldsClaim /\ OneRunPerKey /\ [Next]_vars => (HoldsClaim /\ OneRunPerKey)'
  BY ClaimStep
<1>. QED BY <1>1, <1>2, TypeCorrect, PTL DEF Spec

-----------------------------------------------------------------------------
(* A settled record is the stored form of what a run of that request produced. *)
RealFor(k, digest, outcome, runs) ==
  \E p \in runs : p.key = k /\ Digest[p.request] = digest /\ Redact(p.outcome) = outcome

RecordsAreReal ==
  \A k \in Keys : store[k].status \in {"completed", "failed"} =>
    RealFor(k, store[k].digest, store[k].outcome, produced)

(* A later history keeps a record real. *)
LEMMA RealKept ==
  ASSUME RecordsAreReal, produced \subseteq produced', NEW k \in Keys, store'[k] = store[k]
  PROVE  store'[k].status \in {"completed", "failed"} =>
           RealFor(k, store'[k].digest, store'[k].outcome, produced')
BY DEF RecordsAreReal, RealFor

(* The end of a call makes a real record (complete, fail). *)
LEMMA RealSettle ==
  ASSUME TypeOK, HoldsClaim, RecordsAreReal, "unwritable" \notin Values, ~StorageCanFail,
         NEW c \in Callers, Settle(c)
  PROVE  RecordsAreReal'
<1>0. PICK k \in Keys : k = calls[c].key
  BY DEF Settle, Running, TypeOK, Call
<1>1. InFlight(k) /\ store[k].digest = Digest[calls[c].request]
  BY <1>0 DEF HoldsClaim, Settle
<1>2. PICK outcome \in Outcomes :
        /\ IF outcome \in Values THEN SettleSuccess(c, outcome) ELSE SettleFailure(c, outcome)
        /\ produced' = produced \cup
             {[key |-> calls[c].key, request |-> calls[c].request, outcome |-> outcome]}
  BY DEF Settle
<1>3. \E status \in {"completed", "failed"} : Record(k, status, Redact(outcome))
  <2>1. CASE outcome \in Values
    BY <1>0, <1>1, <1>2, <2>1 DEF SettleSuccess
  <2>2. CASE outcome \notin Values
    <3>1. Redact(outcome) = outcome
      BY <2>2 DEF Outcomes, Redact
    <3>. QED BY <1>0, <1>1, <1>2, <2>2, <3>1 DEF SettleFailure
  <2>. QED BY <2>1, <2>2
<1>4. PICK status \in {"completed", "failed"} : store'[k] = Settled(k, status, Redact(outcome))
  BY <1>3 DEF Record, TypeOK
<1>5. \A j \in Keys \ {k} : store'[j] = store[j]
  BY <1>3 DEF Record, TypeOK
<1>6. store'[k].digest = Digest[calls[c].request] /\ store'[k].outcome = Redact(outcome)
  BY <1>1, <1>4 DEF Settled
<1>7. RealFor(k, store'[k].digest, store'[k].outcome, produced')
  <2>. DEFINE p == [key |-> calls[c].key, request |-> calls[c].request, outcome |-> outcome]
  <2>1. p \in produced' /\ p.key = k /\ p.request = calls[c].request /\ p.outcome = outcome
    BY <1>0, <1>2
  <2>. HIDE DEF p
  <2>. QED BY <1>6, <2>1 DEF RealFor
<1>8. produced \subseteq produced'
  BY <1>2
<1>. QED BY <1>5, <1>7, <1>8, RealKept DEF RecordsAreReal

(* Every step keeps records real. *)
LEMMA RealStep ==
  ASSUME TypeOK, HoldsClaim, RecordsAreReal, "unwritable" \notin Values, ~StorageCanFail,
         [Next]_vars
  PROVE  RecordsAreReal' /\ produced \subseteq produced'
<1>1. CASE \E c \in Callers : Settle(c)
  BY <1>1, RealSettle, Zenon DEF Settle
<1>2. CASE ~\E c \in Callers : Settle(c)
  <2>1. produced' = produced
    BY <1>2, Zenon DEF Next, Presented, Begin, Claim, RefuseExpired, Refuse, Replay, Abandon, Lookup,
                Expire, Sweep, Reset, Reload, vars, history
  <2>2. ASSUME NEW k \in Keys, store'[k].status \in {"completed", "failed"}
        PROVE  \/ store'[k] = store[k]
               \/ store[k] # NoRecord /\ store'[k] = [store[k] EXCEPT !.expired = TRUE]
    <3>1. ~\E s \in {"completed", "failed"}, o \in Recorded :
             InFlight(k) /\ store'[k] = Settled(k, s, o)
      <4>1. ASSUME NEW ks \in SUBSET Keys, Remove(ks) PROVE store'[k] \in {store[k], NoRecord}
        BY <4>1 DEF Remove
      <4>2. ASSUME NEW c \in Callers, NEW call \in Call, Begin(c, call)
            PROVE  store'[k] \in {store[k], NoRecord} \/ store'[k].status = "in_flight"
        <5>1. CASE Claim(c, call)
          BY <5>1 DEF Claim, TypeOK, Call
        <5>2. CASE RefuseExpired(c, call)
          BY <4>1, <5>2 DEF RefuseExpired, Call
        <5>. QED BY <4>2, <5>1, <5>2 DEF Begin, Refuse, Replay
      <4>3. ASSUME NEW j \in Keys, Abandon(j) \/ Lookup(j) PROVE store'[k] \in {store[k], NoRecord}
        BY <4>1, <4>3 DEF Abandon, Lookup
      <4>4. ASSUME NEW t \in Tabs, Sweep(t) \/ Reset(t) PROVE store'[k] \in {store[k], NoRecord}
        BY <4>1, <4>4 DEF Sweep, Reset, TypeOK
      <4>5. ASSUME NEW j \in Keys, Expire(j) PROVE store'[k].status = store[k].status
        <5>1. store[j] \in IdempotencyRecord
          BY <4>5 DEF Expire, TypeOK
        <5>. QED BY <4>5, <5>1, ExpiredRecord DEF Expire, TypeOK
      <4>6. ASSUME (\E t \in Tabs : Reload(t)) \/ UNCHANGED vars PROVE store'[k] = store[k]
        BY <4>6 DEF Reload, vars
      <4>7. store'[k] \in {store[k], NoRecord} \/ store'[k].status \in {"in_flight", store[k].status}
        BY <1>2, <4>2, <4>3, <4>4, <4>5, <4>6 DEF Next, Presented
      <4>. QED BY <2>2, <4>7 DEF InFlight, NoRecord
    <3>2. store'[k] # NoRecord
      BY <2>2 DEF NoRecord
    <3>3. \A d \in Digests : store'[k] # [status |-> "in_flight", digest |-> d, expired |-> FALSE]
      BY <2>2
    <3>4. StoreStep(k)
      BY EveryStoreStep
    <3>. QED BY <3>1, <3>2, <3>3, <3>4, Zenon DEF StoreStep
  <2>3. ASSUME NEW k \in Keys, store'[k].status \in {"completed", "failed"}
        PROVE  RealFor(k, store'[k].digest, store'[k].outcome, produced')
    <3>1. CASE store'[k] = store[k]
      BY <2>1, <2>3, <3>1, RealKept
    <3>2. CASE store[k] # NoRecord /\ store'[k] = [store[k] EXCEPT !.expired = TRUE]
      <4>1. store[k] \in IdempotencyRecord
        BY <3>2 DEF TypeOK
      <4>2. /\ store'[k].status = store[k].status
            /\ store'[k].outcome = store[k].outcome /\ store'[k].digest = store[k].digest
        BY <2>3, <3>2, <4>1, ExpiredRecord
      <4>3. RealFor(k, store[k].digest, store[k].outcome, produced)
        BY <2>3, <4>2 DEF RecordsAreReal
      <4>. QED BY <2>1, <4>2, <4>3
    <3>. QED BY <2>2, <2>3, <3>1, <3>2
  <2>. QED BY <2>1, <2>3 DEF RecordsAreReal
<1>. QED BY <1>1, <1>2

(* An answer that is a replay was real when it was given and stays so (begin). *)
LEMMA ReplayStep ==
  ASSUME TypeOK, RecordsAreReal, ReplayIsReal, produced \subseteq produced', [Next]_vars,
         \A r, q \in Requests : Digest[r] = Digest[q] => r = q
  PROVE  ReplayIsReal'
<1>1. CASE answer' = answer \/ answer'.kind # "replay"
  BY <1>1 DEF ReplayIsReal
<1>2. ASSUME NEW c \in Callers, NEW call \in Call, Replay(c, call) PROVE ReplayIsReal'
  <2>0. call.key \in Keys /\ call.request \in Requests
    BY DEF Call
  <2>1. store[call.key].status \in {"completed", "failed"}
    BY <1>2, <2>0, RecordFields DEF Replay, InFlight, TypeOK
  <2>2. PICK p \in produced : /\ p.key = call.key /\ Digest[p.request] = store[call.key].digest
                              /\ Redact(p.outcome) = store[call.key].outcome
    BY <2>0, <2>1 DEF RecordsAreReal, RealFor
  <2>3. p.request = call.request
    BY <1>2, <2>0, <2>2 DEF Replay, TypeOK
  <2>4. answer'.key = call.key /\ answer'.request = call.request
        /\ answer'.outcome = store[call.key].outcome
    BY <1>2 DEF Replay, Answered
  <2>. QED BY <2>2, <2>3, <2>4 DEF ReplayIsReal
<1>3. ASSUME NEW c \in Callers, NEW call \in Call, Begin(c, call), ~Replay(c, call)
      PROVE  answer' = answer \/ answer'.kind # "replay"
  BY <1>3 DEF Begin, Claim, RefuseExpired, Refuse, Answered
<1>4. ASSUME NEW c \in Callers, Settle(c) PROVE answer'.kind # "replay"
  <2>1. PICK outcome \in Outcomes : SettleSuccess(c, outcome) \/ SettleFailure(c, outcome)
    BY <1>4 DEF Settle
  <2>2. CASE SettleSuccess(c, outcome)
    BY <2>2 DEF SettleSuccess, Answered
  <2>3. CASE SettleFailure(c, outcome)
    BY <2>3 DEF SettleFailure, Answered
  <2>. QED BY <2>1, <2>2, <2>3
<1>5. ASSUME NEW k \in Keys, Abandon(k) \/ Lookup(k) \/ Expire(k) PROVE answer' = answer
  BY <1>5 DEF Abandon, Lookup, Expire
<1>6. ASSUME NEW t \in Tabs, Sweep(t) \/ Reset(t) \/ Reload(t) PROVE answer' = answer
  BY <1>6 DEF Sweep, Reset, Reload
<1>. QED BY <1>1, <1>2, <1>3, <1>4, <1>5, <1>6 DEF Next, Presented, vars

(***************************************************************************)
(* When no key is freed or expires while its work runs, outcomes can be    *)
(* stored and the digest is free of collisions, a replay is always the     *)
(* stored outcome of a run of that very request under that key (begin).    *)
(***************************************************************************)
THEOREM ReplaysAreReal ==
  ASSUME ~FreeWhileRunning, ~ExpireWhileRunning, ~StorageCanFail, "unwritable" \notin Values,
         \A r, q \in Requests : Digest[r] = Digest[q] => r = q
  PROVE  Spec => []ReplayIsReal
<1>1. Init => HoldsClaim /\ OneRunPerKey /\ RecordsAreReal /\ ReplayIsReal
  <2>1. Init => \A c \in Callers : calls[c] = NoCall
    BY DEF Init
  <2>2. Init => \A k \in Keys : store[k].status = "none"
    BY DEF Init, NoRecord
  <2>3. Init => answer.kind = "none"
    BY DEF Init, NoAnswer
  <2>. QED BY <2>1, <2>2, <2>3 DEF HoldsClaim, OneRunPerKey, Running, RecordsAreReal, ReplayIsReal
<1>2. TypeOK /\ HoldsClaim /\ OneRunPerKey /\ RecordsAreReal /\ ReplayIsReal /\ [Next]_vars
        => (HoldsClaim /\ OneRunPerKey /\ RecordsAreReal /\ ReplayIsReal)'
  BY ClaimStep, RealStep, ReplayStep
<1>. QED BY <1>1, <1>2, TypeCorrect, PTL DEF Spec

(***************************************************************************)
(* Under the same assumptions the store serves every request of a key with *)
(* one run at a time and with what a run of it produced (begin, complete). *)
(***************************************************************************)
THEOREM ServedOnce ==
  ASSUME ~FreeWhileRunning, ~ExpireWhileRunning, ~StorageCanFail, "unwritable" \notin Values,
         \A r, q \in Requests : Digest[r] = Digest[q] => r = q
  PROVE  Spec => []ServesOnce
<1>1. OneRunPerKey /\ ReplayIsReal => ServesOnce
  BY DEF ServesOnce
<1>. QED BY <1>1, OneRun, ReplaysAreReal, PTL

-----------------------------------------------------------------------------
(***************************************************************************)
(* The ledger.  A hash is any value, so the type of a chain is relative to *)
(* a set H of hashes that grows with it.  The strengthening: each entry of *)
(* an undamaged chain follows the one before it, and a checkpoint taken    *)
(* from a chain that was never damaged is on it or before its anchor.      *)
(***************************************************************************)
Heads(H) == [seq : Nat, hash : H, at : Nat]
Entries(H) == [seq : Nat, at : Nat, body : Bodies \cup {"resealed"}, prev : H, hash : H]
Chains(H) == [anchor : Heads(H), entries : Seq(Entries(H))]
Typed(c, H) == c.anchor \in Heads(H) /\ c.entries \in Seq(Entries(H))

AllFollow(c) == \A n \in 1..Len(c.entries) : Follows(c, n)

(* Every set of natural numbers has a least element. *)
LEMMA LeastNatural == ASSUME NEW T \in SUBSET Nat, T # {} PROVE \E x \in T : \A y \in T : x <= y
<1>1. PICK R : R = OpToRel(<, Nat)
  BY Zenon
<1>2. IsWellFoundedOn(R, Nat)
  BY <1>1, NatLessThanWellFounded, Zenon
<1>3. PICK x \in T : \A y \in T : ~ (<<y, x>> \in R)
  BY <1>2, WFMin, Zenon
<1>4. \A a, b \in Nat : <<b, a>> \in R <=> b < a
  BY <1>1 DEF OpToRel
<1>5. \A y \in T : ~ (y < x)
  BY <1>3, <1>4, Zenon
<1>6. \A y \in T : y \in Nat /\ x \in Nat
  BY <1>3
<1>7. QED
  BY <1>5, <1>6

(* verifyLedgerChain stops at the first entry that does not follow. *)
LEMMA VerifiedPart ==
  ASSUME NEW c, NEW S, c.entries \in Seq(S)
  PROVE  Verified(c) \in 0..Len(c.entries) /\ \A m \in 1..Verified(c) : Follows(c, m)
<1>1. PICK l \in Nat : l = Len(c.entries)
  BY LenProperties
<1> DEFINE Bad == {m \in 1..l : ~Follows(c, m)}
<1>2. \E n \in 0..l : /\ \A m \in 1..n : Follows(c, m)
                      /\ n < l => ~Follows(c, n + 1)
  <2>1. CASE Bad = {}
    <3>1. \A m \in 1..l : Follows(c, m)
      BY <2>1
    <3>2. l \in 0..l /\ ~(l < l)
      BY <1>1
    <3>3. QED
      BY <3>1, <3>2
  <2>2. CASE Bad # {}
    <3>1. Bad \in SUBSET Nat
      OBVIOUS
    <3>2. PICK b \in Bad : \A y \in Bad : b <= y
      BY <2>2, <3>1, LeastNatural, Zenon
    <3>3. b \in 1..l /\ ~Follows(c, b)
      BY <3>2
    <3>4. PICK n \in 0..l : n + 1 = b
      BY <3>3, <1>1
    <3>5. \A m \in 1..n : m \in 1..l /\ ~(b <= m)
      BY <3>3, <3>4, <1>1
    <3>6. \A m \in 1..n : Follows(c, m)
      BY <3>2, <3>5
    <3>7. QED
      BY <3>3, <3>4, <3>6
  <2>3. QED
    BY <2>1, <2>2
<1>3. Verified(c) = CHOOSE n \in 0..l : /\ \A m \in 1..n : Follows(c, m)
                                        /\ n < l => ~Follows(c, n + 1)
  BY <1>1 DEF Verified
<1>4. QED
  BY <1>1, <1>2, <1>3

LEMMA IntactWhenAllFollow ==
  ASSUME NEW c, NEW S, c.entries \in Seq(S), AllFollow(c)
  PROVE  Intact(c)
<1>1. PICK l \in Nat : l = Len(c.entries)
  BY LenProperties
<1>2. \A m \in 1..l : Follows(c, m)
  BY <1>1 DEF AllFollow
<1>3. \A n \in 0..l : (n < l => ~Follows(c, n + 1)) => n = l
  <2> SUFFICES ASSUME NEW n \in 0..l, n < l => ~Follows(c, n + 1) PROVE n = l
    OBVIOUS
  <2>1. n # l => n + 1 \in 1..l /\ n < l
    BY <1>1
  <2>2. QED
    BY <2>1, <1>2
<1>4. \E n \in 0..l : /\ \A m \in 1..n : Follows(c, m)
                      /\ n < l => ~Follows(c, n + 1)
  <2>1. l \in 0..l /\ ~(l < l)
    BY <1>1
  <2>2. QED
    BY <2>1, <1>2
<1>5. Verified(c) = CHOOSE n \in 0..l : /\ \A m \in 1..n : Follows(c, m)
                                        /\ n < l => ~Follows(c, n + 1)
  BY <1>1 DEF Verified
<1>6. Verified(c) = l
  BY <1>3, <1>4, <1>5
<1>7. QED
  BY <1>1, <1>6 DEF Intact

(* The sequence numbers of a chain that verifies run on from its anchor's. *)
LEMMA SeqNumbers ==
  ASSUME NEW c, NEW H, Typed(c, H), AllFollow(c)
  PROVE  \A n \in 1..Len(c.entries) : c.entries[n].seq = c.anchor.seq + n
<1>1. PICK l \in Nat : l = Len(c.entries)
  BY LenProperties DEF Typed
<1>2. PICK a \in Nat : a = c.anchor.seq
  BY DEF Typed, Heads
<1>3. PICK s \in Seq(Entries(H)) : s = c.entries
  BY DEF Typed
<1>4. \A n \in 1..l : s[n] \in Entries(H)
  BY <1>1, <1>3, ElementOfSeq
<1> DEFINE Off == {n \in 1..l : s[n].seq # a + n}
<1>5. Off = {}
  <2> SUFFICES ASSUME Off # {} PROVE FALSE
    OBVIOUS
  <2>1. Off \in SUBSET Nat
    OBVIOUS
  <2>2. PICK n \in Off : \A y \in Off : n <= y
    BY <2>1, LeastNatural, Zenon
  <2>3. n \in 1..l /\ s[n].seq # a + n
    BY <2>2
  <2> HIDE DEF Off
  <2>4. Follows(c, n)
    BY <2>3, <1>1 DEF AllFollow
  <2>5. CASE n = 1
    <3>1. s[n].seq = a + 1
      BY <2>4, <2>5, <1>2, <1>3 DEF Follows
    <3>2. QED
      BY <3>1, <2>3, <2>5
  <2>6. CASE n # 1
    <3>1. PICK m \in 1..l : m = n - 1 /\ m + 1 = n
      BY <2>3, <2>6
    <3>2. s[m].seq = a + m
      <4>1. ~(n <= m)
        BY <3>1
      <4>2. QED
        BY <4>1, <3>1, <2>2 DEF Off
    <3>3. s[n].seq = s[m].seq + 1
      BY <2>4, <2>6, <1>3, <3>1 DEF Follows, Checkpoint
    <3>4. QED
      BY <3>1, <3>2, <3>3, <2>3
  <2>7. QED
    BY <2>5, <2>6
<1>6. \A n \in 1..l : s[n].seq = a + n
  BY <1>5
<1>7. QED
  BY <1>1, <1>2, <1>3, <1>6

LEMMA TypedParts ==
  ASSUME NEW c, NEW H, Typed(c, H)
  PROVE  /\ Len(c.entries) \in Nat
         /\ c.anchor.seq \in Nat /\ c.anchor.at \in Nat
         /\ \A n \in 1..Len(c.entries) : /\ c.entries[n] \in Entries(H)
                                         /\ c.entries[n].seq \in Nat /\ c.entries[n].at \in Nat
                                         /\ Checkpoint(c.entries[n]) \in Heads(H)
<1>1. Len(c.entries) \in Nat
  BY LenProperties DEF Typed
<1>2. c.anchor.seq \in Nat /\ c.anchor.at \in Nat
  BY DEF Typed, Heads
<1>3. \A n \in 1..Len(c.entries) : c.entries[n] \in Entries(H)
  BY ElementOfSeq DEF Typed
<1>4. \A e \in Entries(H) : e.seq \in Nat /\ e.at \in Nat /\ Checkpoint(e) \in Heads(H)
  BY DEF Entries, Heads, Checkpoint
<1>5. QED
  BY <1>1, <1>2, <1>3, <1>4

LEMMA HeadIsTyped ==
  ASSUME NEW c, NEW H, Typed(c, H)
  PROVE  /\ HeadOf(c) \in Heads(H) /\ HeadOf(c).seq \in Nat /\ HeadOf(c).at \in Nat
         /\ HeadOf(c) = IF Len(c.entries) = 0 THEN c.anchor ELSE Checkpoint(c.entries[Len(c.entries)])
<1>1. c.entries = <<>> <=> Len(c.entries) = 0
  BY EmptySeq DEF Typed
<1>2. HeadOf(c) = IF Len(c.entries) = 0 THEN c.anchor ELSE Checkpoint(c.entries[Len(c.entries)])
  BY <1>1 DEF HeadOf
<1>3. Len(c.entries) # 0 => Len(c.entries) \in 1..Len(c.entries)
  BY TypedParts
<1>4. HeadOf(c) \in Heads(H)
  BY <1>2, <1>3, TypedParts DEF Typed
<1>5. QED
  BY <1>2, <1>4 DEF Heads

(* build: the new entry is of the type, with one more hash. *)
LEMMA GrownIsTyped ==
  ASSUME NEW c, NEW H, Typed(c, H), NEW body \in Bodies \cup {"resealed"}, NEW at \in Nat,
         NEW previous \in Heads(H),
         NEW d, d.anchor = c.anchor, d.entries = Append(c.entries, Build(previous, body, at))
  PROVE  \E G : Typed(d, G)
<1>1. PICK e : e = Build(previous, body, at)
  OBVIOUS
<1>2. PICK G : G = H \cup {e.hash}
  BY ZenonT(40)
<1>3. e \in Entries(G)
  <2>1. PICK seq \in Nat : seq = previous.seq + 1
    BY DEF Heads
  <2>2. previous.hash \in H
    BY DEF Heads
  <2>3. PICK h : h = HashOf([seq |-> seq, at |-> at, body |-> body, prev |-> previous.hash])
    OBVIOUS
  <2>4. e = [seq |-> seq, at |-> at, body |-> body, prev |-> previous.hash, hash |-> h]
    BY <1>1, <2>1, <2>3 DEF Build
  <2>5. e.hash = h
    BY <2>4
  <2>6. QED
    BY <1>2, <2>2, <2>4, <2>5 DEF Entries
<1>4. Entries(H) \subseteq Entries(G) /\ Heads(H) \subseteq Heads(G)
  BY <1>2 DEF Entries, Heads
<1>5. c.entries \in Seq(Entries(G))
  BY <1>4, SeqMonotonic DEF Typed
<1>6. Append(c.entries, e) \in Seq(Entries(G))
  BY <1>3, <1>5, AppendProperties
<1>7. QED
  BY <1>1, <1>4, <1>6 DEF Typed

(* The new entry follows the head. *)
LEMMA GrownFollows ==
  ASSUME NEW c, NEW H, Typed(c, H), AllFollow(c), NEW body, NEW at \in Nat, HeadOf(c).at <= at,
         NEW d, d.anchor = c.anchor, d.entries = Append(c.entries, Build(HeadOf(c), body, at))
  PROVE  AllFollow(d)
<1>1. PICK e : e = Build(HeadOf(c), body, at)
  OBVIOUS
<1>2. PICK l \in Nat : l = Len(c.entries)
  BY TypedParts
<1>3. PICK s : s = c.entries /\ \A n \in 1..l : s[n] \in Entries(H)
  BY <1>2, TypedParts
<1>4. /\ Len(d.entries) = l + 1 /\ d.entries[l + 1] = e
      /\ \A n \in 1..l : d.entries[n] = s[n]
  <2>1. PICK S : c.entries \in Seq(S) /\ e \in S
    <3>1. c.entries \in Seq(Entries(H) \cup {e})
      BY SeqMonotonic DEF Typed
    <3>2. QED
      BY <3>1
  <2>2. QED
    BY <2>1, <1>1, <1>2, <1>3, AppendProperties
<1>5. PICK head : head = HeadOf(c) /\ head.at \in Nat
  BY HeadIsTyped
<1>6. head = IF l = 0 THEN c.anchor ELSE Checkpoint(s[l])
  BY <1>2, <1>3, <1>5, HeadIsTyped
<1>7. e.seq = head.seq + 1 /\ e.prev = head.hash /\ HashOf(e) = e.hash /\ e.at = at
  BY <1>1, <1>5 DEF Build, HashOf
<1>8. ASSUME NEW n \in 1..(l + 1) PROVE Follows(d, n)
  <2>1. CASE n = l + 1
    <3>1. head = IF n = 1 THEN d.anchor ELSE Checkpoint(d.entries[n - 1])
      <4>1. CASE l = 0
        BY <4>1, <2>1, <1>6
      <4>2. CASE l # 0
        <5>1. n # 1 /\ n - 1 = l /\ l \in 1..l
          BY <4>2, <2>1
        <5>2. QED
          BY <5>1, <4>2, <1>4, <1>6
      <4>3. QED
        BY <4>1, <4>2, ZenonT(40)
    <3>2. e.at >= head.at
      BY <1>5, <1>7
    <3>3. d.entries[n] = e
      BY <2>1, <1>4
    <3>4. QED
      BY <3>1, <3>2, <3>3, <1>7, Zenon DEF Follows
  <2>2. CASE n # l + 1
    <3>1. n \in 1..l /\ (n # 1 => n - 1 \in 1..l)
      BY <2>2
    <3>2. d.entries[n] = c.entries[n] /\ (n # 1 => d.entries[n - 1] = c.entries[n - 1])
      BY <3>1, <1>3, <1>4
    <3>3. Follows(c, n)
      BY <3>1, <1>2 DEF AllFollow
    <3>4. QED
      BY <3>2, <3>3, ZenonT(40) DEF Follows
  <2>3. QED
    BY <2>1, <2>2
<1>9. QED
  BY <1>4, <1>8 DEF AllFollow

(* A part of a chain, anchored at the entry before it. *)
LEMMA PartFollows ==
  ASSUME NEW c, NEW H, Typed(c, H), NEW k \in 1..Len(c.entries),
         NEW d, d.anchor = Checkpoint(c.entries[k]),
         d.entries = SubSeq(c.entries, k + 1, Len(c.entries))
  PROVE  /\ Typed(d, H) /\ Len(d.entries) = Len(c.entries) - k
         /\ \A n \in 1..(Len(c.entries) - k) : d.entries[n] = c.entries[k + n]
         /\ AllFollow(c) => AllFollow(d)
<1>1. PICK l \in Nat : l = Len(c.entries)
  BY TypedParts
<1>2. \A n \in 1..l : c.entries[n] \in Entries(H) /\ Checkpoint(c.entries[n]) \in Heads(H)
  BY <1>1, TypedParts
<1>3. PICK i \in 1..l : i = k
  BY <1>1
<1>4. PICK j \in Int : j = i + 1
  BY <1>3
<1>5. /\ SubSeq(c.entries, j, l) \in Seq(Entries(H))
      /\ Len(SubSeq(c.entries, j, l)) = IF j <= l THEN l - j + 1 ELSE 0
      /\ \A n \in 1..(l - j + 1) : SubSeq(c.entries, j, l)[n] = c.entries[j + n - 1]
  <2>1. l \in Int
    BY <1>1
  <2>2. \A n \in j..l : c.entries[n] \in Entries(H)
    BY <1>2, <1>3, <1>4
  <2>3. QED
    BY <2>1, <2>2, SubSeqProperties
<1>6. d.entries \in Seq(Entries(H)) /\ Len(d.entries) = l - i
  <2>1. d.entries = SubSeq(c.entries, j, l)
    BY <1>1, <1>3, <1>4
  <2>2. (IF j <= l THEN l - j + 1 ELSE 0) = l - i
    BY <1>1, <1>3, <1>4
  <2>3. QED
    BY <2>1, <2>2, <1>5, Zenon
<1>7. \A n \in 1..(l - i) : d.entries[n] = c.entries[i + n]
  <2> SUFFICES ASSUME NEW n \in 1..(l - i) PROVE d.entries[n] = c.entries[i + n]
    BY ZenonT(40)
  <2>1. n \in 1..(l - j + 1) /\ j + n - 1 = i + n
    BY <1>1, <1>3, <1>4
  <2>2. d.entries = SubSeq(c.entries, j, l)
    BY <1>1, <1>3, <1>4
  <2>3. QED
    BY <2>1, <2>2, <1>5, Zenon
<1>8. ASSUME AllFollow(c), NEW n \in 1..(l - i) PROVE Follows(d, n)
  <2>1. i + n \in 1..l /\ i + n # 1 /\ (i + n) - 1 = i + (n - 1)
    BY <1>3
  <2>2. Follows(c, i + n)
    BY <2>1, <1>1, <1>8 DEF AllFollow
  <2>3. d.entries[n] = c.entries[i + n]
    BY <1>7, Zenon
  <2>4. (IF n = 1 THEN d.anchor ELSE Checkpoint(d.entries[n - 1])) = Checkpoint(c.entries[(i + n) - 1])
    <3>1. CASE n = 1
      <4>1. (i + n) - 1 = i
        BY <3>1, <1>3
      <4>2. QED
        BY <3>1, <4>1, <1>3
    <3>2. CASE n # 1
      <4>1. n - 1 \in 1..(l - i)
        BY <3>2, <1>3
      <4>2. d.entries[n - 1] = c.entries[i + (n - 1)]
        BY <4>1, <1>7, Zenon
      <4>3. QED
        BY <3>2, <4>2, <2>1, Zenon
    <3>3. QED
      BY <3>1, <3>2, Zenon
  <2>5. QED
    BY <2>1, <2>2, <2>3, <2>4, Zenon DEF Follows
<1>9. d.anchor \in Heads(H)
  BY <1>2, <1>3
<1>10. QED
  BY <1>1, <1>3, <1>6, <1>7, <1>8, <1>9 DEF Typed, AllFollow

(* The part of a chain that verifies is a chain of its own. *)
LEMMA PrefixFollows ==
  ASSUME NEW c, NEW H, Typed(c, H), NEW k \in 0..Len(c.entries),
         NEW d, d.anchor = c.anchor, d.entries = SubSeq(c.entries, 1, k)
  PROVE  /\ Typed(d, H)
         /\ (\A m \in 1..k : Follows(c, m)) => AllFollow(d)
<1>1. PICK l \in Nat : l = Len(c.entries)
  BY TypedParts
<1>2. \A n \in 1..k : c.entries[n] \in Entries(H)
  BY <1>1, TypedParts
<1>3. /\ SubSeq(c.entries, 1, k) \in Seq(Entries(H))
      /\ Len(SubSeq(c.entries, 1, k)) = IF 1 <= k THEN k - 1 + 1 ELSE 0
      /\ \A n \in 1..(k - 1 + 1) : SubSeq(c.entries, 1, k)[n] = c.entries[1 + n - 1]
  <2>1. k \in Int
    BY <1>1
  <2>2. QED
    BY <2>1, <1>2, SubSeqProperties
<1>4. d.entries \in Seq(Entries(H)) /\ Len(d.entries) = k
  BY <1>1, <1>3
<1>5. \A n \in 1..k : d.entries[n] = c.entries[n]
  <2> SUFFICES ASSUME NEW n \in 1..k PROVE d.entries[n] = c.entries[n]
    OBVIOUS
  <2>1. n \in 1..(k - 1 + 1) /\ 1 + n - 1 = n
    BY <1>1
  <2>2. QED
    BY <2>1, <1>3
<1>6. ASSUME \A m \in 1..k : Follows(c, m), NEW n \in 1..k PROVE Follows(d, n)
  <2>1. n # 1 => n - 1 \in 1..k
    BY <1>1
  <2>2. QED
    BY <2>1, <1>5, <1>6 DEF Follows
<1>7. QED
  BY <1>4, <1>6 DEF Typed, AllFollow

(* A chain that lost an entry, or has one edited, is still of the type. *)
LEMMA DamagedIsTyped ==
  ASSUME NEW c, NEW H, Typed(c, H), NEW n \in 1..Len(c.entries)
  PROVE  /\ WithoutEntry(c.entries, n) \in Seq(Entries(H)) /\ Len(WithoutEntry(c.entries, n)) = Len(c.entries) - 1
         /\ \A body \in Bodies : Edited(c.entries, n, body) \in Seq(Entries(H))
<1>1. PICK l \in Nat : l = Len(c.entries)
  BY TypedParts
<1>2. PICK s \in Seq(Entries(H)) : s = c.entries
  BY DEF Typed
<1>3. \A m \in 1..l : s[m] \in Entries(H)
  BY <1>1, <1>2, ElementOfSeq
<1>4. PICK a : a = SubSeq(s, 1, n - 1)
  BY Zenon
<1>5. PICK b : b = SubSeq(s, n + 1, l)
  BY Zenon
<1>6. n \in 1..l /\ n - 1 \in Int /\ n + 1 \in Int /\ l \in Int
  BY <1>1
<1>7. (\A m \in 1..(n - 1) : s[m] \in Entries(H)) /\ (\A m \in (n + 1)..l : s[m] \in Entries(H))
  BY <1>3, <1>6
<1>8. a \in Seq(Entries(H)) /\ Len(a) = IF 1 <= n - 1 THEN (n - 1) - 1 + 1 ELSE 0
  BY <1>4, <1>6, <1>7, SubSeqProperties
<1>9. b \in Seq(Entries(H)) /\ Len(b) = IF n + 1 <= l THEN l - (n + 1) + 1 ELSE 0
  BY <1>5, <1>6, <1>7, SubSeqProperties
<1>10. Len(a) = n - 1 /\ Len(b) = l - n
  BY <1>6, <1>8, <1>9
<1>11. a \o b \in Seq(Entries(H)) /\ Len(a \o b) = Len(a) + Len(b)
  BY <1>8, <1>9, ConcatProperties, Zenon
<1>12. WithoutEntry(c.entries, n) = a \o b
  BY <1>1, <1>2, <1>4, <1>5 DEF WithoutEntry
<1>13. Len(a \o b) = l - 1
  BY <1>6, <1>10, <1>11
<1>14. ASSUME NEW body \in Bodies PROVE Edited(c.entries, n, body) \in Seq(Entries(H))
  <2>1. PICK e : e = [s[n] EXCEPT !.body = body]
    BY Zenon
  <2>2. e \in Entries(H)
    BY <2>1, <1>3, <1>6, Zenon DEF Entries
  <2>3. [s EXCEPT ![n] = e] \in Seq(Entries(H))
    BY <2>2, <1>1, <1>2, <1>6, ExceptSeq
  <2>4. QED
    BY <2>1, <2>3, <1>2 DEF Edited
<1>15. QED
  BY <1>1, <1>11, <1>12, <1>13, <1>14

(* export, verifyLedgerExport: what is exported of a chain that verifies   *)
(* verifies, and not when an entry of it is missing.                       *)
LEMMA ExportVerifies ==
  ASSUME NEW c, NEW H, Typed(c, H), AllFollow(c), NEW from \in 1..HeadOf(c).seq
  PROVE  /\ VerifiesExport(Exported(c, from))
         /\ \A n \in DOMAIN Exported(c, from).entries :
              ~VerifiesExport([Exported(c, from) EXCEPT !.entries = WithoutEntry(@, n)])
<1>1. PICK l \in Nat : l = Len(c.entries)
  BY TypedParts
<1>2. PICK a \in Nat : a = c.anchor.seq
  BY TypedParts
<1>3. \A n \in 1..l : c.entries[n].seq = a + n
  BY <1>1, <1>2, SeqNumbers
<1>4. HeadOf(c).seq = a + l
  <2>1. CASE l = 0
    BY <2>1, <1>1, <1>2, HeadIsTyped
  <2>2. CASE l # 0
    <3>1. HeadOf(c) = Checkpoint(c.entries[l]) /\ l \in 1..l
      BY <2>2, <1>1, HeadIsTyped
    <3>2. QED
      BY <3>1, <1>3 DEF Checkpoint
  <2>3. QED
    BY <2>1, <2>2
<1>5. PICK part : part = PartFrom(c, from)
  OBVIOUS
<1>6. Typed(part, H) /\ AllFollow(part)
  <2>1. CASE from <= a + 1
    <3>1. part.anchor = c.anchor /\ part.entries = c.entries
      BY <2>1, <1>2, <1>5 DEF PartFrom
    <3>2. QED
      BY <3>1 DEF Typed, AllFollow, Follows
  <2>2. CASE ~(from <= a + 1)
    <3>1. PICK i \in 1..l : i = from - a /\ i > 1 /\ from = a + i
      BY <2>2, <1>4
    <3>2. DOMAIN c.entries = 1..l
      BY <1>1, LenProperties DEF Typed
    <3>3. \A n \in 1..l : c.entries[n].seq = from <=> n = i
      BY <1>3, <3>1
    <3>4. c.entries[i].seq = from /\ \A m \in 1..(i - 1) : c.entries[m].seq # from
      <4>1. \A m \in 1..(i - 1) : m \in 1..l /\ m # i
        BY <3>1
      <4>2. QED
        BY <4>1, <3>3
    <3>5. IndexOfSeq(c, from) = i
      BY <3>2, <3>3, <3>4 DEF IndexOfSeq
    <3>6. PICK k \in 1..l : k = i - 1 /\ k + 1 = i
      BY <3>1
    <3>7. part.anchor = Checkpoint(c.entries[k]) /\ part.entries = SubSeq(c.entries, k + 1, Len(c.entries))
      BY <2>2, <1>2, <1>5, <3>5, <3>6 DEF PartFrom
    <3>8. QED
      BY <3>6, <3>7, <1>1, PartFollows
  <2>3. QED
    BY <2>1, <2>2
<1>7. PICK x : x = [anchor |-> part.anchor, entries |-> part.entries, head |-> HeadOf(part),
                    count |-> Len(part.entries)]
  BY Zenon
<1>8. x = Exported(c, from)
  BY <1>5, <1>7 DEF Exported
<1>9. /\ x.anchor = part.anchor /\ x.entries = part.entries /\ x.head = HeadOf(part)
      /\ x.count = Len(part.entries)
  BY <1>7
<1>10. Typed(x, H) /\ AllFollow(x) /\ HeadOf(x) = x.head
  BY <1>6, <1>9 DEF Typed, AllFollow, Follows, HeadOf
<1>11. Intact(x)
  BY <1>10, IntactWhenAllFollow DEF Typed
<1>12. VerifiesExport(x)
  BY <1>9, <1>10, <1>11 DEF VerifiesExport
<1>13. ASSUME NEW n \in DOMAIN x.entries PROVE ~VerifiesExport([x EXCEPT !.entries = WithoutEntry(@, n)])
  <2>1. PICK y : y = [x EXCEPT !.entries = WithoutEntry(x.entries, n)]
    BY Zenon
  <2>2. y.entries = WithoutEntry(x.entries, n) /\ y.count = x.count
    BY <2>1, <1>7
  <2>3. n \in 1..Len(x.entries)
    BY <1>10, LenProperties DEF Typed
  <2>4. Len(y.entries) = Len(x.entries) - 1 /\ Len(x.entries) \in Nat /\ y.count = Len(x.entries)
    BY <2>2, <2>3, <1>9, <1>10, DamagedIsTyped, TypedParts
  <2>5. Len(y.entries) # y.count
    BY <2>4
  <2>6. QED
    BY <2>1, <2>5 DEF VerifiesExport
<1>14. QED
  BY <1>8, <1>12, <1>13

(* The head a checkpoint names is the anchor or an entry. *)
OnChain(c, p) ==
  \/ p.seq = c.anchor.seq /\ p.hash = c.anchor.hash
  \/ \E n \in 1..Len(c.entries) : p.seq = c.entries[n].seq /\ p.hash = c.entries[n].hash

LedgerInv ==
  /\ now \in Nat /\ damages \in Nat /\ damaged \in BOOLEAN /\ checkpoint.seq \in Nat
  /\ chain = Unreadable \/ \E H : chain \in Chains(H)
  /\ ~damaged => chain # Unreadable /\ AllFollow(chain)
  /\ damages = 0 => ~damaged /\ (checkpoint.seq < chain.anchor.seq \/ OnChain(chain, checkpoint))

LEMMA ReadableChains ==
  ASSUME NEW c, NEW H, c \in Chains(H)
  PROVE  c # Unreadable /\ Typed(c, H) /\ c = [anchor |-> c.anchor, entries |-> c.entries]
<1>1. DOMAIN c = {"anchor", "entries"}
  BY DEF Chains
<1>2. "unreadable" \in DOMAIN Unreadable
  BY DEF Unreadable
<1>3. QED
  BY <1>1, <1>2 DEF Chains, Typed

LEMMA MadeReadable ==
  ASSUME NEW c, NEW H, Typed(c, H), NEW r, r = [anchor |-> c.anchor, entries |-> c.entries]
  PROVE  r \in Chains(H)
BY DEF Typed, Chains

(* What the invariant says of the chain is what verify reports. *)
LEMMA InvVerifies == ASSUME LedgerInv PROVE UndamagedVerifies
<1>1. ASSUME ~damaged
      PROVE  /\ Verifies(chain)
             /\ \A from \in 1..HeadOf(chain).seq :
                  /\ VerifiesExport(Exported(chain, from))
                  /\ \A n \in DOMAIN Exported(chain, from).entries :
                       ~VerifiesExport([Exported(chain, from) EXCEPT !.entries = WithoutEntry(@, n)])
  <2>1. PICK H : chain \in Chains(H)
    BY <1>1 DEF LedgerInv
  <2>2. Typed(chain, H) /\ AllFollow(chain) /\ chain # Unreadable
    BY <1>1, <2>1, ReadableChains DEF LedgerInv
  <2>3. Intact(chain)
    BY <2>2, IntactWhenAllFollow DEF Typed
  <2>4. QED
    BY <2>2, <2>3, ExportVerifies DEF Verifies, Readable
<1>2. ASSUME damages = 0, checkpoint.seq >= chain.anchor.seq PROVE VerifiesHead(chain, checkpoint)
  <2>1. ~damaged
    BY <1>2 DEF LedgerInv
  <2>2. PICK H : chain \in Chains(H)
    BY <2>1 DEF LedgerInv
  <2>3. Typed(chain, H)
    BY <2>2, ReadableChains
  <2>4. checkpoint.seq \in Nat /\ chain.anchor.seq \in Nat
    BY <2>3, TypedParts DEF LedgerInv
  <2>5. OnChain(chain, checkpoint)
    BY <1>2, <2>4 DEF LedgerInv
  <2>6. DOMAIN chain.entries = 1..Len(chain.entries)
    BY <2>3, LenProperties DEF Typed
  <2>7. \E p \in {chain.anchor, HeadOf(chain)} \cup Range(chain.entries) :
          checkpoint.seq = p.seq /\ checkpoint.hash = p.hash
    BY <2>5, <2>6 DEF OnChain, Range
  <2>8. QED
    BY <1>1, <2>1, <2>7 DEF VerifiesHead
<1>3. QED
  BY <1>1, <1>2 DEF UndamagedVerifies

LEMMA StaysOnChain ==
  ASSUME NEW c, NEW H, Typed(c, H), NEW p, OnChain(c, p), NEW e, NEW d,
         d.anchor = c.anchor, d.entries = Append(c.entries, e)
  PROVE  OnChain(d, p)
<1>1. c.entries \in Seq(Entries(H) \cup {e})
  BY SeqMonotonic DEF Typed
<1>2. Len(d.entries) = Len(c.entries) + 1 /\ \A n \in 1..Len(c.entries) : d.entries[n] = c.entries[n]
  BY <1>1, AppendProperties
<1>3. \A n \in 1..Len(c.entries) : n \in 1..Len(d.entries)
  BY <1>2, TypedParts
<1>4. QED
  BY <1>2, <1>3 DEF OnChain

LEMMA AppendHolds ==
  ASSUME LedgerInv, NEW body \in Bodies, NEW given \in {FromClock} \cup {<<at>> : at \in 0..MaxNow},
         AppendEntry(body, given)
  PROVE  LedgerInv'
<1>1. PICK c, H : c = chain /\ c \in Chains(H)
  BY DEF LedgerInv, AppendEntry, Readable
<1>2. Typed(c, H) /\ c = [anchor |-> c.anchor, entries |-> c.entries]
  BY <1>1, ReadableChains
<1>3. PICK head \in Heads(H) : head = HeadOf(c) /\ head.at \in Nat
  BY <1>2, HeadIsTyped
<1>4. PICK at \in Nat : at = Instant(given, head) /\ head.at <= at
  <2>1. now \in Nat
    BY DEF LedgerInv
  <2>2. CASE given = FromClock
    BY <2>1, <2>2, <1>3 DEF Instant
  <2>3. CASE given # FromClock
    <3>1. PICK i \in 0..MaxNow : given = <<i>>
      BY <2>3
    <3>2. Head(given) = i /\ i \in Nat
      BY <3>1, LedgerConstants
    <3>3. Head(given) >= head.at
      BY <2>3, <1>1, <1>3 DEF AppendEntry
    <3>4. QED
      BY <2>3, <3>2, <3>3, <1>3 DEF Instant
  <2>4. QED
    BY <2>2, <2>3
<1>5. PICK e : e = Build(head, body, at)
  OBVIOUS
<1>6. PICK d : d = [anchor |-> c.anchor, entries |-> Append(c.entries, e)]
  BY Zenon
<1>7. d.anchor = c.anchor /\ d.entries = Append(c.entries, e)
  BY <1>6
<1>8. chain' = d /\ UNCHANGED <<now, checkpoint, damaged, damages, quarantine>>
  <2>1. /\ chain' = [c EXCEPT !.entries = Append(@, Build(head, body, Instant(given, head)))]
        /\ UNCHANGED <<now, checkpoint, damaged, damages, quarantine>>
    BY <1>1, <1>3 DEF AppendEntry
  <2>2. chain' = [c EXCEPT !.entries = Append(c.entries, e)]
    BY <2>1, <1>4, <1>5
  <2>3. [c EXCEPT !.entries = Append(c.entries, e)] = d
    <3>1. PICK a, s : c = [anchor |-> a, entries |-> s]
      BY <1>2
    <3>2. PICK t : t = Append(c.entries, e)
      BY ZenonT(40)
    <3>3. [c EXCEPT !.entries = t] = [anchor |-> a, entries |-> t] /\ c.anchor = a
      BY <3>1
    <3>4. QED
      BY <3>2, <3>3, <1>6
  <2>4. QED
    BY <2>1, <2>2, <2>3
<1>9. \E G : d \in Chains(G)
  <2>1. PICK G : Typed(d, G)
    BY <1>2, <1>5, <1>7, GrownIsTyped
  <2>2. QED
    BY <2>1, <1>6, <1>7, MadeReadable
<1>10. ~damaged => AllFollow(d)
  BY <1>1, <1>2, <1>3, <1>4, <1>5, <1>7, GrownFollows DEF LedgerInv
<1>11. d # Unreadable
  BY <1>9, ReadableChains
<1>12. damages = 0 => checkpoint.seq < d.anchor.seq \/ OnChain(d, checkpoint)
  BY <1>1, <1>2, <1>7, StaysOnChain, ZenonT(40) DEF LedgerInv
<1>13. QED
  BY <1>8, <1>9, <1>10, <1>11, <1>12 DEF LedgerInv, OnChain

LEMMA PruneHolds == ASSUME LedgerInv, Prune PROVE LedgerInv'
<1>1. PICK c, H : c = chain /\ c \in Chains(H)
  BY DEF LedgerInv, Prune, Readable
<1>2. Typed(c, H)
  BY <1>1, ReadableChains
<1>3. PICK l \in Nat : l = Len(c.entries)
  BY <1>2, TypedParts
<1>4. PICK k \in 1..l : k = l - LedgerLimit
  BY <1>1, <1>3, LedgerConstants DEF Prune
<1>5. PICK d : d = [anchor |-> Checkpoint(c.entries[k]), entries |-> SubSeq(c.entries, k + 1, Len(c.entries))]
  BY Zenon
<1>6. d.anchor = Checkpoint(c.entries[k]) /\ d.entries = SubSeq(c.entries, k + 1, Len(c.entries))
  BY <1>5
<1>7. chain' = d /\ UNCHANGED <<now, checkpoint, damaged, damages, quarantine>>
  BY <1>1, <1>3, <1>4, <1>5 DEF Prune, AnchorAt
<1>8. /\ Typed(d, H) /\ Len(d.entries) = l - k /\ (AllFollow(c) => AllFollow(d))
      /\ \A n \in 1..(l - k) : d.entries[n] = c.entries[k + n]
  BY <1>2, <1>3, <1>6, PartFollows, ZenonT(40)
<1>9. d \in Chains(H) /\ d # Unreadable
  BY <1>5, <1>6, <1>8, MadeReadable, ReadableChains, Zenon
<1>10. ASSUME damages = 0 PROVE checkpoint.seq < d.anchor.seq \/ OnChain(d, checkpoint)
  <2>1. PICK p : p = checkpoint /\ p.seq \in Nat
    BY DEF LedgerInv
  <2>2. AllFollow(c) /\ (p.seq < c.anchor.seq \/ OnChain(c, p))
    BY <1>1, <1>10, <2>1 DEF LedgerInv, OnChain
  <2>3. PICK a \in Nat : a = c.anchor.seq
    BY <1>2, TypedParts
  <2>4. \A n \in 1..l : c.entries[n].seq = a + n
    BY <1>2, <1>3, <2>2, <2>3, SeqNumbers
  <2>5. d.anchor.seq = a + k /\ d.anchor.hash = c.entries[k].hash
    BY <1>6, <2>4 DEF Checkpoint
  <2>6. CASE p.seq < c.anchor.seq \/ p.seq = c.anchor.seq
    BY <2>1, <2>3, <2>5, <2>6
  <2>7. CASE \E n \in 1..l : p.seq = c.entries[n].seq /\ p.hash = c.entries[n].hash
    <3>1. PICK n \in 1..l : p.seq = c.entries[n].seq /\ p.hash = c.entries[n].hash
      BY <2>7
    <3>2. p.seq = a + n
      BY <3>1, <2>4
    <3>3. CASE n < k
      BY <3>2, <3>3, <2>1, <2>3, <2>5
    <3>4. CASE n = k
      <4>1. p.seq = d.anchor.seq /\ p.hash = d.anchor.hash
        BY <3>1, <3>2, <3>4, <2>5
      <4>2. QED
        BY <4>1, <2>1 DEF OnChain
    <3>5. CASE n > k
      <4>1. PICK m \in 1..(l - k) : m = n - k /\ k + m = n
        BY <3>5
      <4>2. d.entries[m] = c.entries[n] /\ m \in 1..Len(d.entries)
        BY <4>1, <1>8
      <4>3. QED
        BY <4>2, <3>1, <2>1 DEF OnChain
    <3>6. QED
      BY <3>3, <3>4, <3>5
  <2>8. QED
    BY <2>2, <2>6, <2>7, <1>3 DEF OnChain
<1>11. QED
  BY <1>1, <1>7, <1>8, <1>9, <1>10 DEF LedgerInv, OnChain

LEMMA ResealHolds == ASSUME LedgerInv, Reseal PROVE LedgerInv'
<1>1. PICK c : c = chain
  OBVIOUS
<1>2. PICK H : Typed(c, H)
  <2>1. CASE c = Unreadable
    <3>1. Genesis \in Heads({<<>>}) /\ Unreadable.anchor = Genesis /\ Unreadable.entries = <<>>
      BY DEF Genesis, Heads, Unreadable
    <3>2. <<>> \in Seq(Entries({<<>>}))
      OBVIOUS
    <3>3. QED
      BY <2>1, <3>1, <3>2 DEF Typed
  <2>2. CASE c # Unreadable
    BY <2>2, <1>1, ReadableChains DEF LedgerInv
  <2>3. QED
    BY <2>1, <2>2
<1>3. PICK v \in 0..Len(c.entries) : v = Verified(c) /\ \A m \in 1..v : Follows(c, m)
  BY <1>2, VerifiedPart DEF Typed
<1>4. PICK p : p = [c EXCEPT !.entries = SubSeq(c.entries, 1, v)]
  BY Zenon
<1>5. p.anchor = c.anchor /\ p.entries = SubSeq(c.entries, 1, v)
  <2>1. CASE c = Unreadable
    BY <2>1, <1>4 DEF Unreadable
  <2>2. CASE c # Unreadable
    BY <2>2, <1>1, <1>4 DEF LedgerInv, Chains
  <2>3. QED
    BY <2>1, <2>2
<1>6. Typed(p, H) /\ AllFollow(p)
  BY <1>2, <1>3, <1>5, PrefixFollows
<1>7. PICK good \in Heads(H) : good = HeadOf(p) /\ good.at \in Nat
  BY <1>6, HeadIsTyped
<1>8. PICK at \in Nat : at = (IF good.at > now THEN good.at ELSE now) /\ good.at <= at
  BY <1>7 DEF LedgerInv
<1>9. PICK e : e = Build(good, "resealed", at)
  OBVIOUS
<1>10. PICK d : d = [anchor |-> c.anchor, entries |-> Append(p.entries, e)]
  BY Zenon
<1>11. d.anchor = p.anchor /\ d.entries = Append(p.entries, e)
  BY <1>5, <1>10
<1>12. chain' = d /\ damaged' = FALSE /\ UNCHANGED <<now, checkpoint, damages>>
  BY <1>1, <1>3, <1>4, <1>5, <1>7, <1>8, <1>9, <1>10 DEF Reseal, Kept
<1>13. \E G : d \in Chains(G)
  <2>1. PICK G : Typed(d, G)
    BY <1>6, <1>9, <1>11, GrownIsTyped, Zenon
  <2>2. QED
    BY <2>1, <1>5, <1>10, <1>11, MadeReadable
<1>14. AllFollow(d) /\ d # Unreadable
  BY <1>6, <1>7, <1>8, <1>9, <1>11, <1>13, GrownFollows, ReadableChains
<1>15. damages # 0
  <2> SUFFICES ASSUME damages = 0 PROVE FALSE
    OBVIOUS
  <2>1. chain # Unreadable /\ AllFollow(chain)
    BY DEF LedgerInv
  <2>2. Verifies(chain)
    BY <2>1, <1>1, <1>2, IntactWhenAllFollow DEF Verifies, Readable, Typed
  <2>3. QED
    BY <2>2 DEF Reseal
<1>16. QED
  BY <1>12, <1>13, <1>14, <1>15, Zenon DEF LedgerInv

LEMMA NewChain == NoChain \in Chains({<<>>}) /\ AllFollow(NoChain) /\ OnChain(NoChain, Genesis) /\ Genesis.seq \in Nat
<1>1. Genesis \in Heads({<<>>}) /\ Genesis.seq \in Nat
  BY DEF Genesis, Heads
<1>2. NoChain.anchor = Genesis /\ NoChain.entries = <<>> /\ Len(NoChain.entries) = 0
  BY DEF NoChain
<1>3. <<>> \in Seq(Entries({<<>>}))
  OBVIOUS
<1>4. NoChain \in Chains({<<>>})
  BY <1>1, <1>3 DEF NoChain, Chains
<1>5. QED
  BY <1>1, <1>2, <1>4 DEF AllFollow, OnChain

LEMMA CheckpointHolds == ASSUME LedgerInv, TakeCheckpoint PROVE LedgerInv'
<1>1. PICK c, H : c = chain /\ c \in Chains(H)
  BY DEF LedgerInv, TakeCheckpoint, Readable
<1>2. Typed(c, H)
  BY <1>1, ReadableChains
<1>3. PICK p : p = HeadOf(c) /\ p.seq \in Nat
  BY <1>2, HeadIsTyped
<1>4. OnChain(c, p)
  <2>1. CASE Len(c.entries) = 0
    BY <2>1, <1>2, <1>3, HeadIsTyped DEF OnChain
  <2>2. CASE Len(c.entries) # 0
    <3>1. PICK n \in 1..Len(c.entries) : n = Len(c.entries)
      BY <2>2, <1>2, TypedParts
    <3>2. p = Checkpoint(c.entries[n])
      BY <2>2, <3>1, <1>2, <1>3, HeadIsTyped
    <3>3. QED
      BY <3>1, <3>2 DEF OnChain, Checkpoint
  <2>3. QED
    BY <2>1, <2>2
<1>5. checkpoint' = p /\ chain' = c /\ UNCHANGED <<now, damaged, damages>>
  BY <1>1, <1>3 DEF TakeCheckpoint
<1>6. QED
  BY <1>1, <1>3, <1>4, <1>5 DEF LedgerInv

LEMMA DamageHolds == ASSUME LedgerInv, StorageDamaged PROVE LedgerInv'
<1>1. PICK c, H : c = chain /\ c \in Chains(H)
  BY DEF LedgerInv, StorageDamaged, Readable
<1>2. Typed(c, H) /\ c = [anchor |-> c.anchor, entries |-> c.entries]
  BY <1>1, ReadableChains
<1>3. chain' = Unreadable \/ \E G : chain' \in Chains(G)
  <2>1. CASE chain' = Unreadable
    BY <2>1
  <2>2. ASSUME NEW n \in 1..Len(c.entries), NEW entries \in Seq(Entries(H)),
               chain' = [c EXCEPT !.entries = entries]
        PROVE  chain' \in Chains(H)
    BY <2>2, <1>1 DEF Chains
  <2>3. CASE \E n \in 1..Len(c.entries) : chain' = [c EXCEPT !.entries = WithoutEntry(@, n)]
    <3>1. PICK n \in 1..Len(c.entries) : chain' = [c EXCEPT !.entries = WithoutEntry(@, n)]
      BY <2>3
    <3>2. PICK entries \in Seq(Entries(H)) : entries = WithoutEntry(c.entries, n)
      BY <1>2, DamagedIsTyped
    <3>3. QED
      BY <3>1, <3>2, <2>2
  <2>4. CASE \E n \in 1..Len(c.entries), body \in Bodies : chain' = [c EXCEPT !.entries = Edited(@, n, body)]
    <3>1. PICK n \in 1..Len(c.entries), body \in Bodies : chain' = [c EXCEPT !.entries = Edited(@, n, body)]
      BY <2>4
    <3>2. PICK entries \in Seq(Entries(H)) : entries = Edited(c.entries, n, body)
      BY <1>2, DamagedIsTyped
    <3>3. QED
      BY <3>1, <3>2, <2>2
  <2>5. QED
    BY <1>1, <2>1, <2>3, <2>4 DEF StorageDamaged
<1>4. damages' \in Nat /\ damages' # 0 /\ damaged' = TRUE /\ UNCHANGED <<now, checkpoint>>
  BY DEF StorageDamaged, LedgerInv
<1>5. QED
  BY <1>3, <1>4 DEF LedgerInv

(* Every check the ledger offers passes on what nothing damaged (append,   *)
(* prune, reseal, verify, export, verifyLedgerExport): for every retention *)
(* limit, every way the clock moves and every damage that a reseal or a    *)
(* reset repaired.                                                         *)
THEOREM LedgerVerifies == LedgerSpec => []UndamagedVerifies
<1>1. LedgerInit => LedgerInv
  <2> SUFFICES ASSUME LedgerInit PROVE LedgerInv
    OBVIOUS
  <2>1. NoChain # Unreadable
    BY NewChain, ReadableChains
  <2>2. QED
    BY <2>1, NewChain, Zenon DEF LedgerInit, LedgerInv
<1>2. LedgerInv /\ [LedgerNext]_ledgerVars => LedgerInv'
  <2> SUFFICES ASSUME LedgerInv, [LedgerNext]_ledgerVars PROVE LedgerInv'
    OBVIOUS
  <2>1. CASE UNCHANGED ledgerVars
    BY <2>1 DEF LedgerInv, AllFollow, Follows, OnChain, ledgerVars
  <2>2. CASE ResetLedger
    <3>1. NoChain # Unreadable
      BY NewChain, ReadableChains
    <3>2. QED
      BY <2>2, <3>1, NewChain, Zenon DEF ResetLedger, LedgerInv
  <2>3. CASE ClockMoves
    <3>1. now' \in Nat /\ UNCHANGED <<chain, checkpoint, damaged, damages>>
      BY <2>3, LedgerConstants DEF ClockMoves
    <3>2. QED
      BY <3>1 DEF LedgerInv, AllFollow, Follows, OnChain
  <2>4. QED
    BY <2>1, <2>2, <2>3, AppendHolds, PruneHolds, ResealHolds, CheckpointHolds, DamageHolds DEF LedgerNext
<1>3. LedgerInv => UndamagedVerifies
  BY InvVerifies
<1>4. QED
  BY <1>1, <1>2, <1>3, PTL DEF LedgerSpec
=============================================================================
