---------------------- MODULE OperationRecoveryProofs ----------------------
(***************************************************************************)
(* Theorems about OperationRecovery for every number of steps and every    *)
(* set of callers.                                                         *)
(***************************************************************************)
EXTENDS OperationRecovery, TLAPS, WellFoundedInduction, SequenceTheorems

Call == [at : 0..NSteps, rec : Record]

-----------------------------------------------------------------------------
(* The table of the operation *)

(* A known state moves to a known state, and only "complete" completes (resolve). *)
LEMMA ResolveState ==
  ASSUME NEW s \in RecoverableOperation.states, NEW e
  PROVE  /\ Resolve(RecoverableOperation, s, e) \in RecoverableOperation.states
         /\ e # "complete" /\ s # "completed" => Resolve(RecoverableOperation, s, e) # "completed"
<1>. DEFINE m == RecoverableOperation
<1>1. \A r \in m.rules : r[3] \in m.states /\ (r[3] = "completed" => r[2] = "complete")
  BY DEF RecoverableOperation
<1>2. CASE CanTransition(m, s, e)
  <2>1. PICK r \in m.rules : r[1] = s /\ r[2] = e
    BY <1>2 DEF CanTransition
  <2>2. LET c == CHOOSE q \in m.rules : q[1] = s /\ q[2] = e
        IN c \in m.rules /\ c[2] = e
    BY <2>1
  <2>. QED BY <1>1, <1>2, <2>2 DEF Resolve
<1>3. CASE ~CanTransition(m, s, e)
  BY <1>3 DEF Resolve
<1>. QED BY <1>2, <1>3

(* The rule the table has is the one that is found (resolve). *)
LEMMA ResolveRule ==
  ASSUME NEW s, NEW e, NEW t, <<s, e, t>> \in RecoverableOperation.rules
  PROVE  Resolve(RecoverableOperation, s, e) = t
<1>. DEFINE m == RecoverableOperation
<1>1. \A r, q \in m.rules : r[1] = q[1] /\ r[2] = q[2] => r = q
  BY RecoverableOperationIsValid DEF ValidDefinition
<1>2. CanTransition(m, s, e)
  BY DEF CanTransition
<1>. DEFINE c == CHOOSE r \in m.rules : r[1] = s /\ r[2] = e
<1>3. c = <<s, e, t>>
  BY <1>1
<1>4. Resolve(m, s, e) = c[3]
  BY <1>2 DEF Resolve
<1>. HIDE DEF c
<1>5. c[3] = t
  BY <1>3
<1>. QED BY <1>4, <1>5

(* An event of the operation changes the state and no checkpoint (advance). *)
LEMMA AdvanceRecord ==
  ASSUME NEW rec \in Record, NEW e
  PROVE  /\ Advance(rec, e) \in Record
         /\ Advance(rec, e).steps = rec.steps
         /\ Advance(rec, e).state = Resolve(RecoverableOperation, rec.state, e)
         /\ e # "complete" /\ rec.state # "completed" => Advance(rec, e).state # "completed"
<1>1. rec.state \in RecoverableOperation.states
  BY DEF Record
<1>2. Resolve(RecoverableOperation, rec.state, e) \in RecoverableOperation.states
  BY <1>1, ResolveState
<1>3. Advance(rec, e).state = Resolve(RecoverableOperation, rec.state, e)
  BY DEF Advance, Record
<1>4. Advance(rec, e) \in Record /\ Advance(rec, e).steps = rec.steps
  BY <1>2 DEF Advance, Record
<1>. QED BY <1>1, <1>3, <1>4, ResolveState

(* Writing one checkpoint changes no other (withStep). *)
LEMMA WithStepRecord ==
  ASSUME NEW rec \in Record, NEW s \in Steps, NEW st \in StepStatuses, NEW c \in BOOLEAN
  PROVE  /\ WithStep(rec, s, st, c) \in Record
         /\ WithStep(rec, s, st, c).state = rec.state
         /\ WithStep(rec, s, st, c).steps[s] = [status |-> st, committed |-> c]
         /\ \A t \in Steps \ {s} : WithStep(rec, s, st, c).steps[t] = rec.steps[t]
BY DEF WithStep, Record, Checkpoint

(* The three decisions (decideStep). *)
LEMMA Decisions ==
  ASSUME NEW c \in Checkpoint
  PROVE  /\ DecideStep(c) = "skip" <=> c.status \in {"succeeded", "skipped"}
         /\ DecideStep(c) = "run" <=> c.status \notin {"succeeded", "skipped"} /\ ~c.committed
BY DEF DecideStep, Checkpoint

-----------------------------------------------------------------------------
(* Least elements *)

(* The least of two numbers. *)
LEMMA MinOfTwo ==
  ASSUME NEW a \in Nat, NEW b \in Nat
  PROVE  Min({a, b}) = IF a <= b THEN a ELSE b
BY DEF Min

(* The order of the numbers as a relation. *)
Below == {p \in Nat \X Nat : p[1] < p[2]}

(* It has no infinite descent. *)
LEMMA BelowWellFounded == IsWellFoundedOn(Below, Nat)
BY NatLessThanWellFounded DEF OpToRel, Below

(* A set of steps that is not empty has a first one. *)
LEMMA MinStep ==
  ASSUME NEW S, S \subseteq Steps, S # {}
  PROVE  Min(S) \in S /\ \A t \in S : Min(S) <= t
<1>1. S \subseteq Nat
  BY DEF Steps
<1>2. PICK x \in S : \A y \in S : ~(<<y, x>> \in Below)
  BY <1>1, BelowWellFounded, WFMin, Zenon
<1>3. \A m, n \in Nat : m < n => <<m, n>> \in Below
  BY DEF Below
<1>4. \A y \in S : x <= y
  <2>. SUFFICES ASSUME NEW y \in S, y < x
                PROVE  FALSE
    BY <1>1
  <2>. QED BY <1>1, <1>2, <1>3, Zenon
<1>. QED BY <1>4 DEF Min

-----------------------------------------------------------------------------
(* The stretch between two awaits *)

Begun(rec, s) == WithStep(rec, s, "running", FALSE)

(***************************************************************************)
(* The loop closes an operation without an open step, stops, or calls the  *)
(* first open step, which the checkpoint says to run (runOperation).       *)
(***************************************************************************)
LEMMA LoopCases ==
  ASSUME NEW rec \in Record
  PROVE  \/ /\ \A s \in Steps : DecideStep(rec.steps[s]) = "skip"
            /\ Loop(rec).writes = <<Advance(rec, "complete")>>
            /\ Loop(rec).call = NoCall
         \/ Loop(rec).writes = <<>> /\ Loop(rec).call = NoCall
         \/ \E s \in Steps :
              /\ DecideStep(rec.steps[s]) = "run"
              /\ \A t \in 1..s - 1 : DecideStep(rec.steps[t]) = "skip"
              /\ Loop(rec).writes = <<Begun(rec, s)>>
              /\ Loop(rec).call = [at |-> s, rec |-> Begun(rec, s)]
<1>1. CASE Open(rec) = {}
  <2>1. Loop(rec) = [writes |-> <<Advance(rec, "complete")>>, call |-> NoCall]
    BY <1>1 DEF Loop
  <2>2. \A s \in Steps : DecideStep(rec.steps[s]) = "skip"
    BY <1>1 DEF Open
  <2>. QED BY <2>1, <2>2
<1>2. CASE Open(rec) # {}
  <2>. DEFINE s == Min(Open(rec))
  <2>1. s \in Steps /\ DecideStep(rec.steps[s]) # "skip" /\ \A t \in Open(rec) : s <= t
    BY <1>2, MinStep DEF Open
  <2>2. \A t \in 1..s - 1 : DecideStep(rec.steps[t]) = "skip"
    <3>. HIDE DEF s
    <3>. SUFFICES ASSUME NEW t \in 1..s - 1
                  PROVE  DecideStep(rec.steps[t]) = "skip"
      OBVIOUS
    <3>1. t \in Steps /\ ~(s <= t)
      BY <2>1, RecoveryConstants DEF Steps
    <3>2. t \notin Open(rec)
      BY <2>1, <3>1
    <3>. QED BY <3>1, <3>2 DEF Open
  <2>3. CASE DecideStep(rec.steps[s]) = "confirm"
    <3>1. Loop(rec) = [writes |-> <<>>, call |-> NoCall]
      BY <1>2, <2>3 DEF Loop
    <3>. QED BY <3>1
  <2>4. CASE DecideStep(rec.steps[s]) # "confirm"
    <3>1. rec.steps[s] \in Checkpoint
      BY <2>1 DEF Record
    <3>2. DecideStep(rec.steps[s]) = "run"
      BY <2>1, <2>4 DEF DecideStep
    <3>3. rec.steps[s].committed = FALSE
      BY <3>1, <3>2, Decisions DEF Checkpoint
    <3>4. Loop(rec) = [writes |-> <<Begun(rec, s)>>, call |-> [at |-> s, rec |-> Begun(rec, s)]]
      BY <1>2, <2>4, <3>3, Zenon DEF Loop, Begun
    <3>. QED BY <2>1, <2>2, <3>2, <3>4
  <2>. QED BY <2>3, <2>4
<1>. QED BY <1>1, <1>2

(***************************************************************************)
(* A stretch leaves what storage held or one of its writes; the call goes  *)
(* on only when its last write is what storage holds (persist).            *)
(***************************************************************************)
LEMMA PerformCases ==
  ASSUME NEW r \in Runners, NEW writes, NEW call, NEW n \in 0..AllWrites,
         NEW k \in Nat, Len(writes) = k,
         runner \in [Runners -> Call],
         Perform(r, writes, call, n)
  PROVE  /\ stored' = stored \/ (n > 0 /\ \E i \in 1..k : stored' = writes[i])
         /\ n = 0 => stored' = stored
         /\ runner'[r] = NoCall \/ (runner'[r] = call /\ stored' = IF k = 0 THEN stored ELSE writes[k])
         /\ \A q \in Runners \ {r} : runner'[q] = runner[q]
         /\ runner' = [runner EXCEPT ![r] = runner'[r]]
         /\ n > 0 /\ k > 0 => \E i \in 1..k : stored' = writes[i]
<1>1. n \in Nat
  BY DEF AllWrites
<1>. DEFINE landed == Min({n, k})
<1>2. landed = IF n <= k THEN n ELSE k
  BY <1>1, MinOfTwo
<1>3. /\ stored' = IF landed = 0 THEN stored ELSE writes[landed]
      /\ runner' = [runner EXCEPT ![r] = IF landed = k THEN call ELSE NoCall]
  BY DEF Perform
<1>. HIDE DEF landed
<1>4. landed \in 0..k /\ (landed = 0 <=> n = 0 \/ k = 0)
  BY <1>1, <1>2
<1>5. runner'[r] = (IF landed = k THEN call ELSE NoCall) /\ \A q \in Runners \ {r} : runner'[q] = runner[q]
  BY <1>3
<1>6. runner' = [runner EXCEPT ![r] = runner'[r]]
  BY <1>3, <1>5
<1>. QED BY <1>1, <1>3, <1>4, <1>5, <1>6

-----------------------------------------------------------------------------
(* No effect is believed in that did not happen *)

(***************************************************************************)
(* A record passes over no step that has not taken effect, and completes   *)
(* no operation too early.  d says which steps have taken effect.          *)
(***************************************************************************)
Truthful(rec, d) ==
  /\ rec \in Record
  /\ \A s \in Steps : DecideStep(rec.steps[s]) = "skip" => d[s]
  /\ rec.state = "completed" => \A s \in Steps : d[s]

TruthfulCall(call, d) ==
  /\ call \in Call
  /\ Truthful(call.rec, d)
  /\ call.rec.state # "completed"
  /\ \A s \in 1..call.at - 1 : d[s]

(* The inductive invariant: also the records that calls carry are truthful. *)
RecordsTruthful ==
  /\ done \in [Steps -> BOOLEAN]
  /\ settled \subseteq Steps
  /\ Truthful(stored, done)
  /\ runner \in [Runners -> Call]
  /\ \A r \in Runners : TruthfulCall(runner[r], done)

(* Advancing an unfinished operation keeps its record truthful (advance). *)
LEMMA AdvanceTruthful ==
  ASSUME NEW rec, NEW d, Truthful(rec, d), rec.state # "completed", NEW e, e # "complete"
  PROVE  Truthful(Advance(rec, e), d) /\ Advance(rec, e).state # "completed"
BY AdvanceRecord DEF Truthful

(* So does a checkpoint that claims no more than is so (withStep). *)
LEMMA WithStepTruthful ==
  ASSUME NEW rec, NEW d, Truthful(rec, d), rec.state # "completed",
         NEW s \in Steps, NEW st \in StepStatuses, NEW c \in BOOLEAN,
         st \in {"succeeded", "skipped"} => d[s]
  PROVE  /\ Truthful(WithStep(rec, s, st, c), d)
         /\ WithStep(rec, s, st, c).state # "completed"
<1>. DEFINE new == WithStep(rec, s, st, c)
<1>1. /\ new \in Record /\ new.state = rec.state
      /\ new.steps[s] = [status |-> st, committed |-> c]
      /\ \A t \in Steps \ {s} : new.steps[t] = rec.steps[t]
  BY WithStepRecord DEF Truthful
<1>. HIDE DEF new
<1>2. DecideStep(new.steps[s]) = "skip" => d[s]
  BY <1>1, Decisions DEF Checkpoint
<1>3. \A t \in Steps : DecideStep(new.steps[t]) = "skip" => d[t]
  BY <1>1, <1>2 DEF Truthful
<1>4. Truthful(new, d) /\ new.state # "completed"
  BY <1>1, <1>3 DEF Truthful
<1>. QED BY <1>4 DEF new

(* The fresh record claims nothing (createRecord). *)
LEMMA NoCallTruthful ==
  ASSUME NEW d
  PROVE  TruthfulCall(NoCall, d) /\ Truthful(NewRecord, d)
<1>1. NewRecord \in Record
  BY DEF NewRecord, Record, Checkpoint, StepStatuses, RecoverableOperation
<1>2. \A s \in Steps : DecideStep(NewRecord.steps[s]) = "run"
  BY DEF NewRecord, DecideStep
<1>3. NewRecord.state = "pending"
  BY DEF NewRecord
<1>4. Truthful(NewRecord, d)
  BY <1>1, <1>2, <1>3 DEF Truthful
<1>5. NoCall.at = 0 /\ NoCall.rec = NewRecord /\ NoCall \in Call
  BY <1>1, RecoveryConstants DEF NoCall, Call
<1>. QED BY <1>3, <1>4, <1>5 DEF TruthfulCall

(* The loop writes and carries on only truthful records (runOperation). *)
LEMMA LoopTruthful ==
  ASSUME NEW rec, NEW d, Truthful(rec, d), rec.state # "completed"
  PROVE  /\ \E w : /\ Loop(rec).writes \in {<<>>, <<w>>}
                   /\ Loop(rec).writes = <<w>> => Truthful(w, d)
         /\ TruthfulCall(Loop(rec).call, d)
<1>0. \A w : <<>> # <<w>>
  OBVIOUS
<1>. rec \in Record
  BY DEF Truthful
<1>1. CASE /\ \A s \in Steps : DecideStep(rec.steps[s]) = "skip"
           /\ Loop(rec).writes = <<Advance(rec, "complete")>>
           /\ Loop(rec).call = NoCall
  <2>1. \A s \in Steps : d[s]
    BY <1>1 DEF Truthful
  <2>2. Truthful(Advance(rec, "complete"), d)
    BY <2>1, AdvanceRecord DEF Truthful
  <2>. QED BY <1>1, <2>2, NoCallTruthful
<1>2. CASE Loop(rec).writes = <<>> /\ Loop(rec).call = NoCall
  BY <1>0, <1>2, NoCallTruthful
<1>3. ASSUME NEW s \in Steps,
             \A t \in 1..s - 1 : DecideStep(rec.steps[t]) = "skip",
             Loop(rec).writes = <<Begun(rec, s)>>,
             Loop(rec).call = [at |-> s, rec |-> Begun(rec, s)]
      PROVE  /\ \E w : Loop(rec).writes = <<w>> /\ Truthful(w, d)
             /\ TruthfulCall(Loop(rec).call, d)
  <2>1. Truthful(Begun(rec, s), d) /\ Begun(rec, s).state # "completed"
    BY WithStepTruthful, Zenon DEF Begun, StepStatuses
  <2>2. \A t \in 1..s - 1 : t \in Steps
    BY RecoveryConstants DEF Steps
  <2>3. \A t \in 1..s - 1 : d[t]
    BY <1>3, <2>2 DEF Truthful
  <2>4. Loop(rec).call \in Call /\ Loop(rec).call.at = s /\ Loop(rec).call.rec = Begun(rec, s)
    BY <1>3, <2>1, RecoveryConstants DEF Call, Truthful, Steps
  <2>. QED BY <1>3, <2>1, <2>3, <2>4 DEF TruthfulCall
<1>4. ASSUME NEW w, Loop(rec).writes = <<w>>, Truthful(w, d)
      PROVE  \E v : /\ Loop(rec).writes \in {<<>>, <<v>>}
                    /\ Loop(rec).writes = <<v>> => Truthful(v, d)
  BY <1>4
<1>. QED BY <1>1, <1>2, <1>3, <1>4, LoopCases, Zenon

(* Records stay truthful as more steps take effect. *)
LEMMA TruthfulLater ==
  ASSUME NEW d, NEW e, \A s \in Steps : d[s] => e[s]
  PROVE  /\ \A rec : Truthful(rec, d) => Truthful(rec, e)
         /\ \A call : TruthfulCall(call, d) => TruthfulCall(call, e)
<1>1. \A rec : Truthful(rec, d) => Truthful(rec, e)
  BY DEF Truthful
<1>2. ASSUME NEW call, TruthfulCall(call, d)
      PROVE  TruthfulCall(call, e)
  <2>1. \A s \in 1..call.at - 1 : s \in Steps
    BY <1>2, RecoveryConstants DEF TruthfulCall, Call, Steps
  <2>. QED BY <1>1, <1>2, <2>1 DEF TruthfulCall
<1>. QED BY <1>1, <1>2

(* A stretch whose writes are truthful keeps the invariant (persist). *)
LEMMA StretchTruthful ==
  ASSUME RecordsTruthful, NEW r \in Runners, NEW writes, NEW call, NEW n \in 0..AllWrites,
         NEW k \in Nat, Len(writes) = k, Perform(r, writes, call, n),
         done' \in [Steps -> BOOLEAN], \A s \in Steps : done[s] => done'[s],
         settled' \subseteq Steps,
         \A i \in 1..k : Truthful(writes[i], done'), TruthfulCall(call, done')
  PROVE  RecordsTruthful'
<1>1. runner \in [Runners -> Call]
  BY DEF RecordsTruthful
<1>2. /\ stored' = stored \/ \E i \in 1..k : stored' = writes[i]
      /\ runner'[r] = NoCall \/ runner'[r] = call
      /\ \A q \in Runners \ {r} : runner'[q] = runner[q]
      /\ runner' = [runner EXCEPT ![r] = runner'[r]]
  BY <1>1, PerformCases
<1>3. Truthful(stored, done')
  BY TruthfulLater DEF RecordsTruthful
<1>4. Truthful(stored', done')
  BY <1>2, <1>3
<1>5. \A q \in Runners : TruthfulCall(runner[q], done')
  BY TruthfulLater DEF RecordsTruthful
<1>6. TruthfulCall(runner'[r], done')
  BY <1>2, NoCallTruthful
<1>7. \A q \in Runners : TruthfulCall(runner'[q], done')
  BY <1>2, <1>5, <1>6
<1>8. runner' \in [Runners -> Call]
  BY <1>1, <1>2, <1>6 DEF TruthfulCall
<1>. QED BY <1>4, <1>7, <1>8 DEF RecordsTruthful

(* What runOperation writes first is truthful, and "running" (runOperation). *)
LEMMA OpeningTruthful ==
  ASSUME NEW rec, NEW d, Truthful(rec, d), ~Closed(rec)
  PROVE  \E w : \/ Opening(rec) = <<>> /\ rec.state = "running"
                \/ /\ Opening(rec) = <<w>> /\ Truthful(w, d)
                   /\ w.state = "running" /\ w.steps = rec.steps
<1>. rec \in Record
  BY DEF Truthful
<1>1. rec.state \in {"pending", "running", "interrupted", "failed"}
  BY DEF Closed, IsTerminal, Record, RecoverableOperation
<1>2. ASSUME NEW e, <<rec.state, e, "running">> \in RecoverableOperation.rules
      PROVE  /\ Truthful(Advance(rec, e), d) /\ Advance(rec, e).steps = rec.steps
             /\ Advance(rec, e).state = "running"
  <2>1. Resolve(RecoverableOperation, rec.state, e) = "running"
    BY <1>2, ResolveRule
  <2>. QED BY <2>1, AdvanceRecord DEF Truthful
<1>3. /\ <<"pending", "start", "running">> \in RecoverableOperation.rules
      /\ <<"interrupted", "resume", "running">> \in RecoverableOperation.rules
      /\ <<"failed", "retry", "running">> \in RecoverableOperation.rules
  BY DEF RecoverableOperation
<1>4. CASE rec.state = "running"
  BY <1>4 DEF Opening
<1>5. CASE rec.state = "interrupted"
  <2>1. Opening(rec) = <<Advance(rec, "resume")>>
    BY <1>5 DEF Opening
  <2>. QED BY <1>2, <1>3, <1>5, <2>1
<1>6. CASE rec.state = "failed"
  <2>1. Opening(rec) = <<Advance(rec, "retry")>>
    BY <1>6 DEF Opening
  <2>. QED BY <1>2, <1>3, <1>6, <2>1
<1>7. CASE rec.state = "pending"
  <2>1. Opening(rec) = <<Advance(rec, "start")>>
    BY <1>7 DEF Opening
  <2>. QED BY <1>2, <1>3, <1>7, <2>1
<1>. QED BY <1>1, <1>4, <1>5, <1>6, <1>7

(* What a \o b is when a holds at most x and b at most y. *)
Joined(a, b, x, y) ==
  \E k \in 0..2 : /\ Len(a \o b) = k
                  /\ k = 0 <=> a = <<>> /\ b = <<>>
                  /\ \A i \in 1..k : \/ a = <<x>> /\ (a \o b)[i] = x
                                     \/ b = <<y>> /\ (a \o b)[i] = y
                  /\ b = <<y>> => (a \o b)[k] = y

(* Joining two lists of at most one write each (runOperation). *)
LEMMA JoinedWrites ==
  ASSUME NEW x, NEW y, NEW a \in {<<>>, <<x>>}, NEW b \in {<<>>, <<y>>}
  PROVE  Joined(a, b, x, y)
<1>1. CASE a = <<>> /\ b = <<>>
  <2>1. a \o b = <<>> BY <1>1
  <2>2. Len(a \o b) = 0 BY <2>1
  <2>3. \A i \in 1..0 : FALSE OBVIOUS
  <2>4. <<>> # <<y>> /\ <<>> # <<x>> OBVIOUS
  <2>. QED BY <1>1, <2>2, <2>3, <2>4 DEF Joined
<1>2. CASE a = <<x>> /\ b = <<>>
  <2>1. a \o b = <<x>> BY <1>2
  <2>2. Len(a \o b) = 1 /\ (a \o b)[1] = x BY <2>1
  <2>4. <<>> # <<y>> /\ <<>> # <<x>> OBVIOUS
  <2>. QED BY <1>2, <2>2, <2>4 DEF Joined
<1>3. CASE a = <<>> /\ b = <<y>>
  <2>1. a \o b = <<y>> BY <1>3
  <2>2. Len(a \o b) = 1 /\ (a \o b)[1] = y BY <2>1
  <2>4. <<>> # <<y>> /\ <<>> # <<x>> OBVIOUS
  <2>. QED BY <1>3, <2>2, <2>4 DEF Joined
<1>4. CASE a = <<x>> /\ b = <<y>>
  <2>1. a \in Seq({x, y}) /\ Len(a) = 1 /\ a[1] = x BY <1>4
  <2>2. b \in Seq({x, y}) /\ Len(b) = 1 /\ b[1] = y BY <1>4
  <2>5. Len(a \o b) = 1 + 1 /\ \A i \in 1..1 + 1 : (a \o b)[i] = IF i <= 1 THEN a[i] ELSE b[i - 1]
    BY <2>1, <2>2, ConcatProperties
  <2>3. Len(a \o b) = 2 /\ (a \o b)[1] = x /\ (a \o b)[2] = y
    <3>1. 1 + 1 = 2 /\ 2 - 1 = 1 /\ 1 \in 1..2 /\ 2 \in 1..2 /\ ~(2 <= 1) OBVIOUS
    <3>. QED BY <2>1, <2>2, <2>5, <3>1
  <2>4. <<>> # <<y>> /\ <<>> # <<x>> OBVIOUS
  <2>. QED BY <1>4, <2>3, <2>4 DEF Joined
<1>. QED BY <1>1, <1>2, <1>3, <1>4

-----------------------------------------------------------------------------
(* The actions *)

(* Starting or resuming keeps the records truthful (runOperation). *)
LEMMA RunOperationTruthful ==
  ASSUME RecordsTruthful, NEW r \in Runners, NEW n \in 0..AllWrites, RunOperation(r, n)
  PROVE  RecordsTruthful'
<1>1. Truthful(stored, done) /\ ~Closed(stored) /\ stored.state # "completed"
  BY DEF RecordsTruthful, RunOperation, Closed, IsTerminal, RecoverableOperation
<1>. DEFINE a == Opening(stored)
            rec == IF a = <<>> THEN stored ELSE a[1]
            b == Loop(rec).writes
<1>2. Perform(r, a \o b, Loop(rec).call, n) /\ done' = done /\ settled' = settled
  BY DEF RunOperation
<1>3. PICK x : a \in {<<>>, <<x>>} /\ (a = <<x>> => Truthful(x, done) /\ x.state = "running")
  <2>0. \A x : <<>> # <<x>>
    OBVIOUS
  <2>. HIDE DEF a
  <2>1. \E w : \/ Opening(stored) = <<>>
               \/ Opening(stored) = <<w>> /\ Truthful(w, done) /\ w.state = "running"
    BY <1>1, OpeningTruthful
  <2>. QED BY <2>0, <2>1 DEF a
<1>. HIDE DEF a
<1>4. Truthful(rec, done) /\ rec.state # "completed"
  BY <1>1, <1>3
<1>. HIDE DEF rec
<1>5. TruthfulCall(Loop(rec).call, done)
  BY <1>4, LoopTruthful
<1>6. PICK y : b \in {<<>>, <<y>>} /\ (b = <<y>> => Truthful(y, done))
  <2>. HIDE DEF b
  <2>1. \E w : /\ Loop(rec).writes \in {<<>>, <<w>>}
               /\ Loop(rec).writes = <<w>> => Truthful(w, done)
    BY <1>4, LoopTruthful
  <2>. QED BY <2>1 DEF b
<1>. HIDE DEF b
<1>7. PICK k \in 0..2 : Len(a \o b) = k /\ \A i \in 1..k : Truthful((a \o b)[i], done)
  <2>1. Joined(a, b, x, y)
    BY <1>3, <1>6, JoinedWrites, Zenon
  <2>. QED BY <1>3, <1>6, <2>1 DEF Joined
<1>8. done' \in [Steps -> BOOLEAN] /\ settled' \subseteq Steps
  BY <1>2 DEF RecordsTruthful
<1>. DEFINE w == a \o b
<1>9. k \in Nat /\ Len(w) = k /\ Perform(r, w, Loop(rec).call, n)
  BY <1>2, <1>7
<1>10. (\A i \in 1..k : Truthful(w[i], done')) /\ TruthfulCall(Loop(rec).call, done')
  BY <1>2, <1>5, <1>7
<1>11. \A s \in Steps : done[s] => done'[s]
  BY <1>2
<1>. HIDE DEF w
<1>. QED BY <1>8, <1>9, <1>10, <1>11, StretchTruthful

(* So does the report of a step that is through (applyOutcome). *)
LEMMA StepFinishesTruthful ==
  ASSUME RecordsTruthful, NEW r \in Runners, NEW n \in 0..AllWrites,
         NEW st \in {"succeeded", "skipped"}, NEW c \in BOOLEAN, StepFinishes(r, st, c, n)
  PROVE  RecordsTruthful'
<1>. DEFINE s == runner[r].at
            rec == WithStep(runner[r].rec, s, st, c)
            a == <<rec>>
            b == Loop(rec).writes
<1>1. /\ s # 0
      /\ Perform(r, a \o b, Loop(rec).call, n)
      /\ done' = [done EXCEPT ![s] = TRUE]
      /\ settled' = IF n > 0 THEN settled \cup {s} ELSE settled
  BY DEF StepFinishes
<1>2. s \in Steps /\ TruthfulCall(runner[r], done)
  BY <1>1, RecoveryConstants DEF RecordsTruthful, Call, Steps
<1>. HIDE DEF s
<1>3. /\ done' \in [Steps -> BOOLEAN] /\ settled' \subseteq Steps
      /\ done'[s] /\ \A t \in Steps : done[t] => done'[t]
  BY <1>1, <1>2 DEF RecordsTruthful
<1>4. Truthful(runner[r].rec, done') /\ runner[r].rec.state # "completed"
  BY <1>2, <1>3, TruthfulLater DEF TruthfulCall
<1>5. Truthful(rec, done') /\ rec.state # "completed"
  BY <1>2, <1>3, <1>4, WithStepTruthful, Zenon DEF StepStatuses
<1>. HIDE DEF rec
<1>6. TruthfulCall(Loop(rec).call, done')
  BY <1>5, LoopTruthful
<1>7. PICK y : b \in {<<>>, <<y>>} /\ (b = <<y>> => Truthful(y, done'))
  <2>. HIDE DEF b
  <2>1. \E w : /\ Loop(rec).writes \in {<<>>, <<w>>}
               /\ Loop(rec).writes = <<w>> => Truthful(w, done')
    BY <1>5, LoopTruthful
  <2>. QED BY <2>1 DEF b
<1>. HIDE DEF b
<1>. HIDE DEF a
<1>8. PICK k \in 0..2 : Len(a \o b) = k /\ \A i \in 1..k : Truthful((a \o b)[i], done')
  <2>1. a \in {<<>>, <<rec>>}
    BY DEF a
  <2>2. Joined(a, b, rec, y)
    BY <1>7, <2>1, JoinedWrites, Zenon
  <2>. QED BY <1>5, <1>7, <2>2 DEF Joined
<1>. DEFINE w == a \o b
<1>9. k \in Nat /\ Len(w) = k /\ \A i \in 1..k : Truthful(w[i], done')
  BY <1>8
<1>10. Perform(r, w, Loop(rec).call, n)
  BY <1>1
<1>. HIDE DEF w
<1>. QED BY <1>3, <1>6, <1>9, <1>10, StretchTruthful

(* So does the report of a step that is not (applyOutcome). *)
LEMMA StepStopsTruthful ==
  ASSUME RecordsTruthful, NEW r \in Runners, NEW n \in 0..AllWrites,
         NEW st \in {"failed", "interrupted"}, NEW c \in BOOLEAN, StepStops(r, st, c, n)
  PROVE  RecordsTruthful'
<1>. DEFINE s == runner[r].at
            plain == st = "failed" /\ ~c
            mark == IF plain THEN "failed" ELSE "interrupted"
            event == IF plain THEN "fail" ELSE "interrupt"
            rec == WithStep(runner[r].rec, s, mark, c)
            w == <<Advance(rec, event)>>
<1>1. /\ s # 0
      /\ Perform(r, w, NoCall, n)
      /\ \E effect \in BOOLEAN : done' = [done EXCEPT ![s] = @ \/ effect]
      /\ settled' = IF c /\ n > 0 THEN settled \cup {s} ELSE settled
  BY Zenon DEF StepStops
<1>2. s \in Steps /\ TruthfulCall(runner[r], done)
  BY <1>1, RecoveryConstants DEF RecordsTruthful, Call, Steps
<1>3. mark \in StepStatuses \ {"succeeded", "skipped"} /\ event # "complete"
  BY DEF StepStatuses
<1>. HIDE DEF s, mark, event
<1>4. done' \in [Steps -> BOOLEAN] /\ settled' \subseteq Steps /\ \A t \in Steps : done[t] => done'[t]
  BY <1>1, <1>2 DEF RecordsTruthful
<1>5. Truthful(runner[r].rec, done') /\ runner[r].rec.state # "completed"
  BY <1>2, <1>4, TruthfulLater DEF TruthfulCall
<1>6. Truthful(rec, done') /\ rec.state # "completed"
  BY <1>2, <1>3, <1>5, WithStepTruthful
<1>. HIDE DEF rec
<1>7. Truthful(Advance(rec, event), done')
  BY <1>3, <1>6, AdvanceTruthful
<1>8. Len(w) = 1 /\ w[1] = Advance(rec, event)
  OBVIOUS
<1>. HIDE DEF w
<1>9. \A i \in 1..1 : Truthful(w[i], done')
  BY <1>7, <1>8
<1>. QED BY <1>1, <1>4, <1>8, <1>9, NoCallTruthful, StretchTruthful, Zenon

(* So does a call that dies during a step. *)
LEMMA RunnerDiesTruthful ==
  ASSUME RecordsTruthful, NEW r \in Runners, RunnerDies(r)
  PROVE  RecordsTruthful'
<1>. DEFINE s == runner[r].at
<1>1. /\ s # 0 /\ stored' = stored /\ settled' = settled
      /\ runner' = [runner EXCEPT ![r] = NoCall]
      /\ \E effect \in BOOLEAN : done' = [done EXCEPT ![s] = @ \/ effect]
  BY Zenon DEF RunnerDies
<1>2. s \in Steps
  BY <1>1, RecoveryConstants DEF RecordsTruthful, Call, Steps
<1>. HIDE DEF s
<1>3. done' \in [Steps -> BOOLEAN] /\ \A t \in Steps : done[t] => done'[t]
  BY <1>1, <1>2 DEF RecordsTruthful
<1>4. Truthful(stored', done') /\ \A q \in Runners : TruthfulCall(runner[q], done')
  BY <1>1, <1>3, TruthfulLater, Zenon DEF RecordsTruthful
<1>5. \A q \in Runners : TruthfulCall(runner'[q], done')
  BY <1>1, <1>4, NoCallTruthful, Zenon DEF RecordsTruthful
<1>6. runner' \in [Runners -> Call]
  BY <1>1, NoCallTruthful DEF RecordsTruthful, TruthfulCall
<1>. QED BY <1>1, <1>3, <1>4, <1>5, <1>6, Zenon DEF RecordsTruthful

(* So does an operator who tells the truth (resolveInterruptedStep). *)
LEMMA OperatorTruthful ==
  ASSUME RecordsTruthful,
         \/ \E s \in Steps, resolution \in {"applied", "not_applied"} :
              ResolveInterruptedStep(s, resolution)
         \/ AbandonOperation
  PROVE  RecordsTruthful'
<1>1. Truthful(stored, done) /\ stored.state # "completed"
  BY Zenon DEF RecordsTruthful, ResolveInterruptedStep, AbandonOperation, OperatorMayAct, Closed,
         IsTerminal, RecoverableOperation
<1>2. Truthful(stored', done)
  <2>1. CASE AbandonOperation
    <3>1. stored' = Advance(stored, "abandon")
      BY <2>1 DEF AbandonOperation
    <3>2. Truthful(Advance(stored, "abandon"), done)
      BY <1>1, AdvanceTruthful
    <3>. QED BY <3>1, <3>2
  <2>2. ASSUME NEW s \in Steps, NEW resolution \in {"applied", "not_applied"},
               ResolveInterruptedStep(s, resolution)
        PROVE  Truthful(stored', done)
    <3>. DEFINE mark == IF resolution = "applied" THEN "succeeded" ELSE "pending"
                rec == WithStep(stored, s, mark, resolution = "applied")
    <3>1. resolution = "applied" => done[s]
      BY <2>2 DEF ResolveInterruptedStep
    <3>2. stored' = Advance(rec, "resume") \/ stored' = Advance(rec, "retry")
      BY <2>2, Zenon DEF ResolveInterruptedStep
    <3>3. mark \in StepStatuses /\ (mark \in {"succeeded", "skipped"} => done[s])
      BY <3>1 DEF StepStatuses
    <3>4. (resolution = "applied") \in BOOLEAN
      OBVIOUS
    <3>. HIDE DEF mark
    <3>5. Truthful(rec, done) /\ rec.state # "completed"
      BY <1>1, <3>3, <3>4, WithStepTruthful, Zenon
    <3>. HIDE DEF rec
    <3>6. Truthful(Advance(rec, "resume"), done) /\ Truthful(Advance(rec, "retry"), done)
      BY <3>5, AdvanceTruthful
    <3>. QED BY <3>2, <3>6
  <2>. QED BY <2>1, <2>2
<1>3. UNCHANGED <<runner, done, settled>>
  BY Zenon DEF ResolveInterruptedStep, AbandonOperation
<1>. QED BY <1>2, <1>3 DEF RecordsTruthful

-----------------------------------------------------------------------------
(* The records are truthful in every run (all actions of the module). *)
THEOREM AlwaysTruthful == Spec => []RecordsTruthful
<1>1. Init => RecordsTruthful
  BY NoCallTruthful DEF Init, RecordsTruthful, TruthfulCall
<1>2. RecordsTruthful /\ [Next]_vars => RecordsTruthful'
  <2>. SUFFICES ASSUME RecordsTruthful, [Next]_vars
                PROVE  RecordsTruthful'
    OBVIOUS
  <2>1. ASSUME NEW r \in Runners, NEW n \in 0..AllWrites, RunOperation(r, n)
        PROVE  RecordsTruthful'
    BY <2>1, RunOperationTruthful
  <2>2. ASSUME NEW r \in Runners, NEW n \in 0..AllWrites, StepSucceeds(r, n)
        PROVE  RecordsTruthful'
    <3>1. CASE \E c \in BOOLEAN : StepFinishes(r, "succeeded", c, n)
      BY <3>1, StepFinishesTruthful
    <3>2. CASE /\ runner[r].at # 0
               /\ StepFinishes(r, "skipped", runner[r].rec.steps[runner[r].at].committed, n)
      <4>1. runner[r].rec.steps[runner[r].at].committed \in BOOLEAN
        BY <3>2, RecoveryConstants DEF RecordsTruthful, Call, Record, Checkpoint, Steps
      <4>. QED BY <3>2, <4>1, StepFinishesTruthful
    <3>. QED BY <2>2, <3>1, <3>2 DEF StepSucceeds
  <2>3. ASSUME NEW r \in Runners, NEW n \in 0..AllWrites,
               NEW st \in {"failed", "interrupted"}, NEW c \in BOOLEAN, StepStops(r, st, c, n)
        PROVE  RecordsTruthful'
    BY <2>3, StepStopsTruthful
  <2>4. ASSUME NEW r \in Runners, RunnerDies(r)
        PROVE  RecordsTruthful'
    BY <2>4, RunnerDiesTruthful
  <2>5. CASE vars' = vars
    BY <2>5 DEF vars, RecordsTruthful
  <2>. QED BY <2>1, <2>2, <2>3, <2>4, <2>5, OperatorTruthful DEF Next
<1>. QED BY <1>1, <1>2, PTL DEF Spec

(* The state of the operation is well typed in every run (all actions). *)
THEOREM TypeCorrect == Spec => []TypeOK
<1>1. RecordsTruthful => TypeOK
  BY DEF RecordsTruthful, Truthful, TypeOK, Call
<1>. QED BY <1>1, AlwaysTruthful, PTL

(***************************************************************************)
(* However many callers and operators work on the record at once, a step   *)
(* is called only after the steps before it have taken effect              *)
(* (runOperation).                                                         *)
(***************************************************************************)
THEOREM StepsInOrder == Spec => []CalledInOrder
<1>1. RecordsTruthful => CalledInOrder
  BY DEF RecordsTruthful, TruthfulCall, CalledInOrder
<1>. QED BY <1>1, AlwaysTruthful, PTL

(* Likewise a completed operation has all its effects (runOperation). *)
THEOREM CompletionIsEarned == Spec => []CompletedIsDone
<1>1. RecordsTruthful => CompletedIsDone
  BY DEF RecordsTruthful, Truthful, CompletedIsDone
<1>. QED BY <1>1, AlwaysTruthful, PTL

-----------------------------------------------------------------------------
(* One call at a time *)

(***************************************************************************)
(* What holds when calls and operators take turns: storage holds what the  *)
(* call carries, which says to run the step it awaits, and does not forget *)
(* a step that is known to have landed.                                    *)
(***************************************************************************)
NothingForgotten ==
  /\ RecordsTruthful
  /\ \A s \in settled : done[s] /\ DecideStep(stored.steps[s]) # "run"
  /\ \A r \in Runners : runner[r].at # 0 =>
       /\ runner[r].rec = stored
       /\ stored.state = "running"
       /\ DecideStep(stored.steps[runner[r].at]) = "run"

TakeTurns == ~ActMidRun /\ \A p, q \in Runners : p = q

(* The loop keeps every checkpoint that does not say to run (runOperation). *)
LEMMA LoopKeeps ==
  ASSUME NEW rec \in Record, rec.state = "running"
  PROVE  /\ \E w : /\ Loop(rec).writes \in {<<>>, <<w>>}
                   /\ Loop(rec).writes = <<w>> =>
                        \A t \in Steps : DecideStep(rec.steps[t]) # "run" => w.steps[t] = rec.steps[t]
         /\ Loop(rec).call.at # 0 =>
              /\ Loop(rec).call.at \in Steps
              /\ Loop(rec).writes = <<Loop(rec).call.rec>>
              /\ Loop(rec).call.rec.state = "running"
              /\ DecideStep(Loop(rec).call.rec.steps[Loop(rec).call.at]) = "run"
              /\ DecideStep(rec.steps[Loop(rec).call.at]) = "run"
<1>0. (\A w : <<>> # <<w>>) /\ NoCall.at = 0
  BY DEF NoCall
<1>1. CASE Loop(rec).writes = <<Advance(rec, "complete")>> /\ Loop(rec).call = NoCall
  <2>1. Advance(rec, "complete").steps = rec.steps
    BY AdvanceRecord
  <2>. DEFINE x == Advance(rec, "complete")
  <2>2. Loop(rec).writes = <<x>> /\ \A t \in Steps : x.steps[t] = rec.steps[t]
    BY <1>1, <2>1
  <2>. HIDE DEF x
  <2>. QED BY <1>0, <1>1, <2>2
<1>2. CASE Loop(rec).writes = <<>> /\ Loop(rec).call = NoCall
  BY <1>0, <1>2
<1>3. ASSUME NEW s \in Steps, DecideStep(rec.steps[s]) = "run",
             Loop(rec).writes = <<Begun(rec, s)>>,
             Loop(rec).call = [at |-> s, rec |-> Begun(rec, s)]
      PROVE  /\ \E w : /\ Loop(rec).writes \in {<<>>, <<w>>}
                       /\ Loop(rec).writes = <<w>> =>
                            \A t \in Steps : DecideStep(rec.steps[t]) # "run" => w.steps[t] = rec.steps[t]
             /\ Loop(rec).call.at \in Steps
             /\ Loop(rec).writes = <<Loop(rec).call.rec>>
             /\ Loop(rec).call.rec.state = "running"
             /\ DecideStep(Loop(rec).call.rec.steps[Loop(rec).call.at]) = "run"
             /\ DecideStep(rec.steps[Loop(rec).call.at]) = "run"
  <2>. DEFINE x == Begun(rec, s)
  <2>1. /\ x.state = "running"
        /\ x.steps[s] = [status |-> "running", committed |-> FALSE]
        /\ \A t \in Steps \ {s} : x.steps[t] = rec.steps[t]
    BY WithStepRecord, ZenonT(40) DEF Begun, StepStatuses
  <2>2. Loop(rec).writes = <<x>> /\ Loop(rec).call.at = s /\ Loop(rec).call.rec = x
    BY <1>3
  <2>. HIDE DEF x
  <2>3. DecideStep(x.steps[s]) = "run"
    BY <2>1 DEF DecideStep
  <2>4. \A t \in Steps : DecideStep(rec.steps[t]) # "run" => x.steps[t] = rec.steps[t]
    BY <1>3, <2>1
  <2>5. \E w : /\ Loop(rec).writes \in {<<>>, <<w>>}
               /\ Loop(rec).writes = <<w>> =>
                    \A t \in Steps : DecideStep(rec.steps[t]) # "run" => w.steps[t] = rec.steps[t]
    BY <2>2, <2>4
  <2>. QED BY <1>3, <2>1, <2>2, <2>3, <2>5
<1>4. Loop(rec).call.at # 0 => Loop(rec).call # NoCall
  BY <1>0
<1>. QED BY <1>1, <1>2, <1>3, <1>4, LoopCases, Zenon

(***************************************************************************)
(* A stretch that goes through the loop with record rec, having written it *)
(* first or not, loses no checkpoint and calls only a step that rec says   *)
(* to run (runOperation).                                                  *)
(***************************************************************************)
LEMMA StretchKeeps ==
  ASSUME RecordsTruthful, NEW r \in Runners, NEW n \in 0..AllWrites,
         NEW rec \in Record, rec.state = "running", NEW a,
         (a = <<>> /\ rec = stored) \/ a = <<rec>>,
         Perform(r, a \o Loop(rec).writes, Loop(rec).call, n)
  PROVE  /\ \/ stored' = stored /\ (n = 0 \/ a = <<>>)
            \/ \A t \in Steps : DecideStep(rec.steps[t]) # "run" => stored'.steps[t] = rec.steps[t]
         /\ n = 0 => stored' = stored
         /\ runner'[r].at # 0 =>
              /\ runner'[r].at \in Steps
              /\ runner'[r].rec = stored'
              /\ stored'.state = "running"
              /\ DecideStep(stored'.steps[runner'[r].at]) = "run"
              /\ DecideStep(rec.steps[runner'[r].at]) = "run"
<1>. DEFINE b == Loop(rec).writes
            call == Loop(rec).call
            w == a \o b
            Kept(x) == \A t \in Steps : DecideStep(rec.steps[t]) # "run" => x.steps[t] = rec.steps[t]
<1>1. PICK y : b \in {<<>>, <<y>>} /\ (b = <<y>> => Kept(y))
  BY LoopKeeps
<1>2. call.at # 0 =>
        /\ call.at \in Steps /\ b = <<call.rec>> /\ call.rec.state = "running"
        /\ DecideStep(call.rec.steps[call.at]) = "run"
        /\ DecideStep(rec.steps[call.at]) = "run"
  BY LoopKeeps
<1>3. Kept(rec) /\ a \in {<<>>, <<rec>>}
  OBVIOUS
<1>4. Perform(r, w, call, n) /\ runner \in [Runners -> Call]
  BY DEF RecordsTruthful
<1>. HIDE DEF b, call, Kept
<1>5. PICK k \in 0..2 :
        /\ Len(w) = k
        /\ k = 0 <=> a = <<>> /\ b = <<>>
        /\ \A i \in 1..k : (a = <<rec>> /\ w[i] = rec) \/ (b = <<y>> /\ w[i] = y)
        /\ b = <<y>> => w[k] = y
  <2>1. Joined(a, b, rec, y)
    BY <1>1, <1>3, JoinedWrites, Zenon
  <2>. QED BY <2>1 DEF Joined
<1>. HIDE DEF w
<1>6. k \in Nat
  OBVIOUS
<1>7. /\ stored' = stored \/ (n > 0 /\ \E i \in 1..k : stored' = w[i])
      /\ n = 0 => stored' = stored
      /\ runner'[r] = NoCall \/ (runner'[r] = call /\ stored' = IF k = 0 THEN stored ELSE w[k])
      /\ n > 0 /\ k > 0 => \E i \in 1..k : stored' = w[i]
  BY <1>4, <1>5, <1>6, PerformCases
<1>8. \A i \in 1..k : Kept(w[i])
  BY <1>1, <1>3, <1>5
<1>9. (stored' = stored /\ (n = 0 \/ a = <<>>)) \/ Kept(stored')
  <2>1. CASE n = 0
    BY <1>7, <2>1
  <2>2. CASE k = 0
    <3>1. a = <<>> /\ ~\E i \in 1..k : TRUE
      BY <1>5, <2>2
    <3>. QED BY <1>7, <3>1
  <2>3. CASE n # 0 /\ k # 0
    <3>1. n > 0 /\ k > 0
      BY <2>3 DEF AllWrites
    <3>. QED BY <1>7, <1>8, <3>1
  <2>. QED BY <2>1, <2>2, <2>3
<1>10. ASSUME runner'[r].at # 0
       PROVE  runner'[r] = call /\ call.at # 0 /\ stored' = call.rec
  <2>1. NoCall.at = 0
    BY DEF NoCall
  <2>2. runner'[r] = call /\ call.at # 0 /\ stored' = IF k = 0 THEN stored ELSE w[k]
    BY <1>7, <1>10, <2>1
  <2>3. b = <<call.rec>> /\ <<call.rec>> # <<>>
    BY <1>2, <2>2
  <2>4. b = <<y>> /\ y = call.rec
    BY <1>1, <2>3
  <2>. QED BY <1>5, <2>2, <2>3, <2>4
<1>11. Kept(stored') <=> \A t \in Steps : DecideStep(rec.steps[t]) # "run" => stored'.steps[t] = rec.steps[t]
  BY DEF Kept
<1>. QED BY <1>2, <1>7, <1>9, <1>10, <1>11

(* Starting or resuming forgets nothing (runOperation). *)
LEMMA RunOperationKeeps ==
  ASSUME TakeTurns, NothingForgotten, NEW r \in Runners, NEW n \in 0..AllWrites,
         RunOperation(r, n)
  PROVE  NothingForgotten' /\ runner'[r].at \notin settled
<1>. DEFINE opening == Opening(stored)
            rec == IF opening = <<>> THEN stored ELSE opening[1]
<1>1. RecordsTruthful /\ RecordsTruthful' /\ Truthful(stored, done) /\ ~Closed(stored)
  BY RunOperationTruthful DEF NothingForgotten, RecordsTruthful, RunOperation
<1>2. Perform(r, opening \o Loop(rec).writes, Loop(rec).call, n) /\ done' = done /\ settled' = settled
  BY DEF RunOperation
<1>3. /\ rec \in Record /\ rec.state = "running" /\ rec.steps = stored.steps
      /\ (opening = <<>> /\ rec = stored) \/ opening = <<rec>>
  <2>1. PICK w : \/ Opening(stored) = <<>> /\ stored.state = "running"
                 \/ /\ Opening(stored) = <<w>> /\ Truthful(w, done)
                    /\ w.state = "running" /\ w.steps = stored.steps
    BY <1>1, OpeningTruthful
  <2>2. CASE opening = <<>>
    <3>1. <<w>> # <<>>
      OBVIOUS
    <3>. QED BY <1>1, <2>1, <2>2, <3>1 DEF Truthful
  <2>3. CASE opening # <<>>
    <3>1. opening = <<w>> /\ rec = w
      BY <2>1, <2>3
    <3>. QED BY <2>1, <2>3, <3>1 DEF Truthful
  <2>. QED BY <2>2, <2>3
<1>. HIDE DEF opening, rec
<1>4. /\ stored' = stored \/ \A t \in Steps : DecideStep(rec.steps[t]) # "run" => stored'.steps[t] = rec.steps[t]
      /\ runner'[r].at # 0 =>
           /\ runner'[r].at \in Steps
           /\ runner'[r].rec = stored'
           /\ stored'.state = "running"
           /\ DecideStep(stored'.steps[runner'[r].at]) = "run"
           /\ DecideStep(rec.steps[runner'[r].at]) = "run"
  BY <1>1, <1>2, <1>3, StretchKeeps
<1>5. settled \subseteq Steps /\ \A s \in settled : done[s] /\ DecideStep(rec.steps[s]) # "run"
  BY <1>3 DEF NothingForgotten, RecordsTruthful
<1>6. \A s \in settled : done[s] /\ DecideStep(stored'.steps[s]) # "run"
  BY <1>3, <1>4, <1>5
<1>7. runner'[r].at \notin settled
  <2>1. 0 \notin Steps
    BY DEF Steps
  <2>. QED BY <1>4, <1>5, <2>1
<1>8. \A q \in Runners : q = r
  BY DEF TakeTurns
<1>9. \A q \in Runners : runner'[q].at # 0 =>
        /\ runner'[q].rec = stored'
        /\ stored'.state = "running"
        /\ DecideStep(stored'.steps[runner'[q].at]) = "run"
  BY <1>4, <1>8
<1>. QED BY <1>1, <1>2, <1>6, <1>7, <1>9 DEF NothingForgotten

(* Nor does the report of a step that is through (applyOutcome). *)
LEMMA StepFinishesKeeps ==
  ASSUME TakeTurns, NothingForgotten, NEW r \in Runners, NEW n \in 0..AllWrites,
         NEW st \in {"succeeded", "skipped"}, NEW c \in BOOLEAN, StepFinishes(r, st, c, n)
  PROVE  NothingForgotten' /\ runner'[r].at \notin settled
<1>. DEFINE s == runner[r].at
            rec == WithStep(stored, s, st, c)
            a == <<rec>>
<1>1. /\ s # 0 /\ runner[r].rec = stored /\ stored.state = "running"
      /\ RecordsTruthful /\ RecordsTruthful' /\ stored \in Record
  BY StepFinishesTruthful, Zenon DEF NothingForgotten, StepFinishes, RecordsTruthful, Truthful
<1>2. /\ Perform(r, a \o Loop(rec).writes, Loop(rec).call, n)
      /\ done' = [done EXCEPT ![s] = TRUE]
      /\ settled' = IF n > 0 THEN settled \cup {s} ELSE settled
  BY <1>1 DEF StepFinishes
<1>3. s \in Steps /\ runner \in [Runners -> Call]
  BY <1>1, RecoveryConstants DEF RecordsTruthful, Call, Steps
<1>. HIDE DEF s
<1>4. /\ rec \in Record /\ rec.state = "running"
      /\ rec.steps[s] = [status |-> st, committed |-> c]
      /\ \A t \in Steps \ {s} : rec.steps[t] = stored.steps[t]
  BY <1>1, <1>3, WithStepRecord DEF StepStatuses
<1>5. DecideStep(rec.steps[s]) = "skip"
  BY <1>4 DEF DecideStep
<1>6. settled \subseteq Steps /\ \A t \in settled : done[t] /\ DecideStep(stored.steps[t]) # "run"
  BY DEF NothingForgotten, RecordsTruthful
<1>7. \A t \in settled \cup {s} : t \in Steps /\ DecideStep(rec.steps[t]) # "run"
  BY <1>3, <1>4, <1>5, <1>6
<1>. HIDE DEF rec
<1>8. a # <<>> /\ a = <<rec>>
  OBVIOUS
<1>. HIDE DEF a
<1>9. /\ n # 0 => \A t \in Steps : DecideStep(rec.steps[t]) # "run" => stored'.steps[t] = rec.steps[t]
      /\ n = 0 => stored' = stored
      /\ runner'[r].at # 0 =>
           /\ runner'[r].at \in Steps
           /\ runner'[r].rec = stored'
           /\ stored'.state = "running"
           /\ DecideStep(stored'.steps[runner'[r].at]) = "run"
           /\ DecideStep(rec.steps[runner'[r].at]) = "run"
  BY <1>1, <1>2, <1>4, <1>8, StretchKeeps
<1>10. \A t \in settled' : done'[t] /\ DecideStep(stored'.steps[t]) # "run"
  <2>1. \A t \in settled \cup {s} : done'[t]
    BY <1>1, <1>2, <1>3, <1>6 DEF RecordsTruthful
  <2>2. CASE n = 0
    BY <1>2, <1>6, <1>9, <2>1, <2>2
  <2>3. CASE n # 0
    BY <1>2, <1>7, <1>9, <2>1, <2>3
  <2>. QED BY <2>2, <2>3
<1>11. runner'[r].at \notin settled
  <2>1. 0 \notin Steps
    BY DEF Steps
  <2>. QED BY <1>7, <1>9, <2>1
<1>12. \A q \in Runners : q = r
  BY DEF TakeTurns
<1>13. \A q \in Runners : runner'[q].at # 0 =>
         /\ runner'[q].rec = stored'
         /\ stored'.state = "running"
         /\ DecideStep(stored'.steps[runner'[q].at]) = "run"
  BY <1>9, <1>12
<1>. QED BY <1>1, <1>10, <1>11, <1>13 DEF NothingForgotten

(* Nor does the report of a step that is not (applyOutcome). *)
LEMMA StepStopsKeeps ==
  ASSUME TakeTurns, NothingForgotten, NEW r \in Runners, NEW n \in 0..AllWrites,
         NEW st \in {"failed", "interrupted"}, NEW c \in BOOLEAN, StepStops(r, st, c, n)
  PROVE  NothingForgotten' /\ runner'[r].at \notin settled
<1>. DEFINE s == runner[r].at
            plain == st = "failed" /\ ~c
            mark == IF plain THEN "failed" ELSE "interrupted"
            event == IF plain THEN "fail" ELSE "interrupt"
            rec == WithStep(stored, s, mark, c)
            new == Advance(rec, event)
            w == <<new>>
<1>1. /\ s # 0 /\ runner[r].rec = stored /\ DecideStep(stored.steps[s]) = "run"
      /\ RecordsTruthful /\ RecordsTruthful' /\ stored \in Record
  BY StepStopsTruthful, Zenon DEF NothingForgotten, StepStops, RecordsTruthful, Truthful
<1>2. /\ Perform(r, w, NoCall, n)
      /\ \E effect \in BOOLEAN : /\ c => effect
                                 /\ done' = [done EXCEPT ![s] = @ \/ effect]
      /\ settled' = IF c /\ n > 0 THEN settled \cup {s} ELSE settled
  BY <1>1, Zenon DEF StepStops
<1>3. s \in Steps /\ runner \in [Runners -> Call] /\ done \in [Steps -> BOOLEAN] /\ settled \subseteq Steps
  BY <1>1, RecoveryConstants DEF RecordsTruthful, Call, Steps
<1>4. mark \in StepStatuses \ {"succeeded", "skipped"}
  BY DEF StepStatuses
<1>. HIDE DEF s, mark, event
<1>5. /\ rec \in Record
      /\ rec.steps[s] = [status |-> mark, committed |-> c]
      /\ \A t \in Steps \ {s} : rec.steps[t] = stored.steps[t]
  BY <1>1, <1>3, <1>4, WithStepRecord
<1>. HIDE DEF rec
<1>6. new.steps = rec.steps
  BY <1>5, AdvanceRecord
<1>7. c => DecideStep(new.steps[s]) = "confirm"
  BY <1>4, <1>5, <1>6 DEF DecideStep
<1>. HIDE DEF new
<1>8. Len(w) = 1 /\ w[1] = new
  OBVIOUS
<1>. HIDE DEF w
<1>9. /\ stored' = stored \/ \E i \in 1..1 : stored' = w[i]
      /\ n = 0 => stored' = stored
      /\ runner'[r] = NoCall
      /\ n > 0 => \E i \in 1..1 : stored' = w[i]
  <2>1. PICK k \in Nat : k = 1
    OBVIOUS
  <2>2. Len(w) = k
    BY <1>8, <2>1
  <2>3. /\ stored' = stored \/ (n > 0 /\ \E i \in 1..k : stored' = w[i])
        /\ n = 0 => stored' = stored
        /\ runner'[r] = NoCall
        /\ n > 0 /\ k > 0 => \E i \in 1..k : stored' = w[i]
    BY <1>2, <1>3, <2>2, PerformCases
  <2>. QED BY <2>1, <2>3
<1>10. (stored' = stored \/ stored' = new) /\ (n > 0 => stored' = new)
  BY <1>8, <1>9
<1>11. \A t \in settled : t \in Steps /\ t # s /\ done[t] /\ DecideStep(stored.steps[t]) # "run"
  BY <1>1, <1>3 DEF NothingForgotten
<1>12. \A t \in settled : done'[t] /\ DecideStep(stored'.steps[t]) # "run"
  BY <1>2, <1>3, <1>5, <1>6, <1>10, <1>11
<1>13. c /\ n > 0 => done'[s] /\ DecideStep(stored'.steps[s]) # "run"
  BY <1>2, <1>3, <1>7, <1>10, Zenon
<1>14. \A t \in settled' : done'[t] /\ DecideStep(stored'.steps[t]) # "run"
  BY <1>2, <1>12, <1>13
<1>15. (\A q \in Runners : q = r) /\ runner'[r].at = 0 /\ 0 \notin Steps
  BY <1>9 DEF TakeTurns, NoCall, Steps
<1>. QED BY <1>1, <1>3, <1>14, <1>15 DEF NothingForgotten

(* Nor does a call that dies during a step. *)
LEMMA RunnerDiesKeeps ==
  ASSUME TakeTurns, NothingForgotten, NEW r \in Runners, RunnerDies(r)
  PROVE  NothingForgotten' /\ runner'[r].at \notin settled
<1>1. RecordsTruthful /\ RecordsTruthful'
  BY RunnerDiesTruthful DEF NothingForgotten
<1>2. /\ runner[r].at # 0 /\ stored' = stored /\ settled' = settled
      /\ runner' = [runner EXCEPT ![r] = NoCall]
      /\ \E effect \in BOOLEAN : done' = [done EXCEPT ![runner[r].at] = @ \/ effect]
  BY Zenon DEF RunnerDies
<1>3. runner'[r] = NoCall /\ \A t \in settled : done[t] => done'[t]
  BY <1>1, <1>2 DEF RecordsTruthful
<1>4. (\A q \in Runners : q = r) /\ runner'[r].at = 0 /\ 0 \notin Steps /\ settled \subseteq Steps
  BY <1>1, <1>3 DEF TakeTurns, NoCall, Steps, RecordsTruthful
<1>. QED BY <1>1, <1>2, <1>3, <1>4 DEF NothingForgotten

(* Nor does an operator who tells the truth (resolveInterruptedStep). *)
LEMMA OperatorKeeps ==
  ASSUME TakeTurns, NothingForgotten,
         \/ \E s \in Steps, resolution \in {"applied", "not_applied"} :
              ResolveInterruptedStep(s, resolution)
         \/ AbandonOperation
  PROVE  NothingForgotten' /\ runner' = runner
<1>1. RecordsTruthful /\ RecordsTruthful'
  BY OperatorTruthful DEF NothingForgotten
<1>2. UNCHANGED <<runner, done, settled>> /\ \A r \in Runners : runner[r].at = 0
  BY Zenon DEF ResolveInterruptedStep, AbandonOperation, OperatorMayAct, TakeTurns
<1>3. stored \in Record /\ settled \subseteq Steps
  BY <1>1 DEF RecordsTruthful, Truthful
<1>4. \A t \in settled : done[t] /\ DecideStep(stored.steps[t]) # "run"
  BY DEF NothingForgotten
<1>5. CASE AbandonOperation
  <2>1. stored'.steps = stored.steps
    BY <1>3, <1>5, AdvanceRecord DEF AbandonOperation
  <2>. QED BY <1>1, <1>2, <1>4, <2>1 DEF NothingForgotten
<1>6. ASSUME NEW s \in Steps, NEW resolution \in {"applied", "not_applied"},
             ResolveInterruptedStep(s, resolution)
      PROVE  NothingForgotten'
  <2>. DEFINE mark == IF resolution = "applied" THEN "succeeded" ELSE "pending"
              rec == WithStep(stored, s, mark, resolution = "applied")
  <2>1. done[s] => resolution = "applied"
    BY <1>6 DEF ResolveInterruptedStep
  <2>2. stored' = Advance(rec, "resume") \/ stored' = Advance(rec, "retry")
    BY <1>6, Zenon DEF ResolveInterruptedStep
  <2>3. mark \in StepStatuses /\ (resolution = "applied") \in BOOLEAN /\ (done[s] => mark = "succeeded")
    BY <2>1 DEF StepStatuses
  <2>. HIDE DEF mark
  <2>4. /\ rec \in Record
        /\ rec.steps[s] = [status |-> mark, committed |-> (resolution = "applied")]
        /\ \A t \in Steps \ {s} : rec.steps[t] = stored.steps[t]
    BY <1>3, <2>3, WithStepRecord, ZenonT(40)
  <2>. HIDE DEF rec
  <2>5. stored'.steps = rec.steps
    BY <2>2, <2>4, AdvanceRecord
  <2>6. done[s] => DecideStep(rec.steps[s]) # "run"
    BY <2>3, <2>4 DEF DecideStep
  <2>7. \A t \in settled : DecideStep(stored'.steps[t]) # "run"
    BY <1>3, <1>4, <2>4, <2>5, <2>6
  <2>. QED BY <1>1, <1>2, <1>4, <2>7 DEF NothingForgotten
<1>. QED BY <1>2, <1>5, <1>6

(* What a step does under the discipline, by cases on the action (Next). *)
LEMMA TurnStep ==
  ASSUME TakeTurns, NothingForgotten, Next
  PROVE  /\ NothingForgotten'
         /\ \A r \in Runners : runner'[r].at # runner[r].at => runner'[r].at \notin settled
         /\ Closed(stored) => stored' = stored
<1>. DEFINE Goal == /\ NothingForgotten'
                    /\ \A r \in Runners : runner'[r].at # runner[r].at => runner'[r].at \notin settled
                    /\ Closed(stored) => stored' = stored
<1>0. ASSUME NEW r \in Runners, NothingForgotten', runner'[r].at \notin settled,
             Closed(stored) => stored' = stored
      PROVE  Goal
  BY <1>0 DEF TakeTurns
<1>1. ASSUME NEW r \in Runners, runner[r].at # 0
      PROVE  ~Closed(stored)
  <2>1. stored.state = "running"
    BY <1>1 DEF NothingForgotten
  <2>. QED BY <2>1 DEF Closed, IsTerminal, RecoverableOperation
<1>2. ASSUME NEW r \in Runners, NEW n \in 0..AllWrites, RunOperation(r, n)
      PROVE  Goal
  <2>1. ~Closed(stored)
    BY <1>2 DEF RunOperation
  <2>2. NothingForgotten' /\ runner'[r].at \notin settled
    BY <1>2, RunOperationKeeps
  <2>. HIDE DEF Goal
  <2>. QED BY <1>0, <2>1, <2>2
<1>3. ASSUME NEW r \in Runners, NEW n \in 0..AllWrites, StepSucceeds(r, n)
      PROVE  Goal
  <2>1. ~Closed(stored)
    BY <1>1, <1>3, Zenon DEF StepSucceeds, StepFinishes
  <2>2. NothingForgotten' /\ runner'[r].at \notin settled
    <3>1. CASE \E c \in BOOLEAN : StepFinishes(r, "succeeded", c, n)
      BY <3>1, StepFinishesKeeps
    <3>2. CASE /\ runner[r].at # 0
               /\ StepFinishes(r, "skipped", runner[r].rec.steps[runner[r].at].committed, n)
      <4>1. runner[r].rec.steps[runner[r].at].committed \in BOOLEAN
        BY <3>2, RecoveryConstants DEF NothingForgotten, RecordsTruthful, Call, Record, Checkpoint, Steps
      <4>. QED BY <3>2, <4>1, StepFinishesKeeps
    <3>. QED BY <1>3, <3>1, <3>2 DEF StepSucceeds
  <2>. HIDE DEF Goal
  <2>. QED BY <1>0, <2>1, <2>2
<1>4. ASSUME NEW r \in Runners, NEW n \in 0..AllWrites,
             NEW st \in {"failed", "interrupted"}, NEW c \in BOOLEAN, StepStops(r, st, c, n)
      PROVE  Goal
  <2>1. ~Closed(stored)
    BY <1>1, <1>4 DEF StepStops
  <2>2. NothingForgotten' /\ runner'[r].at \notin settled
    BY <1>4, StepStopsKeeps
  <2>. HIDE DEF Goal
  <2>. QED BY <1>0, <2>1, <2>2
<1>5. ASSUME NEW r \in Runners, RunnerDies(r)
      PROVE  Goal
  <2>1. stored' = stored
    BY <1>5 DEF RunnerDies
  <2>2. NothingForgotten' /\ runner'[r].at \notin settled
    BY <1>5, RunnerDiesKeeps
  <2>. HIDE DEF Goal
  <2>. QED BY <1>0, <2>1, <2>2
<1>6. ASSUME \/ \E s \in Steps, resolution \in {"applied", "not_applied"} :
                  ResolveInterruptedStep(s, resolution)
             \/ AbandonOperation
      PROVE  Goal
  <2>1. ~Closed(stored)
    BY <1>6, Zenon DEF ResolveInterruptedStep, AbandonOperation, OperatorMayAct
  <2>. QED BY <1>6, <2>1, OperatorKeeps
<1>. HIDE DEF Goal
<1>7. Goal
  BY <1>2, <1>3, <1>4, <1>5, <1>6 DEF Next
<1>. QED BY <1>7 DEF Goal

(* Under the discipline nothing is forgotten in any run (all actions). *)
THEOREM MemoryIsKept ==
  ASSUME TakeTurns
  PROVE  Spec => []NothingForgotten
<1>1. Init => NothingForgotten
  <2>. SUFFICES ASSUME Init
                PROVE  NothingForgotten
    OBVIOUS
  <2>1. RecordsTruthful
    BY NoCallTruthful DEF Init, RecordsTruthful, TruthfulCall
  <2>2. settled = {} /\ \A r \in Runners : runner[r].at = 0
    BY DEF Init, NoCall
  <2>. QED BY <2>1, <2>2 DEF NothingForgotten
<1>2. NothingForgotten /\ [Next]_vars => NothingForgotten'
  <2>1. CASE vars' = vars
    BY <2>1 DEF vars, NothingForgotten, RecordsTruthful
  <2>. QED BY <2>1, TurnStep
<1>. QED BY <1>1, <1>2, PTL DEF Spec

(***************************************************************************)
(* When calls and operators take turns, a step that storage once knew to   *)
(* have landed is never called again (decideStep).                         *)
(***************************************************************************)
THEOREM LandedIsNeverRecalled ==
  ASSUME TakeTurns
  PROVE  Spec => NeverRecalled
<1>1. NothingForgotten /\ [Next]_vars =>
        [\A r \in Runners : runner'[r].at # runner[r].at => runner'[r].at \notin settled]_vars
  BY TurnStep
<1>. QED BY <1>1, MemoryIsKept, PTL DEF Spec, NeverRecalled

(* Then a closed operation also stays as it is (readForResolution, runOperation). *)
THEOREM ClosedForGood ==
  ASSUME TakeTurns
  PROVE  Spec => ClosedStays
<1>1. NothingForgotten /\ [Next]_vars => [Closed(stored) => stored' = stored]_vars
  BY TurnStep
<1>. QED BY <1>1, MemoryIsKept, PTL DEF Spec, ClosedStays
====
