---------------------------- MODULE StoresProofs ----------------------------
(***************************************************************************)
(* Proofs about the components that cache, record, admit and dispatch:     *)
(* the bounded cache, the review of duplicates, the enqueue gate, the      *)
(* guarded submit and the side effect dispatcher, for any sets of keys,    *)
(* loads, groups, jobs and drivers.                                        *)
(***************************************************************************)
EXTENDS BoundedCache, DuplicateReview, Submit, Dispatcher, FiniteSetTheorems, TLAPS

-----------------------------------------------------------------------------
(***************************************************************************)
(* The bounded cache.                                                      *)
(***************************************************************************)
CacheEntry == [value : Nat, sequence : Nat, expired : BOOLEAN, loaded : BOOLEAN]
CacheLoad == [pc : {"loading", "read"}, key : CacheKeys, value : Nat, sequence : Nat] \cup {NotLoading}

CacheTypes ==
  /\ entries \in [CacheKeys -> CacheEntry]
  /\ inflight \in [CacheKeys -> Loads \cup {NoLoad}]
  /\ loads \in [Loads -> CacheLoad]
  /\ source \in [CacheKeys -> Nat]
  /\ floor \in [CacheKeys -> Nat]

(* A load that is registered runs, and what it has read is fresh enough to be stored. *)
LoadHolds(k) ==
  inflight[k] # NoLoad =>
    /\ loads[inflight[k]].key = k
    /\ loads[inflight[k]].pc = "read" => loads[inflight[k]].value >= floor[k]
    /\ loads[inflight[k]].pc # "idle"

(***************************************************************************)
(* The strengthening: an invalidation never runs ahead of the record, and  *)
(* the value a registered load carries is above the floor of its key.      *)
(***************************************************************************)
CacheInv ==
  /\ CacheTypes
  /\ \A k \in CacheKeys :
       /\ floor[k] <= source[k]
       /\ entries[k].loaded => entries[k].value >= floor[k]
       /\ LoadHolds(k)

LEMMA StoredEntries ==
  ASSUME CacheInv, NEW k \in CacheKeys, NEW v \in Nat, NEW s \in Nat, NEW loaded \in BOOLEAN,
         Stored(k, v, s, loaded), loaded => v >= floor[k]
  PROVE  /\ entries' \in [CacheKeys -> CacheEntry]
         /\ \A j \in CacheKeys : entries'[j].loaded => entries'[j].value >= floor[j]
<1>. PICK kept : kept = Range(recency')
  OBVIOUS
<1>1. PICK new : new = [value |-> v, sequence |-> s, expired |-> FALSE, loaded |-> loaded]
  BY Zenon
<1>2. entries' = [j \in CacheKeys |-> IF j \notin kept THEN NoEntry ELSE IF j = k THEN new ELSE entries[j]]
  BY <1>1 DEF Stored
<1>3. new \in CacheEntry /\ new.loaded = loaded /\ new.value = v
  BY <1>1 DEF CacheEntry
<1>4. NoEntry \in CacheEntry /\ ~NoEntry.loaded
  BY DEF NoEntry, CacheEntry
<1>. QED BY <1>2, <1>3, <1>4 DEF CacheInv, CacheTypes

LEMMA DroppedEntries ==
  ASSUME CacheInv, NEW keys, Dropped(keys)
  PROVE  /\ entries' \in [CacheKeys -> CacheEntry]
         /\ \A j \in CacheKeys : entries'[j].loaded => j \notin keys /\ entries'[j].value >= floor[j]
<1>1. NoEntry \in CacheEntry /\ ~NoEntry.loaded
  BY DEF NoEntry, CacheEntry
<1>. QED BY <1>1 DEF Dropped, CacheInv, CacheTypes

(* A step of a load: it changes its own record, and is registered nowhere else. *)
LEMMA LoadChanges ==
  ASSUME CacheInv, NEW l \in Loads, NEW next \in CacheLoad, loads' = [loads EXCEPT ![l] = next],
         UNCHANGED floor, inflight' \in [CacheKeys -> Loads \cup {NoLoad}],
         \A k \in CacheKeys : inflight'[k] \in {inflight[k], NoLoad, l},
         \A k \in CacheKeys : inflight'[k] = l =>
           next.key = k /\ next.pc # "idle" /\ (next.pc = "read" => next.value >= floor[k])
  PROVE  loads' \in [Loads -> CacheLoad] /\ \A k \in CacheKeys : LoadHolds(k)'
<1>1. loads' \in [Loads -> CacheLoad] /\ loads'[l] = next /\ \A m \in Loads \ {l} : loads'[m] = loads[m]
  BY DEF CacheInv, CacheTypes
<1>2. ASSUME NEW k \in CacheKeys, inflight'[k] # NoLoad
      PROVE  /\ loads'[inflight'[k]].key = k /\ loads'[inflight'[k]].pc # "idle"
             /\ loads'[inflight'[k]].pc = "read" => loads'[inflight'[k]].value >= floor[k]
  <2>1. CASE inflight'[k] = l
    BY <1>1, <2>1
  <2>2. CASE inflight'[k] # l
    <3>1. inflight'[k] = inflight[k] /\ inflight[k] \in Loads \ {l}
      BY <1>2, <2>2 DEF CacheInv, CacheTypes
    <3>2. LoadHolds(k)
      BY DEF CacheInv
    <3>. QED BY <1>1, <1>2, <3>1, <3>2 DEF LoadHolds
  <2>. QED BY <2>1, <2>2
<1>. QED BY <1>1, <1>2 DEF LoadHolds

LEMMA LoadFields ==
  ASSUME CacheInv, NEW l \in Loads
  PROVE  /\ loads[l] \in CacheLoad /\ loads[l].pc \in {"idle", "loading", "read"}
         /\ loads[l].value \in Nat /\ loads[l].sequence \in Nat
         /\ loads[l].pc # "idle" => loads[l].key \in CacheKeys
         /\ NotLoading \in CacheLoad /\ NotLoading.pc = "idle"
         /\ l # NoLoad
<1>1. loads[l] \in CacheLoad
  BY DEF CacheInv, CacheTypes
<1>2. NotLoading.pc = "idle" /\ NotLoading.value = 0 /\ NotLoading.sequence = 0
  BY DEF NotLoading
<1>3. CASE loads[l] = NotLoading
  <2>1. l # NoLoad
    BY CacheConstants, Zenon DEF NoLoad
  <2>2. loads[l].pc = "idle" /\ loads[l].value = 0 /\ loads[l].sequence = 0
    BY <1>2, <1>3
  <2>. QED BY <1>1, <1>2, <1>3, <2>1, <2>2
<1>4. CASE loads[l] # NotLoading
  <2>1. PICK r \in [pc : {"loading", "read"}, key : CacheKeys, value : Nat, sequence : Nat] : r = loads[l]
    BY <1>1, <1>4 DEF CacheLoad
  <2>2. r.pc \in {"loading", "read"} /\ r.key \in CacheKeys /\ r.value \in Nat /\ r.sequence \in Nat
    OBVIOUS
  <2>. QED BY <1>1, <1>2, <2>1, <2>2, CacheConstants, Zenon DEF CacheLoad, NoLoad
<1>. QED BY <1>3, <1>4

LEMMA SetKeepsFresh ==
  ASSUME CacheInv, NEW k \in CacheKeys, NEW v \in Nat, NEW s \in Nat, CacheSet(k, v, s)
  PROVE  CacheInv'
<1>1. entries' \in [CacheKeys -> CacheEntry] /\ \A j \in CacheKeys : entries'[j].loaded => entries'[j].value >= floor[j]
  BY StoredEntries, Zenon DEF CacheSet
<1>. QED BY <1>1 DEF CacheInv, CacheTypes, LoadHolds, CacheSet

LEMMA StartKeepsFresh ==
  ASSUME CacheInv, NEW k \in CacheKeys, NEW l \in Loads, NEW s \in Nat, LoadStarts(k, l, s)
  PROVE  CacheInv'
<1>1. entries' \in [CacheKeys -> CacheEntry] /\ \A j \in CacheKeys : entries'[j].loaded => entries'[j].value >= floor[j]
  BY DroppedEntries DEF LoadStarts
<1>2. PICK next : next = [pc |-> "loading", key |-> k, value |-> 0, sequence |-> s]
  BY Zenon
<1>3. next \in CacheLoad /\ next.pc = "loading" /\ next.key = k /\ loads' = [loads EXCEPT ![l] = next]
  BY <1>2 DEF LoadStarts, CacheLoad
<1>4. /\ inflight' \in [CacheKeys -> Loads \cup {NoLoad}] /\ inflight'[k] = l
      /\ \A j \in CacheKeys \ {k} : inflight'[j] = inflight[j]
  BY DEF LoadStarts, CacheInv, CacheTypes
<1>5. \A j \in CacheKeys : inflight[j] # l
  BY LoadFields DEF LoadStarts, NotLoading, CacheInv, LoadHolds
<1>6. loads' \in [Loads -> CacheLoad] /\ \A j \in CacheKeys : LoadHolds(j)'
  BY <1>3, <1>4, <1>5, LoadChanges, ZenonT(40) DEF LoadStarts
<1>. QED BY <1>1, <1>4, <1>6 DEF CacheInv, CacheTypes, LoadStarts

LEMMA ReadKeepsFresh ==
  ASSUME CacheInv, NEW l \in Loads, LoadReads(l)
  PROVE  CacheInv'
<1>1. PICK next : next = [loads[l] EXCEPT !.pc = "read", !.value = source[loads[l].key]]
  OBVIOUS
<1>2. loads' = [loads EXCEPT ![l] = next]
  BY <1>1 DEF LoadReads, CacheInv, CacheTypes
<1>3. PICK k \in CacheKeys : k = loads[l].key
  BY LoadFields DEF LoadReads
<1>4. source[k] \in Nat /\ source[k] >= floor[k]
  BY DEF CacheInv, CacheTypes
<1>5. next = [pc |-> "read", key |-> k, value |-> source[k], sequence |-> loads[l].sequence]
  <2>1. PICK r \in [pc : {"loading", "read"}, key : CacheKeys, value : Nat, sequence : Nat] : r = loads[l]
    BY LoadFields DEF CacheLoad, LoadReads
  <2>2. next = [r EXCEPT !.pc = "read", !.value = source[k]] /\ r.key = k
    BY <1>1, <1>3, <2>1
  <2>. QED BY <2>1, <2>2, Zenon
<1>6. next \in CacheLoad /\ next.pc = "read" /\ next.key = k /\ next.value >= floor[k]
  BY <1>4, <1>5, LoadFields DEF CacheLoad
<1>7. \A j \in CacheKeys : inflight[j] = l => j = k
  BY <1>3, LoadFields DEF CacheInv, LoadHolds
<1>8. loads' \in [Loads -> CacheLoad] /\ \A j \in CacheKeys : LoadHolds(j)'
  <2>1. inflight' \in [CacheKeys -> Loads \cup {NoLoad}] /\ inflight' = inflight /\ floor' = floor
    BY DEF LoadReads, CacheInv, CacheTypes
  <2>. QED BY <1>2, <1>6, <1>7, <2>1, LoadChanges, Zenon
<1>. QED BY <1>8 DEF CacheInv, CacheTypes, LoadReads

LEMMA UnregisteredKeeps ==
  ASSUME CacheInv, NEW l \in Loads, loads[l].pc # "idle", inflight' = Unregistered(l),
         loads' = [loads EXCEPT ![l] = NotLoading], UNCHANGED floor
  PROVE  /\ inflight' \in [CacheKeys -> Loads \cup {NoLoad}]
         /\ loads' \in [Loads -> CacheLoad] /\ \A k \in CacheKeys : LoadHolds(k)'
<1>1. PICK k \in CacheKeys : k = loads[l].key
  BY LoadFields
<1>2. \A j \in CacheKeys : inflight[j] = l => j = k
  BY <1>1, LoadFields DEF CacheInv, LoadHolds
<1>3. /\ inflight' \in [CacheKeys -> Loads \cup {NoLoad}]
      /\ \A j \in CacheKeys : inflight'[j] \in {inflight[j], NoLoad} /\ inflight'[j] # l
  BY <1>1, <1>2, LoadFields DEF Unregistered, Registered, CacheInv, CacheTypes
<1>. QED BY <1>3, LoadChanges, LoadFields, Zenon

LEMMA LandingKeepsFresh ==
  ASSUME CacheInv, NEW l \in Loads, LoadLands(l)
  PROVE  CacheInv'
<1>1. /\ inflight' \in [CacheKeys -> Loads \cup {NoLoad}]
      /\ loads' \in [Loads -> CacheLoad] /\ \A k \in CacheKeys : LoadHolds(k)'
  BY UnregisteredKeeps, Zenon DEF LoadLands
<1>2. PICK k \in CacheKeys : k = loads[l].key
  BY LoadFields DEF LoadLands
<1>3. entries' \in [CacheKeys -> CacheEntry] /\ \A j \in CacheKeys : entries'[j].loaded => entries'[j].value >= floor[j]
  <2>1. CASE Registered(l) /\ Stored(k, loads[l].value, loads[l].sequence, TRUE)
    <3>1. loads[l].value >= floor[k]
      BY <1>2, <2>1, LoadFields DEF Registered, LoadLands, CacheInv, LoadHolds
    <3>. QED BY <2>1, <3>1, LoadFields, StoredEntries, Zenon
  <2>2. CASE UNCHANGED entries
    BY <2>2 DEF CacheInv, CacheTypes
  <2>. QED BY <1>2, <2>1, <2>2, Zenon DEF LoadLands
<1>. QED BY <1>1, <1>3 DEF CacheInv, CacheTypes, LoadLands

LEMMA FailureKeepsFresh ==
  ASSUME CacheInv, NEW l \in Loads, LoadFails(l)
  PROVE  CacheInv'
<1>1. /\ inflight' \in [CacheKeys -> Loads \cup {NoLoad}]
      /\ loads' \in [Loads -> CacheLoad] /\ \A k \in CacheKeys : LoadHolds(k)'
  BY UnregisteredKeeps, ZenonT(40) DEF LoadFails
<1>. QED BY <1>1 DEF CacheInv, CacheTypes, LoadFails

LEMMA InvalidationKeepsFresh ==
  ASSUME CacheInv, NEW keys, Invalidate(keys)
  PROVE  CacheInv'
<1>1. /\ entries' \in [CacheKeys -> CacheEntry]
      /\ \A j \in CacheKeys : entries'[j].loaded => j \notin keys /\ entries'[j].value >= floor[j]
  BY DroppedEntries DEF Invalidate
<1>2. /\ inflight' \in [CacheKeys -> Loads \cup {NoLoad}] /\ floor' \in [CacheKeys -> Nat]
      /\ \A j \in CacheKeys : /\ j \in keys => inflight'[j] = NoLoad /\ floor'[j] = source[j]
                              /\ j \notin keys => inflight'[j] = inflight[j] /\ floor'[j] = floor[j]
  BY DEF Invalidate, CacheInv, CacheTypes
<1>3. \A j \in CacheKeys : LoadHolds(j)'
  BY <1>2 DEF Invalidate, CacheInv, LoadHolds
<1>. QED BY <1>1, <1>2, <1>3 DEF Invalidate, CacheInv, CacheTypes

LEMMA EnvironmentKeepsFresh ==
  ASSUME CacheInv, NEW k \in CacheKeys, SourceChanges(k) \/ EntryAges(k) \/ CacheHit(k) \/ CacheExpired(k)
  PROVE  CacheInv'
<1>1. CASE SourceChanges(k)
  <2>1. source' \in [CacheKeys -> Nat] /\ \A j \in CacheKeys : source'[j] >= source[j]
    BY <1>1 DEF SourceChanges, CacheInv, CacheTypes
  <2>. QED BY <1>1, <2>1 DEF SourceChanges, CacheInv, CacheTypes, LoadHolds
<1>2. CASE EntryAges(k)
  <2>1. PICK e : e = [entries[k] EXCEPT !.expired = TRUE]
    BY Zenon
  <2>2. e \in CacheEntry /\ e.loaded = entries[k].loaded /\ e.value = entries[k].value
    BY <2>1, Zenon DEF CacheInv, CacheTypes, CacheEntry
  <2>3. entries' = [entries EXCEPT ![k] = e]
    BY <1>2, <2>1 DEF EntryAges, CacheInv, CacheTypes
  <2>4. /\ entries' \in [CacheKeys -> CacheEntry]
        /\ \A j \in CacheKeys : entries'[j].loaded = entries[j].loaded /\ entries'[j].value = entries[j].value
    BY <2>2, <2>3 DEF CacheInv, CacheTypes
  <2>. QED BY <1>2, <2>4 DEF EntryAges, CacheInv, CacheTypes, LoadHolds
<1>3. CASE CacheHit(k)
  BY <1>3 DEF CacheHit, CacheInv, CacheTypes, LoadHolds
<1>4. CASE CacheExpired(k)
  <2>1. entries' \in [CacheKeys -> CacheEntry] /\ \A j \in CacheKeys : entries'[j].loaded => entries'[j].value >= floor[j]
    BY <1>4, DroppedEntries DEF CacheExpired
  <2>. QED BY <1>4, <2>1 DEF CacheExpired, CacheInv, CacheTypes, LoadHolds
<1>. QED BY <1>1, <1>2, <1>3, <1>4

LEMMA CacheStep == ASSUME CacheInv, [CacheNext]_cacheVars PROVE CacheInv'
<1>1. \A k \in CacheKeys : source[k] \in Nat
  BY DEF CacheInv, CacheTypes
<1>2. ASSUME NEW k \in CacheKeys, NEW v \in 1..source[k], NEW s \in {0, v}, CacheSet(k, v, s) PROVE CacheInv'
  BY <1>1, <1>2, SetKeepsFresh
<1>3. ASSUME NEW k \in CacheKeys, NEW l \in Loads, NEW s \in {0, source[k]}, LoadStarts(k, l, s) PROVE CacheInv'
  BY <1>1, <1>3, StartKeepsFresh
<1>4. ASSUME NEW keys, InvalidateWhere(keys) PROVE CacheInv'
  BY <1>4, InvalidationKeepsFresh DEF InvalidateWhere
<1>5. CASE UNCHANGED cacheVars
  BY <1>5 DEF cacheVars, CacheInv, CacheTypes, LoadHolds
<1>. QED BY <1>2, <1>3, <1>4, <1>5, InvalidationKeepsFresh, EnvironmentKeepsFresh, ReadKeepsFresh,
             LandingKeepsFresh, FailureKeepsFresh, Zenon DEF CacheNext

(***************************************************************************)
(* Nobody is served what was invalidated, for any keys, loads and bounds:  *)
(* what a load stores was read from a version of the record no older than  *)
(* the one at the last invalidation of its key, and the load that callers  *)
(* join is a load of that key (getOrLoad and its finally, invalidate,      *)
(* clear).                                                                 *)
(***************************************************************************)
THEOREM ServesNothingInvalidated == CacheSpec => []FreshAfterInvalidate
<1>1. CacheInit => CacheInv
  <2>. SUFFICES ASSUME CacheInit PROVE CacheInv
    OBVIOUS
  <2>1. NoEntry \in CacheEntry /\ ~NoEntry.loaded /\ NotLoading \in CacheLoad
    BY DEF NoEntry, CacheEntry, CacheLoad
  <2>. QED BY <2>1 DEF CacheInit, CacheInv, CacheTypes, LoadHolds
<1>2. CacheInv => FreshAfterInvalidate
  BY DEF CacheInv, LoadHolds, FreshAfterInvalidate
<1>. QED BY <1>1, <1>2, CacheStep, PTL DEF CacheSpec

-----------------------------------------------------------------------------
(***************************************************************************)
(* The review of duplicates.                                               *)
(***************************************************************************)
GroupStates == {"absent", "pending", "deferred", "confirmed", "dismissed"}

(* The list a tab holds is the saved one, unless the tab was reset and holds none. *)
ReviewInv ==
  /\ storedGroups \in [Groups -> GroupStates]
  /\ view \in [Tabs -> [Groups -> GroupStates]]
  /\ \A t \in Tabs : view[t] \in {NoGroups, storedGroups}

(* What a step may do to the saved list. *)
Stands(before, after) ==
  \A g \in Groups : /\ before[g] \in {"confirmed", "dismissed"} => after[g] = before[g]
                    /\ before[g] # "absent" => after[g] # "absent"

LEMMA NoGroupsFields == NoGroups \in [Groups -> GroupStates] /\ \A g \in Groups : NoGroups[g] = "absent"
BY DEF NoGroups, GroupStates

LEMMA MergeStands ==
  ASSUME NEW found, NEW stored \in [Groups -> GroupStates]
  PROVE  /\ MergeIntoStore(found, stored) \in [Groups -> GroupStates]
         /\ Stands(stored, MergeIntoStore(found, stored))
BY DEF MergeIntoStore, Stands, GroupStates

LEMMA DecisionStands ==
  ASSUME NEW groups \in [Groups -> GroupStates], NEW g \in Groups, NEW action \in {"confirm", "dismiss", "defer"},
         ReviewedBy(groups[g], action) # "invalid"
  PROVE  /\ [groups EXCEPT ![g] = ReviewedBy(@, action)] \in [Groups -> GroupStates]
         /\ Stands(groups, [groups EXCEPT ![g] = ReviewedBy(@, action)])
<1>1. groups[g] \in {"pending", "deferred"}
  BY DEF ReviewedBy
<1>2. PICK next : next = ReviewedBy(groups[g], action)
  OBVIOUS
<1>3. next \in {"deferred", "confirmed", "dismissed"}
  BY <1>1, <1>2 DEF ReviewedBy
<1>4. next \in GroupStates /\ next # "absent" /\ groups[g] \notin {"confirmed", "dismissed"}
  BY <1>1, <1>3 DEF GroupStates
<1>5. [groups EXCEPT ![g] = ReviewedBy(@, action)] = [groups EXCEPT ![g] = next]
  BY <1>2
<1>. QED BY <1>4, <1>5 DEF Stands

LEMMA ReviewStep ==
  ASSUME NEW tab, Tabs = {tab}, ~SaveRefused, ReviewInv, [ReviewNext]_reviewVars
  PROVE  ReviewInv' /\ Stands(storedGroups, storedGroups')
<1>1. CASE UNCHANGED <<storedGroups, view>>
  BY <1>1 DEF ReviewInv, Stands
<1>2. ASSUME NEW t \in Tabs, Scan(t) \/ ScanFails(t) PROVE UNCHANGED <<storedGroups, view>>
  BY <1>2 DEF Scan, ScanFails
<1>3. ASSUME NEW t \in Tabs, ResetScanner(t) PROVE ReviewInv' /\ Stands(storedGroups, storedGroups')
  BY <1>3, NoGroupsFields DEF ResetScanner, ReviewInv, Stands
<1>4. ASSUME NEW t \in Tabs, PageReloads(t) PROVE ReviewInv' /\ Stands(storedGroups, storedGroups')
  BY <1>4 DEF PageReloads, ReviewInv, Stands
<1>5. ASSUME NEW t \in Tabs, NEW groups \in [Groups -> GroupStates], view' = [view EXCEPT ![t] = groups],
             storedGroups' = groups, Stands(storedGroups, groups)
      PROVE  ReviewInv' /\ Stands(storedGroups, storedGroups')
  BY <1>5 DEF ReviewInv
<1>6. ASSUME NEW t \in Tabs, NEW found, ScanLands(t, found, TRUE) PROVE ReviewInv' /\ Stands(storedGroups, storedGroups')
  <2>1. PICK groups : groups = MergeIntoStore(found, storedGroups)
    OBVIOUS
  <2>2. groups \in [Groups -> GroupStates] /\ Stands(storedGroups, groups)
    BY <2>1, MergeStands DEF ReviewInv
  <2>3. view' = [view EXCEPT ![t] = groups] /\ storedGroups' = view'[t]
    BY <1>6, <2>1 DEF ScanLands, SaveGroups
  <2>4. storedGroups' = groups
    BY <2>3 DEF ReviewInv
  <2>. QED BY <1>5, <2>2, <2>3, <2>4, Zenon
<1>7. ASSUME NEW t \in Tabs, NEW g \in Groups, NEW action \in {"confirm", "dismiss", "defer"}, Review(t, g, action, TRUE)
      PROVE  ReviewInv' /\ Stands(storedGroups, storedGroups')
  <2>1. view[t] = storedGroups
    BY <1>7, NoGroupsFields DEF Review, ReviewedBy, ReviewInv
  <2>2. PICK groups : groups = [storedGroups EXCEPT ![g] = ReviewedBy(@, action)]
    BY Zenon
  <2>3. groups \in [Groups -> GroupStates] /\ Stands(storedGroups, groups)
    BY <1>7, <2>1, <2>2, DecisionStands, Zenon DEF Review, ReviewInv
  <2>4. view' = [view EXCEPT ![t] = groups] /\ storedGroups' = view'[t]
    BY <1>7, <2>1, <2>2 DEF Review, SaveGroups, ReviewInv
  <2>5. storedGroups' = groups
    BY <2>4 DEF ReviewInv
  <2>. QED BY <1>5, <2>3, <2>4, <2>5, Zenon
<1>8. CASE UNCHANGED reviewVars
  BY <1>1, <1>8 DEF reviewVars
<1>9. ~SaveRefused = TRUE
  BY ReviewConstants
<1>. QED BY <1>1, <1>2, <1>3, <1>4, <1>6, <1>7, <1>8, <1>9, Zenon DEF ReviewNext

(***************************************************************************)
(* A decision is not lost while one tab writes: whatever scans are in      *)
(* flight, the list that a scan or a review saves keeps every confirmed or *)
(* dismissed group and drops none (mergeIntoStore, review, scan).          *)
(***************************************************************************)
THEOREM OneTabKeepsDecisions ==
  ASSUME NEW tab, Tabs = {tab}, ~SaveRefused
  PROVE  ReviewSpec => DecisionsStand
<1>1. ReviewInit => ReviewInv
  BY NoGroupsFields DEF ReviewInit, ReviewInv
<1>2. ReviewInv /\ [ReviewNext]_reviewVars => ReviewInv'
  BY ReviewStep
<1>3. ReviewInv /\ [ReviewNext]_reviewVars =>
        [\A g \in Groups :
           /\ storedGroups[g] \in {"confirmed", "dismissed"} => storedGroups'[g] = storedGroups[g]
           /\ storedGroups[g] # "absent" => storedGroups'[g] # "absent"]_reviewVars
  BY ReviewStep DEF Stands
<1>. QED BY <1>1, <1>2, <1>3, PTL DEF ReviewSpec, DecisionsStand

-----------------------------------------------------------------------------
(***************************************************************************)
(* The side effect dispatcher.                                             *)
(***************************************************************************)
DispatchJob == [status : {"absent", "queued", "running", "succeeded", "dead_lettered"}, attempts : Nat]

DispatchTypes ==
  /\ dispatched \in [DispatchKeys -> DispatchJob]
  /\ driving \in [Drivers -> [key : DispatchKeys, copy : DispatchJob] \cup {Resting}]
  /\ effects \in [DispatchKeys -> BOOLEAN]

(***************************************************************************)
(* The strengthening: a job that a driver is at has not had its effect,    *)
(* and no other driver is at it.                                           *)
(***************************************************************************)
DispatchInv ==
  /\ DispatchTypes
  /\ DoneStaysDone
  /\ \A d \in Drivers : driving[d] # Resting => ~effects[driving[d].key]
  /\ \A d, e \in Drivers : driving[d] # Resting /\ driving[e].key = driving[d].key => d = e

LEMMA RestingFields == Resting.key \notin DispatchKeys
BY DispatchConstants DEF Resting

(* What a driver at key k writes back when its effect settles. *)
LEMMA DriverWritesBack ==
  ASSUME DispatchInv, NEW d \in Drivers, driving[d] # Resting, NEW job \in DispatchJob,
         dispatched' = [dispatched EXCEPT ![driving[d].key] = job], driving' = [driving EXCEPT ![d] = Resting],
         \/ job.status = "succeeded" /\ effects' = [effects EXCEPT ![driving[d].key] = TRUE]
         \/ UNCHANGED effects
  PROVE  DispatchInv'
<1>1. PICK k \in DispatchKeys : k = driving[d].key
  BY DEF DispatchInv, DispatchTypes
<1>2. /\ dispatched' \in [DispatchKeys -> DispatchJob] /\ dispatched'[k] = job
      /\ \A j \in DispatchKeys \ {k} : dispatched'[j] = dispatched[j]
  BY <1>1 DEF DispatchInv, DispatchTypes
<1>3. /\ driving' \in [Drivers -> [key : DispatchKeys, copy : DispatchJob] \cup {Resting}]
      /\ driving'[d] = Resting /\ \A e \in Drivers \ {d} : driving'[e] = driving[e]
  BY DEF DispatchInv, DispatchTypes
<1>4. \A e \in Drivers \ {d} : driving[e].key # k
  BY <1>1 DEF DispatchInv
<1>5. /\ effects' \in [DispatchKeys -> BOOLEAN] /\ \A j \in DispatchKeys \ {k} : effects'[j] = effects[j]
      /\ effects'[k] => job.status = "succeeded"
  BY <1>1, ZenonT(40) DEF DispatchInv, DispatchTypes
<1>6. DoneStaysDone'
  BY <1>2, <1>5 DEF DispatchInv, DoneStaysDone
<1>7. \A e \in Drivers : driving'[e] # Resting => ~effects'[driving'[e].key]
  <2>. SUFFICES ASSUME NEW e \in Drivers, driving'[e] # Resting PROVE ~effects'[driving'[e].key]
    OBVIOUS
  <2>1. e # d /\ driving'[e] = driving[e]
    BY <1>3
  <2>2. driving[e].key \in DispatchKeys \ {k}
    BY <1>4, <2>1 DEF DispatchInv, DispatchTypes
  <2>. QED BY <1>5, <2>1, <2>2 DEF DispatchInv
<1>8. \A e, f \in Drivers : driving'[e] # Resting /\ driving'[f].key = driving'[e].key => e = f
  <2>. SUFFICES ASSUME NEW e \in Drivers, NEW f \in Drivers, driving'[e] # Resting, driving'[f].key = driving'[e].key
                PROVE  e = f
    OBVIOUS
  <2>1. driving'[e] = driving[e] /\ driving[e].key \in DispatchKeys
    BY <1>3 DEF DispatchInv, DispatchTypes
  <2>2. driving'[f] = driving[f]
    BY <1>3, <2>1, RestingFields
  <2>. QED BY <2>1, <2>2 DEF DispatchInv
<1>. QED BY <1>2, <1>3, <1>5, <1>6, <1>7, <1>8 DEF DispatchInv, DispatchTypes

LEMMA CopyFields ==
  ASSUME DispatchInv, NEW d \in Drivers, driving[d] # Resting
  PROVE  driving[d].copy \in DispatchJob
BY DEF DispatchInv, DispatchTypes

LEMMA SuccessKeepsDone ==
  ASSUME DispatchInv, NEW d \in Drivers, DispatchSucceeds(d)
  PROVE  DispatchInv'
<1>1. PICK copy \in DispatchJob : copy = driving[d].copy
  BY CopyFields DEF DispatchSucceeds
<1>2. PICK job : job = [copy EXCEPT !.status = "succeeded"]
  BY Zenon
<1>3. job \in DispatchJob /\ job.status = "succeeded"
  BY <1>2 DEF DispatchJob
<1>. QED BY <1>1, <1>2, <1>3, DriverWritesBack, Zenon DEF DispatchSucceeds

LEMMA FailureKeepsDone ==
  ASSUME DispatchInv, NEW d \in Drivers, DispatchFails(d)
  PROVE  DispatchInv'
<1>1. PICK copy \in DispatchJob : copy = driving[d].copy
  BY CopyFields DEF DispatchFails
<1>2. FailedCopy(copy) \in DispatchJob
  BY DEF FailedCopy, DispatchJob
<1>. QED BY <1>1, <1>2, DriverWritesBack, Zenon DEF DispatchFails

LEMMA RunKeepsDone ==
  ASSUME ~RunTwice, DispatchInv, NEW d \in Drivers, NEW k \in DispatchKeys, DispatchRun(d, k)
  PROVE  DispatchInv'
<1>1. PICK job : job = [status |-> "running", attempts |-> dispatched[k].attempts + 1]
  BY Zenon
<1>2. job \in DispatchJob
  BY <1>1 DEF DispatchInv, DispatchTypes, DispatchJob
<1>3. PICK drive : drive = [key |-> k, copy |-> job]
  BY Zenon
<1>4. drive \in [key : DispatchKeys, copy : DispatchJob] /\ drive.key = k
  BY <1>2, <1>3
<1>5. ~effects[k] /\ \A e \in Drivers : driving[e].key # k
  BY DEF DispatchRun, DispatchSettled, DispatchInv, DoneStaysDone
<1>6. /\ dispatched' \in [DispatchKeys -> DispatchJob]
      /\ \A j \in DispatchKeys \ {k} : dispatched'[j] = dispatched[j]
  BY <1>1, <1>2 DEF DispatchRun, DispatchInv, DispatchTypes
<1>7. /\ driving' \in [Drivers -> [key : DispatchKeys, copy : DispatchJob] \cup {Resting}]
      /\ driving'[d] = drive /\ \A e \in Drivers \ {d} : driving'[e] = driving[e]
  BY <1>1, <1>3, <1>4 DEF DispatchRun, DispatchInv, DispatchTypes
<1>8. effects' = effects
  BY DEF DispatchRun
<1>9. DoneStaysDone'
  BY <1>5, <1>6, <1>8 DEF DispatchInv, DoneStaysDone
<1>10. \A e \in Drivers : driving'[e] # Resting => ~effects'[driving'[e].key]
  BY <1>4, <1>5, <1>7, <1>8 DEF DispatchInv
<1>11. \A e, f \in Drivers : driving'[e] # Resting /\ driving'[f].key = driving'[e].key => e = f
  BY <1>4, <1>5, <1>7 DEF DispatchInv
<1>. QED BY <1>6, <1>7, <1>8, <1>9, <1>10, <1>11 DEF DispatchInv, DispatchTypes

LEMMA DispatchStep == ASSUME ~RunTwice, DispatchInv, [DispatchNext]_dispatchVars PROVE DispatchInv'
<1>1. ASSUME NEW k \in DispatchKeys, DispatchSubmit(k) PROVE DispatchInv'
  <2>1. PICK job : job = [status |-> "queued", attempts |-> 0]
    BY Zenon
  <2>2. job \in DispatchJob
    BY <2>1 DEF DispatchJob
  <2>3. dispatched' = [dispatched EXCEPT ![k] = job] /\ UNCHANGED <<driving, effects>>
    BY <1>1, <2>1 DEF DispatchSubmit
  <2>4. ~effects[k]
    BY <1>1 DEF DispatchSubmit, DispatchInv, DoneStaysDone, NoJob
  <2>. QED BY <2>2, <2>3, <2>4 DEF DispatchInv, DispatchTypes, DoneStaysDone
<1>2. ASSUME NEW d \in Drivers, DriverDies(d) PROVE DispatchInv'
  <2>1. /\ driving' \in [Drivers -> [key : DispatchKeys, copy : DispatchJob] \cup {Resting}]
        /\ \A e \in Drivers : driving'[e] \in {driving[e], Resting}
    BY <1>2 DEF DriverDies, DispatchInv, DispatchTypes
  <2>2. \A e \in Drivers : driving'[e] # Resting => driving[e].key \in DispatchKeys
    BY <2>1 DEF DispatchInv, DispatchTypes
  <2>3. \A e, f \in Drivers : driving'[e] # Resting /\ driving'[f].key = driving'[e].key => e = f
    BY <2>1, <2>2, RestingFields DEF DispatchInv
  <2>. QED BY <1>2, <2>1, <2>2, <2>3 DEF DriverDies, DispatchInv, DispatchTypes, DoneStaysDone
<1>3. CASE UNCHANGED dispatchVars
  BY <1>3 DEF dispatchVars, DispatchInv, DispatchTypes, DoneStaysDone
<1>. QED BY <1>1, <1>2, <1>3, RunKeepsDone, SuccessKeepsDone, FailureKeepsDone DEF DispatchNext

(***************************************************************************)
(* A job whose effect was reported as done stays succeeded, for any number *)
(* of keys, drivers, attempts and crashes, when no two drivers run one job *)
(* at the same time: the copy that a run writes back after its await       *)
(* replaces no outcome (submit, run).                                      *)
(***************************************************************************)
THEOREM DoneOnceIsDone ==
  ASSUME ~RunTwice
  PROVE  DispatchSpec => []DoneStaysDone
<1>1. DispatchInit => DispatchInv
  <2>. SUFFICES ASSUME DispatchInit PROVE DispatchInv
    OBVIOUS
  <2>1. NoJob \in DispatchJob
    BY DEF NoJob, DispatchJob
  <2>. QED BY <2>1 DEF DispatchInit, DispatchInv, DispatchTypes, DoneStaysDone
<1>2. DispatchInv /\ [DispatchNext]_dispatchVars => DispatchInv'
  BY DispatchStep
<1>3. DispatchInv => DoneStaysDone
  BY DEF DispatchInv
<1>. QED BY <1>1, <1>2, <1>3, PTL DEF DispatchSpec

-----------------------------------------------------------------------------
(***************************************************************************)
(* The enqueue gate.                                                       *)
(***************************************************************************)
BoardJob == [operation : Operations, dedupeKey : DedupeKeys \cup {NoKey},
             status : {"queued", "running", "retrying", "succeeded", "dead_lettered"}]

(* Jobs are numbered as they are created; the places after them are vacant. *)
GateInv ==
  /\ board \in [JobIds -> BoardJob \cup {Vacant}]
  /\ created \in 0..MaxJobs
  /\ \A j \in JobIds : j > created => board[j] = Vacant
  /\ capacity \in Nat

(* What the rows of the worker_job table lead from and to. *)
LEMMA JobRules ==
  /\ \A r \in WorkerJob.rules : /\ r[1] \in LiveStatuses
                                /\ r[3] \in {"queued", "running", "retrying", "succeeded", "dead_lettered"}
  /\ WorkerJob.initial = "queued"
  /\ \A s \in {"queued", "retrying"} : Resolve(WorkerJob, s, "dead_letter") = "dead_lettered"
<1>1. \A r \in WorkerJob.rules : /\ r[1] \in LiveStatuses
                                 /\ r[3] \in {"queued", "running", "retrying", "succeeded", "dead_lettered"}
  BY DEF WorkerJob, LiveStatuses
<1>2. ASSUME NEW s \in {"queued", "retrying"} PROVE Resolve(WorkerJob, s, "dead_letter") = "dead_lettered"
  <2>1. PICK r : r = <<s, "dead_letter", "dead_lettered">>
    BY Zenon
  <2>2. r \in WorkerJob.rules /\ r[1] = s /\ r[2] = "dead_letter"
    BY <2>1 DEF WorkerJob
  <2>3. \A q \in WorkerJob.rules : q[2] = "dead_letter" => q[3] = "dead_lettered"
    BY DEF WorkerJob
  <2>4. (CHOOSE q \in WorkerJob.rules : q[1] = s /\ q[2] = "dead_letter") \in
          {q \in WorkerJob.rules : q[1] = s /\ q[2] = "dead_letter"}
    BY <2>2
  <2>. QED BY <2>2, <2>3, <2>4 DEF Resolve, CanTransition
<1>3. WorkerJob.initial = "queued"
  BY DEF WorkerJob
<1>. QED BY <1>1, <1>2, <1>3

LEMMA VacantIsIdle == Vacant.status = "absent" /\ "absent" \notin LiveStatuses
BY DEF Vacant, LiveStatuses

LEMMA LiveIsFinite == /\ IsFiniteSet(LiveJobs) /\ Live \in Nat
                      /\ \A S \in SUBSET LiveJobs : IsFiniteSet(S) /\ Cardinality(S) <= Live
<1>1. IsFiniteSet(JobIds)
  BY BoardConstants, FS_Interval DEF JobIds
<1>2. IsFiniteSet(LiveJobs)
  BY <1>1, FS_Subset DEF LiveJobs
<1>. QED BY <1>2, FS_CardinalityType, FS_Subset DEF Live

LEMMA LiveIsFiniteNext == Live' \in Nat /\ \A S : IsFiniteSet(S) /\ LiveJobs' \subseteq S => Live' <= Cardinality(S)
<1>1. IsFiniteSet(JobIds)
  BY BoardConstants, FS_Interval DEF JobIds
<1>2. LiveJobs' \subseteq JobIds
  BY DEF LiveJobs
<1>3. IsFiniteSet(LiveJobs')
  BY <1>1, <1>2, FS_Subset
<1>. QED BY <1>3, FS_CardinalityType, FS_Subset DEF Live

(* A job is created in a vacant place. *)
LEMMA CreateAdds ==
  ASSUME GateInv, NEW op \in Operations, NEW key \in DedupeKeys \cup {NoKey}, Create(op, key)
  PROVE  /\ board' \in [JobIds -> BoardJob \cup {Vacant}] /\ created' \in 0..MaxJobs
         /\ \A j \in JobIds : j > created' => board'[j] = Vacant
         /\ LiveJobs' \subseteq LiveJobs \cup (IF op \in Gated THEN {created + 1} ELSE {})
<1>1. PICK job : job = Queued(op, key)
  OBVIOUS
<1>2. job \in BoardJob /\ job.operation = op
  BY <1>1, JobRules DEF Queued, BoardJob
<1>3. PICK n \in JobIds : n = created + 1
  BY BoardConstants DEF Create, GateInv, JobIds
<1>4. board' = [board EXCEPT ![n] = job] /\ created' = n
  BY <1>1, <1>3 DEF Create
<1>5. /\ board' \in [JobIds -> BoardJob \cup {Vacant}] /\ board'[n] = job
      /\ \A j \in JobIds \ {n} : board'[j] = board[j]
  BY <1>2, <1>4 DEF GateInv
<1>6. created' \in 0..MaxJobs /\ \A j \in JobIds : j > created' => board'[j] = Vacant
  BY <1>3, <1>4, <1>5, BoardConstants DEF GateInv, JobIds
<1>7. LiveJobs' \subseteq LiveJobs \cup (IF op \in Gated THEN {n} ELSE {})
  BY <1>2, <1>5 DEF LiveJobs, Metered
<1>. QED BY <1>3, <1>5, <1>6, <1>7

(* The board after an eviction, before the new job is looked at. *)
LEMMA VictimLeaves ==
  ASSUME GateInv, NEW victim \in Evictable, NEW after,
         after = [board EXCEPT ![victim].status = Resolve(WorkerJob, @, "dead_letter")]
  PROVE  /\ victim \in LiveJobs /\ victim \in JobIds /\ victim <= created
         /\ after \in [JobIds -> BoardJob \cup {Vacant}]
         /\ after[victim].status = "dead_lettered"
         /\ \A i \in JobIds \ {victim} : after[i] = board[i]
<1>1. victim \in JobIds /\ board[victim].status \in {"queued", "retrying"} /\ Metered(victim)
  BY DEF Evictable, IsPending
<1>2. Resolve(WorkerJob, board[victim].status, "dead_letter") = "dead_lettered"
  BY <1>1, JobRules
<1>3. board[victim].status \in LiveStatuses /\ victim \in LiveJobs
  BY <1>1 DEF LiveStatuses, LiveJobs
<1>4. after = [board EXCEPT ![victim].status = "dead_lettered"]
  BY <1>2, Zenon
<1>5. victim <= created
  BY <1>1, <1>3, VacantIsIdle, BoardConstants DEF GateInv, JobIds
<1>6. /\ after \in [JobIds -> BoardJob \cup {Vacant}] /\ after[victim].status = "dead_lettered"
      /\ \A i \in JobIds \ {victim} : after[i] = board[i]
  <2>1. PICK job \in BoardJob : job = board[victim]
    BY <1>1, <1>3, VacantIsIdle DEF GateInv
  <2>2. PICK next : next = [job EXCEPT !.status = "dead_lettered"]
    BY Zenon
  <2>3. next \in BoardJob /\ next.status = "dead_lettered"
    BY <2>2 DEF BoardJob
  <2>4. after = [board EXCEPT ![victim] = next]
    BY <1>4, <2>1, <2>2, Zenon
  <2>. QED BY <1>1, <2>3, <2>4, Zenon DEF GateInv
<1>. QED BY <1>1, <1>3, <1>5, <1>6

LEMMA EvictKeepsRoom ==
  ASSUME GateInv, NEW op \in Operations, NEW key \in DedupeKeys \cup {NoKey}, Evict(op, key)
  PROVE  GateInv' /\ Live' <= Live
<1>1. PICK victim \in Evictable :
        LET after == [board EXCEPT ![victim].status = Resolve(WorkerJob, @, "dead_letter")]
        IN IF Holders(key) \ {victim} = {}
             THEN board' = [after EXCEPT ![created + 1] = Queued(op, key)] /\ created' = created + 1
             ELSE board' = after /\ created' = created
  BY DEF Evict
<1>2. PICK after : after = [board EXCEPT ![victim].status = Resolve(WorkerJob, @, "dead_letter")]
  BY Zenon
<1>3. /\ victim \in LiveJobs /\ victim \in JobIds /\ victim <= created
      /\ after \in [JobIds -> BoardJob \cup {Vacant}]
      /\ after[victim].status = "dead_lettered" /\ \A i \in JobIds \ {victim} : after[i] = board[i]
  BY <1>2, VictimLeaves, Zenon
<1>4. PICK n \in JobIds : n = created + 1
  BY BoardConstants DEF Evict, GateInv, JobIds
<1>5. PICK job : job = Queued(op, key)
  OBVIOUS
<1>6. job \in BoardJob
  BY <1>5, JobRules DEF Queued, BoardJob
<1>7. \/ board' = [after EXCEPT ![n] = job] /\ created' = n
      \/ board' = after /\ created' = created
  BY <1>1, <1>2, <1>4, <1>5
<1>8. n # victim
  BY <1>3, <1>4 DEF GateInv
<1>9. /\ board' \in [JobIds -> BoardJob \cup {Vacant}] /\ board'[victim].status = "dead_lettered"
      /\ \A i \in JobIds \ {victim, n} : board'[i] = board[i]
      /\ board'[n] = board[n] \/ created' = n
  BY <1>3, <1>6, <1>7, <1>8
<1>10. created' \in 0..MaxJobs /\ \A j \in JobIds : j > created' => board'[j] = Vacant
  BY <1>3, <1>4, <1>7, <1>9, BoardConstants DEF GateInv, JobIds
<1>11. GateInv'
  BY <1>9, <1>10 DEF GateInv, Evict, gateVars
<1>12. LiveJobs' \subseteq (LiveJobs \ {victim}) \cup {n}
  <2>1. victim \notin LiveJobs'
    BY <1>9 DEF LiveJobs, LiveStatuses
  <2>. QED BY <1>9, <2>1 DEF LiveJobs, Metered
<1>13. Live' <= Live
  <2>1. IsFiniteSet(LiveJobs \ {victim}) /\ Cardinality(LiveJobs \ {victim}) = Live - 1
    BY <1>3, LiveIsFinite, FS_RemoveElement DEF Live
  <2>2. IsFiniteSet((LiveJobs \ {victim}) \cup {n}) /\ Cardinality((LiveJobs \ {victim}) \cup {n}) <= Live
    <3>1. /\ IsFiniteSet((LiveJobs \ {victim}) \cup {n})
          /\ \/ Cardinality((LiveJobs \ {victim}) \cup {n}) = Cardinality(LiveJobs \ {victim})
             \/ Cardinality((LiveJobs \ {victim}) \cup {n}) = Cardinality(LiveJobs \ {victim}) + 1
      BY <2>1, FS_AddElement
    <3>. QED BY <2>1, <3>1, LiveIsFinite
  <2>3. Cardinality((LiveJobs \ {victim}) \cup {n}) \in Nat
    BY <2>2, FS_CardinalityType
  <2>. QED BY <1>12, <2>2, <2>3, LiveIsFinite, LiveIsFiniteNext
<1>. QED BY <1>11, <1>13

LEMMA CreateKeepsRoom ==
  ASSUME GateInv, NEW op \in Operations, NEW key \in DedupeKeys \cup {NoKey}, Create(op, key),
         op \in Gated => ~Full, UNCHANGED gateVars
  PROVE  GateInv' /\ (Live' <= Live \/ Live' <= capacity)
<1>1. /\ board' \in [JobIds -> BoardJob \cup {Vacant}] /\ created' \in 0..MaxJobs
      /\ \A j \in JobIds : j > created' => board'[j] = Vacant
      /\ LiveJobs' \subseteq LiveJobs \cup (IF op \in Gated THEN {created + 1} ELSE {})
  BY CreateAdds
<1>2. GateInv'
  BY <1>1 DEF GateInv, gateVars
<1>3. CASE op \notin Gated
  <2>1. LiveJobs' \subseteq LiveJobs
    BY <1>1, <1>3
  <2>. QED BY <1>2, <2>1, LiveIsFinite, LiveIsFiniteNext DEF Live
<1>4. CASE op \in Gated
  <2>1. LiveJobs' \subseteq LiveJobs \cup {created + 1}
    BY <1>1, <1>4
  <2>2. /\ IsFiniteSet(LiveJobs \cup {created + 1})
        /\ \/ Cardinality(LiveJobs \cup {created + 1}) = Live
           \/ Cardinality(LiveJobs \cup {created + 1}) = Live + 1
    BY LiveIsFinite, FS_AddElement DEF Live
  <2>3. Live < capacity
    BY <1>4, LiveIsFinite DEF Full, GateInv
  <2>4. Live' <= Cardinality(LiveJobs \cup {created + 1})
    BY <2>1, <2>2, LiveIsFiniteNext
  <2>5. Live \in Nat /\ Live' \in Nat /\ capacity \in Nat
    BY LiveIsFinite, LiveIsFiniteNext DEF GateInv
  <2>. QED BY <1>2, <2>2, <2>3, <2>4, <2>5
<1>. QED BY <1>2, <1>3, <1>4

LEMMA TakeKeepsRoom ==
  ASSUME GateInv, NEW j \in JobIds, Take(j), UNCHANGED gateVars
  PROVE  GateInv' /\ Live' <= Live
<1>1. PICK r \in WorkerJob.rules : r[1] = board[j].status /\ board' = [board EXCEPT ![j].status = r[3]]
  BY Zenon DEF Take
<1>2. PICK status \in {"queued", "running", "retrying", "succeeded", "dead_lettered"} : status = r[3]
  BY JobRules
<1>3. board[j].status \in LiveStatuses
  BY <1>1, JobRules
<1>4. /\ board' \in [JobIds -> BoardJob \cup {Vacant}] /\ board'[j].operation = board[j].operation
      /\ \A i \in JobIds \ {j} : board'[i] = board[i]
  <2>1. PICK job \in BoardJob : job = board[j]
    BY <1>3, VacantIsIdle DEF GateInv
  <2>2. PICK next : next = [job EXCEPT !.status = status]
    BY Zenon
  <2>3. next \in BoardJob /\ next.operation = job.operation
    BY <2>2 DEF BoardJob
  <2>4. board' = [board EXCEPT ![j] = next]
    BY <1>1, <1>2, <2>1, <2>2
  <2>. QED BY <2>1, <2>3, <2>4 DEF GateInv
<1>5. j <= created
  BY <1>3, VacantIsIdle, BoardConstants DEF GateInv, JobIds
<1>6. GateInv'
  BY <1>4, <1>5, BoardConstants DEF GateInv, gateVars, Take, JobIds
<1>7. LiveJobs' \subseteq LiveJobs
  BY <1>3, <1>4 DEF LiveJobs, Metered
<1>. QED BY <1>6, <1>7, LiveIsFinite, LiveIsFiniteNext DEF Live

LEMMA ClearKeepsRoom ==
  ASSUME GateInv, Clear, capacity' \in Nat
  PROVE  GateInv' /\ Live' <= Live
<1>1. GateInv'
  BY BoardConstants DEF GateInv, Clear
<1>2. LiveJobs' \subseteq LiveJobs
  BY VacantIsIdle DEF LiveJobs, Clear
<1>. QED BY <1>1, <1>2, LiveIsFinite, LiveIsFiniteNext DEF Live

LEMMA BoardStays ==
  ASSUME GateInv, UNCHANGED boardVars, capacity' \in Nat
  PROVE  GateInv' /\ Live' <= Live
<1>1. GateInv'
  BY DEF GateInv, boardVars
<1>2. LiveJobs' \subseteq LiveJobs
  BY DEF LiveJobs, Metered, boardVars
<1>. QED BY <1>1, <1>2, LiveIsFinite, LiveIsFiniteNext DEF Live

LEMMA GateAdvances ==
  ASSUME ~BypassGate, GateInv, GateAdvance
  PROVE  GateInv' /\ (Live' <= Live \/ Live' <= capacity)
<1>0. capacity \in Nat
  BY DEF GateInv
<1>1. ASSUME NEW op \in Operations, NEW key \in DedupeKeys \cup {NoKey}, GateEnqueue(op, key) \/ DirectEnqueue(op, key)
      PROVE  GateInv' /\ (Live' <= Live \/ Live' <= capacity)
  BY <1>1, EvictKeepsRoom, CreateKeepsRoom DEF GateEnqueue, DirectEnqueue, Admit
<1>2. CASE WaitForCapacity
  BY <1>0, <1>2, BoardStays DEF WaitForCapacity
<1>3. ASSUME NEW next \in 0..Ceiling + 1, AdjustCapacity(next) PROVE GateInv' /\ Live' <= Live
  <2>1. capacity' \in Nat
    BY <1>3, BackpressureConstants DEF AdjustCapacity
  <2>. QED BY <1>3, <2>1, BoardStays DEF AdjustCapacity
<1>4. CASE GateReset /\ UNCHANGED boardVars
  BY <1>0, <1>4, BoardStays DEF GateReset
<1>. QED BY <1>1, <1>2, <1>3, <1>4, TakeKeepsRoom DEF GateAdvance

LEMMA GateStep ==
  ASSUME ~BypassGate, GateInv, [GateNext]_allVars
  PROVE  GateInv' /\ (Live' <= Live \/ Live' <= capacity)
<1>0. capacity \in Nat
  BY DEF GateInv
<1>1. CASE Clear /\ GateReset
  BY <1>0, <1>1, ClearKeepsRoom DEF GateReset
<1>2. CASE UNCHANGED allVars
  BY <1>0, <1>2, BoardStays DEF allVars, gateVars
<1>. QED BY <1>1, <1>2, GateAdvances DEF GateNext

(***************************************************************************)
(* However jobs fail, retry, run, settle and are evicted, and wherever the *)
(* ceiling is moved, the live jobs of a gate grow only up to the ceiling   *)
(* of that moment, for any number of jobs, operations and capacities, when *)
(* gated operations are enqueued through the gate (enqueue, countLive,     *)
(* adjustCapacity).                                                        *)
(***************************************************************************)
THEOREM GateIsNeverOverfilled ==
  ASSUME ~BypassGate
  PROVE  GateSpec => NeverOverfilled
<1>1. GateInit => GateInv
  BY BackpressureConstants, BoardConstants DEF GateInit, BoardInit, GateInv
<1>2. GateInv /\ [GateNext]_allVars => GateInv'
  BY GateStep
<1>3. GateInv /\ [GateNext]_allVars => [Live' <= Live \/ Live' <= capacity]_allVars
  BY GateStep
<1>. QED BY <1>1, <1>2, <1>3, PTL DEF GateSpec, NeverOverfilled

-----------------------------------------------------------------------------
(***************************************************************************)
(* The guarded submit.                                                     *)
(***************************************************************************)
Decision == [key : SubmitKeys, request : Submission, ref : JobRef, new : BOOLEAN]

(* The jobs that were created under key k. *)
NewJobs(k) == {d \in decided : d.key = k /\ d.new}

(***************************************************************************)
(* A record of an outcome names a job that was decided for its key and its *)
(* request, and if it is of this page, one of its jobs.                    *)
(***************************************************************************)
RecordHolds(k) ==
  /\ records[k] \in {Free} \cup InFlight \cup Completed
  /\ records[k] \in Completed =>
       /\ records[k].ref.epoch <= epoch
       /\ records[k].ref.epoch = epoch => records[k].ref.job <= created
       /\ \E d \in decided : d.key = k /\ d.request = records[k].request /\ d.ref = records[k].ref

(* What a replay answers with. *)
ReplyHolds ==
  reply.kind = "replayed" =>
    /\ reply.ref.epoch = epoch /\ reply.ref.job <= created
    /\ \E d \in decided : d.key = reply.key /\ d.request = reply.request /\ d.ref = reply.ref

(***************************************************************************)
(* The strengthening: a key without a record has had at most as many jobs  *)
(* as removals, so that claiming it may create one more.                   *)
(***************************************************************************)
SubmitInv ==
  /\ GateInv
  /\ records \in [SubmitKeys -> {Free} \cup InFlight \cup Completed]
  /\ epoch \in 0..MaxEpochs /\ removed \in [SubmitKeys -> Nat]
  /\ decided \subseteq Decision /\ IsFiniteSet(decided)
  /\ \A k \in SubmitKeys :
       /\ RecordHolds(k)
       /\ Cardinality(NewJobs(k)) <= removed[k] + 1
       /\ records[k] = Free => Cardinality(NewJobs(k)) <= removed[k]
  /\ ReplyHolds

LEMMA RecordKinds ==
  /\ Free \notin InFlight /\ Free \notin Completed
  /\ \A r \in InFlight : r \notin Completed /\ r.status = "in_flight"
  /\ \A r \in Completed : r.status = "completed" /\ r.request \in Submission /\ r.ref \in JobRef
  /\ Free.status = "none"
<1>1. Free.status = "none"
  BY DEF Free
<1>2. \A r \in InFlight : r.status = "in_flight"
  BY DEF InFlight
<1>3. \A r \in Completed : r.status = "completed" /\ r.request \in Submission /\ r.ref \in JobRef
  BY DEF Completed
<1>. QED BY <1>1, <1>2, <1>3

LEMMA BoardAdvances ==
  ASSUME GateInv, GateAdvance
  PROVE  GateInv' /\ created' >= created
<1>0. created \in Nat /\ capacity \in Nat
  BY BoardConstants DEF GateInv
<1>1. ASSUME NEW op \in Operations, NEW key \in DedupeKeys \cup {NoKey}, Create(op, key), UNCHANGED gateVars
      PROVE  GateInv' /\ created' >= created
  <2>1. created' >= created
    BY <1>0, <1>1 DEF Create
  <2>2. GateInv'
    BY <1>0, <1>1, CreateAdds DEF GateInv, gateVars
  <2>. QED BY <2>1, <2>2
<1>2. ASSUME NEW op \in Operations, NEW key \in DedupeKeys \cup {NoKey}, GateEnqueue(op, key) \/ DirectEnqueue(op, key)
      PROVE  GateInv' /\ created' >= created
  <2>1. ASSUME Evict(op, key) PROVE created' >= created
    BY <1>0, <2>1 DEF Evict
  <2>. QED BY <1>1, <1>2, <2>1, EvictKeepsRoom DEF GateEnqueue, DirectEnqueue, Admit
<1>3. CASE WaitForCapacity
  <2>1. UNCHANGED boardVars /\ UNCHANGED capacity /\ created' = created
    BY <1>3 DEF WaitForCapacity, boardVars
  <2>. QED BY <1>0, <2>1, BoardStays
<1>4. ASSUME NEW next \in 0..Ceiling + 1, AdjustCapacity(next) PROVE GateInv' /\ created' >= created
  <2>1. capacity' \in Nat /\ UNCHANGED boardVars /\ created' = created
    BY <1>4, BackpressureConstants DEF AdjustCapacity, boardVars
  <2>. QED BY <1>0, <2>1, BoardStays
<1>5. CASE GateReset /\ UNCHANGED boardVars
  <2>1. capacity' \in Nat /\ UNCHANGED boardVars /\ created' = created
    BY <1>0, <1>5 DEF GateReset, boardVars
  <2>. QED BY <1>0, <2>1, BoardStays
<1>6. ASSUME NEW j \in JobIds, Take(j), UNCHANGED gateVars PROVE GateInv' /\ created' >= created
  <2>1. created' = created
    BY <1>6 DEF Take
  <2>. QED BY <1>0, <1>6, <2>1, TakeKeepsRoom
<1>. QED BY <1>2, <1>3, <1>4, <1>5, <1>6 DEF GateAdvance

(* A step that leaves the records: what they name stays named. *)
LEMMA RecordsStay ==
  ASSUME SubmitInv, GateInv', created' >= created, UNCHANGED <<records, epoch, decided, removed>>, ReplyHolds'
  PROVE  SubmitInv'
<1>1. created \in Nat /\ created' \in Nat
  BY BoardConstants DEF SubmitInv, GateInv
<1>2. ASSUME NEW k \in SubmitKeys PROVE RecordHolds(k)'
  <2>1. RecordHolds(k)
    BY DEF SubmitInv
  <2>2. records[k] \in Completed => records[k].ref.job \in Nat
    BY RecordKinds, BoardConstants DEF JobRef, JobIds
  <2>. QED BY <1>1, <2>1, <2>2 DEF RecordHolds
<1>3. \A k \in SubmitKeys : NewJobs(k)' = NewJobs(k)
  BY DEF NewJobs
<1>. QED BY <1>2, <1>3 DEF SubmitInv

(* begin, complete and expiry write the record of one key. *)
LEMMA RecordChanges ==
  ASSUME SubmitInv, GateInv', created' >= created, UNCHANGED epoch, ReplyHolds',
         NEW k \in SubmitKeys, NEW next \in {Free} \cup InFlight \cup Completed,
         records' = [records EXCEPT ![k] = next],
         decided \subseteq decided', decided' \subseteq Decision, IsFiniteSet(decided'),
         removed' \in [SubmitKeys -> Nat], \A j \in SubmitKeys \ {k} : removed'[j] = removed[j] /\ NewJobs(j)' = NewJobs(j),
         RecordHolds(k)', Cardinality(NewJobs(k)') <= removed'[k] + 1,
         next = Free => Cardinality(NewJobs(k)') <= removed'[k]
  PROVE  SubmitInv'
<1>1. created \in Nat /\ created' \in Nat
  BY BoardConstants DEF SubmitInv, GateInv
<1>2. /\ records' \in [SubmitKeys -> {Free} \cup InFlight \cup Completed] /\ records'[k] = next
      /\ \A j \in SubmitKeys \ {k} : records'[j] = records[j]
  BY DEF SubmitInv
<1>3. ASSUME NEW j \in SubmitKeys \ {k} PROVE RecordHolds(j)'
  <2>1. RecordHolds(j)
    BY DEF SubmitInv
  <2>2. records[j] \in Completed => records[j].ref.job \in Nat
    BY RecordKinds, BoardConstants DEF JobRef, JobIds
  <2>3. PICK rec : rec = records[j]
    OBVIOUS
  <2>4. records'[j] = rec /\ rec \in {Free} \cup InFlight \cup Completed
    BY <1>2, <2>1, <2>3, Zenon DEF RecordHolds
  <2>5. SUFFICES ASSUME rec \in Completed
                 PROVE  /\ rec.ref.epoch <= epoch'
                        /\ rec.ref.epoch = epoch' => rec.ref.job <= created'
                        /\ \E d \in decided' : d.key = j /\ d.request = rec.request /\ d.ref = rec.ref
    BY <2>4, ZenonT(40) DEF RecordHolds
  <2>6. /\ rec.ref.epoch <= epoch
        /\ rec.ref.epoch = epoch => rec.ref.job <= created
        /\ \E d \in decided : d.key = j /\ d.request = rec.request /\ d.ref = rec.ref
    BY <2>1, <2>3, <2>5, Zenon DEF RecordHolds
  <2>7. rec.ref.job <= created => rec.ref.job <= created'
    BY <1>1, <2>2, <2>3, <2>5
  <2>. QED BY <2>6, <2>7, ZenonT(40)
<1>4. \A j \in SubmitKeys : RecordHolds(j)'
  BY <1>3
<1>5. \A j \in SubmitKeys : /\ Cardinality(NewJobs(j)') <= removed'[j] + 1
                            /\ records'[j] = Free => Cardinality(NewJobs(j)') <= removed'[j]
  BY <1>2 DEF SubmitInv
<1>. QED BY <1>2, <1>4, <1>5 DEF SubmitInv

LEMMA NewJobsAreFinite == ASSUME SubmitInv, NEW k PROVE IsFiniteSet(NewJobs(k)) /\ Cardinality(NewJobs(k)) \in Nat
<1>1. NewJobs(k) \subseteq decided /\ IsFiniteSet(decided)
  BY DEF NewJobs, SubmitInv
<1>. QED BY <1>1, FS_Subset, FS_CardinalityType

LEMMA ExpiredIsRemoved ==
  ASSUME SubmitInv, NEW k \in SubmitKeys, NEW sub \in Submission, SubmitExpired(k, sub)
  PROVE  SubmitInv'
<1>1. GateInv' /\ created' = created
  BY DEF SubmitExpired, allVars, boardVars, gateVars, SubmitInv, GateInv
<1>2. created \in Nat
  BY BoardConstants DEF SubmitInv, GateInv
<1>3. records' = [records EXCEPT ![k] = Free] /\ UNCHANGED <<epoch, decided>>
  BY DEF SubmitExpired
<1>4. reply'.kind = "refused"
  BY DEF SubmitExpired, Replies
<1>5. removed' \in [SubmitKeys -> Nat] /\ removed'[k] = removed[k] + 1 /\ \A j \in SubmitKeys \ {k} : removed'[j] = removed[j]
  BY DEF SubmitExpired, SubmitInv
<1>6. \A j : NewJobs(j)' = NewJobs(j)
  BY <1>3 DEF NewJobs
<1>7. /\ Cardinality(NewJobs(k)) <= removed[k] + 1 /\ removed[k] \in Nat /\ Cardinality(NewJobs(k)) \in Nat
      /\ decided \subseteq Decision /\ IsFiniteSet(decided)
  BY NewJobsAreFinite DEF SubmitInv
<1>8. records'[k] = Free
  BY <1>3 DEF SubmitInv
<1>9. RecordHolds(k)'
  BY <1>8, RecordKinds DEF RecordHolds
<1>10. /\ Cardinality(NewJobs(k)') <= removed'[k] + 1 /\ Cardinality(NewJobs(k)') <= removed'[k]
  BY <1>5, <1>6, <1>7
<1>11. ReplyHolds'
  BY <1>4 DEF ReplyHolds
<1>12. /\ created' >= created /\ decided \subseteq decided' /\ decided' \subseteq Decision /\ IsFiniteSet(decided')
       /\ \A j \in SubmitKeys \ {k} : removed'[j] = removed[j] /\ NewJobs(j)' = NewJobs(j)
       /\ Free \in {Free} \cup InFlight \cup Completed /\ epoch' = epoch
  BY <1>1, <1>2, <1>3, <1>5, <1>6, <1>7
<1>. QED BY <1>1, <1>3, <1>5, <1>9, <1>10, <1>11, <1>12, RecordChanges, Zenon

LEMMA LifetimePasses ==
  ASSUME SubmitInv, NEW k \in SubmitKeys, RecordExpires(k)
  PROVE  SubmitInv'
<1>1. GateInv' /\ created' = created
  BY DEF RecordExpires, allVars, boardVars, gateVars, SubmitInv, GateInv
<1>2. created \in Nat
  BY BoardConstants DEF SubmitInv, GateInv
<1>3. PICK r \in InFlight \cup Completed : r = records[k]
  BY DEF RecordExpires, SubmitInv
<1>4. PICK next : next = [r EXCEPT !.expired = TRUE]
  BY Zenon
<1>5. records' = [records EXCEPT ![k] = next] /\ UNCHANGED <<epoch, decided, removed>>
  BY <1>3, <1>4 DEF RecordExpires, SubmitInv
<1>6. r \in InFlight => next \in InFlight
  BY <1>4, Zenon DEF InFlight
<1>7. r \in Completed => next \in Completed /\ next.request = r.request /\ next.ref = r.ref
  BY <1>4, Zenon DEF Completed
<1>8. next # Free /\ records'[k] = next
  BY <1>3, <1>5, <1>6, <1>7, RecordKinds DEF SubmitInv
<1>9. RecordHolds(k)'
  <2>1. RecordHolds(k)
    BY DEF SubmitInv
  <2>. QED BY <1>1, <1>3, <1>5, <1>6, <1>7, <1>8, <2>1, RecordKinds, ZenonT(40) DEF RecordHolds
<1>10. ReplyHolds'
  BY DEF RecordExpires, Silence, ReplyHolds
<1>11. \A j : NewJobs(j)' = NewJobs(j)
  BY <1>5 DEF NewJobs
<1>12. /\ Cardinality(NewJobs(k)) <= removed[k] + 1 /\ removed \in [SubmitKeys -> Nat]
       /\ decided \subseteq Decision /\ IsFiniteSet(decided)
  BY DEF SubmitInv
<1>13. /\ created' >= created /\ decided \subseteq decided' /\ decided' \subseteq Decision /\ IsFiniteSet(decided')
       /\ removed' \in [SubmitKeys -> Nat] /\ Cardinality(NewJobs(k)') <= removed'[k] + 1
       /\ \A j \in SubmitKeys \ {k} : removed'[j] = removed[j] /\ NewJobs(j)' = NewJobs(j)
       /\ next \in {Free} \cup InFlight \cup Completed /\ epoch' = epoch
  BY <1>1, <1>2, <1>3, <1>5, <1>6, <1>7, <1>11, <1>12
<1>. QED BY <1>1, <1>5, <1>8, <1>9, <1>10, <1>13, RecordChanges, Zenon

(* A claim of a free key, with job j of this page as its answer. *)
LEMMA ClaimIsRecorded ==
  ASSUME SubmitInv, NEW k \in SubmitKeys, NEW sub \in Submission, records[k] = Free, GateInv', created' >= created,
         NEW j \in JobIds, j <= created', NEW new \in BOOLEAN, RecordOutcome(k, sub, j, new), UNCHANGED <<epoch, removed>>
  PROVE  SubmitInv'
<1>1. PICK d : d = [key |-> k, request |-> sub, ref |-> Here(j), new |-> new]
  BY Zenon
<1>2. Here(j) \in JobRef /\ Here(j).epoch = epoch /\ Here(j).job = j
  BY DEF Here, JobRef, SubmitInv
<1>3. d \in Decision /\ d.key = k /\ d.request = sub /\ d.ref = Here(j) /\ decided' = decided \cup {d}
  BY <1>1, <1>2 DEF Decision, RecordOutcome
<1>4. decided \subseteq decided' /\ decided' \subseteq Decision /\ IsFiniteSet(decided')
  BY <1>3, FS_AddElement DEF SubmitInv
<1>5. \A i \in SubmitKeys \ {k} : removed'[i] = removed[i] /\ NewJobs(i)' = NewJobs(i)
  BY <1>3, Zenon DEF NewJobs
<1>6. removed' \in [SubmitKeys -> Nat] /\ removed' = removed /\ epoch' = epoch
  BY DEF SubmitInv
<1>7. Cardinality(NewJobs(k)') <= removed'[k] + 1
  <2>1. Cardinality(NewJobs(k)) <= removed[k] /\ removed[k] \in Nat
    BY DEF SubmitInv
  <2>2. NewJobs(k)' = NewJobs(k) \/ NewJobs(k)' = NewJobs(k) \cup {d}
    BY <1>3 DEF NewJobs
  <2>3. Cardinality(NewJobs(k) \cup {d}) \in {Cardinality(NewJobs(k)), Cardinality(NewJobs(k)) + 1}
    BY NewJobsAreFinite, FS_AddElement
  <2>. QED BY <1>6, <2>1, <2>2, <2>3, NewJobsAreFinite
<1>8. CASE records' = [records EXCEPT ![k] = Outcome(sub, j)] /\ Replies("created", k, sub, Here(j))
  <2>1. PICK next : next = Outcome(sub, j)
    OBVIOUS
  <2>2. next \in Completed /\ next.request = sub /\ next.ref = Here(j)
    BY <1>2, <2>1 DEF Outcome, Completed
  <2>3. records' = [records EXCEPT ![k] = next] /\ records'[k] = next /\ next # Free
    BY <1>8, <2>1, <2>2, RecordKinds DEF SubmitInv
  <2>4. epoch \in Nat
    BY SubmitConstants DEF SubmitInv
  <2>5. RecordHolds(k)'
    BY <1>2, <1>3, <1>6, <2>2, <2>3, <2>4 DEF RecordHolds
  <2>6. ReplyHolds'
    BY <1>8 DEF Replies, ReplyHolds
  <2>7. next \in {Free} \cup InFlight \cup Completed
    BY <2>2
  <2>. QED BY <1>4, <1>5, <1>6, <1>7, <2>3, <2>5, <2>6, <2>7, RecordChanges, Zenon
<1>9. CASE records' = [records EXCEPT ![k] = Claimed(sub)] /\ reply' = Silence
  <2>1. PICK next : next = Claimed(sub)
    OBVIOUS
  <2>2. next \in InFlight
    BY <2>1 DEF Claimed, InFlight
  <2>3. records' = [records EXCEPT ![k] = next] /\ records'[k] = next /\ next # Free
    BY <1>9, <2>1, <2>2, RecordKinds DEF SubmitInv
  <2>4. RecordHolds(k)'
    BY <2>2, <2>3, RecordKinds DEF RecordHolds
  <2>5. ReplyHolds'
    BY <1>9, Zenon DEF Silence, ReplyHolds
  <2>6. next \in {Free} \cup InFlight \cup Completed
    BY <2>2
  <2>. QED BY <1>4, <1>5, <1>6, <1>7, <2>3, <2>4, <2>5, <2>6, RecordChanges, Zenon
<1>. QED BY <1>8, <1>9 DEF RecordOutcome

LEMMA FreshIsRecorded ==
  ASSUME SubmitInv, NEW k \in SubmitKeys, NEW sub \in Submission, SubmitFresh(k, sub)
  PROVE  SubmitInv'
<1>1. sub.operation \in Operations /\ sub.dedupeKey \in DedupeKeys \cup {NoKey}
  BY DEF Submission
<1>2. GateInv /\ created \in Nat /\ created < MaxJobs /\ created' = created + 1
  BY BoardConstants DEF SubmitInv, GateInv, SubmitFresh, Create
<1>3. GateInv'
  <2>1. Create(sub.operation, sub.dedupeKey) /\ UNCHANGED gateVars
    BY DEF SubmitFresh
  <2>2. /\ board' \in [JobIds -> BoardJob \cup {Vacant}] /\ created' \in 0..MaxJobs
        /\ \A j \in JobIds : j > created' => board'[j] = Vacant
    BY <1>1, <1>2, <2>1, CreateAdds
  <2>. QED BY <1>2, <2>1, <2>2 DEF GateInv, gateVars
<1>4. PICK j \in JobIds : j = created + 1
  BY <1>2, BoardConstants DEF JobIds
<1>5. records[k] = Free /\ RecordOutcome(k, sub, j, TRUE) /\ UNCHANGED <<epoch, removed>>
  BY <1>4, Zenon DEF SubmitFresh, ClaimAndCharge
<1>6. j <= created' /\ created' >= created
  BY <1>2, <1>4
<1>. QED BY <1>3, <1>5, <1>6, ClaimIsRecorded, ZenonT(40)

LEMMA DedupedIsRecorded ==
  ASSUME SubmitInv, NEW k \in SubmitKeys, NEW sub \in Submission, SubmitDeduped(k, sub)
  PROVE  SubmitInv'
<1>1. GateInv' /\ created' = created /\ created \in Nat
  BY BoardConstants DEF SubmitDeduped, allVars, boardVars, gateVars, SubmitInv, GateInv
<1>2. PICK j \in Holders(sub.dedupeKey) : RecordOutcome(k, sub, j, FALSE)
  BY ZenonT(40) DEF SubmitDeduped
<1>3. j \in JobIds /\ j <= created
  <2>1. j \in JobIds /\ board[j] # Vacant
    BY VacantIsIdle DEF Holders, IsPending
  <2>. QED BY <2>1, BoardConstants DEF SubmitInv, GateInv, JobIds
<1>4. records[k] = Free /\ UNCHANGED <<epoch, removed>>
  BY DEF SubmitDeduped, ClaimAndCharge
<1>5. j <= created' /\ created' >= created
  BY <1>1, <1>3
<1>. QED BY <1>1, <1>2, <1>3, <1>4, <1>5, ClaimIsRecorded, Zenon

LEMMA ReplayIsRecorded ==
  ASSUME SubmitInv, NEW k \in SubmitKeys, NEW sub \in Submission, SubmitReplay(k, sub)
  PROVE  SubmitInv'
<1>1. GateInv' /\ created' = created /\ created \in Nat
  <2>1. UNCHANGED allVars
    BY Zenon DEF SubmitReplay
  <2>. QED BY <2>1, BoardConstants DEF allVars, boardVars, gateVars, SubmitInv, GateInv
<1>2. UNCHANGED <<records, epoch, decided, removed>>
  BY DEF SubmitReplay
<1>3. records[k] \in Completed /\ records[k].request = sub /\ RecordHolds(k)
  BY RecordKinds, Zenon DEF SubmitReplay, Replayable, SubmitInv
<1>4. ReplyHolds'
  <2>1. CASE records[k].ref.epoch = epoch /\ Replies("replayed", k, sub, records[k].ref)
    <3>1. reply'.key = k /\ reply'.request = sub /\ reply'.ref = records[k].ref
      BY <2>1 DEF Replies
    <3>. QED BY <1>1, <1>2, <1>3, <2>1, <3>1, ZenonT(40) DEF ReplyHolds, RecordHolds
  <2>2. CASE Replies("refused", k, sub, NoRef)
    BY <2>2 DEF Replies, ReplyHolds
  <2>. QED BY <2>1, <2>2 DEF SubmitReplay
<1>5. created' >= created
  BY <1>1
<1>. QED BY <1>1, <1>2, <1>4, <1>5, RecordsStay

(* A page load or reset(): the jobs of the records are of an earlier page. *)
LEMMA AfreshIsRecorded ==
  ASSUME SubmitInv, StartAfresh, capacity' \in Nat,
         records' \in [SubmitKeys -> {Free} \cup InFlight \cup Completed], removed' \in [SubmitKeys -> Nat],
         \A k \in SubmitKeys :
           \/ records'[k] = records[k] /\ removed'[k] = removed[k]
           \/ /\ records'[k] = Free
              /\ removed'[k] = IF records[k] # Free THEN removed[k] + 1 ELSE removed[k]
  PROVE  SubmitInv'
<1>1. GateInv'
  BY ClearKeepsRoom DEF StartAfresh, SubmitInv
<1>2. epoch \in Nat /\ epoch' = epoch + 1 /\ epoch' \in 0..MaxEpochs /\ decided' = decided
  BY SubmitConstants DEF StartAfresh, SubmitInv
<1>3. \A k : NewJobs(k)' = NewJobs(k)
  BY <1>2, ZenonT(40) DEF NewJobs
<1>4. ASSUME NEW k \in SubmitKeys
      PROVE  /\ RecordHolds(k)' /\ Cardinality(NewJobs(k)') <= removed'[k] + 1
             /\ records'[k] = Free => Cardinality(NewJobs(k)') <= removed'[k]
  <2>1. /\ RecordHolds(k) /\ Cardinality(NewJobs(k)) <= removed[k] + 1 /\ removed[k] \in Nat
        /\ records[k] = Free => Cardinality(NewJobs(k)) <= removed[k]
    BY DEF SubmitInv
  <2>2. Cardinality(NewJobs(k)) \in Nat
    BY NewJobsAreFinite
  <2>3. CASE records'[k] = records[k] /\ removed'[k] = removed[k]
    <3>1. records[k] \in Completed => records[k].ref.epoch \in Nat
      BY RecordKinds, SubmitConstants DEF JobRef
    <3>2. RecordHolds(k)'
      <4>1. PICK rec : rec = records[k]
        OBVIOUS
      <4>2. records'[k] = rec /\ rec \in {Free} \cup InFlight \cup Completed
        BY <2>1, <2>3, <4>1, Zenon DEF RecordHolds
      <4>3. SUFFICES ASSUME rec \in Completed
                     PROVE  /\ rec.ref.epoch <= epoch' /\ rec.ref.epoch # epoch'
                            /\ \E d \in decided' : d.key = k /\ d.request = rec.request /\ d.ref = rec.ref
        BY <4>2, ZenonT(40) DEF RecordHolds
      <4>4. /\ rec.ref.epoch <= epoch
            /\ \E d \in decided : d.key = k /\ d.request = rec.request /\ d.ref = rec.ref
        BY <2>1, <4>1, <4>3, Zenon DEF RecordHolds
      <4>5. rec.ref.epoch <= epoch' /\ rec.ref.epoch # epoch'
        BY <1>2, <3>1, <4>1, <4>3, <4>4
      <4>. QED BY <1>2, <4>4, <4>5, ZenonT(40)
    <3>. QED BY <1>3, <2>1, <2>3, <3>2, ZenonT(40)
  <2>4. CASE /\ records'[k] = Free
             /\ removed'[k] = IF records[k] # Free THEN removed[k] + 1 ELSE removed[k]
    <3>1. RecordHolds(k)'
      BY <2>4, RecordKinds DEF RecordHolds
    <3>2. PICK n \in Nat : n = Cardinality(NewJobs(k)) /\ n = Cardinality(NewJobs(k)')
      BY <1>3, <2>2, Zenon
    <3>3. n <= removed'[k] /\ removed'[k] \in Nat
      BY <2>1, <2>4, <3>2
    <3>4. n <= removed'[k] + 1
      BY <3>3
    <3>. QED BY <3>1, <3>2, <3>3, <3>4, Zenon
  <2>. QED BY <2>3, <2>4, ZenonT(40)
<1>5. ReplyHolds'
  BY DEF StartAfresh, Silence, ReplyHolds
<1>. QED BY <1>1, <1>2, <1>4, <1>5 DEF SubmitInv

LEMMA LoadIsRecorded == ASSUME SubmitInv, PageLoad PROVE SubmitInv'
<1>1. StartAfresh /\ capacity' \in Nat /\ UNCHANGED <<records, removed>>
  BY BackpressureConstants DEF PageLoad
<1>2. records \in [SubmitKeys -> {Free} \cup InFlight \cup Completed] /\ removed \in [SubmitKeys -> Nat]
  BY DEF SubmitInv
<1>. QED BY <1>1, <1>2, AfreshIsRecorded

LEMMA ResetIsRecorded == ASSUME SubmitInv, FrameworkReset PROVE SubmitInv'
<1>1. StartAfresh /\ capacity' \in Nat
  BY DEF FrameworkReset, GateReset, SubmitInv, GateInv
<1>2. /\ records' \in [SubmitKeys -> {Free} \cup InFlight \cup Completed] /\ removed' \in [SubmitKeys -> Nat]
      /\ \A k \in SubmitKeys :
           \/ records'[k] = records[k] /\ removed'[k] = removed[k]
           \/ /\ records'[k] = Free
              /\ removed'[k] = IF records[k] # Free THEN removed[k] + 1 ELSE removed[k]
  BY DEF FrameworkReset, SubmitInv
<1>. QED BY <1>1, <1>2, AfreshIsRecorded

LEMMA SubmitStep == ASSUME SubmitInv, [SubmitNext]_everything PROVE SubmitInv'
<1>0. GateInv /\ created \in Nat
  BY BoardConstants DEF SubmitInv, GateInv
<1>1. ASSUME NEW k \in SubmitKeys, NEW sub \in Submission,
             SubmitGateFull(k, sub) \/ SubmitConflict(k, sub) \/ SubmitOverQuota(k, sub)
      PROVE  SubmitInv'
  <2>1. UNCHANGED <<allVars, records, epoch, decided, removed>> /\ reply'.kind \in {"full", "refused"}
    BY <1>1 DEF SubmitGateFull, SubmitConflict, SubmitOverQuota, Replies
  <2>2. GateInv' /\ created' >= created
    BY <1>0, <2>1 DEF allVars, boardVars, gateVars, GateInv
  <2>3. ReplyHolds'
    BY <2>1 DEF ReplyHolds
  <2>. QED BY <2>1, <2>2, <2>3, RecordsStay
<1>2. ASSUME NEW k \in SubmitKeys, NEW sub \in Submission, SubmitJob(k, sub) PROVE SubmitInv'
  BY <1>1, <1>2, ExpiredIsRemoved, ReplayIsRecorded, FreshIsRecorded, DedupedIsRecorded DEF SubmitJob
<1>3. ASSUME GateAdvance, reply' = Silence, UNCHANGED <<records, known, quota, epoch, decided, removed>> PROVE SubmitInv'
  <2>1. GateInv' /\ created' >= created
    BY <1>0, <1>3, BoardAdvances
  <2>2. ReplyHolds'
    BY <1>3 DEF Silence, ReplyHolds
  <2>. QED BY <1>3, <2>1, <2>2, RecordsStay
<1>4. CASE WindowOpens
  <2>1. UNCHANGED <<allVars, records, epoch, decided, removed>> /\ reply' = Silence
    BY <1>4 DEF WindowOpens
  <2>2. GateInv' /\ created' >= created
    BY <1>0, <2>1 DEF allVars, boardVars, gateVars, GateInv
  <2>3. ReplyHolds'
    BY <2>1 DEF Silence, ReplyHolds
  <2>. QED BY <2>1, <2>2, <2>3, RecordsStay
<1>5. CASE UNCHANGED everything
  <2>1. UNCHANGED <<allVars, records, epoch, decided, removed, reply>>
    BY <1>5 DEF everything, submitVars
  <2>2. GateInv' /\ created' = created
    BY <1>0, <2>1 DEF allVars, boardVars, gateVars, GateInv
  <2>3. created' >= created
    BY <1>0, <2>2
  <2>4. ReplyHolds'
    BY <2>1, <2>2 DEF SubmitInv, ReplyHolds
  <2>. QED BY <2>1, <2>2, <2>3, <2>4, RecordsStay
<1>. QED BY <1>2, <1>3, <1>4, <1>5, LifetimePasses, LoadIsRecorded, ResetIsRecorded DEF SubmitNext

(***************************************************************************)
(* A key creates one job, and one more for each removal of its record, for *)
(* any keys, requests, jobs and page loads, with the gate and the quota in *)
(* between and with lost writes; and a replay names a job of this page     *)
(* that answered the same request under the same key (submit, begin,       *)
(* complete, reset).                                                       *)
(***************************************************************************)
THEOREM SubmitsOnce == SubmitSpec => []OneJobPerKey
<1>1. SubmitInit => SubmitInv
  <2>. SUFFICES ASSUME SubmitInit PROVE SubmitInv
    OBVIOUS
  <2>1. GateInv
    BY BackpressureConstants, BoardConstants DEF SubmitInit, GateInit, BoardInit, GateInv
  <2>2. \A k \in SubmitKeys : NewJobs(k) = {} /\ records[k] = Free
    BY DEF SubmitInit, NewJobs
  <2>3. IsFiniteSet({}) /\ Cardinality({}) = 0
    BY FS_EmptySet
  <2>4. \A k \in SubmitKeys : RecordHolds(k)
    BY <2>2, RecordKinds DEF RecordHolds
  <2>5. ReplyHolds
    BY DEF SubmitInit, Silence, ReplyHolds
  <2>6. epoch \in 0..MaxEpochs
    BY SubmitConstants DEF SubmitInit
  <2>7. \A k \in SubmitKeys : Cardinality(NewJobs(k)) <= removed[k] + 1 /\ Cardinality(NewJobs(k)) <= removed[k]
    BY <2>2, <2>3 DEF SubmitInit
  <2>. QED BY <2>1, <2>3, <2>4, <2>5, <2>6, <2>7 DEF SubmitInit, SubmitInv
<1>2. SubmitInv => OneJobPerKey
  <2>. SUFFICES ASSUME SubmitInv PROVE OneJobPerKey
    OBVIOUS
  <2>1. \A k \in SubmitKeys : Cardinality({d \in decided : d.key = k /\ d.new}) <= 1 + removed[k]
    BY DEF SubmitInv, NewJobs
  <2>. QED BY <2>1, Zenon DEF SubmitInv, ReplyHolds, OneJobPerKey
<1>. QED BY <1>1, <1>2, SubmitStep, PTL DEF SubmitSpec
=============================================================================
