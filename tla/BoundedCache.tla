---------------------------- MODULE BoundedCache ----------------------------
(***************************************************************************)
(* The bounded cache with shared loads (core/cache/bounded-cache.ts).      *)
(*                                                                         *)
(* Values are versions of the record they were read from, and a load reads *)
(* the current version once, some time between its start and its end.      *)
(* Ages are one step, in which an entry outlives its TTL.  Hit and miss    *)
(* counts, and clear's permission check, are left out.                     *)
(***************************************************************************)
EXTENDS Naturals, Sequences, Functions

CONSTANTS
  CacheKeys,        \* keys
  MaxEntries,       \* maxEntries
  Loads,            \* loads that getOrLoad starts
  MaxSourceVersion  \* bound: how often a record changes

ASSUME CacheConstants ==
  MaxEntries \in Nat \ {0} /\ MaxSourceVersion \in Nat /\ "no load" \notin Loads

VARIABLES
  entries,    \* entries[k]: the stored entry
  recency,    \* the keys of entries in the Map's order, least recently used first
  inflight,   \* inflight[k]: the load registered for k
  loads,      \* loads[l]: key, what it has read, and its write's ledgerSequence
  source,     \* source[k]: the current version of the record behind k
  floor       \* floor[k]: the version at the last invalidation of k

cacheVars == <<entries, recency, inflight, loads, source, floor>>

NoEntry == [value |-> 0, sequence |-> 0, expired |-> FALSE, loaded |-> FALSE]
NoLoad == "no load"
NotLoading == [pc |-> "idle", key |-> "none", value |-> 0, sequence |-> 0]

-----------------------------------------------------------------------------
Without(order, k) == SelectSeq(order, LAMBDA j : j # k)

Evicted(order) == IF Len(order) > MaxEntries THEN Tail(order) ELSE order

(* set refuses to replace a live entry by one of an older ledger. *)
MayWrite(k, sequence) ==
  entries[k] # NoEntry /\ ~entries[k].expired /\ entries[k].sequence # 0 /\ sequence # 0
    => sequence >= entries[k].sequence

(* set, with the eviction of the least recently used key. *)
Stored(k, value, sequence, loaded) ==
  LET order == Append(Without(recency, k), k)
      kept == Evicted(order)
  IN /\ recency' = kept
     /\ entries' = [j \in CacheKeys |->
          IF j \notin Range(kept) THEN NoEntry
          ELSE IF j = k THEN [value |-> value, sequence |-> sequence, expired |-> FALSE, loaded |-> loaded]
          ELSE entries[j]]

CacheSet(k, value, sequence) ==
  /\ MayWrite(k, sequence)
  /\ Stored(k, value, sequence, FALSE)
  /\ UNCHANGED <<inflight, loads, source, floor>>

(* get: a hit moves the key to the end, an expired entry is dropped. *)
CacheHit(k) ==
  /\ entries[k] # NoEntry /\ ~entries[k].expired
  /\ recency' = Append(Without(recency, k), k)
  /\ UNCHANGED <<entries, inflight, loads, source, floor>>

Dropped(keys) ==
  /\ entries' = [k \in CacheKeys |-> IF k \in keys THEN NoEntry ELSE entries[k]]
  /\ recency' = SelectSeq(recency, LAMBDA k : k \notin keys)

CacheExpired(k) ==
  /\ entries[k].expired
  /\ Dropped({k})
  /\ UNCHANGED <<inflight, loads, source, floor>>

(* getOrLoad on a miss: it joins the registered load, or registers its own. *)
LoadStarts(k, l, sequence) ==
  /\ entries[k] = NoEntry \/ entries[k].expired
  /\ inflight[k] = NoLoad /\ loads[l] = NotLoading
  /\ Dropped({k})
  /\ loads' = [loads EXCEPT ![l] = [pc |-> "loading", key |-> k, value |-> 0, sequence |-> sequence]]
  /\ inflight' = [inflight EXCEPT ![k] = l]
  /\ UNCHANGED <<source, floor>>

(* The loader reads the record. *)
LoadReads(l) ==
  /\ loads[l].pc = "loading"
  /\ loads' = [loads EXCEPT ![l] = [@ EXCEPT !.pc = "read", !.value = source[loads[l].key]]]
  /\ UNCHANGED <<entries, recency, inflight, source, floor>>

(* Mutant: a load stores its value although it is no longer registered. *)
StillWanted(l) == TRUE

Registered(l) == inflight[loads[l].key] = l

(* Mutant: only a load that succeeds is unregistered. *)
UnregisteredIfLanded(l) ==
  IF loads[l].pc = "read" /\ Registered(l) THEN [inflight EXCEPT ![loads[l].key] = NoLoad] ELSE inflight

(* finally: a load unregisters itself, and nobody else. *)
Unregistered(l) == IF Registered(l) THEN [inflight EXCEPT ![loads[l].key] = NoLoad] ELSE inflight

(* The load succeeds: stored while it is the registered load of its key. *)
LoadLands(l) ==
  LET k == loads[l].key
  IN /\ loads[l].pc = "read"
     /\ IF Registered(l) /\ MayWrite(k, loads[l].sequence)
        THEN Stored(k, loads[l].value, loads[l].sequence, TRUE)
        ELSE UNCHANGED <<entries, recency>>
     /\ inflight' = Unregistered(l)
     /\ loads' = [loads EXCEPT ![l] = NotLoading]
     /\ UNCHANGED <<source, floor>>

(* The load fails or throws: nothing is stored. *)
LoadFails(l) ==
  /\ loads[l].pc = "loading"
  /\ inflight' = Unregistered(l)
  /\ loads' = [loads EXCEPT ![l] = NotLoading]
  /\ UNCHANGED <<entries, recency, source, floor>>

-----------------------------------------------------------------------------
(* invalidate (one key) and clear (every key): loads in flight are detached. *)
Invalidate(keys) ==
  /\ Dropped(keys)
  /\ inflight' = [k \in CacheKeys |-> IF k \in keys THEN NoLoad ELSE inflight[k]]
  /\ floor' = [k \in CacheKeys |-> IF k \in keys THEN source[k] ELSE floor[k]]
  /\ UNCHANGED <<loads, source>>

(* invalidateWhere: only keys that have an entry can be selected. *)
InvalidateWhere(keys) ==
  LET selected == {k \in keys : entries[k] # NoEntry}
  IN selected # {} /\ Invalidate(selected)

(* The environment: a record changes, an entry outlives its TTL. *)
SourceChanges(k) ==
  /\ source[k] < MaxSourceVersion
  /\ source' = [source EXCEPT ![k] = @ + 1]
  /\ UNCHANGED <<entries, recency, inflight, loads, floor>>

EntryAges(k) ==
  /\ entries[k] # NoEntry /\ ~entries[k].expired
  /\ entries' = [entries EXCEPT ![k].expired = TRUE]
  /\ UNCHANGED <<recency, inflight, loads, source, floor>>

CacheInit ==
  /\ entries = [k \in CacheKeys |-> NoEntry]
  /\ recency = <<>>
  /\ inflight = [k \in CacheKeys |-> NoLoad]
  /\ loads = [l \in Loads |-> NotLoading]
  /\ source = [k \in CacheKeys |-> 1]
  /\ floor = [k \in CacheKeys |-> 1]

CacheNext ==
  \/ \E k \in CacheKeys :
       \/ \E v \in 1..source[k] : \E s \in {0, v} : CacheSet(k, v, s)
       \/ CacheHit(k) \/ CacheExpired(k) \/ SourceChanges(k) \/ EntryAges(k) \/ Invalidate({k})
       \/ \E l \in Loads, s \in {0, source[k]} : LoadStarts(k, l, s)
  \/ Invalidate(CacheKeys)
  \/ \E keys \in SUBSET CacheKeys : InvalidateWhere(keys)
  \/ \E l \in Loads : LoadReads(l) \/ LoadLands(l) \/ LoadFails(l)

CacheSpec == CacheInit /\ [][CacheNext]_cacheVars

-----------------------------------------------------------------------------
(***************************************************************************)
(* Nobody is served what was invalidated: a value stored by a load is as   *)
(* recent as the record was at the last invalidation of its key, even when *)
(* a newer load of the key has meanwhile begun, and the load that others   *)
(* join still runs, so that none answers the key for ever (getOrLoad and   *)
(* its finally; "A load that was invalidated while in flight returns its   *)
(* value but does not store it").                                          *)
(***************************************************************************)
FreshAfterInvalidate ==
  \A k \in CacheKeys :
    /\ entries[k].loaded => entries[k].value >= floor[k]
    /\ inflight[k] # NoLoad => loads[inflight[k]].key = k

=============================================================================
