-------------------------------- MODULE Sessions --------------------------------
(***************************************************************************)
(* Sessions shared by several devices (core/sessions/manager.ts).          *)
(*                                                                         *)
(* Every call is one step.  The clock is a number, so two calls can fall   *)
(* in the same millisecond; a sync token is a number that is drawn afresh; *)
(* what is synchronised is a function from keys to values, NoValue where a *)
(* key is missing; sent and conflicts are those of the last sync.  Reads   *)
(* and lists kept for display are left out, and so are the calls an actor  *)
(* may not make, which change nothing.                                     *)
(***************************************************************************)
EXTENDS Naturals, Sequences, SequencesExt, FiniteSets

CONSTANTS
  SessionIds,       \* session ids
  Devices,          \* device ids, each given out once
  Users,
  StateKeys,        \* keys of the synchronised state
  StateValues,      \* their values
  MaxDevices,       \* config.maxDevices
  PrimaryStrategy,  \* "first-active", "most-recent" or "manual"
  ConflictStrategy, \* "last-write-wins", "device-priority" or "manual"
  SyncTies,         \* may two syncs of a session fall in one millisecond?
  StaleAfter,       \* staleThresholdMs
  MaxClock, MaxTokens   \* bounds

ASSUME SessionConstants ==
  /\ {MaxDevices, StaleAfter, MaxClock, MaxTokens} \subseteq Nat /\ MaxDevices > 0
  /\ PrimaryStrategy \in {"first-active", "most-recent", "manual"}
  /\ ConflictStrategy \in {"last-write-wins", "device-priority", "manual"}
  /\ SyncTies \in BOOLEAN

VARIABLES
  clock,
  sessions,      \* sessions[s]
  device,        \* device[d]: is it active, is it revoked, when it was last active
  revokedTokens  \* pairs of a session and a token

sessionVars == <<clock, sessions, device, revokedTokens>>

NoValue == "undefined"
NoSession == [user |-> "none"]
NoDevice == [active |-> FALSE, revoked |-> FALSE, at |-> MaxClock + 1]
States == [StateKeys -> StateValues \cup {NoValue}]
Created(s) == sessions[s] # NoSession
Token(s) == <<s, sessions[s].token>>

-----------------------------------------------------------------------------
Fresh(d) == device[d] = NoDevice
Arrived == [active |-> TRUE, revoked |-> FALSE, at |-> clock]

CreateSession(s, user, d) ==
  /\ ~Created(s) /\ Fresh(d)
  /\ sessions' = [sessions EXCEPT ![s] =
       [user |-> user, devices |-> <<d>>, primary |-> d, token |-> 0, revoked |-> FALSE,
        state |-> [k \in StateKeys |-> NoValue], syncs |-> <<>>, synced |-> 0,
        sent |-> [k \in StateKeys |-> NoValue], conflicts |-> {}]]
  /\ device' = [device EXCEPT ![d] = Arrived]
  /\ UNCHANGED <<clock, revokedTokens>>

(* Array.reduce with > or <: of equal ones it keeps the later. *)
MostRecent(list, of) == FoldLeft(LAMBDA prev, curr : IF of[prev].at > of[curr].at THEN prev ELSE curr, Head(list), Tail(list))
LeastActive(list) == FoldLeft(LAMBDA prev, curr : IF device[prev].at < device[curr].at THEN prev ELSE curr, Head(list), Tail(list))

(* updatePrimaryDevice, with the devices as they are by then. *)
Primary(list, of, current) ==
  LET active == SelectSeq(list, LAMBDA d : of[d].active)
  IN CASE PrimaryStrategy = "first-active" -> IF active = <<>> THEN current ELSE Head(active)
       [] PrimaryStrategy = "most-recent" -> MostRecent(list, of)
       [] PrimaryStrategy = "manual" -> current

Room(list) == IF Len(list) >= MaxDevices THEN SelectSeq(list, LAMBDA d : d # LeastActive(list)) ELSE list

(* Mutant: the primary device is not looked at again. *)
AddSecondary(s, d) ==
  /\ Created(s) /\ Fresh(d)
  /\ device' = [device EXCEPT ![d] = Arrived]
  /\ sessions' = [sessions EXCEPT ![s].devices = Append(Room(@), d)]
  /\ UNCHANGED <<clock, revokedTokens>>

AddDevice(s, d) ==
  /\ Created(s) /\ Fresh(d)
  /\ device' = [device EXCEPT ![d] = Arrived]
  /\ sessions' = [sessions EXCEPT ![s].devices = Append(Room(@), d),
                                  ![s].primary = Primary(Append(Room(sessions[s].devices), d), device', @)]
  /\ UNCHANGED <<clock, revokedTokens>>

(* The syncs of other devices, once there were two.  Only the last one is  *)
(* looked at, so of each device its last sync is kept, and of their number *)
(* whether there were two.                                                 *)
OtherSyncs(s, d) ==
  IF sessions[s].synced < 2 THEN <<>> ELSE SelectSeq(sessions[s].syncs, LAMBDA sync : sync.device # d)

(* detectConflicts: the keys on which the device and that sync disagree. *)
Conflicts(s, d, sent) ==
  IF OtherSyncs(s, d) = <<>> THEN {}
  ELSE LET other == Last(OtherSyncs(s, d)).state
       IN {k \in StateKeys : /\ sent[k] # NoValue /\ other[k] # NoValue
                             /\ other[k] # sent[k] /\ sessions[s].state[k] # other[k]}

(* Mutant: the earlier write wins. *)
ResolvedToEarlier(s, d, sent, k) == Last(OtherSyncs(s, d)).state[k]

(* resolveConflicts *)
Resolved(s, d, sent, k) ==
  LET other == Last(OtherSyncs(s, d))
  IN CASE ConflictStrategy = "last-write-wins" -> IF clock > other.at THEN sent[k] ELSE other.state[k]
       [] ConflictStrategy = "device-priority" -> IF sessions[s].primary = d THEN sent[k] ELSE other.state[k]
       [] ConflictStrategy = "manual" -> "null"

(* Resolutions first, then the changes, calculated before them, to what was sent. *)
Synced(s, d, sent) ==
  [k \in StateKeys |-> IF sent[k] # sessions[s].state[k] THEN sent[k]
                       ELSE IF k \in Conflicts(s, d, sent) THEN Resolved(s, d, sent, k)
                       ELSE sent[k]]

MaySync(s, d) ==
  /\ Created(s) /\ ~sessions[s].revoked /\ Token(s) \notin revokedTokens
  /\ d \in ToSet(sessions[s].devices) /\ device[d].active /\ ~device[d].revoked

SyncState(s, d, sent) ==
  LET state == Synced(s, d, sent)
  IN /\ MaySync(s, d)
     /\ sessions[s].token < MaxTokens
     /\ ~SyncTies => \A sync \in ToSet(sessions[s].syncs) : sync.at < clock
     /\ sessions' = [sessions EXCEPT
          ![s].state = state,
          ![s].conflicts = {[key |-> k, resolution |-> Resolved(s, d, sent, k)] : k \in Conflicts(s, d, sent)},
          ![s].syncs = Append(SelectSeq(@, LAMBDA sync : sync.device # d), [device |-> d, at |-> clock, state |-> state]),
          ![s].synced = IF @ < 2 THEN @ + 1 ELSE @,
          ![s].sent = sent,
          ![s].token = @ + 1]
     /\ device' = [device EXCEPT ![d].at = clock]
     /\ UNCHANGED <<clock, revokedTokens>>

UpdateDeviceStatus(s, d, active) ==
  /\ Created(s) /\ d \in ToSet(sessions[s].devices)
  /\ device' = [device EXCEPT ![d].active = active, ![d].at = clock]
  /\ sessions' = [sessions EXCEPT ![s].primary = IF active THEN Primary(sessions[s].devices, device', @) ELSE @]
  /\ UNCHANGED <<clock, revokedTokens>>

CleanupSession(s) ==
  /\ Created(s)
  /\ device' = [d \in Devices |-> IF d \in ToSet(sessions[s].devices) THEN [device[d] EXCEPT !.active = FALSE] ELSE device[d]]
  /\ UNCHANGED <<clock, sessions, revokedTokens>>

-----------------------------------------------------------------------------
(* These devices, revoked. *)
Cut(ds) == [d \in Devices |-> IF d \in ds THEN [device[d] EXCEPT !.active = FALSE, !.revoked = TRUE] ELSE device[d]]

RevokeSession(s) ==
  /\ Created(s)
  /\ sessions' = [sessions EXCEPT ![s].revoked = TRUE]
  /\ revokedTokens' = revokedTokens \cup {Token(s)}
  /\ device' = Cut(ToSet(sessions[s].devices))
  /\ UNCHANGED clock

(* Mutant: the session keeps the token that was revoked. *)
RevokeDeviceOnly(s, d) ==
  LET left == {e \in ToSet(sessions[s].devices) \ {d} : device[e].active /\ ~device[e].revoked}
  IN /\ Created(s) /\ d \in ToSet(sessions[s].devices) /\ sessions[s].token < MaxTokens
     /\ device' = Cut({d})
     /\ revokedTokens' = revokedTokens \cup {Token(s)}
     /\ sessions' = [sessions EXCEPT ![s].revoked = @ \/ left = {}]
     /\ UNCHANGED clock

(* revokeDevice: a new token, and a new primary device or no session. *)
RevokeDevice(s, d) ==
  LET left == {e \in ToSet(sessions[s].devices) \ {d} : device[e].active /\ ~device[e].revoked}
  IN /\ Created(s) /\ d \in ToSet(sessions[s].devices) /\ sessions[s].token < MaxTokens
     /\ device' = Cut({d})
     /\ revokedTokens' = revokedTokens \cup {Token(s)}
     /\ sessions' = [sessions EXCEPT
          ![s].token = @ + 1,
          ![s].revoked = @ \/ left = {},
          ![s].primary = IF left # {} /\ @ = d THEN Primary(sessions[s].devices, device', @) ELSE @]
     /\ UNCHANGED clock

(* The user's sessions; one that holds the excepted device stays open. *)
RevokeAllUserSessions(user, except) ==
  LET own == {s \in SessionIds : sessions[s].user = user}
      kept == {s \in own : except \in ToSet(sessions[s].devices)}
  IN /\ \A s \in kept : sessions[s].token < MaxTokens
     /\ revokedTokens' = revokedTokens \cup {Token(s) : s \in own}
     /\ device' = Cut(UNION {ToSet(sessions[s].devices) : s \in own} \ {except})
     /\ sessions' = [s \in SessionIds |->
          IF s \in kept THEN [sessions[s] EXCEPT !.token = @ + 1, !.primary = except]
          ELSE IF s \in own THEN [sessions[s] EXCEPT !.revoked = TRUE] ELSE sessions[s]]
     /\ UNCHANGED clock

(* The devices idle for too long, and the sessions with no other device. *)
PruneStaleSessions(owners) ==
  LET seen == {s \in SessionIds : sessions[s].user \in owners}
      of(s) == ToSet(sessions[s].devices)
      idle(d) == clock - device[d].at > StaleAfter
      stale == {d \in UNION {of(s) : s \in seen} : idle(d)}
      ended == {s \in seen : /\ ~sessions[s].revoked
                             /\ \A d \in of(s) : idle(d) \/ device[d].revoked \/ ~device[d].active}
  IN /\ device' = Cut(stale)
     /\ sessions' = [s \in SessionIds |-> IF s \in ended THEN [sessions[s] EXCEPT !.revoked = TRUE] ELSE sessions[s]]
     /\ revokedTokens' = revokedTokens \cup {Token(s) : s \in ended}
     /\ UNCHANGED clock

TimePasses ==
  /\ clock < MaxClock /\ clock' = clock + 1
  /\ UNCHANGED <<sessions, device, revokedTokens>>

SessionInit ==
  /\ clock = 0
  /\ sessions = [s \in SessionIds |-> NoSession]
  /\ device = [d \in Devices |-> NoDevice]
  /\ revokedTokens = {}

SessionNext ==
  \/ \E s \in SessionIds :
       \/ \E d \in Devices : \/ \E user \in Users : CreateSession(s, user, d)
                             \/ AddDevice(s, d) \/ RevokeDevice(s, d)
                             \/ \E sent \in States : SyncState(s, d, sent)
                             \/ \E active \in BOOLEAN : UpdateDeviceStatus(s, d, active)
       \/ CleanupSession(s) \/ RevokeSession(s)
  \/ \E user \in Users, except \in Devices \cup {"none"} : RevokeAllUserSessions(user, except)
  \/ \E owners \in {Users} \cup {{user} : user \in Users} : PruneStaleSessions(owners)
  \/ TimePasses

-----------------------------------------------------------------------------
(***************************************************************************)
(* A session that nobody revoked can be used: its current token is not a   *)
(* revoked one, though every revocation of one of its devices retires the  *)
(* token it has, and its primary device is one of its devices, whichever   *)
(* was dropped to make room for another (addDevice, updatePrimaryDevice,   *)
(* revokeDevice, revokeAllUserSessions, pruneStaleSessions).  And the last *)
(* write wins: after a sync the session holds what the device sent, and    *)
(* every conflict it resolved is resolved to what the session holds        *)
(* (syncState, "Apply resolution to state").                               *)
(***************************************************************************)
LiveTokenWorks ==
  \A s \in SessionIds : Created(s) =>
    /\ ~sessions[s].revoked => Token(s) \notin revokedTokens
    /\ sessions[s].primary \in ToSet(sessions[s].devices)
    /\ sessions[s].state = sessions[s].sent
    /\ \A c \in sessions[s].conflicts : c.resolution = sessions[s].state[c.key]
=============================================================================
