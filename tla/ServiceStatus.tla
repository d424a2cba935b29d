--------------------------- MODULE ServiceStatus ---------------------------
(***************************************************************************)
(* The operator's service mode and the public status feed (core/status).   *)
(* A mode is set with a window, is audited before it is stored, and ends   *)
(* with its window whether or not the expiry job has run.  The feed and    *)
(* the notice are computed from trusted state at the moment of a request.  *)
(*                                                                         *)
(* A message is "safe" or "unsafe" text, or none; an instant is a number.  *)
(* Names, ids, ordering of lists, telemetry and HTTP headers are left out. *)
(***************************************************************************)
EXTENDS Integers, FiniteSets

CONSTANTS
  Published,   \* components with visibility "public"
  Internal,    \* and with visibility "internal"
  LastInstant, \* the clock stops here
  HistoryMs    \* how long resolved incidents and ended windows are kept

ASSUME StatusConstants ==
  /\ Published \cap Internal = {} /\ LastInstant \in Nat /\ HistoryMs \in Nat

VARIABLES
  clock,       \* Date.now()
  service,     \* the stored mode
  trail,       \* the mode the audit trail last accepted
  health,      \* health[c]: the status of each component
  incident,    \* one incident, or NoIncident
  maintenance  \* one maintenance window, or NoMaintenance

statusVars == <<clock, service, trail, health, incident, maintenance>>

Never == -1
Instants == 0..LastInstant
Modes == {"degraded", "paused", "maintenance"}
NormalService == [mode |-> "normal", message |-> "none", since |-> Never, until |-> Never]
NoIncident == [status |-> "none", impact |-> "minor", public |-> TRUE, resolvedAt |-> Never]
NoMaintenance == [startsAt |-> 0, endsAt |-> 0, public |-> FALSE, cancelled |-> TRUE, components |-> {}]

(* OVERALL_STATUSES, from the best to the worst, with COMPONENT_RANK and IMPACT_RANK. *)
OverallRank == [operational |-> 0, degraded |-> 1, under_maintenance |-> 2, partial_outage |-> 3, major_outage |-> 4]
ImpactRank == [minor |-> 1, major |-> 3, critical |-> 4]
Floor == [degraded |-> "degraded", maintenance |-> "under_maintenance", paused |-> "major_outage"]

WorseComponentStatus(current, floor) == IF OverallRank[floor] > OverallRank[current] THEN floor ELSE current

-----------------------------------------------------------------------------
(* Mutant: a mode lasts until the expiry job has run. *)
EffectiveUntilExpired(state) ==
  IF state.since # Never /\ clock < state.since THEN NormalService ELSE state

EffectiveServiceMode(state) ==
  IF \/ state.since # Never /\ clock < state.since
     \/ state.until # Never /\ clock >= state.until
    THEN NormalService ELSE state

ToPublicServiceNotice(state) ==
  LET e == EffectiveServiceMode(state)
  IN IF e.mode = "normal" THEN NormalService ELSE e

ApplyServiceMode(components, state) ==
  LET e == EffectiveServiceMode(state)
  IN [c \in DOMAIN components |-> IF e.mode # "normal" /\ c \in Published
                                    THEN WorseComponentStatus(components[c], Floor[e.mode]) ELSE components[c]]

(* maintenanceStateAt. *)
MaintenanceState(window) ==
  CASE clock < window.startsAt -> "scheduled"
    [] clock \in window.startsAt..window.endsAt - 1 -> "in_progress"
    [] OTHER -> "completed"

MaxRank(ranks) == CHOOSE r \in ranks \cup {0} : \A s \in ranks : s <= r

(* The windows that are told, and the one that is in progress. *)
Announced == maintenance.public /\ ~maintenance.cancelled
Underway == Announced /\ MaintenanceState(maintenance) = "in_progress"

(* The public components, as the window in progress has them. *)
Listed(components) ==
  [c \in Published |-> IF Underway /\ c \in maintenance.components THEN "under_maintenance" ELSE components[c]]

BuildPublicStatusFeed(components) ==
  LET listed == Listed(components)
      reported == /\ incident.status # "none" /\ incident.public
                  /\ incident.status = "resolved" => clock - incident.resolvedAt <= HistoryMs
  IN [status |-> MaxRank({OverallRank[listed[c]] : c \in Published}
                         \cup (IF reported /\ incident.status # "resolved" THEN {ImpactRank[incident.impact]} ELSE {})
                         \cup (IF Underway THEN {OverallRank["under_maintenance"]} ELSE {})),
      components |-> listed,
      incidents |-> IF reported THEN {incident.status} ELSE {},
      windows |-> IF Announced /\ (MaintenanceState(maintenance) = "completed" => clock - maintenance.endsAt <= HistoryMs)
                    THEN {[state |-> MaintenanceState(maintenance), components |-> maintenance.components \cap Published]}
                    ELSE {}]

-----------------------------------------------------------------------------
(* A setting that is there but cannot be read is dropped, never the mode with it. *)
ServiceModeFromEnv(settings) ==
  LET since == IF settings.since \in Instants THEN settings.since ELSE Never
      until == IF settings.until \in Instants THEN settings.until ELSE Never
  IN IF settings.mode \in {"", "normal"} THEN NormalService
     ELSE [mode |-> IF settings.mode \in Modes THEN settings.mode ELSE "degraded",
           message |-> IF settings.message = "safe" THEN "safe" ELSE "none",
           since |-> since,
           until |-> IF since # Never /\ until # Never /\ until <= since THEN Never ELSE until]

(* validatePublicServiceNotice, and the response's HTTP status. *)
BuildStatusResponse(env) ==
  LET state == ServiceModeFromEnv(env)
      notice == ToPublicServiceNotice(state)
  IN [status |-> IF notice.message \in {"none", "safe"} THEN 200 ELSE 503,
      notice |-> notice, feed |-> BuildPublicStatusFeed(ApplyServiceMode(health, state))]

(* parseServiceModeChange accepts this state; anything else is refused, and audited as denied. *)
Accepts(next) ==
  \/ next = NormalService
  \/ /\ next.mode \in Modes /\ next.message = "safe"
     /\ next.until # Never => next.until > next.since /\ next.until > clock

(* Mutant: the mode is stored whether or not the trail took the event. *)
ChangeUnaudited(next, audited) ==
  /\ Accepts(next) /\ next # service
  /\ trail' = IF audited THEN next ELSE trail
  /\ service' = next
  /\ UNCHANGED <<clock, health, incident, maintenance>>

(* change, by a maintainer or the system: audited first, stored only if the trail took it. *)
ChangeMode(next, audited) ==
  /\ Accepts(next) /\ next # service
  /\ audited
  /\ trail' = next /\ service' = next
  /\ UNCHANGED <<clock, health, incident, maintenance>>

(* expire, run by the worker's job. *)
ExpireMode(audited) ==
  /\ service.mode # "normal" /\ service.until # Never /\ clock >= service.until
  /\ audited
  /\ trail' = NormalService /\ service' = NormalService
  /\ UNCHANGED <<clock, health, incident, maintenance>>

(* componentFromHealthIndicator, for a component that is probed. *)
Probed(c, status) ==
  /\ status # health[c] /\ health' = [health EXCEPT ![c] = status]
  /\ UNCHANGED <<clock, service, trail, incident, maintenance>>

ReportIncident(impact, public) ==
  /\ incident.status = "none"
  /\ incident' = [status |-> "investigating", impact |-> impact, public |-> public, resolvedAt |-> Never]
  /\ UNCHANGED <<clock, service, trail, health, maintenance>>

ResolveIncident ==
  /\ incident.status = "investigating"
  /\ incident' = [incident EXCEPT !.status = "resolved", !.resolvedAt = clock]
  /\ UNCHANGED <<clock, service, trail, health, maintenance>>

Tick ==
  /\ clock < LastInstant /\ clock' = clock + 1
  /\ UNCHANGED <<service, trail, health, incident, maintenance>>

(* The UTIX_SERVICE_* settings of a deployment. *)
Settings == [mode : {"", "paused", "bogus"}, message : {"none", "safe", "unsafe"},
             since : {Never, 1}, until : {Never, 1, 2}]

ModeStates == {NormalService} \cup
  [mode : Modes, message : {"safe"}, since : Instants, until : {Never} \cup Instants]

StatusInit ==
  /\ clock = 0 /\ service = NormalService /\ trail = NormalService
  /\ health = [c \in Published \cup Internal |-> "operational"]
  /\ incident = NoIncident
  /\ maintenance \in {NoMaintenance} \cup
       [startsAt : {1}, endsAt : {2}, public : BOOLEAN, cancelled : {FALSE}, components : {Published \cup Internal, {}}]

StatusNext ==
  \/ \E next \in ModeStates, audited \in BOOLEAN : ChangeMode(next, audited)
  \/ \E audited \in BOOLEAN : ExpireMode(audited)
  \/ \E c \in Published \cup Internal, status \in {"operational", "major_outage"} : Probed(c, status)
  \/ \E impact \in DOMAIN ImpactRank, public \in BOOLEAN : ReportIncident(impact, public)
  \/ ResolveIncident \/ Tick

StatusSpec == StatusInit /\ [][StatusNext]_statusVars

-----------------------------------------------------------------------------
Notice == ToPublicServiceNotice(service)
Feed == BuildPublicStatusFeed(ApplyServiceMode(health, service))

(* A deployment's settings: the page is served, and a mode that is set is told while it lasts. *)
Serves(env) ==
  /\ BuildStatusResponse(env).status = 200
  /\ (env.mode # "" /\ clock >= env.since /\ (env.until = Never \/ clock < env.until))
       => BuildStatusResponse(env).notice.mode # "normal"

(***************************************************************************)
(* What the public is told follows from the clock and from what was        *)
(* audited: the stored mode is the one the trail accepted last, the job    *)
(* that expires it changes nothing that is told, nothing internal moves    *)
(* the feed, and a published component outside a running maintenance       *)
(* window is never shown better than the mode in force says                *)
(* (service-mode.ts: "Outside that window the effective mode is `normal`,  *)
(* from the clock alone", "If the trail rejects the event, the mode does   *)
(* not change").  Whatever the settings of a deployment hold, the status   *)
(* page is served (serviceModeFromEnv, buildStatusResponse).               *)
(***************************************************************************)
StatusIsTold ==
  [][statusVars' # statusVars =>
       /\ service' = trail'
       /\ (service' = NormalService /\ service.until # Never /\ clock >= service.until)
            => Notice' = Notice /\ Feed' = Feed
       /\ (\A c \in Published : health'[c] = health[c]) /\ health' # health => Feed' = Feed
       /\ \A c \in Published : Feed'.components[c] = "under_maintenance" \/ Notice'.mode = "normal"
            \/ OverallRank[Feed'.components[c]] >= OverallRank[Floor[Notice'.mode]]
       /\ clock' # clock => \A env \in Settings : Serves(env)']_statusVars
=============================================================================
