------------------------------- MODULE Rollout -------------------------------
(***************************************************************************)
(* A feature flag, its kill switches and its rollout guards                *)
(* (core/feature-flags): who has the feature, and what turns it off.       *)
(*                                                                         *)
(* One flag; a subject is known by its bucket, which stands for its hash.  *)
(* Error rates are compared by cross-multiplication, in percent.  Reasons, *)
(* times, telemetry and the audit record of a rollback are left out.       *)
(***************************************************************************)
EXTENDS Integers, FiniteSets

CONSTANTS
  Subjects,      \* who may ask
  Bucket,        \* Bucket[s]: computeRolloutBucket
  Configs,       \* rollout configurations
  FlagDefault,   \* the value of the flag in defaults
  Env,           \* UTIX_FLAG_*: "unset", "on" or "off"
  Guards,        \* guard objects
  ConsecutiveLimit, MinSamples, Threshold, \* when a guard, or the breaker, trips
  MaxReports     \* bound on the outcomes that are reported

ASSUME RolloutConstants ==
  /\ Bucket \in [Subjects -> 0..99] /\ FlagDefault \in BOOLEAN /\ Env \in {"unset", "on", "off"}
  /\ {ConsecutiveLimit, MinSamples, Threshold, MaxReports} \subseteq Nat

VARIABLES
  emergency, \* emergencyDisables of the flag
  killAll,   \* globalEmergencyKillSwitch
  config,    \* rolloutConfigs of the flag, or Unconfigured
  breaker,   \* circuitBreakers of the flag
  guards,    \* guards[g]: its counters, whether it tripped, and its last report
  pulled     \* who pulled the flag since it was last cleared (history)

rolloutVars == <<emergency, killAll, config, breaker, guards, pulled>>

Unconfigured == [percentage |-> -1, networks |-> {}, allowlist |-> {}, blocklist |-> {}]
Quiet == [successes |-> 0, failures |-> 0, consecutive |-> 0, tripped |-> FALSE, report |-> "none"]
NoGuard == [Quiet EXCEPT !.report = "not created"]

-----------------------------------------------------------------------------
(* Mutant: subjects on the allow list keep the feature. *)
EnabledForAllowed(subject, network) ==
  \/ subject \in config.allowlist
  \/ /\ ~killAll /\ ~emergency /\ ~breaker.tripped /\ subject \notin config.blocklist
     /\ Env = "on" \/ (Env = "unset" /\ config.percentage # 0)

(* isFeatureEnabled for a subject on a network, either of which may be unknown. *)
IsFeatureEnabled(subject, network) ==
  LET named == subject \in Subjects
  IN /\ ~killAll /\ ~emergency /\ ~breaker.tripped
     /\ ~(named /\ subject \in config.blocklist)
     /\ \/ named /\ subject \in config.allowlist
        \/ Env = "on"
        \/ /\ Env = "unset"
           /\ network \in config.networks \cup {"unknown"} \/ config.networks = {}
           /\ CASE config.percentage \in {0, 100} -> config.percentage = 100
                [] config.percentage \in 1..99 /\ named -> Bucket[subject] < config.percentage
                [] OTHER -> FlagDefault

Reported(c) == c.successes + c.failures
Breached(c) == Reported(c) >= MinSamples /\ c.failures * 100 >= Threshold * Reported(c)

(* recordFeatureSuccess, recordFeatureFailure. *)
RecordFeature(success) ==
  LET next == [breaker EXCEPT !.successes = IF success THEN @ + 1 ELSE @, !.failures = IF success THEN @ ELSE @ + 1]
  IN /\ Reported(breaker) < MaxReports
     /\ breaker' = [next EXCEPT !.tripped = @ \/ (~success /\ Breached(next))]
     /\ pulled' = pulled \cup IF breaker'.tripped THEN {"breaker"} ELSE {}
     /\ UNCHANGED <<emergency, killAll, config, guards>>

ResetCircuitBreaker ==
  /\ breaker # Quiet /\ breaker' = Quiet /\ pulled' = pulled \ {"breaker"}
  /\ UNCHANGED <<emergency, killAll, config, guards>>

ConfigureRollout(c) ==
  /\ c # config /\ config' = c
  /\ UNCHANGED <<emergency, killAll, breaker, guards, pulled>>

TriggerEmergencyDisable ==
  /\ emergency' = TRUE /\ pulled' = pulled \cup {"operator"}
  /\ UNCHANGED <<killAll, config, breaker, guards>>

ClearEmergencyDisable ==
  /\ emergency' = FALSE /\ pulled' = pulled \ ({"operator"} \cup Guards)
  /\ UNCHANGED <<killAll, config, breaker, guards>>

GlobalKillSwitch(on) ==
  /\ killAll' = on /\ pulled' = IF on THEN pulled \cup {"everything"} ELSE pulled \ {"everything"}
  /\ UNCHANGED <<emergency, config, breaker, guards>>

-----------------------------------------------------------------------------
(* The constructor installs the guard's rollout. *)
CreateRolloutGuard(g, c) ==
  /\ guards[g] = NoGuard
  /\ guards' = [guards EXCEPT ![g] = Quiet] /\ config' = c
  /\ UNCHANGED <<emergency, killAll, breaker, pulled>>

(* executeRollback: the flag is pulled, then what it left is checked and mended. *)
ExecuteRollback(g, counters, consistent) ==
  /\ guards' = [guards EXCEPT ![g] =
       [counters EXCEPT !.tripped = TRUE, !.report = IF consistent THEN "consistent" ELSE "inconsistent"]]
  /\ emergency' = TRUE /\ pulled' = pulled \cup {g}

RecordSuccess(g) ==
  /\ guards[g] # NoGuard /\ ~guards[g].tripped /\ Reported(guards[g]) < MaxReports
  /\ guards' = [guards EXCEPT ![g].successes = @ + 1, ![g].consecutive = 0]
  /\ UNCHANGED <<emergency, killAll, config, breaker, pulled>>

RecordFailure(g, consistent) ==
  LET next == [guards[g] EXCEPT !.failures = @ + 1, !.consecutive = @ + 1]
  IN /\ guards[g] # NoGuard /\ ~guards[g].tripped /\ Reported(guards[g]) < MaxReports
     /\ IF next.consecutive >= ConsecutiveLimit \/ Breached(next)
          THEN ExecuteRollback(g, next, consistent)
          ELSE guards' = [guards EXCEPT ![g] = next] /\ UNCHANGED <<emergency, pulled>>
     /\ UNCHANGED <<killAll, config, breaker>>

ManualRollback(g, consistent) ==
  /\ guards[g] # NoGuard
  /\ ExecuteRollback(g, guards[g], consistent)
  /\ UNCHANGED <<killAll, config, breaker>>

RolloutInit ==
  /\ emergency = FALSE /\ killAll = FALSE /\ config = Unconfigured /\ breaker = Quiet
  /\ guards = [g \in Guards |-> NoGuard] /\ pulled = {}

RolloutNext ==
  \/ ResetCircuitBreaker \/ TriggerEmergencyDisable \/ ClearEmergencyDisable
  \/ \E b \in BOOLEAN : GlobalKillSwitch(b) \/ RecordFeature(b)
  \/ \E c \in Configs : ConfigureRollout(c) \/ \E g \in Guards : CreateRolloutGuard(g, c)
  \/ \E g \in Guards : RecordSuccess(g) \/ \E b \in BOOLEAN : RecordFailure(g, b) \/ ManualRollback(g, b)

RolloutSpec == RolloutInit /\ [][RolloutNext]_rolloutVars

-----------------------------------------------------------------------------
(***************************************************************************)
(* Whoever pulled the flag, a guard, the breaker or an operator, and       *)
(* whatever is configured, created or reported afterwards, nobody has the  *)
(* feature until that is cleared (isFeatureEnabled, executeRollback).      *)
(***************************************************************************)
PulledStaysOff ==
  pulled # {} => \A s \in Subjects \cup {"unknown"}, n \in {"testnet", "mainnet", "unknown"} : ~IsFeatureEnabled(s, n)
=============================================================================
