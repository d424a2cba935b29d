---------------------------- MODULE DuplicateReview ----------------------------
(***************************************************************************)
(* Review of candidate duplicates                                          *)
(* (features/duplicate-transaction-scanner/lib/review.ts and               *)
(* hooks/useDuplicateScanner.ts): scans, decisions, and the list of groups *)
(* that tabs share through localStorage.                                   *)
(*                                                                         *)
(* A list of groups is a function from group ids to states.  A scan is the *)
(* submission and, after its await, the landing; its input is well formed, *)
(* as a malformed one only changes what the page says.                     *)
(***************************************************************************)
EXTENDS Naturals, FiniteSets

CONSTANTS
  Groups,      \* candidate groups
  Tabs,        \* open pages
  SaveRefused  \* may localStorage refuse a write?

ASSUME ReviewConstants == SaveRefused \in BOOLEAN

VARIABLES
  storedGroups,  \* the groups in localStorage
  view,          \* view[t]: the groups tab t holds
  scanning       \* scanning[t]: the scans tab t awaits, at most two

reviewVars == <<storedGroups, view, scanning>>

NoGroups == [g \in Groups |-> "absent"]

-----------------------------------------------------------------------------
(* VALID_TRANSITIONS *)
ReviewedBy(state, action) ==
  IF state \notin {"pending", "deferred"} THEN "invalid"
  ELSE CASE action = "confirm" -> "confirmed" [] action = "dismiss" -> "dismissed" [] action = "defer" -> "deferred"

(* Mutant: what a scan finds is pending. *)
MergedAfresh(found, stored) == [g \in Groups |-> IF g \in found THEN "pending" ELSE stored[g]]

(* mergeIntoStore *)
MergeIntoStore(found, stored) == [g \in Groups |-> IF stored[g] = "absent" /\ g \in found THEN "pending" ELSE stored[g]]

(* saveGroups: a refused write goes unnoticed. *)
SaveGroups(groups, kept) == storedGroups' = IF kept THEN groups ELSE storedGroups

-----------------------------------------------------------------------------
Scan(t) ==
  /\ scanning[t] < 2
  /\ scanning' = [scanning EXCEPT ![t] = @ + 1]
  /\ UNCHANGED <<storedGroups, view>>

ScanFails(t) ==
  /\ scanning[t] > 0
  /\ scanning' = [scanning EXCEPT ![t] = @ - 1]
  /\ UNCHANGED <<storedGroups, view>>

(* Mutant: the scan is merged with what the page holds. *)
ScanLandsOnView(t, found, kept) ==
  /\ scanning[t] > 0
  /\ scanning' = [scanning EXCEPT ![t] = @ - 1]
  /\ view' = [view EXCEPT ![t] = MergeIntoStore(found, @)]
  /\ SaveGroups(view'[t], kept)

(* scan after its await: the list is loaded, merged and saved again. *)
ScanLands(t, found, kept) ==
  /\ scanning[t] > 0
  /\ scanning' = [scanning EXCEPT ![t] = @ - 1]
  /\ view' = [view EXCEPT ![t] = MergeIntoStore(found, storedGroups)]
  /\ SaveGroups(view'[t], kept)

(* review: the tab's own list, with the decision, replaces the saved one. *)
Review(t, g, action, kept) ==
  /\ ReviewedBy(view[t][g], action) # "invalid"
  /\ view' = [view EXCEPT ![t][g] = ReviewedBy(@, action)]
  /\ SaveGroups(view'[t], kept)
  /\ UNCHANGED scanning

ResetScanner(t) ==
  /\ view' = [view EXCEPT ![t] = NoGroups]
  /\ UNCHANGED <<storedGroups, scanning>>

(* The page is loaded again: what was saved is shown, scans are gone. *)
PageReloads(t) ==
  /\ view' = [view EXCEPT ![t] = storedGroups]
  /\ scanning' = [scanning EXCEPT ![t] = 0]
  /\ UNCHANGED storedGroups

ReviewInit ==
  /\ storedGroups = NoGroups
  /\ view = [t \in Tabs |-> NoGroups]
  /\ scanning = [t \in Tabs |-> 0]

ReviewNext ==
  \E t \in Tabs :
    \/ Scan(t) \/ ScanFails(t) \/ ResetScanner(t) \/ PageReloads(t)
    \/ \E kept \in {TRUE, ~SaveRefused} :
         \/ \E found \in SUBSET Groups : ScanLands(t, found, kept)
         \/ \E g \in Groups, action \in {"confirm", "dismiss", "defer"} : Review(t, g, action, kept)

ReviewSpec == ReviewInit /\ [][ReviewNext]_reviewVars

-----------------------------------------------------------------------------
(***************************************************************************)
(* With one tab, a decision is not lost: a group that was confirmed or     *)
(* dismissed keeps that state in storage, and a group once saved stays     *)
(* saved, through scans in flight, resets and reloads ("a group already    *)
(* confirmed or dismissed is never overwritten").                          *)
(***************************************************************************)
DecisionsStand ==
  [][\A g \in Groups :
       /\ storedGroups[g] \in {"confirmed", "dismissed"} => storedGroups'[g] = storedGroups[g]
       /\ storedGroups[g] # "absent" => storedGroups'[g] # "absent"]_reviewVars

=============================================================================
