--------------------------- MODULE OperationBrowser ---------------------------
(***************************************************************************)
(* The operation history browser: its hook                                 *)
(* (features/operation-browser/hooks/useOperationBrowser.ts), the paging   *)
(* beneath it (lib/operationBrowser.ts) and the buttons its panel offers   *)
(* (components/OperationBrowserResult.tsx).                                *)
(*                                                                         *)
(* An account's history is a number of pages; of the notifications only    *)
(* failures and recoveries are kept, as sets, since the store drops        *)
(* duplicates.  A step runs from one await to the next.                    *)
(***************************************************************************)
EXTENDS Naturals, FiniteSets

CONSTANTS
  Accounts,
  HistoryPages,  \* pages of 20 or fewer operations that an account has
  LastPageFull,  \* does the last page hold exactly 20?
  Filters,       \* type filters besides "all"
  BrowserCalls   \* requests in flight at one time

ASSUME BrowserConstants == 
  HistoryPages \in Nat /\ LastPageFull \in BOOLEAN /\ "none" \notin Accounts

VARIABLES
  held,       \* the state the hook holds
  lastAsked,  \* lastSubmittedAccount
  lastFailed, \* lastFailedAccount
  requests,   \* requests[c]: a request in flight, and whether its page is still mounted
  chosen,     \* the type filter the user last chose for the result on screen
  notices     \* the failures and recoveries published

browserVars == <<held, lastAsked, lastFailed, requests, chosen, notices>>

NoAccount == "none"
NoRequest == [kind |-> "none"]
NothingHeld == [status |-> "idle"]
Pending(c) == requests[c] # NoRequest
Live(c) == Pending(c) /\ requests[c].mounted

(* controller.current?.abort(): a request that was aborted does nothing when it ends. *)
Aborted == [c \in BrowserCalls |-> IF Live(c) THEN NoRequest ELSE requests[c]]

(* hasMoreOlder of page n: it was a full page. *)
MoreAfter(n) == n < HistoryPages \/ (n = HistoryPages /\ LastPageFull)

FirstPage(a) == [account |-> a, pages |-> 1, index |-> 0, more |-> MoreAfter(1), filter |-> "all"]

(* Mutant: the page that arrives is always shown as a further one. *)
OlderUnchecked(r) == [r EXCEPT !.pages = @ + 1, !.index = @ + 1, !.more = MoreAfter(r.pages + 1)]

(* loadOlderOperationPage with appendOperationPage *)
OlderPage(r) ==
  IF r.index + 1 < r.pages THEN [r EXCEPT !.index = @ + 1]
  ELSE IF ~r.more \/ HistoryPages = 0 THEN r
  ELSE IF r.pages >= HistoryPages THEN [r EXCEPT !.more = FALSE]
  ELSE [r EXCEPT !.pages = @ + 1, !.index = @ + 1, !.more = MoreAfter(r.pages + 1)]

-----------------------------------------------------------------------------
SubmitBad ==
  /\ held.status # "loading"
  /\ requests' = Aborted /\ held' = [status |-> "error"]
  /\ UNCHANGED <<lastAsked, lastFailed, chosen, notices>>

(* Mutant: the request before this one is left alone. *)
SubmitBeside(c, a) ==
  /\ held.status # "loading" /\ ~Pending(c)
  /\ lastAsked' = a
  /\ requests' = [requests EXCEPT ![c] = [kind |-> "first", account |-> a, mounted |-> TRUE]]
  /\ held' = [status |-> "loading"] /\ chosen' = "all"
  /\ UNCHANGED <<lastFailed, notices>>

SubmitAccount(c, a) ==
  /\ held.status # "loading" /\ ~Pending(c)
  /\ lastAsked' = a
  /\ requests' = [Aborted EXCEPT ![c] = [kind |-> "first", account |-> a, mounted |-> TRUE]]
  /\ held' = [status |-> "loading"] /\ chosen' = "all"
  /\ UNCHANGED <<lastFailed, notices>>

(* retry: a submission of the same account. *)
Retry(c) ==
  /\ held.status = "error" /\ lastAsked # NoAccount /\ ~Pending(c)
  /\ requests' = [Aborted EXCEPT ![c] = [kind |-> "first", account |-> lastAsked, mounted |-> TRUE]]
  /\ held' = [status |-> "loading"] /\ chosen' = "all"
  /\ UNCHANGED <<lastAsked, lastFailed, notices>>

(* loadOlder goes on from the result on screen when the button is pressed. *)
LoadOlder(c) ==
  /\ held.status = "success" /\ ~Pending(c)
  /\ held.paging # "older" /\ (held.result.more \/ held.result.index + 1 < held.result.pages)
  /\ requests' = [Aborted EXCEPT ![c] = [kind |-> "older", account |-> held.result.account,
                                         from |-> held.result, mounted |-> TRUE]]
  /\ held' = [held EXCEPT !.paging = "older"]
  /\ UNCHANGED <<lastAsked, lastFailed, chosen, notices>>

LoadNewer ==
  /\ held.status = "success" /\ held.result.index > 0 /\ held.paging = "idle"
  /\ held' = [held EXCEPT !.result.index = @ - 1, !.paging = "newer"]
  /\ UNCHANGED <<lastAsked, lastFailed, requests, chosen, notices>>

SetTypeFilter(f) ==
  /\ held.status = "success"
  /\ held' = [held EXCEPT !.result.filter = f, !.paging = "idle"]
  /\ chosen' = f
  /\ UNCHANGED <<lastAsked, lastFailed, requests, notices>>

ResetBrowser ==
  /\ requests' = Aborted /\ held' = NothingHeld /\ lastAsked' = NoAccount /\ lastFailed' = NoAccount
  /\ UNCHANGED <<chosen, notices>>

(* Mutant: every success after a failure counts as a recovery. *)
RecoveredFromAny(r) == r.kind = "first" /\ r.mounted /\ lastFailed # NoAccount

Recovered(r) == r.kind = "first" /\ r.mounted /\ lastFailed = r.account

(***************************************************************************)
(* A request that was not aborted ends: a notification, the failure        *)
(* remembered or forgotten, and the state.  When its page is gone only the *)
(* notification is left of it.                                             *)
(***************************************************************************)
RequestEnds(c, good) ==
  LET r == requests[c]
      told == IF ~good THEN {<<"failure", r.account>>} ELSE IF Recovered(r) THEN {<<"recovery", r.account>>} ELSE {}
      result == IF r.kind = "first" THEN FirstPage(r.account) ELSE OlderPage(r.from)
  IN /\ Pending(c)
     /\ notices' = notices \cup told
     /\ requests' = [requests EXCEPT ![c] = NoRequest]
     /\ IF r.mounted
        THEN /\ held' = IF good THEN [status |-> "success", result |-> result, paging |-> "idle"]
                                ELSE [status |-> "error"]
             /\ lastFailed' = IF ~good THEN r.account ELSE IF lastFailed = r.account THEN NoAccount ELSE lastFailed
        ELSE UNCHANGED <<held, lastFailed>>
     /\ UNCHANGED <<lastAsked, chosen>>

(* The network changes: the page is mounted afresh, its requests go on. *)
BrowserRemounts ==
  /\ held' = NothingHeld /\ lastAsked' = NoAccount /\ lastFailed' = NoAccount
  /\ requests' = [c \in BrowserCalls |-> IF Pending(c) THEN [requests[c] EXCEPT !.mounted = FALSE] ELSE NoRequest]
  /\ UNCHANGED <<chosen, notices>>

BrowserInit ==
  /\ held = NothingHeld /\ lastAsked = NoAccount /\ lastFailed = NoAccount
  /\ requests = [c \in BrowserCalls |-> NoRequest]
  /\ chosen = "all" /\ notices = {}

BrowserNext ==
  \/ SubmitBad \/ LoadNewer \/ ResetBrowser \/ BrowserRemounts
  \/ \E f \in Filters \cup {"all"} : SetTypeFilter(f)
  \/ \E c \in BrowserCalls :
       \/ \E a \in Accounts : SubmitAccount(c, a)
       \/ Retry(c) \/ LoadOlder(c)
       \/ \E good \in BOOLEAN : RequestEnds(c, good)

BrowserSpec == BrowserInit /\ [][BrowserNext]_browserVars

-----------------------------------------------------------------------------
(***************************************************************************)
(* The page tells the truth: its result is the one of the account last     *)
(* submitted, in pages that account has, however submissions, retries,     *)
(* pages and resets overlap and wherever the history ends; a page that     *)
(* says it is loading has a request that will end it; and nobody is told   *)
(* of a recovery of an account whose failure nobody was told of (the       *)
(* controller of submit and loadOlder, appendOperationPage,                *)
(* lastFailedAccount).                                                     *)
(***************************************************************************)
BrowserShowsAsked ==
  /\ held.status = "success" =>
       /\ held.result.account = lastAsked
       /\ held.result.index < held.result.pages
       /\ held.result.pages <= IF HistoryPages = 0 THEN 1 ELSE HistoryPages
  /\ held.status = "loading" \/ (held.status = "success" /\ held.paging = "older") => \E c \in BrowserCalls : Live(c)
  /\ \A a \in Accounts : <<"recovery", a>> \in notices => <<"failure", a>> \in notices

=============================================================================
