------------------------------ MODULE LookupHook ------------------------------
(***************************************************************************)
(* A tool's page: a form, a question at a time, and the answer on screen   *)
(* (features/*/hooks and their panels), under the provider that remounts   *)
(* every tool when the network changes (core/network/NetworkProvider.tsx). *)
(* ToolHooks says how each tool's hook behaves; a page uses one of them.   *)
(* A call is from the submission to its answer.  A request is a question   *)
(* and a page of its answer; most answers have one page.                   *)
(***************************************************************************)
EXTENDS ToolHooks, Integers, Sequences, FiniteSets

CONSTANTS
  Hooks,        \* the hooks of ToolHooks that are looked at
  Questions,    \* well-formed inputs
  LastPage,     \* a history has the pages 0..LastPage
  Networks,
  TestNetwork,
  HookCalls     \* calls in flight at one time

ASSUME HookConstants == TestNetwork \in Networks /\ LastPage \in Nat

VARIABLES
  hook,     \* the hook this page uses
  network,  \* the selected network
  shown,    \* the state the hook holds: its status, its request, the network it is about
  asked,    \* the request the user last made, "malformed" or "nothing"
  calls,    \* calls[c]: its request, where it was made, and whether it was superseded
  account,  \* the last well-formed input (currentAccount, lastInput)
  trail,    \* trail[i]: the request that produced page i - 1
  filter    \* the request for whose answer the filter was chosen

hookVars == <<hook, network, shown, asked, calls, account, trail, filter>>

Nothing == <<"nothing", 0>>
Malformed == <<"malformed", 0>>
AtMount == <<"mount", 0>>
Unasked == [request |-> Nothing, network |-> TestNetwork, late |-> FALSE]
InFlight(c) == calls[c] # Unasked
Holding(status, r) == [status |-> status, request |-> r, network |-> network]

(* What is on screen: a tagged hook hides another network's state. *)
Visible == IF hook.tagged /\ shown.network # network THEN "idle" ELSE shown.status

-----------------------------------------------------------------------------
(* Mutant: resetting the form forgets about the request. *)
SupersedesSubmitted(event) == event \in hook.drops \ {"reset"}

Supersedes(event) == event \in hook.drops

After(event) == [c \in HookCalls |-> IF InFlight(c) /\ Supersedes(event) THEN [calls[c] EXCEPT !.late = TRUE] ELSE calls[c]]

(* Mutant: the form stays enabled. *)
AlwaysUnlocked == TRUE

(* The panels disable the form while an answer is awaited. *)
Unlocked == Visible \notin {"loading", "waiting"}

(* A request on its way; the three hooks that misread the network ask the test network. *)
Sent(r) == [request |-> r, network |-> IF hook.fixed THEN TestNetwork ELSE network, late |-> FALSE]

SubmitMalformed ==
  /\ Unlocked /\ hook.parses
  /\ asked' = Malformed /\ calls' = After("malformed") /\ shown' = Holding("error", Malformed)
  /\ trail' = <<>>
  /\ UNCHANGED <<hook, network, account, filter>>

SubmitQuestion(c, q) ==
  /\ Unlocked \/ ~hook.locked
  /\ "later" \in hook.answers /\ ~InFlight(c)
  /\ asked' = <<q, 0>> /\ calls' = [After("question") EXCEPT ![c] = Sent(<<q, 0>>)]
  /\ shown' = Holding("loading", <<q, 0>>)
  /\ account' = q /\ trail' = <<<<q, 0>>>>
  /\ UNCHANGED <<hook, network, filter>>

(* Mutant: the filter outlives the answer it was chosen for. *)
SubmitAtOnceFiltered(q, status) ==
  /\ Unlocked /\ "at once" \in hook.answers
  /\ asked' = <<q, 0>> /\ calls' = After("question")
  /\ shown' = [status |-> status, request |-> <<q, 0>>, network |-> Sent(<<q, 0>>).network]
  /\ UNCHANGED <<hook, network, account, trail, filter>>

SubmitAtOnce(q, status) ==
  /\ Unlocked /\ "at once" \in hook.answers
  /\ asked' = <<q, 0>> /\ calls' = After("question")
  /\ shown' = [status |-> status, request |-> <<q, 0>>, network |-> Sent(<<q, 0>>).network]
  /\ filter' = Nothing
  /\ UNCHANGED <<hook, network, account, trail>>

(* setFilter, setSection, setChangeFilter. *)
SetFilter ==
  /\ hook.filters /\ Visible = "success"
  /\ filter' = shown.request
  /\ UNCHANGED <<hook, network, shown, asked, calls, account, trail>>

(* refresh: the panel offers it with an answer. *)
RepeatQuestion(c) ==
  /\ hook.repeats /\ Visible = "success"
  /\ SubmitQuestion(c, account)

(***************************************************************************)
(* paginate, page, showOlder and showNewer, which the panels offer with an *)
(* answer.  Going back along the trail repeats the request it holds.       *)
(***************************************************************************)
TurnPage(c, by) ==
  LET page == shown.request[2] + by
      subject == IF hook.turns = "account" THEN account ELSE shown.request[1]
      older == Append(SubSeq(trail, 1, page), <<subject, page>>)
  IN /\ hook.turns # "no" /\ Visible = "success" /\ ~InFlight(c)
     /\ page \in 0..LastPage
     /\ asked' = <<shown.request[1], page>>
     /\ trail' = IF hook.turns = "trail" /\ by = 1 THEN older ELSE trail
     /\ LET r == IF hook.turns = "trail" THEN trail'[page + 1] ELSE <<subject, page>>
        IN /\ calls' = [After("question") EXCEPT ![c] = Sent(r)]
           /\ shown' = Holding(IF hook.turns = "shown" THEN "paging" ELSE "loading", asked')
     /\ UNCHANGED <<hook, network, account, filter>>

ResetHook ==
  /\ "reset" \in hook.drops
  /\ asked' = Nothing /\ calls' = After("reset") /\ shown' = Holding("idle", Nothing)
  /\ account' = "nothing" /\ trail' = <<>> /\ filter' = Nothing
  /\ UNCHANGED <<hook, network>>

(* Mutant: any answer that arrives is shown. *)
ShowsAny(c) == TRUE

Shows(c) == ~calls[c].late

AnswerArrives(c, status) ==
  /\ InFlight(c)
  /\ calls' = [calls EXCEPT ![c] = Unasked]
  /\ shown' = IF Shows(c) THEN [status |-> status, request |-> calls[c].request, network |-> calls[c].network]
                          ELSE shown
  /\ UNCHANGED <<hook, network, asked, account, trail, filter>>

(* fundWithBackoff: onRetry before a wait, and the request in flight again after it. *)
RequestRetries(c) ==
  /\ InFlight(c) /\ hook.retries /\ Shows(c)
  /\ \E status \in {"waiting", "loading"} \ {shown.status} :
       shown' = [status |-> status, request |-> calls[c].request, network |-> calls[c].network]
  /\ UNCHANGED <<hook, network, asked, calls, account, trail, filter>>

(* A tool that is mounted: idle, or with a question of its own. *)
Mounted(n) ==
  LET first == CHOOSE c \in HookCalls : TRUE
      own == [request |-> AtMount, network |-> n, late |-> FALSE]
  IN [asked |-> IF hook.mounts THEN AtMount ELSE Nothing,
      calls |-> [c \in HookCalls |-> IF hook.mounts /\ c = first THEN own ELSE Unasked],
      shown |-> [status |-> IF hook.mounts THEN "loading" ELSE "idle",
                 request |-> IF hook.mounts THEN AtMount ELSE Nothing, network |-> n]]

(***************************************************************************)
(* setNetwork, and NetworkEpochBoundary with its new key: every tool is    *)
(* mounted afresh, and answers to the old one set the state of nothing.    *)
(***************************************************************************)
SwitchNetwork(n) ==
  /\ n # network /\ network' = n
  /\ asked' = Mounted(n).asked /\ calls' = Mounted(n).calls /\ shown' = Mounted(n).shown
  /\ account' = "nothing" /\ trail' = <<>> /\ filter' = Nothing
  /\ UNCHANGED hook

HookInit ==
  /\ hook \in Hooks /\ network \in Networks
  /\ asked = Mounted(network).asked /\ calls = Mounted(network).calls /\ shown = Mounted(network).shown
  /\ account = "nothing" /\ trail = <<>> /\ filter = Nothing

HookNext ==
  \/ SubmitMalformed \/ ResetHook \/ SetFilter
  \/ \E c \in HookCalls :
       \/ RequestRetries(c) \/ RepeatQuestion(c)
       \/ \E q \in Questions : SubmitQuestion(c, q)
       \/ \E by \in {-1, 1} : TurnPage(c, by)
       \/ \E status \in {"success", "error"} : AnswerArrives(c, status)
  \/ \E q \in Questions, status \in {"success", "error"} : SubmitAtOnce(q, status)
  \/ \E n \in Networks : SwitchNetwork(n)

HookSpec == HookInit /\ [][HookNext]_hookVars

-----------------------------------------------------------------------------
(***************************************************************************)
(* What is on screen answers what the user last asked, page for page, on   *)
(* the network that is selected, in whatever order answers, resets,        *)
(* retries, page turns and network switches happen, and a filter was       *)
(* chosen for the answer it filters (the hooks;                            *)
(* features/balance-viewer/README.md: "discards responses that arrive      *)
(* after a newer request or a network switch").                            *)
(***************************************************************************)
ShowsWhatWasAsked ==
  /\ Visible # "idle" => shown.request = asked /\ shown.network = network
  /\ Visible = "success" => filter \in {Nothing, shown.request}

(***************************************************************************)
(* What a tool asks, and shows, is about the network that is selected      *)
(* (features/explorer-links/README.md, "Network selection"; the three      *)
(* hooks compare a name that the provider's network does not have).        *)
(***************************************************************************)
AsksSelectedNetwork ==
  /\ Visible = "success" => shown.network = network
  /\ \A c \in HookCalls : InFlight(c) => calls[c].network = network

=============================================================================
