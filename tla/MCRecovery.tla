----------------------------- MODULE MCRecovery -----------------------------
(***************************************************************************)
(* Finite instances of the components that pick work up again after an     *)
(* await, a death or a lost answer.  They share no state, so one run       *)
(* checks each of them on its own: focus says which of them moves.         *)
(***************************************************************************)
EXTENDS OperationRecovery, Dispatcher, Backfill, LookupHook, OperationBrowser

MCFixedHooks == TestNetworkHooks
MCHooks == SelectedNetworkHooks

VARIABLE focus

Together == <<vars, dispatchVars, backfillVars, hookVars, browserVars, focus>>

RecoveryInit ==
  /\ focus \in {"operation", "dispatcher", "backfill", "hook", "browser"}
  /\ Init /\ DispatchInit /\ BackfillInit /\ HookInit /\ BrowserInit
  /\ focus # "hook" => /\ hook = CHOOSE h \in Hooks : TRUE
                       /\ network = CHOOSE n \in Networks : TRUE

RecoveryNext ==
  /\ UNCHANGED focus
  /\ \/ focus = "operation" /\ Next /\ UNCHANGED <<dispatchVars, backfillVars, hookVars, browserVars>>
     \/ focus = "dispatcher" /\ DispatchNext /\ UNCHANGED <<vars, backfillVars, hookVars, browserVars>>
     \/ focus = "backfill" /\ BackfillNext /\ UNCHANGED <<vars, dispatchVars, hookVars, browserVars>>
     \/ focus = "hook" /\ HookNext /\ UNCHANGED <<vars, dispatchVars, backfillVars, browserVars>>
     \/ focus = "browser" /\ BrowserNext /\ UNCHANGED <<vars, dispatchVars, backfillVars, hookVars>>

(* The fairness of FairSpec. *)
RecoverySpec ==
  /\ RecoveryInit /\ [][RecoveryNext]_Together
  /\ \A r \in Runners : /\ SF_vars(focus = "operation" /\ RunOperation(r, AllWrites))
                        /\ SF_vars(focus = "operation" /\ StepSucceeds(r, AllWrites))
  /\ SF_vars(focus = "operation" /\ ConfirmStep)
=============================================================================
