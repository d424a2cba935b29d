------------------------------ MODULE MCStores ------------------------------
(***************************************************************************)
(* Finite instances of the components that admit, count, cache and record. *)
(* They share no state, so one run checks each of them on its own: focus   *)
(* says which of them moves.                                               *)
(***************************************************************************)
EXTENDS MCTickets, Backpressure, Quota, BoundedCache, Ledger, DuplicateReview

VARIABLE focus

StoresInit ==
  /\ focus \in {"tickets", "gate", "quota", "cache", "ledger", "review"}
  /\ CommitInit /\ GateInit /\ QuotaInit /\ CacheInit /\ LedgerInit /\ ReviewInit
  /\ focus # "tickets" => domain.tickets = CHOOSE seed \in SeedTickets : TRUE

StoresNext ==
  /\ UNCHANGED focus
  /\ \/ focus = "tickets" /\ CommitNext /\ UNCHANGED <<allVars, quotaVars, cacheVars, ledgerVars, reviewVars>>
     \/ focus = "gate" /\ GateNext /\ UNCHANGED <<ticketVars, quotaVars, cacheVars, ledgerVars, reviewVars>>
     \/ focus = "quota" /\ QuotaNext /\ UNCHANGED <<ticketVars, allVars, cacheVars, ledgerVars, reviewVars>>
     \/ focus = "cache" /\ CacheNext /\ UNCHANGED <<ticketVars, allVars, quotaVars, ledgerVars, reviewVars>>
     \/ focus = "ledger" /\ LedgerNext /\ UNCHANGED <<ticketVars, allVars, quotaVars, cacheVars, reviewVars>>
     \/ focus = "review" /\ ReviewNext /\ UNCHANGED <<ticketVars, allVars, quotaVars, cacheVars, ledgerVars>>
=============================================================================
