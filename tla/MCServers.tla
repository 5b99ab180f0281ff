------------------------------ MODULE MCServers ------------------------------
(***************************************************************************)
(* The search jobs, beside the budget of the calls of OpenAI, for TLC: the *)
(* two share no state; which of them moves is chosen at the start.         *)
(* AiBudget: two calls over the end of a month, of which the budget does   *)
(* not allow both, and whose costs may lie above their estimates.          *)
(***************************************************************************)
EXTENDS MCSearchJobs, AiBudget, TLC

VARIABLE part

ServersInit == part \in {"search", "budget"} /\ Init /\ BudgetInit

ServersNext ==
    \/ part = "search" /\ Next /\ UNCHANGED <<part, budgetVars>>
    \/ part = "budget" /\ BudgetNext /\ UNCHANGED <<part, vars>>

ServersSpec == ServersInit /\ [][ServersNext]_<<part, vars, budgetVars>>

\* Servers and calls are interchangeable.
Interchangeable == Permutations(Servers) \cup Permutations(Calls)
=============================================================================
