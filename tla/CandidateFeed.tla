--------------------------- MODULE CandidateFeed ---------------------------
(***************************************************************************)
(* What a candidate search promises to its owner, whatever the source and  *)
(* however its pages are crawled: a list that only grows, at its end, by   *)
(* projects that fit, are new to the list and were not imported when the   *)
(* search began, and that stands still once the search has ended.          *)
(* SourceSearch implements it.                                             *)
(***************************************************************************)
EXTENDS SequencesExt

CONSTANT Fitting    \* the projects that fit a request

VARIABLES
    searches,   \* the searches that were begun
    request,    \* what was asked for, and how many
    candidates, \* the list, as the owner reads it
    reason      \* why the search ended, or "none" while it runs

vars == <<searches, request, candidates, reason>>

Whole(list) ==
    /\ IsInjective(list)
    /\ ToSet(list) \subseteq Fitting[request']
    /\ Len(list) <= request'.desired

Init == searches = 0 /\ candidates = <<>> /\ reason = "idle"

\* A search begins, and takes the place of the one before.
Begin ==
    /\ searches' = searches + 1
    /\ candidates' = <<>>
    /\ reason' = "none"

\* Candidates are added; those that are there stay, in their order.
Extend ==
    /\ reason = "none"
    /\ UNCHANGED <<searches, request, reason>>
    /\ IsPrefix(candidates, candidates')
    /\ Whole(candidates')

\* The search ends, with the last candidates.  Only a full list is told as the number
\* that was asked for.
End ==
    /\ reason = "none"
    /\ reason' # "none"
    /\ reason' = "desired_reached" => Len(candidates') = request.desired
    /\ reason' \in {"source_exhausted", "condition_shortage", "excluded_existing"} =>
         Len(candidates') < request.desired
    /\ UNCHANGED <<searches, request>>
    /\ IsPrefix(candidates, candidates')
    /\ Whole(candidates')

Next == Begin \/ Extend \/ End

Spec == Init /\ [][Next]_vars
=============================================================================
