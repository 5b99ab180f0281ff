------------------------ MODULE MCOpportunityPipeline ------------------------
(***************************************************************************)
(* Instances of OpportunityPipeline for TLC, beside the lists that show    *)
(* the work it makes.                                                      *)
(* OpportunityPipeline: an operator and an admin, or one of them, with a   *)
(* mail, a reply and a task.                                               *)
(* WorkLists: one lead with two tasks, over two days.                      *)
(* ReplyInbox: replies to one mail, more of them than a page holds.        *)
(***************************************************************************)
EXTENDS WorkViews, TLC

CONSTANTS operator, admin, k1, k2, m1, r1, t1, lead

OperatorAndAdmin == (operator :> "operator") @@ (admin :> "admin")

OnlyOperator == operator :> "operator"

OnlyAdmin == admin :> "admin"

\* The lists are followed from all their beginnings, the others from one.
MCInit == WorkInit /\ (part # "lists" => rows[lead].mail = Nothing)

MCSpec == MCInit /\ [][WorkNext]_workVars

\* Operation keys are interchangeable.
Interchangeable == Permutations(Keys)
=============================================================================
