-------------------------- MODULE SearchLifecycle --------------------------
(***************************************************************************)
(* What the owner of candidate searches is promised, whatever servers run  *)
(* them.  A search is absent, then running, then over: completed, failed   *)
(* or cancelled.  Starting one cancels the one that runs, in the same      *)
(* instant.  Candidates are added to a running search only, so what a      *)
(* finished search shows never changes until it is deleted.                *)
(***************************************************************************)
EXTENDS Naturals

CONSTANT Jobs

VARIABLES
    state,   \* the state of each search
    shown    \* the number of candidates it shows

lifecycleVars == <<state, shown>>

LifecycleInit ==
    /\ state = [j \in Jobs |-> "absent"]
    /\ shown = [j \in Jobs |-> 0]

Replace(j) ==
    /\ state[j] = "absent"
    /\ state' = [k \in Jobs |->
          IF k = j THEN "running"
          ELSE IF state[k] = "running" THEN "cancelled"
          ELSE state[k]]
    /\ UNCHANGED shown

Show(j) ==
    /\ state[j] = "running"
    /\ shown' = [shown EXCEPT ![j] = @ + 1]
    /\ UNCHANGED state

End(j, result) ==
    /\ state[j] = "running"
    /\ state' = [state EXCEPT ![j] = result]
    /\ UNCHANGED shown

Delete(gone) ==
    /\ \A j \in gone : state[j] # "absent"
    /\ state' = [j \in Jobs |-> IF j \in gone THEN "deleted" ELSE state[j]]
    /\ UNCHANGED shown

LifecycleNext ==
    \/ \E j \in Jobs : Replace(j) \/ Show(j)
    \/ \E j \in Jobs, result \in {"completed", "failed", "cancelled"} : End(j, result)
    \/ \E gone \in SUBSET Jobs : Delete(gone)

LifecycleSpec == LifecycleInit /\ [][LifecycleNext]_lifecycleVars
=============================================================================
