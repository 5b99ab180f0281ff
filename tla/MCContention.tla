---------------------------- MODULE MCContention ----------------------------
(***************************************************************************)
(* What many processes at once contend for, for TLC: the directory of the  *)
(* backups and the locks of the leads.  They share no state; which of them *)
(* is looked at is chosen at the start.                                    *)
(* Backups: two prunes beside a backup, or two restores beside a backup    *)
(* and a file that gets damaged.  The database does not change beside      *)
(* prunes, nor does time pass beside restores: neither looks at it.        *)
(* Locks: two leads of different companies share a project, a third shares *)
(* its company with one of them, and all can be reached at two             *)
(* destinations, which they list in different orders.                      *)
(***************************************************************************)
EXTENDS Backups, LeadLocks, TLC

CONSTANTS
    b1, b2, b3, p1, p2, r1, r2, d1, t1, t2, t3,
    Parts         \* what is looked at

\* The change adds a row.
SomeCounts == (0 :> 1) @@ (1 :> 2)

SharedCompany == (1 :> 1) @@ (2 :> 2) @@ (3 :> 2)

SharedProject == (1 :> 1) @@ (2 :> 1) @@ (3 :> 2)

SharedDestinations == (1 :> <<1, 2>>) @@ (2 :> <<2, 1>>) @@ (3 :> <<2, 1>>)

ThreeLeads == 1 .. 3

VARIABLE part

ContentionInit == part \in Parts /\ Init /\ LocksInit

BackupsNext ==
    \/ part = "prunes" /\ Next /\ UNCHANGED <<changes, restore>> /\ ~Damaged(dump') /\ ~Damaged(manifest')
    \/ part = "restores" /\ Next /\ UNCHANGED <<prune, now>>

ContentionNext ==
    \/ BackupsNext /\ UNCHANGED <<part, lockVars>>
    \/ part = "locks" /\ LocksNext /\ UNCHANGED <<part, vars>>

ContentionSpec == ContentionInit /\ [][ContentionNext]_<<part, vars, lockVars>>

\* The second backup is the latest there is.
TwoEarlier == <<b1, b2>>

\* Transactions are interchangeable.
Interchangeable == Permutations(Transactions)
=============================================================================
