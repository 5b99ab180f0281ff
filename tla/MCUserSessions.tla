--------------------------- MODULE MCUserSessions ---------------------------
(***************************************************************************)
(* Sessions for TLC, and beside them the sign-in with Google that creates  *)
(* them, in another part of the run: two tabs of one browser, of which one *)
(* may be on a page that a sign-in returns to and one on a page it does    *)
(* not, and three accounts, of which one is no member and one not of the   *)
(* domain.                                                                 *)
(***************************************************************************)
EXTENDS UserSessions, SignIn, TLC

CONSTANTS p1, p2, ann, bob

TwoBrowsers == (p1 :> 1) @@ (p2 :> 2)

OneBrowser == (p1 :> 1) @@ (p2 :> 1)

\* Promoted, demoted, deactivated.
SomeChanges == {ActiveAdmin, ActiveOperator, [ActiveAdmin EXCEPT !.active = FALSE]}

\* Any users may start as admins, all pages share a browser.
Interchangeable == Permutations(Users) \cup Permutations(Sessions) \cup Permutations(Pages)

VARIABLE part  \* what is looked at

PartsInit ==
    /\ part \in {"users", "signin"}
    /\ Init /\ SignInInit
    /\ part = "signin" => member = [u \in Users |-> IF u \in Admins THEN ActiveAdmin ELSE Nobody]
    /\ part = "users" => tab = [t \in Tabs |-> OnPage("/today")]

PartsNext ==
    \/ part = "users" /\ Next /\ UNCHANGED <<part, signInVars>>
    \/ part = "signin" /\ SignInNext /\ UNCHANGED <<part, vars>>

PartsSpec == PartsInit /\ [][PartsNext]_<<part, vars, signInVars>>
=============================================================================
