---------------------------- MODULE MCSearchJobs ----------------------------
(***************************************************************************)
(* Instances of SearchJobs for TLC: two start requests of one owner, one   *)
(* or two servers, one client that asks for the jobs or cancels them.      *)
(***************************************************************************)
EXTENDS SearchJobs

CONSTANTS j1, j2, s1, s2, c1
=============================================================================
