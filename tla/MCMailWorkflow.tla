--------------------------- MODULE MCMailWorkflow ---------------------------
(***************************************************************************)
(* Instances of MailWorkflow for TLC.  One mail and several requests show  *)
(* the races within a mail; two mails to one destination show the rivalry  *)
(* between them; two mails to two destinations show the order of dispatch. *)
(***************************************************************************)
EXTENDS MailWorkflow

CONSTANTS r1, r2, w1, d1, d2

SameDestination == [m \in Mails |-> d1]

OwnDestination == [m \in Mails |-> IF m = 1 THEN d1 ELSE d2]
=============================================================================
