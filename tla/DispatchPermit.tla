--------------------------- MODULE DispatchPermit ---------------------------
(***************************************************************************)
(* What the mail workflow promises about handing a mail to the provider.   *)
(* Putting a mail in the send queue grants one permit for it.  A sender    *)
(* that wants to call the provider must first take the permit, which       *)
(* removes it; the permit it took pays for one call and no more.  Nobody   *)
(* can call the provider with a permit that another sender has taken.      *)
(*                                                                         *)
(* Nothing is said of who grants permits or why one is withdrawn: that is  *)
(* the business of the workflow that implements this module.               *)
(***************************************************************************)
CONSTANTS Mails, Senders, NoMail

VARIABLES
    permit,     \* permit[m]: a call to the provider for m is paid for
    hold,       \* hold[s]: the mail whose permit sender s has taken
    inCall      \* inCall[s]: the mail that s has handed to the provider

permitVars == <<permit, hold, inCall>>

PermitInit ==
    /\ permit = [m \in Mails |-> FALSE]
    /\ hold = [s \in Senders |-> NoMail]
    /\ inCall = [s \in Senders |-> NoMail]

Grant(m) ==
    /\ ~permit[m]
    /\ permit' = [permit EXCEPT ![m] = TRUE]
    /\ UNCHANGED <<hold, inCall>>

Withdraw(m) ==
    /\ permit[m]
    /\ permit' = [permit EXCEPT ![m] = FALSE]
    /\ UNCHANGED <<hold, inCall>>

Take(s, m) ==
    /\ hold[s] = NoMail
    /\ inCall[s] = NoMail
    /\ permit[m]
    /\ permit' = [permit EXCEPT ![m] = FALSE]
    /\ hold' = [hold EXCEPT ![s] = m]
    /\ UNCHANGED inCall

CallProvider(s) ==
    /\ hold[s] # NoMail
    /\ inCall' = [inCall EXCEPT ![s] = hold[s]]
    /\ hold' = [hold EXCEPT ![s] = NoMail]
    /\ UNCHANGED permit

GiveUp(s) ==
    /\ hold[s] # NoMail
    /\ hold' = [hold EXCEPT ![s] = NoMail]
    /\ UNCHANGED <<permit, inCall>>

EndCall(s) ==
    /\ inCall[s] # NoMail
    /\ inCall' = [inCall EXCEPT ![s] = NoMail]
    /\ UNCHANGED <<permit, hold>>

PermitNext ==
    \/ \E m \in Mails : Grant(m) \/ Withdraw(m)
    \/ \E s \in Senders, m \in Mails : Take(s, m)
    \/ \E s \in Senders : CallProvider(s) \/ GiveUp(s) \/ EndCall(s)

PermitSpec == PermitInit /\ [][PermitNext]_permitVars
=============================================================================
