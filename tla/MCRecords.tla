----------------------------- MODULE MCRecords -----------------------------
(***************************************************************************)
(* The analyses of a lead, and the contacts of its company, for TLC: two   *)
(* systems that share no lock.  Which of them moves is chosen at the start.*)
(***************************************************************************)
EXTENDS LeadAnalysis, Contacts, TLC

CONSTANTS
    l1, p1,                     \* a lead and its project
    c1, a1, a2, m1, m2, q1, q2  \* a company, addresses, mails, requests

OneLead == l1 :> p1

NotedAddress == c1 :> a1

NewContacts == [primary : BOOLEAN, address : {a1}]

\* What the screens send: the form with its address and its mark, or the mark of
\* the unsubscription alone.
ScreenEdits ==
    {[primary |-> TRUE, unsubscribed |-> Absent, address |-> a2],
     [primary |-> Absent, unsubscribed |-> FALSE, address |-> Absent]}

VARIABLE part  \* what is looked at

RecordsInit == part \in {"analysis", "contacts"} /\ Init /\ ContactsInit

SentTimes(m) == IF outreach[m] = Absent THEN 0 ELSE outreach[m].sent

\* Bound: one mail is sent twice, or each once.
TwoSendings == SentTimes(m1) + SentTimes(m2) <= 2

RecordsNext ==
    \/ part = "analysis" /\ Next /\ UNCHANGED <<part, contactVars>>
    \/ part = "contacts" /\ ContactsNext /\ TwoSendings' /\ UNCHANGED <<part, vars>>

RecordsSpec == RecordsInit /\ [][RecordsNext]_<<part, vars, contactVars>>

Interchangeable ==
    Permutations(Users) \cup Permutations(Contents)
      \cup Permutations(Mails) \cup Permutations(Requests)
=============================================================================
