------------------------------ MODULE Contacts ------------------------------
(***************************************************************************)
(* The contacts of companies, their unsubscription and the choice of the   *)
(* recipient of a mail (src/apps/api/src/contacts, tracking, and           *)
(* mail/infrastructure/contact-*.ts).                                      *)
(*                                                                         *)
(* Edits of one company's contacts wait for one another (company-contacts  *)
(* lock), drafts and sendings to one address do (contact-eligibility), and *)
(* so do two requests that record the same reply (mail-reply).  The        *)
(* unsubscription by a recipient takes none of these locks.                *)
(*                                                                         *)
(* Of the workflow of a mail only this is kept: an open mail (draft to     *)
(* sending) holds its address, one that was rejected, cancelled or failed  *)
(* does not, one that was sent always does.  Its address is that of the    *)
(* recipient, or the one noted with the lead.                              *)
(***************************************************************************)
EXTENDS Naturals, Sequences, FiniteSetsExt

CONSTANTS
    Companies,
    Addresses,
    LeadAddress,    \* the address noted with the lead of each company, if any
    Mails,
    Requests,       \* requests being handled, one at a time each
    Creations,      \* what create may be sent: [primary, address]
    Edits,          \* what update may be sent: [primary, unsubscribed, address]
    Texts,          \* texts of replies
    MaxContacts,    \* bound: contacts ever created
    MaxSendings,    \* bound: sendings of one mail
    Absent

ASSUME BoundsAreNumbers == MaxContacts \in Nat /\ MaxSendings \in Nat

VARIABLES
    contacts,   \* ContactPerson, in the order of creation
    outreach,   \* OutreachEmail
    replies,    \* EmailReply: how often each text was recorded for each mail
    stopped,    \* the mails whose recipient asked not to be written to again
    handling    \* what each request is doing

contactVars == <<contacts, outreach, replies, stopped, handling>>

Ids == 1..MaxContacts

Contact == [company : Companies, address : Addresses \cup {Absent},
            active : BOOLEAN, primary : BOOLEAN, unsubscribed : BOOLEAN]

Mail == [company : Companies, contact : Ids \cup {Absent}, to : Addresses \cup {Absent},
         address : Addresses \cup {Absent}, open : BOOLEAN, sent : 0..MaxSendings]

\* An edit names what it leaves alone with Absent, and an address that is to be
\* deleted with "none".
Edit == [primary : BOOLEAN \cup {Absent}, unsubscribed : BOOLEAN \cup {Absent},
         address : Addresses \cup {Absent, "none"}]

\* A change of a contact, decided: the mark it will write and the contacts that
\* lose theirs.
Change == [kind : {"create", "update", "archive", "unsubscribe"}, inside : {TRUE},
           company : Companies, contact : Ids \cup {Absent}, edit : Edit, others : SUBSET Ids]

Drafting == [kind : {"draft"}, inside : BOOLEAN, company : Companies, mail : Mails,
             contact : Ids \cup {Absent}, address : Addresses \cup {Absent}]

Recording == [kind : {"reply"}, inside : {TRUE}, mail : Mails, text : Texts]

ASSUME LeadAddressesAreAddresses == LeadAddress \in [Companies -> Addresses \cup {Absent}]

ASSUME CreationsAreContacts == Creations \subseteq [primary : BOOLEAN, address : Addresses \cup {Absent}]

ASSUME EditsAreEdits == Edits \subseteq Edit

ASSUME AbsentIsNone ==
    /\ Absent \notin Ids \cup Addresses /\ Absent \notin BOOLEAN
    /\ Absent \notin Mail \cup Change \cup Drafting \cup Recording

ContactsTypeOK ==
    /\ contacts \in Seq(Contact) /\ Len(contacts) <= MaxContacts
    /\ outreach \in [Mails -> Mail \cup {Absent}]
    /\ replies \in [Mails \X Texts -> Nat]
    /\ stopped \subseteq Mails
    /\ handling \in [Requests -> Change \cup Drafting \cup Recording \cup {Absent}]

ContactsInit ==
    /\ contacts = <<>>
    /\ outreach = [m \in Mails |-> Absent]
    /\ replies = [r \in Mails \X Texts |-> 0]
    /\ stopped = {}
    /\ handling = [q \in Requests |-> Absent]

-----------------------------------------------------------------------------
(* Contacts and recipients.                                                *)

ActiveOf(c) == {i \in DOMAIN contacts : contacts[i].company = c /\ contacts[i].active}

\* resolveMailRecipient: the primary contact that can be mailed, else the oldest.
Mailable(c) == {i \in ActiveOf(c) : ~contacts[i].unsubscribed /\ contacts[i].address # Absent}

Recipient(c) ==
    LET first == {i \in Mailable(c) : contacts[i].primary}
    IN  IF first # {} THEN Min(first) ELSE IF Mailable(c) # {} THEN Min(Mailable(c)) ELSE Absent

Unsubscribed(i) == [contacts[i] EXCEPT !.unsubscribed = TRUE, !.primary = FALSE]

-----------------------------------------------------------------------------
(* Eligibility.                                                            *)

\* RESERVED_DELIVERY_STATUSES, or sentAt is set.
Holds(m) == outreach[m] # Absent /\ (outreach[m].open \/ outreach[m].sent > 0)

\* findPriorDeliveries finds no other mail of the address.
NobodyElseWrote(m, address) ==
    \A k \in Mails \ {m} : Holds(k) /\ address # Absent => outreach[k].address # address

\* All registered contacts are unsubscribed: no other address is fallen back to.
AllUnsubscribed(c) ==
    ActiveOf(c) # {} /\ \A i \in ActiveOf(c) : contacts[i].unsubscribed

\* assertLeadContactEligible; the recipient was found mailable before the lock.
MayWrite(w) ==
    /\ w.contact = Absent => ~AllUnsubscribed(w.company)
    /\ NobodyElseWrote(w.mail, w.address)

\* Mutant: the contact is only looked at when the mail is drafted.
EligibleOnce(m) == NobodyElseWrote(m, outreach[m].address)

\* assertPersistedMailContactEligible.
Eligible(m) ==
    LET mail == outreach[m]
        legacy == {i \in DOMAIN contacts : contacts[i].company = mail.company
                                           /\ contacts[i].address = mail.to}
    IN
    /\ mail.contact # Absent =>
        /\ contacts[mail.contact].active
        /\ ~contacts[mail.contact].unsubscribed
        /\ mail.to # Absent => contacts[mail.contact].address = mail.to
    /\ mail.contact = Absent =>
        /\ mail.to # Absent =>
             \A i \in legacy : contacts[i].active /\ ~contacts[i].unsubscribed
        /\ ~AllUnsubscribed(mail.company)
    /\ NobodyElseWrote(m, mail.address)

-----------------------------------------------------------------------------
(* Requests and their locks.                                               *)

AtRest(q) == handling[q] = Absent

Within(q, kinds) == ~AtRest(q) /\ handling[q].inside /\ handling[q].kind \in kinds

Changing == {"create", "update", "archive", "unsubscribe"}

\* Mutant: only the creation of a contact waits.
KeysOfCreation(w) ==
    IF w.kind = "create" THEN {<<"contacts", w.company>>}
    ELSE IF w.kind = "draft" THEN {<<"address", w.address>>}
    ELSE IF w.kind = "reply" THEN {<<"reply", w.mail, w.text>>} ELSE {}

\* Mutant: two requests that record one reply do not wait for one another.
KeysWithoutReply(w) ==
    IF w.kind \in Changing THEN {<<"contacts", w.company>>}
    ELSE IF w.kind = "draft" THEN {<<"address", w.address>>} ELSE {}

\* company-contacts, contact-eligibility (the company's, if there is no address),
\* mail-reply.
Keys(w) ==
    IF w.kind \in Changing THEN {<<"contacts", w.company>>}
    ELSE IF w.kind = "draft" THEN {<<"address", IF w.address = Absent THEN w.company ELSE w.address>>}
    ELSE {<<"reply", w.mail, w.text>>}

Unlocked(w) == \A k \in Requests : ~AtRest(k) /\ handling[k].inside => Keys(handling[k]) \cap Keys(w) = {}

Ask(q, w) == handling' = [handling EXCEPT ![q] = w]

Done(q) == handling' = [handling EXCEPT ![q] = Absent]

\* A request is refused or rolled back.
Refuse(q) == ~AtRest(q) /\ Done(q) /\ UNCHANGED <<contacts, outreach, replies, stopped>>

-----------------------------------------------------------------------------
(* ContactsService.                                                        *)

NoEdit == [primary |-> Absent, unsubscribed |-> Absent, address |-> Absent]

\* A request takes its lock and reads what it will decide on.
Begin(q, w) ==
    /\ AtRest(q) /\ Unlocked(w)
    /\ Ask(q, w)
    /\ UNCHANGED <<contacts, outreach, replies, stopped>>

\* clearOtherPrimaryContacts finds those that have the mark at that moment.
OtherPrimaries(c, i) == {k \in ActiveOf(c) \ {i} : contacts[k].primary}

BeginCreate(q, c, new) ==
    Begin(q, [kind |-> "create", inside |-> TRUE, company |-> c, contact |-> Absent,
              edit |-> [primary |-> new.primary, unsubscribed |-> FALSE, address |-> new.address],
              others |-> IF new.primary THEN OtherPrimaries(c, Absent) ELSE {}])

\* Whether a contact may become the primary one depends on the mark of its
\* unsubscription as it is read now, or as it is sent along.
BeginUpdate(q, i, edit) ==
    LET unsubscribed == IF edit.unsubscribed = Absent THEN contacts[i].unsubscribed
                        ELSE edit.unsubscribed
        primary == edit.primary = TRUE /\ ~unsubscribed
        c == contacts[i].company
    IN
    /\ contacts[i].active
    /\ Begin(q, [kind |-> "update", inside |-> TRUE, company |-> c, contact |-> i,
                 edit |-> [edit EXCEPT !.primary =
                             IF edit.unsubscribed = TRUE THEN FALSE
                             ELSE IF @ = Absent THEN Absent ELSE primary],
                 others |-> IF primary THEN OtherPrimaries(c, i) ELSE {}])

BeginEnd(q, kind, i) ==
    /\ contacts[i].active
    /\ Begin(q, [kind |-> kind, inside |-> TRUE, company |-> contacts[i].company, contact |-> i,
                 edit |-> NoEdit, others |-> {}])

WithoutMark(ids) ==
    [i \in DOMAIN contacts |-> IF i \in ids THEN [contacts[i] EXCEPT !.primary = FALSE] ELSE contacts[i]]

CommitCreate(q) ==
    /\ Within(q, {"create"}) /\ Len(contacts) < MaxContacts
    /\ LET w == handling[q] IN
       contacts' = Append(WithoutMark(w.others),
                          [company |-> w.company, address |-> w.edit.address, active |-> TRUE,
                           primary |-> w.edit.primary, unsubscribed |-> FALSE])
    /\ Done(q)
    /\ UNCHANGED <<outreach, replies, stopped>>

\* Only the fields that were sent are written.
Sent(new, old) == IF new = Absent THEN old ELSE new

Edited(i, edit) ==
    [contacts[i] EXCEPT !.address = IF edit.address = "none" THEN Absent ELSE Sent(edit.address, @),
                        !.unsubscribed = Sent(edit.unsubscribed, @),
                        !.primary = Sent(edit.primary, @)]

\* To clear the mark of an unsubscription is to let the contact be written to again.
CommitUpdate(q) ==
    /\ Within(q, {"update"})
    /\ LET w == handling[q] IN
       /\ contacts' = [WithoutMark(w.others) EXCEPT ![w.contact] = Edited(w.contact, w.edit)]
       /\ stopped' = IF w.edit.unsubscribed = FALSE
                     THEN {m \in stopped : outreach[m].contact # w.contact} ELSE stopped
    /\ Done(q)
    /\ UNCHANGED <<outreach, replies>>

CommitArchive(q) ==
    /\ Within(q, {"archive"})
    /\ contacts' = [contacts EXCEPT ![handling[q].contact].active = FALSE, ![handling[q].contact].primary = FALSE]
    /\ Done(q)
    /\ UNCHANGED <<outreach, replies, stopped>>

CommitUnsubscribe(q) ==
    /\ Within(q, {"unsubscribe"})
    /\ contacts' = [contacts EXCEPT ![handling[q].contact] = Unsubscribed(handling[q].contact)]
    /\ Done(q)
    /\ UNCHANGED <<outreach, replies, stopped>>

-----------------------------------------------------------------------------
(* Mails.                                                                  *)

\* The recipient is resolved before the lock of its address is taken.
AskDraft(q, c, m) ==
    /\ AtRest(q) /\ outreach[m] = Absent
    /\ \A k \in Requests : ~AtRest(k) /\ handling[k].kind = "draft" => handling[k].mail # m
    /\ Ask(q, [kind |-> "draft", inside |-> FALSE, company |-> c, mail |-> m,
               contact |-> Recipient(c),
               address |-> IF Recipient(c) = Absent THEN LeadAddress[c]
                           ELSE contacts[Recipient(c)].address])
    /\ UNCHANGED <<contacts, outreach, replies, stopped>>

EnterDraft(q) ==
    /\ ~AtRest(q) /\ handling[q].kind = "draft" /\ ~handling[q].inside
    /\ Unlocked(handling[q])
    /\ MayWrite(handling[q])
    /\ handling' = [handling EXCEPT ![q].inside = TRUE]
    /\ UNCHANGED <<contacts, outreach, replies, stopped>>

\* toEmail is the recipient's; the lead's own address is only the destination.
CommitMail(q) ==
    /\ Within(q, {"draft"})
    /\ LET w == handling[q] IN
       outreach' = [outreach EXCEPT ![w.mail] =
                   [company |-> w.company, contact |-> w.contact,
                    to |-> IF w.contact = Absent THEN Absent ELSE w.address,
                    address |-> w.address, open |-> TRUE, sent |-> 0]]
    /\ Done(q)
    /\ UNCHANGED <<contacts, replies, stopped>>

\* A transaction of the workflow has the lock of the mail's address to itself.
AddressFree(m) ==
    \A q \in Requests : Within(q, {"draft"}) => handling[q].address # outreach[m].address

\* The mail is rejected, cancelled or fails; of one that was sent sentAt stays.
Drop(m) ==
    /\ outreach[m] # Absent /\ outreach[m].open
    /\ outreach' = [outreach EXCEPT ![m].open = FALSE]
    /\ UNCHANGED <<contacts, replies, stopped, handling>>

\* It is reviewed anew, even one that was sent: no status is tested.
Reopen(m) ==
    /\ outreach[m] # Absent /\ ~outreach[m].open
    /\ AddressFree(m) /\ Eligible(m)
    /\ outreach' = [outreach EXCEPT ![m].open = TRUE]
    /\ UNCHANGED <<contacts, replies, stopped, handling>>

\* It is sent, by Gmail or by hand, perhaps not for the first time.
Send(m) ==
    /\ outreach[m] # Absent /\ outreach[m].open /\ outreach[m].sent < MaxSendings
    /\ AddressFree(m) /\ Eligible(m)
    /\ outreach' = [outreach EXCEPT ![m].open = FALSE, ![m].sent = @ + 1]
    /\ UNCHANGED <<contacts, replies, stopped, handling>>

-----------------------------------------------------------------------------
(* Unsubscription by the recipient, by an operator and by a reply.         *)

\* Contacts the link of a mail stands for; addresses match in any company.
Matched(m, address) ==
    {i \in DOMAIN contacts :
        /\ contacts[i].active
        /\ IF outreach[m].contact # Absent THEN outreach[m].contact = i
           ELSE address # Absent /\ contacts[i].address = address}

MarkUnsubscribed(ids) ==
    contacts' = [i \in DOMAIN contacts |-> IF i \in ids THEN Unsubscribed(i) ELSE contacts[i]]

\* unsubscribeByToken: the link is in the mails Gmail sent, which have a toEmail.
FollowLink(m) ==
    /\ outreach[m] # Absent /\ outreach[m].sent > 0 /\ outreach[m].to # Absent
    /\ MarkUnsubscribed(Matched(m, outreach[m].to))
    /\ stopped' = stopped \cup {m}
    /\ UNCHANGED <<outreach, replies, handling>>

\* TrackingService.unsubscribe, of a contact or of an address.
Suppress(ids) ==
    /\ ids # {}
    /\ MarkUnsubscribed(ids)
    /\ UNCHANGED <<outreach, replies, stopped, handling>>

\* No such reply was recorded in the last five minutes.
BeginReply(q, m, text) ==
    /\ outreach[m] # Absent /\ outreach[m].sent > 0
    /\ replies[<<m, text>>] = 0
    /\ Begin(q, [kind |-> "reply", inside |-> TRUE, mail |-> m, text |-> text])

\* A reply that asks to stop unsubscribes the contact of the mail, archived or
\* not, or the contacts of the company with the address it came from.
CommitReply(q, from) ==
    /\ Within(q, {"reply"})
    /\ LET w == handling[q]
           mail == outreach[w.mail]
           asksToStop == w.text = "stop"
           ids == IF mail.contact # Absent THEN {mail.contact}
                  ELSE {i \in ActiveOf(mail.company) : contacts[i].address = from}
       IN
       /\ replies' = [replies EXCEPT ![<<w.mail, w.text>>] = @ + 1]
       /\ IF asksToStop THEN MarkUnsubscribed(ids) ELSE UNCHANGED contacts
       /\ stopped' = IF asksToStop /\ mail.contact # Absent THEN stopped \cup {w.mail} ELSE stopped
    /\ Done(q)
    /\ UNCHANGED outreach

-----------------------------------------------------------------------------
Handle(q) ==
    \/ \E c \in Companies, new \in Creations : BeginCreate(q, c, new)
    \/ \E i \in DOMAIN contacts :
          \/ \E edit \in Edits : BeginUpdate(q, i, edit)
          \/ \E kind \in {"archive", "unsubscribe"} : BeginEnd(q, kind, i)
    \/ CommitCreate(q) \/ CommitUpdate(q) \/ CommitArchive(q) \/ CommitUnsubscribe(q)
    \/ \E c \in Companies, m \in Mails : AskDraft(q, c, m)
    \/ EnterDraft(q) \/ CommitMail(q)
    \/ \E m \in Mails, t \in Texts : BeginReply(q, m, t)
    \/ \E a \in Addresses : CommitReply(q, a)
    \/ Refuse(q)

ContactsNext ==
    \/ \E q \in Requests : Handle(q)
    \/ \E m \in Mails : Drop(m) \/ Reopen(m) \/ Send(m) \/ FollowLink(m)
    \/ \E i \in DOMAIN contacts : contacts[i].active /\ Suppress({i})
    \/ \E a \in Addresses :
          Suppress({i \in DOMAIN contacts : contacts[i].active /\ contacts[i].address = a})

ContactsSpec == ContactsInit /\ [][ContactsNext]_contactVars

-----------------------------------------------------------------------------
(* Properties.                                                             *)

\* A company has one primary contact at most, however many edits of its contacts
\* are made at once: it is the one the next mail goes to (ContactsService).
OnePrimary == \A c \in Companies : Cardinality({i \in ActiveOf(c) : contacts[i].primary}) <= 1

\* A reply that was entered twice, by two people or by two clicks, moves the lead
\* and makes its task once (RecordMailReplyUseCase).
RecordedOnce == \A r \in Mails \X Texts : replies[r] <= 1

\* However many requests run at once.
OneOfEach == OnePrimary /\ RecordedOnce

\* Whoever asked not to be written to again, by the link of a mail or by a reply,
\* is not, neither with that mail nor with another one to the same address: not
\* after the contact was archived, entered anew or given another address, and not
\* while requests that read the contact earlier are still at work.  Only an
\* operator who clears the contact's mark lifts this.
StoppedStaysSilent ==
    [][\A m \in Mails : \A k \in stopped :
          outreach[m] # Absent /\ outreach'[m].sent > outreach[m].sent
             => outreach[m].address # outreach[k].address]_contactVars

\* An unsubscribed or archived contact is not the primary one.
PrimaryCanBeMailed ==
    \A i \in DOMAIN contacts : contacts[i].primary => contacts[i].active /\ ~contacts[i].unsubscribed
=============================================================================
