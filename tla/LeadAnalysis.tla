---------------------------- MODULE LeadAnalysis ----------------------------
(***************************************************************************)
(* The structured analysis of a lead and the draft written from it         *)
(* (src/apps/api/src/ai/application, mail/mail.service.ts).                *)
(*                                                                         *)
(* An analysis is a list of revisions, the last one at the end; its        *)
(* version is its place in the list.  A revision was written for one       *)
(* content of the lead's project, which is kept as its fingerprint and may *)
(* be changed by an import or by an edit of any lead of the project.       *)
(*                                                                         *)
(* A request reads what it was sent from a screen, opens a transaction,    *)
(* takes its advisory locks, reads, decides, writes and commits.  Taking   *)
(* the locks and deciding is one step, the commit another: whatever does   *)
(* not wait for the same lock may happen in between.                       *)
(***************************************************************************)
EXTENDS Naturals, Sequences, SequencesExt

CONSTANTS
    Leads,      \* leads with a project
    ProjectOf,  \* the project of each lead
    Contents,   \* contents of a project, told apart by projectSourceFingerprint
    Users,      \* users at a screen, one request at a time each
    MaxVersion, \* bound: revisions of a lead
    Nothing

VARIABLES
    content,    \* the content of each project
    revisions,  \* LeadAnalysisRevision of each lead
    mails,      \* the versions the mails of each lead were drafted from
    view,       \* what the screen of each user shows of an analysis
    work        \* the request of each user

vars == <<content, revisions, mails, view, work>>

Projects == {ProjectOf[l] : l \in Leads}

Versions == 0..MaxVersion

Revision == [status : {"draft", "confirmed"}, origin : {"manual", "generated"},
             content : Contents, complete : BOOLEAN, generatedFrom : Contents \cup {Nothing}]

View == [lead : Leads, content : Contents, version : Versions, confirmed : Versions]

Kinds == {"open", "save", "confirm", "analyze", "draft", "edit", "import"}

Work == [kind : Kinds, lead : Leads, inside : BOOLEAN, content : Contents,
         version : Versions, complete : BOOLEAN]

ASSUME BoundIsNatural == MaxVersion \in Nat

ASSUME NothingIsNone == Nothing \notin View \cup Work

TypeOK ==
    /\ content \in [Projects -> Contents]
    /\ revisions \in [Leads -> Seq(Revision)]
    /\ mails \in [Leads -> Seq(Versions)]
    /\ view \in [Users -> View \cup {Nothing}]
    /\ work \in [Users -> Work \cup {Nothing}]

Init ==
    /\ \E c \in Contents : content = [p \in Projects |-> c]
    /\ revisions = [l \in Leads |-> <<>>]
    /\ mails = [l \in Leads |-> <<>>]
    /\ view = [u \in Users |-> Nothing]
    /\ work = [u \in Users |-> Nothing]

-----------------------------------------------------------------------------
(* Revisions.                                                              *)

ContentOf(l) == content[ProjectOf[l]]

Version(l) == Len(revisions[l])

\* Confirmed revisions of the content the project has now.
Usable(l) ==
    {v \in DOMAIN revisions[l] :
        revisions[l][v].status = "confirmed" /\ revisions[l][v].content = ContentOf(l)}

Latest(versions) == IF versions = {} THEN 0 ELSE CHOOSE v \in versions : \A w \in versions : v >= w

\* keepsGeneration: a manual revision names the generation of the one before it
\* if both are about the same content.
KeptGeneration(l, c) ==
    IF Version(l) > 0 /\ Last(revisions[l]).content = c
    THEN Last(revisions[l]).generatedFrom
    ELSE Nothing

-----------------------------------------------------------------------------
(* Locks.                                                                  *)

Idle(u) == work[u] = Nothing

Inside(u) == ~Idle(u) /\ work[u].inside

\* Mutant: an import leaves the analyses alone.
LocksWithoutImport(w) ==
    (IF w.kind \in {"save", "confirm", "analyze", "draft", "edit"} THEN {<<"analysis", w.lead>>} ELSE {})
    \cup (IF w.kind = "draft" THEN {<<"draft", w.lead>>} ELSE {})
    \cup (IF w.kind \in {"edit", "import"} THEN {<<"project", ProjectOf[w.lead]>>} ELSE {})

\* Mutant: a draft does not wait for the analysis.
LocksWithoutDraft(w) ==
    (IF w.kind \in {"save", "confirm", "analyze", "edit"} THEN {<<"analysis", w.lead>>} ELSE {})
    \cup (IF w.kind = "import"
          THEN {<<"analysis", l>> : l \in {k \in Leads : ProjectOf[k] = ProjectOf[w.lead]}} ELSE {})
    \cup (IF w.kind = "draft" THEN {<<"draft", w.lead>>} ELSE {})
    \cup (IF w.kind \in {"edit", "import"} THEN {<<"project", ProjectOf[w.lead]>>} ELSE {})

\* The advisory locks of a request: lead-analysis, mail-draft, project-import.
Locks(w) ==
    (IF w.kind \in {"save", "confirm", "analyze", "draft", "edit"} THEN {<<"analysis", w.lead>>} ELSE {})
    \cup (IF w.kind = "import"
          THEN {<<"analysis", l>> : l \in {k \in Leads : ProjectOf[k] = ProjectOf[w.lead]}} ELSE {})
    \cup (IF w.kind = "draft" THEN {<<"draft", w.lead>>} ELSE {})
    \cup (IF w.kind \in {"edit", "import"} THEN {<<"project", ProjectOf[w.lead]>>} ELSE {})

Free(u) == \A k \in Users \ {u} : Inside(k) => Locks(work[k]) \cap Locks(work[u]) = {}

-----------------------------------------------------------------------------
(* The screen.                                                             *)

Request(u, kind, l, c, v, complete) ==
    work' = [work EXCEPT ![u] = [kind |-> kind, lead |-> l, inside |-> FALSE,
                                 content |-> c, version |-> v, complete |-> complete]]

\* get: the lead with its project is read first, ...
Open(u, l) ==
    /\ Idle(u)
    /\ Request(u, "open", l, ContentOf(l), 0, FALSE)
    /\ UNCHANGED <<content, revisions, mails, view>>

\* ... its revisions are read by further statements.
Show(u) ==
    /\ ~Idle(u) /\ work[u].kind = "open"
    /\ LET l == work[u].lead
           c == work[u].content IN
       view' = [view EXCEPT ![u] =
                  [lead |-> l, content |-> c, version |-> Version(l),
                   confirmed |-> Latest({v \in DOMAIN revisions[l] :
                                            /\ revisions[l][v].status = "confirmed"
                                            /\ revisions[l][v].content = c})]]
    /\ work' = [work EXCEPT ![u] = Nothing]
    /\ UNCHANGED <<content, revisions, mails>>

\* The form is saved or confirmed, complete or not, with the version and the
\* fingerprint the screen was shown.
Submit(u, kind, complete) ==
    /\ Idle(u) /\ view[u] # Nothing
    /\ kind \in {"save", "confirm"}
    /\ Request(u, kind, view[u].lead, view[u].content, view[u].version, complete)
    /\ UNCHANGED <<content, revisions, mails, view>>

\* A mail is generated, or written by hand, from the confirmed analysis shown;
\* a first test asks for an existing mail before the transaction.
RequestDraft(u) ==
    /\ Idle(u) /\ view[u] # Nothing
    /\ view[u].confirmed # 0
    /\ mails[view[u].lead] = <<>>
    /\ Request(u, "draft", view[u].lead, view[u].content, view[u].confirmed, TRUE)
    /\ UNCHANGED <<content, revisions, mails, view>>

\* An analysis is asked for, the project is edited or imported anew: nothing the
\* screen shows is sent along.
RequestChange(u, kind, l, c) ==
    /\ Idle(u)
    /\ kind \in {"analyze", "edit", "import"}
    /\ kind = "analyze" => c = ContentOf(l)
    /\ Request(u, kind, l, c, 0, TRUE)
    /\ UNCHANGED <<content, revisions, mails, view>>

-----------------------------------------------------------------------------
(* Decisions under the locks.                                              *)

\* Mutant: what the screen showed is not compared.
MayAppendBlindly(w) ==
    /\ w.content = ContentOf(w.lead)
    /\ w.kind = "confirm" =>
        /\ Version(w.lead) > 0 => Last(revisions[w.lead]).content = ContentOf(w.lead)
        /\ w.complete

\* append: the revision and the content shown are the last ones.  What is
\* confirmed is complete and, unless it is the first revision, follows one of the
\* same content.
MayAppend(w) ==
    /\ w.version = Version(w.lead)
    /\ w.content = ContentOf(w.lead)
    /\ w.kind = "confirm" =>
        /\ Version(w.lead) > 0 => Last(revisions[w.lead]).content = ContentOf(w.lead)
        /\ w.complete

\* requireLatestConfirmedAnalysis, and still no mail.
MayDraft(w) ==
    /\ w.version # 0
    /\ w.version = Latest(Usable(w.lead))
    /\ revisions[w.lead][w.version].complete
    /\ mails[w.lead] = <<>>

Allowed(w) ==
    /\ w.kind \in {"save", "confirm"} => MayAppend(w)
    /\ w.kind = "draft" => MayDraft(w)

\* What a transaction read is what it will write.
Enter(u) ==
    /\ ~Idle(u) /\ ~Inside(u) /\ work[u].kind # "open"
    /\ Free(u)
    /\ Allowed(work[u])
    /\ work' = [work EXCEPT ![u].inside = TRUE,
                            ![u].content = IF work[u].kind = "analyze" THEN ContentOf(work[u].lead) ELSE @,
                            ![u].version = IF work[u].kind \in {"save", "confirm", "analyze"}
                                           THEN Version(work[u].lead) ELSE @]
    /\ UNCHANGED <<content, revisions, mails, view>>

\* Refused with 409, or rolled back.
Fail(u) ==
    /\ ~Idle(u) /\ work[u].kind # "open"
    /\ work' = [work EXCEPT ![u] = Nothing]
    /\ UNCHANGED <<content, revisions, mails, view>>

-----------------------------------------------------------------------------
(* Commits.                                                                *)

Committing(u, kinds) == Inside(u) /\ work[u].kind \in kinds

\* save and confirm; the screen is read anew afterwards (Open).
CommitAppend(u) ==
    /\ Committing(u, {"save", "confirm"})
    /\ LET w == work[u] IN
       /\ w.version < MaxVersion
       /\ revisions' = [revisions EXCEPT ![w.lead] = Append(@,
              [status |-> IF w.kind = "confirm" THEN "confirmed" ELSE "draft",
               origin |-> "manual", content |-> w.content, complete |-> w.complete,
               generatedFrom |-> KeptGeneration(w.lead, w.content)])]
    /\ work' = [work EXCEPT ![u] = Nothing]
    /\ UNCHANGED <<content, mails, view>>

\* AnalyzeLeadUseCase: a generated revision, whatever version anybody was shown.
\* The local analysis may leave fields empty.
CommitAnalysis(u) ==
    /\ Committing(u, {"analyze"})
    /\ LET w == work[u] IN
       /\ w.version < MaxVersion
       /\ \E complete \in BOOLEAN :
            revisions' = [revisions EXCEPT ![w.lead] = Append(@,
              [status |-> "draft", origin |-> "generated", content |-> w.content,
               complete |-> complete, generatedFrom |-> w.content])]
    /\ work' = [work EXCEPT ![u] = Nothing]
    /\ UNCHANGED <<content, mails, view>>

\* GenerateMailDraftUseCase and MailService.createDraft.
CommitDraft(u) ==
    /\ Committing(u, {"draft"})
    /\ mails' = [mails EXCEPT ![work[u].lead] = Append(@, work[u].version)]
    /\ work' = [work EXCEPT ![u] = Nothing]
    /\ UNCHANGED <<content, revisions, view>>

\* The project fields of LeadsService.update, and an import of the project.
CommitContent(u) ==
    /\ Committing(u, {"edit", "import"})
    /\ content' = [content EXCEPT ![ProjectOf[work[u].lead]] = work[u].content]
    /\ work' = [work EXCEPT ![u] = Nothing]
    /\ UNCHANGED <<revisions, mails, view>>

-----------------------------------------------------------------------------
Step(u) ==
    \/ \E l \in Leads : Open(u, l)
    \/ Show(u)
    \/ \E kind \in {"save", "confirm"}, complete \in BOOLEAN : Submit(u, kind, complete)
    \/ RequestDraft(u)
    \/ \E kind \in {"analyze", "edit", "import"}, l \in Leads, c \in Contents :
          RequestChange(u, kind, l, c)
    \/ Enter(u)
    \/ Fail(u)
    \/ CommitAppend(u)
    \/ CommitAnalysis(u)
    \/ CommitDraft(u)
    \/ CommitContent(u)

Next == \E u \in Users : Step(u)

Spec == Init /\ [][Next]_vars

-----------------------------------------------------------------------------
(* Properties.                                                             *)

Unshared(l) == \A k \in Leads \ {l} : ProjectOf[k] # ProjectOf[l]

Appended(l) == Len(revisions'[l]) > Len(revisions[l])

\* A revision written by hand follows the very revision its author was shown:
\* nobody's edit, and no generated analysis, is overwritten unseen, although the
\* form was open while others worked on the same lead (append).
NoEditIsLost ==
    [][\A l \in Leads : Appended(l) /\ Last(revisions'[l]).origin = "manual" =>
          \E u \in Users : /\ ~Idle(u) /\ work[u].lead = l
                           /\ view[u] # Nothing /\ view[u].lead = l
                           /\ view[u].version = Version(l)
                           /\ view[u].content = Last(revisions'[l]).content]_vars

\* An analysis is confirmed only of what the project is at that moment, as long
\* as the lead has its project to itself: no import or edit slips in between the
\* comparison of the fingerprints and the commit (append, persistImportedProject,
\* LeadsService.update).
ConfirmedIsCurrent ==
    [][\A l \in Leads : Unshared(l) /\ Appended(l) /\ Last(revisions'[l]).status = "confirmed" =>
          Last(revisions'[l]).content = ContentOf(l)]_vars

\* However many requests draft at once, a mail is the first of its lead, and as long
\* as the lead has its project to itself, it is drafted from the last confirmed
\* analysis of what the project is at that moment, and from no other
\* (requireLatestConfirmedAnalysis).
DraftIsFromLatestConfirmed ==
    [][\A l \in Leads : Len(mails'[l]) > Len(mails[l]) =>
          /\ mails[l] = <<>>
          /\ Unshared(l) => Last(mails'[l]) = Latest(Usable(l)) /\ Usable(l) # {}]_vars

\* However many requests draft at once, a lead has one mail (the second test of
\* createDraft and of GenerateMailDraftUseCase).
OneMailPerLead == \A l \in Leads : Len(mails[l]) <= 1

\* What was confirmed is complete, and a revision that names a generation, which
\* editing hands on from revision to revision, has the content that generation
\* was made from (keepsGeneration).
RevisionsAreTrue ==
    \A l \in Leads : \A v \in DOMAIN revisions[l] :
        LET r == revisions[l][v] IN
        /\ r.status = "confirmed" => r.complete
        /\ r.generatedFrom # Nothing => r.generatedFrom = r.content
=============================================================================
