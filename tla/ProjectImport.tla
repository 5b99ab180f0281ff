---------------------------- MODULE ProjectImport ----------------------------
(***************************************************************************)
(* Imports of projects, one by one or in bulk, and the companies and leads *)
(* they find or create (src/apps/api/src/projects, leads/leads.service.ts).*)
(*                                                                         *)
(* A bulk import normalises its URLs, lets a pool of workers import them,  *)
(* lets a second pool analyse the leads, and records a summary.  Each item *)
(* fetches a page, takes the locks of its company's name and its URL,      *)
(* reads what exists and commits.  A single import is a pool of one worker *)
(* and one URL without the analysis.                                       *)
(*                                                                         *)
(* A company is found by its normalised name, which no constraint of the   *)
(* database keeps unique: only the lock does.  Of its fields one is kept,  *)
(* its site, which an import fills in only while it is empty.              *)
(***************************************************************************)
EXTENDS Naturals, FiniteSets

CONSTANTS
    Bulks,        \* bulk imports
    Singles,      \* single imports
    Urls,         \* normalised project URLs
    RequestUrls,  \* the URLs of each request, after uniqueNormalizedUrlInputs
    NameOnPage,   \* the company's name on the page of each URL, normalised
    Names,        \* normalised company names
    Slots,        \* bound: workers of a pool
    Editors,      \* users who edit a lead with its company
    Companies,    \* bound: company ids
    HandNames,    \* names of companies users create by hand
    HandLeads,    \* whether users add leads without a project
    MaxEdits,     \* bound: edits
    Nobody

VARIABLES
    company,      \* Company rows: name and site
    projects,     \* the company of each CrowdfundingProject
    leads,        \* SalesLead rows: company and URL, or Nobody without a project
    waiting,      \* items no worker of the pool has taken
    worker,       \* the item of each worker
    outcome,      \* result of each item of each request
    phase,        \* phase of each request
    edit,         \* the edit of each editor
    edits         \* edits so far

importVars == <<waiting, worker, outcome, phase>>
editVars == <<edit, edits>>
rows == <<company, projects, leads>>
vars == <<rows, importVars, editVars>>

Requests == Bulks \cup Singles

Workers == (Bulks \X Slots) \cup {<<r, Nobody>> : r \in Singles}

Sites == {"empty", "imported", "edited"}

Row == [name : Names, site : Sites]

Outcomes == {"open", "imported", "failed", "analyzed", "analysisFailed"}

WorkerStages == {"fetching", "fetched", "inside", "analyzing"}

Item == [stage : WorkerStages, url : Urls, found : Companies \cup {Nobody}, site : Sites]

Entry == [stage : {"read", "inside"}, company : Companies, url : Urls \cup {Nobody},
          names : SUBSET Names, name : Names]

ASSUME PagesAreNamed == NameOnPage \in [Urls -> Names]

ASSUME RequestsAreOfUrls == RequestUrls \in [Requests -> SUBSET Urls]

ASSUME HandNamesAreNames == HandNames \subseteq Names

ASSUME EditsAreBounded == MaxEdits \in Nat

ASSUME NobodyIsNone == Nobody \notin Companies \cup Urls \cup Row \cup Item \cup Entry

TypeOK ==
    /\ company \in [Companies -> Row \cup {Nobody}]
    /\ projects \in [Urls -> Companies \cup {Nobody}]
    /\ leads \subseteq Companies \X (Urls \cup {Nobody})
    /\ waiting \in [Requests -> SUBSET Urls]
    /\ worker \in [Workers -> Item \cup {Nobody}]
    /\ outcome \in [Requests -> [Urls -> Outcomes]]
    /\ phase \in [Requests -> {"new", "importing", "analyzing", "recorded"}]
    /\ edit \in [Editors -> Entry \cup {Nobody}]
    /\ edits \in 0..MaxEdits

Init ==
    /\ company = [c \in Companies |-> Nobody]
    /\ projects = [p \in Urls |-> Nobody]
    /\ leads = {}
    /\ waiting = [r \in Requests |-> {}]
    /\ worker = [w \in Workers |-> Nobody]
    /\ outcome = [r \in Requests |-> [p \in Urls |-> "open"]]
    /\ phase = [r \in Requests |-> "new"]
    /\ edit = [e \in Editors |-> Nobody]
    /\ edits = 0

-----------------------------------------------------------------------------
(* Locks.                                                                  *)

\* Mutant: the URL is locked, the company is not.
ImportKeysOfUrl(name, url) == {<<"project", url>>}

\* projectImportLockKeys; the order they are taken in is LeadLocks' concern.
ImportKeys(name, url) == {<<"company", name>>, <<"project", url>>}

\* The keys of the name the company had when the edit read it, and of the next.
\* Those of a lead without a project do not name the organisation: they are no
\* import's keys.
EditKeys(e) ==
    IF edit[e].url = Nobody
    THEN {<<"company of anyone", n>> : n \in edit[e].names}
    ELSE UNION {ImportKeys(n, edit[e].url) : n \in edit[e].names}

KeysOfWorkers(ws) ==
    UNION {ImportKeys(NameOnPage[worker[w].url], worker[w].url) :
              w \in {v \in ws : worker[v] # Nobody /\ worker[v].stage = "inside"}}

KeysOfEditors(es) ==
    UNION {EditKeys(e) : e \in {d \in es : edit[d] # Nobody /\ edit[d].stage = "inside"}}

-----------------------------------------------------------------------------
(* Pools.                                                                  *)

\* BulkImportProjectsUseCase.execute, ImportProjectUseCase.import.
Start(r) ==
    /\ phase[r] = "new"
    /\ phase' = [phase EXCEPT ![r] = "importing"]
    /\ waiting' = [waiting EXCEPT ![r] = RequestUrls[r]]
    /\ UNCHANGED <<rows, worker, outcome, editVars>>

\* runWithConcurrency: the next item, at once taken from the others.
Take(w) ==
    /\ worker[w] = Nobody
    /\ phase[w[1]] \in {"importing", "analyzing"}
    /\ \E url \in waiting[w[1]] :
        /\ worker' = [worker EXCEPT ![w] =
              [stage |-> IF phase[w[1]] = "importing" THEN "fetching" ELSE "analyzing",
               url |-> url, found |-> Nobody, site |-> "empty"]]
        /\ waiting' = [waiting EXCEPT ![w[1]] = @ \ {url}]
    /\ UNCHANGED <<rows, outcome, phase, editVars>>

Doing(w, stage) == worker[w] # Nobody /\ worker[w].stage = stage

Finish(w, result) ==
    /\ worker' = [worker EXCEPT ![w] = Nobody]
    /\ outcome' = [outcome EXCEPT ![w[1]][worker[w].url] = result]

\* importWithProvider: the page is there and its project is active.
Fetch(w) ==
    /\ Doing(w, "fetching")
    /\ worker' = [worker EXCEPT ![w].stage = "fetched"]
    /\ UNCHANGED <<rows, waiting, outcome, phase, editVars>>

\* Mutant: the error leaves the worker and ends the request.
FailRequest(w) ==
    /\ worker[w] # Nobody
    /\ worker' = [worker EXCEPT ![w] = Nobody]
    /\ phase' = [phase EXCEPT ![w[1]] = "new"]
    /\ waiting' = [waiting EXCEPT ![w[1]] = {}]
    /\ UNCHANGED <<rows, outcome, editVars>>

\* The page is gone or its project ended, the transaction fails, the analysis
\* fails: the item failed, the pool goes on.
Fail(w) ==
    /\ worker[w] # Nobody
    /\ Finish(w, IF worker[w].stage = "analyzing" THEN "analysisFailed" ELSE "failed")
    /\ UNCHANGED <<rows, waiting, phase, editVars>>

\* AiService.analyzeLead (LeadAnalysis).
Analyze(w) ==
    /\ Doing(w, "analyzing")
    /\ Finish(w, "analyzed")
    /\ UNCHANGED <<rows, waiting, phase, editVars>>

PoolIsDone(r) == waiting[r] = {} /\ \A w \in Workers : w[1] = r => worker[w] = Nobody

ImportedBy(r) == {url \in RequestUrls[r] : outcome[r][url] = "imported"}

\* Analysis may be switched off; a bulk import of nothing is recorded, too.
EndImports(r) ==
    /\ r \in Bulks /\ phase[r] = "importing" /\ PoolIsDone(r)
    /\ ImportedBy(r) # {}
    /\ phase' = [phase EXCEPT ![r] = "analyzing"]
    /\ waiting' = [waiting EXCEPT ![r] = ImportedBy(r)]
    /\ UNCHANGED <<rows, worker, outcome, editVars>>

\* recordBulkImportAudit; a single import records its failure.
Record(r) ==
    /\ phase[r] \in {"importing", "analyzing"} /\ PoolIsDone(r)
    /\ phase' = [phase EXCEPT ![r] = "recorded"]
    /\ UNCHANGED <<rows, waiting, worker, outcome, editVars>>

-----------------------------------------------------------------------------
(* persistImportedProject.                                                 *)

Named(name) == {c \in Companies : company[c] # Nobody /\ company[c].name = name}

\* The locks are taken and the company is looked for, in no order.
Enter(w) ==
    /\ Doing(w, "fetched")
    /\ LET url == worker[w].url
           name == NameOnPage[url] IN
       /\ ImportKeys(name, url) \cap (KeysOfWorkers(Workers \ {w}) \cup KeysOfEditors(Editors)) = {}
       /\ \E c \in IF Named(name) = {} THEN {Nobody} ELSE Named(name) :
            worker' = [worker EXCEPT ![w].stage = "inside", ![w].found = c,
                                     ![w].site = IF c = Nobody THEN "empty" ELSE company[c].site]
    /\ UNCHANGED <<rows, waiting, outcome, phase, editVars>>

\* Mutant: the imported site wins.
FilledWithImport(site) == "imported"

Filled(site) == IF site = "empty" THEN "imported" ELSE site

\* The company found keeps what it had when it was read; the project moves to
\* the company; the lead of both is found or created.
Commit(w) ==
    /\ Doing(w, "inside")
    /\ LET url == worker[w].url
           name == NameOnPage[url]
           found == worker[w].found IN
       \E c \in IF found = Nobody THEN {n \in Companies : company[n] = Nobody} ELSE {found} :
          /\ company' = [company EXCEPT ![c] =
                IF found = Nobody THEN [name |-> name, site |-> "imported"]
                ELSE [@ EXCEPT !.site = Filled(worker[w].site)]]
          /\ projects' = [projects EXCEPT ![url] = c]
          /\ leads' = leads \cup {<<c, url>>}
    /\ Finish(w, "imported")
    /\ UNCHANGED <<waiting, phase, editVars>>

-----------------------------------------------------------------------------
(* LeadsService.update with fields of the company.                         *)

\* lead-detail: one edit of a lead at a time; it reads the company's name before
\* it takes the locks of that name.
ReadLead(e) ==
    /\ edit[e] = Nobody /\ edits < MaxEdits
    /\ \E l \in leads, n \in Names :
        /\ \A d \in Editors : edit[d] # Nobody => <<edit[d].company, edit[d].url>> # l
        /\ edit' = [edit EXCEPT ![e] = [stage |-> "read", company |-> l[1], url |-> l[2],
                                        names |-> {company[l[1]].name, n}, name |-> n]]
    /\ edits' = edits + 1
    /\ UNCHANGED <<rows, importVars>>

LockLead(e) ==
    /\ edit[e] # Nobody /\ edit[e].stage = "read"
    /\ EditKeys(e) \cap (KeysOfWorkers(Workers) \cup KeysOfEditors(Editors \ {e})) = {}
    /\ edit' = [edit EXCEPT ![e].stage = "inside"]
    /\ UNCHANGED <<rows, importVars, edits>>

\* The fields of the company that were sent.
CommitEdit(e) ==
    /\ edit[e] # Nobody /\ edit[e].stage = "inside"
    /\ \E site \in {company[edit[e].company].site, "edited"} :
        company' = [company EXCEPT ![edit[e].company] = [name |-> edit[e].name, site |-> site]]
    /\ edit' = [edit EXCEPT ![e] = Nobody]
    /\ UNCHANGED <<projects, leads, importVars, edits>>

\* CompaniesService.create: without a lock, whatever companies there are.
CreateCompany ==
    /\ \E c \in Companies, n \in HandNames :
        /\ company[c] = Nobody
        /\ company' = [company EXCEPT ![c] = [name |-> n, site |-> "edited"]]
    /\ UNCHANGED <<projects, leads, importVars, editVars>>

\* LeadsService.create, for a company and no project.
CreateLead ==
    /\ HandLeads
    /\ \E c \in Companies : company[c] # Nobody /\ leads' = leads \cup {<<c, Nobody>>}
    /\ UNCHANGED <<company, projects, importVars, editVars>>

-----------------------------------------------------------------------------
WorkerStep(w) ==
    \/ Take(w)
    \/ Fetch(w)
    \/ Enter(w)
    \/ Commit(w)
    \/ Analyze(w)
    \/ Fail(w)

RequestStep(r) == Start(r) \/ EndImports(r) \/ Record(r)

EditStep(e) == ReadLead(e) \/ LockLead(e) \/ CommitEdit(e)

Next ==
    \/ \E w \in Workers : WorkerStep(w)
    \/ \E r \in Requests : RequestStep(r)
    \/ \E e \in Editors : EditStep(e)
    \/ CreateCompany
    \/ CreateLead

\* A page answers or times out, a transaction commits or times out, and the
\* event loop resumes whoever may go on.
Fairness ==
    /\ \A w \in Workers : WF_vars(WorkerStep(w))
    /\ \A r \in Requests : WF_vars(EndImports(r) \/ Record(r))
    /\ \A e \in Editors : WF_vars(LockLead(e) \/ CommitEdit(e))

Spec == Init /\ [][Next]_vars /\ Fairness

-----------------------------------------------------------------------------
(* Properties.                                                             *)

\* An import creates a company only while no company of that name exists, however
\* many imports of its projects run at once: the unique name is kept by the lock
\* alone (prisma-project-import.repository.ts:47, 75).  Companies users create or
\* rename without those locks, by hand or with a lead without a project, are not
\* kept from having it, too.
NoSecondCompany ==
    [][\A c \in Companies :
          (company[c] = Nobody /\ company'[c] # Nobody /\ company'[c].name \notin HandNames)
             => \A d \in Named(company'[c].name) : <<d, Nobody>> \in leads]_vars

Overwritten(c) ==
    company[c] # Nobody /\ company[c].site = "edited" /\ company'[c].site # "edited"

\* What a user entered stays: no import that read the company before fills the
\* field in after, as long as all leads of the company have projects and one user
\* edits at a time (the lock keys of persistImportedProject and of
\* LeadsService.update).
ImportKeepsEdits ==
    [][\A c \in Companies : Overwritten(c) => <<c, Nobody>> \in leads]_vars

\* What a user entered stays, whatever lead it was entered with
\* (docs/05_UI.md:72).  Not so: a lead without a project takes keys without the
\* organisation, which exclude no import (leads.service.ts:347, 350), and two
\* users who rename a company take the keys of a name it no longer has (line 344).
EntriesStay == [][\A c \in Companies : ~Overwritten(c)]_vars

\* The summary of a bulk import counts every URL once: at that moment each one has
\* failed or is imported, and each imported one was analysed or not, at most once,
\* and no worker is still busy with any (runWithConcurrency, buildBulkImportSummary).
SummaryAddsUp ==
    [][\A w \in Workers :
          worker[w] # Nobody /\ worker'[w] = Nobody =>
             outcome[w[1]][worker[w].url] = IF worker[w].stage = "analyzing" THEN "imported" ELSE "open"]_vars

\* Every request that began is recorded.
ImportsAreOver == \A r \in Requests : phase[r] \in {"new", "recorded"}
=============================================================================
