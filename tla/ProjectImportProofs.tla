------------------------- MODULE ProjectImportProofs -------------------------
(***************************************************************************)
(* Proofs about ProjectImport, for any number of imports, workers,         *)
(* addresses, companies and editors, and about SourceSearch, for any       *)
(* entries, sources, rounds and limits.                                    *)
(*                                                                         *)
(* Those of the import do not go through the actions one invariant after   *)
(* another.  Four lemmas say once how the state moves: who is inside of    *)
(* the locks has entered or was there before, whose edit it is, who        *)
(* changes a company, and that leads only grow.  The invariant follows     *)
(* from these.                                                             *)
(*                                                                         *)
(* Those of the search begin with the lists it is made of: what InOrder    *)
(* lists, whatever ranks it is given, and hence what is kept, sorted,      *)
(* joined and taken once.  Then one lemma per action says that the crawl   *)
(* keeps to entries of its source and has a result that fits the request,  *)
(* and that the row and the worker take the step of CandidateFeed.         *)
(***************************************************************************)
EXTENDS Candidates, FiniteSetTheorems, SequenceTheorems, TLAPS

-----------------------------------------------------------------------------
(* The invariant.                                                          *)

KeysOf(item) == ImportKeys(NameOnPage[item.url], item.url)

KeysOfEntry(entry) ==
    IF entry.url = Nobody
    THEN {<<"company of anyone", n>> : n \in entry.names}
    ELSE UNION {ImportKeys(n, entry.url) : n \in entry.names}

Editing(e, stage) == edit[e] # Nobody /\ edit[e].stage = stage

\* Locks exclude each other.
Exclusive ==
    /\ \A v, w \in Workers :
          (v # w /\ Doing(v, "inside") /\ Doing(w, "inside"))
             => KeysOf(worker[v]) \cap KeysOf(worker[w]) = {}
    /\ \A w \in Workers, e \in Editors :
          (Doing(w, "inside") /\ Editing(e, "inside"))
             => KeysOf(worker[w]) \cap KeysOfEntry(edit[e]) = {}

ByHand(c) == <<c, Nobody>> \in leads

\* Leads are of companies there are, and an edit is of a lead there is.
LeadsAreSound ==
    /\ \A l \in leads : company[l[1]] # Nobody
    /\ \A e \in Editors : edit[e] # Nobody =>
          <<edit[e].company, edit[e].url>> \in leads /\ edit[e].name \in edit[e].names

\* Whoever found no company goes on finding none, but for those without a lock.
NoneIsThere ==
    \A w \in Workers : (Doing(w, "inside") /\ worker[w].found = Nobody) =>
        \/ NameOnPage[worker[w].url] \in HandNames
        \/ \A d \in Named(NameOnPage[worker[w].url]) : ByHand(d)

FoundIsThere ==
    \A w \in Workers : (Doing(w, "inside") /\ worker[w].found # Nobody) => company[worker[w].found] # Nobody

\* Whoever found a company knows it as it is.
FoundIsCurrent ==
    \A w \in Workers : Doing(w, "inside") =>
        LET c == worker[w].found IN
        (c # Nobody /\ ~ByHand(c)) =>
            company[c].name = NameOnPage[worker[w].url] /\ company[c].site = worker[w].site

\* An edit locks the name its company has.
LockedByName ==
    \A e \in Editors : (edit[e] # Nobody /\ ~ByHand(edit[e].company)) =>
        company[edit[e].company].name \in edit[e].names

Result(stage) == IF stage = "analyzing" THEN "imported" ELSE "open"

\* What is waiting, or with a worker, is there once and has still to be done.
ItemsAreSound ==
    /\ \A r \in Requests : phase[r] \in {"new", "recorded"} => waiting[r] = {}
    /\ \A r \in Requests : phase[r] = "new" => \A url \in Urls : outcome[r][url] = "open"
    /\ \A r \in Requests : \A url \in waiting[r] : outcome[r][url] = Result(phase[r])
    /\ \A w \in Workers : worker[w] # Nobody =>
          /\ phase[w[1]] = IF worker[w].stage = "analyzing" THEN "analyzing" ELSE "importing"
          /\ worker[w].url \notin waiting[w[1]]
          /\ outcome[w[1]][worker[w].url] = Result(worker[w].stage)
    /\ \A v, w \in Workers :
          (v # w /\ v[1] = w[1] /\ worker[v] # Nobody /\ worker[w] # Nobody)
             => worker[v].url # worker[w].url

Sane ==
    /\ TypeOK /\ Exclusive /\ LeadsAreSound /\ NoneIsThere /\ FoundIsThere /\ ItemsAreSound

\* With one editor.
Current == FoundIsCurrent /\ LockedByName

-----------------------------------------------------------------------------
(* Types.                                                                  *)

LEMMA RequestOfWorker == \A w \in Workers : w[1] \in Requests
BY DEF Workers, Requests

LEMMA ItemIsTyped ==
    ASSUME TypeOK, NEW w \in Workers, worker[w] # Nobody
    PROVE  /\ worker[w] \in Item /\ worker[w].url \in Urls /\ worker[w].stage \in WorkerStages
           /\ worker[w].found \in Companies \cup {Nobody} /\ worker[w].site \in Sites
           /\ NameOnPage[worker[w].url] \in Names
BY PagesAreNamed DEF TypeOK, Item

LEMMA EntryIsTyped ==
    ASSUME TypeOK, NEW e \in Editors, edit[e] # Nobody
    PROVE  /\ edit[e] \in Entry /\ edit[e].company \in Companies
           /\ edit[e].url \in Urls \cup {Nobody} /\ edit[e].names \subseteq Names
           /\ edit[e].name \in Names /\ edit[e].stage \in {"read", "inside"}
BY DEF TypeOK, Entry

LEMMA CompanyIsTyped ==
    ASSUME TypeOK, NEW c \in Companies, company[c] # Nobody
    PROVE  company[c] \in Row /\ company[c].name \in Names /\ company[c].site \in Sites
BY DEF TypeOK, Row

LEMMA InitTypes == Init => TypeOK
<1> SUFFICES ASSUME Init PROVE TypeOK
  OBVIOUS
<1>1. edits \in 0..MaxEdits
  BY EditsAreBounded DEF Init
<1>2. outcome \in [Requests -> [Urls -> Outcomes]]
  BY DEF Init, Outcomes
<1> QED
  BY <1>1, <1>2 DEF Init, TypeOK

LEMMA FinishTypes ==
    ASSUME TypeOK, NEW w \in Workers, worker[w] # Nobody, NEW result \in Outcomes, Finish(w, result)
    PROVE  worker' \in [Workers -> Item \cup {Nobody}] /\ outcome' \in [Requests -> [Urls -> Outcomes]]
<1>1. worker[w].url \in Urls /\ w[1] \in Requests
  BY ItemIsTyped, RequestOfWorker
<1>2. worker' \in [Workers -> Item \cup {Nobody}]
  BY DEF Finish, TypeOK
<1>3. [outcome[w[1]] EXCEPT ![worker[w].url] = result] \in [Urls -> Outcomes]
  BY <1>1 DEF TypeOK
<1>4. outcome' = [outcome EXCEPT ![w[1]] = [outcome[w[1]] EXCEPT ![worker[w].url] = result]]
  BY DEF Finish
<1> QED
  BY <1>1, <1>2, <1>3, <1>4 DEF TypeOK

LEMMA WorkerTypes == ASSUME TypeOK, FoundIsThere, NEW w \in Workers, WorkerStep(w) PROVE TypeOK'
<1>0. w[1] \in Requests
  BY RequestOfWorker
<1>1. CASE Take(w)
  <2>1. PICK url \in waiting[w[1]] :
          /\ worker' = [worker EXCEPT ![w] =
                [stage |-> IF phase[w[1]] = "importing" THEN "fetching" ELSE "analyzing",
                 url |-> url, found |-> Nobody, site |-> "empty"]]
          /\ waiting' = [waiting EXCEPT ![w[1]] = @ \ {url}]
    BY <1>1 DEF Take
  <2>2. url \in Urls
    BY <1>0 DEF TypeOK
  <2>3. [stage |-> IF phase[w[1]] = "importing" THEN "fetching" ELSE "analyzing",
         url |-> url, found |-> Nobody, site |-> "empty"] \in Item
    BY <2>2 DEF Item, WorkerStages, Sites
  <2>4. worker' \in [Workers -> Item \cup {Nobody}]
    BY <2>1, <2>3 DEF TypeOK
  <2>5. waiting' \in [Requests -> SUBSET Urls]
    BY <2>1, <1>0 DEF TypeOK
  <2> QED
    BY <1>1, <2>4, <2>5 DEF Take, TypeOK, rows, editVars
<1>2. CASE Fetch(w)
  <2>1. worker[w] \in Item
    BY <1>2, ItemIsTyped DEF Fetch, Doing
  <2>2. [worker[w] EXCEPT !.stage = "fetched"] \in Item
    BY <2>1 DEF Item, WorkerStages
  <2>3. worker' \in [Workers -> Item \cup {Nobody}]
    BY <1>2, <2>2 DEF Fetch, TypeOK
  <2> QED
    BY <1>2, <2>3 DEF Fetch, TypeOK, rows, editVars
<1>3. CASE Enter(w)
  <2>1. PICK c \in IF Named(NameOnPage[worker[w].url]) = {} THEN {Nobody}
                   ELSE Named(NameOnPage[worker[w].url]) :
            worker' = [worker EXCEPT ![w].stage = "inside", ![w].found = c,
                                     ![w].site = IF c = Nobody THEN "empty" ELSE company[c].site]
    BY <1>3 DEF Enter
  <2>2. worker[w] \in Item
    BY <1>3, ItemIsTyped DEF Enter, Doing
  <2>3. c \in Companies \cup {Nobody}
    BY DEF Named
  <2>4. (IF c = Nobody THEN "empty" ELSE company[c].site) \in Sites
    <3>1. CASE c = Nobody
      BY <3>1 DEF Sites
    <3>2. CASE c # Nobody
      BY <3>2, CompanyIsTyped DEF Named
    <3> QED
      BY <3>1, <3>2
  <2>5. [worker[w] EXCEPT !.stage = "inside", !.found = c,
                          !.site = IF c = Nobody THEN "empty" ELSE company[c].site] \in Item
    BY <2>2, <2>3, <2>4 DEF Item, WorkerStages
  <2>6. worker' \in [Workers -> Item \cup {Nobody}]
    BY <2>1, <2>5 DEF TypeOK
  <2> QED
    BY <1>3, <2>6 DEF Enter, TypeOK, rows, editVars
<1>4. CASE Commit(w)
  <2>1. PICK c \in IF worker[w].found = Nobody THEN {n \in Companies : company[n] = Nobody}
                   ELSE {worker[w].found} :
          /\ company' = [company EXCEPT ![c] =
                IF worker[w].found = Nobody
                THEN [name |-> NameOnPage[worker[w].url], site |-> "imported"]
                ELSE [@ EXCEPT !.site = Filled(worker[w].site)]]
          /\ projects' = [projects EXCEPT ![worker[w].url] = c]
          /\ leads' = leads \cup {<<c, worker[w].url>>}
    BY <1>4 DEF Commit
  <2>2. /\ worker[w].url \in Urls /\ NameOnPage[worker[w].url] \in Names
        /\ worker[w].found \in Companies \cup {Nobody} /\ worker[w].site \in Sites
    BY <1>4, ItemIsTyped DEF Commit, Doing
  <2>3. c \in Companies
    BY <2>1, <2>2
  <2>4. company'[c] \in Row \cup {Nobody}
    <3>1. CASE worker[w].found = Nobody
      BY <3>1, <2>1, <2>2, <2>3 DEF Row, Sites, TypeOK
    <3>2. CASE worker[w].found # Nobody
      <4>1. c = worker[w].found /\ company[c] # Nobody
        BY <3>2, <2>1, <1>4 DEF Commit, FoundIsThere
      <4>2. company[c] \in Row
        BY <4>1, <2>3, CompanyIsTyped
      <4>3. Filled(worker[w].site) \in Sites
        BY <2>2 DEF Filled, Sites
      <4>4. [company[c] EXCEPT !.site = Filled(worker[w].site)] \in Row
        BY <4>2, <4>3 DEF Row
      <4>5. company'[c] = [company[c] EXCEPT !.site = Filled(worker[w].site)]
        BY <2>1, <2>3, <3>2 DEF TypeOK
      <4> QED
        BY <4>4, <4>5
    <3> QED
      BY <3>1, <3>2
  <2>5. company' \in [Companies -> Row \cup {Nobody}]
    <3>1. company' = [company EXCEPT ![c] = company'[c]]
      BY <2>1, <2>3 DEF TypeOK
    <3> QED
      BY <3>1, <2>3, <2>4 DEF TypeOK
  <2>6. projects' \in [Urls -> Companies \cup {Nobody}] /\ leads' \subseteq Companies \X (Urls \cup {Nobody})
    BY <2>1, <2>2, <2>3 DEF TypeOK
  <2>7. worker' \in [Workers -> Item \cup {Nobody}] /\ outcome' \in [Requests -> [Urls -> Outcomes]]
    BY <1>4, FinishTypes DEF Commit, Doing, Outcomes
  <2> QED
    BY <1>4, <2>5, <2>6, <2>7 DEF Commit, TypeOK, editVars
<1>5. CASE Analyze(w)
  <2>1. worker' \in [Workers -> Item \cup {Nobody}] /\ outcome' \in [Requests -> [Urls -> Outcomes]]
    BY <1>5, FinishTypes DEF Analyze, Doing, Outcomes
  <2> QED
    BY <1>5, <2>1 DEF Analyze, TypeOK, rows, editVars
<1>6. CASE Fail(w)
  <2>1. worker' \in [Workers -> Item \cup {Nobody}] /\ outcome' \in [Requests -> [Urls -> Outcomes]]
    BY <1>6, FinishTypes DEF Fail, Outcomes
  <2> QED
    BY <1>6, <2>1 DEF Fail, TypeOK, rows, editVars
<1> QED
  BY <1>1, <1>2, <1>3, <1>4, <1>5, <1>6 DEF WorkerStep

LEMMA RequestTypes == ASSUME TypeOK, NEW r \in Requests, RequestStep(r) PROVE TypeOK'
<1>1. CASE Start(r)
  <2>1. RequestUrls[r] \in SUBSET Urls
    BY RequestsAreOfUrls
  <2> QED
    BY <1>1, <2>1 DEF Start, TypeOK, rows, editVars
<1>2. CASE EndImports(r)
  <2>1. ImportedBy(r) \in SUBSET Urls
    BY RequestsAreOfUrls DEF ImportedBy
  <2> QED
    BY <1>2, <2>1 DEF EndImports, TypeOK, rows, editVars
<1>3. CASE Record(r)
  BY <1>3 DEF Record, TypeOK, rows, editVars
<1> QED
  BY <1>1, <1>2, <1>3 DEF RequestStep

LEMMA EditTypes == ASSUME TypeOK, LeadsAreSound, NEW e \in Editors, EditStep(e) PROVE TypeOK'
<1>1. CASE ReadLead(e)
  <2>1. PICK l \in leads, n \in Names :
          edit' = [edit EXCEPT ![e] = [stage |-> "read", company |-> l[1], url |-> l[2],
                                       names |-> {company[l[1]].name, n}, name |-> n]]
    BY <1>1 DEF ReadLead
  <2>2. l[1] \in Companies /\ l[2] \in Urls \cup {Nobody}
    BY DEF TypeOK
  <2>3. company[l[1]].name \in Names
    BY <2>2, CompanyIsTyped DEF LeadsAreSound
  <2>4. [stage |-> "read", company |-> l[1], url |-> l[2],
         names |-> {company[l[1]].name, n}, name |-> n] \in Entry
    BY <2>2, <2>3 DEF Entry
  <2>5. edit' \in [Editors -> Entry \cup {Nobody}]
    BY <2>1, <2>4 DEF TypeOK
  <2>6. edits' \in 0..MaxEdits
    BY <1>1, EditsAreBounded DEF ReadLead, TypeOK
  <2> QED
    BY <1>1, <2>5, <2>6 DEF ReadLead, TypeOK, rows, importVars
<1>2. CASE LockLead(e)
  <2>1. edit[e] \in Entry
    BY <1>2, EntryIsTyped DEF LockLead
  <2>2. [edit[e] EXCEPT !.stage = "inside"] \in Entry
    BY <2>1 DEF Entry
  <2>3. edit' \in [Editors -> Entry \cup {Nobody}]
    BY <1>2, <2>2 DEF LockLead, TypeOK
  <2> QED
    BY <1>2, <2>3 DEF LockLead, TypeOK, rows, importVars
<1>3. CASE CommitEdit(e)
  <2>1. PICK site \in {company[edit[e].company].site, "edited"} :
          company' = [company EXCEPT ![edit[e].company] = [name |-> edit[e].name, site |-> site]]
    BY <1>3 DEF CommitEdit
  <2>2. /\ edit[e].company \in Companies /\ edit[e].name \in Names
        /\ <<edit[e].company, edit[e].url>> \in leads
    BY <1>3, EntryIsTyped DEF CommitEdit, LeadsAreSound
  <2>3. company[edit[e].company] # Nobody
    BY <2>2 DEF LeadsAreSound
  <2>4. site \in Sites
    BY <2>2, <2>3, CompanyIsTyped DEF Sites
  <2>5. company' \in [Companies -> Row \cup {Nobody}]
    BY <2>1, <2>2, <2>4 DEF Row, TypeOK
  <2>6. edit' \in [Editors -> Entry \cup {Nobody}]
    BY <1>3 DEF CommitEdit, TypeOK
  <2> QED
    BY <1>3, <2>5, <2>6 DEF CommitEdit, TypeOK, importVars
<1> QED
  BY <1>1, <1>2, <1>3 DEF EditStep

LEMMA StepTypes == ASSUME TypeOK, FoundIsThere, LeadsAreSound, [Next]_vars PROVE TypeOK'
<1>1. CASE CreateCompany
  <2>1. company' \in [Companies -> Row \cup {Nobody}]
    BY <1>1, HandNamesAreNames DEF CreateCompany, TypeOK, Row, Sites
  <2> QED
    BY <1>1, <2>1 DEF CreateCompany, TypeOK, importVars, editVars
<1>2. CASE CreateLead
  BY <1>2 DEF CreateLead, TypeOK, importVars, editVars
<1>3. CASE UNCHANGED vars
  BY <1>3 DEF vars, rows, importVars, editVars, TypeOK
<1> QED
  BY <1>1, <1>2, <1>3, WorkerTypes, RequestTypes, EditTypes DEF Next

-----------------------------------------------------------------------------
(* How the state moves.                                                    *)

\* Who is inside has entered with this step, or was there before.
LEMMA WorkersMove ==
    ASSUME TypeOK, [Next]_vars, NEW w \in Workers, Doing(w, "inside")'
    PROVE  Enter(w) \/ (Doing(w, "inside") /\ worker'[w] = worker[w])
<1>1. CASE UNCHANGED worker
  BY <1>1 DEF Doing
<1>2. ASSUME NEW v \in Workers, WorkerStep(v) PROVE Enter(w) \/ (Doing(w, "inside") /\ worker'[w] = worker[w])
  <2>1. CASE v # w
    <3>1. worker'[w] = worker[w]
      BY <1>2, <2>1 DEF WorkerStep, Take, Fetch, Enter, Commit, Analyze, Fail, Finish, TypeOK
    <3> QED
      BY <3>1 DEF Doing
  <2>2. CASE v = w
    <3>1. CASE Take(w)
      BY <3>1 DEF Take, Doing, TypeOK
    <3>2. CASE Fetch(w)
      BY <3>2 DEF Fetch, Doing, TypeOK, Item
    <3>3. CASE Commit(w) \/ Analyze(w) \/ Fail(w)
      BY <3>3 DEF Commit, Analyze, Fail, Finish, Doing, TypeOK
    <3> QED
      BY <1>2, <2>2, <3>1, <3>2, <3>3 DEF WorkerStep
  <2> QED
    BY <2>1, <2>2
<1> QED
  BY <1>1, <1>2 DEF Next, RequestStep, Start, EndImports, Record, EditStep, ReadLead, LockLead,
     CommitEdit, CreateCompany, CreateLead, importVars, vars

\* The lead an edit is of, and its names, stay what they were when it was begun.
LEMMA EntriesMove ==
    ASSUME TypeOK, [Next]_vars, NEW e \in Editors, edit'[e] # Nobody
    PROVE  \/ ReadLead(e)
           \/ /\ edit[e] # Nobody
              /\ edit'[e].company = edit[e].company /\ edit'[e].url = edit[e].url
              /\ edit'[e].names = edit[e].names /\ edit'[e].name = edit[e].name
              /\ LockLead(e) \/ edit'[e].stage = edit[e].stage
<1>1. CASE UNCHANGED edit
  BY <1>1
<1>2. ASSUME NEW d \in Editors, EditStep(d), ~ReadLead(e)
      PROVE  /\ edit[e] # Nobody
             /\ edit'[e].company = edit[e].company /\ edit'[e].url = edit[e].url
             /\ edit'[e].names = edit[e].names /\ edit'[e].name = edit[e].name
             /\ LockLead(e) \/ edit'[e].stage = edit[e].stage
  <2>1. CASE d # e
    <3>1. edit'[e] = edit[e]
      BY <1>2, <2>1 DEF EditStep, ReadLead, LockLead, CommitEdit, TypeOK
    <3> QED
      BY <3>1
  <2>2. CASE d = e
    <3>1. ~CommitEdit(e)
      BY DEF CommitEdit, TypeOK
    <3>2. LockLead(e)
      BY <1>2, <2>2, <3>1 DEF EditStep
    <3>3. edit[e] \in Entry /\ edit'[e] = [edit[e] EXCEPT !.stage = "inside"]
      BY <3>2, EntryIsTyped DEF LockLead, TypeOK
    <3> QED
      BY <3>2, <3>3, NobodyIsNone DEF LockLead, Entry
  <2> QED
    BY <2>1, <2>2
<1> QED
  BY <1>1, <1>2 DEF Next, WorkerStep, Take, Fetch, Enter, Commit, Analyze, Fail, RequestStep, Start,
     EndImports, Record, CreateCompany, CreateLead, editVars, vars

\* Companies are created by imports that found none and by hand; an import fills in
\* the site of the company it found, an edit writes the company of its lead.
LEMMA CompaniesMove ==
    ASSUME TypeOK, FoundIsThere, LeadsAreSound, [Next]_vars,
           NEW c \in Companies, company'[c] # company[c]
    PROVE  \/ \E w \in Workers :
                 /\ Commit(w) /\ worker[w].found = c /\ company[c] # Nobody
                 /\ company'[c] = [name |-> company[c].name, site |-> Filled(worker[w].site)]
           \/ \E w \in Workers :
                 /\ Commit(w) /\ worker[w].found = Nobody /\ company[c] = Nobody
                 /\ company'[c] = [name |-> NameOnPage[worker[w].url], site |-> "imported"]
           \/ \E e \in Editors :
                 /\ CommitEdit(e) /\ c = edit[e].company /\ company[c] # Nobody
                 /\ company'[c].name = edit[e].name
                 /\ company'[c].site \in {company[c].site, "edited"}
                 /\ company'[c] # Nobody
           \/ company[c] = Nobody /\ company'[c] # Nobody /\ company'[c].name \in HandNames
<1> DEFINE Filling(w) ==
             /\ Commit(w) /\ worker[w].found = c /\ company[c] # Nobody
             /\ company'[c] = [name |-> company[c].name, site |-> Filled(worker[w].site)]
           Creating(w) ==
             /\ Commit(w) /\ worker[w].found = Nobody /\ company[c] = Nobody
             /\ company'[c] = [name |-> NameOnPage[worker[w].url], site |-> "imported"]
           Writing(e) ==
             /\ CommitEdit(e) /\ c = edit[e].company /\ company[c] # Nobody
             /\ company'[c].name = edit[e].name
             /\ company'[c].site \in {company[c].site, "edited"}
             /\ company'[c] # Nobody
           ByUser == company[c] = Nobody /\ company'[c] # Nobody /\ company'[c].name \in HandNames
<1>1. ASSUME NEW w \in Workers, Commit(w) PROVE Filling(w) \/ Creating(w)
  <2>1. PICK n \in IF worker[w].found = Nobody THEN {k \in Companies : company[k] = Nobody}
                   ELSE {worker[w].found} :
          company' = [company EXCEPT ![n] =
                IF worker[w].found = Nobody
                THEN [name |-> NameOnPage[worker[w].url], site |-> "imported"]
                ELSE [@ EXCEPT !.site = Filled(worker[w].site)]]
    BY <1>1 DEF Commit
  <2>2. n = c
    BY <2>1 DEF TypeOK
  <2>3. CASE worker[w].found = Nobody
    BY <1>1, <2>1, <2>2, <2>3 DEF TypeOK
  <2>4. CASE worker[w].found # Nobody
    <3>1. worker[w].found = c /\ company[c] # Nobody
      BY <1>1, <2>1, <2>2, <2>4 DEF FoundIsThere, Commit
    <3>2. company'[c] = [company[c] EXCEPT !.site = Filled(worker[w].site)]
      BY <2>1, <2>2, <2>4 DEF TypeOK
    <3>3. company[c] \in Row
      BY <3>1 DEF TypeOK
    <3> QED
      BY <1>1, <3>1, <3>2, <3>3 DEF Row
  <2> QED
    BY <2>3, <2>4
<1>2. ASSUME NEW e \in Editors, CommitEdit(e) PROVE Writing(e)
  <2>1. PICK site \in {company[edit[e].company].site, "edited"} :
          company' = [company EXCEPT ![edit[e].company] = [name |-> edit[e].name, site |-> site]]
    BY <1>2 DEF CommitEdit
  <2>2. c = edit[e].company
    BY <2>1 DEF TypeOK
  <2>3. <<c, edit[e].url>> \in leads
    BY <1>2, <2>2 DEF CommitEdit, LeadsAreSound
  <2>4. company[c] # Nobody
    BY <2>3 DEF LeadsAreSound
  <2>5. company'[c] = [name |-> edit[e].name, site |-> site]
    BY <2>1, <2>2 DEF TypeOK
  <2>6. [name |-> edit[e].name, site |-> site] \in Row
    BY <1>2, <2>1, <2>2, <2>4, EntryIsTyped, CompanyIsTyped DEF Row, Sites, CommitEdit
  <2> QED
    BY <1>2, <2>1, <2>2, <2>4, <2>5, <2>6, NobodyIsNone
<1>3. CASE CreateCompany
  <2>1. ByUser
    <3>1. PICK k \in Companies, n \in HandNames :
            company[k] = Nobody /\ company' = [company EXCEPT ![k] = [name |-> n, site |-> "edited"]]
      BY <1>3 DEF CreateCompany
    <3>2. k = c /\ company'[c] = [name |-> n, site |-> "edited"]
      BY <3>1 DEF TypeOK
    <3>3. [name |-> n, site |-> "edited"] \in Row
      BY HandNamesAreNames DEF Row, Sites
    <3> QED
      BY <3>1, <3>2, <3>3, NobodyIsNone
  <2> QED
    BY <2>1
<1> QED
  BY <1>1, <1>2, <1>3 DEF Next, WorkerStep, Take, Fetch, Enter, Analyze, Fail, RequestStep, Start,
     EndImports, Record, EditStep, ReadLead, LockLead, CreateLead, rows, vars

LEMMA CompaniesStay ==
    ASSUME TypeOK, FoundIsThere, LeadsAreSound, [Next]_vars,
           NEW c \in Companies, company[c] # Nobody
    PROVE  company'[c] # Nobody
<1>1. CASE company'[c] = company[c]
  BY <1>1
<1>2. CASE company'[c] # company[c]
  <2>1. ASSUME NEW w \in Workers, Commit(w), worker[w].found = c,
               company'[c] = [name |-> company[c].name, site |-> Filled(worker[w].site)]
        PROVE  company'[c] # Nobody
    <3>1. company[c].name \in Names /\ Filled(worker[w].site) \in Sites
      BY <2>1, CompanyIsTyped, ItemIsTyped DEF Commit, Doing, Filled, Sites
    <3>2. company'[c] \in Row
      BY <2>1, <3>1 DEF Row
    <3> QED
      BY <3>2, NobodyIsNone
  <2> QED
    BY <1>2, <2>1, CompaniesMove
<1> QED
  BY <1>1, <1>2

LEMMA LeadsMove ==
    ASSUME TypeOK, FoundIsThere, LeadsAreSound, [Next]_vars
    PROVE  leads \subseteq leads' /\ \A l \in leads' : company'[l[1]] # Nobody
<1>1. \A l \in leads : company'[l[1]] # Nobody
  <2>1. \A l \in leads : l[1] \in Companies /\ company[l[1]] # Nobody
    BY DEF TypeOK, LeadsAreSound
  <2> QED
    BY <2>1, CompaniesStay
<1>2. ASSUME NEW w \in Workers, Commit(w)
      PROVE  leads \subseteq leads' /\ \A l \in leads' \ leads : company'[l[1]] # Nobody
  <2>1. PICK c \in IF worker[w].found = Nobody THEN {n \in Companies : company[n] = Nobody}
                   ELSE {worker[w].found} :
          /\ company' = [company EXCEPT ![c] =
                IF worker[w].found = Nobody
                THEN [name |-> NameOnPage[worker[w].url], site |-> "imported"]
                ELSE [@ EXCEPT !.site = Filled(worker[w].site)]]
          /\ leads' = leads \cup {<<c, worker[w].url>>}
    BY <1>2 DEF Commit
  <2>2. c \in Companies /\ NameOnPage[worker[w].url] \in Names
    BY <1>2, <2>1, ItemIsTyped DEF Commit, Doing
  <2>3. company'[c] # Nobody
    <3>1. CASE worker[w].found = Nobody
      <4>1. company'[c] = [name |-> NameOnPage[worker[w].url], site |-> "imported"]
        BY <2>1, <2>2, <3>1 DEF TypeOK
      <4>2. company'[c] \in Row
        BY <4>1, <2>2 DEF Row, Sites
      <4> QED
        BY <4>2, NobodyIsNone
    <3>2. CASE worker[w].found # Nobody
      <4>1. company[c] # Nobody
        BY <1>2, <2>1, <3>2 DEF Commit, FoundIsThere
      <4> QED
        BY <4>1, <2>2, CompaniesStay
    <3> QED
      BY <3>1, <3>2
  <2> QED
    BY <2>1, <2>3
<1>3. CASE CreateLead
  <2>1. PICK c \in Companies : company[c] # Nobody /\ leads' = leads \cup {<<c, Nobody>>}
    BY <1>3 DEF CreateLead
  <2>2. company'[c] # Nobody
    BY <1>3, <2>1 DEF CreateLead
  <2> QED
    BY <1>1, <2>1, <2>2
<1>4. CASE UNCHANGED leads
  BY <1>1, <1>4
<1> QED
  BY <1>1, <1>2, <1>3, <1>4 DEF Next, WorkerStep, Take, Fetch, Enter, Analyze, Fail, RequestStep, Start,
     EndImports, Record, EditStep, ReadLead, LockLead, CommitEdit, CreateCompany, rows, vars

-----------------------------------------------------------------------------
(* The invariant is inductive.                                             *)

LEMMA GroundStays ==
    ASSUME TypeOK, FoundIsThere, LeadsAreSound, [Next]_vars
    PROVE  FoundIsThere' /\ LeadsAreSound'
<1>1. ASSUME NEW w \in Workers, Doing(w, "inside")', worker'[w].found # Nobody
      PROVE  company'[worker'[w].found] # Nobody
  <2>1. CASE Doing(w, "inside") /\ worker'[w] = worker[w]
    <3>1. worker[w].found \in Companies /\ company[worker[w].found] # Nobody
      BY <1>1, <2>1, ItemIsTyped DEF FoundIsThere, Doing
    <3> QED
      BY <2>1, <3>1, CompaniesStay
  <2>2. CASE Enter(w)
    <3>1. PICK c \in IF Named(NameOnPage[worker[w].url]) = {} THEN {Nobody}
                     ELSE Named(NameOnPage[worker[w].url]) :
              worker' = [worker EXCEPT ![w].stage = "inside", ![w].found = c,
                                       ![w].site = IF c = Nobody THEN "empty" ELSE company[c].site]
      BY <2>2 DEF Enter
    <3>2. worker[w] \in Item
      BY <2>2, ItemIsTyped DEF Enter, Doing
    <3>3. worker'[w].found = c
      BY <3>1, <3>2 DEF TypeOK, Item
    <3>4. company[c] # Nobody /\ UNCHANGED company
      BY <1>1, <2>2, <3>1, <3>3 DEF Named, Enter, rows
    <3> QED
      BY <3>3, <3>4
  <2> QED
    BY <1>1, <2>1, <2>2, WorkersMove
<1>2. ASSUME NEW e \in Editors, edit'[e] # Nobody
      PROVE  <<edit'[e].company, edit'[e].url>> \in leads' /\ edit'[e].name \in edit'[e].names
  <2>1. CASE ReadLead(e)
    <3>1. PICK l \in leads, n \in Names :
            edit' = [edit EXCEPT ![e] = [stage |-> "read", company |-> l[1], url |-> l[2],
                                         names |-> {company[l[1]].name, n}, name |-> n]]
      BY <2>1 DEF ReadLead
    <3>2. /\ edit'[e].company = l[1] /\ edit'[e].url = l[2] /\ edit'[e].name = n
          /\ edit'[e].names = {company[l[1]].name, n}
      BY <3>1 DEF TypeOK
    <3>3. l = <<l[1], l[2]>>
      BY DEF TypeOK
    <3>4. UNCHANGED leads
      BY <2>1 DEF ReadLead, rows
    <3> QED
      BY <3>2, <3>3, <3>4
  <2>2. CASE ~ReadLead(e)
    BY <1>2, <2>2, EntriesMove, LeadsMove DEF LeadsAreSound
  <2> QED
    BY <2>1, <2>2
<1>3. FoundIsThere'
  BY <1>1 DEF FoundIsThere
<1>4. LeadsAreSound'
  BY <1>2, LeadsMove DEF LeadsAreSound
<1> QED
  BY <1>3, <1>4

LEMMA KeysAreHeld ==
    /\ \A ws : \A w \in ws : Doing(w, "inside") => KeysOf(worker[w]) \subseteq KeysOfWorkers(ws)
    /\ \A es : \A e \in es : Editing(e, "inside") => KeysOfEntry(edit[e]) \subseteq KeysOfEditors(es)
    /\ \A e : EditKeys(e) = KeysOfEntry(edit[e])
BY ZenonT(60) DEF KeysOf, KeysOfWorkers, KeysOfEntry, KeysOfEditors, EditKeys, Doing, Editing

LEMMA EntersAlone ==
    ASSUME TypeOK, NEW w \in Workers, Enter(w)
    PROVE  /\ KeysOf(worker[w]) \cap (KeysOfWorkers(Workers \ {w}) \cup KeysOfEditors(Editors)) = {}
           /\ worker'[w].url = worker[w].url
           /\ \A v \in Workers \ {w} : worker'[v] = worker[v]
           /\ UNCHANGED <<rows, edit, edits>>
<1>1. PICK c : worker' = [worker EXCEPT ![w].stage = "inside", ![w].found = c,
                                        ![w].site = IF c = Nobody THEN "empty" ELSE company[c].site]
  BY DEF Enter
<1>2. worker[w] \in Item
  BY ItemIsTyped DEF Enter, Doing
<1>3. worker'[w].url = worker[w].url /\ \A v \in Workers \ {w} : worker'[v] = worker[v]
  BY <1>1, <1>2 DEF TypeOK, Item
<1> QED
  BY <1>3 DEF Enter, KeysOf, editVars

LEMMA SameKeys ==
    \A i, k : i.url = k.url => KeysOf(i) = KeysOf(k)
BY DEF KeysOf

\* Who holds the same name holds the same key.
LEMMA NamesExclude ==
    /\ \A i, k : KeysOf(i) \cap KeysOf(k) = {} => NameOnPage[i.url] # NameOnPage[k.url]
    /\ \A i, x : (x.url # Nobody /\ KeysOf(i) \cap KeysOfEntry(x) = {})
                    => NameOnPage[i.url] \notin x.names
<1>1. \A i : <<"company", NameOnPage[i.url]>> \in KeysOf(i)
  BY DEF KeysOf, ImportKeys
<1>2. \A x : x.url # Nobody => \A n \in x.names : <<"company", n>> \in KeysOfEntry(x)
  BY DEF KeysOfEntry, ImportKeys
<1>3. \A i, k : KeysOf(i) \cap KeysOf(k) = {} => NameOnPage[i.url] # NameOnPage[k.url]
  BY <1>1
<1>4. \A i, x : (x.url # Nobody /\ KeysOf(i) \cap KeysOfEntry(x) = {})
                   => NameOnPage[i.url] \notin x.names
  BY <1>1, <1>2
<1> QED
  BY <1>3, <1>4

LEMMA LocksExclude ==
    ASSUME TypeOK, Exclusive, [Next]_vars
    PROVE  Exclusive'
<1>1. ASSUME NEW v \in Workers, NEW w \in Workers, v # w, Doing(v, "inside")', Doing(w, "inside")'
      PROVE  KeysOf(worker'[v]) \cap KeysOf(worker'[w]) = {}
  <2>1. ASSUME NEW a \in Workers, NEW b \in Workers, a # b, Enter(a), Doing(b, "inside")'
        PROVE  KeysOf(worker'[a]) \cap KeysOf(worker'[b]) = {}
    <3>1. worker'[b] = worker[b] /\ Doing(b, "inside")
      BY <2>1, EntersAlone DEF Doing
    <3>2. KeysOf(worker[a]) \cap KeysOf(worker[b]) = {}
      BY <2>1, <3>1, EntersAlone, KeysAreHeld
    <3>3. KeysOf(worker'[a]) = KeysOf(worker[a])
      BY <2>1, EntersAlone, SameKeys
    <3> QED
      BY <3>1, <3>2, <3>3
  <2>2. CASE Enter(v) \/ Enter(w)
    BY <1>1, <2>1, <2>2
  <2>3. CASE ~Enter(v) /\ ~Enter(w)
    BY <1>1, <2>3, WorkersMove DEF Exclusive
  <2> QED
    BY <2>2, <2>3
<1>2. ASSUME NEW w \in Workers, NEW e \in Editors, Doing(w, "inside")', Editing(e, "inside")'
      PROVE  KeysOf(worker'[w]) \cap KeysOfEntry(edit'[e]) = {}
  <2>1. CASE Enter(w)
    <3>1. edit'[e] = edit[e] /\ Editing(e, "inside")
      BY <1>2, <2>1, EntersAlone DEF Editing
    <3>2. KeysOf(worker[w]) \cap KeysOfEntry(edit[e]) = {}
      BY <2>1, <3>1, EntersAlone, KeysAreHeld
    <3> QED
      BY <2>1, <3>1, <3>2, EntersAlone, SameKeys
  <2>2. CASE ~Enter(w)
    <3>1. Doing(w, "inside") /\ worker'[w] = worker[w]
      BY <1>2, <2>2, WorkersMove
    <3>2. ~ReadLead(e)
      BY <1>2 DEF ReadLead, Editing, TypeOK
    <3>3. /\ edit[e] # Nobody /\ edit'[e].url = edit[e].url /\ edit'[e].names = edit[e].names
          /\ LockLead(e) \/ edit'[e].stage = edit[e].stage
      BY <1>2, <3>2, EntriesMove DEF Editing
    <3>4. KeysOfEntry(edit'[e]) = KeysOfEntry(edit[e])
      BY <3>3 DEF KeysOfEntry
    <3>5. CASE LockLead(e)
      <4>1. KeysOfEntry(edit[e]) \cap KeysOfWorkers(Workers) = {}
        BY <3>5, KeysAreHeld DEF LockLead
      <4> QED
        BY <3>1, <3>4, <4>1, KeysAreHeld
    <3>6. CASE edit'[e].stage = edit[e].stage
      BY <1>2, <3>1, <3>3, <3>4, <3>6 DEF Exclusive, Editing
    <3> QED
      BY <3>3, <3>5, <3>6
  <2> QED
    BY <2>1, <2>2
<1> QED
  BY <1>1, <1>2 DEF Exclusive

LEMMA NoneStaysThere ==
    ASSUME TypeOK, Exclusive, LeadsAreSound, FoundIsThere, NoneIsThere, [Next]_vars
    PROVE  NoneIsThere'
<1> SUFFICES ASSUME NEW w \in Workers, Doing(w, "inside")', worker'[w].found = Nobody,
                    NameOnPage[worker'[w].url] \notin HandNames,
                    NEW d \in Companies, company'[d] # Nobody,
                    company'[d].name = NameOnPage[worker'[w].url]
             PROVE  ByHand(d)'
  BY DEF NoneIsThere, Named
<1>1. CASE Enter(w)
  <2>1. PICK c \in IF Named(NameOnPage[worker[w].url]) = {} THEN {Nobody}
                   ELSE Named(NameOnPage[worker[w].url]) :
            worker' = [worker EXCEPT ![w].stage = "inside", ![w].found = c,
                                     ![w].site = IF c = Nobody THEN "empty" ELSE company[c].site]
    BY <1>1 DEF Enter
  <2>2. worker[w] \in Item
    BY <1>1, ItemIsTyped DEF Enter, Doing
  <2>3. worker'[w].found = c
    BY <2>1, <2>2 DEF TypeOK, Item
  <2>4. d \in Named(NameOnPage[worker[w].url])
    BY <1>1, EntersAlone DEF Named, rows
  <2>5. c \in Companies
    BY <2>1, <2>4 DEF Named
  <2> QED
    BY <2>3, <2>5, NobodyIsNone
<1>2. CASE Doing(w, "inside") /\ worker'[w] = worker[w]
  <2>1. \A c \in Named(NameOnPage[worker[w].url]) : ByHand(c)
    BY <1>2 DEF NoneIsThere
  <2>2. ByHand(d) => ByHand(d)'
    BY LeadsMove DEF ByHand
  <2>3. CASE company'[d] = company[d]
    BY <1>2, <2>1, <2>2, <2>3 DEF Named
  <2>4. CASE company'[d] # company[d]
    <3>1. ASSUME NEW v \in Workers, Commit(v), company[d] # Nobody,
                 company'[d] = [name |-> company[d].name, site |-> Filled(worker[v].site)]
          PROVE  ByHand(d)'
      BY <1>2, <2>1, <2>2, <3>1 DEF Named
    <3>2. ASSUME NEW v \in Workers, Commit(v), company[d] = Nobody,
                 company'[d] = [name |-> NameOnPage[worker[v].url], site |-> "imported"]
          PROVE  FALSE
      <4>1. v # w
        BY <1>2, <3>2 DEF Commit, Finish, Doing, TypeOK
      <4>2. KeysOf(worker[v]) \cap KeysOf(worker[w]) = {}
        BY <1>2, <3>2, <4>1 DEF Exclusive, Commit
      <4> QED
        BY <1>2, <3>2, <4>2, NamesExclude
    <3>3. ASSUME NEW e \in Editors, CommitEdit(e), d = edit[e].company, company'[d].name = edit[e].name
          PROVE  ByHand(d)'
      <4>1. <<d, edit[e].url>> \in leads /\ edit[e].name \in edit[e].names
        BY <3>3 DEF LeadsAreSound, CommitEdit
      <4>2. CASE edit[e].url = Nobody
        BY <2>2, <4>1, <4>2 DEF ByHand
      <4>3. CASE edit[e].url # Nobody
        <5>1. KeysOf(worker[w]) \cap KeysOfEntry(edit[e]) = {}
          BY <1>2, <3>3 DEF Exclusive, CommitEdit, Editing
        <5> QED
          BY <1>2, <3>3, <4>1, <4>3, <5>1, NamesExclude
      <4> QED
        BY <4>2, <4>3
    <3> QED
      BY <2>4, <3>1, <3>2, <3>3, CompaniesMove
  <2> QED
    BY <2>3, <2>4
<1> QED
  BY <1>1, <1>2, WorkersMove

\* A worker that stayed inside still knows the company it found: whoever else fills in
\* or renames that company holds the key of its name.
LEMMA FoundStaysCurrent ==
    ASSUME TypeOK, Sane, Current, [Next]_vars
    PROVE  FoundIsCurrent'
<1> USE DEF Sane, Current
<1> SUFFICES ASSUME NEW w \in Workers, Doing(w, "inside")',
                    worker'[w].found # Nobody, <<worker'[w].found, Nobody>> \notin leads'
             PROVE  /\ company'[worker'[w].found].name = NameOnPage[worker'[w].url]
                    /\ company'[worker'[w].found].site = worker'[w].site
  BY DEF FoundIsCurrent, ByHand
<1>1. CASE Enter(w)
  <2>1. PICK c \in IF Named(NameOnPage[worker[w].url]) = {} THEN {Nobody}
                   ELSE Named(NameOnPage[worker[w].url]) :
            worker' = [worker EXCEPT ![w].stage = "inside", ![w].found = c,
                                     ![w].site = IF c = Nobody THEN "empty" ELSE company[c].site]
    BY <1>1 DEF Enter
  <2>2. worker[w] \in Item
    BY <1>1, ItemIsTyped DEF Enter, Doing
  <2>3. /\ worker'[w].found = c /\ worker'[w].url = worker[w].url
        /\ worker'[w].site = IF c = Nobody THEN "empty" ELSE company[c].site
    BY <2>1, <2>2 DEF TypeOK, Item
  <2>4. c \in Named(NameOnPage[worker[w].url])
    BY <2>1, <2>3
  <2>5. UNCHANGED company
    BY <1>1 DEF Enter, rows
  <2> QED
    BY <2>3, <2>4, <2>5 DEF Named
<1>2. CASE Doing(w, "inside") /\ worker'[w] = worker[w]
  <2> DEFINE c == worker[w].found
  <2>1. c \in Companies /\ company[c] # Nobody /\ ~ByHand(c)
    BY <1>2, ItemIsTyped, LeadsMove DEF ByHand, Doing, FoundIsThere
  <2>2. company[c].name = NameOnPage[worker[w].url] /\ company[c].site = worker[w].site
    BY <1>2, <2>1 DEF FoundIsCurrent
  <2>3. CASE company'[c] = company[c]
    BY <1>2, <2>2, <2>3
  <2>4. CASE company'[c] # company[c]
    <3>1. ASSUME NEW v \in Workers, Commit(v), worker[v].found = c
          PROVE  FALSE
      <4>1. v # w
        BY <1>2, <3>1 DEF Commit, Finish, Doing, TypeOK
      <4>2. company[c].name = NameOnPage[worker[v].url]
        BY <2>1, <3>1, NobodyIsNone DEF FoundIsCurrent, Commit
      <4>3. KeysOf(worker[v]) \cap KeysOf(worker[w]) = {}
        BY <1>2, <3>1, <4>1 DEF Exclusive, Commit
      <4> QED
        BY <2>2, <4>2, <4>3, NamesExclude
    <3>2. ASSUME NEW e \in Editors, CommitEdit(e), c = edit[e].company
          PROVE  FALSE
      <4>1. edit[e].url # Nobody
        BY <2>1, <3>2 DEF CommitEdit, LeadsAreSound, ByHand
      <4>2. company[c].name \in edit[e].names
        BY <2>1, <3>2 DEF CommitEdit, LockedByName
      <4>3. KeysOf(worker[w]) \cap KeysOfEntry(edit[e]) = {}
        BY <1>2, <3>2 DEF Exclusive, CommitEdit, Editing
      <4> QED
        BY <2>2, <4>1, <4>2, <4>3, NamesExclude
    <3> QED
      BY <2>1, <2>4, <3>1, <3>2, CompaniesMove
  <2> QED
    BY <2>3, <2>4
<1> QED
  BY <1>1, <1>2, WorkersMove

\* An edit that nobody else's comes between holds the name its company has.
LEMMA NameStaysLocked ==
    ASSUME Sane, Current, [Next]_vars, \A d, e \in Editors : d = e
    PROVE  LockedByName'
<1> USE DEF Sane, Current
<1> SUFFICES ASSUME NEW e \in Editors, edit'[e] # Nobody, <<edit'[e].company, Nobody>> \notin leads'
             PROVE  company'[edit'[e].company].name \in edit'[e].names
  BY DEF LockedByName, ByHand
<1>1. CASE ReadLead(e)
  <2>1. PICK l \in leads, n \in Names :
          edit' = [edit EXCEPT ![e] = [stage |-> "read", company |-> l[1], url |-> l[2],
                                       names |-> {company[l[1]].name, n}, name |-> n]]
    BY <1>1 DEF ReadLead
  <2>2. edit'[e].company = l[1] /\ edit'[e].names = {company[l[1]].name, n}
    BY <2>1 DEF TypeOK
  <2>3. UNCHANGED company
    BY <1>1 DEF ReadLead, rows
  <2> QED
    BY <2>2, <2>3
<1>2. CASE ~ReadLead(e)
  <2> DEFINE c == edit[e].company
  <2>1. edit[e] # Nobody /\ edit'[e].company = c /\ edit'[e].names = edit[e].names
    BY <1>2, EntriesMove
  <2>2. ~ByHand(c)
    BY <2>1, LeadsMove DEF ByHand
  <2>3. c \in Companies /\ company[c] # Nobody
    BY <2>1, EntryIsTyped DEF LeadsAreSound
  <2>4. company[c].name \in edit[e].names
    BY <2>1, <2>2 DEF LockedByName
  <2>5. CASE company'[c] = company[c]
    BY <2>1, <2>4, <2>5
  <2>6. CASE company'[c] # company[c]
    <3>1. ASSUME NEW f \in Editors, CommitEdit(f) PROVE FALSE
      <4>1. f = e
        OBVIOUS
      <4> QED
        BY <3>1, <4>1 DEF CommitEdit, TypeOK
    <3>2. PICK w \in Workers : company'[c] = [name |-> company[c].name, site |-> Filled(worker[w].site)]
      BY <2>3, <2>6, <3>1, CompaniesMove
    <3> QED
      BY <2>1, <2>4, <3>2
  <2> QED
    BY <2>5, <2>6
<1> QED
  BY <1>1, <1>2

LEMMA ItemsStaySound ==
    ASSUME TypeOK, ItemsAreSound, [Next]_vars
    PROVE  ItemsAreSound'
<1>0. \A w \in Workers : w[1] \in Requests
  BY RequestOfWorker
<1>1. ASSUME NEW w \in Workers, Take(w) PROVE ItemsAreSound'
  <2> DEFINE r == w[1]
             stage == IF phase[r] = "importing" THEN "fetching" ELSE "analyzing"
  <2>1. PICK url \in waiting[r] :
          /\ worker' = [worker EXCEPT ![w] = [stage |-> stage, url |-> url, found |-> Nobody, site |-> "empty"]]
          /\ waiting' = [waiting EXCEPT ![r] = @ \ {url}]
    BY <1>1 DEF Take
  <2>2. /\ UNCHANGED <<outcome, phase>> /\ phase[r] \in {"importing", "analyzing"} /\ worker[w] = Nobody
        /\ r \in Requests /\ url \in Urls
    BY <1>0, <1>1 DEF Take, TypeOK
  <2>3. /\ worker'[w].stage = stage /\ worker'[w].url = url
        /\ \A v \in Workers \ {w} : worker'[v] = worker[v]
    BY <2>1 DEF TypeOK
  <2>4. \A q \in Requests : waiting'[q] = IF q = r THEN waiting[q] \ {url} ELSE waiting[q]
    BY <2>1, <2>2 DEF TypeOK
  <2>5. \A q \in Requests : phase'[q] \in {"new", "recorded"} => waiting'[q] = {}
    BY <2>2, <2>4 DEF ItemsAreSound
  <2>6. \A q \in Requests : phase'[q] = "new" => \A u \in Urls : outcome'[q][u] = "open"
    BY <2>2 DEF ItemsAreSound
  <2>7. \A q \in Requests : \A u \in waiting'[q] : outcome'[q][u] = Result(phase'[q])
    <3>1. \A q \in Requests : \A u \in waiting[q] : outcome[q][u] = Result(phase[q])
      BY DEF ItemsAreSound
    <3>2. \A q \in Requests : waiting'[q] \subseteq waiting[q]
      BY <2>4
    <3> QED
      BY <2>2, <3>1, <3>2 DEF Result
  <2>8. /\ phase[r] = IF stage = "analyzing" THEN "analyzing" ELSE "importing"
        /\ url \notin waiting'[r] /\ outcome[r][url] = Result(stage)
    <3>1. outcome[r][url] = Result(phase[r])
      BY <2>2 DEF ItemsAreSound
    <3> QED
      BY <2>2, <2>4, <3>1 DEF Result
  <2>9. ASSUME NEW v \in Workers, worker'[v] # Nobody
        PROVE  /\ phase'[v[1]] = IF worker'[v].stage = "analyzing" THEN "analyzing" ELSE "importing"
               /\ worker'[v].url \notin waiting'[v[1]]
               /\ outcome'[v[1]][worker'[v].url] = Result(worker'[v].stage)
    <3>1. CASE v = w
      BY <2>2, <2>3, <2>8, <3>1
    <3>2. CASE v # w
      <4>1. worker'[v] = worker[v] /\ v[1] \in Requests
        BY <1>0, <2>3, <3>2
      <4>2. waiting'[v[1]] \subseteq waiting[v[1]]
        BY <2>4, <4>1
      <4> QED
        BY <2>2, <2>9, <4>1, <4>2 DEF ItemsAreSound
    <3> QED
      BY <3>1, <3>2
  <2>10. ASSUME NEW v \in Workers, NEW u \in Workers, v # u, v[1] = u[1], worker'[v] # Nobody, worker'[u] # Nobody
         PROVE  worker'[v].url # worker'[u].url
    BY <2>2, <2>3, <2>10 DEF ItemsAreSound
  <2> QED
    BY <2>5, <2>6, <2>7, <2>9, <2>10 DEF ItemsAreSound, Result
<1>2. ASSUME NEW w \in Workers, Fetch(w) \/ Enter(w) PROVE ItemsAreSound'
  <2>1. worker[w] \in Item /\ worker[w].stage \in {"fetching", "fetched"}
    BY <1>2, ItemIsTyped DEF Fetch, Enter, Doing
  <2>2. /\ worker'[w].url = worker[w].url /\ worker'[w].stage \in {"fetched", "inside"}
        /\ \A v \in Workers \ {w} : worker'[v] = worker[v]
    <3>1. CASE Fetch(w)
      BY <2>1, <3>1 DEF Fetch, TypeOK, Item
    <3>2. CASE Enter(w)
      <4>1. PICK c : worker' = [worker EXCEPT ![w].stage = "inside", ![w].found = c,
                                  ![w].site = IF c = Nobody THEN "empty" ELSE company[c].site]
        BY <3>2 DEF Enter
      <4> QED
        BY <2>1, <4>1 DEF TypeOK, Item
    <3> QED
      BY <1>2, <3>1, <3>2
  <2>3. UNCHANGED <<waiting, outcome, phase>>
    BY <1>2 DEF Fetch, Enter
  <2>4. worker[w] # Nobody
    BY <1>2 DEF Fetch, Enter, Doing
  <2>5. \A v \in Workers : worker'[v] # Nobody =>
          /\ worker[v] # Nobody /\ worker'[v].url = worker[v].url
          /\ (worker'[v].stage = "analyzing") <=> (worker[v].stage = "analyzing")
    BY <2>1, <2>2, <2>4
  <2> QED
    BY <2>3, <2>5 DEF ItemsAreSound, Result
<1>3. ASSUME NEW w \in Workers, Commit(w) \/ Analyze(w) \/ Fail(w) PROVE ItemsAreSound'
  <2> DEFINE r == w[1]
             url == worker[w].url
  <2>1. PICK result : Finish(w, result)
    BY <1>3 DEF Commit, Analyze, Fail
  <2>2. worker[w] # Nobody /\ UNCHANGED <<waiting, phase>> /\ r \in Requests /\ url \in Urls
    BY <1>0, <1>3, ItemIsTyped DEF Commit, Analyze, Fail, Doing
  <2>3. worker'[w] = Nobody /\ \A v \in Workers \ {w} : worker'[v] = worker[v]
    BY <2>1 DEF Finish, TypeOK
  <2>4. \A q \in Requests, u \in Urls : (q # r \/ u # url) => outcome'[q][u] = outcome[q][u]
    BY <2>1, <2>2 DEF Finish, TypeOK
  <2>5. phase[r] # "new"
    BY <2>2 DEF ItemsAreSound
  <2>6. \A q \in Requests : phase'[q] = "new" => \A u \in Urls : outcome'[q][u] = "open"
    BY <2>2, <2>4, <2>5 DEF ItemsAreSound
  <2>7. \A q \in Requests : \A u \in waiting'[q] : outcome'[q][u] = Result(phase'[q])
    <3>1. url \notin waiting[r]
      BY <2>2 DEF ItemsAreSound
    <3>2. \A q \in Requests : waiting[q] \subseteq Urls
      BY DEF TypeOK
    <3> QED
      BY <2>2, <2>4, <3>1, <3>2 DEF ItemsAreSound
  <2>8. ASSUME NEW v \in Workers, worker'[v] # Nobody
        PROVE  /\ phase'[v[1]] = IF worker'[v].stage = "analyzing" THEN "analyzing" ELSE "importing"
               /\ worker'[v].url \notin waiting'[v[1]]
               /\ outcome'[v[1]][worker'[v].url] = Result(worker'[v].stage)
    <3>1. v # w /\ worker'[v] = worker[v]
      BY <2>3, <2>8
    <3>2. v[1] # r \/ worker[v].url # url
      BY <2>2, <2>8, <3>1 DEF ItemsAreSound
    <3>3. worker[v].url \in Urls /\ v[1] \in Requests
      BY <1>0, <2>8, <3>1, ItemIsTyped
    <3>4. outcome'[v[1]][worker[v].url] = outcome[v[1]][worker[v].url]
      BY <2>4, <3>2, <3>3
    <3> QED
      BY <2>2, <2>8, <3>1, <3>4 DEF ItemsAreSound
  <2> QED
    BY <2>2, <2>3, <2>6, <2>7, <2>8 DEF ItemsAreSound, Result
<1>4. ASSUME NEW r \in Requests, RequestStep(r) PROVE ItemsAreSound'
  <2>1. UNCHANGED <<worker, outcome>>
    BY <1>4 DEF RequestStep, Start, EndImports, Record
  <2>2. \A w \in Workers : worker[w] # Nobody => w[1] # r
    <3>1. CASE Start(r)
      BY <3>1 DEF Start, ItemsAreSound
    <3>2. CASE EndImports(r) \/ Record(r)
      BY <3>2 DEF EndImports, Record, PoolIsDone
    <3> QED
      BY <1>4, <3>1, <3>2 DEF RequestStep
  <2>3. \A q \in Requests \ {r} : phase'[q] = phase[q] /\ waiting'[q] = waiting[q]
    BY <1>4 DEF RequestStep, Start, EndImports, Record, TypeOK
  <2>4. /\ phase'[r] \in {"importing", "analyzing", "recorded"}
        /\ phase'[r] = "recorded" => waiting'[r] = {}
        /\ \A url \in waiting'[r] : outcome[r][url] = Result(phase'[r])
    <3>1. CASE Start(r)
      <4>1. phase'[r] = "importing" /\ waiting'[r] \subseteq Urls
        BY <3>1, RequestsAreOfUrls DEF Start, TypeOK
      <4> QED
        BY <3>1, <4>1 DEF Start, ItemsAreSound, Result
    <3>2. CASE EndImports(r)
      <4>1. phase'[r] = "analyzing" /\ waiting'[r] = ImportedBy(r)
        BY <3>2 DEF EndImports, TypeOK
      <4> QED
        BY <4>1 DEF ImportedBy, Result
    <3>3. CASE Record(r)
      BY <3>3 DEF Record, PoolIsDone, TypeOK
    <3> QED
      BY <1>4, <3>1, <3>2, <3>3 DEF RequestStep
  <2> QED
    BY <1>0, <2>1, <2>2, <2>3, <2>4 DEF ItemsAreSound, Result
<1>5. CASE UNCHANGED importVars
  BY <1>5 DEF importVars, ItemsAreSound, Result
<1> QED
  BY <1>1, <1>2, <1>3, <1>4, <1>5 DEF Next, WorkerStep, EditStep, ReadLead, LockLead, CommitEdit,
     CreateCompany, CreateLead, vars

LEMMA InitSane == Init => Sane /\ Current
<1> SUFFICES ASSUME Init PROVE Sane /\ Current
  OBVIOUS
<1>1. /\ leads = {} /\ \A w \in Workers : worker[w] = Nobody
      /\ \A e \in Editors : edit[e] = Nobody
  BY DEF Init
<1>2. Exclusive /\ LeadsAreSound /\ NoneIsThere /\ FoundIsThere
  BY <1>1 DEF Exclusive, LeadsAreSound, NoneIsThere, FoundIsThere, Doing, Editing
<1>3. ItemsAreSound
  BY <1>1 DEF Init, ItemsAreSound
<1>4. Current
  BY <1>1 DEF Current, FoundIsCurrent, LockedByName, Doing
<1> QED
  BY <1>2, <1>3, <1>4, InitTypes DEF Sane

LEMMA NextSane == Sane /\ [Next]_vars => Sane'
BY StepTypes, GroundStays, LocksExclude, NoneStaysThere, ItemsStaySound DEF Sane

LEMMA NextCurrent ==
    ASSUME \A d, e \in Editors : d = e
    PROVE  Sane /\ Current /\ [Next]_vars => Current'
BY FoundStaysCurrent, NameStaysLocked DEF Sane, Current

THEOREM Sanity == Spec => []Sane
BY InitSane, NextSane, PTL DEF Spec

-----------------------------------------------------------------------------
(* Theorems.                                                               *)

\* Every variable of the imports stays within its type (ProjectImport).
THEOREM Typing == Spec => []TypeOK
<1>1. Sane => TypeOK
  BY DEF Sane
<1> QED
  BY <1>1, Sanity, PTL

\* However many imports of a company's projects run at once, none creates the company
\* when another has, unless users named or made it without the locks
\* (prisma-project-import.repository.ts:47, 75).
THEOREM UniqueName == Spec => NoSecondCompany
<1>1. ASSUME Sane, [Next]_vars, NEW c \in Companies,
             company[c] = Nobody, company'[c] # Nobody, company'[c].name \notin HandNames
      PROVE  \A d \in Named(company'[c].name) : <<d, Nobody>> \in leads
  <2>1. TypeOK /\ FoundIsThere /\ LeadsAreSound /\ NoneIsThere
    BY <1>1 DEF Sane
  <2>2. PICK w \in Workers :
          /\ Commit(w) /\ worker[w].found = Nobody
          /\ company'[c] = [name |-> NameOnPage[worker[w].url], site |-> "imported"]
    BY <1>1, <2>1, CompaniesMove
  <2> QED
    BY <1>1, <2>1, <2>2 DEF NoneIsThere, Commit, ByHand
<1>2. Sane /\ [Next]_vars =>
        [\A c \in Companies :
          (company[c] = Nobody /\ company'[c] # Nobody /\ company'[c].name \notin HandNames)
             => \A d \in Named(company'[c].name) : <<d, Nobody>> \in leads]_vars
  BY <1>1
<1> QED
  BY <1>2, Sanity, PTL DEF Spec, NoSecondCompany

\* With one user who edits, no import that read a company before he saved fills in after
\* him what he entered, unless the company has a lead without a project, whose edits
\* take no import's keys.  Two who rename one company do not exclude each other, hence
\* the hypothesis (persistImportedProject; LeadsService.update, leads.service.ts:344).
THEOREM KeptEdits == ASSUME \A d, e \in Editors : d = e PROVE Spec => ImportKeepsEdits
<1>1. Sane /\ Current /\ [Next]_vars => (Sane /\ Current)'
  BY NextSane, NextCurrent
<1>2. ASSUME Sane, Current, [Next]_vars, NEW c \in Companies, Overwritten(c)
      PROVE  <<c, Nobody>> \in leads
  <2>1. TypeOK /\ FoundIsThere /\ LeadsAreSound
    BY <1>2 DEF Sane
  <2>2. company[c] # Nobody /\ company[c].site = "edited" /\ company'[c].site # "edited"
    BY <1>2 DEF Overwritten
  <2>3. PICK w \in Workers :
          /\ Commit(w) /\ worker[w].found = c
          /\ company'[c] = [name |-> company[c].name, site |-> Filled(worker[w].site)]
    BY <1>2, <2>1, <2>2, CompaniesMove
  <2>4. worker[w].site # "edited"
    BY <2>2, <2>3 DEF Filled
  <2> QED
    BY <1>2, <2>2, <2>3, <2>4, NobodyIsNone DEF Current, FoundIsCurrent, Commit, ByHand
<1>3. Sane /\ Current /\ [Next]_vars =>
        [\A c \in Companies : Overwritten(c) => <<c, Nobody>> \in leads]_vars
  BY <1>2
<1> QED
  BY <1>1, <1>3, InitSane, PTL DEF Spec, ImportKeepsEdits

\* Every item of a request is imported at most once, and analysed at most once after
\* it was imported, however many workers share the pool (runWithConcurrency).
THEOREM EachOnce == Spec => SummaryAddsUp
<1>1. ASSUME Sane, [Next]_vars
      PROVE  [\A w \in Workers :
                worker[w] # Nobody /\ worker'[w] = Nobody =>
                  outcome[w[1]][worker[w].url] =
                    IF worker[w].stage = "analyzing" THEN "imported" ELSE "open"]_vars
  BY <1>1 DEF Sane, ItemsAreSound, Result
<1> QED
  BY <1>1, Sanity, PTL DEF Spec, SummaryAddsUp

-----------------------------------------------------------------------------
(* Lists that are made in the order of numbers.                            *)

LEMMA SameCount ==
    ASSUME NEW set
    PROVE  S!Cardinality(set) = Cardinality(set)
  BY DEF S!Cardinality, Cardinality

Ranks(pairs) ==
    /\ IsFiniteSet(pairs)
    /\ \A a \in pairs : a[1] \in Int
    /\ \A a, b \in pairs : a[1] = b[1] => a = b

UpTo(pairs, a) == {b \in pairs : b[1] <= a[1]}

\* Pairs of different ranks have different numbers of pairs up to them.
LEMMA RanksDiffer ==
    ASSUME NEW pairs, Ranks(pairs), NEW a \in pairs, NEW b \in pairs,
           Cardinality(UpTo(pairs, a)) = Cardinality(UpTo(pairs, b))
    PROVE  a = b
<1>1. ASSUME NEW c \in pairs, NEW d \in pairs, c[1] < d[1],
             Cardinality(UpTo(pairs, c)) = Cardinality(UpTo(pairs, d))
      PROVE  FALSE
  <2>1. UpTo(pairs, c) \in SUBSET UpTo(pairs, d)
    BY <1>1 DEF UpTo, Ranks
  <2>2. IsFiniteSet(UpTo(pairs, d))
    BY FS_Subset, UpTo(pairs, d) \subseteq pairs DEF UpTo, Ranks
  <2>3. UpTo(pairs, c) = UpTo(pairs, d)
    BY <1>1, <2>1, <2>2, FS_Subset
  <2> QED
    BY <1>1, <2>3 DEF UpTo, Ranks
<1> QED
  BY <1>1 DEF Ranks

LEMMA EveryRank ==
    ASSUME NEW pairs, Ranks(pairs), NEW k \in 1 .. Cardinality(pairs)
    PROVE  \E a \in pairs : Cardinality(UpTo(pairs, a)) = k
<1> DEFINE count == [a \in pairs |-> Cardinality(UpTo(pairs, a))]
           n == Cardinality(pairs)
<1>1. IsFiniteSet(pairs) /\ n \in Nat
  BY FS_CardinalityType DEF Ranks
<1>2. ASSUME NEW a \in pairs PROVE Cardinality(UpTo(pairs, a)) \in 1 .. n
  <2>1. UpTo(pairs, a) \in SUBSET pairs /\ a \in UpTo(pairs, a)
    BY DEF UpTo, Ranks
  <2>2. /\ IsFiniteSet(UpTo(pairs, a)) /\ Cardinality(UpTo(pairs, a)) <= n
        /\ Cardinality(UpTo(pairs, a)) \in Nat /\ Cardinality(UpTo(pairs, a)) # 0
    BY <1>1, <2>1, FS_Subset, FS_CardinalityType, FS_EmptySet
  <2> QED
    BY <1>1, <2>2
<1>3. count \in Injection(pairs, 1 .. n)
  <2>1. count \in [pairs -> 1 .. n]
    BY <1>2
  <2> QED
    BY <2>1, RanksDiffer DEF Injection, IsInjective
<1>4. IsFiniteSet(1 .. n) /\ Cardinality(1 .. n) = n
  BY <1>1, FS_Interval
<1>5. count \in Surjection(pairs, 1 .. n)
  BY <1>3, <1>4, FS_Injection
<1> QED
  BY <1>5 DEF Surjection

\* What InOrder lists: the value of each pair, at a place of its own.
LEMMA InOrderLists ==
    ASSUME NEW pairs, Ranks(pairs), NEW Values, \A a \in pairs : a[2] \in Values
    PROVE  /\ S!InOrder(pairs) \in Seq(Values)
           /\ \A k \in 1 .. Len(S!InOrder(pairs)) : \E a \in pairs :
                S!InOrder(pairs)[k] = a[2] /\ Cardinality(UpTo(pairs, a)) = k
<1> DEFINE n == Cardinality(pairs)
           pick(k) == CHOOSE a \in pairs : Cardinality(UpTo(pairs, a)) = k
           listed == [k \in 1 .. n |-> pick(k)[2]]
<1>1. n \in Nat
  BY FS_CardinalityType DEF Ranks
<1>2. ASSUME NEW k \in 1 .. n PROVE pick(k) \in pairs /\ Cardinality(UpTo(pairs, pick(k))) = k
  BY EveryRank
<1>3. S!InOrder(pairs) = <<>> \o listed
  <2> DEFINE chosen(k) == CHOOSE a \in pairs : S!Cardinality(UpTo(pairs, a)) = k
  <2>1. S!InOrder(pairs) = <<>> \o [k \in 1 .. S!Cardinality(pairs) |-> chosen(k)[2]]
    BY DEF S!InOrder, UpTo
  <2>2. \A k : chosen(k) = pick(k)
    BY SameCount
  <2>3. S!Cardinality(pairs) = n
    BY SameCount
  <2> HIDE DEF chosen, pick, n
  <2> QED
    BY <2>1, <2>2, <2>3
<1> HIDE DEF pick, n
<1>4. listed \in [1 .. n -> Values]
  BY <1>2
<1>5. listed \in Seq(Values)
  BY <1>1, <1>4
<1>6. S!InOrder(pairs) = listed
  BY <1>3, <1>5
<1>7. Len(listed) = n
  BY <1>1, <1>4
<1> QED
  BY <1>2, <1>5, <1>6, <1>7

LEMMA ImageIsFinite ==
    ASSUME NEW set, IsFiniteSet(set), NEW f
    PROVE  IsFiniteSet({f[x] : x \in set})
<1> DEFINE g == [x \in set |-> f[x]]
<1>1. g \in Surjection(set, {f[x] : x \in set})
  BY DEF Surjection
<1> QED
  BY <1>1, FS_Surjection

\* The places of a list rank its elements.
LEMMA PlacesRank ==
    ASSUME NEW Values, NEW s \in Seq(Values), NEW places, places \subseteq DOMAIN s
    PROVE  Ranks({<<i, s[i]>> : i \in places})
<1>1. IsFiniteSet(places) /\ places \subseteq Int
  <2>1. DOMAIN s = 1 .. Len(s) /\ Len(s) \in Nat
    OBVIOUS
  <2>2. IsFiniteSet(1 .. Len(s))
    BY <2>1, FS_Interval
  <2> QED
    BY <2>1, <2>2, FS_Subset
<1> DEFINE pair == [i \in places |-> <<i, s[i]>>]
<1>2. {<<i, s[i]>> : i \in places} = {pair[i] : i \in places}
  OBVIOUS
<1> HIDE DEF pair
<1>3. IsFiniteSet({<<i, s[i]>> : i \in places})
  BY <1>1, <1>2, ImageIsFinite
<1> QED
  BY <1>1, <1>3 DEF Ranks

LEMMA KeptIsList ==
    ASSUME NEW Values, NEW s \in Seq(Values), NEW kept
    PROVE  S!Kept(s, kept) \in Seq(Values \cap kept)
<1> DEFINE places == {j \in DOMAIN s : s[j] \in kept}
           pairs == {<<i, s[i]>> : i \in places}
<1>1. Ranks(pairs)
  BY PlacesRank
<1>2. \A a \in pairs : a[2] \in Values \cap kept
  OBVIOUS
<1>3. S!InOrder(pairs) \in Seq(Values \cap kept)
  <2> HIDE DEF pairs
  <2> QED
    BY <1>1, <1>2, InOrderLists
<1> QED
  BY <1>3 DEF S!Kept

LEMMA UniqueIsList ==
    ASSUME NEW s \in Seq(Entries)
    PROVE  S!uniqueBy[s] \in Seq(Entries)
<1> DEFINE places == {j \in DOMAIN s : \A h \in 1 .. (j - 1) : S!Key(s[h]) # S!Key(s[j])}
           pairs == {<<i, s[i]>> : i \in places}
<1>1. Ranks(pairs)
  BY PlacesRank
<1>2. \A a \in pairs : a[2] \in Entries
  OBVIOUS
<1>3. S!InOrder(pairs) \in Seq(Entries)
  <2> HIDE DEF pairs
  <2> QED
    BY <1>1, <1>2, InOrderLists
<1> QED
  BY <1>3 DEF S!uniqueBy

LEMMA FirstIsList ==
    ASSUME NEW Values, NEW s \in Seq(Values), NEW n \in Nat
    PROVE  /\ S!First(s, n) \in Seq(Values)
           /\ Len(S!First(s, n)) = IF Len(s) < n THEN Len(s) ELSE n
           /\ \A i \in 1 .. Len(S!First(s, n)) : S!First(s, n)[i] = s[i]
  BY DEF S!First

LEMMA SmallerFactor ==
    ASSUME NEW m \in Int, NEW n \in Int, NEW k \in Nat, m < n
    PROVE  m * k + k <= n * k
<1>1. (n - m - 1) * k >= 0
  OBVIOUS
<1> QED
  BY <1>1

\* The number of a list and the place in it, as one number.
LEMMA TwoDigits ==
    ASSUME NEW m, NEW n, NEW k, NEW i, NEW j, m \in Int, n \in Int, k \in Nat,
           i \in 1 .. k, j \in 1 .. k, m * k + i = n * k + j
    PROVE  m = n /\ i = j
<1>1. ~ m < n
  <2> SUFFICES ASSUME m < n PROVE FALSE
    OBVIOUS
  <2>1. m * k + k <= n * k
    BY SmallerFactor
  <2>2. m * k \in Int /\ n * k \in Int
    OBVIOUS
  <2> QED
    BY <2>1, <2>2
<1>2. ~ n < m
  <2> SUFFICES ASSUME n < m PROVE FALSE
    OBVIOUS
  <2>1. n * k + k <= m * k
    BY SmallerFactor
  <2>2. m * k \in Int /\ n * k \in Int
    OBVIOUS
  <2> QED
    BY <2>1, <2>2
<1> QED
  BY <1>1, <1>2

LEMMA JoinedIsList ==
    ASSUME NEW lists, DOMAIN lists \subseteq Int, IsFiniteSet(DOMAIN lists),
           NEW Values, \A n \in DOMAIN lists : lists[n] \in Seq(Values)
    PROVE  S!Joined(lists) \in Seq(Values)
<1> DEFINE places == UNION {{n} \X DOMAIN lists[n] : n \in DOMAIN lists}
           k == Cardinality(places)
           rank(p) == p[1] * k + p[2]
           pair == [p \in places |-> <<rank(p), lists[p[1]][p[2]]>>]
           pairs == {pair[p] : p \in places}
<1>1. ASSUME NEW n \in DOMAIN lists
      PROVE  /\ IsFiniteSet({n} \X DOMAIN lists[n])
             /\ Cardinality({n} \X DOMAIN lists[n]) = Len(lists[n])
             /\ DOMAIN lists[n] = 1 .. Len(lists[n]) /\ Len(lists[n]) \in Nat
  <2>1. PICK len \in Nat : len = Len(lists[n]) /\ DOMAIN lists[n] = 1 .. len
    OBVIOUS
  <2>2. IsFiniteSet(1 .. len) /\ Cardinality(1 .. len) = len
    BY FS_Interval
  <2>3. IsFiniteSet({n}) /\ Cardinality({n}) = 1
    BY FS_Singleton
  <2>4. IsFiniteSet({n} \X (1 .. len)) /\ Cardinality({n} \X (1 .. len)) = 1 * len
    <3> DEFINE single == {n}
               upTo == 1 .. len
    <3> HIDE DEF single, upTo
    <3>1. /\ IsFiniteSet(single) /\ Cardinality(single) = 1
          /\ IsFiniteSet(upTo) /\ Cardinality(upTo) = len
      BY <2>2, <2>3 DEF single, upTo
    <3>2. /\ IsFiniteSet(single \X upTo)
          /\ Cardinality(single \X upTo) = Cardinality(single) * Cardinality(upTo)
      BY <3>1, FS_Product
    <3> QED
      BY <3>1, <3>2 DEF single, upTo
  <2> QED
    BY <2>1, <2>4
<1>2. IsFiniteSet(places)
  <2> DEFINE of == [n \in DOMAIN lists |-> {n} \X DOMAIN lists[n]]
             parts == {of[n] : n \in DOMAIN lists}
  <2>1. IsFiniteSet(parts)
    <3> HIDE DEF of
    <3> QED
      BY ImageIsFinite
  <2>2. \A part_ \in parts : IsFiniteSet(part_)
    BY <1>1
  <2>3. IsFiniteSet(UNION parts)
    <3> HIDE DEF parts
    <3> QED
      BY <2>1, <2>2, FS_UNION
  <2> QED
    BY <2>3
<1>3. k \in Nat
  BY <1>2, FS_CardinalityType
<1>4. ASSUME NEW p \in places
      PROVE  p[1] \in DOMAIN lists /\ p[2] \in DOMAIN lists[p[1]] /\ p[2] \in 1 .. k /\ p = <<p[1], p[2]>>
  <2>1. PICK n \in DOMAIN lists : p \in {n} \X DOMAIN lists[n]
    OBVIOUS
  <2>2. p[1] = n /\ p[2] \in DOMAIN lists[n] /\ p = <<p[1], p[2]>>
    BY <2>1
  <2>3. {n} \X DOMAIN lists[n] \in SUBSET places
    BY <2>1
  <2>4. Len(lists[n]) <= k
    <3> DEFINE at == {n} \X DOMAIN lists[n]
    <3>1. Cardinality(at) = Len(lists[n])
      BY <1>1, <2>1
    <3>2. at \in SUBSET places
      BY <2>3
    <3> HIDE DEF at, places
    <3>3. Cardinality(at) <= Cardinality(places)
      BY <1>2, <3>2, FS_Subset
    <3> QED
      BY <3>1, <3>3
  <2> QED
    BY <1>1, <1>3, <2>2, <2>4
<1> HIDE DEF places, k
<1>5. ASSUME NEW p \in places, NEW q \in places, rank(p) = rank(q)
      PROVE  p = q
  <2>1. p[1] \in Int /\ q[1] \in Int /\ p[2] \in 1 .. k /\ q[2] \in 1 .. k
    BY <1>4
  <2>2. p[1] = q[1] /\ p[2] = q[2]
    BY <1>3, <1>5, <2>1, TwoDigits
  <2> QED
    BY <1>4, <2>2
<1>6. \A p \in places : rank(p) \in Int /\ lists[p[1]][p[2]] \in Values
  BY <1>3, <1>4
<1> HIDE DEF rank
<1>7. Ranks(pairs)
  <2>1. IsFiniteSet(pairs)
    <3> HIDE DEF pair
    <3> QED
      BY <1>2, ImageIsFinite
  <2> QED
    BY <1>5, <1>6, <2>1 DEF Ranks
<1>8. \A a \in pairs : a[2] \in Values
  BY <1>6
<1>9. S!Joined(lists) = S!InOrder(pairs)
  <2>1. S!Joined(lists) = S!InOrder({<<p[1] * S!Cardinality(places) + p[2], lists[p[1]][p[2]]>> : p \in places})
    BY DEF S!Joined, places
  <2>2. S!Cardinality(places) = k
    BY SameCount DEF k
  <2>3. {<<p[1] * S!Cardinality(places) + p[2], lists[p[1]][p[2]]>> : p \in places} = pairs
    BY <2>2 DEF rank
  <2> HIDE DEF pairs
  <2> QED
    BY <2>1, <2>3
<1> HIDE DEF pairs
<1> QED
  BY <1>7, <1>8, <1>9, InOrderLists

-----------------------------------------------------------------------------
(* The lists of a search.                                                  *)

\* The entries that fit a request.
FittingFor(r) ==
    {e \in Entries : /\ r.soon => DaysLeft[e] \in 1 .. EndingSoonDays
                     /\ r.seasoned => e \in Seasoned}

LEMMA WiderList ==
    ASSUME NEW Values, NEW More, Values \subseteq More, NEW s \in Seq(Values)
    PROVE  s \in Seq(More)
  OBVIOUS

LEMMA SortedIsList ==
    ASSUME NEW Values, Values \subseteq Entries, NEW s \in Seq(Values)
    PROVE  S!sortEndingSoon[s] \in Seq({e \in Values : S!Fits(e)})
<1>1. s \in Seq(Entries) /\ Len(s) \in Nat /\ DOMAIN s = 1 .. Len(s)
  BY WiderList
<1>2. CASE ~ request.soon
  <2>1. S!sortEndingSoon[s] = s
    BY <1>1, <1>2 DEF S!sortEndingSoon
  <2>2. {e \in Values : S!Fits(e)} = Values
    BY <1>2 DEF S!Fits
  <2> QED
    BY <2>1, <2>2
<1>3. CASE request.soon
  <2> DEFINE places == {j \in DOMAIN s : s[j] \in S!FittingEntries}
             pair == [i \in places |-> <<DaysLeft[s[i]] * Len(s) + i, s[i]>>]
             pairs == {pair[i] : i \in places}
  <2>1. S!sortEndingSoon[s] = S!InOrder(pairs)
    BY <1>1, <1>3 DEF S!sortEndingSoon
  <2>2. IsFiniteSet(places)
    <3>1. IsFiniteSet(1 .. Len(s)) /\ places \in SUBSET (1 .. Len(s))
      BY <1>1, FS_Interval
    <3> QED
      BY <3>1, FS_Subset
  <2>3. ASSUME NEW i \in places
        PROVE  DaysLeft[s[i]] \in Int /\ i \in 1 .. Len(s) /\ s[i] \in Values /\ S!Fits(s[i])
    BY <1>1, <1>3, LimitsAreNumbers DEF S!FittingEntries, S!Fits
  <2> HIDE DEF places
  <2>4. Ranks(pairs)
    <3>1. IsFiniteSet(pairs)
      <4> HIDE DEF pair
      <4> QED
        BY <2>2, ImageIsFinite
    <3>2. \A i \in places : DaysLeft[s[i]] * Len(s) + i \in Int
      BY <1>1, <2>3
    <3>3. ASSUME NEW i \in places, NEW j \in places,
                 DaysLeft[s[i]] * Len(s) + i = DaysLeft[s[j]] * Len(s) + j
          PROVE  i = j
      BY <1>1, <2>3, <3>3, TwoDigits
    <3> QED
      BY <3>1, <3>2, <3>3 DEF Ranks
  <2>5. \A a \in pairs : a[2] \in {e \in Values : S!Fits(e)}
    BY <2>3
  <2> HIDE DEF pairs
  <2> QED
    BY <2>1, <2>4, <2>5, InOrderLists
<1> QED
  BY <1>2, <1>3

LEMMA WantedIsList ==
    ASSUME NEW s \in Seq(Entries)
    PROVE  S!Wanted[s] \in Seq({e \in Entries : S!Fits(e)})
<1> DEFINE wanted == {e \in S!FittingEntries : ~ S!Excluded(e)}
<1>1. S!Wanted[s] = S!Kept(s, wanted)
  BY DEF S!Wanted
<1>2. Entries \cap wanted \subseteq {e \in Entries : S!Fits(e)}
  BY DEF S!FittingEntries
<1> HIDE DEF wanted
<1>3. S!Kept(s, wanted) \in Seq(Entries \cap wanted)
  BY KeptIsList
<1> QED
  BY <1>1, <1>2, <1>3, WiderList

\* The projects of entries are listed once each, and are none of those.
LEMMA OthersAreOther ==
    ASSUME NEW Values, Values \subseteq Entries, NEW s \in Seq(Values), NEW these
    PROVE  /\ S!OtherProjects(s, these) \in Seq({ProjectOf[e] : e \in Values} \ these)
           /\ \A k, n \in 1 .. Len(S!OtherProjects(s, these)) :
                S!OtherProjects(s, these)[k] = S!OtherProjects(s, these)[n] => k = n
<1>1. s \in Seq(Entries) /\ Len(s) \in Nat /\ DOMAIN s = 1 .. Len(s) /\ \A i \in DOMAIN s : s[i] \in Values
  BY WiderList
<1> DEFINE places == {j \in DOMAIN s :
                        /\ ProjectOf[s[j]] \notin these
                        /\ \A h \in 1 .. (j - 1) : ProjectOf[s[h]] # ProjectOf[s[j]]}
           project == [i \in DOMAIN s |-> ProjectOf[s[i]]]
           pairs == {<<i, project[i]>> : i \in places}
           listed == S!InOrder(pairs)
<1>2. S!OtherProjects(s, these) = listed
  <2>1. {<<i, ProjectOf[s[i]]>> : i \in places} = pairs
    OBVIOUS
  <2>2. S!OtherProjects(s, these) = S!InOrder({<<i, ProjectOf[s[i]]>> : i \in places})
    BY <1>1 DEF S!OtherProjects
  <2> HIDE DEF pairs
  <2> QED
    BY <2>1, <2>2
<1>3. project \in Seq({ProjectOf[e] : e \in Values})
  BY <1>1
<1>4. Ranks(pairs)
  <2> HIDE DEF project
  <2>1. places \subseteq DOMAIN project
    BY DEF project
  <2> HIDE DEF places
  <2> QED
    BY <1>3, <2>1, PlacesRank
<1>5. \A a \in pairs : a[2] \in {ProjectOf[e] : e \in Values} \ these
  BY <1>1
<1>6. \A a, b \in pairs : a[2] = b[2] => a = b
  <2>1. ASSUME NEW i \in places, NEW j \in places, project[i] = project[j]
        PROVE  i = j
    <3>1. i \in 1 .. Len(s) /\ j \in 1 .. Len(s)
      BY <1>1
    <3>2. ProjectOf[s[i]] = ProjectOf[s[j]]
      BY <2>1
    <3> QED
      BY <1>1, <3>1, <3>2
  <2> HIDE DEF places, project
  <2> QED
    BY <2>1
<1> HIDE DEF pairs
<1>7. /\ listed \in Seq({ProjectOf[e] : e \in Values} \ these)
      /\ \A k \in 1 .. Len(listed) : \E a \in pairs :
           listed[k] = a[2] /\ Cardinality(UpTo(pairs, a)) = k
  BY <1>4, <1>5, InOrderLists
<1> HIDE DEF listed
<1>8. \A k, n \in 1 .. Len(listed) : listed[k] = listed[n] => k = n
  BY <1>6, <1>7
<1> QED
  BY <1>2, <1>7, <1>8

\* A list of candidates that is whole.
WholeFor(r, list) ==
    /\ list \in Seq(S!FittingProjects(r))
    /\ \A k, n \in 1 .. Len(list) : list[k] = list[n] => k = n
    /\ Len(list) <= r.desired

Begins(list, more) ==
    /\ Len(list) <= Len(more)
    /\ \A k \in 1 .. Len(list) : list[k] = more[k]

LEMMA FittingOfProjects ==
    ASSUME NEW r
    PROVE  S!FittingProjects(r) = {ProjectOf[e] : e \in FittingFor(r)} \ Imported
  BY DEF S!FittingProjects, FittingFor

\* What addObservedItems makes of a list: it grows, and stays whole.
LEMMA MergedIsWhole ==
    ASSUME request \in SearchRequests, WholeFor(request, job.items), NEW s \in Seq(FittingFor(request))
    PROVE  WholeFor(request, S!Merged(s)) /\ Begins(job.items, S!Merged(s))
<1> DEFINE old == job.items
           known == S!ToSet(old)
           new == S!OtherProjects(s, Imported \cup known)
           both == old \o new
           fitting == S!FittingProjects(request)
<1>1. request.desired \in Nat
  BY SearchRequestsAreRequests
<1>2. S!Merged(s) = S!First(both, request.desired)
  BY DEF S!Merged, S!mergeSearchItems
<1>3. known = {old[k] : k \in 1 .. Len(old)}
  BY DEF S!ToSet, WholeFor
<1>4. FittingFor(request) \subseteq Entries
  BY DEF FittingFor
<1>5. new \in Seq({ProjectOf[e] : e \in FittingFor(request)} \ (Imported \cup known))
      /\ \A k, n \in 1 .. Len(new) : new[k] = new[n] => k = n
  <2> HIDE DEF known, old
  <2> QED
    BY <1>4, OthersAreOther
<1>6. {ProjectOf[e] : e \in FittingFor(request)} \ (Imported \cup known) = fitting \ known
  BY FittingOfProjects
<1> HIDE DEF new, fitting
<1>7. new \in Seq(fitting) /\ \A k \in 1 .. Len(new) : new[k] \notin known
  <2> HIDE DEF known
  <2>1. new \in Seq(fitting \ known)
    BY <1>5, <1>6
  <2>2. new \in Seq(fitting)
    BY <2>1, WiderList
  <2>3. \A k \in 1 .. Len(new) : new[k] \in fitting \ known
    BY <2>1
  <2> QED
    BY <2>2, <2>3
<1>8. old \in Seq(fitting) /\ Len(old) <= request.desired
      /\ \A k, n \in 1 .. Len(old) : old[k] = old[n] => k = n
  BY DEF WholeFor, fitting
<1> HIDE DEF old
<1>9. /\ both \in Seq(fitting) /\ Len(both) = Len(old) + Len(new)
      /\ \A k \in 1 .. Len(both) : both[k] = IF k <= Len(old) THEN old[k] ELSE new[k - Len(old)]
      /\ Len(old) \in Nat /\ Len(new) \in Nat
  BY <1>7, <1>8
<1>10. ASSUME NEW k \in 1 .. Len(both), NEW n \in 1 .. Len(both), both[k] = both[n], k < n
       PROVE  FALSE
  <2>1. CASE n <= Len(old)
    BY <1>8, <1>9, <1>10, <2>1
  <2>2. CASE k > Len(old)
    <3>1. k - Len(old) \in 1 .. Len(new) /\ n - Len(old) \in 1 .. Len(new)
      BY <1>9, <1>10, <2>2
    <3>2. new[k - Len(old)] = new[n - Len(old)]
      BY <1>9, <1>10, <2>2
    <3> QED
      BY <1>5, <1>9, <1>10, <3>1, <3>2
  <2>3. CASE k <= Len(old) /\ n > Len(old)
    <3>1. n - Len(old) \in 1 .. Len(new) /\ k \in 1 .. Len(old)
      BY <1>9, <2>3
    <3>2. old[k] = new[n - Len(old)]
      BY <1>9, <1>10, <2>3
    <3> QED
      BY <1>3, <1>7, <3>1, <3>2
  <2> QED
    BY <1>9, <2>1, <2>2, <2>3
<1>11. \A k, n \in 1 .. Len(both) : both[k] = both[n] => k = n
  BY <1>9, <1>10
<1> HIDE DEF both
<1> DEFINE merged == S!First(both, request.desired)
<1>12. /\ merged \in Seq(fitting)
       /\ Len(merged) = IF Len(both) < request.desired THEN Len(both) ELSE request.desired
       /\ \A k \in 1 .. Len(merged) : merged[k] = both[k]
  BY <1>1, <1>9, FirstIsList
<1> HIDE DEF merged
<1>13. /\ Len(merged) <= request.desired /\ Len(merged) <= Len(both) /\ Len(old) <= Len(merged)
       /\ Len(merged) \in Nat /\ Len(both) \in Nat
  BY <1>1, <1>8, <1>9, <1>12
<1>14. \A k, n \in 1 .. Len(merged) : merged[k] = merged[n] => k = n
  BY <1>11, <1>12, <1>13
<1>15. \A k \in 1 .. Len(old) : old[k] = merged[k]
  BY <1>9, <1>12, <1>13
<1>16. S!Merged(s) = merged
  BY <1>2 DEF merged
<1>17. WholeFor(request, merged)
  BY <1>12, <1>13, <1>14 DEF WholeFor, fitting
<1>18. Begins(old, merged)
  BY <1>13, <1>15 DEF Begins
<1> QED
  BY <1>16, <1>17, <1>18 DEF old

-----------------------------------------------------------------------------
(* The crawl of a search has lists of entries, and its result fits.        *)

CrawlFields ==
    {"stage", "phase", "attempt", "before", "unchanged", "shown", "found", "matched", "checked",
     "fit", "todo", "pages", "page", "fetched", "more", "result", "diagnostics"}

PagesHold(pages) ==
    /\ DOMAIN pages = S!ToSet(Addresses)
    /\ \A a \in DOMAIN pages :
         /\ DOMAIN pages[a] = {"pc", "items", "looks", "unchanged", "complete"}
         /\ pages[a].items \in Seq(Entries)

FetchedHold(fetched) ==
    /\ DOMAIN fetched \subseteq 1 .. MaxPages
    /\ \A n \in DOMAIN fetched : fetched[n] \in Seq(Entries)

CrawlHolds(c, r) ==
    /\ DOMAIN c = CrawlFields
    /\ c.shown \in 0 .. Len(Listing)
    /\ c.found \in Seq(Entries) /\ c.matched \in Seq(Seasoned) /\ c.todo \in Seq(Entries)
    /\ c.result \in Seq(FittingFor(r))
    /\ PagesHold(c.pages) /\ FetchedHold(c.fetched)

CacheHolds(hits, r) == \A hit \in hits : hit.items \in Seq(FittingFor(r))

LEMMA NoPagesHold == PagesHold(S!NoPages)
<1> DEFINE blank == [pc |-> "waiting", items |-> <<>>, looks |-> 0, unchanged |-> 0, complete |-> FALSE]
<1>1. S!NoPages = [a \in S!ToSet(Addresses) |-> blank]
  BY DEF S!NoPages
<1>2. DOMAIN blank = {"pc", "items", "looks", "unchanged", "complete"} /\ blank.items = <<>>
  OBVIOUS
<1> HIDE DEF blank
<1>3. DOMAIN S!NoPages = S!ToSet(Addresses) /\ \A a \in S!ToSet(Addresses) : S!NoPages[a] = blank
  BY <1>1
<1>4. <<>> \in Seq(Entries)
  OBVIOUS
<1> QED
  BY <1>2, <1>3, <1>4 DEF PagesHold

LEMMA NoCrawlHolds ==
    ASSUME NEW r
    PROVE  CrawlHolds(S!NoCrawl, r)
<1>1. PagesHold(S!NoPages)
  BY NoPagesHold
<1>2. FetchedHold([n \in {} |-> <<>>])
  BY DEF FetchedHold
<1>3. /\ DOMAIN S!NoCrawl = CrawlFields
      /\ S!NoCrawl.shown = 0 /\ S!NoCrawl.found = <<>> /\ S!NoCrawl.matched = <<>> /\ S!NoCrawl.todo = <<>>
      /\ S!NoCrawl.result = <<>> /\ S!NoCrawl.pages = S!NoPages
      /\ S!NoCrawl.fetched = [n \in {} |-> <<>>]
  BY DEF S!NoCrawl, CrawlFields
<1>4. Len(Listing) \in Nat
  BY ListingsAreOfEntries
<1> QED
  BY <1>1, <1>2, <1>3, <1>4 DEF CrawlHolds

LEMMA StageHolds ==
    ASSUME NEW c, NEW r, CrawlHolds(c, r), NEW stage
    PROVE  CrawlHolds([c EXCEPT !.stage = stage], r)
  BY DEF CrawlHolds, CrawlFields

\* What the crawl reports, and what it keeps or returns, fits the request.
LEMMA SeasonedFit ==
    ASSUME NEW s \in Seq(Seasoned)
    PROVE  S!sortEndingSoon[s] \in Seq(FittingFor(request))
<1>1. Seasoned \subseteq Entries
  BY ListingsAreOfEntries
<1>2. S!sortEndingSoon[s] \in Seq({e \in Seasoned : S!Fits(e)})
  BY <1>1, SortedIsList
<1>3. {e \in Seasoned : S!Fits(e)} \subseteq FittingFor(request)
  BY <1>1 DEF S!Fits, FittingFor
<1> QED
  BY <1>2, <1>3, WiderList

LEMMA LimitIsNumber ==
    ASSUME job.rounds \in Seq(Nat), job.rounds # <<>>
    PROVE  S!Limit \in Nat
  BY DEF S!Limit

LEMMA ObservedFits ==
    ASSUME CrawlHolds(crawl, request), S!Limit \in Nat
    PROVE  S!Observed \in Seq(FittingFor(request))
<1>1. CASE request.seasoned
  <2>1. S!Observed = S!First(S!sortEndingSoon[crawl.matched], S!Limit)
    BY <1>1 DEF S!Observed
  <2>2. S!sortEndingSoon[crawl.matched] \in Seq(FittingFor(request))
    BY SeasonedFit DEF CrawlHolds
  <2> QED
    BY <2>1, <2>2, FirstIsList
<1>2. CASE ~ request.seasoned
  <2>1. S!Observed = S!First(S!Wanted[S!sortEndingSoon[crawl.found]], S!Limit)
    BY <1>2 DEF S!Observed
  <2>2. S!sortEndingSoon[crawl.found] \in Seq(Entries)
    <3>1. S!sortEndingSoon[crawl.found] \in Seq({e \in Entries : S!Fits(e)})
      BY SortedIsList DEF CrawlHolds
    <3> QED
      BY <3>1, WiderList
  <2>3. S!Wanted[S!sortEndingSoon[crawl.found]] \in Seq({e \in Entries : S!Fits(e)})
    BY <2>2, WantedIsList
  <2>4. {e \in Entries : S!Fits(e)} \subseteq FittingFor(request)
    BY <1>2 DEF S!Fits, FittingFor
  <2>5. S!Wanted[S!sortEndingSoon[crawl.found]] \in Seq(FittingFor(request))
    BY <2>3, <2>4, WiderList
  <2> QED
    BY <2>1, <2>5, FirstIsList
<1> QED
  BY <1>1, <1>2

LEMMA CampfireResultFits ==
    ASSUME CrawlHolds(crawl, request), S!Limit \in Nat
    PROVE  S!CampfireResult.items \in Seq(FittingFor(request))
<1>1. S!CampfireResult.items =
        S!sortEndingSoon[S!First(IF request.seasoned THEN crawl.matched ELSE crawl.found, S!Limit)]
  BY DEF S!CampfireResult
<1>2. CASE request.seasoned
  <2>1. S!First(crawl.matched, S!Limit) \in Seq(Seasoned)
    BY FirstIsList DEF CrawlHolds
  <2> QED
    BY <1>1, <1>2, <2>1, SeasonedFit
<1>3. CASE ~ request.seasoned
  <2>1. S!First(crawl.found, S!Limit) \in Seq(Entries)
    BY FirstIsList DEF CrawlHolds
  <2>2. S!sortEndingSoon[S!First(crawl.found, S!Limit)] \in Seq({e \in Entries : S!Fits(e)})
    BY <2>1, SortedIsList
  <2>3. {e \in Entries : S!Fits(e)} \subseteq FittingFor(request)
    BY <1>3 DEF S!Fits, FittingFor
  <2> QED
    BY <1>1, <1>3, <2>2, <2>3, WiderList
<1> QED
  BY <1>2, <1>3

-----------------------------------------------------------------------------
(* The steps of the crawl keep it.                                         *)

\* A list of the entries that are looked at beside those that were found.
LEMMA UniqueOfBoth ==
    ASSUME NEW s \in Seq(Entries), NEW t \in Seq(Entries)
    PROVE  S!uniqueBy[s \o t] \in Seq(Entries)
<1>1. s \o t \in Seq(Entries)
  OBVIOUS
<1> QED
  BY <1>1, UniqueIsList

LEMMA WantedOf ==
    ASSUME NEW s \in Seq(Entries)
    PROVE  S!Wanted[s] \in Seq(Entries)
<1>1. {e \in Entries : S!Fits(e)} \subseteq Entries
  OBVIOUS
<1> QED
  BY <1>1, WantedIsList, WiderList

\* The steps of the crawl that leave the lists alone, or take the result.
LEMMA QuietSteps ==
    ASSUME CrawlHolds(crawl, request), CacheHolds(cache, request),
           \/ S!Open \/ S!OpenPage \/ S!Attempt \/ S!Scroll \/ S!Click \/ S!Count \/ S!Launch
           \/ S!Close
    PROVE  CrawlHolds(crawl', request) /\ cache' = cache
           /\ UNCHANGED <<request, row, job, listing, searches>>
<1>1. \A stage : CrawlHolds([crawl EXCEPT !.stage = stage], request)
  BY StageHolds
<1>2. CASE S!Open
  <2>1. ASSUME NEW hit \in cache,
               crawl' = [crawl EXCEPT !.stage = "cached", !.result = hit.items,
                                      !.diagnostics = hit.diagnostics]
        PROVE  CrawlHolds(crawl', request)
    BY <2>1 DEF CrawlHolds, CrawlFields, CacheHolds
  <2>2. UNCHANGED <<request, row, job, listing, cache, searches>>
    BY <1>2 DEF S!Open
  <2>3. \/ \E stage : S!Stage(stage)
        \/ \E hit \in cache :
             crawl' = [crawl EXCEPT !.stage = "cached", !.result = hit.items,
                                    !.diagnostics = hit.diagnostics]
    <3>1. S!Throw => S!Stage("throwing")
      BY DEF S!Throw
    <3>2. S!Cached \subseteq cache
      BY DEF S!Cached
    <3> QED
      BY <1>2, <3>1, <3>2 DEF S!Open
  <2>4. CASE \E stage : S!Stage(stage)
    BY <1>1, <2>2, <2>4 DEF S!Stage
  <2> QED
    BY <2>1, <2>2, <2>3, <2>4
<1>3. CASE S!OpenPage
  <2>1. ASSUME NEW n \in 1 .. Len(Listing), crawl' = [crawl EXCEPT !.stage = "attempt", !.shown = n]
        PROVE  CrawlHolds(crawl', request)
    BY <2>1 DEF CrawlHolds, CrawlFields
  <2> QED
    BY <1>1, <1>3, <2>1 DEF S!OpenPage, S!Throw, S!Stage, S!Outside
<1>4. CASE S!Attempt
  <2>1. ASSUME NEW n, crawl' = [crawl EXCEPT !.stage = "look", !.phase = "first", !.before = n]
        PROVE  CrawlHolds(crawl', request)
    BY <2>1 DEF CrawlHolds, CrawlFields
  <2> QED
    BY <1>1, <1>4, <2>1 DEF S!Attempt, S!Stage, S!Outside
<1>5. CASE S!Scroll \/ S!Click
  <2>1. ASSUME NEW n \in crawl.shown .. Len(Listing), NEW phase_,
               crawl' = [crawl EXCEPT !.stage = "look", !.phase = phase_, !.shown = n]
        PROVE  CrawlHolds(crawl', request)
    BY <2>1 DEF CrawlHolds, CrawlFields
  <2> QED
    BY <1>1, <1>5, <2>1 DEF S!Scroll, S!Click, S!Throw, S!Stage, S!Outside
<1>6. CASE S!Count
  <2>1. ASSUME NEW stage, NEW n, NEW m, NEW told,
               crawl' = [crawl EXCEPT !.stage = stage, !.unchanged = n, !.attempt = m,
                                      !.diagnostics = told]
        PROVE  CrawlHolds(crawl', request)
    BY <2>1 DEF CrawlHolds, CrawlFields
  <2> DEFINE unchanged == IF Len(crawl.found) = crawl.before THEN crawl.unchanged + 1 ELSE 0
             over == crawl.phase # "clicked" /\ unchanged >= 2
  <2>2. crawl' = [crawl EXCEPT !.stage = IF over THEN "collected" ELSE "attempt",
                               !.unchanged = unchanged, !.attempt = @ + 1,
                               !.diagnostics.complete = over]
    BY <1>6 DEF S!Count
  <2>3. crawl' = [crawl EXCEPT !.stage = IF over THEN "collected" ELSE "attempt",
                               !.unchanged = unchanged, !.attempt = crawl.attempt + 1,
                               !.diagnostics = [crawl.diagnostics EXCEPT !.complete = over]]
    BY <2>2 DEF CrawlHolds, CrawlFields
  <2> HIDE DEF unchanged, over
  <2>4. CrawlHolds(crawl', request)
    BY <2>1, <2>3
  <2>5. S!Outside
    BY <1>6 DEF S!Count
  <2> QED
    BY <2>4, <2>5 DEF S!Outside
<1>7. CASE S!Launch
  BY <1>1, <1>7 DEF S!Launch, S!Throw, S!Stage
<1>8. CASE S!Close
  BY <1>1, <1>8 DEF S!Close, S!Stage
<1> QED
  BY <1>2, <1>3, <1>4, <1>5, <1>6, <1>7, <1>8

Rest == UNCHANGED <<request, row, job, listing, searches>>

LEMMA ThrowHolds ==
    ASSUME CrawlHolds(crawl, request), S!Throw
    PROVE  CrawlHolds(crawl', request) /\ cache' = cache /\ Rest
  BY StageHolds DEF S!Throw, S!Stage, Rest

LEMMA LookStep ==
    ASSUME CrawlHolds(crawl, request), S!Look
    PROVE  CrawlHolds(crawl', request) /\ cache' = cache /\ Rest
<1> DEFINE shown == SubSeq(Listing, 1, crawl.shown)
           all == S!uniqueBy[crawl.found \o S!Wanted[shown]]
<1>1. CASE S!Throw
  BY <1>1, ThrowHolds
<1>2. CASE S!Outside /\ ~ S!Throw
  <2>1. crawl' = [crawl EXCEPT
               !.stage = IF request.seasoned THEN "lookups" ELSE "report",
               !.fit = @ \cup {e \in S!ToSet(shown) : S!Fits(e)},
               !.found = S!uniqueBy[@ \o S!Wanted[shown]]]
    BY <1>2 DEF S!Look
  <2>2. DOMAIN crawl' = CrawlFields /\ crawl'.found = all /\ crawl'.shown = crawl.shown
        /\ crawl'.matched = crawl.matched /\ crawl'.todo = crawl.todo /\ crawl'.result = crawl.result
        /\ crawl'.pages = crawl.pages /\ crawl'.fetched = crawl.fetched
    BY <2>1 DEF CrawlHolds, CrawlFields
  <2>3. shown \in Seq(Entries)
    BY ListingsAreOfEntries DEF CrawlHolds
  <2>4. all \in Seq(Entries)
    <3> HIDE DEF shown
    <3> QED
      BY <2>3, WantedOf, UniqueOfBoth DEF CrawlHolds
  <2> HIDE DEF all
  <2>5. CrawlHolds(crawl', request)
    BY <2>2, <2>4 DEF CrawlHolds
  <2> QED
    BY <1>2, <2>5 DEF S!Outside, Rest
<1> QED
  BY <1>1, <1>2 DEF S!Look

LEMMA LookupsStep ==
    ASSUME CrawlHolds(crawl, request), S!Limit \in Nat, S!Lookups
    PROVE  CrawlHolds(crawl', request) /\ cache' = cache /\ Rest
<1>1. CASE S!Throw
  BY <1>1, ThrowHolds
<1>2. CASE S!Stage("report") /\ S!Outside
  BY <1>2, StageHolds DEF S!Stage, S!Outside, Rest
<1>3. CASE ~ S!Throw /\ ~ (S!Stage("report") /\ S!Outside)
  <2> DEFINE batch == S!First(S!Unchecked, LookupsAtOnce)
  <2>1. S!Outside
    BY <1>3 DEF S!Lookups
  <2>2. PICK told \in SUBSET (S!ToSet(batch) \cap Seasoned) :
                 crawl' = [crawl EXCEPT
                   !.checked = @ \cup S!ToSet(batch),
                   !.matched = S!First(@ \o S!Kept(batch, told), S!Limit)]
    BY <1>3 DEF S!Lookups
  <2> DEFINE matched == S!First(crawl.matched \o S!Kept(batch, told), S!Limit)
  <2>3. batch \in Seq(Entries)
    <3>1. S!Unchecked \in Seq(Entries \cap (Entries \ crawl.checked))
      BY KeptIsList DEF S!Unchecked, CrawlHolds
    <3>2. S!Unchecked \in Seq(Entries)
      BY <3>1, WiderList
    <3> QED
      BY <3>2, FirstIsList, LimitsAreNumbers
  <2>4. /\ DOMAIN crawl' = CrawlFields /\ crawl'.matched = matched /\ crawl'.found = crawl.found
        /\ crawl'.shown = crawl.shown /\ crawl'.todo = crawl.todo /\ crawl'.result = crawl.result
        /\ crawl'.pages = crawl.pages /\ crawl'.fetched = crawl.fetched
    <3> HIDE DEF batch
    <3> QED
      BY <2>2 DEF CrawlHolds, CrawlFields
  <2> HIDE DEF batch
  <2>5. matched \in Seq(Seasoned)
    <3>1. S!Kept(batch, told) \in Seq(Entries \cap told)
      BY <2>3, KeptIsList
    <3>2. Entries \cap told \subseteq Seasoned
      BY <2>2
    <3>3. S!Kept(batch, told) \in Seq(Seasoned)
      BY <3>1, <3>2, WiderList
    <3>4. crawl.matched \o S!Kept(batch, told) \in Seq(Seasoned)
      BY <3>3 DEF CrawlHolds
    <3> QED
      BY <3>4, FirstIsList
  <2> HIDE DEF matched
  <2>6. CrawlHolds(crawl', request)
    BY <2>4, <2>5 DEF CrawlHolds
  <2> QED
    BY <2>1, <2>6 DEF S!Outside, Rest
<1> QED
  BY <1>1, <1>2, <1>3

LEMMA CollectSteps ==
    ASSUME CrawlHolds(crawl, request), CacheHolds(cache, request), S!Limit \in Nat,
           S!CollectCampfire \/ S!CollectMakuake \/ S!CollectGreen
    PROVE  CrawlHolds(crawl', request) /\ CacheHolds(cache', request) /\ Rest
<1>1. ASSUME NEW items \in Seq(FittingFor(request)), NEW told,
             crawl' = [crawl EXCEPT !.stage = "returning", !.result = items, !.diagnostics = told]
      PROVE  CrawlHolds(crawl', request)
  <2>1. /\ DOMAIN crawl' = CrawlFields /\ crawl'.matched = crawl.matched /\ crawl'.found = crawl.found
        /\ crawl'.shown = crawl.shown /\ crawl'.todo = crawl.todo /\ crawl'.result = items
        /\ crawl'.pages = crawl.pages /\ crawl'.fetched = crawl.fetched
    BY <1>1 DEF CrawlHolds, CrawlFields
  <2> QED
    BY <2>1 DEF CrawlHolds
<1>2. CASE S!CollectCampfire
  <2> DEFINE items == S!CampfireResult.items
             told == S!CampfireResult.diagnostics
  <2>1. /\ crawl' = [crawl EXCEPT !.stage = "returning", !.result = items, !.diagnostics = told]
        /\ cache' = (cache \ S!Cached) \cup {[limit |-> S!Limit, items |-> items, diagnostics |-> told]}
        /\ Rest
    BY <1>2 DEF S!CollectCampfire, Rest
  <2>2. items \in Seq(FittingFor(request))
    BY CampfireResultFits
  <2> HIDE DEF items, told
  <2>3. CrawlHolds(crawl', request)
    BY <1>1, <2>1, <2>2
  <2> DEFINE new == [limit |-> S!Limit, items |-> items, diagnostics |-> told]
  <2>4. new.items = items
    OBVIOUS
  <2>5. cache' = (cache \ S!Cached) \cup {new}
    BY <2>1
  <2> HIDE DEF new
  <2>6. \A hit \in cache' : hit \in cache \/ hit = new
    BY <2>5
  <2>7. CacheHolds(cache', request)
    BY <2>2, <2>4, <2>6 DEF CacheHolds
  <2> QED
    BY <2>1, <2>3, <2>7
<1>3. CASE S!CollectMakuake
  <2>1. /\ crawl' = [crawl EXCEPT !.stage = "returning", !.result = S!Observed,
                       !.diagnostics.matched = Len(crawl.found),
                       !.diagnostics.excluded = S!Cardinality({e \in S!ToSet(crawl.found) : S!Excluded(e)})]
        /\ S!Outside
    BY <1>3 DEF S!CollectMakuake
  <2> DEFINE m == Len(crawl.found)
             n == S!Cardinality({e \in S!ToSet(crawl.found) : S!Excluded(e)})
  <2>2. crawl' = [crawl EXCEPT !.stage = "returning", !.result = S!Observed,
                    !.diagnostics = [[crawl.diagnostics EXCEPT !.matched = m] EXCEPT !.excluded = n]]
    <3> HIDE DEF m, n
    <3> QED
      BY <2>1 DEF CrawlHolds, CrawlFields, m, n
  <2> HIDE DEF m, n
  <2>3. S!Observed \in Seq(FittingFor(request))
    BY ObservedFits
  <2>4. CrawlHolds(crawl', request)
    BY <1>1, <2>2, <2>3
  <2> QED
    BY <2>1, <2>4 DEF S!Outside, Rest
<1>4. CASE S!CollectGreen
  <2>1. /\ crawl' = [crawl EXCEPT !.stage = "returning", !.result = S!Observed,
                       !.diagnostics.complete = Len(S!Observed) < S!Limit /\ ~ crawl.more]
        /\ S!Outside
    BY <1>4 DEF S!CollectGreen
  <2> DEFINE complete == Len(S!Observed) < S!Limit /\ ~ crawl.more
  <2>2. crawl' = [crawl EXCEPT !.stage = "returning", !.result = S!Observed,
                    !.diagnostics = [crawl.diagnostics EXCEPT !.complete = complete]]
    <3> HIDE DEF complete
    <3> QED
      BY <2>1 DEF CrawlHolds, CrawlFields, complete
  <2> HIDE DEF complete
  <2>3. S!Observed \in Seq(FittingFor(request))
    BY ObservedFits
  <2>4. CrawlHolds(crawl', request)
    BY <1>1, <2>2, <2>3
  <2> QED
    BY <2>1, <2>4 DEF S!Outside, Rest
<1> QED
  BY <1>2, <1>3, <1>4

\* An address is looked at further, or is over.
LEMMA PageChanges ==
    ASSUME CrawlHolds(crawl, request), NEW a \in S!ToSet(Addresses), NEW page,
           DOMAIN page = {"pc", "items", "looks", "unchanged", "complete"}, page.items \in Seq(Entries),
           crawl' = [crawl EXCEPT !.pages = [crawl.pages EXCEPT ![a] = page]]
    PROVE  CrawlHolds(crawl', request)
<1> DEFINE pages == [crawl.pages EXCEPT ![a] = page]
<1>1. PagesHold(pages)
  BY DEF CrawlHolds, PagesHold
<1> HIDE DEF pages
<1>2. /\ DOMAIN crawl' = CrawlFields /\ crawl'.matched = crawl.matched /\ crawl'.found = crawl.found
      /\ crawl'.shown = crawl.shown /\ crawl'.todo = crawl.todo /\ crawl'.result = crawl.result
      /\ crawl'.pages = pages /\ crawl'.fetched = crawl.fetched
  BY DEF CrawlHolds, CrawlFields, pages
<1> QED
  BY <1>1, <1>2 DEF CrawlHolds

LEMMA AddressSteps ==
    ASSUME CrawlHolds(crawl, request), NEW a \in S!ToSet(Addresses), S!TakeAddress(a) \/ S!LookAt(a)
    PROVE  CrawlHolds(crawl', request) /\ cache' = cache /\ Rest
<1> DEFINE at == crawl.pages[a]
<1>1. /\ DOMAIN at = {"pc", "items", "looks", "unchanged", "complete"} /\ at.items \in Seq(Entries)
      /\ a \in DOMAIN crawl.pages /\ "pages" \in DOMAIN crawl
  BY DEF CrawlHolds, PagesHold, CrawlFields
<1>2. ASSUME NEW pc, crawl' = [crawl EXCEPT !.pages[a].pc = pc]
      PROVE  CrawlHolds(crawl', request)
  <2> DEFINE page == [at EXCEPT !.pc = pc]
  <2>1. DOMAIN page = {"pc", "items", "looks", "unchanged", "complete"} /\ page.items \in Seq(Entries)
    BY <1>1
  <2>2. crawl' = [crawl EXCEPT !.pages = [crawl.pages EXCEPT ![a] = page]]
    BY <1>1, <1>2
  <2> HIDE DEF page
  <2> QED
    BY <2>1, <2>2, PageChanges
<1>3. CASE S!Throw
  BY <1>3, ThrowHolds
<1>4. CASE S!TakeAddress(a) /\ ~ S!Throw
  <2>1. S!Outside /\ \E pc \in {"looking", "over"} : crawl' = [crawl EXCEPT !.pages[a].pc = pc]
    BY <1>4 DEF S!TakeAddress
  <2> QED
    BY <1>2, <2>1 DEF S!Outside, Rest
<1>5. CASE S!LookAt(a)
  <2>1. S!Outside
    BY <1>5 DEF S!LookAt
  <2>2. CASE crawl' = [crawl EXCEPT !.pages[a].pc = "over"]
    BY <1>2, <2>1, <2>2 DEF S!Outside, Rest
  <2>3. CASE crawl' # [crawl EXCEPT !.pages[a].pc = "over"]
    <3>1. PICK n \in Len(at.items) .. Len(ListedAt[a]), scrolled \in BOOLEAN :
               LET items == S!uniqueBy[at.items \o SubSeq(ListedAt[a], 1, n)]
                   unchanged == IF Len(items) = Len(at.items) THEN at.unchanged + 1 ELSE 0
                   complete == unchanged >= 2 \/ (scrolled /\ at.looks + 1 = MaxLooks) IN
               crawl' = [crawl EXCEPT !.pages[a] =
                 [pc |-> IF complete \/ ~scrolled THEN "over" ELSE "looking", items |-> items,
                  looks |-> at.looks + 1, unchanged |-> unchanged, complete |-> complete]]
      BY <1>5, <2>3 DEF S!LookAt
    <3> DEFINE items == S!uniqueBy[at.items \o SubSeq(ListedAt[a], 1, n)]
               unchanged == IF Len(items) = Len(at.items) THEN at.unchanged + 1 ELSE 0
               complete == unchanged >= 2 \/ (scrolled /\ at.looks + 1 = MaxLooks)
               pc == IF complete \/ ~scrolled THEN "over" ELSE "looking"
               page == [pc |-> pc, items |-> items, looks |-> at.looks + 1,
                        unchanged |-> unchanged, complete |-> complete]
    <3>2. crawl' = [crawl EXCEPT !.pages[a] = page]
      BY <3>1
    <3>3. items \in Seq(Entries)
      <4>1. ListedAt[a] \in Seq(Entries)
        BY ListingsAreOfEntries DEF S!ToSet
      <4>2. Len(at.items) \in Nat /\ Len(ListedAt[a]) \in Nat
        BY <1>1, <4>1
      <4>3. n \in 0 .. Len(ListedAt[a])
        BY <4>2
      <4>4. SubSeq(ListedAt[a], 1, n) \in Seq(Entries)
        BY <4>1, <4>3
      <4> QED
        BY <1>1, <4>4, UniqueOfBoth
    <3> HIDE DEF items, unchanged, complete, pc
    <3>4. DOMAIN page = {"pc", "items", "looks", "unchanged", "complete"} /\ page.items = items
      OBVIOUS
    <3> HIDE DEF page
    <3>5. crawl' = [crawl EXCEPT !.pages = [crawl.pages EXCEPT ![a] = page]]
      BY <1>1, <3>2
    <3>6. CrawlHolds(crawl', request)
      BY <3>3, <3>4, <3>5, PageChanges
    <3> QED
      BY <2>1, <3>6 DEF S!Outside, Rest
  <2> QED
    BY <2>2, <2>3
<1> QED
  BY <1>3, <1>4, <1>5

LEMMA PoolStep ==
    ASSUME CrawlHolds(crawl, request), S!PoolCandidates
    PROVE  CrawlHolds(crawl', request) /\ cache' = cache /\ Rest
<1>1. CASE S!Throw
  BY <1>1, ThrowHolds
<1>2. CASE ~ S!Throw
  <2> DEFINE lists == [i \in DOMAIN Addresses |-> crawl.pages[Addresses[i]].items]
             found == S!uniqueBy[S!Joined(lists)]
             candidates == S!First(S!sortEndingSoon[found], Pool)
             complete == /\ \A a \in S!ToSet(Addresses) : crawl.pages[a].complete
                         /\ Len(candidates) < Pool
  <2>1. S!Outside
    BY <1>2 DEF S!PoolCandidates
  <2>2. crawl' = [crawl EXCEPT !.stage = "enrich", !.todo = candidates, !.pages = S!NoPages,
                               !.diagnostics.complete = complete]
    BY <1>2 DEF S!PoolCandidates
  <2>3. candidates \in Seq(Entries)
    <3>1. \A i \in DOMAIN lists : lists[i] \in Seq(Entries)
      BY DEF CrawlHolds, PagesHold, S!ToSet
    <3>2. DOMAIN lists \subseteq Int /\ IsFiniteSet(DOMAIN lists)
      <4>1. DOMAIN Addresses = 1 .. Len(Addresses) /\ Len(Addresses) \in Nat
        BY ListingsAreOfEntries
      <4> QED
        BY <4>1, FS_Interval
    <3> HIDE DEF lists
    <3>3. S!Joined(lists) \in Seq(Entries)
      BY <3>1, <3>2, JoinedIsList
    <3>4. found \in Seq(Entries)
      BY <3>3, UniqueIsList
    <3> HIDE DEF found
    <3>5. S!sortEndingSoon[found] \in Seq({e \in Entries : S!Fits(e)})
      BY <3>4, SortedIsList
    <3>6. S!sortEndingSoon[found] \in Seq(Entries)
      BY <3>5, WiderList
    <3> QED
      BY <3>6, FirstIsList, LimitsAreNumbers
  <2> HIDE DEF candidates, complete
  <2>4. /\ DOMAIN crawl' = CrawlFields /\ crawl'.matched = crawl.matched /\ crawl'.found = crawl.found
        /\ crawl'.shown = crawl.shown /\ crawl'.todo = candidates /\ crawl'.result = crawl.result
        /\ crawl'.pages = S!NoPages /\ crawl'.fetched = crawl.fetched
    BY <2>2 DEF CrawlHolds, CrawlFields
  <2>5. PagesHold(S!NoPages)
    BY NoPagesHold
  <2>6. CrawlHolds(crawl', request)
    BY <2>3, <2>4, <2>5 DEF CrawlHolds
  <2> QED
    BY <2>1, <2>6 DEF S!Outside, Rest
<1> QED
  BY <1>1, <1>2

LEMMA EnrichStep ==
    ASSUME CrawlHolds(crawl, request), S!Enrich
    PROVE  CrawlHolds(crawl', request) /\ cache' = cache /\ Rest
<1>1. CASE S!Throw
  BY <1>1, ThrowHolds
<1>2. CASE S!Stage("collected") /\ S!Outside
  BY <1>2, StageHolds DEF S!Stage, S!Outside, Rest
<1>3. CASE ~ S!Throw /\ ~ (S!Stage("collected") /\ S!Outside)
  <2> DEFINE batch == S!First(crawl.todo, LookupsAtOnce)
             left == SubSeq(crawl.todo, Len(batch) + 1, Len(crawl.todo))
             found == crawl.found \o batch
  <2>1. S!Outside
    BY <1>3 DEF S!Enrich
  <2>2. crawl' = [crawl EXCEPT !.stage = "report", !.found = @ \o batch, !.todo = left]
    BY <1>3 DEF S!Enrich
  <2>3. batch \in Seq(Entries) /\ Len(batch) \in Nat
    BY FirstIsList, LimitsAreNumbers DEF CrawlHolds
  <2> HIDE DEF batch
  <2>4. left \in Seq(Entries) /\ found \in Seq(Entries)
    BY <2>3 DEF CrawlHolds
  <2>5. /\ DOMAIN crawl' = CrawlFields /\ crawl'.matched = crawl.matched /\ crawl'.found = found
        /\ crawl'.shown = crawl.shown /\ crawl'.todo = left /\ crawl'.result = crawl.result
        /\ crawl'.pages = crawl.pages /\ crawl'.fetched = crawl.fetched
    BY <2>2 DEF CrawlHolds, CrawlFields
  <2> HIDE DEF left, found
  <2>6. CrawlHolds(crawl', request)
    BY <2>4, <2>5 DEF CrawlHolds
  <2> QED
    BY <2>1, <2>6 DEF S!Outside, Rest
<1> QED
  BY <1>1, <1>2, <1>3

LEMMA FetchStep ==
    ASSUME CrawlHolds(crawl, request), listing \in Seq(Entries),
           NEW n \in 1 .. MaxPages, S!Fetch(n)
    PROVE  CrawlHolds(crawl', request) /\ cache' = cache /\ Rest
<1>1. CASE S!Throw
  BY <1>1, ThrowHolds
<1>2. CASE ~ S!Throw
  <2> DEFINE more == crawl.more /\ n < Len(listing)
             fetched == [k \in DOMAIN crawl.fetched \cup {n} |->
                  IF k # n THEN crawl.fetched[k] ELSE IF n <= Len(listing) THEN <<listing[n]>> ELSE <<>>]
  <2>1. S!Outside /\ n \notin DOMAIN crawl.fetched
    BY <1>2 DEF S!Fetch
  <2>2. crawl' = [crawl EXCEPT !.stage = "fetch", !.more = @ /\ n < Len(listing),
               !.fetched = [k \in DOMAIN @ \cup {n} |->
                  IF k # n THEN @[k] ELSE IF n <= Len(listing) THEN <<listing[n]>> ELSE <<>>]]
    BY <1>2 DEF S!Fetch
  <2>3. FetchedHold(fetched)
    <3>1. DOMAIN fetched \subseteq 1 .. MaxPages
      BY DEF CrawlHolds, FetchedHold
    <3>2. ASSUME NEW k \in DOMAIN fetched PROVE fetched[k] \in Seq(Entries)
      <4>1. CASE k # n
        BY <4>1 DEF CrawlHolds, FetchedHold
      <4>2. CASE k = n /\ n <= Len(listing)
        <5>1. listing[n] \in Entries
          BY <4>2
        <5> QED
          BY <4>2, <5>1
      <4>3. CASE k = n /\ ~ n <= Len(listing)
        BY <4>3
      <4> QED
        BY <4>1, <4>2, <4>3
    <3> HIDE DEF fetched
    <3> QED
      BY <3>1, <3>2 DEF FetchedHold
  <2>4. /\ DOMAIN crawl' = CrawlFields /\ crawl'.matched = crawl.matched /\ crawl'.found = crawl.found
        /\ crawl'.shown = crawl.shown /\ crawl'.todo = crawl.todo /\ crawl'.result = crawl.result
        /\ crawl'.pages = crawl.pages /\ crawl'.fetched = fetched
    BY <2>2 DEF CrawlHolds, CrawlFields
  <2> HIDE DEF fetched
  <2>5. CrawlHolds(crawl', request)
    BY <2>3, <2>4 DEF CrawlHolds
  <2> QED
    BY <2>1, <2>5 DEF S!Outside, Rest
<1> QED
  BY <1>1, <1>2

LEMMA CombineStep ==
    ASSUME CrawlHolds(crawl, request), S!Combine
    PROVE  CrawlHolds(crawl', request) /\ cache' = cache /\ Rest
<1> DEFINE matches == S!Kept(S!uniqueBy[S!Joined(crawl.fetched)], S!FittingEntries)
           found == S!uniqueBy[crawl.found \o S!Wanted[matches]]
           m == crawl.diagnostics.matched + Len(matches)
           x == S!Cardinality({i \in DOMAIN matches : S!Excluded(matches[i])})
<1>1. S!Outside
  BY DEF S!Combine
<1>2. crawl' = [crawl EXCEPT
         !.stage = "report",
         !.page = @ + PagesAtOnce,
         !.fetched = [n \in {} |-> <<>>],
         !.found = S!uniqueBy[@ \o S!Wanted[matches]],
         !.diagnostics.matched = @ + Len(matches),
         !.diagnostics.excluded = @ + x]
  BY DEF S!Combine
<1>3. matches \in Seq(Entries)
  <2>1. DOMAIN crawl.fetched \subseteq Int /\ IsFiniteSet(DOMAIN crawl.fetched)
    <3>1. MaxPages \in Nat
      BY LimitsAreNumbers
    <3>2. IsFiniteSet(1 .. MaxPages)
      BY <3>1, FS_Interval
    <3>3. DOMAIN crawl.fetched \in SUBSET (1 .. MaxPages)
      BY DEF CrawlHolds, FetchedHold
    <3>4. IsFiniteSet(DOMAIN crawl.fetched)
      BY <3>2, <3>3, FS_Subset
    <3> QED
      BY <3>3, <3>4
  <2>2. S!Joined(crawl.fetched) \in Seq(Entries)
    BY <2>1, JoinedIsList DEF CrawlHolds, FetchedHold
  <2>3. S!uniqueBy[S!Joined(crawl.fetched)] \in Seq(Entries)
    BY <2>2, UniqueIsList
  <2>4. matches \in Seq(Entries \cap S!FittingEntries)
    BY <2>3, KeptIsList
  <2> HIDE DEF matches
  <2> QED
    BY <2>4, WiderList
<1> HIDE DEF matches, x
<1>4. /\ DOMAIN crawl' = CrawlFields /\ crawl'.matched = crawl.matched /\ crawl'.found = found
      /\ crawl'.shown = crawl.shown /\ crawl'.todo = crawl.todo /\ crawl'.result = crawl.result
      /\ crawl'.pages = crawl.pages /\ crawl'.fetched = [n \in {} |-> <<>>]
  BY <1>2 DEF CrawlHolds, CrawlFields
<1>5. found \in Seq(Entries)
  BY <1>3, WantedOf, UniqueOfBoth DEF CrawlHolds
<1>6. FetchedHold([n \in {} |-> <<>>])
  BY DEF FetchedHold
<1> HIDE DEF found
<1>7. CrawlHolds(crawl', request)
  BY <1>4, <1>5, <1>6 DEF CrawlHolds
<1> QED
  BY <1>1, <1>7 DEF S!Outside, Rest

-----------------------------------------------------------------------------
(* The worker and the row of its job.                                      *)

JobHolds(j, r) ==
    /\ DOMAIN j = {"pc", "rounds", "items", "diagnostics"}
    /\ j.rounds \in Seq(Nat)
    /\ j.pc = "crawling" => j.rounds # <<>>
    /\ WholeFor(r, j.items)

\* While the row runs its list is one the worker had.
RowHolds(w, j, r) ==
    /\ DOMAIN w = {"status", "items", "reason"}
    /\ w.status = "running" =>
         /\ w.reason = "none"
         /\ w.items \in Seq(S!FittingProjects(r))
         /\ Begins(w.items, j.items)

SearchHolds ==
    /\ request \in SearchRequests
    /\ listing \in Seq(Entries)
    /\ CrawlHolds(crawl, request)
    /\ CacheHolds(cache, request)
    /\ JobHolds(job, request)
    /\ RowHolds(row, job, request)

Onward == SearchHolds' /\ (Feed!Next \/ UNCHANGED Feed!vars)

LEMMA BeginsGoesOn ==
    ASSUME NEW Values, NEW a \in Seq(Values), NEW b \in Seq(Values), NEW c \in Seq(Values),
           Begins(a, b), Begins(b, c)
    PROVE  Begins(a, c)
  BY DEF Begins

LEMMA BeginningIsPrefix ==
    ASSUME NEW Values, NEW a \in Seq(Values), NEW b \in Seq(Values), Begins(a, b)
    PROVE  Feed!IsPrefix(a, b)
<1>1. Len(a) \in Nat /\ Len(b) \in Nat /\ Len(a) <= Len(b)
  BY DEF Begins
<1> DEFINE n == Len(a)
<1>2. SubSeq(a, 1, n) = [k \in 1 .. n |-> a[k]] /\ SubSeq(b, 1, n) = [k \in 1 .. n |-> b[k]]
  BY <1>1
<1>3. \A k \in 1 .. n : a[k] = b[k]
  BY DEF Begins
<1>4. SubSeq(a, 1, n) = SubSeq(b, 1, n)
  BY <1>2, <1>3
<1> QED
  BY <1>1, <1>4 DEF Feed!IsPrefix

LEMMA BeginningIsWhole ==
    ASSUME NEW r \in SearchRequests, NEW list \in Seq(S!FittingProjects(r)), NEW more,
           WholeFor(r, more), Begins(list, more)
    PROVE  WholeFor(r, list)
<1>1. r.desired \in Nat
  BY SearchRequestsAreRequests
<1>2. Len(list) \in Nat /\ Len(more) \in Nat /\ Len(list) <= Len(more)
  BY DEF Begins, WholeFor
<1> QED
  BY <1>1, <1>2 DEF WholeFor, Begins

LEMMA WholeIsWhole ==
    ASSUME NEW r \in SearchRequests, NEW list, WholeFor(r, list)
    PROVE  /\ Feed!IsInjective(list)
           /\ Feed!ToSet(list) \subseteq [q \in SearchRequests |-> S!FittingProjects(q)][r]
           /\ Len(list) <= r.desired
  BY DEF WholeFor, Feed!IsInjective, Feed!ToSet

\* A list that begins with the worker's takes its place.
LEMMA FeedExtends ==
    ASSUME SearchHolds, row.status = "running", NEW items, WholeFor(request, items),
           Begins(job.items, items), UNCHANGED <<request, searches>>,
           row' = [row EXCEPT !.items = items]
    PROVE  /\ Feed!Extend
           /\ \A j : j.items = items => RowHolds(row', j, request)
<1>1. /\ row.items \in Seq(S!FittingProjects(request)) /\ Begins(row.items, job.items)
      /\ row.reason = "none" /\ row'.items = items /\ row'.reason = row.reason
      /\ DOMAIN row' = DOMAIN row /\ row'.status = row.status
  BY DEF SearchHolds, RowHolds
<1>2. job.items \in Seq(S!FittingProjects(request)) /\ items \in Seq(S!FittingProjects(request))
  BY DEF SearchHolds, JobHolds, WholeFor
<1>3. Feed!IsPrefix(row.items, items)
  BY <1>1, <1>2, BeginsGoesOn, BeginningIsPrefix
<1>4. Feed!Whole(items)
  BY WholeIsWhole DEF Feed!Whole, SearchHolds
<1>5. Feed!Extend
  <2>1. UNCHANGED <<searches, request, row.reason>>
    BY <1>1
  <2> QED
    BY <1>1, <1>3, <1>4, <2>1 DEF Feed!Extend
<1>6. Begins(items, items)
  BY <1>2 DEF Begins
<1> QED
  BY <1>1, <1>2, <1>5, <1>6 DEF RowHolds, SearchHolds

LEMMA FeedEnds ==
    ASSUME SearchHolds, row.status = "running", UNCHANGED <<request, searches>>,
           row'.items = row.items \/ row'.items = job.items,
           row'.reason # "none",
           row'.reason = "desired_reached" => Len(row'.items) = request.desired,
           row'.reason \in {"source_exhausted", "condition_shortage", "excluded_existing"} =>
             Len(row'.items) < request.desired
    PROVE  Feed!End
<1>1. /\ row.items \in Seq(S!FittingProjects(request)) /\ Begins(row.items, job.items)
      /\ row.reason = "none"
  BY DEF SearchHolds, RowHolds
<1>2. job.items \in Seq(S!FittingProjects(request)) /\ WholeFor(request, job.items)
      /\ request \in SearchRequests
  BY DEF SearchHolds, JobHolds, WholeFor
<1>3. WholeFor(request, row'.items)
  BY <1>1, <1>2, BeginningIsWhole
<1>4. Begins(row.items, row'.items)
  BY <1>1 DEF Begins
<1>5. Feed!IsPrefix(row.items, row'.items)
  BY <1>1, <1>3, <1>4, BeginningIsPrefix DEF WholeFor
<1>6. Feed!Whole(row'.items)
  BY <1>2, <1>3, WholeIsWhole DEF Feed!Whole
<1>7. UNCHANGED <<searches, request>>
  OBVIOUS
<1> QED
  BY <1>1, <1>5, <1>6, <1>7 DEF Feed!End

LEMMA QuietGoesOn ==
    ASSUME SearchHolds, Rest, CrawlHolds(crawl', request), CacheHolds(cache', request)
    PROVE  Onward
  BY DEF Rest, Onward, SearchHolds, Feed!vars

LEMMA WorkerGoesOn ==
    ASSUME NEW j, NEW r, NEW w, JobHolds(j, r), RowHolds(w, j, r), NEW pc, pc # "crawling"
    PROVE  JobHolds([j EXCEPT !.pc = pc], r) /\ RowHolds(w, [j EXCEPT !.pc = pc], r)
  BY DEF JobHolds, RowHolds

\* The list of the worker gets longer.
LEMMA LongerJob ==
    ASSUME NEW j, NEW r, JobHolds(j, r), NEW items, WholeFor(r, items)
    PROVE  JobHolds([j EXCEPT !.items = items], r) /\ [j EXCEPT !.items = items].items = items
  BY DEF JobHolds

LEMMA LongerThanRow ==
    ASSUME NEW w, NEW j, NEW k, NEW r, JobHolds(j, r), RowHolds(w, j, r), WholeFor(r, k.items),
           Begins(j.items, k.items)
    PROVE  RowHolds(w, k, r)
  BY BeginsGoesOn DEF JobHolds, RowHolds, WholeFor

LEMMA AddGoesOn ==
    ASSUME SearchHolds, NEW s \in Seq(FittingFor(request)), NEW next, NEW other,
           S!AddObservedItems(s, S!Stage(next), S!Stage(other)),
           UNCHANGED <<request, listing, cache, searches>>
    PROVE  Onward
<1> DEFINE items == S!Merged(s)
<1>1. WholeFor(request, items) /\ Begins(job.items, items)
  BY MergedIsWhole DEF SearchHolds, JobHolds
<1> HIDE DEF items
<1>2. CrawlHolds(crawl', request)
  <2>1. S!Stage(next) \/ S!Stage(other)
    BY DEF S!AddObservedItems
  <2>2. CrawlHolds(crawl, request)
    BY DEF SearchHolds
  <2>3. \A x : CrawlHolds([crawl EXCEPT !.stage = x], request)
    BY <2>2, StageHolds
  <2> QED
    BY <2>1, <2>3 DEF S!Stage
<1>3. CASE UNCHANGED <<row, job>>
  BY <1>2, <1>3, QuietGoesOn DEF Rest, SearchHolds
<1>4. CASE ~ UNCHANGED <<row, job>>
  <2>1. /\ row.status = "running"
        /\ row' = [row EXCEPT !.items = items]
        /\ job' = [job EXCEPT !.items = items]
    BY <1>4 DEF S!AddObservedItems, items
  <2>2. Feed!Extend /\ \A j : j.items = items => RowHolds(row', j, request)
    BY <1>1, <2>1, FeedExtends
  <2>3. JobHolds(job', request) /\ job'.items = items
    BY <1>1, <2>1, LongerJob DEF SearchHolds
  <2> QED
    BY <1>2, <2>2, <2>3 DEF Onward, SearchHolds, Feed!Next
<1> QED
  BY <1>3, <1>4

LEMMA ReportGoesOn ==
    ASSUME SearchHolds, S!Report
    PROVE  Onward
<1>1. /\ UNCHANGED <<request, listing, cache, searches>>
      /\ job.pc = "crawling"
  BY DEF S!Report, S!Crawling
<1>2. S!Limit \in Nat
  BY <1>1, LimitIsNumber DEF SearchHolds, JobHolds
<1>3. S!Observed \in Seq(FittingFor(request))
  BY <1>2, ObservedFits DEF SearchHolds
<1>4. CASE S!Stage("throwing") /\ UNCHANGED <<row, job>>
  BY <1>1, <1>4, StageHolds, QuietGoesOn DEF S!Stage, SearchHolds, Rest
<1>5. CASE S!AddObservedItems(S!Observed, S!Stage(S!AfterReport), S!Stage("throwing"))
  BY <1>1, <1>3, <1>5, AddGoesOn
<1>6. CASE /\ job' = [job EXCEPT !.items = S!Merged(S!Observed)]
           /\ S!Stage("throwing")
           /\ UNCHANGED row
  <2> DEFINE items == S!Merged(S!Observed)
  <2>1. WholeFor(request, items) /\ Begins(job.items, items)
    BY <1>3, MergedIsWhole DEF SearchHolds, JobHolds
  <2> HIDE DEF items
  <2>2. JobHolds(job', request) /\ job'.items = items
    BY <1>6, <2>1, LongerJob DEF SearchHolds, items
  <2>3. RowHolds(row, job', request)
    BY <2>1, <2>2, LongerThanRow DEF SearchHolds
  <2>4. CrawlHolds(crawl', request)
    BY <1>6, StageHolds DEF S!Stage, SearchHolds
  <2> QED
    BY <1>1, <1>6, <2>2, <2>3, <2>4 DEF Onward, SearchHolds, Feed!vars
<1> QED
  BY <1>4, <1>5, <1>6 DEF S!Report

LEMMA CachedGoesOn ==
    ASSUME SearchHolds, S!ReportCached
    PROVE  Onward
<1>1. UNCHANGED <<request, listing, cache, searches>>
  BY DEF S!ReportCached
<1>2. crawl.result \in Seq(FittingFor(request))
  BY DEF SearchHolds, CrawlHolds
<1>3. CASE S!Stage("throwing") /\ UNCHANGED <<row, job>>
  BY <1>1, <1>3, StageHolds, QuietGoesOn DEF S!Stage, SearchHolds, Rest
<1>4. CASE S!AddObservedItems(crawl.result, S!Stage("returning"), S!Stage("throwing"))
  BY <1>1, <1>2, <1>4, AddGoesOn
<1> QED
  BY <1>3, <1>4 DEF S!ReportCached

LEMMA CrawlGoesOn ==
    ASSUME SearchHolds, S!CampfireStep \/ S!MakuakeStep \/ S!GreenStep \/ S!Close
    PROVE  Onward
<1>1. CASE S!Open \/ S!OpenPage \/ S!Attempt \/ S!Scroll \/ S!Click \/ S!Count \/ S!Launch \/ S!Close
  BY <1>1, QuietSteps, QuietGoesOn DEF SearchHolds, Rest
<1>2. CASE S!Look \/ S!PoolCandidates \/ S!Enrich \/ S!Combine
  BY <1>2, LookStep, PoolStep, EnrichStep, CombineStep, QuietGoesOn DEF SearchHolds
<1>3. CASE S!Lookups \/ S!CollectCampfire \/ S!CollectMakuake \/ S!CollectGreen
  <2>1. job.pc = "crawling"
    BY <1>3 DEF S!Lookups, S!CollectCampfire, S!CollectMakuake, S!CollectGreen, S!Crawling
  <2>2. S!Limit \in Nat
    BY <2>1, LimitIsNumber DEF SearchHolds, JobHolds
  <2> QED
    BY <1>3, <2>2, LookupsStep, CollectSteps, QuietGoesOn DEF SearchHolds
<1>4. CASE \E a \in S!ToSet(Addresses) : S!TakeAddress(a) \/ S!LookAt(a)
  BY <1>4, AddressSteps, QuietGoesOn DEF SearchHolds
<1>5. CASE \E n \in 1 .. MaxPages : S!Fetch(n)
  BY <1>5, FetchStep, QuietGoesOn DEF SearchHolds
<1> QED
  BY <1>1, <1>2, <1>3, <1>4, <1>5, CachedGoesOn DEF S!CampfireStep, S!MakuakeStep, S!GreenStep

LEMMA StartGoesOn ==
    ASSUME SearchHolds, S!Start
    PROVE  Onward
<1> DEFINE wanted == {n \in S!ToSet(Limits) : n >= request.desired}
<1>1. S!progressiveSearchLimits \in Seq(Nat)
  <2>1. S!progressiveSearchLimits = S!Kept(Limits, wanted)
    BY DEF S!progressiveSearchLimits
  <2> HIDE DEF wanted
  <2>2. S!Kept(Limits, wanted) \in Seq(Nat \cap wanted)
    BY KeptIsList, LimitsAreNumbers
  <2> QED
    BY <2>1, <2>2, WiderList
<1>2. /\ searches' = searches + 1
      /\ row' = [status |-> "running", items |-> <<>>, reason |-> "none"]
      /\ job' = [S!NoWorker EXCEPT !.pc = "round", !.rounds = S!progressiveSearchLimits]
      /\ crawl' = S!NoCrawl
      /\ UNCHANGED <<request, listing, cache>>
  BY DEF S!Start
<1>3. row'.items = <<>> /\ row'.reason = "none" /\ DOMAIN row' = {"status", "items", "reason"}
  BY <1>2
<1>4. /\ DOMAIN job' = {"pc", "rounds", "items", "diagnostics"} /\ job'.pc = "round"
      /\ job'.rounds = S!progressiveSearchLimits /\ job'.items = <<>>
  BY <1>2 DEF S!NoWorker
<1>5. WholeFor(request, <<>>) /\ Begins(<<>>, <<>>)
  BY SearchRequestsAreRequests DEF WholeFor, Begins, SearchHolds
<1>6. JobHolds(job', request)
  BY <1>1, <1>4, <1>5 DEF JobHolds
<1>7. RowHolds(row', job', request)
  BY <1>3, <1>4, <1>5 DEF RowHolds, WholeFor
<1>8. Feed!Begin
  BY <1>2, <1>3 DEF Feed!Begin
<1> QED
  BY <1>2, <1>6, <1>7, <1>8, NoCrawlHolds DEF Onward, SearchHolds, Feed!Next

LEMMA WorldGoesOn ==
    ASSUME SearchHolds, S!Cancel \/ S!Abort \/ S!ListNewest \/ S!Expire \/ S!Catch
    PROVE  Onward
<1>1. CASE S!Cancel
  <2>1. /\ row' = [row EXCEPT !.status = "cancelled", !.reason = "cancelled"]
        /\ row.status = "running"
        /\ UNCHANGED <<request, job, crawl, listing, cache, searches>>
    BY <1>1 DEF S!Cancel
  <2>2. /\ DOMAIN row' = {"status", "items", "reason"} /\ row'.status = "cancelled"
        /\ row'.reason = "cancelled" /\ row'.items = row.items
    BY <2>1 DEF SearchHolds, RowHolds
  <2>3. Feed!End
    BY <2>1, <2>2, FeedEnds
  <2>4. RowHolds(row', job, request)
    BY <2>2 DEF RowHolds
  <2> QED
    BY <2>1, <2>3, <2>4 DEF Onward, SearchHolds, Feed!Next
<1>2. CASE S!Abort
  BY <1>2 DEF S!Abort, Onward, SearchHolds, Feed!vars
<1>3. CASE S!ListNewest
  <2>1. listing' = <<Newest>> \o listing /\ UNCHANGED <<request, row, job, crawl, cache, searches>>
    BY <1>3 DEF S!ListNewest
  <2>2. listing' \in Seq(Entries)
    BY <2>1, ListingsAreOfEntries DEF SearchHolds
  <2> QED
    BY <2>1, <2>2 DEF Onward, SearchHolds, Feed!vars
<1>4. CASE S!Expire
  <2>1. cache' \subseteq cache /\ UNCHANGED <<request, row, job, crawl, listing, searches>>
    BY <1>4 DEF S!Expire
  <2>2. CacheHolds(cache', request)
    BY <2>1 DEF CacheHolds, SearchHolds
  <2> QED
    BY <2>1, <2>2 DEF Onward, SearchHolds, Feed!vars
<1>5. CASE S!Catch
  <2>1. /\ job' = [job EXCEPT !.pc = IF aborted THEN "over" ELSE "failing"]
        /\ UNCHANGED <<request, row, crawl, listing, cache, searches>>
    BY <1>5 DEF S!Catch, S!Worker
  <2>2. JobHolds(job', request) /\ RowHolds(row, job', request)
    BY <2>1, WorkerGoesOn DEF SearchHolds
  <2> QED
    BY <2>1, <2>2 DEF Onward, SearchHolds, Feed!vars
<1> QED
  BY <1>1, <1>2, <1>3, <1>4, <1>5

LEMMA BeginRoundGoesOn ==
    ASSUME SearchHolds, S!BeginRound
    PROVE  Onward
<1>1. UNCHANGED <<request, row, listing, cache, searches>>
  BY DEF S!BeginRound
<1>2. CASE \E pc \in {"over", "finishing", "failing"} : S!Worker(pc) /\ UNCHANGED crawl
  <2>0. PICK pc \in {"over", "finishing", "failing"} : job' = [job EXCEPT !.pc = pc]
    BY <1>2 DEF S!Worker
  <2>1. JobHolds(job', request) /\ RowHolds(row, job', request)
    BY <2>0, WorkerGoesOn DEF SearchHolds
  <2> QED
    BY <1>1, <1>2, <2>1 DEF Onward, SearchHolds, Feed!vars
<1>3. CASE job.rounds # <<>> /\ S!Worker("crawling") /\ crawl' = [S!NoCrawl EXCEPT !.stage = "open"]
  <2>1. CrawlHolds(crawl', request)
    BY <1>3, NoCrawlHolds, StageHolds
  <2>2. /\ DOMAIN job' = {"pc", "rounds", "items", "diagnostics"} /\ job'.rounds = job.rounds
        /\ job'.items = job.items
    BY <1>3 DEF S!Worker, SearchHolds, JobHolds
  <2>3. JobHolds(job', request) /\ RowHolds(row, job', request)
    BY <1>3, <2>2 DEF SearchHolds, JobHolds, RowHolds
  <2> QED
    BY <1>1, <2>1, <2>3 DEF Onward, SearchHolds, Feed!vars
<1> QED
  BY <1>2, <1>3 DEF S!BeginRound

LEMMA EndRoundGoesOn ==
    ASSUME SearchHolds, S!EndRound
    PROVE  Onward
<1> DEFINE sorted == S!sortEndingSoon[crawl.result]
           items == S!Merged(sorted)
           saved == row.status = "running" \/ crawl.result = <<>>
           next == IF Len(items) >= request.desired THEN "finishing" ELSE "round"
<1>1. /\ UNCHANGED <<request, crawl, listing, cache, searches>>
      /\ job.pc = "crawling"
  BY DEF S!EndRound, S!Crawling
<1>2. WholeFor(request, items) /\ Begins(job.items, items)
  <2>1. FittingFor(request) \subseteq Entries
    BY DEF FittingFor
  <2>2. sorted \in Seq({e \in FittingFor(request) : S!Fits(e)})
    BY <2>1, SortedIsList DEF SearchHolds, CrawlHolds
  <2>3. sorted \in Seq(FittingFor(request))
    BY <2>2, WiderList
  <2> HIDE DEF sorted
  <2> QED
    BY <2>3, MergedIsWhole DEF SearchHolds, JobHolds
<1>3. CASE S!Worker("over") /\ UNCHANGED row
  <2>1. JobHolds(job', request) /\ RowHolds(row, job', request)
    BY <1>3, WorkerGoesOn DEF SearchHolds, S!Worker
  <2> QED
    BY <1>1, <1>3, <2>1 DEF Onward, SearchHolds, Feed!vars
<1>4. CASE job' = [job EXCEPT !.pc = "failing", !.items = items] /\ UNCHANGED row
  <2> HIDE DEF items
  <2>1. /\ DOMAIN job' = {"pc", "rounds", "items", "diagnostics"} /\ job'.rounds = job.rounds
        /\ job'.items = items /\ job'.pc = "failing"
    BY <1>4 DEF SearchHolds, JobHolds
  <2>2. JobHolds(job', request)
    BY <1>2, <2>1 DEF SearchHolds, JobHolds
  <2>3. RowHolds(row, job', request)
    BY <1>2, <2>1, LongerThanRow DEF SearchHolds
  <2> QED
    BY <1>1, <1>4, <2>2, <2>3 DEF Onward, SearchHolds, Feed!vars
<1>5. CASE /\ saved
           /\ row' = IF crawl.result = <<>> THEN row ELSE [row EXCEPT !.items = items]
           /\ job' = [job EXCEPT !.pc = next, !.rounds = Tail(@), !.items = items,
                                 !.diagnostics = crawl.diagnostics]
  <2>1. next # "crawling"
    OBVIOUS
  <2> HIDE DEF items, next
  <2>2. /\ DOMAIN job' = {"pc", "rounds", "items", "diagnostics"} /\ job'.rounds = Tail(job.rounds)
        /\ job'.items = items /\ job'.pc = next
    BY <1>5 DEF SearchHolds, JobHolds
  <2>3. Tail(job.rounds) \in Seq(Nat)
    BY <1>1 DEF SearchHolds, JobHolds
  <2>4. JobHolds(job', request)
    BY <1>2, <2>1, <2>2, <2>3 DEF JobHolds
  <2>5. CASE crawl.result = <<>>
    <3>1. RowHolds(row, job', request)
      BY <1>2, <2>2, LongerThanRow DEF SearchHolds
    <3> QED
      BY <1>1, <1>5, <2>4, <2>5, <3>1 DEF Onward, SearchHolds, Feed!vars
  <2>6. CASE crawl.result # <<>>
    <3>1. row.status = "running" /\ row' = [row EXCEPT !.items = items]
      BY <1>5, <2>6
    <3>2. Feed!Extend /\ RowHolds(row', job', request)
      BY <1>1, <1>2, <2>2, <3>1, FeedExtends
    <3> QED
      BY <1>1, <2>4, <3>2 DEF Onward, SearchHolds, Feed!Next
  <2> QED
    BY <2>5, <2>6
<1> QED
  <2> HIDE DEF items
  <2> QED
    BY <1>3, <1>4, <1>5 DEF S!EndRound, items

LEMMA FinishGoesOn ==
    ASSUME SearchHolds, S!Finish
    PROVE  Onward
<1> DEFINE reason == IF job.pc = "failing" THEN "failed" ELSE S!decideProjectSearchCompletion
<1>1. UNCHANGED <<request, crawl, listing, cache, searches>>
  BY DEF S!Finish
<1>2. PICK pc \in {"over", "failing"} : job' = [job EXCEPT !.pc = pc]
  BY DEF S!Finish, S!Worker
<1>3. JobHolds(job', request) /\ RowHolds(row, job', request)
  BY <1>2, WorkerGoesOn DEF SearchHolds
<1>4. CASE UNCHANGED row
  BY <1>1, <1>3, <1>4 DEF Onward, SearchHolds, Feed!vars
<1>5. CASE ~ UNCHANGED row
  <2> DEFINE status == IF reason = "failed" THEN "failed" ELSE "completed"
  <2>1. row.status = "running" /\ row' = [status |-> status, items |-> job.items, reason |-> reason]
    BY <1>5 DEF S!Finish
  <2>2. /\ Len(job.items) \in Nat /\ Len(job.items) <= request.desired /\ request.desired \in Nat
    BY SearchRequestsAreRequests DEF SearchHolds, JobHolds, WholeFor
  <2>3. /\ reason # "none"
        /\ reason = "desired_reached" => Len(job.items) = request.desired
        /\ reason \in {"source_exhausted", "condition_shortage", "excluded_existing"} =>
             Len(job.items) < request.desired
    BY <2>2 DEF S!decideProjectSearchCompletion
  <2>4. status # "running"
    OBVIOUS
  <2> HIDE DEF reason, status
  <2>5. /\ DOMAIN row' = {"status", "items", "reason"} /\ row'.status = status
        /\ row'.items = job.items /\ row'.reason = reason
    BY <2>1
  <2>6. Feed!End
    BY <1>1, <2>1, <2>3, <2>5, FeedEnds
  <2>7. RowHolds(row', job', request)
    BY <2>4, <2>5 DEF RowHolds
  <2> QED
    BY <1>1, <1>3, <2>6, <2>7 DEF Onward, SearchHolds, Feed!Next
<1> QED
  BY <1>4, <1>5

LEMMA SearchStarts == S!Init => SearchHolds /\ Feed!Init
<1> SUFFICES ASSUME S!Init PROVE SearchHolds /\ Feed!Init
  OBVIOUS
<1>1. JobHolds(S!NoWorker, request)
  BY SearchRequestsAreRequests DEF S!Init, JobHolds, S!NoWorker, WholeFor
<1>2. request \in SearchRequests /\ listing \in Seq(Entries) /\ crawl = S!NoCrawl /\ cache = {}
      /\ job = S!NoWorker
  BY ListingsAreOfEntries DEF S!Init
<1>3. RowHolds(row, job, request)
  BY DEF S!Init, RowHolds
<1>4. Feed!Init
  BY DEF Feed!Init, S!Init
<1> QED
  BY <1>1, <1>2, <1>3, <1>4, NoCrawlHolds DEF SearchHolds, CacheHolds

LEMMA SearchGoesOn == SearchHolds /\ (S!Next \/ UNCHANGED searchVars) => Onward
<1>1. SearchHolds /\ UNCHANGED searchVars => Onward
  BY DEF searchVars, Onward, SearchHolds, Feed!vars
<1>2. SearchHolds /\ S!Next => Onward
  BY StartGoesOn, WorldGoesOn, CrawlGoesOn, ReportGoesOn, BeginRoundGoesOn, EndRoundGoesOn, FinishGoesOn
     DEF S!Next, S!Work
<1> QED
  BY <1>1, <1>2

-----------------------------------------------------------------------------
\* FeedPromise: whatever the source, and whatever becomes of the search, of its crawl and
\* of its statements, the list of candidates its owner reads is the one CandidateFeed
\* promises (ProjectSearchJobManager.runSearchJob and the providers it searches with).
THEOREM SearchKeepsFeed == PartsSpec => FeedPromise
<1>1. PartsInit => SearchHolds /\ Feed!Init
  BY SearchStarts DEF PartsInit
<1>2. SearchHolds /\ [PartsNext]_<<part, vars, searchVars>> => Onward
  <2>1. [PartsNext]_<<part, vars, searchVars>> => S!Next \/ UNCHANGED searchVars
    BY DEF PartsNext
  <2> QED
    BY <2>1, SearchGoesOn
<1>3. Onward => SearchHolds' /\ [Feed!Next]_(Feed!vars)
  BY DEF Onward
<1> QED
  BY <1>1, <1>2, <1>3, PTL DEF PartsSpec, FeedPromise, Feed!Spec
=============================================================================
