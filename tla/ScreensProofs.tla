---------------------------- MODULE ScreensProofs ----------------------------
(***************************************************************************)
(* What holds of the pages for any leads, companies, mails, projects and   *)
(* lists, however often the user clicks and in whatever order the calls    *)
(* are answered or fail.                                                   *)
(***************************************************************************)
EXTENDS Screens, Sequences, FiniteSetTheorems, SequenceTheorems, WellFoundedInduction, TLAPS

-----------------------------------------------------------------------------
(* Workspace: what every function of the script keeps.                     *)

Places == Leads \cup Companies \cup Mails \cup {Nothing}

WorkCall ==
    {c \in [op : Ops, of : Places, then : {"none", "select", "generations", "analysis"},
            carries : Places, mails : SUBSET Mails] :
        /\ c.op = "polish" => c.of \in Mails
        /\ c.op = "generations" => c.then # "generations"}

Page ==
    [lead : Leads \cup {Nothing}, mail : Mails \cup {Nothing}, listed : BOOLEAN,
     mails : SUBSET Mails, analysis : Places, analysisLoading : BOOLEAN,
     generations : Places, contacts : Places, contactsOf : Places,
     contactsLoading : BOOLEAN, checklist : Places, engagement : Places,
     engagementLoading : Places, baseline : Places, text : Places,
     typed : {"clean", "typed", "saving"}, calls : SUBSET WorkCall]

\* Without a lead there is no mail, and nothing but the lists is asked for.  Contacts
\* and engagement that are being loaded are on their way, and the contacts are those of
\* the company they were asked for last.
Steady(p) ==
    /\ p \in Page
    /\ p.lead = Nothing => p.mail = Nothing /\ \A c \in p.calls : c.op = "lists"
    /\ p.contactsLoading => Call("contacts", p.contactsOf) \in p.calls
    /\ p.contactsLoading \/ p.contacts \in {Nothing, p.contactsOf}
    /\ p.engagementLoading = Nothing \/ Call("engagement", p.engagementLoading) \in p.calls

Analysed(p) ==
    /\ p.analysisLoading \/ p.analysis \in {Nothing, p.lead}
    /\ p.analysisLoading => Call("analysis", p.lead) \in p.calls

Edited(p) == p.baseline = p.mail

Sound(p) == Steady(p) /\ Analysed(p) /\ Edited(p)

\* Lead and analysis stay, and no call is taken back.
Keeps(p, q) ==
    /\ q.lead = p.lead /\ q.analysis = p.analysis /\ q.analysisLoading = p.analysisLoading
    /\ p.calls \subseteq q.calls

LEMMA KeepsAnalysis ==
    ASSUME NEW p, NEW q, Keeps(p, q), Analysed(p)
    PROVE  Analysed(q)
BY DEF Keeps, Analysed

LEMMA KeepsOn ==
    ASSUME NEW p, NEW q, NEW r, Keeps(p, q), Keeps(q, r)
    PROVE  Keeps(p, r)
BY DEF Keeps

LEMMA PlacesArePlaces == Nothing \in Places /\ \A m \in Mails \cup {Nothing} : m \in Places
BY DEF Places

LEMMA CallIsCall ==
    ASSUME NEW op \in Ops, NEW of \in Places, op = "polish" => of \in Mails
    PROVE  Call(op, of) \in WorkCall
BY DEF Call, WorkCall, Places

LEMMA AskingKeeps ==
    ASSUME NEW p, Steady(p), NEW c \in WorkCall, p.lead # Nothing \/ c.op = "lists"
    PROVE  /\ Steady(Asking(p, c)) /\ Keeps(p, Asking(p, c)) /\ c \in Asking(p, c).calls
           /\ Edited(p) => Edited(Asking(p, c))
           /\ Asking(p, c).mail = p.mail /\ Asking(p, c).baseline = p.baseline
<1> DEFINE q == Asking(p, c)
<1>1. p \in Page
  BY DEF Steady
<1>2. /\ q \in Page /\ q.calls = p.calls \cup {c}
      /\ q.lead = p.lead /\ q.mail = p.mail /\ q.analysis = p.analysis
      /\ q.analysisLoading = p.analysisLoading /\ q.contacts = p.contacts
      /\ q.contactsOf = p.contactsOf /\ q.contactsLoading = p.contactsLoading
      /\ q.engagementLoading = p.engagementLoading /\ q.baseline = p.baseline
  BY <1>1 DEF Page, Asking
<1> QED
  BY <1>2 DEF Steady, Keeps, Edited

\* A finite set of numbers has a greatest one: of the sets of members above a member
\* one has no smaller one among them.
LEMMA Greatest ==
    ASSUME NEW V \in SUBSET Nat, IsFiniteSet(V), V # {}
    PROVE  \E m \in V : \A w \in V : w <= m
<1> DEFINE Above(m) == {w \in V : w > m}
           Sets == {Above(m) : m \in V}
<1>1. Sets \subseteq FiniteSubsetsOf(V) /\ Sets # {}
  <2>1. Sets \subseteq FiniteSubsetsOf(V)
    BY FS_FiniteSubsetsOfFinite
  <2>2. Sets # {}
    OBVIOUS
  <2> QED
    BY <2>1, <2>2
<1>2. IsWellFoundedOn(StrictSubsetOrdering(V), FiniteSubsetsOf(V))
  BY FS_StrictSubsetOrderingWellFounded
<1>3. PICK s \in Sets : \A t \in Sets : <<t, s>> \notin StrictSubsetOrdering(V)
  <2> HIDE DEF Sets
  <2> QED BY <1>1, <1>2, WFMin
<1>4. PICK m \in V : s = Above(m)
  BY <1>3
<1>5. ASSUME NEW w \in V, w > m PROVE FALSE
  <2>1. Above(w) \in Sets
    OBVIOUS
  <2>2. Above(w) \subseteq Above(m) /\ Above(w) # Above(m)
    <3>1. V \subseteq Int /\ w \in V /\ w > m
      BY <1>5
    <3>2. \A x \in V : x > w => x > m
      BY <3>1
    <3>3. w \in Above(m) /\ w \notin Above(w)
      BY <3>1
    <3> QED
      BY <3>2, <3>3
  <2>3. <<Above(w), Above(m)>> \in StrictSubsetOrdering(V)
    <3>1. Above(w) \in SUBSET V /\ Above(m) \in SUBSET V
      OBVIOUS
    <3> HIDE DEF Above
    <3> QED
      BY <2>2, <3>1 DEF StrictSubsetOrdering
  <2> QED
    BY <2>1, <2>3, <1>3, <1>4
<1>6. \A w \in V : w \in Nat /\ m \in Nat
  OBVIOUS
<1> QED
  BY <1>5, <1>6

LEMMA EnsureKeeps ==
    ASSUME NEW p, Steady(p)
    PROVE  /\ Steady(EnsureSelectedMail(p)) /\ Keeps(p, EnsureSelectedMail(p))
           /\ EnsureSelectedMail(p).mail \in SelectedLeadMails(p) \cup {Nothing}
<1> DEFINE own == SelectedLeadMails(p)
           m == IF p.mail \in own THEN p.mail
                ELSE IF own = {} THEN Nothing
                ELSE CHOOSE k \in own : \A n \in own : n <= k
           q == EnsureSelectedMail(p)
<1>1. p \in Page
  BY DEF Steady
<1>2. own \subseteq Mails /\ IsFiniteSet(own) /\ own \in SUBSET Nat
  <2>1. own \subseteq Mails
    BY <1>1 DEF Page, SelectedLeadMails
  <2> QED
    BY <2>1, MailsAreNumbers, FS_Subset
<1>3. m \in own \cup {Nothing}
  <2>1. CASE own # {}
    BY <2>1, <1>2, Greatest
  <2>2. CASE own = {}
    BY <2>2
  <2> QED
    BY <2>1, <2>2
<1>4. p.lead = Nothing => m = Nothing
  <2>1. p.lead = Nothing => own = {}
    BY <1>1, NothingIsNothing, MailsHaveLeads DEF SelectedLeadMails, Page
  <2> QED
    BY <2>1, <1>3
<1>5. q = [p EXCEPT !.mail = m]
  BY DEF EnsureSelectedMail
<1> HIDE DEF m, own
<1>6. /\ q \in Page /\ q.calls = p.calls
      /\ q.lead = p.lead /\ q.mail = m /\ q.analysis = p.analysis
      /\ q.analysisLoading = p.analysisLoading /\ q.contacts = p.contacts
      /\ q.contactsOf = p.contactsOf /\ q.contactsLoading = p.contactsLoading
      /\ q.engagementLoading = p.engagementLoading
  BY <1>1, <1>2, <1>3, <1>5 DEF Page
<1> HIDE DEF q
<1> QED
  BY <1>3, <1>4, <1>6 DEF Steady, Keeps, own, q

LEMMA PopulateKeeps ==
    ASSUME NEW p, Steady(p), NEW m \in Mails \cup {Nothing}, NEW force \in BOOLEAN
    PROVE  /\ Steady(Populate(p, m, force)) /\ Keeps(p, Populate(p, m, force))
           /\ Populate(p, m, force).mail = p.mail /\ Populate(p, m, force).baseline = m
<1> DEFINE q == [p EXCEPT !.text = m, !.typed = "clean", !.baseline = m]
<1>1. p \in Page
  BY DEF Steady
<1>2. /\ q \in Page /\ q.calls = p.calls
      /\ q.lead = p.lead /\ q.mail = p.mail /\ q.analysis = p.analysis
      /\ q.analysisLoading = p.analysisLoading /\ q.contacts = p.contacts
      /\ q.contactsOf = p.contactsOf /\ q.contactsLoading = p.contactsLoading
      /\ q.engagementLoading = p.engagementLoading /\ q.baseline = m
  BY <1>1, PlacesArePlaces DEF Page
<1>3. Populate(p, m, force) = IF ~force /\ p.baseline = m THEN p ELSE q
  BY DEF Populate
<1> HIDE DEF q
<1> QED
  BY <1>2, <1>3 DEF Steady, Keeps

LEMMA EngagementKeeps ==
    ASSUME NEW p, Steady(p), NEW m \in Places, m # Nothing => p.lead # Nothing
    PROVE  /\ Steady(LoadEngagement(p, m)) /\ Keeps(p, LoadEngagement(p, m))
           /\ LoadEngagement(p, m).mail = p.mail
           /\ LoadEngagement(p, m).baseline = p.baseline
<1> DEFINE none == [p EXCEPT !.engagement = Nothing, !.engagementLoading = Nothing]
           q == [p EXCEPT !.engagementLoading = m]
           c == Call("engagement", m)
           r == Asking(q, c)
<1>1. p \in Page
  BY DEF Steady
<1>2. CASE m = Nothing
  <2>1. /\ none \in Page /\ none.calls = p.calls
        /\ none.lead = p.lead /\ none.mail = p.mail /\ none.analysis = p.analysis
        /\ none.analysisLoading = p.analysisLoading /\ none.contacts = p.contacts
        /\ none.contactsOf = p.contactsOf /\ none.contactsLoading = p.contactsLoading
        /\ none.engagementLoading = Nothing /\ none.baseline = p.baseline
    BY <1>1, PlacesArePlaces DEF Page
  <2>2. LoadEngagement(p, m) = none
    BY <1>2 DEF LoadEngagement
  <2> HIDE DEF none
  <2> QED
    BY <2>1, <2>2 DEF Steady, Keeps
<1>3. CASE m # Nothing /\ m \in {p.engagement, p.engagementLoading}
  <2>1. LoadEngagement(p, m) = p
    BY <1>3 DEF LoadEngagement
  <2> QED
    BY <2>1 DEF Keeps
<1>4. CASE m # Nothing /\ m \notin {p.engagement, p.engagementLoading}
  <2>1. LoadEngagement(p, m) = r
    BY <1>4 DEF LoadEngagement
  <2>2. c \in WorkCall
    BY CallIsCall DEF Ops
  <2>3. r = [p EXCEPT !.engagementLoading = m, !.calls = @ \cup {c}]
    BY <1>1 DEF Asking, Page
  <2> HIDE DEF c, r
  <2>4. /\ r \in Page /\ r.calls = p.calls \cup {c}
        /\ r.lead = p.lead /\ r.mail = p.mail /\ r.analysis = p.analysis
        /\ r.analysisLoading = p.analysisLoading /\ r.contacts = p.contacts
        /\ r.contactsOf = p.contactsOf /\ r.contactsLoading = p.contactsLoading
        /\ r.engagementLoading = m /\ r.baseline = p.baseline
    BY <1>1, <2>2, <2>3 DEF Page
  <2> QED
    BY <1>4, <2>1, <2>4 DEF Steady, Keeps, c
<1> QED
  BY <1>2, <1>3, <1>4

LEMMA RenderKeeps ==
    ASSUME NEW p, Steady(p)
    PROVE  Steady(RenderMails(p)) /\ Keeps(p, RenderMails(p)) /\ Edited(RenderMails(p))
<1> DEFINE q == IF p.lead = Nothing THEN p ELSE EnsureSelectedMail(p)
           m == IF p.lead = Nothing THEN Nothing ELSE q.mail
           r == Populate(q, m, FALSE)
<1>1. Steady(q) /\ Keeps(p, q) /\ m = q.mail
  <2>1. CASE p.lead = Nothing
    BY <2>1 DEF Steady, Keeps
  <2>2. CASE p.lead # Nothing
    BY <2>2, EnsureKeeps
  <2> QED
    BY <2>1, <2>2
<1>2. m \in Mails \cup {Nothing} /\ m \in Places /\ (m # Nothing => q.lead # Nothing)
  BY <1>1 DEF Steady, Page, Places
<1> HIDE DEF q, m
<1>3. Steady(r) /\ Keeps(q, r) /\ r.mail = q.mail /\ r.baseline = m
  BY <1>1, <1>2, PopulateKeeps
<1>4. m # Nothing => r.lead # Nothing
  BY <1>2, <1>3 DEF Keeps
<1>5. RenderMails(p) = LoadEngagement(r, m)
  BY DEF RenderMails, q, m
<1> HIDE DEF r
<1>6. /\ Steady(LoadEngagement(r, m)) /\ Keeps(r, LoadEngagement(r, m))
      /\ LoadEngagement(r, m).mail = LoadEngagement(r, m).baseline
  BY <1>1, <1>2, <1>3, <1>4, EngagementKeeps
<1> QED
  BY <1>1, <1>3, <1>5, <1>6, KeepsOn DEF Edited

LEMMA ClearKeeps ==
    ASSUME NEW p, Steady(p)
    PROVE  /\ Steady(ClearMailEditor(p)) /\ Keeps(p, ClearMailEditor(p))
           /\ Edited(ClearMailEditor(p))
<1> DEFINE q == [p EXCEPT !.mail = Nothing, !.checklist = Nothing]
<1>1. p \in Page
  BY DEF Steady
<1>2. /\ q \in Page /\ q.calls = p.calls
      /\ q.lead = p.lead /\ q.mail = Nothing /\ q.analysis = p.analysis
      /\ q.analysisLoading = p.analysisLoading /\ q.contacts = p.contacts
      /\ q.contactsOf = p.contactsOf /\ q.contactsLoading = p.contactsLoading
      /\ q.engagementLoading = p.engagementLoading
  BY <1>1, PlacesArePlaces DEF Page
<1>3. ClearMailEditor(p) = Populate(q, Nothing, TRUE)
  BY DEF ClearMailEditor
<1> HIDE DEF q
<1>4. Steady(q) /\ Keeps(p, q)
  BY <1>2 DEF Steady, Keeps
<1>5. /\ Steady(Populate(q, Nothing, TRUE)) /\ Keeps(q, Populate(q, Nothing, TRUE))
      /\ Edited(Populate(q, Nothing, TRUE))
  <2>1. /\ Steady(Populate(q, Nothing, TRUE)) /\ Keeps(q, Populate(q, Nothing, TRUE))
        /\ Populate(q, Nothing, TRUE).mail = q.mail
        /\ Populate(q, Nothing, TRUE).baseline = Nothing
    BY <1>4, PopulateKeeps
  <2> QED
    BY <1>2, <2>1 DEF Edited
<1> QED
  BY <1>3, <1>4, <1>5, KeepsOn

\* A field that nothing here depends on is set.
LEMMA ChecklistKeeps ==
    ASSUME NEW p, Steady(p), NEW x \in Places
    PROVE  LET q == [p EXCEPT !.checklist = x] IN
           Steady(q) /\ Keeps(p, q) /\ q.mail = p.mail /\ q.baseline = p.baseline
<1> DEFINE q == [p EXCEPT !.checklist = x]
<1>1. p \in Page
  BY DEF Steady
<1>2. /\ q \in Page /\ q.calls = p.calls
      /\ q.lead = p.lead /\ q.mail = p.mail /\ q.analysis = p.analysis
      /\ q.analysisLoading = p.analysisLoading /\ q.contacts = p.contacts
      /\ q.contactsOf = p.contactsOf /\ q.contactsLoading = p.contactsLoading
      /\ q.engagementLoading = p.engagementLoading /\ q.baseline = p.baseline
  BY <1>1 DEF Page
<1> HIDE DEF q
<1>3. Steady(q) /\ Keeps(p, q) /\ q.mail = p.mail /\ q.baseline = p.baseline
  BY <1>2 DEF Steady, Keeps
<1> QED
  BY <1>3 DEF q

LEMMA GenerationsKeep ==
    ASSUME NEW p, Steady(p), NEW x \in Places
    PROVE  LET q == [p EXCEPT !.generations = x] IN
           Steady(q) /\ Keeps(p, q) /\ q.mail = p.mail /\ q.baseline = p.baseline
<1> DEFINE q == [p EXCEPT !.generations = x]
<1>1. p \in Page
  BY DEF Steady
<1>2. /\ q \in Page /\ q.calls = p.calls
      /\ q.lead = p.lead /\ q.mail = p.mail /\ q.analysis = p.analysis
      /\ q.analysisLoading = p.analysisLoading /\ q.contacts = p.contacts
      /\ q.contactsOf = p.contactsOf /\ q.contactsLoading = p.contactsLoading
      /\ q.engagementLoading = p.engagementLoading /\ q.baseline = p.baseline
  BY <1>1 DEF Page
<1> HIDE DEF q
<1>3. Steady(q) /\ Keeps(p, q) /\ q.mail = p.mail /\ q.baseline = p.baseline
  BY <1>2 DEF Steady, Keeps
<1> QED
  BY <1>3 DEF q

LEMMA LoadChecklistKeeps ==
    ASSUME NEW p, Steady(p)
    PROVE  /\ Steady(LoadChecklist(p)) /\ Keeps(p, LoadChecklist(p))
           /\ Edited(p) => Edited(LoadChecklist(p))
<1>1. CASE p.mail = Nothing
  <2>1. LoadChecklist(p) = [p EXCEPT !.checklist = Nothing]
    BY <1>1 DEF LoadChecklist
  <2> QED
    BY <2>1, ChecklistKeeps, PlacesArePlaces DEF Edited
<1>2. CASE p.mail # Nothing
  <2>1. LoadChecklist(p) = Asking(p, Call("checklist", p.mail))
    BY <1>2 DEF LoadChecklist
  <2>2. p.mail \in Mails /\ p.lead # Nothing
    BY <1>2 DEF Steady, Page
  <2>3. Call("checklist", p.mail) \in WorkCall
    BY <2>2, PlacesArePlaces, CallIsCall DEF Ops
  <2> QED
    BY <2>1, <2>2, <2>3, AskingKeeps
<1> QED
  BY <1>1, <1>2

LEMMA SelectKeeps ==
    ASSUME NEW p, Steady(p), NEW m \in Mails \cup {Nothing}, m # Nothing => p.lead # Nothing
    PROVE  /\ Steady(SelectMail(p, m)) /\ Keeps(p, SelectMail(p, m))
           /\ Edited(SelectMail(p, m))
<1> DEFINE q == [p EXCEPT !.mail = m, !.checklist = Nothing]
           r == Populate(q, m, TRUE)
           s == RenderMails(r)
<1>1. p \in Page
  BY DEF Steady
<1>2. CASE m \notin p.mails
  <2>1. SelectMail(p, m) = ClearMailEditor(p)
    BY <1>2 DEF SelectMail
  <2> QED
    BY <2>1, ClearKeeps
<1>3. CASE m \in p.mails
  <2>1. m \in Mails /\ p.lead # Nothing
    BY <1>1, <1>3, NothingIsNothing DEF Page
  <2>2. /\ q \in Page /\ q.calls = p.calls
        /\ q.lead = p.lead /\ q.mail = m /\ q.analysis = p.analysis
        /\ q.analysisLoading = p.analysisLoading /\ q.contacts = p.contacts
        /\ q.contactsOf = p.contactsOf /\ q.contactsLoading = p.contactsLoading
        /\ q.engagementLoading = p.engagementLoading
    BY <1>1, PlacesArePlaces DEF Page
  <2>3. SelectMail(p, m) = LoadChecklist(s)
    BY <1>3 DEF SelectMail
  <2> HIDE DEF q
  <2>4. Steady(q) /\ Keeps(p, q)
    BY <2>1, <2>2 DEF Steady, Keeps
  <2>5. Steady(r) /\ Keeps(q, r)
    BY <2>4, PopulateKeeps
  <2> HIDE DEF r
  <2>6. Steady(s) /\ Keeps(r, s) /\ Edited(s)
    BY <2>5, RenderKeeps
  <2> HIDE DEF s
  <2>7. Steady(LoadChecklist(s)) /\ Keeps(s, LoadChecklist(s)) /\ Edited(LoadChecklist(s))
    BY <2>6, LoadChecklistKeeps
  <2> QED
    BY <2>3, <2>4, <2>5, <2>6, <2>7, KeepsOn
<1> QED
  BY <1>2, <1>3

\* The analysis of the selected lead is asked for, whichever was loaded before.
LEMMA LoadAnalysisKeeps ==
    ASSUME NEW p, Steady(p)
    PROVE  Sound(LoadAnalysis(p)) /\ LoadAnalysis(p).lead = p.lead
<1>1. p \in Page
  BY DEF Steady
<1>2. CASE p.lead = Nothing
  <2> DEFINE q == [p EXCEPT !.analysis = Nothing, !.analysisLoading = FALSE]
  <2>1. /\ q \in Page /\ q.calls = p.calls
        /\ q.lead = p.lead /\ q.mail = p.mail /\ q.analysis = Nothing
        /\ q.analysisLoading = FALSE /\ q.contacts = p.contacts
        /\ q.contactsOf = p.contactsOf /\ q.contactsLoading = p.contactsLoading
        /\ q.engagementLoading = p.engagementLoading
    BY <1>1, PlacesArePlaces DEF Page
  <2>2. LoadAnalysis(p) = RenderMails(q)
    BY <1>2 DEF LoadAnalysis
  <2> HIDE DEF q
  <2>3. Steady(q) /\ Analysed(q)
    BY <2>1 DEF Steady, Analysed
  <2>4. Steady(RenderMails(q)) /\ Keeps(q, RenderMails(q)) /\ Edited(RenderMails(q))
    BY <2>3, RenderKeeps
  <2>5. Analysed(RenderMails(q)) /\ RenderMails(q).lead = p.lead
    BY <2>1, <2>3, <2>4, KeepsAnalysis DEF Keeps
  <2> QED
    BY <2>2, <2>4, <2>5 DEF Sound
<1>3. CASE p.lead # Nothing
  <2> DEFINE q == [p EXCEPT !.analysisLoading = TRUE]
             r == RenderMails(q)
             c == Call("analysis", p.lead)
  <2>1. /\ q \in Page /\ q.calls = p.calls
        /\ q.lead = p.lead /\ q.mail = p.mail
        /\ q.analysisLoading = TRUE /\ q.contacts = p.contacts
        /\ q.contactsOf = p.contactsOf /\ q.contactsLoading = p.contactsLoading
        /\ q.engagementLoading = p.engagementLoading
    BY <1>1 DEF Page
  <2>2. LoadAnalysis(p) = Asking(r, c)
    BY <1>3 DEF LoadAnalysis
  <2> HIDE DEF q
  <2>3. Steady(q)
    BY <2>1 DEF Steady
  <2>4. Steady(r) /\ Keeps(q, r) /\ Edited(r)
    BY <2>3, RenderKeeps
  <2> HIDE DEF r
  <2>5. c \in WorkCall
    <3>1. p.lead \in Places
      BY <1>1 DEF Page, Places
    <3> QED
      BY <3>1, CallIsCall DEF Ops
  <2>6. r.lead = p.lead /\ r.analysisLoading
    BY <2>1, <2>4 DEF Keeps
  <2>7. /\ Steady(Asking(r, c)) /\ Keeps(r, Asking(r, c)) /\ c \in Asking(r, c).calls
        /\ Edited(Asking(r, c))
    BY <1>3, <2>4, <2>5, <2>6, AskingKeeps
  <2>8. Analysed(Asking(r, c)) /\ Asking(r, c).lead = p.lead
    BY <2>6, <2>7 DEF Analysed, Keeps
  <2> QED
    BY <2>2, <2>7, <2>8 DEF Sound
<1> QED
  BY <1>2, <1>3

LEMMA LoadContactsKeeps ==
    ASSUME NEW p, Steady(p)
    PROVE  /\ Steady(LoadContacts(p)) /\ Keeps(p, LoadContacts(p))
           /\ Edited(p) => Edited(LoadContacts(p))
<1>1. p \in Page
  BY DEF Steady
<1>2. CASE p.lead = Nothing \/ ~p.listed
  <2> DEFINE q == [p EXCEPT !.contacts = Nothing, !.contactsOf = Nothing,
                            !.contactsLoading = FALSE]
  <2>1. /\ q \in Page /\ q.calls = p.calls
        /\ q.lead = p.lead /\ q.mail = p.mail /\ q.analysis = p.analysis
        /\ q.analysisLoading = p.analysisLoading /\ q.contacts = Nothing
        /\ q.contactsLoading = FALSE
        /\ q.engagementLoading = p.engagementLoading /\ q.baseline = p.baseline
    BY <1>1, PlacesArePlaces DEF Page
  <2>2. LoadContacts(p) = q
    BY <1>2 DEF LoadContacts
  <2> HIDE DEF q
  <2> QED
    BY <2>1, <2>2 DEF Steady, Keeps, Edited
<1>3. CASE p.lead # Nothing /\ p.listed
  <2> DEFINE k == CompanyOf[p.lead]
             c == Call("contacts", k)
             q == [p EXCEPT !.contactsOf = k, !.contactsLoading = TRUE]
             r == Asking(q, c)
  <2>1. LoadContacts(p) = r
    BY <1>3 DEF LoadContacts
  <2>2. k \in Places
    <3>1. p.lead \in Leads
      BY <1>1, <1>3 DEF Page
    <3> QED
      BY <3>1, LeadsHaveCompanies DEF Places
  <2>3. c \in WorkCall
    BY <2>2, CallIsCall DEF Ops
  <2>4. r = [p EXCEPT !.contactsOf = k, !.contactsLoading = TRUE, !.calls = @ \cup {c}]
    BY <1>1 DEF Asking, Page
  <2> HIDE DEF c, k, q, r
  <2>5. /\ r \in Page /\ r.calls = p.calls \cup {c}
        /\ r.lead = p.lead /\ r.mail = p.mail /\ r.analysis = p.analysis
        /\ r.analysisLoading = p.analysisLoading
        /\ r.contactsOf = k /\ r.contactsLoading = TRUE
        /\ r.engagementLoading = p.engagementLoading /\ r.baseline = p.baseline
    BY <1>1, <2>2, <2>3, <2>4 DEF Page
  <2> QED
    BY <1>3, <2>1, <2>5 DEF Steady, Keeps, Edited, c
<1> QED
  BY <1>1, <1>2, <1>3

Thens == {"none", "select", "analysis"}

LEMMA ThenKeeps ==
    ASSUME NEW p, Sound(p), NEW then \in Thens
    PROVE  Sound(Then(p, then)) /\ Then(p, then).lead = p.lead
<1>1. CASE then = "none"
  BY <1>1 DEF Then
<1>2. CASE then = "select"
  <2>1. p.mail \in Mails \cup {Nothing} /\ (p.mail # Nothing => p.lead # Nothing)
    BY DEF Sound, Steady, Page
  <2>2. Then(p, then) = SelectMail(p, p.mail)
    BY <1>2 DEF Then
  <2>3. /\ Steady(SelectMail(p, p.mail)) /\ Keeps(p, SelectMail(p, p.mail))
        /\ Edited(SelectMail(p, p.mail))
    BY <2>1, SelectKeeps DEF Sound
  <2> QED
    BY <2>2, <2>3, KeepsAnalysis DEF Sound, Keeps
<1>3. CASE then = "analysis"
  BY <1>3, LoadAnalysisKeeps DEF Then, Sound
<1> QED
  BY <1>1, <1>2, <1>3 DEF Thens

LEMMA LoadGenerationsSteady ==
    ASSUME NEW p, Steady(p)
    PROVE  /\ Steady(LoadGenerations(p, "none")) /\ Keeps(p, LoadGenerations(p, "none"))
           /\ Edited(p) => Edited(LoadGenerations(p, "none"))
<1>1. CASE p.lead = Nothing
  <2>1. LoadGenerations(p, "none") = [p EXCEPT !.generations = Nothing]
    BY <1>1 DEF LoadGenerations, Then
  <2> QED
    BY <2>1, GenerationsKeep, PlacesArePlaces DEF Edited
<1>2. CASE p.lead # Nothing
  <2> DEFINE c == [Call("generations", p.lead) EXCEPT !.then = "none"]
  <2>1. LoadGenerations(p, "none") = Asking(p, c)
    BY <1>2 DEF LoadGenerations
  <2>2. c \in WorkCall
    <3>1. p.lead \in Places
      BY DEF Steady, Page, Places
    <3>2. c = Call("generations", p.lead)
      BY DEF Call
    <3> QED
      BY <3>1, <3>2, CallIsCall DEF Ops
  <2> HIDE DEF c
  <2> QED
    BY <1>2, <2>1, <2>2, AskingKeeps
<1> QED
  BY <1>1, <1>2

LEMMA LoadGenerationsKeeps ==
    ASSUME NEW p, Sound(p), NEW then \in Thens
    PROVE  Sound(LoadGenerations(p, then))
<1>1. CASE p.lead = Nothing
  <2> DEFINE q == [p EXCEPT !.generations = Nothing]
  <2>1. Steady(q) /\ Keeps(p, q) /\ Edited(q)
    BY GenerationsKeep, PlacesArePlaces DEF Sound, Edited
  <2>2. LoadGenerations(p, then) = Then(q, then)
    BY <1>1 DEF LoadGenerations
  <2> HIDE DEF q
  <2>3. Sound(q)
    BY <2>1, KeepsAnalysis DEF Sound
  <2> QED
    BY <2>2, <2>3, ThenKeeps
<1>2. CASE p.lead # Nothing
  <2> DEFINE c == [Call("generations", p.lead) EXCEPT !.then = then]
  <2>1. LoadGenerations(p, then) = Asking(p, c)
    BY <1>2 DEF LoadGenerations
  <2>2. c \in WorkCall
    <3>1. p.lead \in Places
      BY DEF Sound, Steady, Page, Places
    <3> QED
      BY <3>1, PlacesArePlaces DEF Call, WorkCall, Ops, Thens
  <2> HIDE DEF c
  <2>3. Steady(Asking(p, c)) /\ Keeps(p, Asking(p, c)) /\ Edited(Asking(p, c))
    BY <1>2, <2>2, AskingKeeps DEF Sound
  <2> QED
    BY <2>1, <2>3, KeepsAnalysis DEF Sound
<1> QED
  BY <1>1, <1>2

LEMMA LoadAllKeeps ==
    ASSUME NEW p, Sound(p), mails \subseteq Mails, NEW then \in Thens \cup {"generations"}
    PROVE  Sound(LoadAll(p, then))
<1> DEFINE c == [Call("lists", Nothing) EXCEPT !.then = then, !.mails = mails]
<1>1. c \in WorkCall /\ c.op = "lists"
  BY PlacesArePlaces DEF Call, WorkCall, Ops, Thens
<1>2. LoadAll(p, then) = Asking(p, c)
  BY DEF LoadAll
<1> HIDE DEF c
<1>3. Steady(Asking(p, c)) /\ Keeps(p, Asking(p, c)) /\ Edited(Asking(p, c))
  BY <1>1, AskingKeeps DEF Sound
<1> QED
  BY <1>2, <1>3, KeepsAnalysis DEF Sound

LEMMA AfterKeeps ==
    ASSUME NEW p, Sound(p), NEW then \in Thens \cup {"generations"}
    PROVE  Sound(After(p, then))
BY LoadGenerationsKeeps, ThenKeeps DEF After, Thens

LEMMA ListsKeep ==
    ASSUME NEW p, Sound(p), NEW c \in WorkCall, saved \in Leads \cup {Nothing}
    PROVE  Sound(ListsLoaded(p, c))
<1> DEFINE lists == [p EXCEPT !.listed = TRUE, !.mails = c.mails,
                              !.lead = IF saved # Nothing THEN saved ELSE @]
           picked == EnsureSelectedMail(lists)
           rendered == RenderMails(picked)
           drawn == LoadContacts(rendered)
           asked == LoadGenerations(drawn, "none")
<1>1. p \in Page /\ c.mails \subseteq Mails
  BY DEF Sound, Steady, WorkCall
<1>2. /\ lists \in Page /\ lists.calls = p.calls
      /\ lists.lead = (IF saved # Nothing THEN saved ELSE p.lead)
      /\ lists.mail = p.mail /\ lists.analysis = p.analysis
      /\ lists.analysisLoading = p.analysisLoading /\ lists.contacts = p.contacts
      /\ lists.contactsOf = p.contactsOf /\ lists.contactsLoading = p.contactsLoading
      /\ lists.engagementLoading = p.engagementLoading
  BY <1>1 DEF Page
<1>3. ListsLoaded(p, c) = IF drawn.lead = Nothing THEN drawn ELSE LoadAnalysis(asked)
  BY DEF ListsLoaded
<1> HIDE DEF lists
<1>4. Steady(lists)
  BY <1>2 DEF Sound, Steady
<1>5. Steady(picked) /\ Keeps(lists, picked)
  BY <1>4, EnsureKeeps
<1> HIDE DEF picked
<1>6. Steady(rendered) /\ Keeps(picked, rendered) /\ Edited(rendered)
  BY <1>5, RenderKeeps
<1> HIDE DEF rendered
<1>7. Steady(drawn) /\ Keeps(rendered, drawn) /\ Edited(drawn)
  BY <1>6, LoadContactsKeeps
<1> HIDE DEF drawn
<1>8. CASE drawn.lead = Nothing
  <2>1. Keeps(lists, drawn)
    BY <1>5, <1>6, <1>7, KeepsOn
  <2>2. lists.lead = p.lead
    BY <1>2, <1>8, <2>1, NothingIsNothing DEF Keeps, Sound, Steady, Page
  <2>3. Analysed(lists)
    BY <1>2, <2>2 DEF Sound, Analysed
  <2> QED
    BY <1>3, <1>7, <1>8, <2>1, <2>3, KeepsAnalysis DEF Sound
<1>9. CASE drawn.lead # Nothing
  <2>1. Steady(asked)
    BY <1>7, LoadGenerationsSteady
  <2> HIDE DEF asked
  <2> QED
    BY <1>3, <1>9, <2>1, LoadAnalysisKeeps
<1> QED
  BY <1>8, <1>9

LEMMA SelectLeadKeeps ==
    ASSUME NEW p, Sound(p), NEW l \in Leads
    PROVE  Sound(SelectLead(p, l))
<1> DEFINE first == [p EXCEPT !.lead = l, !.generations = Nothing,
                       !.analysis = Nothing, !.analysisLoading = FALSE,
                       !.checklist = Nothing]
           q == EnsureSelectedMail(first)
           r == RenderMails(q)
           s == IF q.mail = Nothing THEN RenderMails(ClearMailEditor(r))
                                    ELSE SelectMail(r, q.mail)
           t == RenderMails(s)
           u == LoadContacts(t)
           v == LoadGenerations(u, "none")
<1>1. p \in Page
  BY DEF Sound, Steady
<1>2. l # Nothing
  BY NothingIsNothing
<1>3. /\ first \in Page /\ first.calls = p.calls
      /\ first.lead = l /\ first.mail = p.mail /\ first.contacts = p.contacts
      /\ first.contactsOf = p.contactsOf /\ first.contactsLoading = p.contactsLoading
      /\ first.engagementLoading = p.engagementLoading
  BY <1>1, PlacesArePlaces DEF Page
<1>4. SelectLead(p, l) = LoadAnalysis(v)
  BY DEF SelectLead
<1> HIDE DEF first
<1>5. Steady(first)
  BY <1>2, <1>3 DEF Sound, Steady
<1>6. Steady(q) /\ q.lead = l
  BY <1>3, <1>5, EnsureKeeps DEF Keeps
<1> HIDE DEF q
<1>7. Steady(r) /\ r.lead = l
  BY <1>6, RenderKeeps DEF Keeps
<1> HIDE DEF r
<1>8. Steady(s)
  <2>1. CASE q.mail = Nothing
    BY <1>7, <2>1, ClearKeeps, RenderKeeps
  <2>2. CASE q.mail # Nothing
    <3>1. q.mail \in Mails \cup {Nothing}
      BY <1>6 DEF Steady, Page
    <3>2. Steady(SelectMail(r, q.mail))
      BY <1>2, <1>7, <3>1, SelectKeeps
    <3> QED
      BY <2>2, <3>2
  <2> QED
    BY <2>1, <2>2
<1> HIDE DEF s
<1>9. Steady(t)
  BY <1>8, RenderKeeps
<1> HIDE DEF t
<1>10. Steady(u)
  BY <1>9, LoadContactsKeeps
<1> HIDE DEF u
<1>11. Steady(v)
  BY <1>10, LoadGenerationsSteady
<1> HIDE DEF v
<1> QED
  BY <1>4, <1>11, LoadAnalysisKeeps

-----------------------------------------------------------------------------
(* Workspace: what the answers to its calls keep.                          *)

LEMMA HasKeeps ==
    ASSUME NEW p, Sound(p), NEW c \in p.calls
    PROVE  /\ Has(p, c) \in Page /\ Has(p, c).calls = p.calls \ {c}
           /\ Has(p, c) = [p EXCEPT !.calls = p.calls \ {c}]
           /\ c.op \notin {"contacts", "engagement", "analysis"} => Sound(Has(p, c))
           /\ Has(p, c).lead = p.lead /\ Has(p, c).mail = p.mail
           /\ Has(p, c).lead = Nothing => c.op = "lists"
           /\ c \in WorkCall
<1> DEFINE q == Has(p, c)
<1>1. p \in Page
  BY DEF Sound, Steady
<1>2. q = [p EXCEPT !.calls = p.calls \ {c}]
  BY DEF Has
<1>3. /\ q \in Page /\ q.calls = p.calls \ {c}
      /\ q.lead = p.lead /\ q.mail = p.mail /\ q.analysis = p.analysis
      /\ q.analysisLoading = p.analysisLoading /\ q.contacts = p.contacts
      /\ q.contactsOf = p.contactsOf /\ q.contactsLoading = p.contactsLoading
      /\ q.engagementLoading = p.engagementLoading /\ q.baseline = p.baseline
  BY <1>1, <1>2 DEF Page
<1> HIDE DEF q
<1>4. c \in WorkCall /\ (p.lead = Nothing => c.op = "lists")
  BY <1>1 DEF Page, Sound, Steady
<1>5. c.op \notin {"contacts", "engagement", "analysis"} => Sound(q)
  BY <1>3 DEF Sound, Steady, Analysed, Edited, Call
<1> QED
  BY <1>2, <1>3, <1>4, <1>5 DEF q

LEMMA EngagementAnswered ==
    ASSUME NEW p, Sound(p), NEW c \in p.calls, c.op = "engagement"
    PROVE  /\ Sound(EngagementShown(Has(p, c), c))
           /\ Sound(Failed(Has(p, c), c))
<1> DEFINE h == Has(p, c)
<1>1. p \in Page /\ c \in WorkCall
  BY HasKeeps DEF Sound, Steady
<1>2. ASSUME NEW x \in Places
      PROVE  LET q == IF h.mail # c.of THEN h ELSE [h EXCEPT !.engagement = x]
             IN  Sound([q EXCEPT !.engagementLoading = IF @ = c.of THEN Nothing ELSE @])
  <2> DEFINE q == IF h.mail # c.of THEN h ELSE [h EXCEPT !.engagement = x]
             r == [q EXCEPT !.engagementLoading = IF @ = c.of THEN Nothing ELSE @]
  <2>1. h \in Page /\ h = [p EXCEPT !.calls = p.calls \ {c}]
    BY HasKeeps
  <2> HIDE DEF h
  <2>2. /\ q \in Page /\ q.calls = p.calls \ {c}
        /\ q.lead = p.lead /\ q.mail = p.mail /\ q.analysis = p.analysis
        /\ q.analysisLoading = p.analysisLoading /\ q.contacts = p.contacts
        /\ q.contactsOf = p.contactsOf /\ q.contactsLoading = p.contactsLoading
        /\ q.engagementLoading = p.engagementLoading /\ q.baseline = p.baseline
    BY <1>1, <2>1 DEF Page
  <2> HIDE DEF q
  <2>3. /\ r \in Page /\ r.calls = p.calls \ {c}
        /\ r.lead = p.lead /\ r.mail = p.mail /\ r.analysis = p.analysis
        /\ r.analysisLoading = p.analysisLoading /\ r.contacts = p.contacts
        /\ r.contactsOf = p.contactsOf /\ r.contactsLoading = p.contactsLoading
        /\ r.baseline = p.baseline
        /\ r.engagementLoading =
              (IF p.engagementLoading = c.of THEN Nothing ELSE p.engagementLoading)
    BY <2>2, PlacesArePlaces DEF Page
  <2> HIDE DEF r
  <2>4. Sound(r)
    BY <2>3 DEF Sound, Steady, Analysed, Edited, Call
  <2> QED
    BY <2>4 DEF r, q
<1>3. Sound(EngagementShown(h, c))
  BY <1>1, <1>2 DEF EngagementShown, WorkCall
<1>4. Sound(Failed(h, c))
  BY <1>2, PlacesArePlaces DEF Failed
<1> QED
  BY <1>3, <1>4

LEMMA AnalysisAnswered ==
    ASSUME NEW p, Sound(p), NEW c \in p.calls, c.op = "analysis"
    PROVE  /\ Sound(AnalysisShown(Has(p, c), c))
           /\ Sound(Failed(Has(p, c), c))
<1> DEFINE h == Has(p, c)
<1>1. p \in Page /\ c \in WorkCall /\ h \in Page /\ h = [p EXCEPT !.calls = p.calls \ {c}]
  BY HasKeeps DEF Sound, Steady
<1> HIDE DEF h
<1>2. /\ h.calls = p.calls \ {c}
      /\ h.lead = p.lead /\ h.mail = p.mail /\ h.analysis = p.analysis
      /\ h.analysisLoading = p.analysisLoading /\ h.contacts = p.contacts
      /\ h.contactsOf = p.contactsOf /\ h.contactsLoading = p.contactsLoading
      /\ h.engagementLoading = p.engagementLoading /\ h.baseline = p.baseline
  BY <1>1 DEF Page
<1>3. CASE p.lead # c.of
  <2>1. Sound(h)
    BY <1>1, <1>2, <1>3 DEF Sound, Steady, Analysed, Edited, Call
  <2>2. AnalysisShown(h, c) = h /\ Failed(h, c) = h
    BY <1>2, <1>3 DEF AnalysisShown, Failed
  <2> QED
    BY <2>1, <2>2 DEF h
<1>4. CASE p.lead = c.of
  <2>1. ASSUME NEW x \in Places, x \in {Nothing, p.lead}
        PROVE  Sound(RenderMails([h EXCEPT !.analysis = x, !.analysisLoading = FALSE]))
    <3> DEFINE q == [h EXCEPT !.analysis = x, !.analysisLoading = FALSE]
    <3>1. /\ q \in Page /\ q.calls = p.calls \ {c}
          /\ q.lead = p.lead /\ q.mail = p.mail /\ q.analysis = x
          /\ q.analysisLoading = FALSE /\ q.contacts = p.contacts
          /\ q.contactsOf = p.contactsOf /\ q.contactsLoading = p.contactsLoading
          /\ q.engagementLoading = p.engagementLoading
      BY <1>1, <1>2, <2>1 DEF Page
    <3> HIDE DEF q
    <3>2. Steady(q) /\ Analysed(q)
      BY <2>1, <3>1 DEF Sound, Steady, Analysed, Call
    <3>3. Steady(RenderMails(q)) /\ Keeps(q, RenderMails(q)) /\ Edited(RenderMails(q))
      BY <3>2, RenderKeeps
    <3>4. Sound(RenderMails(q))
      BY <3>2, <3>3, KeepsAnalysis DEF Sound
    <3> QED
      BY <3>4 DEF q
  <2>2. c.of \in Places
    BY <1>1 DEF WorkCall
  <2>3. AnalysisShown(h, c) = RenderMails([h EXCEPT !.analysis = c.of, !.analysisLoading = FALSE])
    BY <1>2, <1>4 DEF AnalysisShown
  <2>4. Failed(h, c) = RenderMails([h EXCEPT !.analysis = Nothing, !.analysisLoading = FALSE])
    BY <1>2, <1>4 DEF Failed
  <2> QED
    BY <1>4, <2>1, <2>2, <2>3, <2>4, PlacesArePlaces DEF h
<1> QED
  BY <1>3, <1>4

LEMMA ContactsAnswered ==
    ASSUME NEW p, Sound(p), NEW c \in p.calls, c.op = "contacts"
    PROVE  /\ Sound(ContactsShown(Has(p, c), c))
           /\ Sound(Failed(Has(p, c), c))
<1> DEFINE h == Has(p, c)
<1>1. p \in Page /\ c \in WorkCall /\ h \in Page /\ h = [p EXCEPT !.calls = p.calls \ {c}]
  BY HasKeeps DEF Sound, Steady
<1> HIDE DEF h
<1>2. /\ h.calls = p.calls \ {c}
      /\ h.lead = p.lead /\ h.mail = p.mail /\ h.analysis = p.analysis
      /\ h.analysisLoading = p.analysisLoading /\ h.contacts = p.contacts
      /\ h.contactsOf = p.contactsOf /\ h.contactsLoading = p.contactsLoading
      /\ h.engagementLoading = p.engagementLoading /\ h.baseline = p.baseline
  BY <1>1 DEF Page
<1>3. CASE p.contactsOf # c.of
  <2>1. Sound(h)
    BY <1>1, <1>2, <1>3 DEF Sound, Steady, Analysed, Edited, Call
  <2>2. ContactsShown(h, c) = h /\ Failed(h, c) = h
    BY <1>2, <1>3 DEF ContactsShown, Failed
  <2> QED
    BY <2>1, <2>2 DEF h
<1>4. CASE p.contactsOf = c.of
  <2>1. ASSUME NEW x \in Places, x \in {Nothing, p.contactsOf}
        PROVE  Sound([h EXCEPT !.contacts = x, !.contactsLoading = FALSE])
    <3> DEFINE q == [h EXCEPT !.contacts = x, !.contactsLoading = FALSE]
    <3>1. /\ q \in Page /\ q.calls = p.calls \ {c}
          /\ q.lead = p.lead /\ q.mail = p.mail /\ q.analysis = p.analysis
          /\ q.analysisLoading = p.analysisLoading /\ q.contacts = x
          /\ q.contactsOf = p.contactsOf /\ q.contactsLoading = FALSE
          /\ q.engagementLoading = p.engagementLoading /\ q.baseline = p.baseline
      BY <1>1, <1>2, <2>1 DEF Page
    <3> HIDE DEF q
    <3>2. Sound(q)
      BY <2>1, <3>1 DEF Sound, Steady, Analysed, Edited, Call
    <3> QED
      BY <3>2 DEF q
  <2>2. c.of \in Places
    BY <1>1 DEF WorkCall
  <2>3. ContactsShown(h, c) = [h EXCEPT !.contacts = c.of, !.contactsLoading = FALSE]
    BY <1>2, <1>4 DEF ContactsShown
  <2>4. Failed(h, c) = [h EXCEPT !.contacts = Nothing, !.contactsLoading = FALSE]
    BY <1>2, <1>4 DEF Failed
  <2> QED
    BY <1>4, <2>1, <2>2, <2>3, <2>4, PlacesArePlaces DEF h
<1> QED
  BY <1>3, <1>4

Typings == {"clean", "typed", "saving"}

\* The text that is typed, and what the panel of the engagement shows, matter to
\* nothing else.
LEMMA TextKeeps ==
    ASSUME NEW p, Sound(p), NEW x \in Places, NEW t \in Typings
    PROVE  /\ Sound([p EXCEPT !.typed = t]) /\ Sound([p EXCEPT !.text = x, !.typed = t])
           /\ Sound([p EXCEPT !.engagement = x, !.typed = t])
           /\ Sound([p EXCEPT !.baseline = p.mail, !.typed = t])
           /\ Sound([p EXCEPT !.checklist = x])
           /\ Sound([p EXCEPT !.generations = x])
           /\ [p EXCEPT !.text = x, !.typed = t].mail = p.mail
           /\ [p EXCEPT !.text = x, !.typed = t].lead = p.lead
           /\ [p EXCEPT !.engagement = x, !.typed = t].lead = p.lead
           /\ [p EXCEPT !.typed = t].lead = p.lead /\ [p EXCEPT !.typed = t].mail = p.mail
           /\ [p EXCEPT !.typed = t].text = p.text
<1>1. p \in Page
  BY DEF Sound, Steady
<1>2. p.mail \in Places
  BY <1>1 DEF Page, Places
<1>3. ASSUME NEW q \in Page, q.calls = p.calls,
             q.lead = p.lead, q.mail = p.mail, q.analysis = p.analysis,
             q.analysisLoading = p.analysisLoading, q.contacts = p.contacts,
             q.contactsOf = p.contactsOf, q.contactsLoading = p.contactsLoading,
             q.engagementLoading = p.engagementLoading, q.baseline = p.mail
      PROVE  Sound(q)
  BY <1>3 DEF Sound, Steady, Analysed, Edited
<1>4. p.baseline = p.mail
  BY DEF Sound, Edited
<1>5. Sound([p EXCEPT !.typed = t])
  <2> DEFINE q == [p EXCEPT !.typed = t]
  <2>1. /\ q \in Page /\ q.calls = p.calls
        /\ q.lead = p.lead /\ q.mail = p.mail /\ q.analysis = p.analysis
        /\ q.analysisLoading = p.analysisLoading /\ q.contacts = p.contacts
        /\ q.contactsOf = p.contactsOf /\ q.contactsLoading = p.contactsLoading
        /\ q.engagementLoading = p.engagementLoading /\ q.baseline = p.mail
    BY <1>1, <1>4 DEF Page, Typings
  <2> HIDE DEF q
  <2>2. Sound(q)
    BY <1>3, <2>1
  <2> QED
    BY <2>2 DEF q
<1>6. Sound([p EXCEPT !.text = x, !.typed = t])
  <2> DEFINE q == [p EXCEPT !.text = x, !.typed = t]
  <2>1. /\ q \in Page /\ q.calls = p.calls
        /\ q.lead = p.lead /\ q.mail = p.mail /\ q.analysis = p.analysis
        /\ q.analysisLoading = p.analysisLoading /\ q.contacts = p.contacts
        /\ q.contactsOf = p.contactsOf /\ q.contactsLoading = p.contactsLoading
        /\ q.engagementLoading = p.engagementLoading /\ q.baseline = p.mail
    BY <1>1, <1>4 DEF Page, Typings
  <2> HIDE DEF q
  <2>2. Sound(q)
    BY <1>3, <2>1
  <2> QED
    BY <2>2 DEF q
<1>7. Sound([p EXCEPT !.engagement = x, !.typed = t])
  <2> DEFINE q == [p EXCEPT !.engagement = x, !.typed = t]
  <2>1. /\ q \in Page /\ q.calls = p.calls
        /\ q.lead = p.lead /\ q.mail = p.mail /\ q.analysis = p.analysis
        /\ q.analysisLoading = p.analysisLoading /\ q.contacts = p.contacts
        /\ q.contactsOf = p.contactsOf /\ q.contactsLoading = p.contactsLoading
        /\ q.engagementLoading = p.engagementLoading /\ q.baseline = p.mail
    BY <1>1, <1>4 DEF Page, Typings
  <2> HIDE DEF q
  <2>2. Sound(q)
    BY <1>3, <2>1
  <2> QED
    BY <2>2 DEF q
<1>8. Sound([p EXCEPT !.baseline = p.mail, !.typed = t])
  <2> DEFINE q == [p EXCEPT !.baseline = p.mail, !.typed = t]
  <2>1. /\ q \in Page /\ q.calls = p.calls
        /\ q.lead = p.lead /\ q.mail = p.mail /\ q.analysis = p.analysis
        /\ q.analysisLoading = p.analysisLoading /\ q.contacts = p.contacts
        /\ q.contactsOf = p.contactsOf /\ q.contactsLoading = p.contactsLoading
        /\ q.engagementLoading = p.engagementLoading /\ q.baseline = p.mail
    BY <1>1, <1>2 DEF Page, Typings
  <2> HIDE DEF q
  <2>2. Sound(q)
    BY <1>3, <2>1
  <2> QED
    BY <2>2 DEF q
<1>9. Sound([p EXCEPT !.checklist = x])
  <2> DEFINE q == [p EXCEPT !.checklist = x]
  <2>1. Steady(q) /\ Keeps(p, q) /\ q.mail = p.mail /\ q.baseline = p.baseline
    BY ChecklistKeeps DEF Sound
  <2> HIDE DEF q
  <2>2. Sound(q)
    BY <1>4, <2>1, KeepsAnalysis DEF Sound, Edited
  <2> QED
    BY <2>2 DEF q
<1>10. Sound([p EXCEPT !.generations = x])
  <2> DEFINE q == [p EXCEPT !.generations = x]
  <2>1. Steady(q) /\ Keeps(p, q) /\ q.mail = p.mail /\ q.baseline = p.baseline
    BY GenerationsKeep DEF Sound
  <2> HIDE DEF q
  <2>2. Sound(q)
    BY <1>4, <2>1, KeepsAnalysis DEF Sound, Edited
  <2> QED
    BY <2>2 DEF q
<1>11. /\ [p EXCEPT !.text = x, !.typed = t].mail = p.mail
       /\ [p EXCEPT !.text = x, !.typed = t].lead = p.lead
       /\ [p EXCEPT !.engagement = x, !.typed = t].lead = p.lead
       /\ [p EXCEPT !.typed = t].lead = p.lead /\ [p EXCEPT !.typed = t].mail = p.mail
       /\ [p EXCEPT !.typed = t].text = p.text
  BY <1>1 DEF Page
<1> QED
  BY <1>5, <1>6, <1>7, <1>8, <1>9, <1>10, <1>11

LEMMA AskingSound ==
    ASSUME NEW p, Sound(p), NEW c \in WorkCall, p.lead # Nothing \/ c.op = "lists"
    PROVE  Sound(Asking(p, c))
BY AskingKeeps, KeepsAnalysis DEF Sound

LEMMA RenderSound ==
    ASSUME NEW p, Sound(p)
    PROVE  Sound(RenderMails(p))
BY RenderKeeps, KeepsAnalysis DEF Sound

\* Another mail is put into the editor.
LEMMA EditorSound ==
    ASSUME NEW p, Sound(p), NEW m \in Mails, p.lead # Nothing
    PROVE  /\ Sound(Populate([p EXCEPT !.mail = m], m, TRUE))
           /\ Populate([p EXCEPT !.mail = m], m, TRUE).lead = p.lead
<1> DEFINE q == [p EXCEPT !.mail = m]
           r == Populate(q, m, TRUE)
<1>1. p \in Page
  BY DEF Sound, Steady
<1>2. /\ q \in Page /\ q.calls = p.calls
      /\ q.lead = p.lead /\ q.mail = m /\ q.analysis = p.analysis
      /\ q.analysisLoading = p.analysisLoading /\ q.contacts = p.contacts
      /\ q.contactsOf = p.contactsOf /\ q.contactsLoading = p.contactsLoading
      /\ q.engagementLoading = p.engagementLoading
  BY <1>1 DEF Page
<1> HIDE DEF q
<1>3. Steady(q) /\ Analysed(q)
  BY <1>2 DEF Sound, Steady, Analysed
<1>4. Steady(r) /\ Keeps(q, r) /\ r.mail = q.mail /\ r.baseline = m
  BY <1>3, PopulateKeeps
<1> HIDE DEF r
<1>5. Sound(r) /\ r.lead = p.lead
  BY <1>2, <1>3, <1>4, KeepsAnalysis DEF Sound, Edited, Keeps
<1> QED
  BY <1>5 DEF r, q

LEMMA PatchSound ==
    ASSUME NEW p, Sound(p), NEW x \in Places, p.lead # Nothing
    PROVE  Sound(Patch(p, x))
<1>1. CASE p.mail = Nothing
  BY <1>1 DEF Patch
<1>2. CASE p.mail # Nothing
  <2>1. [Call("patch", p.mail) EXCEPT !.carries = x] \in WorkCall
    <3>1. p.mail \in Places
      BY DEF Sound, Steady, Page, Places
    <3> QED
      BY <3>1, PlacesArePlaces DEF Call, WorkCall, Ops
  <2> QED
    BY <1>2, <2>1, AskingSound DEF Patch
<1> QED
  BY <1>1, <1>2

LEMMA AnswersAreSound ==
    ASSUME NEW p, Sound(p), NEW c \in p.calls, mails \subseteq Mails,
           saved \in Leads \cup {Nothing}, c.op \notin {"patch", "ticks", "generate"}
    PROVE  Sound(Shown(Has(p, c), c))
<1> DEFINE h == Has(p, c)
<1>1. /\ c.op \notin {"contacts", "engagement", "analysis"} => Sound(h)
      /\ h.lead = Nothing => c.op = "lists"
      /\ c \in WorkCall
  BY HasKeeps
<1>2. /\ c.of \in Places /\ c.carries \in Places /\ c.op \in Ops
      /\ c.then \in Thens \cup {"generations"}
      /\ c.op = "polish" => c.of \in Mails
      /\ c.op = "generations" => c.then \in Thens
  BY <1>1 DEF WorkCall, Thens
<1>3. CASE c.op = "engagement"
  BY <1>3, EngagementAnswered DEF Shown
<1>4. CASE c.op = "analysis"
  BY <1>4, AnalysisAnswered DEF Shown
<1>5. CASE c.op = "contacts"
  BY <1>5, ContactsAnswered DEF Shown
<1> HIDE DEF h
<1>6. CASE c.op = "lists"
  <2>1. Sound(ListsLoaded(h, c))
    BY <1>1, <1>6, ListsKeep
  <2>2. Sound(After(ListsLoaded(h, c), c.then))
    BY <1>2, <2>1, AfterKeeps
  <2> QED
    BY <1>6, <2>2 DEF Shown, h
<1>7. CASE c.op = "checklist"
  <2>1. Sound([h EXCEPT !.checklist = c.of])
    BY <1>1, <1>2, <1>7, TextKeeps DEF Typings
  <2>2. Sound(RenderMails([h EXCEPT !.checklist = c.of]))
    BY <2>1, RenderSound
  <2> QED
    BY <1>7, <2>2 DEF Shown, h
<1>8. CASE c.op = "generations"
  <2>1. Sound([h EXCEPT !.generations = c.of])
    BY <1>1, <1>2, <1>8, TextKeeps DEF Typings
  <2>2. Sound(Then([h EXCEPT !.generations = c.of], c.then))
    BY <1>2, <1>8, <2>1, ThenKeeps
  <2> QED
    BY <1>8, <2>2 DEF Shown, h
<1>9. CASE c.op = "track"
  <2> DEFINE t == IF h.mail = c.of THEN "saving" ELSE "typed"
             q == [h EXCEPT !.text = c.carries, !.typed = t]
  <2>1. Sound(q) /\ q.lead = h.lead
    <3>1. t \in Typings
      BY DEF Typings
    <3> HIDE DEF t
    <3> QED
      BY <1>1, <1>2, <1>9, <3>1, TextKeeps
  <2>2. Tracked(h, c) = Patch(q, c.carries)
    BY DEF Tracked
  <2> HIDE DEF q
  <2>3. Sound(Patch(q, c.carries))
    BY <1>1, <1>2, <1>9, <2>1, PatchSound
  <2> QED
    BY <1>9, <2>2, <2>3 DEF Shown, h
<1>10. CASE c.op = "link"
  <2> DEFINE t == IF h.mail = Nothing THEN h.typed ELSE "typed"
             q == [h EXCEPT !.engagement = Nothing, !.typed = t]
  <2>1. Sound(q) /\ q.lead = h.lead
    <3>1. t \in Typings
      BY <1>1, <1>10 DEF Typings, Sound, Steady, Page
    <3> HIDE DEF t
    <3> QED
      BY <1>1, <1>10, <3>1, TextKeeps, PlacesArePlaces
  <2>2. Linked(h, c) = LoadEngagement(q, c.of)
    <3>1. h \in Page
      BY <1>1, <1>10 DEF Sound, Steady
    <3>2. q = [h EXCEPT !.engagement = Nothing, !.typed = IF h.mail = Nothing THEN @ ELSE "typed"]
      BY <3>1 DEF Page
    <3> QED
      BY <3>2 DEF Linked
  <2> HIDE DEF q
  <2>3. /\ Steady(LoadEngagement(q, c.of)) /\ Keeps(q, LoadEngagement(q, c.of))
        /\ LoadEngagement(q, c.of).mail = q.mail
        /\ LoadEngagement(q, c.of).baseline = q.baseline
    BY <1>1, <1>2, <1>10, <2>1, EngagementKeeps DEF Sound
  <2>4. Sound(LoadEngagement(q, c.of))
    BY <2>1, <2>3, KeepsAnalysis DEF Sound, Edited
  <2> QED
    BY <1>10, <2>2, <2>4 DEF Shown, h
<1>11. CASE c.op = "move"
  <2>1. Sound(LoadAll(h, "select"))
    BY <1>1, <1>11, LoadAllKeeps DEF Thens
  <2> QED
    BY <1>11, <2>1 DEF Shown, h
<1>12. CASE c.op = "polish"
  <2> DEFINE q == Populate([h EXCEPT !.mail = c.of], c.of, TRUE)
  <2>1. Sound(q)
    BY <1>1, <1>2, <1>12, EditorSound
  <2> HIDE DEF q
  <2>2. Sound(LoadAll(q, "generations"))
    BY <2>1, LoadAllKeeps
  <2> QED
    BY <1>12, <2>2 DEF Shown, h, q
<1>13. CASE c.op = "analyze"
  <2>1. Sound(LoadGenerations(h, "analysis"))
    BY <1>1, <1>13, LoadGenerationsKeeps DEF Thens
  <2> QED
    BY <1>13, <2>1 DEF Shown, h
<1>14. CASE c.op = "keep"
  <2>1. Sound(LoadAnalysis(h))
    BY <1>1, <1>14, LoadAnalysisKeeps DEF Sound
  <2> QED
    BY <1>14, <2>1 DEF Shown, h
<1>15. CASE c.op = "contact"
  <2>1. Sound(LoadContacts(h))
    BY <1>1, <1>15, LoadContactsKeeps, KeepsAnalysis DEF Sound
  <2> QED
    BY <1>15, <2>1 DEF Shown, h
<1> QED
  BY <1>2, <1>3, <1>4, <1>5, <1>6, <1>7, <1>8, <1>9, <1>10, <1>11, <1>12, <1>13, <1>14,
     <1>15 DEF Ops

LEMMA FailuresAreSound ==
    ASSUME NEW p, Sound(p), NEW c \in p.calls
    PROVE  Sound(Failed(Has(p, c), c))
<1> DEFINE h == Has(p, c)
<1>1. /\ c.op \notin {"contacts", "engagement", "analysis"} => Sound(h)
      /\ c \in WorkCall
  BY HasKeeps
<1>2. /\ c.then \in Thens \cup {"generations"}
      /\ c.op = "generations" => c.then \in Thens
  BY <1>1 DEF WorkCall, Thens
<1>3. CASE c.op = "engagement"
  BY <1>3, EngagementAnswered
<1>4. CASE c.op = "analysis"
  BY <1>4, AnalysisAnswered
<1>5. CASE c.op = "contacts"
  BY <1>5, ContactsAnswered
<1> HIDE DEF h
<1>6. CASE c.op = "lists"
  <2>1. Sound(After(h, c.then))
    BY <1>1, <1>2, <1>6, AfterKeeps
  <2> QED
    BY <1>6, <2>1 DEF Failed, h
<1>7. CASE c.op = "generations"
  <2>1. Sound(Then(h, c.then))
    BY <1>1, <1>2, <1>7, ThenKeeps
  <2> QED
    BY <1>7, <2>1 DEF Failed, h
<1>8. CASE c.op \notin {"engagement", "analysis", "contacts", "lists", "generations"}
  <2>1. Failed(h, c) = h
    BY <1>8 DEF Failed
  <2> QED
    BY <1>1, <1>8, <2>1 DEF h
<1> QED
  BY <1>3, <1>4, <1>5, <1>6, <1>7, <1>8

-----------------------------------------------------------------------------
(* Workspace: its steps.                                                   *)

WorkspaceIsSound == Sound(page) /\ mails \subseteq Mails /\ saved \in Leads \cup {Nothing}

LEMMA ClicksAreSound ==
    ASSUME WorkspaceIsSound, UserActs
    PROVE  WorkspaceIsSound'
<1> USE DEF WorkspaceIsSound, Click, server
<1>1. /\ page \in Page
      /\ page.lead \in Leads \cup {Nothing} /\ page.mail \in Mails \cup {Nothing}
      /\ page.mail # Nothing => page.lead # Nothing
      /\ page.text \in Places /\ page.checklist \in Places /\ page.analysis \in Places
      /\ page.contacts \in Places /\ page.typed \in Typings
      /\ page.lead \in Places /\ page.mail \in Places
  BY DEF Sound, Steady, Page, Typings, Places
<1>2. ASSUME NEW l \in Leads, ChooseLead(l) PROVE WorkspaceIsSound'
  BY <1>2, SelectLeadKeeps DEF ChooseLead
<1>3. ASSUME NEW l \in Leads, ChooseElsewhere(l) PROVE WorkspaceIsSound'
  BY <1>3 DEF ChooseElsewhere
<1>4. ASSUME NEW m \in Mails, ChooseMail(m) PROVE WorkspaceIsSound'
  <2>1. page.lead # Nothing
    <3>1. m \in SelectedLeadMails(page)
      BY <1>4 DEF ChooseMail
    <3> QED
      BY <3>1, MailsHaveLeads, NothingIsNothing DEF SelectedLeadMails
  <2>2. Sound(SelectMail(page, m))
    BY <2>1, SelectKeeps, KeepsAnalysis DEF Sound
  <2> QED
    BY <1>4, <2>2 DEF ChooseMail
<1>5. CASE Type
  <2>1. Sound([page EXCEPT !.typed = "typed"])
    BY <1>1, TextKeeps DEF Typings
  <2> QED
    BY <1>5, <2>1 DEF Type
<1>6. CASE Refresh
  <2>1. Sound(LoadAll(page, "none"))
    BY LoadAllKeeps DEF Thens
  <2> QED
    BY <1>6, <2>1 DEF Refresh
<1>7. CASE Save
  <2> DEFINE t == IF page.typed = "clean" THEN page.typed ELSE "saving"
             q == [page EXCEPT !.typed = t]
             c == [Call("track", q.mail) EXCEPT !.carries = q.text]
  <2>1. /\ Sound(q) /\ q.lead = page.lead /\ q.mail = page.mail /\ q.text = page.text
        /\ page.lead # Nothing
    <3>1. t \in Typings
      BY <1>1 DEF Typings
    <3> HIDE DEF t
    <3>2. page.lead # Nothing
      BY <1>1, <1>7 DEF Save
    <3> QED
      BY <1>1, <3>1, <3>2, TextKeeps
  <2>2. q = [page EXCEPT !.typed = IF @ = "clean" THEN @ ELSE "saving"]
    BY <1>1 DEF Page
  <2>3. page' = Patch(q, q.text) \/ page' = Asking(q, c)
    BY <1>7, <2>2 DEF Save
  <2> HIDE DEF q
  <2>4. c \in WorkCall
    BY <1>1, <2>1, PlacesArePlaces DEF Call, WorkCall, Ops
  <2> HIDE DEF c
  <2>5. Sound(Patch(q, q.text)) /\ Sound(Asking(q, c))
    BY <1>1, <2>1, <2>4, PatchSound, AskingSound
  <2> QED
    BY <1>7, <2>3, <2>5 DEF Save
<1>8. CASE Tick
  <2> DEFINE c == [Call("ticks", page.mail) EXCEPT !.carries = page.checklist]
  <2>1. c \in WorkCall
    BY <1>1, PlacesArePlaces DEF Call, WorkCall, Ops
  <2>2. Sound(Asking(page, c))
    BY <1>1, <1>8, <2>1, AskingSound DEF Tick
  <2> QED
    BY <1>8, <2>2 DEF Tick
<1>9. CASE Generate
  <2> DEFINE c == [Call("generate", page.lead) EXCEPT !.carries = page.analysis]
  <2>1. c \in WorkCall
    BY <1>1, PlacesArePlaces DEF Call, WorkCall, Ops
  <2>2. Sound(Asking(page, c))
    BY <1>1, <1>9, <2>1, AskingSound DEF Generate, CanGenerateMail, Ready
  <2> QED
    BY <1>9, <2>2 DEF Generate
<1>10. CASE Analyze
  <2> DEFINE c == Call("analyze", page.lead)
  <2>1. c \in WorkCall
    BY <1>1, CallIsCall DEF Ops
  <2>2. Sound(Asking(page, c))
    BY <1>1, <1>10, <2>1, AskingSound DEF Analyze
  <2> QED
    BY <1>10, <2>2 DEF Analyze
<1>11. CASE KeepAnalysis
  <2> DEFINE c == [Call("keep", page.lead) EXCEPT !.carries = page.analysis]
  <2>1. c \in WorkCall
    BY <1>1, PlacesArePlaces DEF Call, WorkCall, Ops
  <2>2. Sound(Asking(page, c))
    BY <1>1, <1>11, <2>1, AskingSound DEF KeepAnalysis
  <2> QED
    BY <1>11, <2>2 DEF KeepAnalysis
<1>12. CASE EditContact
  <2> DEFINE c == Call("contact", page.contacts)
  <2>1. c \in WorkCall
    BY <1>1, CallIsCall DEF Ops
  <2>2. Sound(Asking(page, c))
    BY <1>1, <1>12, <2>1, AskingSound DEF EditContact, Ready
  <2> QED
    BY <1>12, <2>2 DEF EditContact
<1>13. ASSUME NEW op \in {"move", "polish", "link"}, Act(op) PROVE WorkspaceIsSound'
  <2> DEFINE c == Call(op, page.mail)
  <2>1. page.mail \in Mails /\ page.lead # Nothing
    BY <1>1, <1>13 DEF Act
  <2>2. c \in WorkCall
    BY <1>1, <2>1, CallIsCall DEF Ops
  <2>3. Sound(Asking(page, c))
    BY <1>1, <2>1, <2>2, AskingSound
  <2> QED
    BY <1>13, <2>3 DEF Act
<1> QED
  BY <1>2, <1>3, <1>4, <1>5, <1>6, <1>7, <1>8, <1>9, <1>10, <1>11, <1>12, <1>13 DEF UserActs

LEMMA OutcomesAreSound ==
    ASSUME WorkspaceIsSound, NEW c \in page.calls, Outcome(c)
    PROVE  WorkspaceIsSound'
<1> USE DEF WorkspaceIsSound, server
<1> DEFINE h == Has(page, c)
<1>1. /\ c.op \notin {"contacts", "engagement", "analysis"} => Sound(h)
      /\ h.lead = Nothing => c.op = "lists"
      /\ c \in WorkCall
  BY HasKeeps
<1>2. CASE Answer(c)
  <2>1. Sound(Shown(h, c))
    BY <1>2, AnswersAreSound DEF Answer
  <2> QED
    BY <1>2, <2>1 DEF Answer
<1>3. CASE Fail(c)
  <2>1. Sound(Failed(h, c))
    BY FailuresAreSound
  <2> QED
    BY <1>3, <2>1 DEF Fail
<1>4. CASE AnswerPatch(c)
  <2> DEFINE t == IF h.mail = c.of /\ h.typed # "typed" THEN "clean" ELSE "typed"
             q == [h EXCEPT !.baseline = h.mail, !.typed = t]
  <2>1. Sound(h) /\ page' = Patched(h, c)
    BY <1>1, <1>4 DEF AnswerPatch
  <2> HIDE DEF h
  <2>2. h \in Page
    BY <2>1 DEF Sound, Steady
  <2>3. Patched(h, c) = LoadAll(q, "none")
    <3>1. q = [h EXCEPT !.baseline = h.mail,
                        !.typed = IF h.mail = c.of /\ @ # "typed" THEN "clean" ELSE "typed"]
      BY <2>2 DEF Page
    <3> QED
      BY <3>1 DEF Patched
  <2>4. Sound(q)
    <3>1. t \in Typings
      BY DEF Typings
    <3> HIDE DEF t
    <3> QED
      BY <2>1, <3>1, TextKeeps, PlacesArePlaces
  <2> HIDE DEF q
  <2>5. Sound(LoadAll(q, "none"))
    BY <2>4, LoadAllKeeps DEF Thens
  <2> QED
    BY <1>4, <2>1, <2>3, <2>5 DEF AnswerPatch
<1>5. CASE AnswerTicks(c)
  <2>1. Sound(h) /\ page' = RenderMails([h EXCEPT !.checklist = c.of])
    BY <1>1, <1>5 DEF AnswerTicks
  <2> HIDE DEF h
  <2>2. c.of \in Places
    BY <1>1 DEF WorkCall
  <2>3. Sound([h EXCEPT !.checklist = c.of])
    BY <2>1, <2>2, TextKeeps DEF Typings
  <2>4. Sound(RenderMails([h EXCEPT !.checklist = c.of]))
    BY <2>3, RenderSound
  <2> QED
    BY <1>5, <2>1, <2>4 DEF AnswerTicks
<1>6. CASE AnswerGenerate(c)
  <2>1. PICK m \in Mails \ mails :
           /\ mails' = mails \cup {m}
           /\ page' = Asking(Populate([h EXCEPT !.mail = m], m, TRUE),
                             [Call("lists", Nothing)
                                EXCEPT !.then = "generations", !.mails = mails'])
    BY <1>6 DEF AnswerGenerate
  <2>2. Sound(h) /\ h.lead # Nothing
    BY <1>1, <1>6 DEF AnswerGenerate
  <2> HIDE DEF h
  <2> DEFINE q == Populate([h EXCEPT !.mail = m], m, TRUE)
             d == [Call("lists", Nothing) EXCEPT !.then = "generations", !.mails = mails']
  <2>3. Sound(q) /\ q.lead # Nothing
    BY <2>2, EditorSound
  <2>4. d \in WorkCall
    BY <2>1, PlacesArePlaces DEF Call, WorkCall, Ops
  <2> HIDE DEF q, d
  <2>5. Sound(Asking(q, d))
    BY <2>3, <2>4, AskingSound
  <2>6. page' = Asking(q, d) /\ mails' \subseteq Mails
    BY <2>1 DEF q, d
  <2> QED
    BY <1>6, <2>5, <2>6 DEF AnswerGenerate
<1> QED
  BY <1>2, <1>3, <1>4, <1>5, <1>6 DEF Outcome

LEMMA OpenedIsSound == Sound(Opened)
<1>1. Opened \in Page
  BY PlacesArePlaces DEF Opened, Page
<1> QED
  BY <1>1 DEF Sound, Steady, Analysed, Edited, Opened

LEMMA WorkspaceBegins == Init => WorkspaceIsSound
<1> SUFFICES ASSUME Init PROVE WorkspaceIsSound
  OBVIOUS
<1>1. mails \subseteq Mails
  BY MailsAreNumbers DEF Init
<1>2. Sound(LoadAll(Opened, "none"))
  BY <1>1, OpenedIsSound, LoadAllKeeps DEF Thens
<1> QED
  BY <1>1, <1>2 DEF Init, WorkspaceIsSound

LEMMA WorkspaceStep == WorkspaceIsSound /\ [Next]_vars => WorkspaceIsSound'
<1> SUFFICES ASSUME WorkspaceIsSound, [Next]_vars PROVE WorkspaceIsSound'
  OBVIOUS
<1>1. CASE UNCHANGED vars
  BY <1>1 DEF vars, WorkspaceIsSound
<1>2. CASE UserActs
  BY <1>2, ClicksAreSound
<1>3. CASE \E c \in page.calls : Outcome(c)
  BY <1>3, OutcomesAreSound
<1> QED
  BY <1>1, <1>2, <1>3 DEF Next

LEMMA WorkspaceProperties ==
    WorkspaceIsSound =>
      AnalysisIsOfLead /\ ContactsAreOfCompany /\ EditorIsOfMail /\ LoadingIsAnswered
<1> SUFFICES ASSUME WorkspaceIsSound
             PROVE  AnalysisIsOfLead /\ ContactsAreOfCompany /\ EditorIsOfMail
                      /\ LoadingIsAnswered
  OBVIOUS
<1>1. AnalysisIsOfLead /\ EditorIsOfMail /\ LoadingIsAnswered
  BY DEF WorkspaceIsSound, Sound, Steady, Analysed, Edited, AnalysisIsOfLead,
         EditorIsOfMail, LoadingIsAnswered
<1>2. ContactsAreOfCompany
  BY DEF WorkspaceIsSound, Sound, Steady, ContactsAreOfCompany, Ready
<1> QED
  BY <1>1, <1>2

-----------------------------------------------------------------------------
(* SearchScreen: the job a page follows.                                   *)

SearchFields ==
    {"lead", "leads", "listed", "source", "current", "generation", "sequence", "job",
     "timer", "error", "candidates", "status", "stopped", "calls"}

Platforms == Sources \cup {Nothing}

\* p is the page, js are the jobs, st those that were asked to stop.
IsSearchPage(p) ==
    /\ p = [f \in SearchFields |-> p[f]]
    /\ p.source \in Platforms /\ p.current \in Platforms /\ p.sequence \in Nat
    /\ p.timer \in BOOLEAN /\ p.error \in BOOLEAN

\* Only the search that was begun last may be waiting for its job, and the page
\* follows none as long as it is.
OneStarts(p) ==
    /\ \A c \in p.calls :
          c.op = "start" => /\ c.of \in Platforms /\ c.number \in 0 .. p.sequence
                            /\ c.number = p.sequence => p.job = 0
    /\ \A c, d \in p.calls :
          (c.op = "start" /\ d.op = "start" /\ c.number = p.sequence /\ d.number = p.sequence)
             => c = d

JobsAreKnown(p, js) ==
    /\ p.job \in {0} \cup DOMAIN js
    /\ \A c \in p.calls : c.op \in {"poll", "cancel"} => c.number \in DOMAIN js

OfLastSearch(p, js) ==
    /\ p.job # 0 => js[p.job].search = p.sequence
    /\ \A i \in p.candidates : i.job \in DOMAIN js /\ js[i.job].search = p.sequence

Heard(p) ==
    p.job # 0 => \/ p.timer \/ p.error
                 \/ \E c \in p.calls : c.op \in {"poll", "cancel"} /\ c.number = p.job

NoneForgotten(p, js, st) ==
    \A j \in DOMAIN js : js[j].status = "running" => j = p.job \/ j \in st \cup p.stopped

Following(p, js, st) ==
    /\ IsSearchPage(p) /\ OneStarts(p) /\ JobsAreKnown(p, js)
    /\ OfLastSearch(p, js) /\ Heard(p) /\ NoneForgotten(p, js, st)

SearchJobList == Seq([source : Platforms, search : Nat, status : {"running", "ended"}])

SearchIsSound ==
    /\ jobs \in SearchJobList
    /\ Following(search, jobs, stopping) /\ search.stopped = {}

Tells(p) == {c \in p.calls : c.op \in {"start", "poll", "cancel"}}

\* What the page shows of leads and sources, and their calls, matter to no search.
LEMMA FollowingOn ==
    ASSUME NEW p, NEW q, NEW js, NEW st, Following(p, js, st),
           IsSearchPage(q),
           q.sequence = p.sequence, q.job = p.job, q.timer = p.timer, p.error => q.error,
           q.candidates = p.candidates, q.stopped = p.stopped, Tells(q) = Tells(p)
    PROVE  Following(q, js, st)
<1>1. \A c : c.op \in {"start", "poll", "cancel"} => (c \in q.calls <=> c \in p.calls)
  BY DEF Tells
<1>2. OneStarts(q)
  BY <1>1 DEF Following, OneStarts
<1>3. JobsAreKnown(q, js)
  BY <1>1 DEF Following, JobsAreKnown
<1>4. OfLastSearch(q, js)
  BY DEF Following, OfLastSearch
<1>5. Heard(q)
  BY <1>1 DEF Following, Heard
<1>6. NoneForgotten(q, js, st)
  BY DEF Following, NoneForgotten
<1> QED
  BY <1>2, <1>3, <1>4, <1>5, <1>6 DEF Following

LEMMA FollowingJobs ==
    ASSUME NEW p, NEW js, NEW ks, NEW st, Following(p, js, st), DOMAIN ks = DOMAIN js,
           \A j \in DOMAIN js : /\ ks[j].search = js[j].search
                                /\ ks[j].status = "running" => js[j].status = "running"
    PROVE  Following(p, ks, st)
BY DEF Following, JobsAreKnown, OfLastSearch, NoneForgotten

LEMMA Showing ==
    ASSUME NEW p, NEW js, Following(p, js, stopping), S!Show(p)
    PROVE  Following(search', js, stopping') /\ search'.stopped = {}
<1> DEFINE q == [p EXCEPT !.stopped = {}]
<1>1. search' = q /\ stopping' = stopping \cup p.stopped
  BY DEF S!Show
<1>2. /\ IsSearchPage(q) /\ q.sequence = p.sequence
      /\ q.job = p.job /\ q.timer = p.timer /\ q.error = p.error
      /\ q.candidates = p.candidates /\ q.stopped = {} /\ q.calls = p.calls
  BY DEF Following, IsSearchPage, SearchFields
<1> HIDE DEF q
<1>3. Following(q, js, stopping')
  BY <1>1, <1>2
  DEF Following, OneStarts, JobsAreKnown, OfLastSearch, Heard, NoneForgotten
<1> QED
  BY <1>1, <1>2, <1>3

LEMMA ForgetFollows ==
    ASSUME NEW p, NEW js, NEW st, Following(p, js, st)
    PROVE  LET q == S!ForgetSearch(p) IN
           /\ Following(q, js, st) /\ q.job = 0 /\ q.sequence = p.sequence + 1
           /\ q.source = p.source /\ q.calls = p.calls
           /\ \A c \in q.calls : c.op = "start" => c.number \in Nat /\ c.number < q.sequence
<1> DEFINE q == S!StopJob(p)
           r == S!ForgetSearch(p)
<1>1. /\ IsSearchPage(q) /\ q.source = p.source /\ q.sequence = p.sequence
      /\ q.job = 0 /\ q.calls = p.calls /\ q.current = p.current
      /\ q.stopped = p.stopped \cup (IF p.job = 0 THEN {} ELSE {p.job})
  <2>1. CASE p.job = 0
    BY <2>1 DEF Following, IsSearchPage, SearchFields, S!StopJob
  <2>2. CASE p.job # 0
    BY <2>2 DEF Following, IsSearchPage, SearchFields, S!StopJob
  <2> QED
    BY <2>1, <2>2
<1>2. r = [q EXCEPT !.sequence = @ + 1, !.timer = FALSE, !.candidates = {}]
  BY DEF S!ForgetSearch
<1> HIDE DEF q, r
<1>3. /\ IsSearchPage(r) /\ r.source = p.source /\ r.sequence = p.sequence + 1
      /\ r.job = 0 /\ r.calls = p.calls /\ r.candidates = {}
      /\ r.stopped = p.stopped \cup (IF p.job = 0 THEN {} ELSE {p.job})
  <2> DEFINE n == q.sequence + 1
  <2>1. n \in Nat /\ n = p.sequence + 1
    BY <1>1 DEF IsSearchPage
  <2>2. r = [q EXCEPT !.sequence = n, !.timer = FALSE, !.candidates = {}]
    BY <1>2
  <2> HIDE DEF n
  <2>3. /\ IsSearchPage(r) /\ r.source = q.source /\ r.sequence = n /\ r.job = q.job
        /\ r.calls = q.calls /\ r.candidates = {} /\ r.stopped = q.stopped
    BY <1>1, <2>1, <2>2 DEF IsSearchPage, SearchFields
  <2> QED
    BY <1>1, <2>1, <2>3
<1>4. \A c \in p.calls : c.op = "start" => c.number \in Nat /\ c.number <= p.sequence
  BY DEF Following, OneStarts
<1>5. p.sequence \in Nat
  BY DEF Following, IsSearchPage
<1>6. \A c \in r.calls : c.op = "start" =>
         c.number \in 0 .. r.sequence /\ c.number \in Nat /\ c.number < r.sequence
  BY <1>3, <1>4, <1>5
<1>7. OneStarts(r)
  BY <1>3, <1>5, <1>6 DEF Following, OneStarts
<1>8. JobsAreKnown(r, js) /\ OfLastSearch(r, js) /\ Heard(r)
  BY <1>3 DEF Following, JobsAreKnown, OfLastSearch, Heard
<1>9. NoneForgotten(r, js, st)
  BY <1>3 DEF Following, NoneForgotten
<1>10. Following(r, js, st)
  BY <1>3, <1>7, <1>8, <1>9 DEF Following
<1> QED
  BY <1>3, <1>6, <1>10 DEF r

\* As Following, but that nothing need be heard of the job any more.
Tracking(p, js, st) ==
    /\ IsSearchPage(p) /\ OneStarts(p) /\ JobsAreKnown(p, js)
    /\ OfLastSearch(p, js) /\ NoneForgotten(p, js, st)

LEMMA HasTracks ==
    ASSUME NEW p, NEW c, NEW js, NEW st, Following(p, js, st)
    PROVE  LET q == S!Has(p, c) IN
           /\ Tracking(q, js, st) /\ q = [p EXCEPT !.calls = p.calls \ {c}]
           /\ q.calls = p.calls \ {c} /\ q.job = p.job /\ q.sequence = p.sequence
           /\ q.timer = p.timer /\ q.error = p.error /\ q.stopped = p.stopped
           /\ ~(c.op \in {"poll", "cancel"} /\ c.number = p.job) => Heard(q)
<1> DEFINE q == S!Has(p, c)
<1>1. q = [p EXCEPT !.calls = p.calls \ {c}]
  BY DEF S!Has
<1>2. /\ IsSearchPage(q) /\ q.calls = p.calls \ {c} /\ q.job = p.job
      /\ q.sequence = p.sequence /\ q.timer = p.timer /\ q.error = p.error
      /\ q.stopped = p.stopped /\ q.candidates = p.candidates
  BY <1>1 DEF Following, IsSearchPage, SearchFields
<1> HIDE DEF q
<1>3. OneStarts(q)
  BY <1>2 DEF Following, OneStarts
<1>4. JobsAreKnown(q, js) /\ OfLastSearch(q, js) /\ NoneForgotten(q, js, st)
  BY <1>2 DEF Following, JobsAreKnown, OfLastSearch, NoneForgotten
<1>5. ~(c.op \in {"poll", "cancel"} /\ c.number = p.job) => Heard(q)
  BY <1>2 DEF Following, Heard
<1> QED
  BY <1>1, <1>2, <1>3, <1>4, <1>5 DEF q, Tracking

LEMMA TrackingFollows ==
    ASSUME NEW p, NEW js, NEW st, Tracking(p, js, st), Heard(p) PROVE Following(p, js, st)
BY DEF Tracking, Following

\* What the answer of a job says is of the job that the page follows.
LEMMA ApplyTracks ==
    ASSUME NEW p, NEW js, NEW st, Tracking(p, js, st),
           NEW j \in DOMAIN js, NEW status, NEW found, 0 \notin DOMAIN js,
           status # "running" /\ p.job = j => js[j].status # "running"
    PROVE  LET q == S!ApplySearchJob(p, j, status, found) IN
           /\ Tracking(q, js, st) /\ q.calls = p.calls /\ q.stopped = p.stopped
           /\ q.timer = p.timer /\ q.error = p.error /\ q.sequence = p.sequence
           /\ q.job = IF p.job = j /\ status # "running" THEN 0 ELSE p.job
<1> DEFINE q == S!ApplySearchJob(p, j, status, found)
<1>1. CASE p.job # j
  BY <1>1 DEF S!ApplySearchJob
<1>2. CASE p.job = j
  <2> DEFINE items == {[url |-> u, source |-> jobs[j].source, job |-> j] : u \in found}
             some == S!Merged(p.candidates, items)
             on == IF status # "running" THEN 0 ELSE p.job
             r == [p EXCEPT !.candidates = some, !.job = on]
  <2>1. q = S!SyncStatuses(r)
    BY <1>2 DEF S!ApplySearchJob
  <2>2. \A i \in some : i \in p.candidates \/ i.job = j
    BY DEF S!Merged
  <2>3. js[j].search = p.sequence
    BY <1>2 DEF Tracking, OfLastSearch
  <2>4. on \in {0, p.job} /\ on = IF p.job = j /\ status # "running" THEN 0 ELSE p.job
    BY <1>2
  <2> HIDE DEF some, on, q
  <2>5. /\ IsSearchPage(r) /\ r.calls = p.calls /\ r.stopped = p.stopped
        /\ r.timer = p.timer /\ r.error = p.error /\ r.sequence = p.sequence
        /\ r.job = on /\ r.candidates = some
    BY DEF Tracking, IsSearchPage, SearchFields
  <2> HIDE DEF r
  <2>6. /\ IsSearchPage(q) /\ q.calls = p.calls /\ q.stopped = p.stopped
        /\ q.timer = p.timer /\ q.error = p.error /\ q.sequence = p.sequence
        /\ q.job = on /\ q.candidates = some
    BY <2>1, <2>5 DEF IsSearchPage, SearchFields, S!SyncStatuses
  <2>7. OneStarts(q)
    BY <2>4, <2>6 DEF Tracking, OneStarts
  <2>8. JobsAreKnown(q, js) /\ OfLastSearch(q, js)
    BY <2>2, <2>3, <2>4, <2>6 DEF Tracking, JobsAreKnown, OfLastSearch
  <2>9. NoneForgotten(q, js, st)
    BY <1>2, <2>4, <2>6 DEF Tracking, NoneForgotten
  <2> QED
    BY <2>4, <2>6, <2>7, <2>8, <2>9 DEF q, Tracking
<1> QED
  BY <1>1, <1>2

LEMMA PollFollows ==
    ASSUME NEW p, NEW js, NEW st, Tracking(p, js, st), 0 \notin DOMAIN js
    PROVE  Following(S!PollSearchJob(p), js, st)
<1>1. CASE p.job = 0
  BY <1>1, TrackingFollows DEF S!PollSearchJob, Heard
<1>2. CASE p.job # 0
  <2> DEFINE d == [S!Call("poll") EXCEPT !.number = p.job]
             q == [p EXCEPT !.calls = @ \cup {d}]
  <2>1. S!PollSearchJob(p) = q
    BY <1>2 DEF S!PollSearchJob, S!Asking
  <2>2. d.op = "poll" /\ d.number = p.job
    BY DEF S!Call
  <2>3. p.job \in DOMAIN js
    BY <1>2 DEF Tracking, JobsAreKnown
  <2> HIDE DEF d
  <2>4. /\ IsSearchPage(q) /\ q.sequence = p.sequence /\ q.job = p.job
        /\ q.candidates = p.candidates /\ q.stopped = p.stopped
        /\ q.calls = p.calls \cup {d}
    BY DEF Tracking, IsSearchPage, SearchFields
  <2> HIDE DEF q
  <2>5. OneStarts(q)
    BY <2>2, <2>4 DEF Tracking, OneStarts
  <2>6. JobsAreKnown(q, js) /\ OfLastSearch(q, js) /\ NoneForgotten(q, js, st)
    BY <2>2, <2>3, <2>4 DEF Tracking, JobsAreKnown, OfLastSearch, NoneForgotten
  <2>7. Heard(q)
    BY <2>2, <2>4 DEF Heard
  <2> QED
    BY <2>1, <2>4, <2>5, <2>6, <2>7 DEF Following
<1> QED
  BY <1>1, <1>2

LEMMA SourceFollows ==
    ASSUME NEW p, NEW js, NEW st, Following(p, js, st)
    PROVE  Following(S!OnSourcePlatformChange(p), js, st)
<1> DEFINE w == S!ForgetSearch(p)
           v == [w EXCEPT !.status = [u \in Urls |-> "none"]]
           q == IF p.current \in {Nothing, p.source} THEN p ELSE v
           r == [q EXCEPT !.current = p.source]
<1>1. S!OnSourcePlatformChange(p) = r
  BY DEF S!OnSourcePlatformChange
<1>2. Following(w, js, st)
  BY ForgetFollows
<1>3. p.source \in Platforms
  BY DEF Following, IsSearchPage
<1> HIDE DEF w
<1>4. /\ IsSearchPage(v) /\ v.sequence = w.sequence /\ v.job = w.job
      /\ v.timer = w.timer /\ v.error = w.error /\ v.candidates = w.candidates
      /\ v.stopped = w.stopped /\ v.calls = w.calls
  BY <1>2 DEF Following, IsSearchPage, SearchFields
<1> HIDE DEF v
<1>5. Following(v, js, st)
  BY <1>2, <1>4, FollowingOn DEF Tells
<1>6. Following(q, js, st)
  BY <1>5
<1> HIDE DEF q
<1>7. /\ IsSearchPage(r) /\ r.sequence = q.sequence /\ r.job = q.job
      /\ r.timer = q.timer /\ r.error = q.error /\ r.candidates = q.candidates
      /\ r.stopped = q.stopped /\ r.calls = q.calls
  BY <1>3, <1>6 DEF Following, IsSearchPage, SearchFields
<1> HIDE DEF r
<1> QED
  BY <1>1, <1>6, <1>7, FollowingOn DEF Tells

\* The page asks for something that is no job.
LEMMA AskingFollows ==
    ASSUME NEW p, NEW js, NEW st, NEW d, Following(p, js, st),
           d.op \notin {"start", "poll", "cancel"}
    PROVE  Following(S!Asking(p, d), js, st)
<1> DEFINE q == S!Asking(p, d)
<1>1. /\ IsSearchPage(q) /\ q.sequence = p.sequence /\ q.job = p.job
      /\ q.timer = p.timer /\ q.error = p.error /\ q.candidates = p.candidates
      /\ q.stopped = p.stopped /\ q.calls = p.calls \cup {d}
  BY DEF Following, IsSearchPage, SearchFields, S!Asking
<1> HIDE DEF q
<1>2. Tells(q) = Tells(p)
  BY <1>1 DEF Tells
<1>3. Following(q, js, st)
  BY <1>1, <1>2, FollowingOn
<1> QED
  BY <1>3 DEF q

\* A list of leads, and of the sources, is asked for by every load.
LEMMA LoadFollows ==
    ASSUME NEW p, NEW js, NEW st, Following(p, js, st), NEW n, NEW some, NEW then,
           NEW lead, NEW status
    PROVE  LET ds == {[S!Call("lists") EXCEPT !.number = n, !.leads = some, !.then = then],
                      [S!Call("sources") EXCEPT !.number = n]}
           IN  Following([p EXCEPT !.lead = lead, !.status = status, !.generation = n,
                                   !.calls = @ \cup ds], js, st)
<1> DEFINE ds == {[S!Call("lists") EXCEPT !.number = n, !.leads = some, !.then = then],
                  [S!Call("sources") EXCEPT !.number = n]}
           q == [p EXCEPT !.lead = lead, !.status = status, !.generation = n,
                          !.calls = @ \cup ds]
<1>1. \A d \in ds : d.op \notin {"start", "poll", "cancel"}
  BY DEF S!Call
<1> HIDE DEF ds
<1>2. /\ IsSearchPage(q) /\ q.sequence = p.sequence /\ q.job = p.job
      /\ q.timer = p.timer /\ q.error = p.error /\ q.candidates = p.candidates
      /\ q.stopped = p.stopped /\ q.calls = p.calls \cup ds
  BY DEF Following, IsSearchPage, SearchFields
<1> HIDE DEF q
<1>3. Tells(q) = Tells(p)
  BY <1>1, <1>2 DEF Tells
<1>4. Following(q, js, st)
  BY <1>2, <1>3, FollowingOn
<1> QED
  BY <1>4 DEF q, ds

LEMMA LoadAllFollows ==
    ASSUME NEW p, NEW js, NEW st, Following(p, js, st), NEW then
    PROVE  Following(S!LoadAll(p, then), js, st)
<1> DEFINE n == p.generation + 1
           q == S!LoadAll(p, then)
           ds == {[S!Call("lists") EXCEPT !.number = n, !.leads = leads, !.then = then],
                  [S!Call("sources") EXCEPT !.number = n]}
<1>1. q = [p EXCEPT !.generation = n, !.calls = @ \cup ds]
  BY DEF S!LoadAll
<1>2. \A d \in ds : d.op \notin {"start", "poll", "cancel"}
  BY DEF S!Call
<1> HIDE DEF ds, n, q
<1>3. /\ IsSearchPage(q) /\ q.sequence = p.sequence /\ q.job = p.job
      /\ q.timer = p.timer /\ q.error = p.error /\ q.candidates = p.candidates
      /\ q.stopped = p.stopped /\ q.calls = p.calls \cup ds
  BY <1>1 DEF Following, IsSearchPage, SearchFields
<1>4. Tells(q) = Tells(p)
  BY <1>2, <1>3 DEF Tells
<1>5. Following(q, js, st)
  BY <1>3, <1>4, FollowingOn
<1> QED
  BY <1>5 DEF q

LEMMA AnalyzeFollows ==
    ASSUME NEW p, NEW js, NEW st, NEW for, Following(p, js, st)
    PROVE  Following(S!AnalyzeLead(p, for), js, st)
<1>1. [S!Call("analyze") EXCEPT !.of = p.lead, !.then = for].op = "analyze"
  BY DEF S!Call
<1> QED
  BY <1>1, AskingFollows DEF S!AnalyzeLead

\* What the page knows of leads, and how it marks the candidates.
LEMMA MarkingFollows ==
    ASSUME NEW p, NEW js, NEW st, Following(p, js, st), NEW lead, NEW some, NEW status
    PROVE  /\ Following([p EXCEPT !.status = status], js, st)
           /\ Following([p EXCEPT !.leads = some, !.lead = lead], js, st)
<1> DEFINE q == [p EXCEPT !.status = status]
           r == [p EXCEPT !.leads = some, !.lead = lead]
<1>1. /\ IsSearchPage(q) /\ q.sequence = p.sequence /\ q.job = p.job
      /\ q.timer = p.timer /\ q.error = p.error /\ q.candidates = p.candidates
      /\ q.stopped = p.stopped /\ q.calls = p.calls
  BY DEF Following, IsSearchPage, SearchFields
<1>2. /\ IsSearchPage(r) /\ r.sequence = p.sequence /\ r.job = p.job
      /\ r.timer = p.timer /\ r.error = p.error /\ r.candidates = p.candidates
      /\ r.stopped = p.stopped /\ r.calls = p.calls
  BY DEF Following, IsSearchPage, SearchFields
<1> HIDE DEF q, r
<1>3. Following(q, js, st) /\ Following(r, js, st)
  BY <1>1, <1>2, FollowingOn DEF Tells
<1> QED
  BY <1>3 DEF q, r

LEMMA ListsFollow ==
    ASSUME NEW p, NEW js, NEW st, NEW c, Following(p, js, st)
    PROVE  Following(S!ListsLoaded(p, c), js, st)
<1> DEFINE q == [p EXCEPT !.leads = c.leads,
                          !.lead = IF selected \in c.leads THEN selected ELSE @]
<1>1. q = [p EXCEPT !.leads = c.leads,
                    !.lead = IF selected \in c.leads THEN selected ELSE p.lead]
  OBVIOUS
<1>2. Following(q, js, st)
  BY <1>1, MarkingFollows
<1>3. S!ListsLoaded(p, c) = S!OnSourcePlatformChange(S!SyncStatuses(q))
  BY DEF S!ListsLoaded
<1> HIDE DEF q
<1>4. PICK status : S!SyncStatuses(q) = [q EXCEPT !.status = status]
  BY DEF S!SyncStatuses
<1>5. Following(S!SyncStatuses(q), js, st)
  <2>1. Following([q EXCEPT !.status = status], js, st)
    BY <1>2, MarkingFollows
  <2> QED
    BY <1>4, <2>1
<1> QED
  BY <1>3, <1>5, SourceFollows

LEMMA SourcesFollow ==
    ASSUME NEW p, NEW js, NEW st, NEW c, NEW first \in Sources, Following(p, js, st)
    PROVE  Following(S!SourcesLoaded(p, c, first), js, st)
<1> DEFINE s == IF p.source # Nothing THEN p.source
                ELSE IF p.current # Nothing THEN p.current ELSE first
           q == [p EXCEPT !.listed = TRUE, !.source = s]
<1>1. s \in Platforms
  BY DEF Following, IsSearchPage, Platforms
<1>2. S!SourcesLoaded(p, c, first) = IF c.number # p.generation THEN p ELSE q
  BY DEF S!SourcesLoaded
<1> HIDE DEF s
<1>3. /\ IsSearchPage(q) /\ q.sequence = p.sequence /\ q.job = p.job
      /\ q.timer = p.timer /\ q.error = p.error /\ q.candidates = p.candidates
      /\ q.stopped = p.stopped /\ q.calls = p.calls
  BY <1>1 DEF Following, IsSearchPage, SearchFields
<1> HIDE DEF q
<1>4. Following(q, js, st)
  BY <1>3, FollowingOn DEF Tells
<1> QED
  BY <1>2, <1>4

-----------------------------------------------------------------------------
(* SearchScreen: what is done, and answered.                               *)

\* A search that begins: its job is waited for, and none is followed.
LEMMA StartFollows ==
    ASSUME NEW p, NEW js, NEW st, Following(p, js, st), p.job = 0,
           \A c \in p.calls : c.op = "start" => c.number \in Nat /\ c.number < p.sequence
    PROVE  Following(S!Asking(p, [S!Call("start") EXCEPT !.of = p.source,
                                                        !.number = p.sequence]), js, st)
<1> DEFINE d == [S!Call("start") EXCEPT !.of = p.source, !.number = p.sequence]
           q == S!Asking(p, d)
<1>1. d.op = "start" /\ d.of = p.source /\ d.number = p.sequence
  BY DEF S!Call
<1> HIDE DEF d
<1>2. /\ IsSearchPage(q) /\ q.sequence = p.sequence /\ q.job = 0
      /\ q.candidates = p.candidates /\ q.stopped = p.stopped
      /\ q.calls = p.calls \cup {d}
  BY DEF Following, IsSearchPage, SearchFields, S!Asking
<1> HIDE DEF q
<1>3. p.sequence \in Nat /\ p.source \in Platforms
  BY DEF Following, IsSearchPage
<1>4. d.number \in 0 .. q.sequence
  BY <1>1, <1>2, <1>3
<1>5. \A c \in p.calls : c.op = "start" => c.number # q.sequence
  BY <1>2, <1>3
<1>6. OneStarts(q)
  BY <1>1, <1>2, <1>3, <1>4, <1>5 DEF Following, OneStarts
<1>7. JobsAreKnown(q, js) /\ OfLastSearch(q, js) /\ NoneForgotten(q, js, st) /\ Heard(q)
  BY <1>1, <1>2 DEF Following, JobsAreKnown, OfLastSearch, NoneForgotten, Heard
<1> QED
  BY <1>2, <1>6, <1>7 DEF q, d, Following

LEMMA NoErrorFollows ==
    ASSUME NEW p, NEW js, NEW st, Following(p, js, st), p.job = 0, NEW status
    PROVE  /\ LET q == [p EXCEPT !.error = FALSE] IN
              /\ Following(q, js, st) /\ q.job = 0 /\ q.sequence = p.sequence
              /\ q.calls = p.calls
           /\ Following([p EXCEPT !.status = status, !.error = FALSE], js, st)
<1> DEFINE q == [p EXCEPT !.error = FALSE]
           r == [p EXCEPT !.status = status, !.error = FALSE]
<1>1. \A w \in {q, r} :
         /\ IsSearchPage(w) /\ w.sequence = p.sequence /\ w.job = 0
         /\ w.candidates = p.candidates /\ w.stopped = p.stopped /\ w.calls = p.calls
  BY DEF Following, IsSearchPage, SearchFields
<1>2. \A w \in {q, r} : Following(w, js, st)
  <2> TAKE w \in {q, r}
  <2> HIDE DEF q, r
  <2> QED
    BY <1>1
    DEF Following, OneStarts, JobsAreKnown, OfLastSearch, NoneForgotten, Heard
<1> QED
  BY <1>1, <1>2

LEMMA JobIsNatural == jobs \in SearchJobList => 0 \notin DOMAIN jobs
BY DEF SearchJobList

LEMMA SearchClicks ==
    ASSUME SearchIsSound,
           \/ S!Search \/ S!CancelSearch \/ S!ClearSearch \/ S!Refresh \/ S!BulkImport
           \/ S!Poll \/ \E s \in Sources : S!ChooseSource(s)
           \/ \E u \in Urls : S!ImportUrl(u)
           \/ \E i \in search.candidates : S!ImportCandidate(i)
    PROVE  SearchIsSound'
<1>1. jobs \in SearchJobList /\ Following(search, jobs, stopping) /\ search.stopped = {}
  BY DEF SearchIsSound
<1>2. 0 \notin DOMAIN jobs
  BY <1>1, JobIsNatural
<1>3. ASSUME NEW p, Following(p, jobs, stopping), S!Show(p), jobs' = jobs
      PROVE  SearchIsSound'
  BY <1>1, <1>3, Showing DEF SearchIsSound
<1>4. CASE S!Search
  <2> DEFINE q == S!ForgetSearch(search)
             p == [q EXCEPT !.error = FALSE]
             d == [S!Call("start") EXCEPT !.of = p.source, !.number = p.sequence]
  <2>1. /\ Following(q, jobs, stopping) /\ q.job = 0
        /\ \A c \in q.calls : c.op = "start" => c.number \in Nat /\ c.number < q.sequence
    BY <1>1, ForgetFollows
  <2>2. S!Show(S!Asking(p, d)) /\ jobs' = jobs
    BY <1>4 DEF S!Search, S!Click
  <2> HIDE DEF q
  <2>3. /\ Following(p, jobs, stopping) /\ p.job = 0
        /\ p.sequence = q.sequence /\ p.calls = q.calls
    BY <2>1, NoErrorFollows
  <2> HIDE DEF p
  <2>4. Following(S!Asking(p, d), jobs, stopping)
    BY <2>1, <2>3, StartFollows
  <2> QED
    BY <1>3, <2>2, <2>4
<1>5. CASE S!CancelSearch
  <2> DEFINE d == [S!Call("cancel") EXCEPT !.number = search.job]
             p == [search EXCEPT !.error = FALSE, !.stopped = {search.job}]
             q == S!Asking(p, d)
  <2>1. S!Show(q) /\ jobs' = jobs /\ search.job # 0
    BY <1>5 DEF S!CancelSearch, S!Click
  <2>2. d.op = "cancel" /\ d.number = search.job
    BY DEF S!Call
  <2> HIDE DEF d
  <2>3. /\ IsSearchPage(q) /\ q.sequence = search.sequence /\ q.job = search.job
        /\ q.candidates = search.candidates /\ q.stopped = {search.job}
        /\ q.calls = search.calls \cup {d}
    BY <1>1 DEF Following, IsSearchPage, SearchFields, S!Asking
  <2> HIDE DEF p, q
  <2>4. OneStarts(q)
    BY <1>1, <2>2, <2>3 DEF Following, OneStarts
  <2>5. JobsAreKnown(q, jobs) /\ OfLastSearch(q, jobs) /\ NoneForgotten(q, jobs, stopping)
    BY <1>1, <2>1, <2>2, <2>3
    DEF Following, JobsAreKnown, OfLastSearch, NoneForgotten
  <2>6. Heard(q)
    BY <2>2, <2>3 DEF Heard
  <2>7. Following(q, jobs, stopping)
    BY <2>3, <2>4, <2>5, <2>6 DEF Following
  <2> QED
    BY <1>3, <2>1, <2>7
<1>6. CASE S!ClearSearch
  <2> DEFINE q == S!ForgetSearch(search)
             none == [u \in Urls |-> "none"]
             p == [q EXCEPT !.status = none, !.error = FALSE]
  <2>1. Following(q, jobs, stopping) /\ q.job = 0
    BY <1>1, ForgetFollows
  <2>2. S!Show(p) /\ jobs' = jobs
    BY <1>6 DEF S!ClearSearch, S!Click
  <2> HIDE DEF q, none
  <2>3. Following(p, jobs, stopping)
    BY <2>1, NoErrorFollows
  <2> HIDE DEF p
  <2> QED
    BY <1>3, <2>2, <2>3
<1>7. CASE S!Refresh
  BY <1>1, <1>3, <1>7, LoadAllFollows DEF S!Refresh, S!Click
<1>8. CASE S!BulkImport
  <2>1. PICK status, some :
           /\ S!Show(S!Asking([search EXCEPT !.status = status],
                              [S!Call("bulk") EXCEPT !.leads = some]))
           /\ jobs' = jobs
    BY <1>8 DEF S!BulkImport, S!Click
  <2>2. [S!Call("bulk") EXCEPT !.leads = some].op = "bulk"
    BY DEF S!Call
  <2>3. Following([search EXCEPT !.status = status], jobs, stopping)
    BY <1>1, MarkingFollows
  <2> QED
    BY <1>3, <2>1, <2>2, <2>3, AskingFollows
<1>9. CASE S!Poll
  <2> DEFINE p == [search EXCEPT !.timer = FALSE]
  <2>1. S!Show(S!PollSearchJob(p)) /\ jobs' = jobs
    BY <1>9 DEF S!Poll
  <2>2. /\ IsSearchPage(p) /\ p.sequence = search.sequence /\ p.job = search.job
        /\ p.candidates = search.candidates /\ p.stopped = {} /\ p.calls = search.calls
    BY <1>1 DEF Following, IsSearchPage, SearchFields
  <2> HIDE DEF p
  <2>3. Tracking(p, jobs, stopping)
    BY <1>1, <2>2
    DEF Following, Tracking, OneStarts, JobsAreKnown, OfLastSearch, NoneForgotten
  <2> QED
    BY <1>2, <1>3, <2>1, <2>3, PollFollows
<1>10. CASE \E s \in Sources : S!ChooseSource(s)
  <2>1. PICK s \in Sources :
           S!Show(S!OnSourcePlatformChange([search EXCEPT !.source = s])) /\ jobs' = jobs
    BY <1>10 DEF S!ChooseSource, S!Click
  <2> DEFINE p == [search EXCEPT !.source = s]
  <2>2. /\ IsSearchPage(p) /\ p.sequence = search.sequence /\ p.job = search.job
        /\ p.timer = search.timer /\ p.error = search.error
        /\ p.candidates = search.candidates /\ p.stopped = {} /\ p.calls = search.calls
    BY <1>1 DEF Following, IsSearchPage, SearchFields, Platforms
  <2> HIDE DEF p
  <2>3. Following(p, jobs, stopping)
    BY <1>1, <2>2, FollowingOn DEF Tells
  <2>4. Following(S!OnSourcePlatformChange(p), jobs, stopping)
    BY <2>3, SourceFollows
  <2> QED
    BY <1>3, <2>1, <2>4 DEF p
<1>11. CASE \E u \in Urls : S!ImportUrl(u)
  <2>1. PICK u \in Urls : /\ S!Show(S!Asking(search, [S!Call("import") EXCEPT !.of = u]))
                          /\ jobs' = jobs
    BY <1>11 DEF S!ImportUrl, S!Click
  <2>2. [S!Call("import") EXCEPT !.of = u].op = "import"
    BY DEF S!Call
  <2> QED
    BY <1>1, <1>3, <2>1, <2>2, AskingFollows
<1>12. CASE \E i \in search.candidates : S!ImportCandidate(i)
  <2>1. PICK u : /\ S!Show(S!Asking([search EXCEPT !.status[u] = "importing"],
                                    [S!Call("import") EXCEPT !.of = u, !.number = 1]))
                 /\ jobs' = jobs
    BY <1>12 DEF S!ImportCandidate, S!Click
  <2> DEFINE d == [S!Call("import") EXCEPT !.of = u, !.number = 1]
             status == [search.status EXCEPT ![u] = "importing"]
             p == [search EXCEPT !.status = status]
  <2>2. d.op = "import"
    BY DEF S!Call
  <2>3. S!Show(S!Asking(p, d))
    BY <2>1
  <2> HIDE DEF d, status
  <2>4. Following(p, jobs, stopping)
    BY <1>1, MarkingFollows
  <2> HIDE DEF p
  <2>5. Following(S!Asking(p, d), jobs, stopping)
    BY <2>2, <2>4, AskingFollows
  <2> QED
    BY <1>3, <2>1, <2>3, <2>5
<1> QED
  BY <1>4, <1>5, <1>6, <1>7, <1>8, <1>9, <1>10, <1>11, <1>12

\* A job ends: nothing else about the jobs changes.
LEMMA EndedFollows ==
    ASSUME jobs \in SearchJobList, NEW j \in DOMAIN jobs
    PROVE  LET ks == [jobs EXCEPT ![j].status = "ended"] IN
           /\ ks \in SearchJobList /\ DOMAIN ks = DOMAIN jobs /\ ks[j].status # "running"
           /\ \A i \in DOMAIN jobs : /\ ks[i].search = jobs[i].search
                                     /\ ks[i].status = "running" => jobs[i].status = "running"
<1> DEFINE Job == [source : Platforms, search : Nat, status : {"running", "ended"}]
           ks == [jobs EXCEPT ![j].status = "ended"]
<1>1. jobs \in Seq(Job) /\ jobs[j] \in Job
  <2>1. jobs \in Seq(Job)
    BY DEF SearchJobList
  <2> HIDE DEF Job
  <2> QED
    BY <2>1
<1>2. [jobs[j] EXCEPT !.status = "ended"] \in Job
  BY <1>1
<1>3. ks = [jobs EXCEPT ![j] = [jobs[j] EXCEPT !.status = "ended"]]
  OBVIOUS
<1> HIDE DEF Job
<1>4. ks \in Seq(Job) /\ DOMAIN ks = DOMAIN jobs
  BY <1>1, <1>2, <1>3
<1>5. ks[j] = [jobs[j] EXCEPT !.status = "ended"]
  BY <1>3
<1>6. \A i \in DOMAIN jobs : i # j => ks[i] = jobs[i]
  BY <1>3
<1>7. ks[j].status = "ended" /\ ks[j].search = jobs[j].search
  BY <1>1, <1>5 DEF Job
<1> HIDE DEF ks
<1>8. ks[j].status # "running"
  BY <1>7
<1>9. ASSUME NEW i \in DOMAIN jobs
      PROVE  /\ ks[i].search = jobs[i].search
             /\ ks[i].status = "running" => jobs[i].status = "running"
  BY <1>6, <1>7
<1> QED
  BY <1>4, <1>8, <1>9 DEF ks, Job, SearchJobList

LEMMA JobsAlone ==
    ASSUME SearchIsSound,
           \/ \E j \in DOMAIN jobs : S!JobEnds(j)
           \/ \E j \in stopping : S!StopReaches(j)
    PROVE  SearchIsSound'
<1>1. jobs \in SearchJobList /\ Following(search, jobs, stopping) /\ search.stopped = {}
  BY DEF SearchIsSound
<1>2. PICK j : /\ jobs' = [jobs EXCEPT ![j].status = "ended"]
               /\ UNCHANGED <<search, stopping>>
  BY DEF S!JobEnds, S!StopReaches
<1>3. CASE j \in DOMAIN jobs
  <2> DEFINE ks == [jobs EXCEPT ![j].status = "ended"]
  <2>1. /\ ks \in SearchJobList /\ DOMAIN ks = DOMAIN jobs
        /\ \A i \in DOMAIN jobs : /\ ks[i].search = jobs[i].search
                                  /\ ks[i].status = "running" => jobs[i].status = "running"
    BY <1>1, <1>3, EndedFollows
  <2>2. jobs' = ks
    BY <1>2
  <2> HIDE DEF ks
  <2>3. Following(search, ks, stopping)
    BY <1>1, <2>1, FollowingJobs
  <2> QED
    BY <1>1, <1>2, <2>1, <2>2, <2>3 DEF SearchIsSound
<1>4. CASE j \notin DOMAIN jobs
  <2>1. jobs' = jobs
    BY <1>1, <1>2, <1>4 DEF SearchJobList
  <2> QED
    BY <1>1, <1>2, <2>1 DEF SearchIsSound
<1> QED
  BY <1>3, <1>4

LEMMA StartAnswers ==
    ASSUME SearchIsSound, NEW c \in search.calls, S!AnswerStart(c)
    PROVE  SearchIsSound'
<1> DEFINE j == Len(jobs) + 1
           new == [source |-> c.of, search |-> c.number, status |-> "running"]
           ks == Append(jobs, new)
           p == S!Has(search, c)
<1>1. jobs \in SearchJobList /\ Following(search, jobs, stopping) /\ search.stopped = {}
  BY DEF SearchIsSound
<1>2. c.op = "start" /\ jobs' = ks /\ S!Show(S!StartAnswered(p, c, j))
  BY DEF S!AnswerStart
<1>3. /\ Tracking(p, jobs, stopping) /\ Heard(p) /\ p.calls = search.calls \ {c}
      /\ p.job = search.job /\ p.sequence = search.sequence /\ p.stopped = {}
  BY <1>1, <1>2, HasTracks
<1>4. c.of \in Platforms /\ c.number \in Nat
  BY <1>1, <1>2 DEF Following, OneStarts
<1>5. /\ ks \in SearchJobList /\ DOMAIN ks = DOMAIN jobs \cup {j} /\ j \notin DOMAIN jobs
      /\ ks[j] = new /\ \A i \in DOMAIN jobs : ks[i] = jobs[i]
  <2> DEFINE Job == [source : Platforms, search : Nat, status : {"running", "ended"}]
  <2>1. new \in Job /\ jobs \in Seq(Job)
    BY <1>1, <1>4 DEF SearchJobList
  <2> HIDE DEF new, Job
  <2>2. /\ ks \in Seq(Job) /\ DOMAIN ks = DOMAIN jobs \cup {j} /\ j \notin DOMAIN jobs
        /\ ks[j] = new /\ \A i \in DOMAIN jobs : ks[i] = jobs[i]
    BY <2>1
  <2> QED
    BY <2>2 DEF Job, SearchJobList
<1>6. new.search = c.number
  OBVIOUS
<1>7. 0 \notin DOMAIN ks /\ j # 0
  BY <1>5, JobIsNatural, <1>1 DEF SearchJobList
<1> HIDE DEF p, ks, new, j
<1>8. CASE c.number # p.sequence
  <2> DEFINE q == [p EXCEPT !.stopped = {j}]
  <2>1. S!Show(q)
    BY <1>2, <1>8 DEF S!StartAnswered
  <2>2. /\ IsSearchPage(q) /\ q.sequence = p.sequence /\ q.job = p.job
        /\ q.timer = p.timer /\ q.error = p.error /\ q.candidates = p.candidates
        /\ q.stopped = {j} /\ q.calls = p.calls
    BY <1>3 DEF Tracking, IsSearchPage, SearchFields
  <2> HIDE DEF q
  <2>3. OneStarts(q) /\ Heard(q)
    BY <1>3, <2>2 DEF Tracking, OneStarts, Heard
  <2>4. JobsAreKnown(q, ks) /\ OfLastSearch(q, ks)
    BY <1>3, <1>5, <1>7, <2>2 DEF Tracking, JobsAreKnown, OfLastSearch
  <2>5. NoneForgotten(q, ks, stopping)
    BY <1>3, <1>5, <2>2 DEF Tracking, NoneForgotten
  <2>6. Following(q, ks, stopping)
    BY <2>2, <2>3, <2>4, <2>5 DEF Following
  <2> QED
    BY <1>2, <1>5, <2>1, <2>6, Showing DEF SearchIsSound
<1>9. CASE c.number = p.sequence
  <2> DEFINE q == [p EXCEPT !.job = j]
  <2>1. S!Show(S!PollSearchJob(q))
    BY <1>2, <1>9 DEF S!StartAnswered
  <2>2. /\ IsSearchPage(q) /\ q.sequence = p.sequence /\ q.job = j
        /\ q.candidates = p.candidates /\ q.stopped = {} /\ q.calls = p.calls
    BY <1>3 DEF Tracking, IsSearchPage, SearchFields
  <2> HIDE DEF q
  <2>3. p.job = 0
    BY <1>1, <1>2, <1>3, <1>9 DEF Following, OneStarts
  <2>4. \A d \in p.calls : d.op = "start" => d.number # p.sequence
    BY <1>1, <1>2, <1>3, <1>9 DEF Following, OneStarts
  <2>5. OneStarts(q)
    BY <1>3, <2>2, <2>4 DEF Tracking, OneStarts
  <2>6. JobsAreKnown(q, ks) /\ OfLastSearch(q, ks)
    BY <1>3, <1>5, <1>6, <1>9, <2>2 DEF Tracking, JobsAreKnown, OfLastSearch
  <2>7. NoneForgotten(q, ks, stopping)
    BY <1>3, <1>5, <1>7, <2>2, <2>3, JobIsNatural, <1>1 DEF Tracking, NoneForgotten
  <2>8. Tracking(q, ks, stopping)
    BY <2>2, <2>5, <2>6, <2>7 DEF Tracking
  <2>9. Following(S!PollSearchJob(q), ks, stopping)
    BY <1>7, <2>8, PollFollows
  <2> QED
    BY <1>2, <1>5, <2>1, <2>9, Showing DEF SearchIsSound
<1> QED
  BY <1>8, <1>9

LEMMA PollAnswers ==
    ASSUME SearchIsSound, NEW c \in search.calls, S!AnswerPoll(c)
    PROVE  SearchIsSound'
<1> DEFINE p == S!Has(search, c)
<1>1. /\ jobs \in SearchJobList /\ Following(search, jobs, stopping)
      /\ search.stopped = {} /\ 0 \notin DOMAIN jobs
  BY JobIsNatural DEF SearchIsSound
<1>2. c.op = "poll" /\ jobs' = jobs
  BY DEF S!AnswerPoll
<1>3. PICK status \in {"running", jobs[c.number].status}, found \in SUBSET Urls :
         S!Show(S!PollAnswered(p, c, status, found))
  BY DEF S!AnswerPoll
<1>4. c.number \in DOMAIN jobs
  BY <1>1, <1>2 DEF Following, JobsAreKnown
<1>5. /\ Tracking(p, jobs, stopping) /\ p.job = search.job
      /\ ~(c.number = p.job) => Heard(p)
  BY <1>1, <1>2, HasTracks
<1> HIDE DEF p
<1>6. CASE p.job # c.number
  <2>1. Following(p, jobs, stopping)
    BY <1>5, <1>6, TrackingFollows
  <2> QED
    BY <1>1, <1>2, <1>3, <1>6, <2>1, Showing DEF SearchIsSound, S!PollAnswered
<1>7. CASE p.job = c.number
  <2> DEFINE q == S!ApplySearchJob(p, c.number, status, found)
             goes == status = "running"
             r == [q EXCEPT !.timer = goes, !.error = FALSE]
  <2>1. S!Show(r)
    BY <1>3, <1>7 DEF S!PollAnswered
  <2>2. status # "running" /\ p.job = c.number => jobs[c.number].status # "running"
    BY <1>3
  <2>3. Tracking(q, jobs, stopping) /\ q.job = IF status # "running" THEN 0 ELSE p.job
    BY <1>1, <1>4, <1>5, <1>7, <2>2, ApplyTracks
  <2>4. goes \in BOOLEAN /\ (q.job # 0 => goes)
    BY <2>3
  <2> HIDE DEF q, goes
  <2>5. /\ IsSearchPage(r) /\ r.sequence = q.sequence /\ r.job = q.job /\ r.timer = goes
        /\ r.candidates = q.candidates /\ r.stopped = q.stopped /\ r.calls = q.calls
    BY <2>3, <2>4 DEF Tracking, IsSearchPage, SearchFields
  <2> HIDE DEF r
  <2>6. Following(r, jobs, stopping)
    BY <2>3, <2>4, <2>5
    DEF Following, Tracking, OneStarts, JobsAreKnown, OfLastSearch, NoneForgotten, Heard
  <2> QED
    BY <1>1, <1>2, <2>1, <2>6, Showing DEF SearchIsSound
<1> QED
  BY <1>6, <1>7

LEMMA CancelAnswers ==
    ASSUME SearchIsSound, NEW c \in search.calls, S!AnswerCancel(c)
    PROVE  SearchIsSound'
<1> DEFINE p == S!Has(search, c)
           ks == [jobs EXCEPT ![c.number].status = "ended"]
<1>1. /\ jobs \in SearchJobList /\ Following(search, jobs, stopping)
      /\ search.stopped = {} /\ 0 \notin DOMAIN jobs
  BY JobIsNatural DEF SearchIsSound
<1>2. c.op = "cancel" /\ jobs' = ks
  BY DEF S!AnswerCancel
<1>3. PICK found \in SUBSET Urls : S!Show(S!CancelAnswered(p, c, found))
  BY DEF S!AnswerCancel
<1>4. c.number \in DOMAIN jobs
  BY <1>1, <1>2 DEF Following, JobsAreKnown
<1>5. /\ ks \in SearchJobList /\ DOMAIN ks = DOMAIN jobs /\ ks[c.number].status # "running"
      /\ \A i \in DOMAIN jobs : /\ ks[i].search = jobs[i].search
                                /\ ks[i].status = "running" => jobs[i].status = "running"
  BY <1>1, <1>4, EndedFollows
<1> HIDE DEF ks
<1>6. Following(search, ks, stopping)
  BY <1>1, <1>5, FollowingJobs
<1>7. Tracking(p, ks, stopping) /\ (c.number # p.job => Heard(p))
  BY <1>2, <1>6, HasTracks
<1> HIDE DEF p
<1> DEFINE q == S!ApplySearchJob(p, c.number, "ended", found)
           r == [q EXCEPT !.timer = FALSE]
<1>8. /\ Tracking(q, ks, stopping) /\ q.calls = p.calls /\ q.timer = p.timer
      /\ q.error = p.error /\ q.job = IF p.job = c.number THEN 0 ELSE p.job
  BY <1>1, <1>4, <1>5, <1>7, ApplyTracks
<1>9. S!Show(IF q.job \in {0, c.number} THEN r ELSE q)
  BY <1>3 DEF S!CancelAnswered
<1> HIDE DEF q
<1>10. CASE q.job \in {0, c.number}
  <2>1. q.job = 0
    BY <1>8, <1>10
  <2>2. /\ IsSearchPage(r) /\ r.sequence = q.sequence /\ r.job = q.job
        /\ r.candidates = q.candidates /\ r.stopped = q.stopped /\ r.calls = q.calls
    BY <1>8 DEF Tracking, IsSearchPage, SearchFields
  <2>3. S!Show(r)
    BY <1>9, <1>10
  <2> HIDE DEF r
  <2>4. Following(r, ks, stopping)
    BY <1>8, <2>1, <2>2
    DEF Following, Tracking, OneStarts, JobsAreKnown, OfLastSearch, NoneForgotten, Heard
  <2> QED
    BY <1>2, <1>5, <2>3, <2>4, Showing DEF SearchIsSound
<1>11. CASE q.job \notin {0, c.number}
  <2>1. S!Show(q)
    BY <1>9, <1>11
  <2>2. c.number # p.job /\ q.job = p.job
    BY <1>8, <1>11
  <2>3. Heard(q)
    BY <1>7, <1>8, <2>2 DEF Heard
  <2>4. Following(q, ks, stopping)
    BY <1>8, <2>3, TrackingFollows
  <2> QED
    BY <1>2, <1>5, <2>1, <2>4, Showing DEF SearchIsSound
<1> QED
  BY <1>10, <1>11

LEMMA OtherAnswers ==
    ASSUME SearchIsSound, NEW c \in search.calls,
           \/ S!AnswerLists(c) \/ S!AnswerSources(c) \/ S!AnswerAnalyze(c)
           \/ S!AnswerImport(c) \/ S!AnswerBulk(c)
    PROVE  SearchIsSound'
<1> DEFINE p == S!Has(search, c)
<1>1. jobs \in SearchJobList /\ Following(search, jobs, stopping) /\ search.stopped = {}
  BY DEF SearchIsSound
<1>2. c.op \notin {"poll", "cancel"} /\ jobs' = jobs
  BY DEF S!AnswerLists, S!AnswerSources, S!AnswerAnalyze, S!AnswerImport, S!AnswerBulk
<1>3. ASSUME NEW q, Following(q, jobs, stopping), S!Show(q) PROVE SearchIsSound'
  BY <1>1, <1>2, <1>3, Showing DEF SearchIsSound
<1>4. Following(p, jobs, stopping)
  BY <1>1, <1>2, HasTracks, TrackingFollows
<1>5. CASE S!AnswerLists(c)
  <2>1. S!Show(S!AnalyzeLead(S!ListsLoaded(p, c), c.then))
    BY <1>5 DEF S!AnswerLists
  <2> QED
    BY <1>3, <1>4, <2>1, ListsFollow, AnalyzeFollows
<1>6. CASE S!AnswerSources(c)
  <2>1. PICK first \in Sources : S!Show(S!SourcesLoaded(p, c, first))
    BY <1>6 DEF S!AnswerSources
  <2> QED
    BY <1>3, <1>4, <2>1, SourcesFollow
<1>7. CASE S!AnswerAnalyze(c)
  BY <1>3, <1>4, <1>7 DEF S!AnswerAnalyze
<1>8. CASE S!AnswerImport(c)
  <2> DEFINE r == [p EXCEPT !.lead = c.of,
                            !.status[c.of] = IF c.number = 1 THEN "imported" ELSE @]
             n == r.generation + 1
             ds == {[S!Call("lists") EXCEPT !.number = n, !.leads = leads', !.then = c.of],
                    [S!Call("sources") EXCEPT !.number = n]}
  <2>1. S!Show([r EXCEPT !.generation = n, !.calls = @ \cup ds])
    BY <1>8 DEF S!AnswerImport
  <2> DEFINE status == [p.status EXCEPT ![c.of] = IF c.number = 1 THEN "imported" ELSE @]
  <2>2. r = [p EXCEPT !.lead = c.of, !.status = status]
    OBVIOUS
  <2> HIDE DEF p, status
  <2>3. \A d \in ds : d.op \notin {"start", "poll", "cancel"}
    BY DEF S!Call
  <2> HIDE DEF n, ds
  <2> DEFINE q == [r EXCEPT !.generation = n, !.calls = @ \cup ds]
  <2> HIDE DEF r
  <2>4. /\ IsSearchPage(r) /\ r.sequence = p.sequence /\ r.job = p.job
        /\ r.timer = p.timer /\ r.error = p.error /\ r.candidates = p.candidates
        /\ r.stopped = p.stopped /\ r.calls = p.calls
    BY <1>4, <2>2 DEF Following, IsSearchPage, SearchFields
  <2>5. /\ IsSearchPage(q) /\ q.sequence = r.sequence /\ q.job = r.job
        /\ q.timer = r.timer /\ q.error = r.error /\ q.candidates = r.candidates
        /\ q.stopped = r.stopped /\ q.calls = r.calls \cup ds
    BY <2>4 DEF IsSearchPage, SearchFields
  <2>6. S!Show(q)
    BY <2>1
  <2> HIDE DEF q
  <2>7. Tells(q) = Tells(p)
    BY <2>3, <2>4, <2>5 DEF Tells
  <2>8. Following(q, jobs, stopping)
    BY <1>4, <2>4, <2>5, <2>7, FollowingOn
  <2> QED
    BY <1>3, <2>6, <2>8
<1>9. CASE S!AnswerBulk(c)
  <2>1. PICK last, status :
           LET n == search.generation + 1
               ds == {[S!Call("lists") EXCEPT !.number = n, !.leads = leads'],
                      [S!Call("sources") EXCEPT !.number = n]}
           IN  S!Show([p EXCEPT !.lead = last, !.status = status, !.generation = n,
                                !.calls = @ \cup ds])
    BY <1>9 DEF S!AnswerBulk
  <2> DEFINE n == search.generation + 1
             ds == {[S!Call("lists") EXCEPT !.number = n, !.leads = leads'],
                    [S!Call("sources") EXCEPT !.number = n]}
             q == [p EXCEPT !.lead = last, !.status = status, !.generation = n,
                            !.calls = @ \cup ds]
  <2>2. S!Show(q)
    BY <2>1
  <2>3. \A d \in ds : d.op \notin {"start", "poll", "cancel"}
    BY DEF S!Call
  <2> HIDE DEF p, n, ds
  <2>4. /\ IsSearchPage(q) /\ q.sequence = p.sequence /\ q.job = p.job
        /\ q.timer = p.timer /\ q.error = p.error /\ q.candidates = p.candidates
        /\ q.stopped = p.stopped /\ q.calls = p.calls \cup ds
    BY <1>4 DEF Following, IsSearchPage, SearchFields
  <2> HIDE DEF q
  <2>5. Tells(q) = Tells(p)
    BY <2>3, <2>4 DEF Tells
  <2>6. Following(q, jobs, stopping)
    BY <1>4, <2>4, <2>5, FollowingOn
  <2> QED
    BY <1>3, <2>2, <2>6
<1> QED
  BY <1>5, <1>6, <1>7, <1>8, <1>9

LEMMA FailuresFollow ==
    ASSUME SearchIsSound, NEW c \in search.calls, S!Fail(c)
    PROVE  SearchIsSound'
<1> DEFINE p == S!Has(search, c)
           f == S!Failed(p, c)
<1>1. jobs \in SearchJobList /\ Following(search, jobs, stopping) /\ search.stopped = {}
  BY DEF SearchIsSound
<1>2. jobs' = jobs /\ S!Show(f)
  BY DEF S!Fail
<1>3. ASSUME Following(f, jobs, stopping) PROVE SearchIsSound'
  BY <1>1, <1>2, <1>3, Showing DEF SearchIsSound
<1>4. /\ Tracking(p, jobs, stopping)
      /\ ~(c.op \in {"poll", "cancel"} /\ c.number = p.job) => Following(p, jobs, stopping)
  BY <1>1, HasTracks, TrackingFollows
<1> HIDE DEF p
<1>5. ASSUME NEW e \in BOOLEAN, f = [p EXCEPT !.timer = FALSE, !.error = e],
             e \/ p.job = 0
      PROVE  SearchIsSound'
  <2>1. /\ IsSearchPage(f) /\ f.sequence = p.sequence /\ f.job = p.job /\ f.error = e
        /\ f.candidates = p.candidates /\ f.stopped = p.stopped /\ f.calls = p.calls
    BY <1>4, <1>5 DEF Tracking, IsSearchPage, SearchFields
  <2> HIDE DEF f
  <2>2. Following(f, jobs, stopping)
    BY <1>4, <1>5, <2>1
    DEF Following, Tracking, OneStarts, JobsAreKnown, OfLastSearch, NoneForgotten, Heard
  <2> QED
    BY <1>3, <2>2
<1>6. CASE \/ c.op = "start" /\ c.number = p.sequence
           \/ c.op = "poll" /\ c.number = p.job
           \/ c.op = "cancel" /\ c.number = p.job
  <2>1. f = [p EXCEPT !.timer = FALSE, !.error = TRUE]
    <3>1. CASE c.op = "start" /\ c.number = p.sequence
      BY <3>1 DEF S!Failed
    <3>2. CASE c.op = "poll" /\ c.number = p.job
      BY <3>2 DEF S!Failed
    <3>3. CASE c.op = "cancel" /\ c.number = p.job
      <4>1. c.number # 0
        BY <1>1, <3>3, JobIsNatural DEF Following, JobsAreKnown
      <4> QED
        BY <3>3, <4>1 DEF S!Failed
    <3> QED
      BY <1>6, <3>1, <3>2, <3>3
  <2> QED
    BY <1>5, <2>1
<1>7. CASE c.op = "cancel" /\ c.number # p.job
  <2>1. CASE p.job = 0
    <3>1. f = [p EXCEPT !.timer = FALSE]
      BY <1>7, <2>1 DEF S!Failed
    <3>2. p.error \in BOOLEAN /\ p = [x \in SearchFields |-> p[x]]
      BY <1>4 DEF Tracking, IsSearchPage
    <3>3. f = [p EXCEPT !.timer = FALSE, !.error = p.error]
      BY <3>1, <3>2 DEF SearchFields
    <3> QED
      BY <1>5, <2>1, <3>2, <3>3
  <2>2. CASE p.job # 0
    <3>1. f = p
      BY <1>7, <2>2 DEF S!Failed
    <3> QED
      BY <1>3, <1>4, <1>7, <3>1
  <2> QED
    BY <2>1, <2>2
<1>8. CASE c.op = "sources"
  <2> DEFINE q == [p EXCEPT !.listed = FALSE, !.source = Nothing]
  <2>1. f = IF c.number = p.generation THEN q ELSE p
    BY <1>8 DEF S!Failed
  <2>2. Following(p, jobs, stopping)
    BY <1>4, <1>8
  <2>3. /\ IsSearchPage(q) /\ q.sequence = p.sequence /\ q.job = p.job
        /\ q.timer = p.timer /\ q.error = p.error /\ q.candidates = p.candidates
        /\ q.stopped = p.stopped /\ q.calls = p.calls
    BY <1>4 DEF Tracking, IsSearchPage, SearchFields, Platforms
  <2> HIDE DEF f, q
  <2>4. Following(q, jobs, stopping)
    BY <2>2, <2>3, FollowingOn DEF Tells
  <2>5. Following(f, jobs, stopping)
    BY <2>1, <2>2, <2>4
  <2> QED
    BY <1>3, <2>5 DEF f
<1>9. CASE c.op = "lists"
  <2>1. f = S!AnalyzeLead(p, c.then)
    BY <1>9 DEF S!Failed
  <2> HIDE DEF f
  <2>2. Following(f, jobs, stopping)
    BY <1>4, <1>9, <2>1, AnalyzeFollows
  <2> QED
    BY <1>3, <2>2 DEF f
<1>10. CASE c.op \in {"import", "bulk"}
  <2>1. PICK status : f = [p EXCEPT !.status = status] \/ f = p
    BY <1>10 DEF S!Failed
  <2>2. Following(p, jobs, stopping)
    BY <1>4, <1>10
  <2> HIDE DEF f
  <2>3. Following([p EXCEPT !.status = status], jobs, stopping)
    BY <2>2, MarkingFollows
  <2>4. Following(f, jobs, stopping)
    BY <2>1, <2>2, <2>3
  <2> QED
    BY <1>3, <2>4 DEF f
<1>11. CASE /\ c.op \notin {"cancel", "sources", "lists", "import", "bulk"}
            /\ ~(c.op = "start" /\ c.number = p.sequence)
            /\ ~(c.op = "poll" /\ c.number = p.job)
  <2>1. f = p
    BY <1>11 DEF S!Failed
  <2> QED
    BY <1>3, <1>4, <1>11, <2>1
<1> QED
  BY <1>6, <1>7, <1>8, <1>9, <1>10, <1>11

LEMMA SearchBegins == S!Init => SearchIsSound
<1> SUFFICES ASSUME S!Init PROVE SearchIsSound
  OBVIOUS
<1>1. jobs = <<>> /\ stopping = {} /\ search = S!LoadAll(S!Opened, Nothing)
  BY DEF S!Init
<1>2. IsSearchPage(S!Opened)
  BY DEF S!Opened, IsSearchPage, SearchFields, Platforms
<1>3. /\ S!Opened.job = 0 /\ S!Opened.candidates = {} /\ S!Opened.calls = {}
      /\ S!Opened.stopped = {}
  BY DEF S!Opened
<1>4. Following(S!Opened, jobs, stopping)
  BY <1>1, <1>2, <1>3
  DEF Following, OneStarts, JobsAreKnown, OfLastSearch, NoneForgotten, Heard
<1>5. Following(search, jobs, stopping)
  BY <1>1, <1>4, LoadAllFollows
<1>6. search.stopped = {}
  BY <1>1 DEF S!LoadAll, S!Opened
<1>7. jobs \in SearchJobList
  BY <1>1 DEF SearchJobList
<1> QED
  BY <1>5, <1>6, <1>7 DEF SearchIsSound

LEMMA SearchStep == SearchIsSound /\ [S!Next]_searchVars => SearchIsSound'
<1> SUFFICES ASSUME SearchIsSound, [S!Next]_searchVars PROVE SearchIsSound'
  OBVIOUS
<1>1. CASE UNCHANGED searchVars
  BY <1>1 DEF searchVars, SearchIsSound
<1>2. CASE \E c \in search.calls : S!Outcome(c)
  BY <1>2, StartAnswers, PollAnswers, CancelAnswers, OtherAnswers, FailuresFollow
  DEF S!Outcome
<1> QED
  BY <1>1, <1>2, SearchClicks, JobsAlone DEF S!Next

LEMMA SearchProperties ==
    SearchIsSound => S!CandidatesOfLastSearch /\ S!NoJobIsForgotten /\ S!JobIsFollowed
BY DEF SearchIsSound, Following, OfLastSearch, NoneForgotten, Heard,
       S!CandidatesOfLastSearch, S!NoJobIsForgotten, S!JobIsFollowed

-----------------------------------------------------------------------------
(* LeadsScreen: the list, and the opportunity of the lead.                 *)

ListFields ==
    {"lead", "record", "asked", "shown", "number", "timer", "error", "opportunity",
     "oppNumber", "oppLoading", "analysis", "analysisLoading", "generations", "tasks",
     "editing", "contacts", "contactsOf", "contactsLoading", "contact", "calls"}

IsListPage(p) ==
    /\ p = [f \in ListFields |-> p[f]]
    /\ p.number \in Nat /\ p.timer \in BOOLEAN /\ p.error \in BOOLEAN

IsOfList(c) == c.op \in {"all", "page"}

\* What is asked for beside the list.
LeadOps ==
    {"lead", "opportunity", "generations", "analysis", "tasks", "contacts", "refresh",
     "edit", "details", "move", "keep", "task", "status", "contact"}

AsksWhatItCan(p) == \A c \in p.calls : IsOfList(c) \/ c.op \in LeadOps

ListTells(p) == {c \in p.calls : IsOfList(c)}

\* The call for a list that was made last is for what the controls ask for.
CallsAreOfControls(p) ==
    \A c \in ListTells(p) : /\ c.number \in Nat /\ c.number <= p.number
                            /\ c.number = p.number => c.of = p.asked

ListComes(p) ==
    \/ p.shown = p.asked \/ p.timer \/ p.error
    \/ \E c \in ListTells(p) : c.number = p.number

\* With no lead on the page, there is no opportunity either, unless the lead that
\* localStorage kept could not be read and was forgotten.
OpportunityIsKept(p, l) ==
    \/ OtherTabs
    \/ /\ p.lead \in {Nothing, l}
       /\ p.lead # Nothing => p.opportunity \in {Nothing, p.lead}
       /\ p.lead = Nothing /\ l # Nothing => p.opportunity = Nothing

\* l is the lead in localStorage.
IsListing(p, l) ==
    /\ IsListPage(p) /\ AsksWhatItCan(p) /\ CallsAreOfControls(p) /\ ListComes(p)
    /\ OpportunityIsKept(p, l)

ListIsSound == IsListing(listing, chosen)

\* q is p with other panels.
Beside(p, q) ==
    /\ IsListPage(q) /\ q.asked = p.asked /\ q.shown = p.shown /\ q.number = p.number
    /\ q.timer = p.timer /\ q.error = p.error /\ ListTells(q) = ListTells(p)
    /\ q.lead = p.lead /\ q.opportunity \in {Nothing, p.opportunity}
    /\ \A c \in q.calls : c \in p.calls \/ c.op \in LeadOps

LEMMA BesideListing ==
    ASSUME NEW p, NEW q, NEW l, IsListing(p, l), Beside(p, q) PROVE IsListing(q, l)
BY DEF IsListing, Beside, CallsAreOfControls, ListComes, OpportunityIsKept, AsksWhatItCan

LEMMA BesideItself == ASSUME NEW p, IsListPage(p) PROVE Beside(p, p)
BY DEF Beside

LEMMA BesideOn ==
    ASSUME NEW p, NEW q, NEW r, Beside(p, q), Beside(q, r) PROVE Beside(p, r)
BY DEF Beside

LEMMA AskingBeside ==
    ASSUME NEW p, IsListPage(p), NEW d, d.op \in LeadOps
    PROVE  Beside(p, L!Asking(p, d))
<1> DEFINE q == L!Asking(p, d)
<1>1. /\ IsListPage(q) /\ q.asked = p.asked /\ q.shown = p.shown /\ q.number = p.number
      /\ q.timer = p.timer /\ q.error = p.error /\ q.calls = p.calls \cup {d}
      /\ q.lead = p.lead /\ q.opportunity = p.opportunity
  BY DEF IsListPage, ListFields, L!Asking
<1> HIDE DEF q
<1>2. ListTells(q) = ListTells(p)
  BY <1>1 DEF ListTells, IsOfList, LeadOps
<1>3. Beside(p, q)
  BY <1>1, <1>2 DEF Beside
<1> QED
  BY <1>3 DEF q

LEMMA ContactsBeside == ASSUME NEW p, IsListPage(p) PROVE Beside(p, L!LoadContacts(p))
<1> DEFINE l == L!SelectedLead(p)
           q == [p EXCEPT !.contacts = Nothing, !.contactsOf = Nothing,
                          !.contact = Nothing, !.contactsLoading = FALSE]
           r == [p EXCEPT !.contactsOf = CompanyOf[l], !.contactsLoading = TRUE]
           d == L!Call("contacts", CompanyOf[l])
<1>1. L!LoadContacts(p) = IF l = Nothing THEN q ELSE L!Asking(r, d)
  BY DEF L!LoadContacts
<1>2. d.op \in LeadOps
  BY DEF L!Call, LeadOps
<1> HIDE DEF l, d
<1> DEFINE Like(w) ==
             /\ IsListPage(w) /\ w.asked = p.asked /\ w.shown = p.shown
             /\ w.number = p.number /\ w.timer = p.timer /\ w.error = p.error
             /\ w.calls = p.calls /\ w.lead = p.lead /\ w.opportunity = p.opportunity
<1>3. Like(q) /\ Like(r)
  <2>1. Like(q)
    BY DEF IsListPage, ListFields
  <2>2. Like(r)
    BY DEF IsListPage, ListFields
  <2> QED
    BY <2>1, <2>2
<1> HIDE DEF q, r
<1>4. Beside(p, q) /\ Beside(p, r)
  BY <1>3 DEF Beside, ListTells
<1>5. Beside(p, L!Asking(r, d))
  BY <1>2, <1>3, <1>4, AskingBeside, BesideOn
<1> QED
  BY <1>1, <1>4, <1>5

LEMMA TasksBeside == ASSUME NEW p, IsListPage(p) PROVE Beside(p, L!LoadTasks(p))
<1> DEFINE q == [p EXCEPT !.tasks = Nothing]
           d == L!Call("tasks", p.lead)
<1>1. L!LoadTasks(p) = IF p.lead = Nothing THEN q ELSE L!Asking(q, d)
  BY DEF L!LoadTasks
<1>2. d.op \in LeadOps
  BY DEF L!Call, LeadOps
<1> HIDE DEF d
<1>3. /\ IsListPage(q) /\ q.asked = p.asked /\ q.shown = p.shown /\ q.number = p.number
      /\ q.timer = p.timer /\ q.error = p.error /\ q.calls = p.calls
      /\ q.lead = p.lead /\ q.opportunity = p.opportunity
  BY DEF IsListPage, ListFields
<1> HIDE DEF q
<1>4. Beside(p, q)
  BY <1>3 DEF Beside, ListTells
<1>5. Beside(p, L!Asking(q, d))
  BY <1>2, <1>3, <1>4, AskingBeside, BesideOn
<1> QED
  BY <1>1, <1>4, <1>5

LEMMA GenerationsBeside == ASSUME NEW p, IsListPage(p) PROVE Beside(p, L!LoadGenerations(p))
<1> DEFINE q == [p EXCEPT !.generations = Nothing]
           d == L!Call("generations", p.lead)
<1>1. L!LoadGenerations(p) = IF p.lead = Nothing THEN q ELSE L!Asking(p, d)
  BY DEF L!LoadGenerations
<1>2. d.op \in LeadOps
  BY DEF L!Call, LeadOps
<1> HIDE DEF d
<1>3. /\ IsListPage(q) /\ q.asked = p.asked /\ q.shown = p.shown /\ q.number = p.number
      /\ q.timer = p.timer /\ q.error = p.error /\ q.calls = p.calls
      /\ q.lead = p.lead /\ q.opportunity = p.opportunity
  BY DEF IsListPage, ListFields
<1> HIDE DEF q
<1>4. Beside(p, q)
  BY <1>3 DEF Beside, ListTells
<1> QED
  BY <1>1, <1>2, <1>4, AskingBeside

LEMMA AnalysisBeside == ASSUME NEW p, IsListPage(p) PROVE Beside(p, L!LoadAnalysis(p))
<1> DEFINE q == [p EXCEPT !.analysis = Nothing, !.analysisLoading = FALSE]
           r == [p EXCEPT !.analysisLoading = TRUE]
           d == L!Call("analysis", p.lead)
<1>1. L!LoadAnalysis(p) = IF p.lead = Nothing THEN q ELSE L!Asking(r, d)
  BY DEF L!LoadAnalysis
<1>2. d.op \in LeadOps
  BY DEF L!Call, LeadOps
<1> HIDE DEF d
<1> DEFINE Like(w) ==
             /\ IsListPage(w) /\ w.asked = p.asked /\ w.shown = p.shown
             /\ w.number = p.number /\ w.timer = p.timer /\ w.error = p.error
             /\ w.calls = p.calls /\ w.lead = p.lead /\ w.opportunity = p.opportunity
<1>3. Like(q) /\ Like(r)
  <2>1. Like(q)
    BY DEF IsListPage, ListFields
  <2>2. Like(r)
    BY DEF IsListPage, ListFields
  <2> QED
    BY <2>1, <2>2
<1> HIDE DEF q, r
<1>4. Beside(p, q) /\ Beside(p, r)
  BY <1>3 DEF Beside, ListTells
<1>5. Beside(p, L!Asking(r, d))
  BY <1>2, <1>3, <1>4, AskingBeside, BesideOn
<1> QED
  BY <1>1, <1>4, <1>5

LEMMA OpportunityBeside ==
    ASSUME NEW p, NEW then, IsListPage(p)
    PROVE  /\ Beside(p, L!LoadOpportunity(p, then))
           /\ L!LoadOpportunity(p, then).opportunity = Nothing
<1> DEFINE n == p.oppNumber + 1
           q == [p EXCEPT !.oppNumber = n, !.opportunity = Nothing,
                          !.oppLoading = (p.lead # Nothing)]
           d == [L!Call("opportunity", p.lead) EXCEPT !.number = n, !.carries = then]
<1>1. L!LoadOpportunity(p, then) = IF p.lead = Nothing THEN q ELSE L!Asking(q, d)
  BY DEF L!LoadOpportunity
<1>2. d.op \in LeadOps
  BY DEF L!Call, LeadOps
<1> HIDE DEF n, d
<1>3. /\ IsListPage(q) /\ q.asked = p.asked /\ q.shown = p.shown /\ q.number = p.number
      /\ q.timer = p.timer /\ q.error = p.error /\ q.calls = p.calls
      /\ q.lead = p.lead /\ q.opportunity = Nothing
  BY DEF IsListPage, ListFields
<1> HIDE DEF q
<1>4. Beside(p, q)
  BY <1>3 DEF Beside, ListTells
<1>5. Beside(q, L!Asking(q, d))
  BY <1>2, <1>3, AskingBeside
<1>6. L!Asking(q, d).opportunity = Nothing
  BY <1>3, <1>5 DEF Beside
<1> QED
  BY <1>1, <1>3, <1>4, <1>5, <1>6, BesideOn

LEMMA RefreshBeside ==
    ASSUME NEW p, NEW l, IsListPage(p) PROVE Beside(p, L!RefreshSelectedLead(p, l))
<1>1. L!Call("refresh", l).op \in LeadOps
  BY DEF L!Call, LeadOps
<1> QED
  BY <1>1, BesideItself, AskingBeside DEF L!RefreshSelectedLead

LEMMA RestBeside ==
    ASSUME NEW p, NEW number, IsListPage(p) PROVE Beside(p, L!LoadRest(p, number))
<1> DEFINE q == L!LoadContacts(p)
           r == L!LoadTasks(q)
           s == L!LoadAnalysis(r)
<1>1. Beside(p, q)
  BY ContactsBeside
<1>2. Beside(q, r)
  BY <1>1, TasksBeside DEF Beside
<1>3. Beside(r, s)
  BY <1>2, AnalysisBeside DEF Beside
<1>4. Beside(s, L!LoadOpportunity(s, Nothing))
  BY <1>3, OpportunityBeside DEF Beside
<1> HIDE DEF q, r, s
<1>5. Beside(p, L!LoadOpportunity(s, Nothing))
  BY <1>1, <1>2, <1>3, <1>4, BesideOn
<1> QED
  BY <1>5, BesideItself DEF L!LoadRest, q, r, s

LEMMA SelectListed ==
    ASSUME NEW p, NEW k, NEW l, IsListing(p, k)
    PROVE  IsListing(L!SelectLead(p, l), l)
<1> DEFINE q == [p EXCEPT !.lead = l, !.record = l, !.generations = Nothing,
                          !.analysis = Nothing, !.analysisLoading = FALSE,
                          !.opportunity = Nothing]
           r == L!LoadContacts(q)
           s == L!LoadTasks(r)
           t == L!LoadGenerations(s)
           u == L!LoadAnalysis(t)
           v == L!LoadOpportunity(u, Nothing)
<1>1. /\ IsListPage(q) /\ q.asked = p.asked /\ q.shown = p.shown /\ q.number = p.number
      /\ q.timer = p.timer /\ q.error = p.error /\ q.calls = p.calls
      /\ q.lead = l /\ q.opportunity = Nothing
  BY DEF IsListing, IsListPage, ListFields
<1>2. L!SelectLead(p, l) = v
  BY DEF L!SelectLead
<1> HIDE DEF q
<1>3. /\ AsksWhatItCan(q) /\ CallsAreOfControls(q) /\ ListComes(q)
      /\ OpportunityIsKept(q, l)
  BY <1>1 DEF IsListing, AsksWhatItCan, CallsAreOfControls, ListComes, ListTells,
              OpportunityIsKept
<1>4. Beside(q, r)
  BY <1>1, ContactsBeside
<1>5. Beside(r, s)
  BY <1>4, TasksBeside DEF Beside
<1>6. Beside(s, t)
  BY <1>5, GenerationsBeside DEF Beside
<1>7. Beside(t, u)
  BY <1>6, AnalysisBeside DEF Beside
<1>8. Beside(u, v)
  BY <1>7, OpportunityBeside DEF Beside
<1> HIDE DEF r, s, t, u, v
<1>9. Beside(q, v)
  BY <1>4, <1>5, <1>6, <1>7, <1>8, BesideOn
<1>10. IsListing(q, l)
  BY <1>1, <1>3 DEF IsListing
<1> QED
  BY <1>2, <1>9, <1>10, BesideListing

\* Whatever the list was that was asked for, the one that is asked for now is newer.
LEMMA ListsListed ==
    ASSUME NEW p, NEW op \in {"all", "page"}, NEW l, IsListPage(p),
           AsksWhatItCan(p), OpportunityIsKept(p, l),
           \A c \in ListTells(p) : c.number \in Nat /\ c.number <= p.number
    PROVE  IsListing(L!LoadLists(p, op), l)
<1> DEFINE n == p.number + 1
           d == [L!Call(op, p.asked) EXCEPT !.number = n]
           q == [p EXCEPT !.number = n, !.timer = FALSE]
           r == L!Asking(q, d)
<1>1. L!LoadLists(p, op) = r
  BY DEF L!LoadLists
<1>2. d.op = op /\ d.of = p.asked /\ d.number = n
  BY DEF L!Call
<1>3. n \in Nat /\ n > p.number
  BY DEF IsListPage
<1>4. \A c \in ListTells(p) : c.number \in Nat /\ c.number <= n /\ c.number # n
  BY DEF IsListPage
<1> HIDE DEF n, d
<1>5. /\ IsListPage(q) /\ q.asked = p.asked /\ q.number = n /\ q.calls = p.calls
      /\ q.lead = p.lead /\ q.opportunity = p.opportunity
  BY <1>3 DEF IsListPage, ListFields
<1> HIDE DEF q
<1>6. /\ IsListPage(r) /\ r.asked = p.asked /\ r.number = n /\ r.calls = p.calls \cup {d}
      /\ r.lead = p.lead /\ r.opportunity = p.opportunity
  BY <1>5 DEF IsListPage, ListFields, L!Asking
<1> HIDE DEF r
<1>7. ListTells(r) = ListTells(p) \cup {d}
  BY <1>2, <1>6 DEF ListTells, IsOfList
<1>8. CallsAreOfControls(r)
  <2>1. \A c \in ListTells(p) : c.number \in Nat /\ c.number <= r.number
                                 /\ c.number # r.number
    BY <1>4, <1>6
  <2>2. d.number \in Nat /\ d.number <= r.number /\ d.of = r.asked
    BY <1>2, <1>3, <1>6
  <2> QED
    BY <1>7, <2>1, <2>2 DEF CallsAreOfControls
<1>9. ListComes(r)
  BY <1>2, <1>6, <1>7 DEF ListComes
<1>10. OpportunityIsKept(r, l) /\ AsksWhatItCan(r)
  BY <1>2, <1>6 DEF OpportunityIsKept, AsksWhatItCan, IsOfList
<1> QED
  BY <1>1, <1>6, <1>8, <1>9, <1>10 DEF IsListing

LEMMA ListedOn ==
    ASSUME NEW p, NEW l, IsListing(p, l)
    PROVE  /\ IsListPage(p) /\ AsksWhatItCan(p) /\ OpportunityIsKept(p, l)
           /\ \A c \in ListTells(p) : c.number \in Nat /\ c.number <= p.number
<1>1. IsListPage(p) /\ AsksWhatItCan(p) /\ OpportunityIsKept(p, l) /\ CallsAreOfControls(p)
  BY DEF IsListing
<1>2. \A c \in ListTells(p) : c.number \in Nat /\ c.number <= p.number
  BY <1>1 DEF CallsAreOfControls
<1> QED
  BY <1>1, <1>2

\* As IsListing, but that the list need not come.
WithoutList(p, l) ==
    /\ IsListPage(p) /\ AsksWhatItCan(p) /\ CallsAreOfControls(p)
    /\ OpportunityIsKept(p, l)

LEMMA HasListed ==
    ASSUME NEW p, NEW l, NEW c, IsListing(p, l)
    PROVE  LET q == L!Has(p, c) IN
           /\ WithoutList(q, l) /\ q.number = p.number /\ q.asked = p.asked
           /\ ~(IsOfList(c) /\ c.number = p.number) => IsListing(q, l)
<1> DEFINE q == L!Has(p, c)
<1>1. /\ IsListPage(q) /\ q.asked = p.asked /\ q.shown = p.shown /\ q.number = p.number
      /\ q.timer = p.timer /\ q.error = p.error /\ q.calls = p.calls \ {c}
      /\ q.lead = p.lead /\ q.opportunity = p.opportunity
  BY DEF IsListing, IsListPage, ListFields, L!Has
<1> HIDE DEF q
<1>2. ListTells(q) = ListTells(p) \ {c}
  BY <1>1 DEF ListTells
<1>3. AsksWhatItCan(q) /\ CallsAreOfControls(q) /\ OpportunityIsKept(q, l)
  BY <1>1, <1>2 DEF IsListing, AsksWhatItCan, CallsAreOfControls, OpportunityIsKept
<1>4. ASSUME ~(IsOfList(c) /\ c.number = p.number) PROVE ListComes(q)
  BY <1>1, <1>2, <1>4 DEF IsListing, ListComes, ListTells
<1> QED
  BY <1>1, <1>3, <1>4 DEF q, IsListing, WithoutList

LEMMA ApplyListed ==
    ASSUME NEW p, NEW l, WithoutList(p, l)
    PROVE  IsListing(L!ApplyList(p, p.asked), l)
<1> DEFINE a == p.asked
           q == [p EXCEPT !.shown = a, !.error = FALSE]
           r == [q EXCEPT !.record = p.lead]
           s == L!ApplyList(p, p.asked)
<1>1. /\ IsListPage(q) /\ q.asked = p.asked /\ q.shown = p.asked /\ q.number = p.number
      /\ q.timer = p.timer /\ q.calls = p.calls
      /\ q.lead = p.lead /\ q.opportunity = p.opportunity
  BY DEF WithoutList, IsListPage, ListFields
<1>2. s \in {q, r}
  BY DEF L!ApplyList
<1> HIDE DEF q, s
<1>3. /\ IsListPage(r) /\ r.asked = p.asked /\ r.shown = p.asked /\ r.number = p.number
      /\ r.timer = p.timer /\ r.calls = p.calls
      /\ r.lead = p.lead /\ r.opportunity = p.opportunity
  BY <1>1 DEF IsListPage, ListFields
<1> HIDE DEF r
<1>4. /\ IsListPage(s) /\ s.asked = p.asked /\ s.shown = p.asked /\ s.number = p.number
      /\ s.calls = p.calls /\ s.lead = p.lead /\ s.opportunity = p.opportunity
  BY <1>1, <1>2, <1>3
<1>5. /\ AsksWhatItCan(s) /\ CallsAreOfControls(s) /\ ListComes(s)
      /\ OpportunityIsKept(s, l)
  BY <1>4 DEF WithoutList, AsksWhatItCan, CallsAreOfControls, ListComes,
              OpportunityIsKept, ListTells
<1>6. IsListing(s, l)
  BY <1>4, <1>5 DEF IsListing
<1> QED
  BY <1>6 DEF s

LEMMA RestListed ==
    ASSUME NEW p, NEW l, NEW number, IsListing(p, l)
    PROVE  IsListing(L!LoadRest(p, number), l)
BY RestBeside, BesideListing DEF IsListing

\* The lead of localStorage is shown, or asked for.
LEMMA RestoredListed ==
    ASSUME NEW p, NEW number, IsListing(p, chosen)
    PROVE  IsListing(L!Restored(p, number), chosen)
<1> DEFINE q == [p EXCEPT !.lead = chosen]
           r == [q EXCEPT !.record = chosen]
           d == [L!Call("lead", chosen) EXCEPT !.number = number]
<1>1. CASE chosen = Nothing
  BY <1>1, RestListed DEF L!Restored
<1>2. CASE chosen # Nothing
  <2>1. L!Restored(p, number) \in {L!LoadRest(r, number), L!Asking(q, d)}
    BY <1>2 DEF L!Restored
  <2>2. d.op \in LeadOps
    BY DEF L!Call, LeadOps
  <2>3. /\ IsListPage(q) /\ q.asked = p.asked /\ q.shown = p.shown /\ q.number = p.number
        /\ q.timer = p.timer /\ q.error = p.error /\ q.calls = p.calls
        /\ q.lead = chosen /\ q.opportunity = p.opportunity
    BY DEF IsListing, IsListPage, ListFields
  <2> HIDE DEF d, q
  <2>4. /\ IsListPage(r) /\ r.asked = p.asked /\ r.shown = p.shown /\ r.number = p.number
        /\ r.timer = p.timer /\ r.error = p.error /\ r.calls = p.calls
        /\ r.lead = chosen /\ r.opportunity = p.opportunity
    BY <2>3 DEF IsListPage, ListFields
  <2> HIDE DEF r
  <2>5. OpportunityIsKept(q, chosen) /\ OpportunityIsKept(r, chosen)
    BY <1>2, <2>3, <2>4 DEF IsListing, OpportunityIsKept
  <2>6. IsListing(q, chosen) /\ IsListing(r, chosen)
    BY <2>3, <2>4, <2>5
    DEF IsListing, AsksWhatItCan, CallsAreOfControls, ListComes, ListTells
  <2>7. IsListing(L!LoadRest(r, number), chosen)
    BY <2>6, RestListed
  <2>8. IsListing(L!Asking(q, d), chosen)
    BY <2>2, <2>3, <2>6, AskingBeside, BesideListing
  <2> QED
    BY <2>1, <2>7, <2>8
<1> QED
  BY <1>1, <1>2

LEMMA ListClicks ==
    ASSUME ListIsSound,
           \/ \E l \in Leads : L!ChooseLead(l) \/ L!ChooseElsewhere(l)
           \/ \E list \in Controls : L!ChooseList(list) \/ L!TypeKeyword(list)
           \/ L!TimerFires \/ L!Refresh
    PROVE  ListIsSound'
<1>1. IsListing(listing, chosen)
  BY DEF ListIsSound
<1>2. /\ IsListPage(listing) /\ AsksWhatItCan(listing) /\ OpportunityIsKept(listing, chosen)
      /\ \A c \in ListTells(listing) : c.number \in Nat /\ c.number <= listing.number
  BY <1>1, ListedOn
<1>3. CASE \E l \in Leads : L!ChooseLead(l)
  <2>1. PICK l \in Leads : listing' = L!SelectLead(listing, l) /\ chosen' = l
    BY <1>3 DEF L!ChooseLead
  <2> QED
    BY <1>1, <2>1, SelectListed DEF ListIsSound
<1>4. CASE \E l \in Leads : L!ChooseElsewhere(l)
  <2>1. OtherTabs /\ listing' = listing
    BY <1>4 DEF L!ChooseElsewhere
  <2> QED
    BY <1>1, <2>1 DEF ListIsSound, IsListing, OpportunityIsKept
<1>5. CASE \E list \in Controls : L!ChooseList(list)
  <2>1. PICK list \in Controls :
           /\ listing' = L!LoadLists([listing EXCEPT !.asked = list], "page")
           /\ chosen' = chosen
    BY <1>5 DEF L!ChooseList
  <2> DEFINE p == [listing EXCEPT !.asked = list]
  <2>2. /\ IsListPage(p) /\ p.number = listing.number /\ p.calls = listing.calls
        /\ p.lead = listing.lead /\ p.opportunity = listing.opportunity
    BY <1>2 DEF IsListPage, ListFields
  <2>3. listing' = L!LoadLists(p, "page")
    BY <2>1
  <2> HIDE DEF p
  <2>4. /\ OpportunityIsKept(p, chosen) /\ AsksWhatItCan(p)
        /\ ListTells(p) = ListTells(listing)
    BY <1>2, <2>2 DEF OpportunityIsKept, AsksWhatItCan, ListTells
  <2>5. IsListing(L!LoadLists(p, "page"), chosen)
    BY <1>2, <2>2, <2>4, ListsListed
  <2> QED
    BY <2>1, <2>3, <2>5 DEF ListIsSound
<1>6. CASE \E list \in Controls : L!TypeKeyword(list)
  <2> DEFINE n == listing.number + 1
  <2>1. PICK list \in Controls :
           /\ listing' = [listing EXCEPT !.asked = list, !.number = n, !.timer = TRUE]
           /\ chosen' = chosen
    BY <1>6 DEF L!TypeKeyword
  <2> DEFINE p == [listing EXCEPT !.asked = list, !.number = n, !.timer = TRUE]
  <2>2. n \in Nat /\ \A c \in ListTells(listing) :
                        c.number \in Nat /\ c.number <= n /\ c.number # n
    BY <1>2 DEF IsListPage
  <2> HIDE DEF n
  <2>3. /\ IsListPage(p) /\ p.number = n /\ p.calls = listing.calls /\ p.timer
        /\ p.lead = listing.lead /\ p.opportunity = listing.opportunity
    BY <1>2, <2>2 DEF IsListPage, ListFields
  <2>4. listing' = p
    BY <2>1
  <2> HIDE DEF p
  <2>5. /\ OpportunityIsKept(p, chosen) /\ AsksWhatItCan(p)
        /\ ListTells(p) = ListTells(listing) /\ ListComes(p)
    BY <1>2, <2>3 DEF OpportunityIsKept, AsksWhatItCan, ListTells, ListComes
  <2>6. CallsAreOfControls(p)
    BY <2>2, <2>3, <2>5 DEF CallsAreOfControls
  <2> QED
    BY <2>1, <2>3, <2>4, <2>5, <2>6 DEF ListIsSound, IsListing
<1>7. CASE L!TimerFires
  BY <1>2, <1>7, ListsListed DEF L!TimerFires, ListIsSound
<1>8. CASE L!Refresh
  BY <1>2, <1>8, ListsListed DEF L!Refresh, ListIsSound
<1> QED
  BY <1>3, <1>4, <1>5, <1>6, <1>7, <1>8

\* What is done with the panels of the lead.
LEMMA PanelClicks ==
    ASSUME ListIsSound,
           \/ L!SaveLead \/ L!KeepAnalysis
           \/ \E op \in {"details", "move"} : L!SaveOpportunity(op)
           \/ L!EditTask \/ L!SaveTask \/ L!MoveTask \/ L!SaveContact
           \/ \E k \in {Nothing, listing.contacts} : L!PickContact(k)
    PROVE  ListIsSound'
<1>1. IsListing(listing, chosen) /\ IsListPage(listing)
  BY DEF ListIsSound, IsListing
<1>2. ASSUME NEW d, d.op \in LeadOps, listing' = L!Asking(listing, d), chosen' = chosen
      PROVE  ListIsSound'
  BY <1>1, <1>2, AskingBeside, BesideListing DEF ListIsSound
<1>3. ASSUME NEW of, NEW op \in LeadOps
      PROVE  L!Call(op, of).op \in LeadOps
  BY <1>3 DEF L!Call
<1>4. CASE L!SaveLead
  BY <1>2, <1>3, <1>4 DEF L!SaveLead, LeadOps
<1>5. CASE L!KeepAnalysis
  BY <1>2, <1>3, <1>5 DEF L!KeepAnalysis, LeadOps
<1>6. CASE \E op \in {"details", "move"} : L!SaveOpportunity(op)
  <2>1. PICK op \in {"details", "move"} :
           /\ listing' = L!Asking(listing, [L!Call(op, listing.lead)
                                              EXCEPT !.carries = listing.opportunity])
           /\ chosen' = chosen
    BY <1>6 DEF L!SaveOpportunity
  <2>2. [L!Call(op, listing.lead) EXCEPT !.carries = listing.opportunity].op \in LeadOps
    BY DEF L!Call, LeadOps
  <2> QED
    BY <1>2, <2>1, <2>2
<1>7. CASE L!SaveTask
  <2> DEFINE d == [L!Call("task", listing.lead) EXCEPT !.carries = listing.editing]
  <2>1. listing' = L!Asking(listing, d) /\ chosen' = chosen
    BY <1>7 DEF L!SaveTask
  <2>2. d.op \in LeadOps
    BY DEF L!Call, LeadOps
  <2> QED
    BY <1>2, <2>1, <2>2
<1>8. CASE L!MoveTask
  BY <1>2, <1>3, <1>8 DEF L!MoveTask, LeadOps
<1>9. CASE L!SaveContact
  <2> DEFINE d == [L!Call("contact", listing.lead) EXCEPT !.carries = listing.contact]
  <2>1. listing' = L!Asking(listing, d) /\ chosen' = chosen
    BY <1>9 DEF L!SaveContact
  <2>2. d.op \in LeadOps
    BY DEF L!Call, LeadOps
  <2> QED
    BY <1>2, <2>1, <2>2
<1>10. ASSUME NEW k,
              \/ listing' = [listing EXCEPT !.contact = k]
              \/ listing' = [listing EXCEPT !.editing = k],
              chosen' = chosen
       PROVE  ListIsSound'
  <2> DEFINE p == [listing EXCEPT !.contact = k]
             q == [listing EXCEPT !.editing = k]
  <2>1. \A w \in {p, q} :
           /\ IsListPage(w) /\ w.asked = listing.asked /\ w.shown = listing.shown
           /\ w.number = listing.number /\ w.timer = listing.timer
           /\ w.error = listing.error /\ w.calls = listing.calls
           /\ w.lead = listing.lead /\ w.opportunity = listing.opportunity
    BY <1>1 DEF IsListPage, ListFields
  <2>2. listing' = p \/ listing' = q
    BY <1>10
  <2> HIDE DEF p, q
  <2>3. Beside(listing, p) /\ Beside(listing, q)
    BY <2>1 DEF Beside, ListTells
  <2> QED
    BY <1>1, <1>10, <2>2, <2>3, BesideListing DEF ListIsSound
<1>11. CASE L!EditTask
  BY <1>10, <1>11 DEF L!EditTask
<1>12. CASE \E k \in {Nothing, listing.contacts} : L!PickContact(k)
  BY <1>10, <1>12 DEF L!PickContact
<1> QED
  BY <1>4, <1>5, <1>6, <1>7, <1>8, <1>9, <1>11, <1>12

\* A list that is answered is shown, if it is the one that was asked for last.
LEMMA ListAnswers ==
    ASSUME ListIsSound, NEW c \in listing.calls, IsOfList(c), L!Answer(c)
    PROVE  ListIsSound'
<1> DEFINE p == L!Has(listing, c)
<1>1. IsListing(listing, chosen)
  BY DEF ListIsSound
<1>2. /\ WithoutList(p, chosen) /\ p.number = listing.number /\ p.asked = listing.asked
      /\ c.number # p.number => IsListing(p, chosen)
  BY <1>1, HasListed
<1>3. listing' = L!ListShown(p, c) /\ chosen' = chosen
  BY DEF L!Answer, L!Shown, IsOfList
<1> HIDE DEF p
<1>4. CASE c.number # p.number
  BY <1>2, <1>3, <1>4 DEF L!ListShown, ListIsSound
<1>5. CASE c.number = p.number
  <2>1. c.of = p.asked
    BY <1>1, <1>2, <1>5 DEF IsListing, CallsAreOfControls, ListTells
  <2> DEFINE q == L!ApplyList(p, p.asked)
  <2>2. listing' \in {L!Restored(q, c.number), q}
    BY <1>3, <1>5, <2>1 DEF L!ListShown
  <2>3. IsListing(q, chosen)
    BY <1>2, ApplyListed
  <2> HIDE DEF q
  <2>4. IsListing(L!Restored(q, c.number), chosen)
    BY <2>3, RestoredListed
  <2> QED
    BY <1>3, <2>2, <2>3, <2>4 DEF ListIsSound
<1> QED
  BY <1>4, <1>5

\* One panel of p changes, and none is asked for.
LEMMA PanelBeside ==
    ASSUME NEW p, IsListPage(p), NEW a, NEW b, NEW d
    PROVE  /\ Beside(p, [p EXCEPT !.record = a])
           /\ Beside(p, [p EXCEPT !.generations = a])
           /\ Beside(p, [p EXCEPT !.analysis = a, !.analysisLoading = b])
           /\ Beside(p, [p EXCEPT !.tasks = a])
           /\ Beside(p, [p EXCEPT !.editing = a])
           /\ Beside(p, [p EXCEPT !.record = a, !.tasks = b])
           /\ Beside(p, [p EXCEPT !.contact = a])
           /\ Beside(p, [p EXCEPT !.contacts = a, !.contactsLoading = b])
           /\ Beside(p, [p EXCEPT !.contacts = a, !.contact = b, !.contactsLoading = d])
           /\ Beside(p, [p EXCEPT !.oppLoading = a])
<1> DEFINE Like(q) == /\ IsListPage(q) /\ q.asked = p.asked /\ q.shown = p.shown
                      /\ q.number = p.number /\ q.timer = p.timer /\ q.error = p.error
                      /\ q.calls = p.calls /\ q.lead = p.lead
                      /\ q.opportunity = p.opportunity
<1>1. \A q : Like(q) => Beside(p, q)
  BY DEF Beside, ListTells
<1>2. /\ Like([p EXCEPT !.record = a])
      /\ Like([p EXCEPT !.generations = a])
      /\ Like([p EXCEPT !.analysis = a, !.analysisLoading = b])
  BY DEF IsListPage, ListFields
<1>3. /\ Like([p EXCEPT !.tasks = a])
      /\ Like([p EXCEPT !.editing = a])
      /\ Like([p EXCEPT !.record = a, !.tasks = b])
      /\ Like([p EXCEPT !.contact = a])
  BY DEF IsListPage, ListFields
<1>4. /\ Like([p EXCEPT !.contacts = a, !.contactsLoading = b])
      /\ Like([p EXCEPT !.contacts = a, !.contact = b, !.contactsLoading = d])
      /\ Like([p EXCEPT !.oppLoading = a])
  BY DEF IsListPage, ListFields
<1> HIDE DEF Like
<1> QED
  BY <1>1, <1>2, <1>3, <1>4

LEMMA OpportunityListed ==
    ASSUME NEW p, NEW l, NEW c, IsListing(p, l)
    PROVE  IsListing(L!OpportunityShown(p, c), l)
<1> DEFINE q == [p EXCEPT !.opportunity = p.lead, !.oppLoading = FALSE]
<1>1. L!OpportunityShown(p, c) \in {p, q}
  BY DEF L!OpportunityShown
<1>2. /\ IsListPage(q) /\ q.asked = p.asked /\ q.shown = p.shown /\ q.number = p.number
      /\ q.timer = p.timer /\ q.error = p.error /\ q.calls = p.calls
      /\ q.lead = p.lead /\ q.opportunity = p.lead
  BY DEF IsListing, IsListPage, ListFields
<1> HIDE DEF q
<1>3. /\ AsksWhatItCan(q) /\ CallsAreOfControls(q) /\ ListComes(q)
      /\ OpportunityIsKept(q, l)
  BY <1>2 DEF IsListing, AsksWhatItCan, CallsAreOfControls, ListComes, ListTells,
              OpportunityIsKept
<1> QED
  BY <1>1, <1>2, <1>3 DEF IsListing

LEMMA PanelAnswers ==
    ASSUME ListIsSound, NEW c \in listing.calls, ~IsOfList(c), L!Answer(c)
    PROVE  ListIsSound'
<1> DEFINE p == L!Has(listing, c)
           s == L!Shown(p, c)
<1>1. listing' = s /\ chosen' = chosen
  BY DEF L!Answer
<1>2. IsListing(p, chosen) /\ IsListPage(p)
  BY HasListed DEF ListIsSound, IsListing
<1> HIDE DEF p
<1>3. ASSUME NEW q, Beside(p, q), s = q PROVE ListIsSound'
  BY <1>1, <1>2, <1>3, BesideListing DEF ListIsSound
<1>4. ASSUME NEW q, IsListing(q, chosen), s = q PROVE ListIsSound'
  BY <1>1, <1>4 DEF ListIsSound
<1>5. CASE c.op = "lead"
  <2>1. s = L!LoadRest([p EXCEPT !.record = c.of], c.number)
    BY <1>5 DEF L!Shown
  <2>2. Beside(p, [p EXCEPT !.record = c.of])
    BY <1>2, PanelBeside
  <2>3. IsListing([p EXCEPT !.record = c.of], chosen)
    BY <1>2, <2>2, BesideListing
  <2> QED
    BY <1>4, <2>1, <2>3, RestListed
<1>6. CASE c.op = "opportunity"
  <2> DEFINE q == L!OpportunityShown(p, c)
  <2>1. s = L!RefreshSelectedLead(q, c.carries)
    BY <1>6 DEF L!Shown
  <2>2. IsListing(q, chosen) /\ IsListPage(q)
    BY <1>2, OpportunityListed DEF IsListing
  <2> HIDE DEF q
  <2>3. IsListing(L!RefreshSelectedLead(q, c.carries), chosen)
    BY <2>2, RefreshBeside, BesideListing
  <2> QED
    BY <1>4, <2>1, <2>3
<1>7. CASE c.op = "generations"
  BY <1>2, <1>3, <1>7, PanelBeside DEF L!Shown
<1>8. CASE c.op = "analysis"
  <2>1. s \in {p, [p EXCEPT !.analysis = c.of, !.analysisLoading = FALSE]}
    BY <1>8 DEF L!Shown
  <2> HIDE DEF s
  <2> QED
    BY <1>2, <1>3, <2>1, PanelBeside, BesideItself
<1>9. CASE c.op = "tasks"
  <2>1. s \in {p, [p EXCEPT !.tasks = c.of]}
    BY <1>9 DEF L!Shown
  <2> HIDE DEF s
  <2> QED
    BY <1>2, <1>3, <2>1, PanelBeside, BesideItself
<1>10. CASE c.op = "contacts"
  <2>1. s \in {p, [p EXCEPT !.contacts = c.of, !.contact = c.of, !.contactsLoading = FALSE]}
    BY <1>10 DEF L!Shown, L!ContactsShown
  <2> HIDE DEF s
  <2> QED
    BY <1>2, <1>3, <2>1, PanelBeside, BesideItself
<1>11. CASE c.op = "refresh"
  <2>1. s \in {p, [p EXCEPT !.record = c.of, !.tasks = c.of]}
    BY <1>11 DEF L!Shown
  <2> HIDE DEF s
  <2> QED
    BY <1>2, <1>3, <2>1, PanelBeside, BesideItself
<1>12. CASE c.op = "edit"
  <2>1. s = L!LoadLists(p, "all")
    BY <1>12 DEF L!Shown
  <2>2. IsListing(L!LoadLists(p, "all"), chosen)
    BY <1>2, ListedOn, ListsListed
  <2> QED
    BY <1>4, <2>1, <2>2
<1>13. CASE c.op \in {"details", "move"}
  <2>1. PICK then : s = L!LoadOpportunity(p, then)
    BY <1>13 DEF L!Shown
  <2> HIDE DEF s
  <2> QED
    BY <1>2, <1>3, <2>1, OpportunityBeside
<1>14. CASE c.op = "keep"
  BY <1>2, <1>3, <1>14, AnalysisBeside DEF L!Shown
<1>15. CASE c.op \in {"task", "status"}
  <2> DEFINE q == [p EXCEPT !.editing = Nothing]
  <2>1. PICK l : s = L!RefreshSelectedLead(q, l)
    BY <1>15 DEF L!Shown
  <2>2. Beside(p, q)
    BY <1>2, PanelBeside
  <2> HIDE DEF s, q
  <2>3. Beside(q, L!RefreshSelectedLead(q, l))
    BY <2>2, RefreshBeside DEF Beside
  <2>4. Beside(p, L!RefreshSelectedLead(q, l))
    BY <2>2, <2>3, BesideOn
  <2> QED
    BY <1>3, <2>1, <2>4
<1>16. CASE c.op = "contact"
  <2> DEFINE k == IF c.carries # Nothing THEN c.carries ELSE CompanyOf[c.of]
             q == [p EXCEPT !.contact = k]
  <2>1. s = L!LoadContacts(q)
    BY <1>16 DEF L!Shown
  <2> HIDE DEF s, k
  <2>2. Beside(p, q)
    BY <1>2, PanelBeside
  <2> HIDE DEF q
  <2>3. Beside(q, L!LoadContacts(q))
    BY <2>2, ContactsBeside DEF Beside
  <2>4. Beside(p, L!LoadContacts(q))
    BY <2>2, <2>3, BesideOn
  <2> QED
    BY <1>3, <2>1, <2>4
<1>17. c.op \in LeadOps
  BY DEF ListIsSound, IsListing, AsksWhatItCan
<1> QED
  BY <1>5, <1>6, <1>7, <1>8, <1>9, <1>10, <1>11, <1>12, <1>13, <1>14, <1>15, <1>16,
     <1>17 DEF LeadOps

LEMMA ListFailures ==
    ASSUME ListIsSound, NEW c \in listing.calls, L!Fail(c)
    PROVE  ListIsSound'
<1> DEFINE p == L!Has(listing, c)
           s == L!Failed(p, c)
<1>1. listing' = s /\ chosen' = IF c.op = "lead" THEN Nothing ELSE chosen
  BY DEF L!Fail
<1>2. IsListing(listing, chosen)
  BY DEF ListIsSound
<1>3. /\ WithoutList(p, chosen) /\ p.number = listing.number
      /\ ~(IsOfList(c) /\ c.number = p.number) => IsListing(p, chosen)
  BY <1>2, HasListed
<1>4. IsListPage(p)
  BY <1>3 DEF WithoutList
<1> HIDE DEF p
<1>5. CASE c.op = "all" \/ (c.op = "page" /\ c.number = p.number)
  <2> DEFINE q == [p EXCEPT !.error = TRUE]
  <2>1. s = q
    BY <1>5 DEF L!Failed
  <2>2. /\ IsListPage(q) /\ q.asked = p.asked /\ q.number = p.number /\ q.error
        /\ q.calls = p.calls /\ q.lead = p.lead /\ q.opportunity = p.opportunity
    BY <1>4 DEF IsListPage, ListFields
  <2> HIDE DEF s, q
  <2>3. IsListing(q, chosen)
    BY <1>3, <2>2 DEF IsListing, WithoutList, AsksWhatItCan, CallsAreOfControls,
                      ListComes, ListTells, OpportunityIsKept
  <2> QED
    BY <1>1, <1>5, <2>1, <2>3 DEF ListIsSound
<1>6. CASE c.op = "lead"
  <2> DEFINE q == [p EXCEPT !.lead = Nothing, !.record = Nothing]
  <2>1. s = L!LoadRest(q, c.number)
    BY <1>6 DEF L!Failed
  <2>2. /\ IsListPage(q) /\ q.asked = p.asked /\ q.shown = p.shown /\ q.number = p.number
        /\ q.timer = p.timer /\ q.error = p.error /\ q.calls = p.calls
        /\ q.lead = Nothing
    BY <1>4 DEF IsListPage, ListFields
  <2> HIDE DEF s, q
  <2>3. IsListing(p, chosen)
    BY <1>3, <1>6 DEF IsOfList
  <2>4. OpportunityIsKept(q, Nothing)
    BY <2>2 DEF OpportunityIsKept
  <2>5. IsListing(q, Nothing)
    BY <2>2, <2>3, <2>4 DEF IsListing, AsksWhatItCan, CallsAreOfControls,
                            ListComes, ListTells
  <2> QED
    BY <1>1, <1>6, <2>1, <2>5, RestListed DEF ListIsSound
<1>7. CASE ~IsOfList(c) /\ c.op # "lead"
  <2>1. IsListing(p, chosen) /\ chosen' = chosen
    BY <1>1, <1>3, <1>7
  <2>2. ASSUME NEW q, Beside(p, q), s = q PROVE ListIsSound'
    BY <1>1, <2>1, <2>2, BesideListing DEF ListIsSound
  <2>3. CASE c.op = "opportunity"
    <3> DEFINE q == IF c.number # p.oppNumber \/ c.of # p.lead THEN p
                    ELSE [p EXCEPT !.oppLoading = FALSE]
    <3>1. s = L!RefreshSelectedLead(q, c.carries)
      BY <2>3 DEF L!Failed
    <3>2. Beside(p, q)
      BY <1>4, PanelBeside, BesideItself
    <3> HIDE DEF s, q
    <3>3. Beside(q, L!RefreshSelectedLead(q, c.carries))
      BY <3>2, RefreshBeside DEF Beside
    <3>4. Beside(p, L!RefreshSelectedLead(q, c.carries))
      BY <3>2, <3>3, BesideOn
    <3> QED
      BY <2>2, <3>1, <3>4
  <2>4. CASE c.op # "opportunity"
    <3>1. s \in {p, [p EXCEPT !.analysis = Nothing, !.analysisLoading = FALSE],
                  [p EXCEPT !.contacts = Nothing, !.contactsLoading = FALSE]}
      BY <1>7, <2>4 DEF L!Failed, IsOfList
    <3> HIDE DEF s
    <3> QED
      BY <1>4, <2>2, <3>1, PanelBeside, BesideItself
  <2> QED
    BY <2>3, <2>4
<1>8. CASE c.op = "page" /\ c.number # p.number
  <2>1. s = p
    BY <1>8 DEF L!Failed
  <2> QED
    BY <1>1, <1>3, <1>8, <2>1 DEF ListIsSound
<1> QED
  BY <1>5, <1>6, <1>7, <1>8 DEF IsOfList

LEMMA ListBegins == L!Init => ListIsSound
<1> SUFFICES ASSUME L!Init PROVE ListIsSound
  OBVIOUS
<1>1. PICK list \in Controls : listing = L!LoadLists(L!Opened(list), "all")
  BY DEF L!Init
<1> DEFINE p == L!Opened(list)
<1>2. /\ IsListPage(p) /\ p.lead = Nothing /\ p.opportunity = Nothing /\ p.calls = {}
  BY DEF L!Opened, IsListPage, ListFields
<1> HIDE DEF p
<1>3. OpportunityIsKept(p, chosen) /\ AsksWhatItCan(p) /\ ListTells(p) = {}
  BY <1>2 DEF OpportunityIsKept, AsksWhatItCan, ListTells
<1> QED
  BY <1>1, <1>2, <1>3, ListsListed DEF ListIsSound, p

LEMMA ListStep == ListIsSound /\ [L!Next]_listVars => ListIsSound'
<1> SUFFICES ASSUME ListIsSound, [L!Next]_listVars PROVE ListIsSound'
  OBVIOUS
<1>1. CASE UNCHANGED listVars
  BY <1>1 DEF listVars, ListIsSound
<1>2. CASE \E c \in listing.calls : L!Answer(c) \/ L!Fail(c)
  BY <1>2, ListAnswers, PanelAnswers, ListFailures
<1> QED
  BY <1>1, <1>2, ListClicks, PanelClicks DEF L!Next

LEMMA ListProperties == ListIsSound => L!ListIsOfControls /\ L!OpportunityIsOfLead
BY DEF ListIsSound, IsListing, ListComes, ListTells, IsOfList, OpportunityIsKept,
       L!ListIsOfControls, L!OpportunityIsOfLead

-----------------------------------------------------------------------------
(* WorkPages: the reports and the lists.                                   *)

ViewFields ==
    {"kind", "aborts", "filters", "applied", "number", "controller", "status", "report",
     "budget", "owners", "panels", "page", "pages", "rows", "label", "previous", "next",
     "calls", "got"}

PanelNames == {"period", "counts", "alerts", "budget"}

IsView(v) ==
    /\ v = [f \in ViewFields |-> v[f]]
    /\ v.kind \in W!Reports \cup W!Lists /\ v.aborts \in BOOLEAN /\ v.number \in Nat
    /\ v.panels = [panel \in PanelNames |-> v.panels[panel]]

\* The last request for a report is for the filters that were applied, and may set the
\* page as long as it is not answered.
AsksForReports(v) ==
    \A c \in v.calls :
      \/ c.op = "assignees" /\ c.number = 0
      \/ /\ c = W!Call(c.op, c.number, c.of)
         /\ c.op = "report" \/ (c.op = "budget" /\ v.kind = "operations")
         /\ c.number \in 1 .. v.number
         /\ c.number = v.number =>
              c.of = v.applied /\ v.controller = IF v.aborts THEN v.number ELSE 0

ReportComes(v) ==
    \/ v.panels.counts \in {v.applied, Nothing}
    \/ \E c \in v.calls : c.op # "assignees" /\ c.number = v.number

PanelsAgree(v) ==
    v.kind = "operations" => \A panel \in PanelNames : v.panels[panel] = v.panels.counts

IsReport(v) ==
    /\ IsView(v) /\ v.kind \in W!Reports
    /\ AsksForReports(v) /\ ReportComes(v) /\ PanelsAgree(v)

AsksForLists(v) == \A c \in v.calls : c.op = "list" /\ c.of.page \in Nat

\* The number below the rows, and the way back to the page before.
RowsAreLabelled(v) ==
    /\ v.page \in Nat /\ v.pages \in Nat \ {0} /\ v.label \in Nat
    /\ v.previous = (v.label > 1)
    /\ v.rows # Nothing => v.label = v.rows.page

IsList(v) ==
    IsView(v) /\ v.kind \in W!Lists /\ AsksForLists(v) /\ RowsAreLabelled(v)

ViewIsSound == IsReport(view) \/ IsList(view)

\* As IsReport, but that the report need not come.
MayReport(v) ==
    IsView(v) /\ v.kind \in W!Reports /\ AsksForReports(v) /\ PanelsAgree(v)

\* What is asked for anew is the only request that may set the page.
LEMMA NumberedReports ==
    ASSUME NEW v, MayReport(v)
    PROVE  LET q == W!Numbered(v) IN
           /\ MayReport(q) /\ q.kind = v.kind /\ q.applied = v.filters
           /\ q.number \in Nat \ {0}
           /\ q.controller = IF q.aborts THEN q.number ELSE 0
<1> DEFINE n == v.number + 1
           a == W!Abort(v)
           k == IF v.aborts THEN n ELSE 0
           q == [a EXCEPT !.number = n, !.status = "loading", !.applied = v.filters,
                          !.controller = k]
<1>1. W!Numbered(v) = q
  BY DEF W!Numbered
<1>2. /\ IsView(a) /\ a.kind = v.kind /\ a.calls \subseteq v.calls /\ a.panels = v.panels
      /\ a.aborts = v.aborts
  <2>1. CASE v.controller = 0
    BY <2>1 DEF MayReport, W!Abort
  <2>2. CASE v.controller # 0
    <3> DEFINE some == {c \in v.calls : c.number # v.controller}
               more == {c \in v.got : c.number # v.controller}
    <3>1. a = [v EXCEPT !.calls = some, !.got = more]
      BY <2>2 DEF W!Abort
    <3>2. some \subseteq v.calls
      OBVIOUS
    <3> HIDE DEF some, more, a
    <3> QED
      BY <3>1, <3>2 DEF MayReport, IsView, ViewFields
  <2> QED
    BY <2>1, <2>2
<1>3. n \in Nat \ {0} /\ \A m \in 1 .. v.number : m \in 1 .. n /\ m # n
  BY DEF MayReport, IsView
<1> HIDE DEF a, n, k
<1>4. /\ IsView(q) /\ q.kind = v.kind /\ q.calls = a.calls /\ q.panels = v.panels
      /\ q.aborts = v.aborts /\ q.number = n /\ q.controller = k /\ q.applied = v.filters
  BY <1>2, <1>3 DEF IsView, ViewFields
<1> HIDE DEF q
<1>5. AsksForReports(q)
  <2> SUFFICES ASSUME NEW c \in q.calls, ~(c.op = "assignees" /\ c.number = 0)
               PROVE  /\ c = W!Call(c.op, c.number, c.of)
                      /\ c.op = "report" \/ (c.op = "budget" /\ q.kind = "operations")
                      /\ c.number \in 1 .. q.number /\ c.number # q.number
    BY DEF AsksForReports
  <2>1. /\ c = W!Call(c.op, c.number, c.of)
        /\ c.op = "report" \/ (c.op = "budget" /\ v.kind = "operations")
        /\ c.number \in 1 .. v.number
    BY <1>2, <1>4 DEF MayReport, AsksForReports
  <2> QED
    BY <1>3, <1>4, <2>1
<1>6. PanelsAgree(q)
  BY <1>4 DEF MayReport, PanelsAgree
<1> QED
  BY <1>1, <1>3, <1>4, <1>5, <1>6 DEF MayReport, k

LEMMA ReportsAsked ==
    ASSUME NEW v, MayReport(v), NEW ops \in SUBSET {"report", "budget"}, "report" \in ops,
           "budget" \in ops => v.kind = "operations",
           v.number # 0, v.controller = IF v.aborts THEN v.number ELSE 0
    PROVE  LET cs == {W!Call(op, v.number, v.applied) : op \in ops}
           IN  IsReport([v EXCEPT !.calls = @ \cup cs])
<1> DEFINE cs == {W!Call(op, v.number, v.applied) : op \in ops}
           q == [v EXCEPT !.calls = @ \cup cs]
<1>1. \A c \in cs : /\ c.op \in ops /\ c.number = v.number /\ c.of = v.applied
                    /\ c = W!Call(c.op, c.number, c.of)
  BY DEF W!Call
<1>2. \E c \in cs : c.op = "report" /\ c.number = v.number
  <2>1. W!Call("report", v.number, v.applied) \in cs
    OBVIOUS
  <2> QED
    BY <2>1 DEF W!Call
<1> HIDE DEF cs
<1>3. /\ IsView(q) /\ q.kind = v.kind /\ q.calls = v.calls \cup cs /\ q.panels = v.panels
      /\ q.aborts = v.aborts /\ q.number = v.number /\ q.controller = v.controller
      /\ q.applied = v.applied
  BY DEF MayReport, IsView, ViewFields
<1> HIDE DEF q
<1>4. v.number \in 1 .. v.number
  BY DEF MayReport, IsView
<1>5. \A c \in cs : c.op = "report" \/ (c.op = "budget" /\ v.kind = "operations")
  BY <1>1
<1>6. AsksForReports(q)
  BY <1>1, <1>3, <1>4, <1>5 DEF MayReport, AsksForReports
<1>7. ReportComes(q) /\ PanelsAgree(q)
  BY <1>2, <1>3 DEF MayReport, ReportComes, PanelsAgree
<1> QED
  BY <1>3, <1>6, <1>7 DEF q, cs, IsReport, MayReport

LEMMA LoadReports ==
    ASSUME NEW v, MayReport(v)
    PROVE  /\ v.kind = "performance" => IsReport(W!LoadSalesPerformance(v))
           /\ v.kind = "operations" => IsReport(W!LoadOperations(v))
<1> DEFINE q == W!Numbered(v)
<1>1. /\ MayReport(q) /\ q.kind = v.kind /\ q.applied = v.filters /\ q.number \in Nat \ {0}
      /\ q.controller = IF q.aborts THEN q.number ELSE 0
  BY NumberedReports
<1>2. ASSUME v.kind = "performance" PROVE IsReport(W!LoadSalesPerformance(v))
  <2> DEFINE cs == {W!Call(op, q.number, q.applied) : op \in {"report"}}
  <2>1. W!LoadSalesPerformance(v) = [q EXCEPT !.calls = @ \cup cs]
    <3>1. cs = {W!Call("report", q.number, v.filters)}
      BY <1>1
    <3> QED
      BY <3>1 DEF W!LoadSalesPerformance
  <2> HIDE DEF q
  <2>2. IsReport([q EXCEPT !.calls = @ \cup cs])
    BY <1>1, ReportsAsked
  <2> QED
    BY <2>1, <2>2
<1>3. ASSUME v.kind = "operations" PROVE IsReport(W!LoadOperations(v))
  <2> DEFINE cs == {W!Call(op, q.number, q.applied) : op \in {"report", "budget"}}
  <2>1. W!LoadOperations(v) = [q EXCEPT !.calls = @ \cup cs]
    <3>1. cs = {W!Call("report", q.number, v.filters), W!Call("budget", q.number, v.filters)}
      BY <1>1
    <3> QED
      BY <3>1 DEF W!LoadOperations
  <2> HIDE DEF q
  <2>2. IsReport([q EXCEPT !.calls = @ \cup cs])
    BY <1>1, <1>3, ReportsAsked
  <2> QED
    BY <2>1, <2>2
<1> QED
  BY <1>2, <1>3

\* A call that ends: if it was of the last request, nothing else of that request is out.
LEMMA ReportCallEnds ==
    ASSUME NEW v, IsReport(v), NEW c \in v.calls
    PROVE  LET q == [v EXCEPT !.calls = @ \ {c}] IN
           /\ MayReport(q) /\ q.calls = v.calls \ {c} /\ q.number = v.number
           /\ q.kind = v.kind /\ q.applied = v.applied /\ q.panels = v.panels
           /\ q.controller = v.controller /\ q.aborts = v.aborts
           /\ c.op = "assignees" \/ c.number # v.number => ReportComes(q)
<1> DEFINE some == v.calls \ {c}
           q == [v EXCEPT !.calls = some]
<1>1. /\ IsView(q) /\ q.calls = some /\ q.number = v.number
      /\ q.kind = v.kind /\ q.applied = v.applied /\ q.panels = v.panels
      /\ q.controller = v.controller /\ q.aborts = v.aborts
  BY DEF IsReport, IsView, ViewFields
<1> HIDE DEF q
<1>2. AsksForReports(q) /\ PanelsAgree(q)
  BY <1>1 DEF IsReport, AsksForReports, PanelsAgree
<1>3. ASSUME c.op = "assignees" \/ c.number # v.number PROVE ReportComes(q)
  BY <1>1, <1>3 DEF IsReport, ReportComes
<1> QED
  BY <1>1, <1>2, <1>3 DEF IsReport, MayReport, q

\* What a report shows is of the filters that were applied, or nothing.
LEMMA ReportStands ==
    ASSUME NEW v, MayReport(v), NEW panels, NEW status, NEW body, NEW budget,
           panels = [panel \in PanelNames |-> panels[panel]],
           panels.counts \in {v.applied, Nothing},
           v.kind = "operations" => \A panel \in PanelNames : panels[panel] = panels.counts,
           \A d \in v.calls : d.number # v.number
    PROVE  IsReport([v EXCEPT !.report = body, !.budget = budget, !.panels = panels,
                              !.status = status, !.controller = 0])
<1> DEFINE q == [v EXCEPT !.report = body, !.budget = budget, !.panels = panels,
                          !.status = status, !.controller = 0]
<1>1. /\ IsView(q) /\ q.calls = v.calls /\ q.number = v.number /\ q.kind = v.kind
      /\ q.applied = v.applied /\ q.panels = panels
  BY DEF MayReport, IsView, ViewFields
<1> HIDE DEF q
<1>2. AsksForReports(q)
  BY <1>1 DEF MayReport, AsksForReports
<1>3. ReportComes(q) /\ PanelsAgree(q)
  BY <1>1 DEF ReportComes, PanelsAgree
<1> QED
  BY <1>1, <1>2, <1>3 DEF q, IsReport, MayReport

LEMMA PerformanceAnswers ==
    ASSUME NEW v, IsReport(v), v.kind = "performance", NEW c \in v.calls,
           c.op # "assignees"
    PROVE  IsReport(W!SalesPerformanceAnswered([v EXCEPT !.calls = @ \ {c}], c))
<1> DEFINE q == [v EXCEPT !.calls = @ \ {c}]
<1> SUFFICES IsReport(W!SalesPerformanceAnswered(q, c))
  OBVIOUS
<1>1. /\ MayReport(q) /\ q.calls = v.calls \ {c} /\ q.number = v.number
      /\ q.kind = v.kind /\ q.applied = v.applied /\ q.panels = v.panels
      /\ q.controller = v.controller /\ q.aborts = v.aborts
      /\ c.number # v.number => ReportComes(q)
  BY ReportCallEnds
<1>2. \A d \in v.calls : d.op # "assignees" =>
         /\ d = W!Call("report", d.number, d.of)
         /\ d.number = v.number =>
              d.of = v.applied /\ v.controller = IF v.aborts THEN v.number ELSE 0
  BY DEF IsReport, AsksForReports
<1> HIDE DEF q
<1>3. CASE c.number # v.number
  <2>1. W!SalesPerformanceAnswered(q, c) = q
    BY <1>1, <1>3 DEF W!SalesPerformanceAnswered, W!IsCurrentRequest
  <2> QED
    BY <1>1, <1>3, <2>1 DEF MayReport, IsReport
<1>4. CASE c.number = v.number
  <2> DEFINE panels == [q.panels EXCEPT !.period = c.of, !.counts = c.of]
  <2>1. W!IsCurrentRequest(q, c.number) /\ c.of = v.applied
    BY <1>1, <1>2, <1>4 DEF W!IsCurrentRequest
  <2>2. W!SalesPerformanceAnswered(q, c) =
          [q EXCEPT !.report = c.of, !.budget = q.budget, !.panels = panels,
                    !.status = "ok", !.controller = 0]
    <3>1. q = [f \in ViewFields |-> q[f]]
      BY <1>1 DEF MayReport, IsView
    <3> QED
      BY <2>1, <3>1 DEF W!SalesPerformanceAnswered, W!RenderSalesPerformance, ViewFields
  <2>3. /\ panels = [panel \in PanelNames |-> panels[panel]]
        /\ panels.counts \in {q.applied, Nothing}
    BY <1>1, <2>1 DEF MayReport, IsView, PanelNames
  <2>4. \A d \in q.calls : d.number # q.number
    <3>1. \A d \in v.calls : d.op = "assignees" => d.number = 0
      BY DEF IsReport, AsksForReports, W!Call
    <3>2. c.number # 0
      BY DEF IsReport, AsksForReports
    <3>3. \A d \in q.calls : d.op # "assignees" /\ d.number = v.number => d = c
      BY <1>1, <1>2, <1>4
    <3> QED
      BY <1>1, <1>4, <3>1, <3>2, <3>3
  <2>5. q.kind # "operations"
    BY <1>1
  <2> HIDE DEF panels
  <2>6. IsReport([q EXCEPT !.report = c.of, !.budget = q.budget, !.panels = panels,
                           !.status = "ok", !.controller = 0])
    BY <1>1, <2>3, <2>4, <2>5, ReportStands
  <2> QED
    BY <2>2, <2>6
<1> QED
  BY <1>3, <1>4

LEMMA OperationsAnswers ==
    ASSUME NEW v, IsReport(v), v.kind = "operations", NEW c \in v.calls,
           c.op # "assignees"
    PROVE  IsReport(W!OperationsAnswered([v EXCEPT !.calls = @ \ {c}], c))
<1> DEFINE p == [v EXCEPT !.calls = @ \ {c}]
<1> SUFFICES IsReport(W!OperationsAnswered(p, c))
  OBVIOUS
<1>1. /\ MayReport(p) /\ p.calls = v.calls \ {c} /\ p.number = v.number
      /\ p.kind = v.kind /\ p.applied = v.applied /\ p.panels = v.panels
      /\ p.controller = v.controller /\ p.aborts = v.aborts
      /\ c.number # v.number => ReportComes(p)
  BY ReportCallEnds
<1>2. \A d \in v.calls :
         /\ d.op = "assignees" => d.number = 0
         /\ d.op # "assignees" =>
              /\ d.number \in 1 .. v.number
              /\ d.number = v.number =>
                   d.of = v.applied /\ v.controller = IF v.aborts THEN v.number ELSE 0
  <2>1. \A d : W!Call("assignees", 0, d).op = "assignees"
    BY DEF W!Call
  <2> QED
    BY DEF IsReport, AsksForReports
<1>3. c.number \in 1 .. v.number /\ c.number # 0
  BY <1>2
<1> HIDE DEF p
<1>4. ASSUME NEW got
      PROVE  LET q == [p EXCEPT !.got = got] IN
             /\ MayReport(q) /\ q.calls = p.calls /\ q.number = p.number
             /\ q.kind = p.kind /\ q.applied = p.applied /\ q.panels = p.panels
             /\ q.controller = p.controller /\ q.aborts = p.aborts
  <2> DEFINE q == [p EXCEPT !.got = got]
  <2>1. /\ IsView(q) /\ q.calls = p.calls /\ q.number = p.number
        /\ q.kind = p.kind /\ q.applied = p.applied /\ q.panels = p.panels
        /\ q.controller = p.controller /\ q.aborts = p.aborts
    BY <1>1 DEF MayReport, IsView, ViewFields
  <2> HIDE DEF q
  <2>2. AsksForReports(q) /\ PanelsAgree(q)
    BY <1>1, <2>1 DEF MayReport, AsksForReports, PanelsAgree
  <2> QED
    BY <1>1, <2>1, <2>2 DEF q, MayReport
<1>5. CASE \E other \in p.calls : other.number = c.number
  <2> DEFINE got == p.got \cup {c}
             q == [p EXCEPT !.got = got]
  <2>1. W!OperationsAnswered(p, c) = q
    BY <1>5 DEF W!OperationsAnswered
  <2> HIDE DEF got
  <2>2. /\ MayReport(q) /\ q.calls = p.calls /\ q.number = p.number
        /\ q.applied = p.applied /\ q.panels = p.panels
    BY <1>4
  <2> HIDE DEF q
  <2>3. CASE c.number = v.number
    <3>1. PICK other \in p.calls : other.number = c.number
      BY <1>5
    <3>2. other.op # "assignees"
      BY <1>1, <1>2, <1>3, <3>1
    <3> QED
      BY <1>1, <2>1, <2>2, <2>3, <3>1, <3>2 DEF IsReport, MayReport, ReportComes
  <2>4. CASE c.number # v.number
    BY <1>1, <2>1, <2>2, <2>4 DEF IsReport, MayReport, ReportComes
  <2> QED
    BY <2>3, <2>4
<1>6. CASE \A other \in p.calls : other.number # c.number
  <2> DEFINE got == {g \in p.got : g.number # c.number}
             q == [p EXCEPT !.got = got]
  <2>1. W!OperationsAnswered(p, c) =
          IF ~W!IsCurrentRequest(p, c.number) THEN q
          ELSE [W!RenderOperations([q EXCEPT !.report = c.of, !.budget = c.of])
                  EXCEPT !.status = "ok", !.controller = 0]
    BY <1>6 DEF W!OperationsAnswered
  <2> HIDE DEF got
  <2>2. /\ MayReport(q) /\ q.calls = p.calls /\ q.number = p.number /\ q.kind = p.kind
        /\ q.applied = p.applied /\ q.panels = p.panels
    BY <1>4
  <2>3. W!IsCurrentRequest(q, c.number) <=> W!IsCurrentRequest(p, c.number)
    BY <1>4 DEF W!IsCurrentRequest
  <2> HIDE DEF q
  <2>4. CASE ~W!IsCurrentRequest(p, c.number)
    <3>1. c.number # v.number
      BY <1>1, <1>2, <1>3, <2>4 DEF W!IsCurrentRequest
    <3> QED
      BY <1>1, <2>1, <2>2, <2>4, <3>1 DEF IsReport, MayReport, ReportComes
  <2>5. CASE W!IsCurrentRequest(p, c.number)
    <3> DEFINE panels == [[q.panels EXCEPT !.period = c.of, !.counts = c.of]
                            EXCEPT !.alerts = c.of, !.budget = c.of]
               r == [q EXCEPT !.report = c.of, !.budget = c.of, !.panels = panels,
                              !.status = "ok", !.controller = 0]
    <3>1. c.number = v.number /\ c.of = v.applied
      BY <1>1, <1>2, <1>3, <2>5 DEF W!IsCurrentRequest
    <3>2. W!OperationsAnswered(p, c) = r
      <4>1. q = [f \in ViewFields |-> q[f]]
        BY <2>2 DEF MayReport, IsView
      <4>2. q.panels = [panel \in PanelNames |-> q.panels[panel]]
        BY <2>2 DEF MayReport, IsView
      <4>3. W!OperationsAnswered(p, c) =
              [W!RenderOperations([q EXCEPT !.report = c.of, !.budget = c.of])
                  EXCEPT !.status = "ok", !.controller = 0]
        BY <2>1, <2>5
      <4> QED
        BY <4>1, <4>2, <4>3
        DEF W!RenderOperations, W!RenderAlerts, W!RenderBudget, ViewFields, PanelNames
    <3>3. /\ panels = [panel \in PanelNames |-> panels[panel]]
          /\ \A panel \in PanelNames : panels[panel] = c.of
      BY <2>2 DEF MayReport, IsView, PanelNames
    <3>4. panels.counts = c.of
      BY <3>3 DEF PanelNames
    <3>5. \A d \in q.calls : d.number # q.number
      BY <1>1, <1>6, <2>2, <3>1
    <3> HIDE DEF panels
    <3>6. /\ panels.counts = q.applied
          /\ \A panel \in PanelNames : panels[panel] = panels.counts
      BY <1>1, <2>2, <3>1, <3>3, <3>4
    <3>7. IsReport(r)
      BY <2>2, <3>3, <3>5, <3>6, ReportStands
    <3> QED
      BY <3>2, <3>7
  <2> QED
    BY <2>4, <2>5
<1> QED
  BY <1>5, <1>6

LEMMA ReportFails ==
    ASSUME NEW v, IsReport(v), NEW c \in v.calls, c.op # "assignees"
    PROVE  IsReport(W!ReportFailed([v EXCEPT !.calls = @ \ {c}], c))
<1> DEFINE p == [v EXCEPT !.calls = @ \ {c}]
           some == {d \in p.calls : d.number # c.number}
           got == {d \in p.got : d.number # c.number}
           rest == [p EXCEPT !.calls = some, !.got = got]
<1> SUFFICES IsReport(W!ReportFailed(p, c))
  OBVIOUS
<1>1. /\ MayReport(p) /\ p.calls = v.calls \ {c} /\ p.number = v.number
      /\ p.kind = v.kind /\ p.applied = v.applied /\ p.panels = v.panels
      /\ p.controller = v.controller /\ p.aborts = v.aborts
      /\ c.number # v.number => ReportComes(p)
  BY ReportCallEnds
<1>2. c.number = v.number => v.controller = IF v.aborts THEN v.number ELSE 0
  BY DEF IsReport, AsksForReports
<1>3. some \subseteq p.calls /\ \A d \in p.calls : d \notin some => d.number = c.number
  OBVIOUS
<1>4. \A d \in some : d.number # c.number
  OBVIOUS
<1>5. W!ReportFailed(p, c) =
        IF ~W!IsCurrentRequest(p, c.number) THEN rest
        ELSE [(IF p.kind = "performance" THEN W!RenderSalesPerformanceError(rest)
               ELSE W!RenderOperationsError(rest))
                EXCEPT !.status = "error", !.controller = 0]
  BY DEF W!ReportFailed
<1> HIDE DEF p, some, got
<1>6. /\ IsView(rest) /\ rest.calls = some /\ rest.number = p.number
      /\ rest.kind = p.kind /\ rest.applied = p.applied /\ rest.panels = p.panels
      /\ rest.controller = p.controller /\ rest.aborts = p.aborts
  BY <1>1 DEF MayReport, IsView, ViewFields
<1> HIDE DEF rest
<1>7. MayReport(rest)
  BY <1>1, <1>3, <1>6 DEF MayReport, AsksForReports, PanelsAgree
<1>8. CASE ~W!IsCurrentRequest(p, c.number)
  <2>1. c.number # v.number
    BY <1>1, <1>2, <1>8 DEF W!IsCurrentRequest
  <2>2. ReportComes(rest)
    BY <1>1, <1>3, <1>6, <2>1 DEF ReportComes
  <2> QED
    BY <1>5, <1>7, <1>8, <2>2 DEF IsReport, MayReport
<1>9. CASE W!IsCurrentRequest(p, c.number)
  <2>1. c.number = v.number
    BY <1>1, <1>9 DEF W!IsCurrentRequest
  <2>2. \A d \in rest.calls : d.number # rest.number
    BY <1>1, <1>4, <1>6, <2>1
  <2>3. rest = [f \in ViewFields |-> rest[f]]
    BY <1>6 DEF IsView
  <2>4. CASE p.kind = "performance"
    <3> DEFINE panels == [rest.panels EXCEPT !.counts = Nothing]
               r == [rest EXCEPT !.report = rest.report, !.budget = rest.budget,
                                 !.panels = panels, !.status = "error", !.controller = 0]
    <3>1. W!ReportFailed(p, c) = r
      BY <1>5, <1>9, <2>3, <2>4 DEF W!RenderSalesPerformanceError, ViewFields
    <3>2. panels = [panel \in PanelNames |-> panels[panel]] /\ panels.counts = Nothing
      BY <1>6 DEF IsView, PanelNames
    <3> HIDE DEF panels
    <3>3. IsReport(r)
      BY <1>6, <1>7, <2>2, <2>4, <3>2, ReportStands
    <3> QED
      BY <3>1, <3>3
  <2>5. CASE p.kind # "performance"
    <3> DEFINE panels == [panel \in DOMAIN rest.panels |-> Nothing]
               r == [rest EXCEPT !.report = Nothing, !.budget = Nothing,
                                 !.panels = panels, !.status = "error", !.controller = 0]
    <3>1. W!ReportFailed(p, c) = r
      BY <1>5, <1>9, <2>3, <2>5 DEF W!RenderOperationsError, ViewFields
    <3>2. DOMAIN rest.panels = PanelNames
      BY <1>6 DEF IsView
    <3>3. /\ panels = [panel \in PanelNames |-> panels[panel]]
          /\ \A panel \in PanelNames : panels[panel] = Nothing
      BY <3>2
    <3>4. panels.counts = Nothing
      BY <3>3 DEF PanelNames
    <3> HIDE DEF panels
    <3>5. IsReport(r)
      BY <1>6, <1>7, <2>2, <3>3, <3>4, ReportStands
    <3> QED
      BY <3>1, <3>5
  <2> QED
    BY <2>4, <2>5
<1> QED
  BY <1>8, <1>9

LEMMA AssigneesAside ==
    ASSUME NEW v, IsReport(v), NEW c \in v.calls, c.op = "assignees", NEW owners, NEW status
    PROVE  /\ IsReport([v EXCEPT !.calls = @ \ {c}, !.owners = owners])
           /\ IsReport([v EXCEPT !.calls = @ \ {c}, !.status = status])
<1> DEFINE some == v.calls \ {c}
           q == [v EXCEPT !.calls = some]
           r == [v EXCEPT !.calls = some, !.owners = owners]
           s == [v EXCEPT !.calls = some, !.status = status]
           Like(w) == /\ IsView(w) /\ w.calls = some /\ w.number = v.number
                      /\ w.kind = v.kind /\ w.applied = v.applied /\ w.panels = v.panels
                      /\ w.controller = v.controller /\ w.aborts = v.aborts
<1>1. MayReport(q) /\ Like(q) /\ ReportComes(q)
  <2>1. MayReport(q) /\ ReportComes(q)
    BY ReportCallEnds
  <2> HIDE DEF some
  <2>2. Like(q)
    BY DEF IsReport, IsView, ViewFields
  <2> QED
    BY <2>1, <2>2
<1> HIDE DEF some
<1>2. Like(r)
  BY DEF IsReport, IsView, ViewFields
<1>3. Like(s)
  BY DEF IsReport, IsView, ViewFields
<1> HIDE DEF q
<1>4. ASSUME NEW w, Like(w) PROVE IsReport(w)
  <2>1. IsView(w) /\ w.kind \in W!Reports
    BY <1>1, <1>4 DEF MayReport
  <2>2. AsksForReports(w)
    BY <1>1, <1>4 DEF MayReport, AsksForReports
  <2>3. PanelsAgree(w) /\ ReportComes(w)
    BY <1>1, <1>4 DEF MayReport, PanelsAgree, ReportComes
  <2> QED
    BY <2>1, <2>2, <2>3 DEF IsReport
<1>5. IsReport(r) /\ IsReport(s)
  BY <1>2, <1>3, <1>4
<1> QED
  BY <1>5 DEF some

\* What is neither a number of a page nor a row may change on a list.
LEMMA ListPageKeeps ==
    ASSUME NEW v, IsList(v), NEW filters, NEW turn \in Nat
    PROVE  IsList([v EXCEPT !.filters = filters, !.page = turn])
<1> DEFINE q == [v EXCEPT !.filters = filters, !.page = turn]
<1>1. /\ IsView(q) /\ q.kind = v.kind /\ q.calls = v.calls /\ q.page = turn
      /\ q.pages = v.pages /\ q.label = v.label /\ q.previous = v.previous
      /\ q.rows = v.rows
  BY DEF IsList, IsView, ViewFields
<1> HIDE DEF q
<1>2. AsksForLists(q) /\ RowsAreLabelled(q)
  BY <1>1 DEF IsList, AsksForLists, RowsAreLabelled
<1> QED
  BY <1>1, <1>2 DEF q, IsList

LEMMA LoadListKeeps ==
    ASSUME NEW v, IsList(v) PROVE IsList(W!LoadList(v))
<1> DEFINE d == W!Call("list", 0, W!Asked(v))
           some == v.calls \cup {d}
           q == [v EXCEPT !.status = "loading", !.calls = some]
           r == [v EXCEPT !.status = "loading", !.rows = Nothing, !.calls = some]
<1>1. W!LoadList(v) \in {q, r}
  BY DEF W!LoadList, W!LoadToday, W!LoadReplies
<1>2. d.op = "list" /\ d.of.page = v.page
  BY DEF W!Call, W!Asked
<1> HIDE DEF d
<1>3. \A c \in some : c \in v.calls \/ c = d
  OBVIOUS
<1> HIDE DEF some
<1>4. /\ IsView(q) /\ q.kind = v.kind /\ q.calls = some /\ q.page = v.page
      /\ q.pages = v.pages /\ q.label = v.label /\ q.previous = v.previous
      /\ q.rows = v.rows
  BY DEF IsList, IsView, ViewFields
<1>5. /\ IsView(r) /\ r.kind = v.kind /\ r.calls = some /\ r.page = v.page
      /\ r.pages = v.pages /\ r.label = v.label /\ r.previous = v.previous
      /\ r.rows = Nothing
  BY DEF IsList, IsView, ViewFields
<1> HIDE DEF q, r
<1>6. IsList(q)
  <2>1. AsksForLists(q) /\ RowsAreLabelled(q)
    BY <1>2, <1>3, <1>4 DEF IsList, AsksForLists, RowsAreLabelled
  <2> QED
    BY <1>4, <2>1 DEF IsList
<1>7. IsList(r)
  <2>1. AsksForLists(r) /\ RowsAreLabelled(r)
    BY <1>2, <1>3, <1>5 DEF IsList, AsksForLists, RowsAreLabelled
  <2> QED
    BY <1>5, <2>1 DEF IsList
<1> QED
  BY <1>1, <1>6, <1>7

\* Rows are written with the number of their page.
LEMMA PaginationLabels ==
    ASSUME NEW v, IsView(v), v.kind \in W!Lists, AsksForLists(v),
           v.page \in Nat, v.pages \in Nat \ {0}, v.rows # Nothing => v.page = v.rows.page
    PROVE  IsList(W!UpdatePagination(v))
<1> DEFINE back == (v.page > 1)
           on == (v.page < v.pages)
           q == [v EXCEPT !.label = v.page, !.previous = back, !.next = on]
<1>1. W!UpdatePagination(v) = q
  BY DEF W!UpdatePagination
<1>2. back = (v.page > 1)
  OBVIOUS
<1> HIDE DEF back, on
<1>3. /\ IsView(q) /\ q.kind = v.kind /\ q.calls = v.calls /\ q.page = v.page
      /\ q.pages = v.pages /\ q.label = v.page /\ q.previous = back /\ q.rows = v.rows
  BY DEF IsView, ViewFields
<1> HIDE DEF q
<1>4. AsksForLists(q) /\ RowsAreLabelled(q)
  BY <1>2, <1>3 DEF AsksForLists, RowsAreLabelled
<1> QED
  BY <1>1, <1>3, <1>4 DEF IsList

LEMMA ListAnsweredKeeps ==
    ASSUME NEW v, IsList(v), NEW c \in v.calls, NEW pages \in Nat \ {0}
    PROVE  /\ IsList(W!ListAnswered([v EXCEPT !.calls = @ \ {c}], c, pages))
           /\ IsList(W!ListFailed([v EXCEPT !.calls = @ \ {c}]))
<1> DEFINE some == v.calls \ {c}
           p == [v EXCEPT !.calls = some]
<1> SUFFICES IsList(W!ListAnswered(p, c, pages)) /\ IsList(W!ListFailed(p))
  OBVIOUS
<1>1. some \subseteq v.calls /\ c.of.page \in Nat
  BY DEF IsList, AsksForLists
<1> HIDE DEF some
<1>2. /\ IsView(p) /\ p.kind = v.kind /\ p.calls = some /\ p.page = v.page
      /\ p.pages = v.pages /\ p.label = v.label /\ p.previous = v.previous
      /\ p.rows = v.rows
  BY DEF IsList, IsView, ViewFields
<1> HIDE DEF p
<1>3. IsList(W!ListAnswered(p, c, pages))
  <2> DEFINE turn == c.of.page
             q == [p EXCEPT !.pages = pages, !.page = turn, !.status = "ok"]
             r == [q EXCEPT !.rows = c.of]
  <2>1. W!ListAnswered(p, c, pages) = W!UpdatePagination(r)
    BY DEF W!ListAnswered, W!RenderToday, W!RenderReplies
  <2> HIDE DEF turn
  <2>2. IsView(q) /\ q.kind = v.kind /\ q.calls = some /\ q.page = turn /\ q.pages = pages
    BY <1>2 DEF IsView, ViewFields
  <2> HIDE DEF q
  <2>3. /\ IsView(r) /\ r.kind = v.kind /\ r.calls = some /\ r.page = turn
        /\ r.pages = pages /\ r.rows = c.of
    BY <2>2 DEF IsView, ViewFields
  <2> HIDE DEF r
  <2>4. AsksForLists(r) /\ r.page \in Nat /\ r.page = r.rows.page /\ r.kind \in W!Lists
    BY <1>1, <2>3 DEF turn, IsList, AsksForLists
  <2> QED
    BY <2>1, <2>3, <2>4, PaginationLabels
<1>4. IsList(W!ListFailed(p))
  <2> DEFINE q == [p EXCEPT !.rows = Nothing, !.status = "error"]
             r == [p EXCEPT !.rows = Nothing, !.pages = 1, !.status = "error"]
  <2>1. W!ListFailed(p) \in {q, W!UpdatePagination(r)}
    BY DEF W!ListFailed, W!TodayFailed, W!RepliesFailed
  <2>2. /\ IsView(q) /\ q.kind = v.kind /\ q.calls = some /\ q.page = v.page
        /\ q.pages = v.pages /\ q.label = v.label /\ q.previous = v.previous
        /\ q.rows = Nothing
    BY <1>2 DEF IsView, ViewFields
  <2>3. /\ IsView(r) /\ r.kind = v.kind /\ r.calls = some /\ r.page = v.page
        /\ r.pages = 1 /\ r.rows = Nothing
    BY <1>2 DEF IsView, ViewFields
  <2> HIDE DEF q, r
  <2>4. IsList(q)
    <3>1. AsksForLists(q) /\ RowsAreLabelled(q)
      BY <1>1, <2>2 DEF IsList, AsksForLists, RowsAreLabelled
    <3> QED
      BY <2>2, <3>1 DEF IsList
  <2>5. IsList(W!UpdatePagination(r))
    <3>1. AsksForLists(r) /\ r.page \in Nat /\ r.kind \in W!Lists
      BY <1>1, <2>3 DEF IsList, AsksForLists, RowsAreLabelled
    <3> QED
      BY <2>3, <3>1, PaginationLabels
  <2> QED
    BY <2>1, <2>4, <2>5
<1> QED
  BY <1>3, <1>4

LEMMA ViewBegins == W!Init => ViewIsSound
<1> SUFFICES ASSUME W!Init PROVE ViewIsSound
  OBVIOUS
<1>1. PICK kind \in W!Reports \cup W!Lists, aborts \in BOOLEAN :
         view = IF kind = "performance"
                THEN W!LoadSalesPerformance(W!LoadAssignees(W!Opened(kind, aborts)))
                ELSE IF kind = "operations" THEN W!LoadOperations(W!Opened(kind, aborts))
                ELSE W!LoadList(W!Opened(kind, aborts))
  BY DEF W!Init
<1> DEFINE v == W!Opened(kind, aborts)
           d == W!Call("assignees", 0, Nothing)
           some == {d}
           q == [v EXCEPT !.calls = some]
<1>2. /\ IsView(v) /\ v.kind = kind /\ v.calls = {} /\ v.page = 1 /\ v.pages = 1
      /\ v.label = 1 /\ v.previous = FALSE /\ v.rows = Nothing
      /\ v.panels = [panel \in PanelNames |-> Nothing]
  BY DEF W!Opened, IsView, ViewFields, PanelNames
<1>3. d.op = "assignees" /\ d.number = 0
  BY DEF W!Call
<1> HIDE DEF v, d
<1>4. CASE kind = "performance"
  <2>1. W!LoadAssignees(v) = [v EXCEPT !.calls = {} \cup {d}]
    BY <1>2 DEF W!LoadAssignees, d
  <2>2. W!LoadAssignees(v) = q
    <3>1. {} \cup {d} = some
      OBVIOUS
    <3> QED
      BY <2>1, <3>1
  <2> HIDE DEF some
  <2>3. IsView(q) /\ q.kind = kind /\ q.calls = some
    BY <1>2 DEF IsView, ViewFields
  <2> HIDE DEF q
  <2>4. AsksForReports(q) /\ PanelsAgree(q) /\ q.kind \in W!Reports
    BY <1>3, <1>4, <2>3 DEF some, AsksForReports, PanelsAgree, W!Reports
  <2>5. IsReport(W!LoadSalesPerformance(q))
    BY <1>4, <2>3, <2>4, LoadReports DEF MayReport
  <2> QED
    BY <1>1, <1>4, <2>2, <2>5 DEF ViewIsSound, v
<1>5. CASE kind = "operations"
  <2>1. AsksForReports(v) /\ v.kind \in W!Reports
    BY <1>2, <1>5 DEF AsksForReports, W!Reports
  <2>2. PanelsAgree(v)
    BY <1>2 DEF PanelsAgree, PanelNames
  <2>3. IsReport(W!LoadOperations(v))
    BY <1>2, <1>5, <2>1, <2>2, LoadReports DEF MayReport
  <2> QED
    BY <1>1, <1>5, <2>3 DEF ViewIsSound, v
<1>6. CASE kind \notin {"performance", "operations"}
  <2>1. AsksForLists(v) /\ v.kind \in W!Lists
    BY <1>2, <1>6 DEF AsksForLists, W!Reports
  <2>2. v.previous = (v.label > 1)
    <3>1. FALSE = (1 > 1)
      OBVIOUS
    <3>2. v.previous = FALSE /\ v.label = 1
      BY <1>2
    <3> QED
      BY <3>1, <3>2, Zenon
  <2>3. RowsAreLabelled(v)
    BY <1>2, <2>2 DEF RowsAreLabelled
  <2>4. IsList(W!LoadList(v))
    BY <1>2, <2>1, <2>3, LoadListKeeps DEF IsList
  <2> QED
    BY <1>1, <1>6, <2>4 DEF ViewIsSound, v
<1> QED
  BY <1>4, <1>5, <1>6

\* The page of a report and the page of a list have nothing in common.
LEMMA ViewStep == ViewIsSound /\ [W!Next]_viewVars => ViewIsSound'
<1> SUFFICES ASSUME ViewIsSound, [W!Next]_viewVars PROVE ViewIsSound'
  OBVIOUS
<1>1. ~(view.kind \in W!Reports /\ view.kind \in W!Lists)
  BY DEF W!Reports, W!Lists
<1>2. CASE UNCHANGED viewVars
  BY <1>2 DEF viewVars, ViewIsSound
<1>3. CASE \E f \in Filters : W!SetFilters(f)
  <2>1. PICK f \in Filters : view' = [view EXCEPT !.filters = f] /\ view.kind \in W!Reports
    BY <1>3 DEF W!SetFilters
  <2> DEFINE q == [view EXCEPT !.filters = f]
  <2>2. IsReport(view)
    BY <1>1, <2>1 DEF ViewIsSound, IsList
  <2>3. /\ IsView(q) /\ q.calls = view.calls /\ q.number = view.number
        /\ q.kind = view.kind /\ q.applied = view.applied /\ q.panels = view.panels
        /\ q.controller = view.controller /\ q.aborts = view.aborts
    BY <2>2 DEF IsReport, IsView, ViewFields
  <2>4. view' = q
    BY <2>1
  <2> HIDE DEF q
  <2>5. AsksForReports(q) /\ ReportComes(q) /\ PanelsAgree(q)
    BY <2>2, <2>3 DEF IsReport, AsksForReports, ReportComes, PanelsAgree
  <2> QED
    BY <2>1, <2>3, <2>4, <2>5 DEF ViewIsSound, IsReport
<1>4. CASE \E f \in Filters : W!ChangeFilter(f)
  <2>1. PICK f \in Filters : /\ view' = W!LoadList([view EXCEPT !.filters = f, !.page = 1])
                             /\ view.kind = "replies"
    BY <1>4 DEF W!ChangeFilter
  <2>2. IsList(view)
    BY <1>1, <2>1 DEF ViewIsSound, IsReport, W!Lists
  <2>3. IsList([view EXCEPT !.filters = f, !.page = 1])
    BY <2>2, ListPageKeeps
  <2> QED
    BY <2>1, <2>3, LoadListKeeps DEF ViewIsSound
<1>5. CASE W!ApplyFilters
  <2>1. view' = W!Load(view) /\ view.kind \in W!Reports
    BY <1>5 DEF W!ApplyFilters
  <2>2. MayReport(view)
    BY <1>1, <2>1 DEF ViewIsSound, IsList, IsReport, MayReport
  <2> QED
    BY <2>1, <2>2, LoadReports DEF W!Load, W!Reports, ViewIsSound
<1>6. CASE \E forward \in BOOLEAN : W!TurnPage(forward)
  <2>1. PICK forward \in BOOLEAN :
           /\ view' = W!ChangePage(view, IF forward THEN view.page + 1 ELSE view.page - 1)
           /\ view.kind \in W!Lists
    BY <1>6 DEF W!TurnPage
  <2> DEFINE turn == IF forward THEN view.page + 1 ELSE view.page - 1
             clamped == IF turn < 1 THEN 1 ELSE IF turn > view.pages THEN view.pages ELSE turn
             q == [view EXCEPT !.page = clamped]
  <2>2. view' = W!LoadList(q)
    BY <2>1 DEF W!ChangePage
  <2>3. IsList(view)
    BY <1>1, <2>1 DEF ViewIsSound, IsReport
  <2>4. view.page \in Nat /\ view.pages \in Nat \ {0}
    BY <2>3 DEF IsList, RowsAreLabelled
  <2>5. clamped \in Nat
    <3>1. turn \in Int
      BY <2>4
    <3> HIDE DEF turn
    <3> QED
      BY <2>4, <3>1
  <2> HIDE DEF clamped
  <2>6. q = [view EXCEPT !.filters = view.filters, !.page = clamped]
    BY <2>3 DEF IsList, IsView, ViewFields
  <2>7. IsList([view EXCEPT !.filters = view.filters, !.page = clamped])
    BY <2>3, <2>5, ListPageKeeps
  <2> QED
    BY <2>2, <2>6, <2>7, LoadListKeeps DEF ViewIsSound
<1>7. CASE \E c \in view.calls : W!Answer(c)
  <2>1. PICK c \in view.calls, pages \in 1..ListPages :
           view' = LET v == [view EXCEPT !.calls = @ \ {c}] IN
                   CASE c.op = "assignees" -> W!AssigneesAnswered(v)
                     [] c.op = "list" -> W!ListAnswered(v, c, pages)
                     [] c.op # "assignees" /\ v.kind = "performance" ->
                          W!SalesPerformanceAnswered(v, c)
                     [] OTHER -> W!OperationsAnswered(v, c)
    BY <1>7 DEF W!Answer
  <2> DEFINE v == [view EXCEPT !.calls = @ \ {c}]
  <2>2. v.kind = view.kind
    BY DEF ViewIsSound, IsReport, IsList, IsView, ViewFields
  <2>3. CASE IsReport(view)
    <3>1. c.op # "list" /\ view.kind \in W!Reports
      <4>1. \A n, f : W!Call("list", n, f).op = "list"
        BY DEF W!Call
      <4> QED
        BY <2>3 DEF IsReport, AsksForReports
    <3>2. CASE c.op = "assignees"
      <4>1. view' = [view EXCEPT !.calls = @ \ {c}, !.owners = "shown"]
        <5>1. view' = W!AssigneesAnswered(v)
          BY <2>1, <3>1, <3>2, <2>2
        <5>2. view = [f \in ViewFields |-> view[f]]
          BY <2>3 DEF IsReport, IsView
        <5> QED
          BY <5>1, <5>2 DEF W!AssigneesAnswered, ViewFields
      <4> QED
        BY <2>3, <3>2, <4>1, AssigneesAside DEF ViewIsSound
    <3>3. CASE c.op # "assignees" /\ view.kind = "performance"
      <4>1. view' = W!SalesPerformanceAnswered(v, c)
        BY <2>1, <2>2, <3>1, <3>3
      <4> QED
        BY <2>3, <3>3, <4>1, PerformanceAnswers DEF ViewIsSound
    <3>4. CASE c.op # "assignees" /\ view.kind = "operations"
      <4>1. view' = W!OperationsAnswered(v, c)
        BY <2>1, <2>2, <3>1, <3>4
      <4> QED
        BY <2>3, <3>4, <4>1, OperationsAnswers DEF ViewIsSound
    <3> QED
      BY <3>1, <3>2, <3>3, <3>4 DEF W!Reports
  <2>4. CASE IsList(view)
    <3>1. c.op = "list" /\ view.kind \notin W!Reports /\ pages \in Nat \ {0}
      BY <1>1, <2>4 DEF IsList, AsksForLists
    <3>2. view' = W!ListAnswered(v, c, pages)
      BY <2>1, <2>2, <3>1 DEF W!Reports
    <3> QED
      BY <2>4, <3>1, <3>2, ListAnsweredKeeps DEF ViewIsSound
  <2> QED
    BY <2>3, <2>4 DEF ViewIsSound
<1>8. CASE \E c \in view.calls : W!Fail(c)
  <2>1. PICK c \in view.calls :
           view' = LET v == [view EXCEPT !.calls = @ \ {c}] IN
                   CASE c.op = "assignees" -> W!AssigneesFailed(v)
                     [] c.op = "list" -> W!ListFailed(v)
                     [] OTHER -> W!ReportFailed(v, c)
    BY <1>8 DEF W!Fail
  <2> DEFINE v == [view EXCEPT !.calls = @ \ {c}]
  <2>2. CASE IsReport(view)
    <3>1. c.op # "list"
      <4>1. \A n, f : W!Call("list", n, f).op = "list"
        BY DEF W!Call
      <4> QED
        BY <2>2 DEF IsReport, AsksForReports
    <3>2. CASE c.op = "assignees"
      <4>1. view' = [view EXCEPT !.calls = @ \ {c}, !.status = "error"]
        <5>1. view' = W!AssigneesFailed(v)
          BY <2>1, <3>2
        <5>2. view = [f \in ViewFields |-> view[f]]
          BY <2>2 DEF IsReport, IsView
        <5> QED
          BY <5>1, <5>2 DEF W!AssigneesFailed, ViewFields
      <4> QED
        BY <2>2, <3>2, <4>1, AssigneesAside DEF ViewIsSound
    <3>3. CASE c.op # "assignees"
      <4>1. view' = W!ReportFailed(v, c)
        BY <2>1, <3>1, <3>3
      <4> QED
        BY <2>2, <3>3, <4>1, ReportFails DEF ViewIsSound
    <3> QED
      BY <3>2, <3>3
  <2>3. CASE IsList(view)
    <3>1. c.op = "list"
      BY <2>3 DEF IsList, AsksForLists
    <3>2. view' = W!ListFailed(v)
      BY <2>1, <3>1
    <3> QED
      BY <2>3, <3>2, ListAnsweredKeeps DEF ViewIsSound
  <2> QED
    BY <2>2, <2>3 DEF ViewIsSound
<1> QED
  BY <1>2, <1>3, <1>4, <1>5, <1>6, <1>7, <1>8 DEF W!Next, viewVars

LEMMA ViewProperties ==
    ViewIsSound => W!ReportIsOfFilters /\ W!PanelsAreOfOneReport /\ W!RowsAreOfTheirPage
<1> SUFFICES ASSUME ViewIsSound
             PROVE  W!ReportIsOfFilters /\ W!PanelsAreOfOneReport /\ W!RowsAreOfTheirPage
  OBVIOUS
<1>1. W!ReportIsOfFilters
  BY DEF ViewIsSound, IsReport, IsList, ReportComes, W!ReportIsOfFilters, W!OnItsWay,
         W!Reports, W!Lists
<1>2. W!PanelsAreOfOneReport
  <2>1. view.kind = "operations" => IsReport(view) /\ DOMAIN view.panels = PanelNames
    BY DEF ViewIsSound, IsReport, IsList, IsView, W!Lists
  <2> QED
    BY <2>1 DEF W!PanelsAreOfOneReport, IsReport, PanelsAgree
<1>3. W!RowsAreOfTheirPage
  <2>1. view.kind \in W!Lists => RowsAreLabelled(view)
    BY DEF ViewIsSound, IsReport, IsList, W!Reports, W!Lists
  <2>2. view.kind \in W!Lists /\ view.label > view.pages => view.label > 1
    BY <2>1 DEF RowsAreLabelled
  <2>3. view.kind \in W!Lists /\ view.label > view.pages => view.previous
    BY <2>1, <2>2 DEF RowsAreLabelled
  <2>4. view.kind \in W!Lists /\ view.rows # Nothing => view.label = view.rows.page
    BY <2>1 DEF RowsAreLabelled
  <2> QED
    BY <2>3, <2>4 DEF W!RowsAreOfTheirPage
<1> QED
  BY <1>1, <1>2, <1>3

-----------------------------------------------------------------------------
(* Tracking: what each statement of a request keeps.                       *)

TrackClick == [link : Nat, reader : Readers, at : Nat]

TrackOpening == [reader : Readers, at : Nat]

TrackEvent == [link : Nat, count : Nat]

TrackStages == {"idle", "creating", "clicking", "counting", "telling", "opening"}

\* A request has what its stage goes on with.
IsTracking(q) ==
    /\ q = [f \in {"stage", "url", "label", "link", "reader", "count"} |-> q[f]]
    /\ q.stage \in TrackStages /\ q.link \in Nat /\ q.count \in Nat
    /\ q.stage = "creating" => q.url \in Links /\ q.label \in Labels
    /\ q.stage \in {"clicking", "opening"} => q.reader \in Readers

TrackTyping ==
    /\ hour \in Nat
    /\ links \in Seq(T!Link)
    /\ followed \in Seq(TrackClick) /\ opens \in Seq(TrackOpening)
    /\ events \in Seq(TrackEvent)
    /\ request = [r \in Requests |-> request[r]]
    /\ \A r \in Requests : IsTracking(request[r])

\* An earlier one is of this hour, or longer ago than the window is.
Apart(at, window) == at = hour \/ at + window < hour

\* A request that writes a click, or an opening, found no other of its reader within
\* the window; those it did not find were written since, in this hour.
FoundNone(q) ==
    /\ q.stage = "clicking" =>
         \A i \in DOMAIN followed :
           followed[i].link = q.link /\ followed[i].reader = q.reader
             => Apart(followed[i].at, ClickWindow)
    /\ q.stage = "opening" =>
         \A i \in DOMAIN opens :
           opens[i].reader = q.reader => Apart(opens[i].at, OpenWindow)

TrackTimes ==
    /\ T!CountedOnce
    /\ \A i \in DOMAIN followed : followed[i].at <= hour
    /\ \A i \in DOMAIN opens : opens[i].at <= hour
    /\ \A r \in Requests : FoundNone(request[r])

\* The rows of a link, and the requests that have written its click and will, if they
\* live, write its event.
RowsOf(s, k) == {i \in DOMAIN s : s[i].link = k}

Untold(k) == {r \in Requests : request[r].stage \in {"counting", "telling"} /\ request[r].link = k}

ToldOfClicks(k) ==
    /\ IsFiniteSet(Untold(k))
    /\ Cardinality(RowsOf(events, k)) + Cardinality(Untold(k)) <= Cardinality(RowsOf(followed, k))

CountsAreOfClicks ==
    /\ \A i \in DOMAIN events : events[i].count \in 1 .. Cardinality(RowsOf(followed, events[i].link))
    /\ \A r \in Requests :
         request[r].stage = "telling" =>
           request[r].count \in 1 .. Cardinality(RowsOf(followed, request[r].link))

TrackCounts == CountsAreOfClicks /\ \A k \in Nat : ToldOfClicks(k)

TrackIsSound == TrackTyping /\ TrackTimes /\ TrackCounts

LEMMA Appended ==
    ASSUME NEW X, NEW s \in Seq(X), NEW e \in X
    PROVE  /\ Append(s, e) \in Seq(X) /\ Len(s) \in Nat /\ DOMAIN s = 1 .. Len(s)
           /\ DOMAIN Append(s, e) = 1 .. (Len(s) + 1)
           /\ Append(s, e)[Len(s) + 1] = e
           /\ \A i \in 1 .. Len(s) : Append(s, e)[i] = s[i]
OBVIOUS

LEMMA RowsCounted ==
    ASSUME NEW X, NEW s \in Seq(X), NEW k
    PROVE  IsFiniteSet(RowsOf(s, k)) /\ Cardinality(RowsOf(s, k)) \in Nat
<1>1. IsFiniteSet(1 .. Len(s)) /\ RowsOf(s, k) \subseteq 1 .. Len(s)
  BY FS_Interval DEF RowsOf
<1> QED
  BY <1>1, FS_Subset, FS_CardinalityType

\* One row more is one more of its own link.
LEMMA RowsAppended ==
    ASSUME NEW X, NEW s \in Seq(X), NEW e \in X, NEW k
    PROVE  Cardinality(RowsOf(Append(s, e), k)) =
             Cardinality(RowsOf(s, k)) + IF e.link = k THEN 1 ELSE 0
<1>1. CASE e.link = k
  <2>1. RowsOf(Append(s, e), k) = RowsOf(s, k) \cup {Len(s) + 1} /\ Len(s) + 1 \notin RowsOf(s, k)
    BY <1>1, Appended DEF RowsOf
  <2> QED
    BY <1>1, <2>1, RowsCounted, FS_AddElement
<1>2. CASE e.link # k
  <2>1. RowsOf(Append(s, e), k) = RowsOf(s, k)
    BY <1>2, Appended DEF RowsOf
  <2> QED
    BY <1>2, <2>1, RowsCounted
<1> QED
  BY <1>1, <1>2

LEMMA TrackBegins == T!Init => TrackIsSound
<1> SUFFICES ASSUME T!Init PROVE TrackIsSound
  OBVIOUS
<1>1. TrackTyping
  BY DEF T!Init, TrackTyping, T!NoRequest, IsTracking, TrackStages
<1>2. TrackTimes
  BY DEF T!Init, TrackTimes, T!NoRequest, FoundNone, T!CountedOnce
<1>3. CountsAreOfClicks
  BY DEF T!Init, CountsAreOfClicks, T!NoRequest
<1>4. ASSUME NEW k \in Nat PROVE ToldOfClicks(k)
  <2>1. Untold(k) = {} /\ RowsOf(events, k) = {} /\ RowsOf(followed, k) = {}
    BY DEF T!Init, Untold, T!NoRequest, RowsOf
  <2> QED
    BY <2>1, FS_EmptySet DEF ToldOfClicks
<1> QED
  BY <1>1, <1>2, <1>3, <1>4 DEF TrackIsSound, TrackCounts

LEMMA SameCardinality == \A s : T!Cardinality(s) = Cardinality(s)
BY DEF T!Cardinality, Cardinality

\* A request goes on and writes nothing.
LEMMA RequestGoesOn ==
    ASSUME TrackIsSound, NEW r \in Requests, NEW q,
           request' = [request EXCEPT ![r] = q],
           UNCHANGED <<hour, followed, opens, events>>, links' \in Seq(T!Link),
           IsTracking(q), FoundNone(q),
           q.stage \in {"counting", "telling"} =>
             request[r].stage \in {"counting", "telling"} /\ q.link = request[r].link,
           q.stage = "telling" => q.count \in 1 .. Cardinality(RowsOf(followed, q.link))
    PROVE  TrackIsSound'
<1>1. request'[r] = q /\ \A s \in Requests \ {r} : request'[s] = request[s]
  BY DEF TrackIsSound, TrackTyping
<1>2. TrackTyping'
  BY <1>1 DEF TrackIsSound, TrackTyping
<1>3. TrackTimes'
  <2>1. \A s \in Requests : FoundNone(request[s])'
    BY <1>1 DEF TrackIsSound, TrackTimes, FoundNone, Apart
  <2> QED
    BY <2>1 DEF TrackIsSound, TrackTimes, T!CountedOnce
<1>4. CountsAreOfClicks'
  <2>1. CountsAreOfClicks
    BY DEF TrackIsSound, TrackCounts
  <2>2. \A i \in DOMAIN events : events'[i].count \in 1 .. Cardinality(RowsOf(followed', events'[i].link))
    BY <2>1 DEF CountsAreOfClicks
  <2>3. \A s \in Requests :
         request'[s].stage = "telling" =>
           request'[s].count \in 1 .. Cardinality(RowsOf(followed', request'[s].link))
    BY <1>1, <2>1 DEF CountsAreOfClicks
  <2> QED
    BY <2>2, <2>3 DEF CountsAreOfClicks
<1>5. ASSUME NEW k \in Nat PROVE ToldOfClicks(k)'
  <2>1. Untold(k)' \subseteq Untold(k)
    BY <1>1 DEF Untold
  <2>2. ToldOfClicks(k)
    BY DEF TrackIsSound, TrackCounts
  <2>3. /\ IsFiniteSet(Untold(k)') /\ Cardinality(Untold(k)') <= Cardinality(Untold(k))
        /\ Cardinality(Untold(k)') \in Nat /\ Cardinality(Untold(k)) \in Nat
    BY <2>1, <2>2, FS_Subset, FS_CardinalityType DEF ToldOfClicks
  <2>4. Cardinality(RowsOf(events, k)) \in Nat /\ Cardinality(RowsOf(followed, k)) \in Nat
    BY RowsCounted DEF TrackIsSound, TrackTyping
  <2> QED
    BY <2>2, <2>3, <2>4 DEF ToldOfClicks, RowsOf
<1> QED
  BY <1>2, <1>3, <1>4, <1>5 DEF TrackIsSound, TrackCounts

LEMMA RequestBegins ==
    TrackIsSound /\ (\E r \in Requests :
      \/ \E url \in Links, label \in Labels : T!CreateTrackedLink(r, url, label)
      \/ \E k \in DOMAIN links, reader \in Readers : T!ResolveClick(r, k, reader)
      \/ \E reader \in Readers : T!TrackOpen(r, reader)) => TrackIsSound'
<1> SUFFICES ASSUME TrackIsSound, NEW r \in Requests,
      \/ \E url \in Links, label \in Labels : T!CreateTrackedLink(r, url, label)
      \/ \E k \in DOMAIN links, reader \in Readers : T!ResolveClick(r, k, reader)
      \/ \E reader \in Readers : T!TrackOpen(r, reader)
    PROVE  TrackIsSound'
  OBVIOUS
<1>0. links \in Seq(T!Link)
  BY DEF TrackIsSound, TrackTyping
<1>1. ASSUME NEW url \in Links, NEW label \in Labels, T!CreateTrackedLink(r, url, label)
      PROVE  TrackIsSound'
  <2> DEFINE q == [T!NoRequest EXCEPT !.stage = "creating", !.url = url, !.label = label]
  <2>1. IsTracking(q) /\ q.stage = "creating"
    BY DEF T!NoRequest, IsTracking, TrackStages
  <2>2. request' = [request EXCEPT ![r] = q] /\ UNCHANGED <<hour, links, followed, opens, events>>
    BY <1>1 DEF T!CreateTrackedLink, T!Begin
  <2> HIDE DEF q
  <2> QED
    BY <1>0, <2>1, <2>2, RequestGoesOn DEF FoundNone
<1>2. ASSUME NEW k \in DOMAIN links, NEW reader \in Readers, T!ResolveClick(r, k, reader)
      PROVE  TrackIsSound'
  <2> DEFINE q == [T!NoRequest EXCEPT !.stage = "clicking", !.link = k, !.reader = reader]
  <2>1. k \in Nat
    BY DEF TrackIsSound, TrackTyping
  <2>2. IsTracking(q) /\ q.stage = "clicking" /\ q.link = k /\ q.reader = reader
    BY <2>1 DEF T!NoRequest, IsTracking, TrackStages
  <2>3. request' = [request EXCEPT ![r] = q] /\ UNCHANGED <<hour, links, followed, opens, events>>
    BY <1>2 DEF T!ResolveClick, T!Begin
  <2> HIDE DEF q
  <2>4. ASSUME NEW i \in DOMAIN followed, followed[i].link = k, followed[i].reader = reader
        PROVE  Apart(followed[i].at, ClickWindow)
    <3>1. ~(followed[i].at + ClickWindow >= hour)
      BY <1>2, <2>4 DEF T!ResolveClick, T!Counted
    <3>2. followed[i] \in TrackClick /\ hour \in Nat
      BY DEF TrackIsSound, TrackTyping
    <3>3. followed[i].at \in Nat
      BY <3>2 DEF TrackClick
    <3> QED
      BY <3>1, <3>2, <3>3, WindowsAreSpans DEF Apart
  <2>5. FoundNone(q)
    BY <2>2, <2>4 DEF FoundNone
  <2> QED
    BY <1>0, <2>2, <2>3, <2>5, RequestGoesOn
<1>3. ASSUME NEW reader \in Readers, T!TrackOpen(r, reader)
      PROVE  TrackIsSound'
  <2> DEFINE q == [T!NoRequest EXCEPT !.stage = "opening", !.reader = reader]
  <2>2. IsTracking(q) /\ q.stage = "opening" /\ q.reader = reader
    BY DEF T!NoRequest, IsTracking, TrackStages
  <2>3. request' = [request EXCEPT ![r] = q] /\ UNCHANGED <<hour, links, followed, opens, events>>
    BY <1>3 DEF T!TrackOpen, T!Begin
  <2> HIDE DEF q
  <2>4. ASSUME NEW i \in DOMAIN opens, opens[i].reader = reader
        PROVE  Apart(opens[i].at, OpenWindow)
    <3>1. ~(opens[i].at + OpenWindow >= hour)
      BY <1>3, <2>4 DEF T!TrackOpen, T!Opened
    <3>2. opens[i] \in TrackOpening /\ hour \in Nat
      BY DEF TrackIsSound, TrackTyping
    <3>3. opens[i].at \in Nat
      BY <3>2 DEF TrackOpening
    <3> QED
      BY <3>1, <3>2, <3>3, WindowsAreSpans DEF Apart
  <2>5. FoundNone(q)
    BY <2>2, <2>4 DEF FoundNone
  <2> QED
    BY <1>0, <2>2, <2>3, <2>5, RequestGoesOn
<1> QED
  BY <1>1, <1>2, <1>3

\* A link is created, a count is read, a request dies.
LEMMA RequestAside ==
    TrackIsSound /\ (\E r \in Requests : T!InsertLink(r) \/ T!CountClicks(r) \/ T!Die(r))
      => TrackIsSound'
<1> SUFFICES ASSUME TrackIsSound, NEW r \in Requests,
      T!InsertLink(r) \/ T!CountClicks(r) \/ T!Die(r)
    PROVE  TrackIsSound'
  OBVIOUS
<1>0. /\ IsTracking(T!NoRequest) /\ FoundNone(T!NoRequest) /\ T!NoRequest.stage = "idle"
      /\ links \in Seq(T!Link)
  BY DEF T!NoRequest, IsTracking, TrackStages, FoundNone, TrackIsSound, TrackTyping
<1>1. CASE T!Die(r)
  BY <1>0, <1>1, RequestGoesOn DEF T!Die, T!End
<1>2. CASE T!CountClicks(r)
  <2> DEFINE n == Cardinality(RowsOf(followed, request[r].link))
             q == [request[r] EXCEPT !.stage = "telling", !.count = n]
  <2>1. request[r].stage = "counting" /\ IsTracking(request[r])
    BY <1>2 DEF T!CountClicks, T!At, TrackIsSound, TrackTyping
  <2>2. n \in 1 .. n
    <3> DEFINE k == request[r].link
    <3>1. r \in Untold(k) /\ k \in Nat
      BY <2>1 DEF Untold, IsTracking
    <3>2. ToldOfClicks(k)
      BY <3>1 DEF TrackIsSound, TrackCounts
    <3>3. Cardinality(Untold(k)) \in Nat /\ Cardinality(Untold(k)) # 0
      BY <3>1, <3>2, FS_CardinalityType, FS_EmptySet DEF ToldOfClicks
    <3>4. Cardinality(RowsOf(events, k)) \in Nat /\ n \in Nat
      BY RowsCounted DEF TrackIsSound, TrackTyping
    <3> QED
      BY <3>2, <3>3, <3>4 DEF ToldOfClicks
  <2>3. n \in Nat
    BY RowsCounted DEF TrackIsSound, TrackTyping
  <2>4. request' = [request EXCEPT ![r] = q] /\ UNCHANGED <<hour, links, followed, opens, events>>
    <3>1. T!Cardinality(T!ClicksOf(request[r].link)) = n
      BY SameCardinality DEF T!ClicksOf, RowsOf
    <3> HIDE DEF n
    <3>2. request' = [request EXCEPT ![r].stage = "telling", ![r].count = n]
      BY <1>2, <3>1 DEF T!CountClicks
    <3> QED
      BY <1>2, <2>1, <3>2 DEF T!CountClicks, TrackIsSound, TrackTyping
  <2> HIDE DEF n
  <2>6. IsTracking(q) /\ q.stage = "telling" /\ q.link = request[r].link /\ q.count = n
    BY <2>1, <2>3 DEF IsTracking, TrackStages
  <2>5. FoundNone(q)
    BY <2>6 DEF FoundNone
  <2> HIDE DEF q
  <2> QED
    BY <1>0, <2>1, <2>2, <2>4, <2>5, <2>6, RequestGoesOn DEF n
<1>3. CASE T!InsertLink(r)
  <2> DEFINE e == [url |-> request[r].url, label |-> request[r].label]
  <2>1. /\ request' = [request EXCEPT ![r] = T!NoRequest] /\ links' = Append(links, e)
        /\ UNCHANGED <<hour, followed, opens, events>>
    BY <1>3 DEF T!InsertLink, T!End
  <2>2. e \in T!Link
    BY <1>3 DEF T!InsertLink, T!At, TrackIsSound, TrackTyping, IsTracking, T!Link
  <2>3. links' \in Seq(T!Link)
    BY <2>1, <2>2, Appended DEF TrackIsSound, TrackTyping
  <2> HIDE DEF e
  <2> QED
    BY <1>0, <2>1, <2>3, RequestGoesOn
<1> QED
  BY <1>1, <1>2, <1>3

\* A click is written: no other of its reader is nearer, but of this hour.
LEMMA ClickWritten ==
    TrackIsSound /\ (\E r \in Requests : T!InsertClick(r)) => TrackIsSound'
<1> SUFFICES ASSUME TrackIsSound, NEW r \in Requests, T!InsertClick(r) PROVE TrackIsSound'
  OBVIOUS
<1> DEFINE e == [link |-> request[r].link, reader |-> request[r].reader, at |-> hour]
           q == [request[r] EXCEPT !.stage = "counting"]
<1>1. IsTracking(request[r]) /\ request[r].stage = "clicking" /\ FoundNone(request[r])
  BY DEF T!InsertClick, T!At, TrackIsSound, TrackTyping, TrackTimes
<1>2. /\ request' = [request EXCEPT ![r] = q] /\ followed' = Append(followed, e)
      /\ UNCHANGED <<hour, links, opens, events>>
  BY DEF T!InsertClick, TrackIsSound, TrackTyping
<1>3. /\ IsTracking(q) /\ q.stage = "counting" /\ q.link = request[r].link
      /\ e \in TrackClick /\ e.link = request[r].link /\ e.reader = request[r].reader /\ e.at = hour
  BY <1>1 DEF IsTracking, TrackStages, TrackClick, TrackIsSound, TrackTyping
<1> HIDE DEF e, q
<1>4. /\ request'[r] = q /\ \A s \in Requests \ {r} : request'[s] = request[s]
      /\ request' = [s \in Requests |-> request'[s]]
  BY <1>2 DEF TrackIsSound, TrackTyping
<1>5. followed \in Seq(TrackClick) /\ events \in Seq(TrackEvent) /\ hour \in Nat
  BY DEF TrackIsSound, TrackTyping
<1>6. /\ followed' \in Seq(TrackClick) /\ Len(followed) \in Nat
      /\ DOMAIN followed = 1 .. Len(followed) /\ DOMAIN followed' = 1 .. (Len(followed) + 1)
      /\ followed'[Len(followed) + 1] = e
      /\ \A i \in 1 .. Len(followed) : followed'[i] = followed[i]
  BY <1>2, <1>3, <1>5, Appended
<1>7. TrackTyping'
  BY <1>2, <1>3, <1>4, <1>6 DEF TrackIsSound, TrackTyping
<1>8. TrackTimes'
  <2>1. T!CountedOnce
    BY DEF TrackIsSound, TrackTimes
  <2>2. ASSUME NEW i \in DOMAIN followed', NEW j \in DOMAIN followed', i < j,
               followed'[i].link = followed'[j].link, followed'[i].reader = followed'[j].reader
        PROVE  followed'[j].at = followed'[i].at \/ followed'[j].at > followed'[i].at + ClickWindow
    <3>1. i \in 1 .. Len(followed) /\ followed'[i] = followed[i] /\ i \in DOMAIN followed
      BY <1>6, <2>2
    <3>2. CASE j = Len(followed) + 1
      <4>1. Apart(followed[i].at, ClickWindow)
        BY <1>1, <1>3, <1>6, <2>2, <3>1, <3>2 DEF FoundNone
      <4>2. followed[i] \in TrackClick
        BY <1>5, <3>1
      <4>3. followed[i].at \in Nat
        BY <4>2 DEF TrackClick
      <4> QED
        BY <1>3, <1>5, <1>6, <3>1, <3>2, <4>1, <4>3, WindowsAreSpans DEF Apart
    <3>3. CASE j # Len(followed) + 1
      <4>1. j \in DOMAIN followed /\ followed'[j] = followed[j]
        BY <1>6, <3>3
      <4> QED
        BY <2>1, <2>2, <3>1, <4>1 DEF T!CountedOnce
    <3> QED
      BY <3>2, <3>3
  <2>3. T!CountedOnce'
    BY <1>2, <2>1, <2>2 DEF T!CountedOnce
  <2>4. \A i \in DOMAIN followed' : followed'[i].at <= hour
    BY <1>3, <1>5, <1>6 DEF TrackIsSound, TrackTimes
  <2>5. ASSUME NEW s \in Requests PROVE FoundNone(request[s])'
    <3>1. FoundNone(request[s])
      BY DEF TrackIsSound, TrackTimes
    <3>2. CASE s = r
      BY <1>3, <1>4, <3>2 DEF FoundNone
    <3>3. CASE s # r
      BY <1>2, <1>3, <1>4, <1>6, <3>1, <3>3 DEF FoundNone, Apart
    <3> QED
      BY <3>2, <3>3
  <2> QED
    BY <1>2, <2>3, <2>4, <2>5 DEF TrackIsSound, TrackTimes
<1>9. \A k : /\ Cardinality(RowsOf(followed', k)) =
                 Cardinality(RowsOf(followed, k)) + IF e.link = k THEN 1 ELSE 0
             /\ Cardinality(RowsOf(followed, k)) \in Nat
  BY <1>2, <1>3, <1>5, RowsAppended, RowsCounted
<1>10. CountsAreOfClicks'
  <2>1. CountsAreOfClicks
    BY DEF TrackIsSound, TrackCounts
  <2>2. \A k, n : n \in 1 .. Cardinality(RowsOf(followed, k)) => n \in 1 .. Cardinality(RowsOf(followed', k))
    BY <1>9
  <2>3. \A i \in DOMAIN events : events'[i].count \in 1 .. Cardinality(RowsOf(followed', events'[i].link))
    BY <1>2, <2>1, <2>2 DEF CountsAreOfClicks
  <2>4. ASSUME NEW s \in Requests, request'[s].stage = "telling"
        PROVE  request'[s].count \in 1 .. Cardinality(RowsOf(followed', request'[s].link))
    BY <1>3, <1>4, <2>1, <2>2, <2>4 DEF CountsAreOfClicks
  <2> QED
    BY <1>2, <2>3, <2>4 DEF CountsAreOfClicks
<1>11. ASSUME NEW k \in Nat PROVE ToldOfClicks(k)'
  <2>1. ToldOfClicks(k)
    BY DEF TrackIsSound, TrackCounts
  <2>2. Cardinality(RowsOf(events, k)) \in Nat /\ RowsOf(events, k)' = RowsOf(events, k)
    BY <1>2, <1>5, RowsCounted DEF RowsOf
  <2>3. CASE e.link = k
    <3>1. Untold(k)' = Untold(k) \cup {r} /\ r \notin Untold(k)
      BY <1>1, <1>3, <1>4, <2>3 DEF Untold
    <3>2. IsFiniteSet(Untold(k)') /\ Cardinality(Untold(k)') = Cardinality(Untold(k)) + 1
      BY <2>1, <3>1, FS_AddElement DEF ToldOfClicks
    <3>3. Cardinality(Untold(k)) \in Nat
      BY <2>1, FS_CardinalityType DEF ToldOfClicks
    <3> QED
      BY <1>9, <2>1, <2>2, <2>3, <3>2, <3>3 DEF ToldOfClicks
  <2>4. CASE e.link # k
    <3>1. Untold(k)' = Untold(k)
      BY <1>1, <1>3, <1>4, <2>4 DEF Untold
    <3> QED
      BY <1>9, <2>1, <2>2, <2>4, <3>1 DEF ToldOfClicks
  <2> QED
    BY <2>3, <2>4
<1> QED
  BY <1>7, <1>8, <1>10, <1>11 DEF TrackIsSound, TrackCounts

\* An event is written by a request that has written its click.
LEMMA EventWritten ==
    TrackIsSound /\ (\E r \in Requests : T!InsertEvent(r)) => TrackIsSound'
<1> SUFFICES ASSUME TrackIsSound, NEW r \in Requests, T!InsertEvent(r) PROVE TrackIsSound'
  OBVIOUS
<1> DEFINE e == [link |-> request[r].link, count |-> request[r].count]
           q == T!NoRequest
<1>1. IsTracking(request[r]) /\ request[r].stage = "telling"
  BY DEF T!InsertEvent, T!At, TrackIsSound, TrackTyping
<1>2. /\ request' = [request EXCEPT ![r] = q] /\ events' = Append(events, e)
      /\ UNCHANGED <<hour, links, followed, opens>>
  BY DEF T!InsertEvent, T!End
<1>3. /\ IsTracking(q) /\ q.stage = "idle"
      /\ e \in TrackEvent /\ e.link = request[r].link /\ e.count = request[r].count
  BY <1>1 DEF IsTracking, TrackStages, TrackEvent, T!NoRequest
<1> HIDE DEF e, q
<1>4. /\ request'[r] = q /\ \A s \in Requests \ {r} : request'[s] = request[s]
      /\ request' = [s \in Requests |-> request'[s]]
  BY <1>2 DEF TrackIsSound, TrackTyping
<1>5. followed \in Seq(TrackClick) /\ events \in Seq(TrackEvent)
  BY DEF TrackIsSound, TrackTyping
<1>6. /\ events' \in Seq(TrackEvent) /\ Len(events) \in Nat
      /\ DOMAIN events = 1 .. Len(events) /\ DOMAIN events' = 1 .. (Len(events) + 1)
      /\ events'[Len(events) + 1] = e
      /\ \A i \in 1 .. Len(events) : events'[i] = events[i]
  BY <1>2, <1>3, <1>5, Appended
<1>7. TrackTyping'
  BY <1>2, <1>3, <1>4, <1>6 DEF TrackIsSound, TrackTyping
<1>8. TrackTimes'
  <2>1. ASSUME NEW s \in Requests PROVE FoundNone(request[s])'
    <3>1. FoundNone(request[s])
      BY DEF TrackIsSound, TrackTimes
    <3>2. CASE s = r
      BY <1>3, <1>4, <3>2 DEF FoundNone
    <3>3. CASE s # r
      BY <1>2, <1>4, <3>1, <3>3 DEF FoundNone, Apart
    <3> QED
      BY <3>2, <3>3
  <2> QED
    BY <1>2, <2>1 DEF TrackIsSound, TrackTimes, T!CountedOnce
<1>9. CountsAreOfClicks'
  <2>1. CountsAreOfClicks
    BY DEF TrackIsSound, TrackCounts
  <2>2. e.count \in 1 .. Cardinality(RowsOf(followed, e.link))
    BY <1>1, <1>3, <2>1 DEF CountsAreOfClicks
  <2>3. ASSUME NEW i \in DOMAIN events'
        PROVE  events'[i].count \in 1 .. Cardinality(RowsOf(followed', events'[i].link))
    <3>1. CASE i = Len(events) + 1
      BY <1>2, <1>6, <2>2, <3>1
    <3>2. CASE i # Len(events) + 1
      <4>1. i \in DOMAIN events /\ events'[i] = events[i]
        BY <1>6, <3>2
      <4> QED
        BY <1>2, <2>1, <4>1 DEF CountsAreOfClicks
    <3> QED
      BY <3>1, <3>2
  <2>4. ASSUME NEW s \in Requests, request'[s].stage = "telling"
        PROVE  request'[s].count \in 1 .. Cardinality(RowsOf(followed', request'[s].link))
    BY <1>2, <1>3, <1>4, <2>1, <2>4 DEF CountsAreOfClicks
  <2> QED
    BY <2>3, <2>4 DEF CountsAreOfClicks
<1>10. ASSUME NEW k \in Nat PROVE ToldOfClicks(k)'
  <2>1. ToldOfClicks(k) /\ Cardinality(Untold(k)) \in Nat
    BY FS_CardinalityType DEF TrackIsSound, TrackCounts, ToldOfClicks
  <2>2. /\ Cardinality(RowsOf(events', k)) =
             Cardinality(RowsOf(events, k)) + IF e.link = k THEN 1 ELSE 0
        /\ Cardinality(RowsOf(events, k)) \in Nat /\ Cardinality(RowsOf(followed, k)) \in Nat
    BY <1>2, <1>3, <1>5, RowsAppended, RowsCounted
  <2>3. CASE e.link = k
    <3>1. Untold(k)' = Untold(k) \ {r} /\ r \in Untold(k)
      BY <1>1, <1>3, <1>4, <2>3 DEF Untold
    <3>2. IsFiniteSet(Untold(k)') /\ Cardinality(Untold(k)') = Cardinality(Untold(k)) - 1
      BY <2>1, <3>1, FS_RemoveElement DEF ToldOfClicks
    <3> QED
      BY <1>2, <2>1, <2>2, <2>3, <3>2 DEF ToldOfClicks
  <2>4. CASE e.link # k
    <3>1. Untold(k)' = Untold(k)
      BY <1>1, <1>3, <1>4, <2>4 DEF Untold
    <3> QED
      BY <1>2, <2>1, <2>2, <2>4, <3>1 DEF ToldOfClicks
  <2> QED
    BY <2>3, <2>4
<1> QED
  BY <1>7, <1>8, <1>9, <1>10 DEF TrackIsSound, TrackCounts

\* An opening is written: no other of its reader is nearer, but of this hour.
LEMMA OpeningWritten ==
    TrackIsSound /\ (\E r \in Requests : T!InsertOpen(r)) => TrackIsSound'
<1> SUFFICES ASSUME TrackIsSound, NEW r \in Requests, T!InsertOpen(r) PROVE TrackIsSound'
  OBVIOUS
<1> DEFINE e == [reader |-> request[r].reader, at |-> hour]
           q == T!NoRequest
<1>1. IsTracking(request[r]) /\ request[r].stage = "opening" /\ FoundNone(request[r])
  BY DEF T!InsertOpen, T!At, TrackIsSound, TrackTyping, TrackTimes
<1>2. /\ request' = [request EXCEPT ![r] = q] /\ opens' = Append(opens, e)
      /\ UNCHANGED <<hour, links, followed, events>>
  BY DEF T!InsertOpen, T!End
<1>3. /\ IsTracking(q) /\ q.stage = "idle"
      /\ e \in TrackOpening /\ e.reader = request[r].reader /\ e.at = hour
  BY <1>1 DEF IsTracking, TrackStages, TrackOpening, T!NoRequest, TrackIsSound, TrackTyping
<1> HIDE DEF e, q
<1>4. /\ request'[r] = q /\ \A s \in Requests \ {r} : request'[s] = request[s]
      /\ request' = [s \in Requests |-> request'[s]]
  BY <1>2 DEF TrackIsSound, TrackTyping
<1>5. opens \in Seq(TrackOpening) /\ hour \in Nat
  BY DEF TrackIsSound, TrackTyping
<1>6. /\ opens' \in Seq(TrackOpening) /\ Len(opens) \in Nat
      /\ DOMAIN opens = 1 .. Len(opens) /\ DOMAIN opens' = 1 .. (Len(opens) + 1)
      /\ opens'[Len(opens) + 1] = e
      /\ \A i \in 1 .. Len(opens) : opens'[i] = opens[i]
  BY <1>2, <1>3, <1>5, Appended
<1>7. TrackTyping'
  BY <1>2, <1>3, <1>4, <1>6 DEF TrackIsSound, TrackTyping
<1>8. TrackTimes'
  <2>1. T!CountedOnce
    BY DEF TrackIsSound, TrackTimes
  <2>2. ASSUME NEW i \in DOMAIN opens', NEW j \in DOMAIN opens', i < j,
               opens'[i].reader = opens'[j].reader
        PROVE  opens'[j].at = opens'[i].at \/ opens'[j].at > opens'[i].at + OpenWindow
    <3>1. i \in 1 .. Len(opens) /\ opens'[i] = opens[i] /\ i \in DOMAIN opens
      BY <1>6, <2>2
    <3>2. CASE j = Len(opens) + 1
      <4>1. Apart(opens[i].at, OpenWindow)
        BY <1>1, <1>3, <1>6, <2>2, <3>1, <3>2 DEF FoundNone
      <4>2. opens[i] \in TrackOpening
        BY <1>5, <3>1
      <4>3. opens[i].at \in Nat
        BY <4>2 DEF TrackOpening
      <4> QED
        BY <1>3, <1>5, <1>6, <3>1, <3>2, <4>1, <4>3, WindowsAreSpans DEF Apart
    <3>3. CASE j # Len(opens) + 1
      <4>1. j \in DOMAIN opens /\ opens'[j] = opens[j]
        BY <1>6, <3>3
      <4> QED
        BY <2>1, <2>2, <3>1, <4>1 DEF T!CountedOnce
    <3> QED
      BY <3>2, <3>3
  <2>3. T!CountedOnce'
    BY <1>2, <2>1, <2>2 DEF T!CountedOnce
  <2>4. \A i \in DOMAIN opens' : opens'[i].at <= hour
    BY <1>3, <1>5, <1>6 DEF TrackIsSound, TrackTimes
  <2>5. ASSUME NEW s \in Requests PROVE FoundNone(request[s])'
    <3>1. FoundNone(request[s])
      BY DEF TrackIsSound, TrackTimes
    <3>2. CASE s = r
      BY <1>3, <1>4, <3>2 DEF FoundNone
    <3>3. CASE s # r
      BY <1>2, <1>3, <1>4, <1>6, <3>1, <3>3 DEF FoundNone, Apart
    <3> QED
      BY <3>2, <3>3
  <2> QED
    BY <1>2, <2>3, <2>4, <2>5 DEF TrackIsSound, TrackTimes
<1>9. CountsAreOfClicks'
  <2>1. CountsAreOfClicks
    BY DEF TrackIsSound, TrackCounts
  <2>2. \A i \in DOMAIN events : events'[i].count \in 1 .. Cardinality(RowsOf(followed', events'[i].link))
    BY <1>2, <2>1 DEF CountsAreOfClicks
  <2>3. ASSUME NEW s \in Requests, request'[s].stage = "telling"
        PROVE  request'[s].count \in 1 .. Cardinality(RowsOf(followed', request'[s].link))
    BY <1>2, <1>3, <1>4, <2>1, <2>3 DEF CountsAreOfClicks
  <2> QED
    BY <1>2, <2>2, <2>3 DEF CountsAreOfClicks
<1>10. ASSUME NEW k \in Nat PROVE ToldOfClicks(k)'
  <2>1. ToldOfClicks(k)
    BY DEF TrackIsSound, TrackCounts
  <2>2. Untold(k)' = Untold(k)
    BY <1>1, <1>3, <1>4 DEF Untold
  <2> QED
    BY <1>2, <2>1, <2>2 DEF ToldOfClicks
<1> QED
  BY <1>7, <1>8, <1>9, <1>10 DEF TrackIsSound, TrackCounts

\* An hour passes when no request is under way.
LEMMA HourPasses == TrackIsSound /\ T!Tick => TrackIsSound'
<1> SUFFICES ASSUME TrackIsSound, T!Tick PROVE TrackIsSound'
  OBVIOUS
<1>1. /\ hour' = hour + 1 /\ UNCHANGED <<links, followed, opens, events, request>>
      /\ \A r \in Requests : request[r].stage = "idle"
  BY DEF T!Tick, T!At
<1>2. TrackTyping'
  BY <1>1 DEF TrackIsSound, TrackTyping
<1>3. ASSUME NEW i \in DOMAIN followed PROVE followed[i].at <= hour'
  <2>1. followed[i] \in TrackClick /\ hour \in Nat /\ followed[i].at <= hour
    BY DEF TrackIsSound, TrackTyping, TrackTimes
  <2>2. followed[i].at \in Nat
    BY <2>1 DEF TrackClick
  <2> QED
    BY <1>1, <2>1, <2>2
<1>4. ASSUME NEW i \in DOMAIN opens PROVE opens[i].at <= hour'
  <2>1. opens[i] \in TrackOpening /\ hour \in Nat /\ opens[i].at <= hour
    BY DEF TrackIsSound, TrackTyping, TrackTimes
  <2>2. opens[i].at \in Nat
    BY <2>1 DEF TrackOpening
  <2> QED
    BY <1>1, <2>1, <2>2
<1>5. TrackTimes'
  BY <1>1, <1>3, <1>4 DEF TrackIsSound, TrackTimes, FoundNone, T!CountedOnce
<1>6. CountsAreOfClicks'
  BY <1>1 DEF TrackIsSound, TrackCounts, CountsAreOfClicks
<1>7. \A k \in Nat : ToldOfClicks(k)'
  BY <1>1 DEF TrackIsSound, TrackCounts, ToldOfClicks, Untold
<1> QED
  BY <1>2, <1>5, <1>6, <1>7 DEF TrackIsSound, TrackCounts

LEMMA TrackStep == TrackIsSound /\ [T!Next]_trackVars => TrackIsSound'
<1> SUFFICES ASSUME TrackIsSound, [T!Next]_trackVars PROVE TrackIsSound'
  OBVIOUS
<1>1. CASE UNCHANGED trackVars
  <2>1. TrackTyping'
    BY <1>1 DEF trackVars, TrackIsSound, TrackTyping
  <2>2. TrackTimes'
    BY <1>1 DEF trackVars, TrackIsSound, TrackTimes, FoundNone, Apart, T!CountedOnce
  <2>3. CountsAreOfClicks'
    BY <1>1 DEF trackVars, TrackIsSound, TrackCounts, CountsAreOfClicks
  <2>4. \A k \in Nat : ToldOfClicks(k)'
    BY <1>1 DEF trackVars, TrackIsSound, TrackCounts, ToldOfClicks, Untold
  <2> QED
    BY <2>1, <2>2, <2>3, <2>4 DEF TrackIsSound, TrackCounts
<1> QED
  BY <1>1, RequestBegins, RequestAside, ClickWritten, EventWritten, OpeningWritten, HourPasses
     DEF T!Next

LEMMA TrackProperties == TrackIsSound => T!CountedOnce /\ T!EventsAreOfClicks
<1> SUFFICES ASSUME TrackIsSound PROVE T!CountedOnce /\ T!EventsAreOfClicks
  OBVIOUS
<1>1. ASSUME NEW k \in DOMAIN links
      PROVE  /\ T!Cardinality({i \in DOMAIN events : events[i].link = k})
                  <= T!Cardinality(T!ClicksOf(k))
             /\ \A i \in {i \in DOMAIN events : events[i].link = k} :
                  events[i].count \in 1 .. T!Cardinality(T!ClicksOf(k))
  <2>1. k \in Nat
    BY DEF TrackIsSound, TrackTyping
  <2>2. ToldOfClicks(k) /\ Cardinality(Untold(k)) \in Nat
    BY <2>1, FS_CardinalityType DEF TrackIsSound, TrackCounts, ToldOfClicks
  <2>3. Cardinality(RowsOf(events, k)) \in Nat /\ Cardinality(RowsOf(followed, k)) \in Nat
    BY RowsCounted DEF TrackIsSound, TrackTyping
  <2>4. /\ T!Cardinality(T!ClicksOf(k)) = Cardinality(RowsOf(followed, k))
        /\ T!Cardinality({i \in DOMAIN events : events[i].link = k}) = Cardinality(RowsOf(events, k))
    BY SameCardinality DEF T!ClicksOf, RowsOf
  <2>5. Cardinality(RowsOf(events, k)) <= Cardinality(RowsOf(followed, k))
    BY <2>2, <2>3 DEF ToldOfClicks
  <2> QED
    BY <2>4, <2>5 DEF TrackIsSound, TrackCounts, CountsAreOfClicks
<1> QED
  BY <1>1 DEF T!EventsAreOfClicks, TrackIsSound, TrackTimes

-----------------------------------------------------------------------------
(* Reports: what each query keeps.                                         *)

\* A time is at or after the beginning of a day if its own day is no earlier.
LEMMA DayBegins ==
    ASSUME NEW t \in Int, NEW day \in Int
    PROVE  /\ R!tokyoDateKey(t) \in Int
           /\ day <= R!tokyoDateKey(t) <=> R!tokyoDayStartUtc(day) <= t
<1> DEFINE x == t + Offset
           q == x \div Day
<1>1. q \in Int /\ x \in Int /\ q * Day <= x /\ x < (q + 1) * Day
  BY DaysAreLong
<1>2. R!tokyoDateKey(t) = q /\ (R!tokyoDayStartUtc(day) <= t <=> day * Day <= x)
  BY DaysAreLong DEF R!tokyoDateKey, R!tokyoDayStartUtc
<1> HIDE DEF q, x
<1>3. \A a, b \in Int, d \in Nat \ {0} : a <= b => a * d <= b * d
  OBVIOUS
<1>4. CASE day <= q
  <2>1. day * Day <= q * Day /\ day * Day \in Int /\ q * Day \in Int
    BY <1>1, <1>3, <1>4, DaysAreLong
  <2> QED
    BY <1>1, <1>2, <1>4, <2>1
<1>5. CASE q + 1 <= day
  <2>1. (q + 1) * Day <= day * Day /\ day * Day \in Int /\ (q + 1) * Day \in Int
    BY <1>1, <1>3, <1>5, DaysAreLong
  <2> QED
    BY <1>1, <1>2, <1>5, <2>1
<1> QED
  BY <1>1, <1>4, <1>5

LEMMA DaysOfPeriod ==
    ASSUME NEW t \in Int, NEW from \in Int, NEW to \in Int
    PROVE  R!InPeriod(from, to, t) <=> R!tokyoDateKey(t) \in from .. to
<1>1. R!tokyoDayStartUtc(to + 1) \in Int
  BY DaysAreLong DEF R!tokyoDayStartUtc
<1> QED
  BY <1>1, DayBegins DEF R!InPeriod

Sale == [mail : Mails, at : Int]

SalesTyping ==
    /\ now \in Int
    /\ mail \in [Mails -> [sent : BOOLEAN, sentAt : Int]]
    /\ stage = [l \in Sold |-> stage[l]] /\ lostAt = [l \in Sold |-> lostAt[l]]

\* Who stands as lost since some time was moved there then.
LossesAreMoves ==
    \A l \in Sold : stage[l] = "lost" /\ lostAt[l] # R!Never =>
      [lead |-> l, to |-> "lost", at |-> lostAt[l]] \in moves

\* A search whose end is recorded is over.
EndsAreOver == \A a \in audits : a \in Jobs \X {1, 2} /\ job[a[1]] = "over"

PerformanceTells ==
    report.kind = "performance" =>
      /\ report.read \subseteq R!SalesQueries
      /\ report.sent = R!SentOnDays
      /\ report.replies \subseteq replies /\ report.moves \subseteq moves
      /\ report.replied \subseteq replies /\ report.moved \subseteq moves
      /\ "replies" \in report.read =>
           {r \in report.replies : r.mail \in R!MailsOf(report.sent)} \subseteq report.replied
      /\ "moves" \in report.read =>
           {v \in report.moves : v.to \in {"meeting", "won"} /\ v.lead \in R!LeadsOf(report.sent)}
             \subseteq report.moved
      /\ \A r \in report.lost : r[2] # R!Never => [lead |-> r[1], to |-> "lost", at |-> r[2]] \in moves

OperationsTell ==
    report.kind = "operations" =>
      /\ report.read \subseteq R!SearchQueries
      /\ report.ended \subseteq {a[1] : a \in audits}
      /\ "finished" \in report.read => report.ended \subseteq {a[1] : a \in report.finished}
      /\ report.finished \subseteq audits
      /\ \A j \in report.stale : j \in Jobs /\ job[j] \in {"lapsed", "over"}

ReportFields ==
    {"kind", "from", "to", "read", "sent", "replied", "moved", "lost", "finished",
     "running", "stale", "mails", "replies", "moves", "ended"}

ReportIsSound ==
    /\ SalesTyping /\ LossesAreMoves /\ EndsAreOver
    /\ job = [j \in Jobs |-> job[j]]
    /\ report = [f \in ReportFields |-> report[f]]
    /\ report.kind \in {"none", "performance", "operations"}
    /\ report.kind = "none" => report = R!NoReport
    /\ PerformanceTells /\ OperationsTell

LEMMA ReportBegins == R!Init => ReportIsSound
BY DEF R!Init, ReportIsSound, SalesTyping, LossesAreMoves, EndsAreOver, R!NoReport, ReportFields,
       PerformanceTells, OperationsTell, R!Never

\* The tables change beside a report.
LEMMA SalesGoOn ==
    ASSUME ReportIsSound, UNCHANGED <<report, job, audits>>, SalesTyping', LossesAreMoves',
           replies \subseteq replies', moves \subseteq moves'
    PROVE  ReportIsSound'
<1>1. PerformanceTells'
  BY DEF ReportIsSound, PerformanceTells, R!SentOnDays
<1>2. OperationsTell'
  BY DEF ReportIsSound, OperationsTell
<1>3. EndsAreOver'
  BY DEF ReportIsSound, EndsAreOver
<1> QED
  BY <1>1, <1>2, <1>3 DEF ReportIsSound

LEMMA Moved ==
    ASSUME ReportIsSound, NEW l, NEW to, R!MoveTo(l, to), now' = now, mail' = mail
    PROVE  SalesTyping' /\ LossesAreMoves' /\ moves \subseteq moves'
<1>1. moves \subseteq moves'
  BY DEF R!MoveTo
<1>2. SalesTyping'
  BY DEF R!MoveTo, ReportIsSound, SalesTyping
<1>3. ASSUME NEW k \in Sold, stage'[k] = "lost", lostAt'[k] # R!Never
      PROVE  [lead |-> k, to |-> "lost", at |-> lostAt'[k]] \in moves'
  <2>1. CASE k = l
    BY <1>3, <2>1 DEF R!MoveTo, ReportIsSound, SalesTyping
  <2>2. CASE k # l
    <3>1. stage'[k] = stage[k] /\ lostAt'[k] = lostAt[k]
      BY <2>2 DEF R!MoveTo, ReportIsSound, SalesTyping
    <3> QED
      BY <1>1, <1>3, <3>1 DEF ReportIsSound, LossesAreMoves
  <2> QED
    BY <2>1, <2>2
<1> QED
  BY <1>1, <1>2, <1>3 DEF LossesAreMoves, R!Never

LEMMA SalesStep ==
    ASSUME ReportIsSound,
           \/ R!Tick
           \/ \E m \in Mails, at \in R!Times : R!Send(m, at) \/ R!Reply(m, at)
           \/ \E m \in Mails : R!Rework(m)
           \/ \E l \in Sold, to \in R!Stages : R!MoveStage(l, to)
    PROVE  ReportIsSound'
<1>0. SalesTyping /\ LossesAreMoves
  BY DEF ReportIsSound
<1>1. CASE R!Tick
  <2>1. now' = now + 1 /\ UNCHANGED <<mail, replies, stage, lostAt, moves, job, audits, report>>
    BY <1>1 DEF R!Tick, R!salesVars, R!jobVars
  <2>2. SalesTyping' /\ LossesAreMoves'
    BY <1>0, <2>1 DEF SalesTyping, LossesAreMoves, R!Never
  <2> QED
    BY <2>1, <2>2, SalesGoOn
<1>2. ASSUME NEW m \in Mails, NEW at \in R!Times, R!Send(m, at) PROVE ReportIsSound'
  <2>1. /\ mail' = [mail EXCEPT ![m] = [sent |-> TRUE, sentAt |-> at]]
        /\ UNCHANGED <<now, replies, stage, lostAt, moves, job, audits, report>>
    BY <1>2 DEF R!Send, R!jobVars
  <2>2. SalesTyping' /\ LossesAreMoves'
    BY <1>0, <2>1 DEF SalesTyping, LossesAreMoves, R!Never, R!Times
  <2> QED
    BY <2>1, <2>2, SalesGoOn
<1>3. ASSUME NEW m \in Mails, R!Rework(m) PROVE ReportIsSound'
  <2>1. /\ mail' = [mail EXCEPT ![m].sent = FALSE]
        /\ UNCHANGED <<now, replies, stage, lostAt, moves, job, audits, report>>
    BY <1>3 DEF R!Rework, R!jobVars
  <2>2. SalesTyping' /\ LossesAreMoves'
    BY <1>0, <2>1 DEF SalesTyping, LossesAreMoves, R!Never
  <2> QED
    BY <2>1, <2>2, SalesGoOn
<1>4. ASSUME NEW l \in Sold, NEW to \in R!Stages, R!MoveStage(l, to) PROVE ReportIsSound'
  <2>1. R!MoveTo(l, to) /\ UNCHANGED <<now, mail, replies, job, audits, report>>
    BY <1>4 DEF R!MoveStage, R!jobVars
  <2> QED
    BY <2>1, Moved, SalesGoOn
<1>5. ASSUME NEW m \in Mails, NEW at \in R!Times, R!Reply(m, at) PROVE ReportIsSound'
  <2>1. replies \subseteq replies' /\ UNCHANGED <<now, mail, job, audits, report>>
    BY <1>5 DEF R!Reply, R!jobVars
  <2>2. CASE UNCHANGED <<stage, lostAt, moves>>
    <3>1. SalesTyping' /\ LossesAreMoves'
      BY <1>0, <2>1, <2>2 DEF SalesTyping, LossesAreMoves, R!Never
    <3> QED
      BY <2>1, <2>2, <3>1, SalesGoOn
  <2>3. CASE R!MoveTo(SoldOf[m], "meeting")
    BY <2>1, <2>3, Moved, SalesGoOn
  <2> QED
    BY <1>5, <2>2, <2>3 DEF R!Reply
<1> QED
  BY <1>1, <1>2, <1>3, <1>4, <1>5

\* A question or a query changes nothing but the report.
LEMMA ReportGoesOn ==
    ASSUME ReportIsSound, UNCHANGED <<now, mail, replies, stage, lostAt, moves, job, audits>>,
           report' = [f \in ReportFields |-> report'[f]],
           report'.kind \in {"performance", "operations"},
           PerformanceTells', OperationsTell'
    PROVE  ReportIsSound'
BY DEF ReportIsSound, SalesTyping, LossesAreMoves, EndsAreOver

\* The mails of the period are those of its days.
LEMMA SentOnTheDays ==
    ASSUME SalesTyping, NEW from \in Int, NEW to \in Int
    PROVE  R!SentInPeriod(from, to) =
             {s \in {[mail |-> m, at |-> mail[m].sentAt] : m \in {n \in Mails : mail[n].sent}} :
                R!tokyoDateKey(s.at) \in from .. to}
<1> DEFINE all == {[mail |-> m, at |-> mail[m].sentAt] : m \in {n \in Mails : mail[n].sent}}
           days == {s \in all : R!tokyoDateKey(s.at) \in from .. to}
<1>0. \A m \in Mails : mail[m].sentAt \in Int
  BY DEF SalesTyping
<1>1. ASSUME NEW m \in Mails
      PROVE  R!InPeriod(from, to, mail[m].sentAt) <=> R!tokyoDateKey(mail[m].sentAt) \in from .. to
  BY <1>0, DaysOfPeriod
<1>2. ASSUME NEW s \in R!SentInPeriod(from, to) PROVE s \in days
  <2>1. PICK m \in Mails : mail[m].sent /\ R!InPeriod(from, to, mail[m].sentAt)
                           /\ s = [mail |-> m, at |-> mail[m].sentAt]
    BY DEF R!SentInPeriod
  <2> QED
    BY <1>1, <2>1
<1>3. ASSUME NEW s \in days PROVE s \in R!SentInPeriod(from, to)
  <2>1. PICK m \in Mails : mail[m].sent /\ s = [mail |-> m, at |-> mail[m].sentAt]
    OBVIOUS
  <2>2. R!InPeriod(from, to, mail[m].sentAt)
    BY <1>1, <1>3, <2>1
  <2> QED
    BY <2>1, <2>2 DEF R!SentInPeriod
<1> QED
  BY <1>2, <1>3

LEMMA PerformanceAsked ==
    ReportIsSound /\ (\E from, to \in R!Days : R!AskPerformance(from, to)) => ReportIsSound'
<1> SUFFICES ASSUME ReportIsSound, NEW from \in R!Days, NEW to \in R!Days, R!AskPerformance(from, to)
             PROVE  ReportIsSound'
  OBVIOUS
<1> DEFINE sent == R!SentInPeriod(from, to)
           all == {[mail |-> m, at |-> mail[m].sentAt] : m \in {n \in Mails : mail[n].sent}}
           q == [R!NoReport EXCEPT
                   !.kind = "performance", !.from = from, !.to = to, !.sent = sent,
                   !.mails = all, !.replies = replies, !.moves = moves]
<1>1. report' = q /\ UNCHANGED <<now, mail, replies, stage, lostAt, moves, job, audits>>
  BY DEF R!AskPerformance, R!salesVars, R!jobVars
<1>2. from \in Int /\ to \in Int
  BY DayBegins DEF R!Days
<1>3. sent = {s \in all : R!tokyoDateKey(s.at) \in from .. to}
  BY <1>2, SentOnTheDays DEF ReportIsSound
<1> HIDE DEF sent, all
<1>4. /\ q = [f \in ReportFields |-> q[f]]
      /\ q.kind = "performance" /\ q.from = from /\ q.to = to /\ q.sent = sent /\ q.mails = all
      /\ q.replies = replies /\ q.moves = moves
      /\ q.read = {} /\ q.replied = {} /\ q.moved = {} /\ q.lost = {}
  BY DEF R!NoReport, ReportFields
<1> HIDE DEF q
<1>5. PerformanceTells'
  BY <1>1, <1>3, <1>4 DEF PerformanceTells, R!SentOnDays
<1> QED
  BY <1>1, <1>4, <1>5, ReportGoesOn DEF OperationsTell

LEMMA SalesRead ==
    ReportIsSound /\ (\E q \in R!SalesQueries : R!ReadSales(q)) => ReportIsSound'
<1> SUFFICES ASSUME ReportIsSound, NEW query \in R!SalesQueries, R!ReadSales(query)
             PROVE  ReportIsSound'
  OBVIOUS
<1> DEFINE repliedNow == IF query = "replies"
                         THEN {r \in replies : r.mail \in R!MailsOf(report.sent)} ELSE report.replied
           movedNow == IF query = "moves"
                       THEN {v \in moves : v.to \in {"meeting", "won"} /\ v.lead \in R!LeadsOf(report.sent)}
                       ELSE report.moved
           lostNow == IF query = "lost"
                      THEN {r \in R!LostRows : r[1] \in R!LeadsOf(report.sent)} ELSE report.lost
           q == [report EXCEPT !.read = @ \cup {query}, !.replied = repliedNow,
                               !.moved = movedNow, !.lost = lostNow]
<1>1. report' = q /\ UNCHANGED <<now, mail, replies, stage, lostAt, moves, job, audits>>
  BY DEF R!ReadSales, R!salesVars, R!jobVars
<1>2. report.kind = "performance" /\ report = [f \in ReportFields |-> report[f]] /\ PerformanceTells
  BY DEF R!ReadSales, ReportIsSound
<1>3. /\ repliedNow \subseteq replies /\ movedNow \subseteq moves
      /\ query = "replies" => {r \in report.replies : r.mail \in R!MailsOf(report.sent)} \subseteq repliedNow
      /\ query # "replies" => repliedNow = report.replied
      /\ query = "moves" =>
           {v \in report.moves : v.to \in {"meeting", "won"} /\ v.lead \in R!LeadsOf(report.sent)}
             \subseteq movedNow
      /\ query # "moves" => movedNow = report.moved
  BY <1>2 DEF PerformanceTells
<1>4. ASSUME NEW r \in lostNow, r[2] # R!Never
      PROVE  [lead |-> r[1], to |-> "lost", at |-> r[2]] \in moves
  <2>1. CASE query # "lost"
    BY <1>2, <1>4, <2>1 DEF PerformanceTells
  <2>2. CASE query = "lost"
    <3>1. PICK l \in Sold : stage[l] = "lost" /\ r = <<l, lostAt[l]>>
      BY <2>2 DEF R!LostRows
    <3> QED
      BY <1>4, <3>1 DEF ReportIsSound, LossesAreMoves
  <2> QED
    BY <2>1, <2>2
<1> HIDE DEF repliedNow, movedNow, lostNow
<1>5. /\ q = [f \in ReportFields |-> q[f]]
      /\ q.kind = report.kind /\ q.from = report.from /\ q.to = report.to /\ q.sent = report.sent
      /\ q.mails = report.mails /\ q.replies = report.replies /\ q.moves = report.moves
      /\ q.read = report.read \cup {query}
      /\ q.replied = repliedNow /\ q.moved = movedNow /\ q.lost = lostNow
  BY <1>2 DEF ReportFields
<1> HIDE DEF q
<1>6. R!MailsOf(report.sent)' = R!MailsOf(report.sent) /\ R!LeadsOf(report.sent)' = R!LeadsOf(report.sent)
  BY <1>1, <1>5
<1>7. R!SentOnDays' = R!SentOnDays
  BY <1>1, <1>5 DEF R!SentOnDays
<1>8. PerformanceTells'
  BY <1>1, <1>2, <1>3, <1>4, <1>5, <1>7 DEF PerformanceTells
<1>9. OperationsTell'
  BY <1>1, <1>2, <1>5 DEF OperationsTell
<1> QED
  BY <1>1, <1>2, <1>5, <1>8, <1>9, ReportGoesOn

LEMMA SearchesGoOn ==
    ASSUME ReportIsSound,
           \/ \E j \in Jobs : R!StartSearch(j) \/ R!LoseLease(j) \/ R!EndSearch(j)
           \/ \E j \in Jobs, n \in {1, 2} : R!RecordSearchFinished(j, n)
    PROVE  ReportIsSound'
<1>0. job = [j \in Jobs |-> job[j]] /\ EndsAreOver /\ OperationsTell /\ PerformanceTells
  BY DEF ReportIsSound
<1>1. UNCHANGED <<now, mail, replies, stage, lostAt, moves, report>>
  BY DEF R!StartSearch, R!LoseLease, R!EndSearch, R!RecordSearchFinished, R!salesVars
<1>2. PerformanceTells' /\ SalesTyping' /\ LossesAreMoves'
  BY <1>0, <1>1 DEF PerformanceTells, R!SentOnDays, ReportIsSound, SalesTyping, LossesAreMoves
<1>3. audits \subseteq audits'
  BY DEF R!StartSearch, R!LoseLease, R!EndSearch, R!RecordSearchFinished
<1>4. job' = [j \in Jobs |-> job'[j]] /\ \A j \in Jobs :
        /\ job[j] = "over" => job'[j] = "over"
        /\ job[j] \in {"lapsed", "over"} => job'[j] \in {"lapsed", "over"}
  BY <1>0 DEF R!StartSearch, R!LoseLease, R!EndSearch, R!RecordSearchFinished
<1>5. OperationsTell'
  BY <1>0, <1>1, <1>3, <1>4 DEF OperationsTell
<1>6. EndsAreOver'
  BY <1>0, <1>4 DEF EndsAreOver, R!StartSearch, R!LoseLease, R!EndSearch, R!RecordSearchFinished
<1> QED
  BY <1>1, <1>2, <1>4, <1>5, <1>6 DEF ReportIsSound

LEMMA OperationsAsked == ReportIsSound /\ R!AskOperations => ReportIsSound'
<1> SUFFICES ASSUME ReportIsSound, R!AskOperations PROVE ReportIsSound'
  OBVIOUS
<1> DEFINE ended == {a[1] : a \in audits}
           q == [R!NoReport EXCEPT !.kind = "operations", !.ended = ended]
<1>1. report' = q /\ UNCHANGED <<now, mail, replies, stage, lostAt, moves, job, audits>>
  BY DEF R!AskOperations, R!salesVars, R!jobVars
<1>2. /\ q = [f \in ReportFields |-> q[f]]
      /\ q.kind = "operations" /\ q.read = {} /\ q.ended = ended /\ q.finished = {} /\ q.stale = {}
  BY DEF R!NoReport, ReportFields
<1> HIDE DEF q
<1>3. OperationsTell'
  BY <1>1, <1>2 DEF OperationsTell
<1>4. PerformanceTells'
  BY <1>1, <1>2 DEF PerformanceTells
<1> QED
  BY <1>1, <1>2, <1>3, <1>4, ReportGoesOn

LEMMA SearchesRead ==
    ReportIsSound /\ (\E q \in R!SearchQueries : R!ReadSearches(q)) => ReportIsSound'
<1> SUFFICES ASSUME ReportIsSound, NEW query \in R!SearchQueries, R!ReadSearches(query)
             PROVE  ReportIsSound'
  OBVIOUS
<1> DEFINE finishedNow == IF query = "finished" THEN audits ELSE report.finished
           runningNow == IF query = "running" THEN {j \in Jobs : job[j] = "running"} ELSE report.running
           staleNow == IF query = "stale" THEN {j \in Jobs : job[j] = "lapsed"} ELSE report.stale
           q == [report EXCEPT !.read = @ \cup {query}, !.finished = finishedNow,
                               !.running = runningNow, !.stale = staleNow]
<1>1. report' = q /\ UNCHANGED <<now, mail, replies, stage, lostAt, moves, job, audits>>
  BY DEF R!ReadSearches, R!salesVars, R!jobVars
<1>2. report.kind = "operations" /\ report = [f \in ReportFields |-> report[f]] /\ OperationsTell
  BY DEF R!ReadSearches, ReportIsSound
<1>3. /\ finishedNow \subseteq audits
      /\ query = "finished" => finishedNow = audits
      /\ query # "finished" => finishedNow = report.finished
      /\ \A j \in staleNow : j \in Jobs /\ job[j] \in {"lapsed", "over"}
  BY <1>2 DEF OperationsTell
<1> HIDE DEF finishedNow, runningNow, staleNow
<1>4. /\ q = [f \in ReportFields |-> q[f]]
      /\ q.kind = report.kind /\ q.ended = report.ended /\ q.read = report.read \cup {query}
      /\ q.finished = finishedNow /\ q.stale = staleNow
  BY <1>2 DEF ReportFields
<1> HIDE DEF q
<1>5. OperationsTell'
  BY <1>1, <1>2, <1>3, <1>4 DEF OperationsTell
<1>6. PerformanceTells'
  BY <1>1, <1>2, <1>4 DEF PerformanceTells
<1> QED
  BY <1>1, <1>2, <1>4, <1>5, <1>6, ReportGoesOn

LEMMA ReportStep ==
    ReportIsSound /\ [R!SalesNext \/ R!SearchNext]_reportVars => ReportIsSound'
<1> SUFFICES ASSUME ReportIsSound, [R!SalesNext \/ R!SearchNext]_reportVars PROVE ReportIsSound'
  OBVIOUS
<1>1. CASE UNCHANGED reportVars
  BY <1>1 DEF reportVars, ReportIsSound, SalesTyping, LossesAreMoves, EndsAreOver,
              PerformanceTells, R!SentOnDays, OperationsTell
<1>2. CASE R!SalesNext
  BY <1>2, SalesStep, PerformanceAsked, SalesRead DEF R!SalesNext
<1>3. CASE R!SearchNext
  BY <1>3, SearchesGoOn, OperationsAsked, SearchesRead DEF R!SearchNext
<1> QED
  BY <1>1, <1>2, <1>3

LEMMA ReportIsRead ==
    ASSUME ReportIsSound
    PROVE  /\ report.read = R!SalesQueries => report.kind = "performance"
           /\ report.read = R!SearchQueries => report.kind = "operations"
<1>1. R!SalesQueries = {"replies", "moves", "lost"} /\ R!SearchQueries = {"finished", "running", "stale"}
  BY DEF R!SalesQueries, R!SearchQueries
<1>2. report.kind = "none" => report.read = {}
  BY DEF ReportIsSound, R!NoReport
<1>3. report.kind = "performance" => report.read \subseteq R!SalesQueries
  BY DEF ReportIsSound, PerformanceTells
<1>4. report.kind = "operations" => report.read \subseteq R!SearchQueries
  BY DEF ReportIsSound, OperationsTell
<1>5. report.kind \in {"none", "performance", "operations"}
  BY DEF ReportIsSound
<1> QED
  BY <1>1, <1>2, <1>3, <1>4, <1>5

LEMMA PerformanceProperty == ReportIsSound => R!PerformanceIsOfItsTime
<1> SUFFICES ASSUME ReportIsSound, report.read = R!SalesQueries PROVE R!PerformanceIsOfItsTime
  BY DEF R!PerformanceIsOfItsTime
<1>1. PerformanceTells /\ report.kind = "performance"
  BY ReportIsRead DEF ReportIsSound
<1>2. "replies" \in report.read /\ "moves" \in report.read
  BY DEF R!SalesQueries
<1>3. report.sent = R!SentOnDays
  BY <1>1 DEF PerformanceTells
<1>4. {SoldOf[r.mail] : r \in {x \in report.replies :
         \E s \in R!SentOnDays : s.mail = x.mail /\ x.at >= s.at}} \subseteq R!repliedLeadIds
  <2>1. ASSUME NEW x \in report.replies, NEW s \in report.sent, s.mail = x.mail, x.at >= s.at
        PROVE  SoldOf[x.mail] \in R!repliedLeadIds
    <3>1. x.mail \in R!MailsOf(report.sent)
      BY <2>1 DEF R!MailsOf
    <3>2. x \in report.replied
      BY <1>1, <1>2, <3>1 DEF PerformanceTells
    <3> QED
      BY <2>1, <3>2 DEF R!repliedLeadIds
  <2> QED
    BY <1>3, <2>1
<1>5. ASSUME NEW l \in R!repliedLeadIds PROVE \E r \in replies : SoldOf[r.mail] = l /\ R!Since(l, r.at)
  <2>1. PICK r \in report.replied : /\ \E s \in report.sent : s.mail = r.mail /\ r.at >= s.at
                                    /\ l = SoldOf[r.mail]
    BY DEF R!repliedLeadIds
  <2>2. r \in replies
    BY <1>1 DEF PerformanceTells
  <2>3. R!Since(l, r.at)
    BY <1>3, <2>1 DEF R!Since
  <2> QED
    BY <2>1, <2>2, <2>3
<1>6. ASSUME NEW to \in {"meeting", "won"}, NEW v \in report.moves, v.to = to, R!Since(v.lead, v.at)
      PROVE  v.lead \in R!LeadsMovedTo(to)
  <2>1. R!occurredAfterFirstSend(v.lead, v.at)
    BY <1>3, <1>6 DEF R!Since, R!occurredAfterFirstSend
  <2>2. v.lead \in R!LeadsOf(report.sent)
    BY <2>1 DEF R!occurredAfterFirstSend, R!LeadsOf
  <2>3. v \in report.moved
    BY <1>1, <1>2, <1>6, <2>2 DEF PerformanceTells
  <2> QED
    BY <1>6, <2>1, <2>3 DEF R!LeadsMovedTo
<1>7. ASSUME NEW to \in {"meeting", "won"}, NEW l \in R!LeadsMovedTo(to)
      PROVE  \E v \in moves : v.lead = l /\ v.to = to /\ R!Since(l, v.at)
  <2>1. PICK v \in report.moved : v.to = to /\ R!occurredAfterFirstSend(v.lead, v.at) /\ l = v.lead
    BY DEF R!LeadsMovedTo
  <2>2. v \in moves
    BY <1>1 DEF PerformanceTells
  <2>3. R!Since(l, v.at)
    BY <1>3, <2>1 DEF R!Since, R!occurredAfterFirstSend
  <2> QED
    BY <2>1, <2>2, <2>3
<1>8. ASSUME NEW l \in R!lostLeadIds
      PROVE  \E v \in moves : v.lead = l /\ v.to = "lost" /\ R!Since(l, v.at)
  <2>1. PICK r \in report.lost : r[2] # R!Never /\ R!occurredAfterFirstSend(r[1], r[2]) /\ l = r[1]
    BY DEF R!lostLeadIds
  <2> DEFINE v == [lead |-> r[1], to |-> "lost", at |-> r[2]]
  <2>2. v \in moves
    BY <1>1, <2>1 DEF PerformanceTells
  <2>3. R!Since(l, v.at)
    BY <1>3, <2>1 DEF R!Since, R!occurredAfterFirstSend
  <2> QED
    BY <2>1, <2>2, <2>3
<1> QED
  BY <1>3, <1>4, <1>5, <1>6, <1>7, <1>8 DEF R!PerformanceIsOfItsTime

LEMMA SameCount == \A s : R!Cardinality(s) = Cardinality(s)
BY DEF R!Cardinality, Cardinality

LEMMA EndsProperty == ReportIsSound => R!EndsAreCountedOnce
<1> SUFFICES ASSUME ReportIsSound, report.read = R!SearchQueries PROVE R!EndsAreCountedOnce
  BY DEF R!EndsAreCountedOnce
<1> DEFINE over == {j \in Jobs : job[j] \in {"lapsed", "over"}}
           told == {r[1] : r \in R!terminalSearches}
<1>1. OperationsTell /\ report.kind = "operations" /\ EndsAreOver
  BY ReportIsRead DEF ReportIsSound
<1>2. told = {a[1] : a \in report.finished} \cup report.stale
  <2>1. ASSUME NEW a \in report.finished PROVE a[1] \in told
    <3>1. <<a[1], "audit">> \in R!terminalSearches
      BY DEF R!terminalSearches
    <3> QED
      BY <3>1
  <2>2. ASSUME NEW j \in report.stale PROVE j \in told
    <3>1. <<j, "stale">> \in R!terminalSearches
      BY DEF R!terminalSearches
    <3> QED
      BY <3>1
  <2>3. ASSUME NEW r \in R!terminalSearches
        PROVE  r[1] \in {a[1] : a \in report.finished} \cup report.stale
    BY DEF R!terminalSearches
  <2> QED
    BY <2>1, <2>2, <2>3
<1>3. report.ended \subseteq told
  BY <1>1, <1>2 DEF OperationsTell, R!SearchQueries
<1>4. told \subseteq over
  BY <1>1, <1>2 DEF OperationsTell, EndsAreOver
<1>5. IsFiniteSet(over)
  BY JobsAreFew, FS_Subset
<1>6. /\ IsFiniteSet(told) /\ Cardinality(told) <= Cardinality(over)
      /\ Cardinality(report.ended) <= Cardinality(told)
  BY <1>3, <1>4, <1>5, FS_Subset
<1> QED
  BY <1>6, SameCount DEF R!EndsAreCountedOnce, R!uniqueTerminalSearches

LEMMA ReportProperties == ReportIsSound => R!ReportsAreOfTheirTime
BY PerformanceProperty, EndsProperty DEF R!ReportsAreOfTheirTime

-----------------------------------------------------------------------------
(* LeadExport: the pages put together are the list.                        *)

\* Some numbers have a least one.
LEMMA Smallest ==
    ASSUME NEW some, some \subseteq Nat, some # {}
    PROVE  \E x \in some : \A y \in some : x <= y
<1> DEFINE Before == {p \in Nat \X Nat : p[1] < p[2]}
<1>1. IsWellFoundedOn(Before, Nat)
  BY NatLessThanWellFounded DEF OpToRel
<1> HIDE DEF Before
<1>2. PICK x \in some : \A y \in some : ~ (<<y, x>> \in Before)
  BY <1>1, WFMin
<1>3. ASSUME NEW y \in some PROVE x <= y
  <2>1. x \in Nat /\ y \in Nat /\ ~ (<<y, x>> \in Before)
    BY <1>2
  <2>2. ~ (y < x)
    BY <2>1 DEF Before
  <2> QED
    BY <2>1, <2>2
<1> QED
  BY <1>3

\* FlattenSeq puts the sequences together one by one: what grows so is what it is, to
\* the least page at which they would differ.
Grows(G, pages, n) ==
    G[1] = pages[1] /\ \A i \in 2 .. n : G[i] = G[i - 1] \o pages[i]

LEMMA FlattenedStepwise ==
    ASSUME NEW n \in Nat \ {0}, NEW X, NEW pages \in [1 .. n -> X], NEW G, Grows(G, pages, n)
    PROVE  E!FlattenSeq(pages) = G[n]
<1>0. G[1] = pages[1] /\ \A i \in 2 .. n : G[i] = G[i - 1] \o pages[i]
  BY DEF Grows
<1> DEFINE Step(f) == [i \in 1 .. n |-> IF i = 1 THEN pages[i] ELSE f[i - 1] \o pages[i]]
           flatten == CHOOSE f : f = Step(f)
           g == [i \in 1 .. n |-> G[i]]
<1>1. pages \in Seq(X) /\ Len(pages) = n
  OBVIOUS
<1>2. E!FlattenSeq(pages) = flatten[n]
  BY <1>1 DEF E!FlattenSeq
<1>3. g = Step(g)
  <2>1. ASSUME NEW i \in 1 .. n
        PROVE  g[i] = IF i = 1 THEN pages[i] ELSE g[i - 1] \o pages[i]
    <3>1. CASE i = 1
      BY <1>0, <3>1
    <3>2. CASE i # 1
      <4>1. i \in 2 .. n /\ i - 1 \in 1 .. n
        BY <3>2
      <4>2. G[i] = G[i - 1] \o pages[i] /\ g[i - 1] = G[i - 1]
        BY <1>0, <4>1
      <4> QED
        BY <3>2, <4>2
    <3> QED
      BY <3>1, <3>2
  <2> HIDE DEF g
  <2>2. g = [i \in 1 .. n |-> g[i]]
    BY DEF g
  <2> QED
    BY <2>1, <2>2
<1>4. flatten = Step(flatten)
  BY <1>3
<1> HIDE DEF g, flatten
<1>5. \A i \in 1 .. n : flatten[i] = IF i = 1 THEN pages[i] ELSE flatten[i - 1] \o pages[i]
  BY <1>4, Zenon
<1> DEFINE Off == {i \in 1 .. n : flatten[i] # G[i]}
<1>6. CASE Off = {}
  BY <1>2, <1>6
<1>7. CASE Off # {}
  <2>1. Off \subseteq Nat
    OBVIOUS
  <2>2. PICK i \in Off : \A j \in Off : i <= j
    BY <1>7, <2>1, Smallest
  <2>3. CASE i = 1
    BY <1>0, <1>5, <2>2, <2>3
  <2>4. CASE i # 1
    <3>1. i \in 2 .. n /\ i - 1 \in 1 .. n /\ i - 1 \in Nat /\ i - 1 < i
      BY <2>2, <2>4
    <3>2. flatten[i - 1] = G[i - 1]
      BY <2>2, <3>1
    <3>3. flatten[i] = flatten[i - 1] \o pages[i]
      BY <1>5, <2>4, <3>1
    <3> QED
      BY <1>0, <2>2, <3>1, <3>2, <3>3
  <2> QED
    BY <2>3, <2>4
<1> QED
  BY <1>6, <1>7

\* What has the elements of both is their concatenation.
LEMMA Concatenated ==
    ASSUME NEW X, NEW s \in Seq(X), NEW t \in Seq(X), NEW u \in Seq(X),
           NEW a, Len(s) = a, Len(u) = a + Len(t),
           \A i \in 1 .. a : u[i] = s[i],
           \A i \in 1 .. Len(t) : u[a + i] = t[i]
    PROVE  u = s \o t
<1>1. /\ s \o t \in Seq(X) /\ Len(s \o t) = Len(s) + Len(t)
      /\ Len(s) \in Nat /\ Len(t) \in Nat
      /\ \A i \in 1 .. Len(s) : (s \o t)[i] = s[i]
      /\ \A i \in 1 .. Len(t) : (s \o t)[Len(s) + i] = t[i]
  OBVIOUS
<1>2. ASSUME NEW i \in 1 .. Len(u) PROVE u[i] = (s \o t)[i]
  <2>1. CASE i <= a
    BY <1>1, <2>1
  <2>2. CASE i > a
    <3> DEFINE j == i - a
    <3>1. j \in 1 .. Len(t) /\ i = a + j
      BY <1>1, <2>2
    <3> HIDE DEF j
    <3> QED
      BY <1>1, <3>1
  <2> QED
    BY <1>1, <2>1, <2>2
<1> QED
  BY <1>1, <1>2, SeqEqual

LEMMA Joined ==
    ASSUME NEW X, NEW M \in Seq(X), NEW a \in Nat, NEW b \in Nat, a <= b, b <= Len(M)
    PROVE  SubSeq(M, 1, b) = SubSeq(M, 1, a) \o SubSeq(M, a + 1, b)
<1>1. /\ SubSeq(M, 1, a) \in Seq(X) /\ Len(SubSeq(M, 1, a)) = a
      /\ \A i \in 1 .. a : SubSeq(M, 1, a)[i] = M[i]
  OBVIOUS
<1>2. /\ SubSeq(M, a + 1, b) \in Seq(X) /\ Len(SubSeq(M, a + 1, b)) = b - a
      /\ \A i \in 1 .. b - a : SubSeq(M, a + 1, b)[i] = M[a + i]
  OBVIOUS
<1>3. /\ SubSeq(M, 1, b) \in Seq(X) /\ Len(SubSeq(M, 1, b)) = b
      /\ \A i \in 1 .. b : SubSeq(M, 1, b)[i] = M[i]
  OBVIOUS
<1>4. \A i \in 1 .. b - a : SubSeq(M, 1, b)[a + i] = SubSeq(M, a + 1, b)[i]
  BY <1>2, <1>3
<1>5. \A i \in 1 .. a : SubSeq(M, 1, b)[i] = SubSeq(M, 1, a)[i]
  BY <1>1, <1>3
<1>6. b = a + (b - a)
  OBVIOUS
<1> QED
  BY <1>1, <1>2, <1>3, <1>4, <1>5, <1>6, Concatenated

\* As many pages as it takes.
LEMMA PagesSuffice ==
    ASSUME NEW len \in Nat \ {0}, NEW n, n = (len + PageSize - 1) \div PageSize
    PROVE  /\ n \in Nat \ {0} /\ len <= n * PageSize
           /\ \A k \in 1 .. n : (k - 1) * PageSize \in Nat /\ (k - 1) * PageSize < len
           /\ \A k \in 1 .. n - 1 : k * PageSize < len
<1>0. PageSize \in Nat \ {0}
  BY WorkersAreNumbered
<1>1. /\ n \in Int /\ n * PageSize <= len + PageSize - 1
      /\ len + PageSize - 1 < (n + 1) * PageSize
  BY <1>0
<1>2. len <= n * PageSize /\ (n - 1) * PageSize < len
  BY <1>0, <1>1
<1>3. n \in Nat \ {0}
  <2>1. CASE n <= 0
    <3>1. n * PageSize <= 0 /\ n * PageSize \in Int
      BY <1>0, <1>1, <2>1
    <3>2. ~ (len <= n * PageSize)
      BY <3>1
    <3> QED
      BY <1>2, <3>2
  <2> QED
    BY <1>1, <2>1
<1>4. \A a, b \in Int, d \in Nat \ {0} : a <= b => a * d <= b * d
  OBVIOUS
<1>5. ASSUME NEW k \in 1 .. n PROVE (k - 1) * PageSize \in Nat /\ (k - 1) * PageSize < len
  <2>1. (k - 1) * PageSize <= (n - 1) * PageSize /\ (k - 1) * PageSize \in Nat
    BY <1>0, <1>3, <1>4
  <2>2. (n - 1) * PageSize \in Int
    BY <1>0, <1>3
  <2> QED
    BY <1>2, <2>1, <2>2
<1>6. ASSUME NEW k \in 1 .. n - 1 PROVE k * PageSize < len
  <2>1. k + 1 \in 1 .. n /\ (k + 1) - 1 = k
    BY <1>3
  <2> QED
    BY <1>5, <2>1
<1> QED
  BY <1>2, <1>3, <1>5, <1>6

\* The pages of a list, put together, are the list: up to the end of each page it is
\* what it was up to the end of the page before, and the page.
EndsWith(begin, end, G, pages, M, n) ==
    /\ \A k \in 1 .. n :
         /\ begin[k] \in Nat /\ end[k] \in Nat /\ begin[k] <= end[k] /\ end[k] <= Len(M)
         /\ G[k] = SubSeq(M, 1, end[k])
         /\ pages[k] = SubSeq(M, begin[k] + 1, end[k])
    /\ begin[1] = 0 /\ end[n] = Len(M)
    /\ \A k \in 2 .. n : end[k - 1] = begin[k]

LEMMA PagesJoined ==
    ASSUME NEW X, NEW M \in Seq(X), NEW n \in Nat \ {0}, NEW begin, NEW end, NEW G,
           NEW pages \in [1 .. n -> Seq(X)], EndsWith(begin, end, G, pages, M, n)
    PROVE  E!FlattenSeq(pages) = M
<1>1. G[1] = pages[1]
  <2>1. 1 \in 1 .. n
    OBVIOUS
  <2>2. G[1] = SubSeq(M, 1, end[1]) /\ pages[1] = SubSeq(M, begin[1] + 1, end[1])
    BY <2>1 DEF EndsWith
  <2>3. begin[1] + 1 = 1
    BY DEF EndsWith
  <2> QED
    BY <2>2, <2>3
<1>2. ASSUME NEW k \in 2 .. n PROVE G[k] = G[k - 1] \o pages[k]
  <2>1. k \in 1 .. n /\ k - 1 \in 1 .. n
    OBVIOUS
  <2>2. PICK a \in Nat : a = begin[k] /\ a = end[k - 1]
    BY <2>1 DEF EndsWith
  <2>3. PICK b \in Nat : b = end[k] /\ a <= b /\ b <= Len(M)
    BY <2>1, <2>2 DEF EndsWith
  <2>4. G[k - 1] = SubSeq(M, 1, a)
    BY <2>1, <2>2 DEF EndsWith
  <2>5. G[k] = SubSeq(M, 1, b) /\ pages[k] = SubSeq(M, a + 1, b)
    BY <2>1, <2>2, <2>3 DEF EndsWith
  <2>6. SubSeq(M, 1, b) = SubSeq(M, 1, a) \o SubSeq(M, a + 1, b)
    BY <2>3, Joined
  <2> QED
    BY <2>4, <2>5, <2>6
<1>3. Grows(G, pages, n)
  BY <1>1, <1>2 DEF Grows
<1>4. E!FlattenSeq(pages) = G[n]
  BY <1>3, FlattenedStepwise
<1>5. G[n] = SubSeq(M, 1, Len(M))
  <2>1. n \in 1 .. n
    OBVIOUS
  <2> QED
    BY <2>1 DEF EndsWith
<1>6. SubSeq(M, 1, Len(M)) = M
  OBVIOUS
<1> QED
  BY <1>4, <1>5, <1>6

LEMMA PagesTogether ==
    ASSUME NEW X, NEW M \in Seq(X), M # <<>>,
           NEW n, n = (Len(M) + PageSize - 1) \div PageSize,
           NEW pages, DOMAIN pages = 1 .. n, pages = [k \in 1 .. n |-> pages[k]],
           \A k \in 1 .. n :
             pages[k] = SubSeq(M, (k - 1) * PageSize + 1, E!Smaller(k * PageSize, Len(M)))
    PROVE  E!FlattenSeq(pages) = M
<1>0. PageSize \in Nat \ {0}
  BY WorkersAreNumbered
<1>1. Len(M) \in Nat \ {0}
  OBVIOUS
<1>2. /\ n \in Nat \ {0} /\ Len(M) <= n * PageSize
      /\ \A k \in 1 .. n : (k - 1) * PageSize \in Nat /\ (k - 1) * PageSize < Len(M)
      /\ \A k \in 1 .. n - 1 : k * PageSize < Len(M)
  BY <1>1, PagesSuffice
<1> DEFINE begin == [k \in 1 .. n |-> (k - 1) * PageSize]
           end == [k \in 1 .. n |-> E!Smaller(k * PageSize, Len(M))]
           G == [k \in 1 .. n |-> SubSeq(M, 1, end[k])]
<1>3. ASSUME NEW k \in 1 .. n
      PROVE  /\ begin[k] = (k - 1) * PageSize /\ end[k] = E!Smaller(k * PageSize, Len(M))
             /\ G[k] = SubSeq(M, 1, end[k])
  OBVIOUS
<1> HIDE DEF begin, end, G
<1>4. ASSUME NEW k \in 1 .. n
      PROVE  begin[k] \in Nat /\ end[k] \in Nat /\ begin[k] <= end[k] /\ end[k] <= Len(M)
  <2>1. k * PageSize \in Nat /\ (k - 1) * PageSize <= k * PageSize
    BY <1>0, <1>2
  <2> QED
    BY <1>1, <1>2, <1>3, <2>1 DEF E!Smaller
<1>5. ASSUME NEW k \in 1 .. n PROVE pages[k] = SubSeq(M, begin[k] + 1, end[k])
  BY <1>3
<1>6. begin[1] = 0
  <2>1. 1 \in 1 .. n /\ (1 - 1) * PageSize = 0
    BY <1>0, <1>2
  <2> QED
    BY <1>3, <2>1
<1>7. ASSUME NEW k \in 2 .. n PROVE end[k - 1] = begin[k]
  <2>1. k \in 1 .. n /\ k - 1 \in 1 .. n - 1 /\ k - 1 \in 1 .. n
    BY <1>2
  <2>2. begin[k] = (k - 1) * PageSize /\ end[k - 1] = E!Smaller((k - 1) * PageSize, Len(M))
    BY <1>3, <2>1
  <2> QED
    BY <1>2, <2>1, <2>2 DEF E!Smaller
<1>8. end[n] = Len(M)
  <2>1. n * PageSize \in Nat /\ n \in 1 .. n
    BY <1>0, <1>2
  <2> QED
    BY <1>1, <1>2, <1>3, <2>1 DEF E!Smaller
<1>9. ASSUME NEW k \in 1 .. n PROVE pages[k] \in Seq(X)
  <2>1. PICK a \in Nat, b \in Nat : a = begin[k] /\ b = end[k] /\ b <= Len(M)
    BY <1>4
  <2>2. SubSeq(M, a + 1, b) \in Seq(X)
    BY <2>1
  <2> QED
    BY <1>5, <2>1, <2>2
<1>10. pages \in [1 .. n -> Seq(X)]
  BY <1>9
<1>11. EndsWith(begin, end, G, pages, M, n)
  BY <1>3, <1>4, <1>5, <1>6, <1>7, <1>8 DEF EndsWith
<1> QED
  BY <1>2, <1>10, <1>11, PagesJoined

LEMMA SameSize == \A s : E!Cardinality(s) = Cardinality(s)
BY DEF E!Cardinality, Cardinality

\* The leads that match are a sequence.
LEMMA MatchedIsSequence ==
    ASSUME NEW X, rows \in Seq(X), NEW f
    PROVE  \E Y : E!Matched(f) \in Seq(Y)
<1> DEFINE places == {i \in DOMAIN rows : rows[i] \in Matching[f]}
           h(k) == rows[CHOOSE i \in places : E!Cardinality({j \in places : j <= i}) = k]
<1>1. E!Matched(f) = [k \in 1 .. E!Cardinality(places) |-> h(k)]
  BY DEF E!Matched
<1>2. E!Cardinality(places) \in Nat
  <2>1. IsFiniteSet(1 .. Len(rows)) /\ places \subseteq 1 .. Len(rows)
    BY FS_Interval
  <2>2. Cardinality(places) \in Nat
    BY <2>1, FS_Subset, FS_CardinalityType
  <2> QED
    BY <2>2, SameSize
<1> HIDE DEF places, h
<1>3. PICK n \in Nat : n = E!Cardinality(places)
  BY <1>2
<1>4. [k \in 1 .. n |-> h(k)] \in Seq({h(k) : k \in 1 .. n})
  <2>1. [k \in 1 .. n |-> h(k)] \in [1 .. n -> {h(k) : k \in 1 .. n}]
    OBVIOUS
  <2> QED
    BY <2>1
<1> QED
  BY <1>1, <1>3, <1>4

PageAsked == [page : Nat, filter : Views]

ExportFields == {"step", "filter", "total", "next", "pages", "since"}

ExportTyping ==
    /\ rows \in Seq(Exported) /\ filter \in Views /\ changed \in Nat
    /\ exporting = [f \in ExportFields |-> exporting[f]]
    /\ exporting.step \in {"off", "first", "rest"}
    /\ askedFor = [w \in Workers |-> askedFor[w]]
    /\ \A w \in Workers : askedFor[w] \in PageAsked \cup {Nothing}

\* No file is of the future, and that of now is of the list.
FileIsKept ==
    file # Nothing =>
      /\ file.since \in Nat /\ file.since <= changed
      /\ file.since = changed => file.rows = E!Matched(filter)

\* An export began in the past, and if nothing has changed since it asks for what the
\* controls say.
ExportBegan ==
    /\ exporting.step # "off" =>
         /\ exporting.filter \in Views /\ exporting.since \in Nat /\ exporting.since <= changed
         /\ exporting.since = changed => exporting.filter = filter
    /\ exporting.step # "rest" => \A w \in Workers : askedFor[w] = Nothing

\* There is room for each page that is asked for.
PagesHaveRoom ==
    exporting.step = "rest" =>
      /\ exporting.total \in Nat /\ exporting.next \in Nat \ {0} /\ exporting.next <= exporting.total + 1
      /\ exporting.pages = [k \in 1 .. exporting.total |-> exporting.pages[k]]
      /\ \A w \in Workers : askedFor[w] # Nothing => askedFor[w].page \in 1 .. exporting.total

\* If nothing has changed since, each page is there, or is asked for, or will be.
PagesAreThere ==
    exporting.step = "rest" /\ exporting.since = changed =>
      /\ E!Matched(filter) # <<>>
      /\ exporting.total = (Len(E!Matched(filter)) + PageSize - 1) \div PageSize
      /\ \A w \in Workers : askedFor[w] # Nothing => askedFor[w].filter = filter
      /\ \A k \in 1 .. exporting.total :
           \/ exporting.pages[k] = E!PageOf(filter, k)
           \/ k >= exporting.next
           \/ \E w \in Workers : askedFor[w] # Nothing /\ askedFor[w].page = k

ExportIsSound == ExportTyping /\ FileIsKept /\ ExportBegan /\ PagesHaveRoom /\ PagesAreThere

LEMMA ExportBegins == E!Init => ExportIsSound
<1> SUFFICES ASSUME E!Init PROVE ExportIsSound
  OBVIOUS
<1>1. rows \in Seq(Exported)
  <2>1. PICK n \in 0 .. E!Cardinality(Exported) : rows \in [1 .. n -> Exported]
    BY DEF E!Init, E!Rows, E!SeqOf
  <2> QED
    BY <2>1
<1>2. /\ exporting = [f \in ExportFields |-> exporting[f]] /\ exporting.step = "off"
      /\ filter \in Views /\ changed = 0 /\ file = Nothing
      /\ askedFor = [w \in Workers |-> Nothing]
  BY DEF E!Init, E!NoExport, ExportFields
<1> QED
  BY <1>1, <1>2 DEF ExportIsSound, ExportTyping, FileIsKept, ExportBegan, PagesHaveRoom, PagesAreThere

\* As long as neither the list nor the controls change, neither do the pages.
LEMMA PagesStay ==
    UNCHANGED <<rows, filter>> =>
      /\ E!Matched(filter)' = E!Matched(filter)
      /\ \A k : E!PageOf(filter, k)' = E!PageOf(filter, k)
BY DEF E!Matched, E!PageOf

\* The list or the controls change: no file and no export is of now.
LEMMA ThingsChange ==
    ASSUME ExportIsSound, UNCHANGED <<exporting, askedFor, file>>, changed' = changed + 1,
           rows' \in Seq(Exported), filter' \in Views
    PROVE  ExportIsSound'
<1>1. ExportTyping'
  BY DEF ExportIsSound, ExportTyping
<1>2. changed \in Nat
  BY DEF ExportIsSound, ExportTyping
<1>3. FileIsKept'
  <2>1. file # Nothing => file.since \in Nat /\ file.since <= changed
    BY DEF ExportIsSound, FileIsKept
  <2>2. file # Nothing => file.since \in Nat /\ file.since <= changed' /\ file.since # changed'
    BY <1>2, <2>1
  <2> QED
    BY <2>2 DEF FileIsKept
<1>4. exporting.step # "off" =>
        /\ exporting.since \in Nat /\ exporting.since <= changed' /\ exporting.since # changed'
        /\ exporting.filter \in Views
  <2>1. exporting.step # "off" =>
          exporting.since \in Nat /\ exporting.since <= changed /\ exporting.filter \in Views
    BY DEF ExportIsSound, ExportBegan
  <2> QED
    BY <1>2, <2>1
<1>5. ExportBegan'
  BY <1>4 DEF ExportIsSound, ExportBegan
<1>6. PagesHaveRoom'
  BY DEF ExportIsSound, PagesHaveRoom
<1>7. PagesAreThere'
  BY <1>4 DEF PagesAreThere
<1> QED
  BY <1>1, <1>3, <1>5, <1>6, <1>7 DEF ExportIsSound

LEMMA ListChanges == ExportIsSound /\ (E!ChangeList \/ \E f \in Views : E!SetFilter(f)) => ExportIsSound'
<1> SUFFICES ASSUME ExportIsSound, E!ChangeList \/ \E f \in Views : E!SetFilter(f) PROVE ExportIsSound'
  OBVIOUS
<1>0. rows \in Seq(Exported) /\ filter \in Views
  BY DEF ExportIsSound, ExportTyping
<1>1. CASE \E f \in Views : E!SetFilter(f)
  BY <1>0, <1>1, ThingsChange DEF E!SetFilter
<1>2. CASE E!ChangeList
  <2>1. UNCHANGED <<filter, exporting, askedFor, file>> /\ changed' = changed + 1
    BY <1>2 DEF E!ChangeList
  <2>2. CASE \E l \in Exported \ E!ToSet(rows) : rows' = <<l>> \o rows
    <3>1. rows' \in Seq(Exported)
      BY <1>0, <2>2
    <3> QED
      BY <1>0, <2>1, <3>1, ThingsChange
  <2>3. CASE \E i \in DOMAIN rows : rows' = E!RemoveAt(rows, i)
    <3>1. PICK i \in DOMAIN rows : rows' = SubSeq(rows, 1, i - 1) \o SubSeq(rows, i + 1, Len(rows))
      BY <2>3 DEF E!RemoveAt
    <3>2. SubSeq(rows, 1, i - 1) \in Seq(Exported) /\ SubSeq(rows, i + 1, Len(rows)) \in Seq(Exported)
      BY <1>0
    <3>3. rows' \in Seq(Exported)
      BY <3>1, <3>2
    <3> QED
      BY <1>0, <2>1, <3>3, ThingsChange
  <2> QED
    BY <1>2, <2>2, <2>3 DEF E!ChangeList
<1> QED
  BY <1>1, <1>2

\* The export is over, or is given up: nothing is asked for.
LEMMA ExportEnds ==
    ASSUME ExportIsSound, UNCHANGED <<rows, filter, changed>>, exporting' = E!NoExport,
           askedFor' = [w \in Workers |-> Nothing], FileIsKept'
    PROVE  ExportIsSound'
<1>1. E!NoExport = [f \in ExportFields |-> E!NoExport[f]] /\ E!NoExport.step = "off"
  BY DEF E!NoExport, ExportFields
<1>2. ExportTyping'
  BY <1>1 DEF ExportIsSound, ExportTyping
<1> QED
  BY <1>1, <1>2 DEF ExportIsSound, ExportBegan, PagesHaveRoom, PagesAreThere

LEMMA FileStays == ExportIsSound /\ UNCHANGED <<rows, filter, changed, file>> => FileIsKept'
BY PagesStay DEF ExportIsSound, FileIsKept

LEMMA FileWritten ==
    ASSUME ExportIsSound, UNCHANGED <<rows, filter, changed>>, exporting.step # "off", NEW all,
           file' = IF all = <<>> THEN file ELSE [rows |-> all, since |-> exporting.since],
           exporting.since = changed /\ all # <<>> => all = E!Matched(filter)
    PROVE  FileIsKept'
<1>1. CASE all = <<>>
  BY <1>1, FileStays
<1>2. CASE all # <<>>
  <2>1. file'.since = exporting.since /\ file'.rows = all
    BY <1>2
  <2> QED
    BY <1>2, <2>1, PagesStay DEF ExportIsSound, ExportBegan, FileIsKept
<1> QED
  BY <1>1, <1>2

LEMMA ExportFails == ExportIsSound /\ E!Fail => ExportIsSound'
BY FileStays, ExportEnds DEF E!Fail

LEMMA ExportStarts == ExportIsSound /\ E!Export => ExportIsSound'
<1> SUFFICES ASSUME ExportIsSound, E!Export PROVE ExportIsSound'
  OBVIOUS
<1> DEFINE e == [E!NoExport EXCEPT !.step = "first", !.since = changed]
<1>1. exporting' = e /\ UNCHANGED <<rows, filter, changed, askedFor, file>> /\ exporting.step = "off"
  BY DEF E!Export, E!Exports
<1>2. e = [f \in ExportFields |-> e[f]] /\ e.step = "first" /\ e.since = changed /\ e.filter = filter
  BY DEF E!NoExport, ExportFields
<1> HIDE DEF e
<1>3. ExportTyping'
  BY <1>1, <1>2 DEF ExportIsSound, ExportTyping
<1>4. ExportBegan'
  BY <1>1, <1>2 DEF ExportIsSound, ExportBegan, ExportTyping
<1>5. PagesHaveRoom' /\ PagesAreThere'
  BY <1>1, <1>2 DEF PagesHaveRoom, PagesAreThere
<1> QED
  BY <1>1, <1>3, <1>4, <1>5, FileStays DEF ExportIsSound

\* What the pages of a filter are, when some lead matches.
LEMMA PagesOfList ==
    ASSUME ExportIsSound, NEW f, E!Matched(f) # <<>>
    PROVE  /\ \E X : E!Matched(f) \in Seq(X)
           /\ Len(E!Matched(f)) \in Nat \ {0}
           /\ E!TotalPages(f) = (Len(E!Matched(f)) + PageSize - 1) \div PageSize
           /\ E!TotalPages(f) \in Nat \ {0}
           /\ E!TotalPages(f) = 1 => E!PageOf(f, 1) = E!Matched(f)
<1>1. PICK X : E!Matched(f) \in Seq(X)
  BY MatchedIsSequence DEF ExportIsSound, ExportTyping
<1>2. Len(E!Matched(f)) \in Nat \ {0}
  BY <1>1
<1>3. E!TotalPages(f) = (Len(E!Matched(f)) + PageSize - 1) \div PageSize
  BY DEF E!TotalPages
<1>4. E!TotalPages(f) \in Nat \ {0} /\ Len(E!Matched(f)) <= E!TotalPages(f) * PageSize
  BY <1>2, <1>3, PagesSuffice
<1>5. ASSUME E!TotalPages(f) = 1 PROVE E!PageOf(f, 1) = E!Matched(f)
  <2>1. PageSize \in Nat \ {0} /\ Len(E!Matched(f)) <= 1 * PageSize
    BY <1>4, <1>5, WorkersAreNumbered
  <2>2. (1 - 1) * PageSize + 1 = 1 /\ E!Smaller(1 * PageSize, Len(E!Matched(f))) = Len(E!Matched(f))
    BY <1>2, <2>1 DEF E!Smaller
  <2>3. E!PageOf(f, 1) = SubSeq(E!Matched(f), 1, Len(E!Matched(f)))
    BY <2>2 DEF E!PageOf
  <2>4. SubSeq(E!Matched(f), 1, Len(E!Matched(f))) = E!Matched(f)
    BY <1>1
  <2> QED
    BY <2>3, <2>4
<1> QED
  BY <1>1, <1>2, <1>3, <1>4, <1>5

\* Of no lead there is one page, without a row.
LEMMA PageOfNone ==
    ASSUME NEW f, E!Matched(f) = <<>>
    PROVE  E!TotalPages(f) = 1 /\ E!PageOf(f, 1) = <<>>
<1>1. E!Smaller(1 * PageSize, Len(<<>>)) = 0 /\ (1 - 1) * PageSize + 1 = 1
  BY WorkersAreNumbered DEF E!Smaller
<1>2. E!PageOf(f, 1) = SubSeq(<<>>, 1, 0)
  BY <1>1 DEF E!PageOf
<1> QED
  BY <1>2 DEF E!TotalPages

\* The first workers take a page each.
LEMMA WorkersBegin ==
    ASSUME NEW total \in Nat, total >= 2
    PROVE  LET busy == {w \in Workers : w < total}
               m == E!Cardinality(busy) IN
           m \in Nat /\ busy = 1 .. m /\ m + 1 <= total
<1>1. PICK n \in Nat \ {0} : Workers = 1 .. n
  <2>1. PICK n \in Workers : Workers = 1 .. n
    BY WorkersAreNumbered
  <2> QED
    BY <2>1
<1>2. PICK m \in Nat : m + 1 <= total /\ {w \in Workers : w < total} = 1 .. m
  <2>1. CASE n < total
    BY <1>1, <2>1
  <2>2. CASE n >= total
    <3>1. {w \in Workers : w < total} = 1 .. total - 1 /\ total - 1 \in Nat
      BY <1>1, <2>2
    <3> QED
      BY <3>1
  <2> QED
    BY <2>1, <2>2
<1>3. Cardinality(1 .. m) = m
  <2>1. m >= 1 => Cardinality(1 .. m) = m - 1 + 1
    BY FS_Interval
  <2>2. m = 0 => 1 .. m = {}
    OBVIOUS
  <2> QED
    BY <2>1, <2>2, FS_EmptySet
<1> QED
  BY <1>2, <1>3, SameSize

LEMMA FirstAnswered == ExportIsSound /\ E!AnswerFirst => ExportIsSound'
<1> SUFFICES ASSUME ExportIsSound, E!AnswerFirst PROVE ExportIsSound'
  OBVIOUS
<1> DEFINE f == exporting.filter
           first == E!PageOf(f, 1)
           total == E!TotalPages(f)
           busy == {w \in Workers : w < total}
           m == E!Cardinality(busy)
<1>0. exporting.step = "first" /\ UNCHANGED <<rows, filter, changed>>
  BY DEF E!AnswerFirst, E!Exports
<1>1. /\ \A w \in Workers : askedFor[w] = Nothing
      /\ f \in Views
      /\ exporting.since = changed => f = filter
  BY <1>0 DEF ExportIsSound, ExportBegan
<1>2. CASE total = 1
  <2>1. /\ file' = IF first = <<>> THEN file ELSE [rows |-> first, since |-> exporting.since]
        /\ exporting' = E!NoExport /\ askedFor' = askedFor
    BY <1>2 DEF E!AnswerFirst, E!Write
  <2>2. askedFor' = [w \in Workers |-> Nothing]
    BY <1>1, <2>1 DEF ExportIsSound, ExportTyping
  <2>3. first # <<>> => first = E!Matched(f)
    BY <1>2, PagesOfList, PageOfNone
  <2>4. FileIsKept'
    <3>1. PICK all : all = first
      OBVIOUS
    <3>2. file' = IF all = <<>> THEN file ELSE [rows |-> all, since |-> exporting.since]
      BY <2>1, <3>1
    <3>3. exporting.since = changed /\ all # <<>> => all = E!Matched(filter)
      BY <1>1, <2>3, <3>1
    <3> HIDE DEF first
    <3>4. exporting.step # "off"
      BY <1>0
    <3> QED
      BY <1>0, <3>2, <3>3, <3>4, FileWritten
  <2> QED
    BY <1>0, <2>1, <2>2, <2>4, ExportEnds
<1>3. CASE total # 1
  <2> DEFINE pages == [k \in 1 .. total |-> IF k = 1 THEN first ELSE <<>>]
             e == [exporting EXCEPT !.step = "rest", !.total = total, !.next = 2 + m, !.pages = pages]
  <2>1. /\ exporting' = e /\ file' = file
        /\ askedFor' = [w \in Workers |-> IF w \in busy THEN [page |-> w + 1, filter |-> filter] ELSE Nothing]
    BY <1>3 DEF E!AnswerFirst
  <2>2. E!Matched(f) # <<>>
    BY <1>3, PageOfNone
  <2>3. total \in Nat /\ total >= 2 /\ total = (Len(E!Matched(f)) + PageSize - 1) \div PageSize
    BY <1>3, <2>2, PagesOfList
  <2>4. m \in Nat /\ busy = 1 .. m /\ m + 1 <= total
    BY <2>3, WorkersBegin
  <2> HIDE DEF total, m, first
  <2>5. pages = [k \in 1 .. total |-> pages[k]] /\ pages[1] = first
    BY <2>3
  <2> HIDE DEF pages
  <2>6. /\ e = [g \in ExportFields |-> e[g]] /\ e.step = "rest" /\ e.total = total /\ e.next = 2 + m
        /\ e.pages = pages /\ e.filter = exporting.filter /\ e.since = exporting.since
    BY DEF ExportIsSound, ExportTyping, ExportFields
  <2> HIDE DEF e, busy
  <2>7. askedFor' = [w \in Workers |-> askedFor'[w]]
    BY <2>1
  <2>8. ASSUME NEW w \in Workers
        PROVE  /\ w \in busy => askedFor'[w] = [page |-> w + 1, filter |-> filter]
               /\ w \notin busy => askedFor'[w] = Nothing
    BY <2>1
  <2>9. ASSUME NEW w \in busy
        PROVE  [page |-> w + 1, filter |-> filter] \in PageAsked /\ w + 1 \in 1 .. total /\ w \in Workers
    <3>1. w \in Nat /\ w \in Workers /\ w + 1 \in 1 .. total
      BY <2>3, <2>4 DEF busy
    <3> QED
      BY <3>1 DEF PageAsked, ExportIsSound, ExportTyping
  <2>10. ExportTyping'
    BY <1>0, <2>1, <2>6, <2>7, <2>8, <2>9 DEF ExportIsSound, ExportTyping
  <2>11. ExportBegan'
    BY <1>0, <2>1, <2>6 DEF ExportIsSound, ExportBegan
  <2>12. PagesHaveRoom'
    <3>1. /\ total \in Nat /\ 2 + m \in Nat \ {0} /\ 2 + m <= total + 1
          /\ pages = [k \in 1 .. total |-> pages[k]]
      BY <2>3, <2>4, <2>5
    <3>2. ASSUME NEW w \in Workers, askedFor'[w] # Nothing
          PROVE  askedFor'[w].page \in 1 .. total
      <4>1. w \in busy
        BY <2>8, <3>2
      <4>2. askedFor'[w] = [page |-> w + 1, filter |-> filter]
        BY <2>8, <4>1
      <4>3. askedFor'[w].page = w + 1
        BY <4>2
      <4> QED
        BY <2>9, <4>1, <4>3
    <3> QED
      BY <2>1, <2>6, <3>1, <3>2 DEF PagesHaveRoom
  <2>13. ASSUME exporting'.since = changed' PROVE PagesAreThere'
    <3>0. exporting.since = changed
      BY <1>0, <2>1, <2>6, <2>13
    <3>1. f = filter
      BY <1>1, <3>0
    <3>2. E!Matched(filter)' = E!Matched(filter) /\ \A k : E!PageOf(filter, k)' = E!PageOf(filter, k)
      BY <1>0, PagesStay
    <3>3. ASSUME NEW w \in Workers, askedFor'[w] # Nothing
          PROVE  askedFor'[w].filter = filter
      <4>1. w \in busy
        BY <2>8, <3>3
      <4>2. askedFor'[w] = [page |-> w + 1, filter |-> filter]
        BY <2>8, <4>1
      <4> QED
        BY <4>2
    <3>4. ASSUME NEW k \in 1 .. total
          PROVE  \/ pages[k] = E!PageOf(filter, k)
                 \/ k >= 2 + m
                 \/ \E w \in Workers : askedFor'[w] # Nothing /\ askedFor'[w].page = k
      <4>1. CASE k = 1
        BY <2>5, <3>1, <4>1 DEF first
      <4>2. CASE k \in 2 .. m + 1
        <5>1. k - 1 \in busy /\ (k - 1) + 1 = k
          BY <2>4, <4>2
        <5>2. askedFor'[k - 1] = [page |-> k, filter |-> filter] /\ k - 1 \in Workers
          BY <2>8, <2>9, <5>1
        <5>3. askedFor'[k - 1] # Nothing
          BY <2>9, <5>1, <5>2, NothingIsNothing DEF PageAsked
        <5> QED
          BY <5>2, <5>3
      <4> QED
        BY <2>3, <2>4, <4>1, <4>2
    <3> QED
      BY <1>0, <2>1, <2>2, <2>3, <2>6, <3>1, <3>2, <3>3, <3>4 DEF PagesAreThere
  <2>14. PagesAreThere'
    BY <2>13 DEF PagesAreThere
  <2> QED
    BY <1>0, <2>1, <2>10, <2>11, <2>12, <2>14, FileStays DEF ExportIsSound
<1> QED
  BY <1>2, <1>3

\* What is known when a worker's page comes: it has a place, and if nothing has changed
\* since it is the page of what the controls say.
LEMMA PageComes ==
    ASSUME ExportIsSound, NEW w \in Workers, askedFor[w] # Nothing,
           NEW pages, pages = E!Stored(exporting.pages, askedFor[w].page,
                                       E!PageOf(askedFor[w].filter, askedFor[w].page))
    PROVE  /\ exporting.step = "rest"
           /\ exporting.total \in Nat /\ exporting.next \in Nat \ {0}
           /\ exporting.next <= exporting.total + 1
           /\ pages = [k \in 1 .. exporting.total |-> pages[k]]
           /\ exporting.since = changed =>
                /\ E!Matched(filter) # <<>>
                /\ exporting.total = (Len(E!Matched(filter)) + PageSize - 1) \div PageSize
                /\ \A k \in 1 .. exporting.total :
                     \/ pages[k] = E!PageOf(filter, k)
                     \/ k >= exporting.next
                     \/ \E v \in Workers \ {w} : askedFor[v] # Nothing /\ askedFor[v].page = k
<1>1. exporting.step = "rest"
  BY DEF ExportIsSound, ExportBegan
<1>2. /\ exporting.total \in Nat /\ exporting.next \in Nat \ {0}
      /\ exporting.next <= exporting.total + 1
      /\ exporting.pages = [k \in 1 .. exporting.total |-> exporting.pages[k]]
      /\ askedFor[w].page \in 1 .. exporting.total
  BY <1>1 DEF ExportIsSound, PagesHaveRoom
<1> DEFINE p == askedFor[w].page
           row == E!PageOf(askedFor[w].filter, p)
<1>3. pages = [exporting.pages EXCEPT ![p] = row]
  BY DEF E!Stored
<1> HIDE DEF row
<1>4. /\ pages = [k \in 1 .. exporting.total |-> pages[k]] /\ pages[p] = row
      /\ \A k \in 1 .. exporting.total : k # p => pages[k] = exporting.pages[k]
  BY <1>2, <1>3
<1>5. ASSUME exporting.since = changed
      PROVE  /\ E!Matched(filter) # <<>>
             /\ exporting.total = (Len(E!Matched(filter)) + PageSize - 1) \div PageSize
             /\ askedFor[w].filter = filter
             /\ \A k \in 1 .. exporting.total :
                  \/ exporting.pages[k] = E!PageOf(filter, k)
                  \/ k >= exporting.next
                  \/ \E v \in Workers : askedFor[v] # Nothing /\ askedFor[v].page = k
  BY <1>1, <1>5 DEF ExportIsSound, PagesAreThere
<1>6. ASSUME exporting.since = changed, NEW k \in 1 .. exporting.total
      PROVE  \/ pages[k] = E!PageOf(filter, k)
             \/ k >= exporting.next
             \/ \E v \in Workers \ {w} : askedFor[v] # Nothing /\ askedFor[v].page = k
  <2>1. CASE k = p
    <3>1. row = E!PageOf(filter, p)
      BY <1>5, <1>6 DEF row
    <3> QED
      BY <1>4, <2>1, <3>1
  <2>2. CASE k # p
    <3>1. pages[k] = exporting.pages[k]
      BY <1>4, <2>2
    <3>2. \A v \in Workers : askedFor[v].page = k => v # w
      BY <2>2
    <3>3. \/ exporting.pages[k] = E!PageOf(filter, k)
          \/ k >= exporting.next
          \/ \E v \in Workers : askedFor[v] # Nothing /\ askedFor[v].page = k
      BY <1>5, <1>6
    <3> QED
      BY <3>1, <3>2, <3>3
  <2> QED
    BY <2>1, <2>2
<1>7. exporting.since = changed =>
        \A k \in 1 .. exporting.total :
             \/ pages[k] = E!PageOf(filter, k)
             \/ k >= exporting.next
             \/ \E v \in Workers \ {w} : askedFor[v] # Nothing /\ askedFor[v].page = k
  BY <1>6
<1>8. exporting.since = changed =>
                /\ E!Matched(filter) # <<>>
                /\ exporting.total = (Len(E!Matched(filter)) + PageSize - 1) \div PageSize
  BY <1>5
<1>9. pages = [k \in 1 .. exporting.total |-> pages[k]]
  BY <1>4
<1> QED
  BY <1>1, <1>2, <1>7, <1>8, <1>9

\* A worker takes the next page.
LEMMA NextPageTaken ==
    ASSUME ExportIsSound, NEW w \in Workers, E!Answer(w), exporting.next <= exporting.total
    PROVE  ExportIsSound'
<1> DEFINE pages == E!Stored(exporting.pages, askedFor[w].page, E!PageOf(askedFor[w].filter, askedFor[w].page))
           e == [exporting EXCEPT !.pages = pages, !.next = @ + 1]
           q == [page |-> exporting.next, filter |-> filter]
<1>1. /\ askedFor[w] # Nothing /\ exporting' = e /\ askedFor' = [askedFor EXCEPT ![w] = q]
      /\ UNCHANGED <<rows, filter, changed, file>>
  BY DEF E!Answer
<1>2. /\ exporting.step = "rest"
      /\ exporting.total \in Nat /\ exporting.next \in Nat \ {0}
      /\ exporting.next <= exporting.total + 1
      /\ pages = [k \in 1 .. exporting.total |-> pages[k]]
      /\ exporting.since = changed =>
           /\ E!Matched(filter) # <<>>
           /\ exporting.total = (Len(E!Matched(filter)) + PageSize - 1) \div PageSize
           /\ \A k \in 1 .. exporting.total :
                \/ pages[k] = E!PageOf(filter, k)
                \/ k >= exporting.next
                \/ \E v \in Workers \ {w} : askedFor[v] # Nothing /\ askedFor[v].page = k
  <2>1. askedFor[w] # Nothing
    BY <1>1
  <2> HIDE DEF e, q
  <2> QED
    BY <2>1, PageComes
<1> HIDE DEF pages
<1>3. /\ e = [g \in ExportFields |-> e[g]] /\ e.step = "rest" /\ e.total = exporting.total
      /\ e.next = exporting.next + 1 /\ e.pages = pages
      /\ e.filter = exporting.filter /\ e.since = exporting.since
  BY <1>2 DEF ExportIsSound, ExportTyping, ExportFields
<1> HIDE DEF e
<1>4. q \in PageAsked /\ q # Nothing /\ q.page = exporting.next /\ q.filter = filter
  <2>1. q \in PageAsked
    BY <1>2 DEF PageAsked, ExportIsSound, ExportTyping
  <2> QED
    BY <2>1, NothingIsNothing DEF PageAsked
<1> HIDE DEF q
<1>5. /\ askedFor' = [v \in Workers |-> askedFor'[v]] /\ askedFor'[w] = q
      /\ \A v \in Workers \ {w} : askedFor'[v] = askedFor[v]
  BY <1>1 DEF ExportIsSound, ExportTyping
<1>6. ExportTyping'
  BY <1>1, <1>3, <1>4, <1>5 DEF ExportIsSound, ExportTyping
<1>7. ExportBegan'
  BY <1>1, <1>2, <1>3 DEF ExportIsSound, ExportBegan
<1>8. PagesHaveRoom'
  <2>1. ASSUME NEW v \in Workers, askedFor'[v] # Nothing
        PROVE  askedFor'[v].page \in 1 .. exporting.total
    <3>1. CASE v = w
      BY <1>2, <1>4, <1>5, <3>1
    <3>2. CASE v # w
      BY <1>2, <1>5, <2>1, <3>2 DEF ExportIsSound, PagesHaveRoom
    <3> QED
      BY <3>1, <3>2
  <2>2. exporting.next + 1 \in Nat \ {0} /\ exporting.next + 1 <= exporting.total + 1
    BY <1>2
  <2> QED
    BY <1>1, <1>2, <1>3, <2>1, <2>2 DEF PagesHaveRoom
<1>9. ASSUME exporting'.since = changed' PROVE PagesAreThere'
  <2>1. exporting.since = changed
    BY <1>1, <1>3, <1>9
  <2>2. E!Matched(filter)' = E!Matched(filter) /\ \A k : E!PageOf(filter, k)' = E!PageOf(filter, k)
    BY <1>1, PagesStay
  <2>3. ASSUME NEW v \in Workers, askedFor'[v] # Nothing
        PROVE  askedFor'[v].filter = filter
    <3>1. CASE v = w
      BY <1>4, <1>5, <3>1
    <3>2. CASE v # w
      BY <1>2, <1>5, <2>1, <2>3, <3>2 DEF ExportIsSound, PagesAreThere
    <3> QED
      BY <3>1, <3>2
  <2>4. ASSUME NEW k \in 1 .. exporting.total
        PROVE  \/ pages[k] = E!PageOf(filter, k)
               \/ k >= exporting.next + 1
               \/ \E v \in Workers : askedFor'[v] # Nothing /\ askedFor'[v].page = k
    <3>1. \/ pages[k] = E!PageOf(filter, k)
          \/ k >= exporting.next
          \/ \E v \in Workers \ {w} : askedFor[v] # Nothing /\ askedFor[v].page = k
      BY <1>2, <2>1
    <3>2. CASE k = exporting.next
      <4>1. askedFor'[w] # Nothing /\ askedFor'[w].page = k
        BY <1>4, <1>5, <3>2
      <4> QED
        BY <4>1
    <3>3. CASE \E v \in Workers \ {w} : askedFor[v] # Nothing /\ askedFor[v].page = k
      BY <1>5, <3>3
    <3> QED
      BY <1>2, <3>1, <3>2, <3>3
  <2>5. /\ exporting'.total = exporting.total /\ exporting'.next = exporting.next + 1
        /\ exporting'.pages = pages /\ filter' = filter
    BY <1>1, <1>3
  <2>6. E!Matched(filter) # <<>> /\ exporting.total = (Len(E!Matched(filter)) + PageSize - 1) \div PageSize
    BY <1>2, <2>1
  <2> QED
    BY <2>2, <2>3, <2>4, <2>5, <2>6 DEF PagesAreThere
<1>10. PagesAreThere'
  BY <1>9 DEF PagesAreThere
<1> QED
  BY <1>1, <1>6, <1>7, <1>8, <1>10, FileStays DEF ExportIsSound

\* A worker finds no more page; the last one writes the file.
LEMMA PagesEnd ==
    ASSUME ExportIsSound, NEW w \in Workers, E!Answer(w), ~ (exporting.next <= exporting.total)
    PROVE  ExportIsSound'
<1> DEFINE pages == E!Stored(exporting.pages, askedFor[w].page, E!PageOf(askedFor[w].filter, askedFor[w].page))
           e == [exporting EXCEPT !.pages = pages]
           last == \A v \in Workers \ {w} : askedFor[v] = Nothing
<1>1. /\ askedFor[w] # Nothing /\ askedFor' = [askedFor EXCEPT ![w] = Nothing]
      /\ UNCHANGED <<rows, filter, changed>>
      /\ ~ last => exporting' = e /\ UNCHANGED file
      /\ last => E!Write(E!FlattenSeq(pages))
  BY DEF E!Answer
<1>2. /\ exporting.step = "rest"
      /\ exporting.total \in Nat /\ exporting.next \in Nat \ {0}
      /\ exporting.next <= exporting.total + 1
      /\ pages = [k \in 1 .. exporting.total |-> pages[k]]
      /\ exporting.since = changed =>
           /\ E!Matched(filter) # <<>>
           /\ exporting.total = (Len(E!Matched(filter)) + PageSize - 1) \div PageSize
           /\ \A k \in 1 .. exporting.total :
                \/ pages[k] = E!PageOf(filter, k)
                \/ k >= exporting.next
                \/ \E v \in Workers \ {w} : askedFor[v] # Nothing /\ askedFor[v].page = k
  <2>1. askedFor[w] # Nothing
    BY <1>1
  <2> HIDE DEF e, last
  <2> QED
    BY <2>1, PageComes
<1>3. /\ askedFor' = [v \in Workers |-> askedFor'[v]] /\ askedFor'[w] = Nothing
      /\ \A v \in Workers \ {w} : askedFor'[v] = askedFor[v]
  BY <1>1 DEF ExportIsSound, ExportTyping
<1>4. \A k \in 1 .. exporting.total : ~ (k >= exporting.next)
  BY <1>2
<1> HIDE DEF pages
<1>5. CASE last
  <2>1. PICK all : all = E!FlattenSeq(pages)
    OBVIOUS
  <2>2. /\ file' = IF all = <<>> THEN file ELSE [rows |-> all, since |-> exporting.since]
        /\ exporting' = E!NoExport
    BY <1>1, <1>5, <2>1 DEF E!Write
  <2>3. exporting.since = changed => all = E!Matched(filter)
    <3> SUFFICES ASSUME exporting.since = changed PROVE E!FlattenSeq(pages) = E!Matched(filter)
      BY <2>1
    <3>1. \A k \in 1 .. exporting.total : pages[k] = E!PageOf(filter, k)
      BY <1>2, <1>4, <1>5
    <3>2. PICK M : M = E!Matched(filter)
      OBVIOUS
    <3>3. PICK X : M \in Seq(X)
      BY <1>2, <3>2, PagesOfList
    <3>4. \A k \in 1 .. exporting.total :
            pages[k] = SubSeq(M, (k - 1) * PageSize + 1, E!Smaller(k * PageSize, Len(M)))
      BY <3>1, <3>2 DEF E!PageOf
    <3>5. M # <<>> /\ exporting.total = (Len(M) + PageSize - 1) \div PageSize
      BY <1>2, <3>2
    <3>6. PICK n : n = exporting.total
      OBVIOUS
    <3>7. pages = [k \in 1 .. n |-> pages[k]] /\ DOMAIN pages = 1 .. n
      BY <1>2, <3>6
    <3>8. E!FlattenSeq(pages) = M
      BY <3>3, <3>4, <3>5, <3>6, <3>7, PagesTogether
    <3> QED
      BY <3>2, <3>8
  <2>4. askedFor' = [v \in Workers |-> Nothing]
    BY <1>3, <1>5
  <2>5. exporting.step # "off"
    BY <1>2
  <2>6. FileIsKept'
    BY <1>1, <2>2, <2>3, <2>5, FileWritten
  <2> QED
    BY <1>1, <2>2, <2>4, <2>6, ExportEnds
<1>6. CASE ~ last
  <2>1. exporting' = e /\ UNCHANGED file
    BY <1>1, <1>6
  <2>2. /\ e = [g \in ExportFields |-> e[g]] /\ e.step = "rest" /\ e.total = exporting.total
        /\ e.next = exporting.next /\ e.pages = pages
        /\ e.filter = exporting.filter /\ e.since = exporting.since
    BY <1>2 DEF ExportIsSound, ExportTyping, ExportFields
  <2> HIDE DEF e, last
  <2>3. ExportTyping'
    BY <1>1, <1>3, <2>1, <2>2 DEF ExportIsSound, ExportTyping
  <2>4. ExportBegan'
    BY <1>1, <1>2, <2>1, <2>2 DEF ExportIsSound, ExportBegan
  <2>5. PagesHaveRoom'
    <3>1. \A v \in Workers : askedFor'[v] # Nothing => askedFor'[v] = askedFor[v]
      BY <1>3
    <3> QED
      BY <1>1, <1>2, <2>1, <2>2, <3>1 DEF ExportIsSound, PagesHaveRoom
  <2>6. ASSUME exporting'.since = changed' PROVE PagesAreThere'
    <3>1. exporting.since = changed
      BY <1>1, <2>1, <2>2, <2>6
    <3>2. E!Matched(filter)' = E!Matched(filter) /\ \A k : E!PageOf(filter, k)' = E!PageOf(filter, k)
      BY <1>1, PagesStay
    <3>3. ASSUME NEW v \in Workers, askedFor'[v] # Nothing
          PROVE  askedFor'[v].filter = filter
      <4>1. askedFor'[v] = askedFor[v]
        BY <1>3, <3>3
      <4> QED
        BY <1>2, <3>1, <3>3, <4>1 DEF ExportIsSound, PagesAreThere
    <3>4. ASSUME NEW k \in 1 .. exporting.total
          PROVE  \/ pages[k] = E!PageOf(filter, k)
                 \/ k >= exporting.next
                 \/ \E v \in Workers : askedFor'[v] # Nothing /\ askedFor'[v].page = k
      <4>1. \/ pages[k] = E!PageOf(filter, k)
            \/ k >= exporting.next
            \/ \E v \in Workers \ {w} : askedFor[v] # Nothing /\ askedFor[v].page = k
        BY <1>2, <3>1
      <4> QED
        BY <1>3, <4>1
    <3>5. /\ exporting'.total = exporting.total /\ exporting'.next = exporting.next
          /\ exporting'.pages = pages /\ filter' = filter
      BY <1>1, <2>1, <2>2
    <3>6. E!Matched(filter) # <<>> /\ exporting.total = (Len(E!Matched(filter)) + PageSize - 1) \div PageSize
      BY <1>2, <3>1
    <3> QED
      BY <3>2, <3>3, <3>4, <3>5, <3>6 DEF PagesAreThere
  <2>7. PagesAreThere'
    BY <2>6 DEF PagesAreThere
  <2> QED
    BY <1>1, <2>1, <2>3, <2>4, <2>5, <2>7, FileStays DEF ExportIsSound
<1> QED
  BY <1>5, <1>6

LEMMA ExportStep == ExportIsSound /\ [E!Next]_exportVars => ExportIsSound'
<1> SUFFICES ASSUME ExportIsSound, [E!Next]_exportVars PROVE ExportIsSound'
  OBVIOUS
<1>1. CASE E!ChangeList \/ \E f \in Views : E!SetFilter(f)
  BY <1>1, ListChanges
<1>2. CASE E!Export
  BY <1>2, ExportStarts
<1>3. CASE E!AnswerFirst
  BY <1>3, FirstAnswered
<1>4. CASE \E w \in Workers : E!Answer(w)
  BY <1>4, NextPageTaken, PagesEnd
<1>5. CASE E!Fail
  BY <1>5, ExportFails
<1>6. CASE UNCHANGED exportVars
  <2>1. UNCHANGED <<rows, filter, changed, exporting, askedFor, file>>
    BY <1>6 DEF exportVars
  <2>2. FileIsKept' /\ PagesAreThere'
    BY <2>1, FileStays, PagesStay DEF ExportIsSound, PagesAreThere
  <2> QED
    BY <2>1, <2>2 DEF ExportIsSound, ExportTyping, ExportBegan, PagesHaveRoom
<1> QED
  BY <1>1, <1>2, <1>3, <1>4, <1>5, <1>6 DEF E!Next

LEMMA ExportProperties == ExportIsSound => E!FileIsOfList
BY DEF ExportIsSound, FileIsKept, E!FileIsOfList

-----------------------------------------------------------------------------
(* The pages beside each other.                                            *)

\* A step of one page is a step of it, or leaves it as it is.
LEMMA PagesStep ==
    [ScreensNext]_screensVars =>
      /\ [Next]_vars /\ [S!Next]_searchVars /\ [L!Next]_listVars
      /\ [W!Next]_viewVars /\ [R!SalesNext \/ R!SearchNext]_reportVars
      /\ [T!Next]_trackVars /\ [E!Next]_exportVars
BY DEF ScreensNext, screensVars, otherVars

\* What the pages keep of themselves.
PagesAreSound ==
    /\ WorkspaceIsSound /\ SearchIsSound /\ ListIsSound /\ ViewIsSound
    /\ TrackIsSound /\ ReportIsSound /\ ExportIsSound

LEMMA PagesKeepSound == ScreensSpec => []PagesAreSound
<1>1. ScreensInit => PagesAreSound
  BY WorkspaceBegins, SearchBegins, ListBegins, ViewBegins, TrackBegins, ReportBegins, ExportBegins
     DEF ScreensInit, PagesAreSound
<1>2. PagesAreSound /\ [ScreensNext]_screensVars => PagesAreSound'
  BY PagesStep, WorkspaceStep, SearchStep, ListStep, ViewStep, TrackStep, ReportStep, ExportStep
     DEF PagesAreSound
<1> QED
  BY <1>1, <1>2, PTL DEF ScreensSpec

\* Whatever the leads, companies and mails, and however many clicks and answers: what
\* unlocks generation, review and approval is of the lead that is selected.
THEOREM PanelsOfSelection == ScreensSpec => []PanelsAreOfSelection
<1>1. PagesAreSound => PanelsAreOfSelection
  BY WorkspaceProperties, ListProperties DEF PagesAreSound, PanelsAreOfSelection
<1> QED
  BY <1>1, PagesKeepSound, PTL

\* Whatever is being loaded is on its way, and no job of a search is lost sight of.
THEOREM NothingHangs == ScreensSpec => []NothingIsLeftHanging
<1>1. PagesAreSound => NothingIsLeftHanging
  BY WorkspaceProperties, SearchProperties DEF PagesAreSound, NothingIsLeftHanging
<1> QED
  BY <1>1, PagesKeepSound, PTL

\* Whatever was clicked, and in whatever order the answers come: what a page lists is
\* what it was last asked for, and the file of an export is the list.
THEOREM ListsOfLastRequest == ScreensSpec => []ListsAreOfLastRequest
<1>1. PagesAreSound => ListsAreOfLastRequest
  BY SearchProperties, ListProperties, ViewProperties, ExportProperties
     DEF PagesAreSound, ListsAreOfLastRequest
<1> QED
  BY <1>1, PagesKeepSound, PTL

\* Whatever happens between the queries of a report, and between the statements of the
\* requests of readers: reports are of their time, and clicks are counted once.
THEOREM ReportsOfTheirTime == ScreensSpec => []ReportsAreOfTheirTime
<1>1. PagesAreSound => ReportsAreOfTheirTime
  BY ReportProperties, TrackProperties DEF PagesAreSound, ReportsAreOfTheirTime
<1> QED
  BY <1>1, PagesKeepSound, PTL
=============================================================================
