---------------------------- MODULE RecordsProofs ----------------------------
(***************************************************************************)
(* Proofs about LeadAnalysis, for any leads, projects, contents and users, *)
(* and about Contacts, for any companies, addresses, mails and requests.   *)
(*                                                                         *)
(* Analyses.                                                               *)
(* What a screen showed and what a transaction read stays true until the   *)
(* commit, because whoever could change it waits for one of the locks.     *)
(* The invariant Sane says so: the requests inside a transaction hold      *)
(* disjoint locks (Exclusive), a request carries what its screen shows     *)
(* (AsShown), and what was decided under the locks still holds (Decided).  *)
(*                                                                         *)
(* Contacts.                                                               *)
(* No change of a contact is visible to whoever decided on it before: two  *)
(* requests at work never have a key in common (KeysDiffer), so the marks  *)
(* a change will clear are all there are (ChangeIsSound), the mail of a    *)
(* draft is not yet made (DraftIsSound) and the reply not yet recorded     *)
(* (ReplyIsSound).  Unsubscription takes no lock; what it needs is that    *)
(* its contact stays silent until an operator lifts it (StoppedAreSilent). *)
(* Every step is brought under one description, Moves, and the invariant   *)
(* ContactsAreSane is proved from that.                                    *)
(***************************************************************************)
EXTENDS LeadAnalysis, Contacts, FiniteSetTheorems, WellFoundedInduction, SequenceTheorems, TLAPS

-----------------------------------------------------------------------------
(* The latest of some versions.                                            *)

\* A set of naturals with a bound has a greatest member: of the sets of the
\* members that are not smaller than a given one, one is minimal.
LEMMA Greatest ==
    ASSUME NEW n \in Nat, NEW V \in SUBSET (0..n), V # {}
    PROVE  \E m \in V : \A w \in V : m >= w
<1> DEFINE Above(m) == {w \in V : w > m}
           Sets == {Above(m) : m \in V}
<1>1. IsFiniteSet(V)
  <2>1. IsFiniteSet(0..n)
    BY FS_Interval
  <2> QED
    BY <2>1, FS_Subset
<1>2. Sets \subseteq FiniteSubsetsOf(V)
  BY <1>1, FS_FiniteSubsetsOfFinite
<1>3. Sets # {}
  OBVIOUS
<1>4. IsWellFoundedOn(StrictSubsetOrdering(V), FiniteSubsetsOf(V))
  BY FS_StrictSubsetOrderingWellFounded
<1>5. PICK s \in Sets : \A t \in Sets : <<t, s>> \notin StrictSubsetOrdering(V)
  <2> HIDE DEF Sets
  <2> QED BY <1>2, <1>3, <1>4, WFMin
<1>6. PICK m \in V : s = Above(m)
  BY <1>5
<1>7. ASSUME NEW w \in V, w > m PROVE FALSE
  <2>1. Above(w) \in Sets
    OBVIOUS
  <2>2. Above(w) \subseteq Above(m) /\ Above(w) # Above(m)
    <3>1. V \subseteq Int /\ w \in V /\ w > m
      BY <1>7
    <3>2. \A x \in V : x > w => x > m
      BY <3>1
    <3>3. w \in Above(m) /\ w \notin Above(w)
      BY <3>1
    <3> QED
      BY <3>2, <3>3
  <2>3. <<Above(w), Above(m)>> \in StrictSubsetOrdering(V)
    <3>1. Above(w) \in SUBSET V /\ Above(m) \in SUBSET V
      OBVIOUS
    <3> HIDE DEF Above
    <3> QED
      BY <2>2, <3>1 DEF StrictSubsetOrdering
  <2> QED
    BY <2>1, <2>3, <1>5, <1>6
<1> QED
  BY <1>7

LEMMA LatestIsOne ==
    ASSUME NEW V \in SUBSET Versions
    PROVE  /\ Latest(V) \in Versions
           /\ V # {} => Latest(V) \in V
<1>1. CASE V = {}
  BY <1>1, BoundIsNatural DEF Latest, Versions
<1>2. CASE V # {}
  <2>1. \E m \in V : \A w \in V : m >= w
    BY <1>2, Greatest, BoundIsNatural DEF Versions
  <2> QED
    BY <1>2, <2>1 DEF Latest
<1> QED
  BY <1>1, <1>2

-----------------------------------------------------------------------------
(* The invariant.                                                          *)

\* No list of revisions is longer than its bound.
Bounded == \A l \in Leads : Version(l) <= MaxVersion

\* Requests inside their transactions hold different locks.
Exclusive ==
    \A u \in Users : \A k \in Users \ {u} :
        Inside(u) /\ Inside(k) => Locks(work[u]) \cap Locks(work[k]) = {}

\* A request carries what the screen it was sent from still shows.
AsShown ==
    \A u \in Users : ~Idle(u) /\ work[u].kind \in {"save", "confirm", "draft"} =>
        /\ view[u] # Nothing
        /\ view[u].lead = work[u].lead
        /\ view[u].content = work[u].content
        /\ work[u].version = IF work[u].kind = "draft" THEN view[u].confirmed ELSE view[u].version

Writers == {"save", "confirm", "analyze"}

\* What was decided under the locks.  The content of a project that is shared may
\* change meanwhile: an edit of another of its leads takes that lead's lock only.
StillHolds(w) ==
    /\ w.kind # "open"
    /\ w.kind \in Writers => w.version = Version(w.lead)
    /\ w.kind \in Writers /\ Unshared(w.lead) => w.content = ContentOf(w.lead)
    /\ w.kind = "confirm" => w.complete
    /\ w.kind = "draft" => mails[w.lead] = <<>>
    /\ w.kind = "draft" /\ Unshared(w.lead) =>
         w.version = Latest(Usable(w.lead)) /\ Usable(w.lead) # {}

Decided == \A u \in Users : Inside(u) => StillHolds(work[u])

Sane == TypeOK /\ Bounded /\ Exclusive /\ AsShown /\ Decided

LEMMA InitSane == Init => Sane
<1> SUFFICES ASSUME Init PROVE Sane
  OBVIOUS
<1>1. TypeOK
  <2>1. content \in [Projects -> Contents]
    BY DEF Init
  <2> QED
    BY <2>1 DEF Init, TypeOK
<1>2. \A u \in Users : work[u] = Nothing
  BY DEF Init
<1>3. Exclusive /\ AsShown /\ Decided
  BY <1>2 DEF Exclusive, AsShown, Decided, Inside, Idle
<1>4. Bounded
  BY BoundIsNatural DEF Init, Bounded, Version
<1> QED
  BY <1>1, <1>3, <1>4 DEF Sane

-----------------------------------------------------------------------------
(* Types.                                                                  *)

LEMMA VersionIsOne ==
    ASSUME TypeOK, Bounded, NEW l \in Leads
    PROVE  Version(l) \in Versions
<1>1. revisions[l] \in Seq(Revision)
  BY DEF TypeOK
<1>2. Len(revisions[l]) \in Nat /\ Len(revisions[l]) <= MaxVersion
  BY <1>1, LenProperties DEF Bounded, Version
<1> QED
  BY <1>2, BoundIsNatural DEF Version, Versions

LEMMA ContentIsOne ==
    ASSUME TypeOK, NEW l \in Leads
    PROVE  ContentOf(l) \in Contents
BY DEF TypeOK, ContentOf, Projects

LEMMA RequestIsTyped ==
    ASSUME TypeOK, NEW u \in Users, NEW kind \in Kinds, NEW l \in Leads, NEW c \in Contents,
           NEW v \in Versions, NEW complete \in BOOLEAN, Request(u, kind, l, c, v, complete)
    PROVE  work' \in [Users -> Work \cup {Nothing}]
<1>1. [kind |-> kind, lead |-> l, inside |-> FALSE, content |-> c, version |-> v,
       complete |-> complete] \in Work
  BY DEF Work
<1> QED
  BY <1>1 DEF Request, TypeOK

\* What is done is forgotten.
LEMMA DoneIsTyped ==
    ASSUME TypeOK, NEW u \in Users, work' = [work EXCEPT ![u] = Nothing]
    PROVE  work' \in [Users -> Work \cup {Nothing}]
BY DEF TypeOK

LEMMA WorkIsTyped ==
    ASSUME TypeOK, NEW u \in Users, ~Idle(u)
    PROVE  /\ work[u] \in Work
           /\ work[u].kind \in Kinds /\ work[u].lead \in Leads /\ work[u].inside \in BOOLEAN
           /\ work[u].content \in Contents /\ work[u].version \in Versions
           /\ work[u].complete \in BOOLEAN
<1>1. work[u] \in Work
  BY DEF TypeOK, Idle
<1> QED
  BY <1>1 DEF Work

LEMMA ViewIsTyped ==
    ASSUME TypeOK, NEW u \in Users, view[u] # Nothing
    PROVE  /\ view[u].lead \in Leads /\ view[u].content \in Contents
           /\ view[u].version \in Versions /\ view[u].confirmed \in Versions
<1>1. view[u] \in View
  BY DEF TypeOK
<1> QED
  BY <1>1 DEF View

\* A revision is added to those of one lead.
LEMMA Appending ==
    ASSUME TypeOK, Bounded, NEW l \in Leads, NEW r \in Revision, Version(l) < MaxVersion,
           revisions' = [revisions EXCEPT ![l] = Append(@, r)]
    PROVE  /\ revisions' \in [Leads -> Seq(Revision)]
           /\ Bounded'
           /\ Last(revisions'[l]) = r
           /\ Len(revisions'[l]) = Len(revisions[l]) + 1
           /\ \A v \in DOMAIN revisions[l] : revisions'[l][v] = revisions[l][v]
           /\ \A k \in Leads \ {l} : revisions'[k] = revisions[k]
<1>1. revisions[l] \in Seq(Revision) /\ revisions'[l] = Append(revisions[l], r)
  BY DEF TypeOK
<1>2. /\ Append(revisions[l], r) \in Seq(Revision)
      /\ Len(Append(revisions[l], r)) = Len(revisions[l]) + 1
      /\ \A v \in 1..Len(revisions[l]) : Append(revisions[l], r)[v] = revisions[l][v]
      /\ Append(revisions[l], r)[Len(revisions[l]) + 1] = r
  BY <1>1, AppendProperties
<1>3. Last(revisions'[l]) = r
  BY <1>1, <1>2 DEF Last
<1>4. \A k \in Leads \ {l} : revisions'[k] = revisions[k]
  BY DEF TypeOK
<1>5. revisions' \in [Leads -> Seq(Revision)]
  BY <1>1, <1>2 DEF TypeOK
<1>6. Len(revisions[l]) \in Nat /\ DOMAIN revisions[l] = 1..Len(revisions[l])
  BY <1>1, LenProperties
<1>7. Bounded'
  BY <1>1, <1>2, <1>4, <1>6, BoundIsNatural DEF Bounded, Version
<1> QED
  BY <1>1, <1>2, <1>3, <1>4, <1>5, <1>6, <1>7

LEMMA KeptIsTyped ==
    ASSUME TypeOK, NEW l \in Leads, NEW c \in Contents
    PROVE  KeptGeneration(l, c) \in Contents \cup {Nothing}
<1>1. revisions[l] \in Seq(Revision)
  BY DEF TypeOK
<1>2. CASE Version(l) > 0
  <2>1. Last(revisions[l]) \in Revision
    BY <1>1, <1>2, LenProperties, ElementOfSeq DEF Last, Version
  <2> QED
    BY <2>1 DEF KeptGeneration, Revision
<1>3. CASE ~(Version(l) > 0)
  BY <1>3 DEF KeptGeneration
<1> QED
  BY <1>2, <1>3

\* The two commits that add a revision, and the revision.
LEMMA WriterAppends ==
    ASSUME Sane, NEW u \in Users, CommitAppend(u) \/ CommitAnalysis(u)
    PROVE  LET w == work[u] IN
           /\ Inside(u) /\ w.kind \in Writers /\ w.lead \in Leads
           /\ Version(w.lead) < MaxVersion
           /\ work' = [work EXCEPT ![u] = Nothing]
           /\ \E r \in Revision :
                /\ revisions' = [revisions EXCEPT ![w.lead] = Append(@, r)]
                /\ r.content = w.content
                /\ r.status = (IF w.kind = "confirm" THEN "confirmed" ELSE "draft")
                /\ w.kind = "confirm" => r.complete
                /\ r.origin = "manual" => w.kind \in {"save", "confirm"}
                /\ \/ r.generatedFrom = KeptGeneration(w.lead, w.content)
                   \/ r.generatedFrom = w.content
<1> DEFINE w == work[u]
<1>1. ~Idle(u) /\ Inside(u) /\ w.kind \in Writers /\ work' = [work EXCEPT ![u] = Nothing]
  BY DEF CommitAppend, CommitAnalysis, Committing, Inside, Writers
<1>2. w \in Work /\ w.lead \in Leads /\ w.content \in Contents /\ w.complete \in BOOLEAN
  BY <1>1, WorkIsTyped DEF Sane
<1>3. StillHolds(w)
  BY <1>1 DEF Sane, Decided
<1>4. Version(w.lead) < MaxVersion
  BY <1>1, <1>3 DEF StillHolds, CommitAppend, CommitAnalysis
<1>5. CASE CommitAppend(u)
  <2> DEFINE r == [status |-> IF w.kind = "confirm" THEN "confirmed" ELSE "draft",
                   origin |-> "manual", content |-> w.content, complete |-> w.complete,
                   generatedFrom |-> KeptGeneration(w.lead, w.content)]
  <2>1. revisions' = [revisions EXCEPT ![w.lead] = Append(@, r)] /\ w.kind \in {"save", "confirm"}
    BY <1>5 DEF CommitAppend, Committing
  <2>2. KeptGeneration(w.lead, w.content) \in Contents \cup {Nothing}
    BY <1>2, KeptIsTyped DEF Sane
  <2>3. r \in Revision
    BY <1>2, <2>2 DEF Revision
  <2>4. w.kind = "confirm" => w.complete
    BY <1>3 DEF StillHolds
  <2>5. /\ r.content = w.content /\ r.complete = w.complete
        /\ r.status = (IF w.kind = "confirm" THEN "confirmed" ELSE "draft")
        /\ r.generatedFrom = KeptGeneration(w.lead, w.content)
    OBVIOUS
  <2> HIDE DEF r
  <2> QED
    BY <1>1, <1>2, <1>4, <2>1, <2>3, <2>4, <2>5
<1>6. CASE CommitAnalysis(u)
  <2>1. PICK complete \in BOOLEAN : revisions' = [revisions EXCEPT ![w.lead] = Append(@,
              [status |-> "draft", origin |-> "generated", content |-> w.content,
               complete |-> complete, generatedFrom |-> w.content])]
    BY <1>6 DEF CommitAnalysis
  <2> DEFINE r == [status |-> "draft", origin |-> "generated", content |-> w.content,
                   complete |-> complete, generatedFrom |-> w.content]
  <2>2. r \in Revision
    BY <1>2 DEF Revision
  <2>3. w.kind = "analyze"
    BY <1>6 DEF CommitAnalysis, Committing
  <2>4. revisions' = [revisions EXCEPT ![w.lead] = Append(@, r)]
    BY <2>1
  <2>5. r.content = w.content /\ r.status = "draft" /\ r.origin = "generated"
        /\ r.generatedFrom = w.content
    OBVIOUS
  <2> HIDE DEF r
  <2> QED
    BY <1>1, <1>2, <1>4, <2>2, <2>3, <2>4, <2>5
<1> QED
  BY <1>5, <1>6

\* A screen is shown what was read for it.
LEMMA ShowingIsTyped ==
    ASSUME TypeOK, Bounded, NEW u \in Users, Show(u)
    PROVE  view' \in [Users -> View \cup {Nothing}]
<1> DEFINE l == work[u].lead
           c == work[u].content
           V == {v \in DOMAIN revisions[l] : revisions[l][v].status = "confirmed"
                                               /\ revisions[l][v].content = c}
<1>1. l \in Leads /\ c \in Contents
  BY WorkIsTyped DEF Show
<1>2. Version(l) \in Versions
  BY <1>1, VersionIsOne
<1>3. V \in SUBSET Versions
  <2>1. revisions[l] \in Seq(Revision)
    BY <1>1 DEF TypeOK
  <2>2. DOMAIN revisions[l] = 1..Version(l)
    BY <2>1, LenProperties DEF Version
  <2> QED
    BY <1>2, <2>2, BoundIsNatural DEF Versions
<1>4. Latest(V) \in Versions
  BY <1>3, LatestIsOne
<1>5. view' = [view EXCEPT ![u] = [lead |-> l, content |-> c, version |-> Version(l),
                                   confirmed |-> Latest(V)]]
  BY DEF Show
<1>6. [lead |-> l, content |-> c, version |-> Version(l), confirmed |-> Latest(V)] \in View
  <2> HIDE DEF V
  <2> QED
    BY <1>1, <1>2, <1>4 DEF View
<1> QED
  BY <1>5, <1>6 DEF TypeOK

LEMMA NextTypes == Sane /\ [Next]_vars => TypeOK' /\ Bounded'
<1> SUFFICES ASSUME Sane, [Next]_vars PROVE TypeOK' /\ Bounded'
  OBVIOUS
<1> USE DEF Sane
<1>1. CASE UNCHANGED vars
  BY <1>1 DEF vars, TypeOK, Bounded, Version
<1>2. ASSUME NEW u \in Users, Step(u) PROVE TypeOK' /\ Bounded'
  <2>0. 0 \in Versions
    BY BoundIsNatural DEF Versions
  <2>1. ASSUME NEW l \in Leads, Open(u, l) PROVE TypeOK' /\ Bounded'
    <3>1. work' \in [Users -> Work \cup {Nothing}]
      BY <2>0, <2>1, ContentIsOne, RequestIsTyped DEF Open, Kinds
    <3> QED
      BY <2>1, <3>1 DEF Open, TypeOK, Bounded, Version
  <2>2. CASE Show(u)
    <3>1. view' \in [Users -> View \cup {Nothing}]
      BY <2>2, ShowingIsTyped
    <3>2. work' \in [Users -> Work \cup {Nothing}]
      BY <2>2, DoneIsTyped DEF Show
    <3> QED
      BY <2>2, <3>1, <3>2 DEF Show, TypeOK, Bounded, Version
  <2>3. ASSUME NEW kind \in {"save", "confirm"}, NEW complete \in BOOLEAN, Submit(u, kind, complete)
        PROVE  TypeOK' /\ Bounded'
    <3>1. work' \in [Users -> Work \cup {Nothing}]
      BY <2>3, ViewIsTyped, RequestIsTyped DEF Submit, Kinds
    <3> QED
      BY <2>3, <3>1 DEF Submit, TypeOK, Bounded, Version
  <2>4. CASE RequestDraft(u)
    <3>1. work' \in [Users -> Work \cup {Nothing}]
      BY <2>4, ViewIsTyped, RequestIsTyped DEF RequestDraft, Kinds
    <3> QED
      BY <2>4, <3>1 DEF RequestDraft, TypeOK, Bounded, Version
  <2>5. ASSUME NEW kind \in {"analyze", "edit", "import"}, NEW l \in Leads, NEW c \in Contents,
               RequestChange(u, kind, l, c)
        PROVE  TypeOK' /\ Bounded'
    <3>1. work' \in [Users -> Work \cup {Nothing}]
      BY <2>0, <2>5, RequestIsTyped DEF RequestChange, Kinds
    <3> QED
      BY <2>5, <3>1 DEF RequestChange, TypeOK, Bounded, Version
  <2>6. CASE Enter(u)
    <3> DEFINE w == work[u]
    <3>1. w \in Work /\ w.lead \in Leads /\ w.content \in Contents /\ w.version \in Versions
      BY <2>6, WorkIsTyped DEF Enter
    <3>2. ContentOf(w.lead) \in Contents /\ Version(w.lead) \in Versions
      BY <3>1, ContentIsOne, VersionIsOne
    <3>3. PICK c \in Contents, v \in Versions :
            work' = [work EXCEPT ![u] = [@ EXCEPT !.inside = TRUE, !.content = c, !.version = v]]
      <4>1. /\ (IF w.kind = "analyze" THEN ContentOf(w.lead) ELSE w.content) \in Contents
            /\ (IF w.kind \in {"save", "confirm", "analyze"} THEN Version(w.lead) ELSE w.version) \in Versions
        BY <3>1, <3>2
      <4> QED
        BY <2>6, <4>1 DEF Enter, TypeOK
    <3>4. work'[u] \in Work
      BY <3>1, <3>3 DEF Work, TypeOK
    <3>5. work' \in [Users -> Work \cup {Nothing}]
      BY <3>3, <3>4 DEF TypeOK
    <3> QED
      BY <2>6, <3>5 DEF Enter, TypeOK, Bounded, Version
  <2>7. CASE Fail(u)
    <3>1. work' \in [Users -> Work \cup {Nothing}]
      BY <2>7, DoneIsTyped DEF Fail
    <3> QED
      BY <2>7, <3>1 DEF Fail, TypeOK, Bounded, Version
  <2>8. CASE CommitAppend(u) \/ CommitAnalysis(u)
    <3>1. revisions' \in [Leads -> Seq(Revision)] /\ Bounded'
      BY <2>8, WriterAppends, Appending
    <3>2. work' \in [Users -> Work \cup {Nothing}]
      BY <2>8, DoneIsTyped DEF CommitAppend, CommitAnalysis
    <3> QED
      BY <2>8, <3>1, <3>2 DEF CommitAppend, CommitAnalysis, TypeOK
  <2>9. CASE CommitDraft(u)
    <3>1. work[u].lead \in Leads /\ work[u].version \in Versions
      BY <2>9, WorkIsTyped DEF CommitDraft, Committing, Inside
    <3>2. mails[work[u].lead] \in Seq(Versions)
      BY <3>1 DEF TypeOK
    <3>3. Append(mails[work[u].lead], work[u].version) \in Seq(Versions)
      BY <3>1, <3>2, AppendProperties
    <3>4. mails' \in [Leads -> Seq(Versions)]
      BY <2>9, <3>3 DEF CommitDraft, TypeOK
    <3>5. work' \in [Users -> Work \cup {Nothing}]
      BY <2>9, DoneIsTyped DEF CommitDraft
    <3> QED
      BY <2>9, <3>4, <3>5 DEF CommitDraft, TypeOK, Bounded, Version
  <2>10. CASE CommitContent(u)
    <3>1. work[u].content \in Contents
      BY <2>10, WorkIsTyped DEF CommitContent, Committing, Inside
    <3>2. content' \in [Projects -> Contents]
      BY <2>10, <3>1 DEF CommitContent, TypeOK
    <3>3. work' \in [Users -> Work \cup {Nothing}]
      BY <2>10, DoneIsTyped DEF CommitContent
    <3> QED
      BY <2>10, <3>2, <3>3 DEF CommitContent, TypeOK, Bounded, Version
  <2> QED
    BY <1>2, <2>1, <2>2, <2>3, <2>4, <2>5, <2>6, <2>7, <2>8, <2>9, <2>10 DEF Step
<1> QED
  BY <1>1, <1>2 DEF Next

-----------------------------------------------------------------------------
(* Locks.                                                                  *)

\* Whoever begins or ends, nobody but one who enters is inside anew, and those
\* inside keep their request.
LEMMA NobodyEnters ==
    ASSUME Sane, NEW u \in Users, Step(u), ~Enter(u), NEW k \in Users, Inside(k)'
    PROVE  Inside(k) /\ work'[k] = work[k]
<1>1. work \in [Users -> Work \cup {Nothing}]
  BY DEF Sane, TypeOK
<1>2. \/ work' = work
      \/ work' = [work EXCEPT ![u] = Nothing]
      \/ \E kind \in Kinds, l \in Leads : \E c, v, complete : Request(u, kind, l, c, v, complete)
  <2>1. ASSUME NEW kind \in {"save", "confirm"}, NEW complete \in BOOLEAN, Submit(u, kind, complete)
        PROVE  Request(u, kind, view[u].lead, view[u].content, view[u].version, complete)
               /\ kind \in Kinds /\ view[u].lead \in Leads
    BY <2>1, ViewIsTyped DEF Submit, Sane, Kinds
  <2>2. CASE RequestDraft(u)
    BY <2>2, ViewIsTyped DEF RequestDraft, Sane, Kinds
  <2> QED
    BY <2>1, <2>2 DEF Step, Open, Show, RequestChange, Fail, CommitAppend, CommitAnalysis, CommitDraft,
                CommitContent, Kinds
<1>3. CASE k # u
  BY <1>1, <1>2, <1>3 DEF Request, Inside, Idle
<1>4. CASE k = u
  <2>1. CASE work' = work
    BY <2>1 DEF Inside, Idle
  <2>2. CASE work' = [work EXCEPT ![u] = Nothing]
    BY <1>1, <1>4, <2>2 DEF Inside, Idle
  <2>3. CASE \E kind \in Kinds, l \in Leads : \E c, v, complete : Request(u, kind, l, c, v, complete)
    <3>1. work'[u].inside = FALSE
      BY <1>1, <2>3 DEF Request
    <3> QED
      BY <1>4, <3>1 DEF Inside
  <2> QED
    BY <1>2, <2>1, <2>2, <2>3
<1> QED
  BY <1>3, <1>4

\* Who enters keeps the kind and the lead of his request, and with them its locks.
LEMMA Entering ==
    ASSUME Sane, NEW u \in Users, Enter(u)
    PROVE  /\ work'[u] = [work[u] EXCEPT !.inside = TRUE,
                  !.content = IF work[u].kind = "analyze" THEN ContentOf(work[u].lead) ELSE @,
                  !.version = IF work[u].kind \in Writers THEN Version(work[u].lead) ELSE @]
           /\ work[u] \in Work
           /\ work'[u].kind = work[u].kind /\ work'[u].lead = work[u].lead
           /\ work'[u].complete = work[u].complete
           /\ work'[u].content =
                (IF work[u].kind = "analyze" THEN ContentOf(work[u].lead) ELSE work[u].content)
           /\ work'[u].version =
                (IF work[u].kind \in Writers THEN Version(work[u].lead) ELSE work[u].version)
           /\ \A k \in Users \ {u} : work'[k] = work[k]
<1>1. work \in [Users -> Work \cup {Nothing}] /\ work[u] \in Work
  BY WorkIsTyped DEF Sane, TypeOK, Enter
<1>2. work'[u] = [work[u] EXCEPT !.inside = TRUE,
                  !.content = IF work[u].kind = "analyze" THEN ContentOf(work[u].lead) ELSE @,
                  !.version = IF work[u].kind \in Writers THEN Version(work[u].lead) ELSE @]
  BY <1>1 DEF Enter, Writers
<1>3. \A k \in Users \ {u} : work'[k] = work[k]
  BY <1>1 DEF Enter
<1>4. /\ work'[u].kind = work[u].kind /\ work'[u].lead = work[u].lead
      /\ work'[u].complete = work[u].complete
      /\ work'[u].content =
           (IF work[u].kind = "analyze" THEN ContentOf(work[u].lead) ELSE work[u].content)
      /\ work'[u].version =
           (IF work[u].kind \in Writers THEN Version(work[u].lead) ELSE work[u].version)
  BY <1>1, <1>2 DEF Work
<1> QED
  BY <1>1, <1>2, <1>3, <1>4

\* The locks of a request are those of its kind and its lead.
LEMMA LocksDepend ==
    ASSUME NEW v, NEW w, v.kind = w.kind, v.lead = w.lead
    PROVE  Locks(v) = Locks(w)
BY DEF Locks

LEMMA NextExclusive == Sane /\ [Next]_vars => Exclusive'
<1> SUFFICES ASSUME Sane, [Next]_vars, NEW a \in Users, NEW b \in Users, a # b, Inside(a)', Inside(b)'
             PROVE  Locks(work'[a]) \cap Locks(work'[b]) = {}
  BY DEF Exclusive
<1>1. CASE UNCHANGED vars
  BY <1>1 DEF vars, Sane, Exclusive, Inside, Idle
<1>2. ASSUME NEW u \in Users, Step(u), ~Enter(u) PROVE Locks(work'[a]) \cap Locks(work'[b]) = {}
  <2>1. Inside(a) /\ work'[a] = work[a] /\ Inside(b) /\ work'[b] = work[b]
    BY <1>2, NobodyEnters
  <2> QED
    BY <2>1 DEF Sane, Exclusive
<1>3. ASSUME NEW u \in Users, Enter(u) PROVE Locks(work'[a]) \cap Locks(work'[b]) = {}
  <2>1. Locks(work'[u]) = Locks(work[u])
    <3>1. work'[u].kind = work[u].kind /\ work'[u].lead = work[u].lead
      BY <1>3, Entering
    <3> QED
      BY <3>1, LocksDepend
  <2>2. \A k \in Users \ {u} : Inside(k)' => Inside(k) /\ Locks(work'[k]) = Locks(work[k])
    BY <1>3, Entering DEF Inside, Idle
  <2>3. CASE a # u /\ b # u
    BY <2>2, <2>3 DEF Sane, Exclusive
  <2>4. CASE a = u \/ b = u
    BY <1>3, <2>1, <2>2, <2>4 DEF Enter, Free
  <2> QED
    BY <2>3, <2>4
<1> QED
  BY <1>1, <1>2, <1>3 DEF Next

\* Two requests inside that both work on the analysis of a lead are one.
LEMMA OneOnAnalysis ==
    ASSUME Sane, NEW u \in Users, NEW k \in Users, Inside(u), Inside(k),
           work[u].kind \in {"save", "confirm", "analyze", "draft", "edit"},
           work[k].kind \in {"save", "confirm", "analyze", "draft", "edit"},
           work[u].lead = work[k].lead
    PROVE  u = k
<1>1. <<"analysis", work[u].lead>> \in Locks(work[u]) \cap Locks(work[k])
  BY DEF Locks
<1> QED
  BY <1>1 DEF Sane, Exclusive

\* The same for an import of the project of the lead.
LEMMA NoImportBeside ==
    ASSUME Sane, NEW u \in Users, NEW k \in Users, Inside(u), Inside(k),
           work[u].kind = "import", work[k].kind \in {"save", "confirm", "analyze", "draft", "edit"},
           ProjectOf[work[u].lead] = ProjectOf[work[k].lead]
    PROVE  FALSE
<1>1. work[k].lead \in Leads
  BY WorkIsTyped DEF Inside, Sane
<1>2. <<"analysis", work[k].lead>> \in Locks(work[u]) \cap Locks(work[k])
  BY <1>1 DEF Locks
<1> QED
  BY <1>2 DEF Sane, Exclusive

-----------------------------------------------------------------------------
(* What the screen shows.                                                  *)

ShownTo(u) ==
    ~Idle(u) /\ work[u].kind \in {"save", "confirm", "draft"} =>
        /\ view[u] # Nothing
        /\ view[u].lead = work[u].lead
        /\ view[u].content = work[u].content
        /\ work[u].version = IF work[u].kind = "draft" THEN view[u].confirmed ELSE view[u].version

\* What a request carries once it was sent.
LEMMA Requested ==
    ASSUME TypeOK, NEW u \in Users, NEW kind, NEW l, NEW c, NEW v, NEW complete,
           Request(u, kind, l, c, v, complete)
    PROVE  work'[u].kind = kind /\ work'[u].lead = l /\ work'[u].content = c /\ work'[u].version = v
BY DEF Request, TypeOK

\* A screen that nobody changes still shows what its request carries.
LEMMA StillShown ==
    ASSUME NEW k \in Users, ShownTo(k), work'[k] = work[k], view'[k] = view[k]
    PROVE  ShownTo(k)'
BY DEF ShownTo, Idle

LEMMA NextAsShown == Sane /\ [Next]_vars => AsShown'
<1> SUFFICES ASSUME Sane, [Next]_vars, NEW k \in Users PROVE ShownTo(k)'
  BY DEF AsShown, ShownTo
<1>1. ShownTo(k)
  BY DEF Sane, AsShown, ShownTo
<1>2. work \in [Users -> Work \cup {Nothing}] /\ view \in [Users -> View \cup {Nothing}]
  BY DEF Sane, TypeOK
<1>3. CASE UNCHANGED vars
  BY <1>1, <1>3, StillShown DEF vars
<1>4. ASSUME NEW u \in Users, Step(u) PROVE ShownTo(k)'
  <2>1. CASE k # u
    <3>1. work'[k] = work[k] /\ view'[k] = view[k]
      BY <1>2, <1>4, <2>1
         DEF Step, Open, Show, Submit, RequestDraft, RequestChange, Enter, Fail, CommitAppend,
             CommitAnalysis, CommitDraft, CommitContent, Request
    <3> QED
      BY <1>1, <3>1, StillShown
  <2>2. CASE k = u
    <3>1. ASSUME NEW l \in Leads, Open(u, l) PROVE ShownTo(k)'
      <4>1. work'[u].kind = "open"
        BY <3>1, Requested DEF Open, Sane
      <4> QED
        BY <2>2, <4>1 DEF ShownTo
    <3>2. ASSUME NEW kind \in {"save", "confirm"}, NEW complete \in BOOLEAN, Submit(u, kind, complete)
          PROVE  ShownTo(k)'
      <4>1. /\ work'[u].kind = kind /\ work'[u].lead = view[u].lead
            /\ work'[u].content = view[u].content /\ work'[u].version = view[u].version
        BY <3>2, Requested DEF Submit, Sane
      <4>2. view' = view /\ view[u] # Nothing
        BY <3>2 DEF Submit
      <4> QED
        BY <2>2, <4>1, <4>2 DEF ShownTo
    <3>3. CASE RequestDraft(u)
      <4>1. /\ work'[u].kind = "draft" /\ work'[u].lead = view[u].lead
            /\ work'[u].content = view[u].content /\ work'[u].version = view[u].confirmed
        BY <3>3, Requested DEF RequestDraft, Sane
      <4>2. view' = view /\ view[u] # Nothing
        BY <3>3 DEF RequestDraft
      <4> QED
        BY <2>2, <4>1, <4>2 DEF ShownTo
    <3>4. ASSUME NEW kind \in {"analyze", "edit", "import"}, NEW l \in Leads, NEW c \in Contents,
                 RequestChange(u, kind, l, c)
          PROVE  ShownTo(k)'
      <4>1. work'[u].kind = kind
        BY <3>4, Requested DEF RequestChange, Sane
      <4> QED
        BY <2>2, <4>1, <3>4 DEF ShownTo
    <3>5. CASE Enter(u)
      <4>1. /\ work'[u].kind = work[u].kind /\ work'[u].lead = work[u].lead
            /\ work[u].kind # "analyze" => work'[u].content = work[u].content
            /\ work'[u].version =
                 (IF work[u].kind \in Writers THEN Version(work[u].lead) ELSE work[u].version)
        BY <3>5, Entering
      <4>2. work[u].kind \in {"save", "confirm"} => work[u].version = Version(work[u].lead)
        BY <3>5 DEF Enter, Allowed, MayAppend
      <4>3. view' = view /\ ~Idle(u)
        BY <3>5 DEF Enter
      <4> QED
        BY <1>1, <2>2, <4>1, <4>2, <4>3 DEF ShownTo, Writers
    <3>6. CASE work' = [work EXCEPT ![u] = Nothing]
      BY <1>2, <2>2, <3>6 DEF ShownTo, Idle
    <3> QED
      BY <1>4, <3>1, <3>2, <3>3, <3>4, <3>5, <3>6
         DEF Step, Show, Fail, CommitAppend, CommitAnalysis, CommitDraft, CommitContent
  <2> QED
    BY <2>1, <2>2
<1> QED
  BY <1>3, <1>4 DEF Next

-----------------------------------------------------------------------------
(* What was decided.                                                       *)

LEMMA HoldsOfRequest ==
    ASSUME NEW k \in Users, NEW CONSTANT w, w = work'[k], StillHolds(w)'
    PROVE  StillHolds(work[k])'
BY DEF StillHolds, Version, ContentOf, Usable

\* What was decided holds as long as nobody writes about the lead.
LEMMA NothingWritten ==
    ASSUME Sane, NEW k \in Users, Inside(k), work'[k] = work[k],
           UNCHANGED <<content, revisions, mails>>
    PROVE  StillHolds(work[k])'
<1>1. StillHolds(work[k])
  BY DEF Sane, Decided
<1> QED
  BY <1>1 DEF StillHolds, Version, ContentOf, Usable

\* What is decided on entering.
LEMMA DecidedOnEntering ==
    ASSUME Sane, NEW u \in Users, Enter(u)
    PROVE  StillHolds(work[u])'
<1> DEFINE w == work[u]
<1>1. PICK v \in Work : v = work'[u]
  <2>1. TypeOK'
    BY NextTypes DEF Next, Step
  <2>2. work[u] \in Work
    BY Entering
  <2>3. work'[u] \in Work
    BY <2>2, Entering, ContentIsOne, VersionIsOne, ZenonT(60) DEF Work, Sane
  <2> QED
    BY <2>3
<1>2. /\ v.kind = w.kind /\ v.lead = w.lead /\ v.complete = w.complete
      /\ v.content = (IF w.kind = "analyze" THEN ContentOf(w.lead) ELSE w.content)
      /\ v.version = (IF w.kind \in Writers THEN Version(w.lead) ELSE w.version)
  BY <1>1, Entering
<1>3. /\ w.kind # "open"
      /\ w.kind \in {"save", "confirm"} => MayAppend(w)
      /\ w.kind = "draft" => MayDraft(w)
  BY DEF Enter, Allowed
<1>4. StillHolds(v)
  <2>1. v.kind \in Writers => v.content = ContentOf(v.lead)
    BY <1>2, <1>3 DEF MayAppend, Writers
  <2>2. v.kind = "confirm" => v.complete
    BY <1>2, <1>3 DEF MayAppend
  <2>3. v.kind = "draft" =>
          mails[v.lead] = <<>> /\ v.version = Latest(Usable(v.lead)) /\ Usable(v.lead) # {}
    BY <1>2, <1>3 DEF MayDraft, Latest, Writers
  <2> QED
    BY <1>2, <1>3, <2>1, <2>2, <2>3 DEF StillHolds
<1>5. UNCHANGED <<content, revisions, mails>>
  BY DEF Enter
<1>6. StillHolds(v)'
  BY <1>4, <1>5 DEF StillHolds, Version, ContentOf, Usable
<1> QED
  BY <1>1, <1>6, HoldsOfRequest

\* Another request inside writes about another lead, ...
LEMMA WrittenElsewhere ==
    ASSUME Sane, NEW u \in Users, NEW k \in Users \ {u}, Inside(k), work'[k] = work[k],
           CommitAppend(u) \/ CommitAnalysis(u) \/ CommitDraft(u)
    PROVE  StillHolds(work[k])'
<1> DEFINE w == work[k]
<1>1. StillHolds(w) /\ w.lead \in Leads
  BY WorkIsTyped DEF Sane, Decided, Inside
<1>2. Inside(u) /\ work[u].kind \in {"save", "confirm", "analyze", "draft"} /\ work[u].lead \in Leads
  BY WorkIsTyped DEF CommitAppend, CommitAnalysis, CommitDraft, Committing, Sane, Inside
<1>3. content' = content
  BY DEF CommitAppend, CommitAnalysis, CommitDraft
<1>4. CASE w.kind \in {"save", "confirm", "analyze", "draft"}
  <2>1. work[u].lead # w.lead
    BY <1>2, <1>4, OneOnAnalysis
  <2>2. revisions'[w.lead] = revisions[w.lead] /\ mails'[w.lead] = mails[w.lead]
    BY <1>1, <1>2, <2>1 DEF CommitAppend, CommitAnalysis, CommitDraft, Sane, TypeOK
  <2>3. PICK v : v = w
    OBVIOUS
  <2>4. revisions'[v.lead] = revisions[v.lead] /\ mails'[v.lead] = mails[v.lead] /\ StillHolds(v)
    BY <1>1, <2>2, <2>3
  <2>5. StillHolds(v)'
    BY <1>3, <2>4 DEF StillHolds, Version, ContentOf, Usable
  <2> QED
    BY <2>3, <2>5, HoldsOfRequest
<1>5. CASE w.kind \notin {"save", "confirm", "analyze", "draft"}
  BY <1>1, <1>5 DEF StillHolds, Writers
<1> QED
  BY <1>4, <1>5

\* ... or changes the content of another project than one's own.
LEMMA ChangedElsewhere ==
    ASSUME Sane, NEW u \in Users, NEW k \in Users \ {u}, Inside(k), work'[k] = work[k],
           CommitContent(u)
    PROVE  StillHolds(work[k])'
<1> DEFINE w == work[k]
<1>1. StillHolds(w) /\ w.lead \in Leads
  BY WorkIsTyped DEF Sane, Decided, Inside
<1>2. Inside(u) /\ work[u].kind \in {"edit", "import"} /\ work[u].lead \in Leads
  BY WorkIsTyped DEF CommitContent, Committing, Sane, Inside
<1>3. UNCHANGED <<revisions, mails>>
  BY DEF CommitContent
<1>4. ASSUME w.kind \in {"save", "confirm", "analyze", "draft"}, Unshared(w.lead)
      PROVE  content'[ProjectOf[w.lead]] = content[ProjectOf[w.lead]]
  <2>1. ProjectOf[work[u].lead] # ProjectOf[w.lead]
    <3>1. work[u].kind = "edit" => work[u].lead # w.lead
      BY <1>2, <1>4, OneOnAnalysis
    <3>2. work[u].kind = "import" => ProjectOf[work[u].lead] # ProjectOf[w.lead]
      BY <1>2, <1>4, NoImportBeside
    <3> QED
      BY <1>2, <1>4, <3>1, <3>2 DEF Unshared
  <2> QED
    BY <1>1, <1>2, <2>1 DEF CommitContent, Sane, TypeOK, Projects
<1>5. PICK v : v = w
  OBVIOUS
<1>6. StillHolds(v)'
  <2>1. Unshared(v.lead) /\ v.kind \in {"save", "confirm", "analyze", "draft"} =>
          ContentOf(v.lead)' = ContentOf(v.lead)
    BY <1>4, <1>5 DEF ContentOf
  <2>2. Unshared(v.lead) /\ v.kind = "draft" => Usable(v.lead)' = Usable(v.lead)
    BY <1>3, <2>1 DEF Usable
  <2> QED
    BY <1>1, <1>3, <1>5, <2>1, <2>2 DEF StillHolds, Writers, Version
<1> QED
  BY <1>5, <1>6, HoldsOfRequest

LEMMA NextDecided == Sane /\ [Next]_vars => Decided'
<1> SUFFICES ASSUME Sane, [Next]_vars, NEW k \in Users, Inside(k)' PROVE StillHolds(work[k])'
  BY DEF Decided
<1>1. CASE UNCHANGED vars
  <2>1. Inside(k) /\ work'[k] = work[k]
    BY <1>1 DEF vars, Inside, Idle
  <2> QED
    BY <1>1, <2>1, NothingWritten DEF vars
<1>2. ASSUME NEW u \in Users, Enter(u) PROVE StillHolds(work[k])'
  <2>1. CASE k = u
    BY <1>2, <2>1, DecidedOnEntering
  <2>2. CASE k # u
    <3>1. work'[k] = work[k] /\ Inside(k) /\ UNCHANGED <<content, revisions, mails>>
      <4>1. work'[k] = work[k]
        BY <1>2, <2>2, Entering
      <4> QED
        BY <1>2, <4>1 DEF Enter, Inside, Idle
    <3> QED
      BY <3>1, NothingWritten
  <2> QED
    BY <2>1, <2>2
<1>3. ASSUME NEW u \in Users, Step(u), ~Enter(u) PROVE StillHolds(work[k])'
  <2>1. Inside(k) /\ work'[k] = work[k]
    BY <1>3, NobodyEnters
  <2>2. CASE UNCHANGED <<content, revisions, mails>>
    BY <2>1, <2>2, NothingWritten
  <2>3. CASE CommitAppend(u) \/ CommitAnalysis(u) \/ CommitDraft(u) \/ CommitContent(u)
    <3>1. k # u
      <4>1. work'[u] = Nothing
        BY <2>3 DEF CommitAppend, CommitAnalysis, CommitDraft, CommitContent, Sane, TypeOK
      <4> QED
        BY <2>1, <4>1 DEF Inside, Idle
    <3> QED
      BY <2>1, <2>3, <3>1, WrittenElsewhere, ChangedElsewhere
  <2> QED
    BY <1>3, <2>2, <2>3 DEF Step, Open, Show, Submit, RequestDraft, RequestChange, Fail
<1> QED
  BY <1>1, <1>2, <1>3 DEF Next

THEOREM Sanity == Spec => []Sane
<1>1. Sane /\ [Next]_vars => Sane'
  BY NextTypes, NextExclusive, NextAsShown, NextDecided DEF Sane
<1> QED
  BY <1>1, InitSane, PTL DEF Spec

\* The state is always well typed.
THEOREM Typing == Spec => []TypeOK
<1>1. Sane => TypeOK
  BY DEF Sane
<1> QED
  BY <1>1, Sanity, PTL

-----------------------------------------------------------------------------
(* What a step adds.                                                       *)

\* Only the commit of somebody who writes about a lead adds a revision to it, the
\* one that was decided on.
LEMMA WhoAppends ==
    ASSUME Sane, [Next]_vars, NEW l \in Leads, Appended(l)
    PROVE  \E u \in Users :
             LET w == work[u]
                 r == Last(revisions'[l]) IN
             /\ Inside(u) /\ w.kind \in Writers /\ w.lead = l /\ StillHolds(w)
             /\ r.content = w.content
             /\ r.status = (IF w.kind = "confirm" THEN "confirmed" ELSE "draft")
             /\ r.origin = "manual" => w.kind \in {"save", "confirm"}
<1>1. revisions[l] \in Seq(Revision) /\ Len(revisions[l]) \in Nat
  BY LenProperties DEF Sane, TypeOK
<1>2. revisions' # revisions
  BY <1>1 DEF Appended
<1>3. PICK u \in Users : CommitAppend(u) \/ CommitAnalysis(u)
  BY <1>2 DEF Next, vars, Step, Open, Show, Submit, RequestDraft, RequestChange, Enter, Fail,
              CommitDraft, CommitContent
<1> DEFINE w == work[u]
<1>4. Inside(u) /\ w.kind \in Writers /\ w.lead \in Leads /\ Version(w.lead) < MaxVersion
  BY <1>3, WriterAppends
<1>5. StillHolds(w)
  BY <1>4 DEF Sane, Decided
<1>6. PICK r \in Revision :
         /\ revisions' = [revisions EXCEPT ![w.lead] = Append(@, r)]
         /\ r.content = w.content
         /\ r.status = (IF w.kind = "confirm" THEN "confirmed" ELSE "draft")
         /\ r.origin = "manual" => w.kind \in {"save", "confirm"}
  BY <1>3, WriterAppends
<1>7. Last(revisions'[w.lead]) = r /\ \A k \in Leads \ {w.lead} : revisions'[k] = revisions[k]
  BY <1>4, <1>6, Appending DEF Sane
<1>8. w.lead = l
  BY <1>1, <1>7 DEF Appended
<1> QED
  BY <1>4, <1>5, <1>6, <1>7, <1>8

-----------------------------------------------------------------------------
(* The theorems.                                                           *)

\* A revision written by hand follows the one its author was shown
\* (LeadAnalysisUseCase, append).
THEOREM NoEditLost == Spec => NoEditIsLost
<1>1. ASSUME Sane, [Next]_vars, NEW l \in Leads, Appended(l), Last(revisions'[l]).origin = "manual"
      PROVE  \E u \in Users : /\ ~Idle(u) /\ work[u].lead = l
                               /\ view[u] # Nothing /\ view[u].lead = l
                               /\ view[u].version = Version(l)
                               /\ view[u].content = Last(revisions'[l]).content
  <2>1. PICK u \in Users : /\ Inside(u) /\ work[u].kind \in {"save", "confirm"} /\ work[u].lead = l
                           /\ StillHolds(work[u]) /\ Last(revisions'[l]).content = work[u].content
    BY <1>1, WhoAppends
  <2>2. ShownTo(u)
    BY <1>1 DEF Sane, AsShown, ShownTo
  <2> QED
    BY <2>1, <2>2 DEF Inside, ShownTo, StillHolds, Writers
<1>2. Sane /\ [Next]_vars =>
        [\A l \in Leads : Appended(l) /\ Last(revisions'[l]).origin = "manual" =>
          \E u \in Users : /\ ~Idle(u) /\ work[u].lead = l
                           /\ view[u] # Nothing /\ view[u].lead = l
                           /\ view[u].version = Version(l)
                           /\ view[u].content = Last(revisions'[l]).content]_vars
  BY <1>1
<1> QED
  BY <1>2, Sanity, PTL DEF Spec, NoEditIsLost

\* What is confirmed is about the project as it is, with no import or edit between
\* the comparison of the fingerprints and the commit, as long as the lead does not
\* share its project (LeadAnalysisUseCase, append).
THEOREM ConfirmedCurrent == Spec => ConfirmedIsCurrent
<1>1. ASSUME Sane, [Next]_vars, NEW l \in Leads, Unshared(l), Appended(l)
      PROVE  Last(revisions'[l]).content = ContentOf(l)
  <2>1. PICK u \in Users : /\ work[u].kind \in Writers /\ work[u].lead = l
                           /\ StillHolds(work[u]) /\ Last(revisions'[l]).content = work[u].content
    BY <1>1, WhoAppends
  <2> QED
    BY <1>1, <2>1 DEF StillHolds
<1>2. Sane /\ [Next]_vars =>
        [\A l \in Leads : Unshared(l) /\ Appended(l) /\ Last(revisions'[l]).status = "confirmed" =>
          Last(revisions'[l]).content = ContentOf(l)]_vars
  BY <1>1
<1> QED
  BY <1>2, Sanity, PTL DEF Spec, ConfirmedIsCurrent

\* A mail is the first of its lead, and is drafted from the last confirmed analysis
\* of the project as it is, as long as the lead does not share its project
\* (requireLatestConfirmedAnalysis).
THEOREM DraftedFromLatest == Spec => DraftIsFromLatestConfirmed
<1>1. ASSUME Sane, [Next]_vars, NEW l \in Leads, Len(mails'[l]) > Len(mails[l])
      PROVE  /\ mails[l] = <<>>
             /\ Unshared(l) => Last(mails'[l]) = Latest(Usable(l)) /\ Usable(l) # {}
  <2>1. mails[l] \in Seq(Versions) /\ Len(mails[l]) \in Nat
    BY <1>1, LenProperties DEF Sane, TypeOK
  <2>2. mails' # mails
    BY <1>1, <2>1
  <2>3. PICK u \in Users : CommitDraft(u)
    BY <1>1, <2>2 DEF Next, vars, Step, Open, Show, Submit, RequestDraft, RequestChange, Enter, Fail,
                      CommitAppend, CommitAnalysis, CommitContent
  <2>4. Inside(u) /\ work[u].kind = "draft" /\ work[u].version \in Versions
    BY <1>1, <2>3, WorkIsTyped DEF CommitDraft, Committing, Inside, Sane
  <2>5. work[u].lead = l
    BY <1>1, <2>1, <2>3 DEF CommitDraft, Sane, TypeOK
  <2>6. mails'[l] = Append(mails[l], work[u].version)
    BY <1>1, <2>3, <2>5 DEF CommitDraft, Sane, TypeOK
  <2>7. Last(mails'[l]) = work[u].version
    BY <2>1, <2>4, <2>6, AppendProperties DEF Last
  <2>8. StillHolds(work[u])
    BY <1>1, <2>4 DEF Sane, Decided
  <2> QED
    BY <1>1, <2>4, <2>5, <2>7, <2>8 DEF StillHolds
<1>2. Sane /\ [Next]_vars =>
        [\A l \in Leads : Len(mails'[l]) > Len(mails[l]) =>
          /\ mails[l] = <<>>
          /\ Unshared(l) => Last(mails'[l]) = Latest(Usable(l)) /\ Usable(l) # {}]_vars
  BY <1>1
<1> QED
  BY <1>2, Sanity, PTL DEF Spec, DraftIsFromLatestConfirmed

\* However many requests draft at once, a lead has one mail (mail.service.ts,
\* createDraft).
THEOREM OneMail == Spec => []OneMailPerLead
<1>1. Init => OneMailPerLead
  BY DEF Init, OneMailPerLead
<1>2. ASSUME Sane, OneMailPerLead, [Next]_vars PROVE OneMailPerLead'
  <2>1. CASE UNCHANGED mails
    BY <1>2, <2>1 DEF OneMailPerLead
  <2>2. ASSUME NEW u \in Users, CommitDraft(u) PROVE OneMailPerLead'
    <3>1. Inside(u) /\ work[u].kind = "draft" /\ work[u].lead \in Leads /\ work[u].version \in Versions
      BY <1>2, <2>2, WorkIsTyped DEF CommitDraft, Committing, Inside, Sane
    <3>2. mails[work[u].lead] = <<>>
      BY <1>2, <3>1 DEF Sane, Decided, StillHolds
    <3>3. mails' = [mails EXCEPT ![work[u].lead] = <<work[u].version>>]
      BY <2>2, <3>2 DEF CommitDraft
    <3> QED
      BY <1>2, <3>1, <3>3 DEF OneMailPerLead, Sane, TypeOK
  <2> QED
    BY <1>2, <2>1, <2>2 DEF Next, vars, Step, Open, Show, Submit, RequestDraft, RequestChange, Enter,
                           Fail, CommitAppend, CommitAnalysis, CommitContent
<1> QED
  BY <1>1, <1>2, Sanity, PTL DEF Spec

\* What was confirmed is complete, and the generation a revision names, handed on
\* from one to the next, was made from its content (keepsGeneration).
THEOREM RevisionsTrue == Spec => []RevisionsAreTrue
<1> DEFINE True(r) == /\ r.status = "confirmed" => r.complete
                      /\ r.generatedFrom # Nothing => r.generatedFrom = r.content
<1>1. Init => RevisionsAreTrue
  BY DEF Init, RevisionsAreTrue
<1>2. ASSUME Sane, RevisionsAreTrue, [Next]_vars PROVE RevisionsAreTrue'
  <2>1. CASE UNCHANGED revisions
    BY <1>2, <2>1 DEF RevisionsAreTrue
  <2>2. ASSUME NEW u \in Users, CommitAppend(u) \/ CommitAnalysis(u) PROVE RevisionsAreTrue'
    <3> DEFINE w == work[u]
    <3>1. w.lead \in Leads /\ Version(w.lead) < MaxVersion
      BY <1>2, <2>2, WriterAppends
    <3>2. PICK r \in Revision :
            /\ revisions' = [revisions EXCEPT ![w.lead] = Append(@, r)]
            /\ r.content = w.content
            /\ r.status = (IF w.kind = "confirm" THEN "confirmed" ELSE "draft")
            /\ w.kind = "confirm" => r.complete
            /\ \/ r.generatedFrom = KeptGeneration(w.lead, w.content)
               \/ r.generatedFrom = w.content
      BY <1>2, <2>2, WriterAppends
    <3>3. revisions[w.lead] \in Seq(Revision) /\ Len(revisions[w.lead]) \in Nat
          /\ DOMAIN revisions[w.lead] = 1..Len(revisions[w.lead])
      BY <1>2, <3>1, LenProperties DEF Sane, TypeOK
    <3>4. True(r)
      <4>1. Version(w.lead) > 0 => True(Last(revisions[w.lead]))
        BY <1>2, <3>1, <3>3 DEF RevisionsAreTrue, Last, Version
      <4>2. KeptGeneration(w.lead, w.content) # Nothing =>
              KeptGeneration(w.lead, w.content) = w.content
        BY <4>1 DEF KeptGeneration
      <4> QED
        BY <3>2, <4>2
    <3>5. /\ revisions' \in [Leads -> Seq(Revision)]
          /\ Last(revisions'[w.lead]) = r
          /\ Len(revisions'[w.lead]) = Len(revisions[w.lead]) + 1
          /\ \A v \in DOMAIN revisions[w.lead] : revisions'[w.lead][v] = revisions[w.lead][v]
          /\ \A k \in Leads \ {w.lead} : revisions'[k] = revisions[k]
      BY <1>2, <3>1, <3>2, Appending, ZenonT(60) DEF Sane
    <3>6. \A v \in DOMAIN revisions'[w.lead] : True(revisions'[w.lead][v])
      <4>1. DOMAIN revisions'[w.lead] = 1..(Len(revisions[w.lead]) + 1)
        BY <3>1, <3>5, LenProperties
      <4>2. revisions'[w.lead][Len(revisions[w.lead]) + 1] = r
        BY <3>5 DEF Last
      <4>3. \A v \in 1..Len(revisions[w.lead]) : True(revisions'[w.lead][v])
        BY <1>2, <3>1, <3>3, <3>5, SMTT(60) DEF RevisionsAreTrue
      <4> HIDE DEF True
      <4> QED
        BY <3>3, <3>4, <4>1, <4>2, <4>3
    <3>7. \A k \in Leads : \A v \in DOMAIN revisions'[k] : True(revisions'[k][v])
      BY <1>2, <3>5, <3>6 DEF RevisionsAreTrue
    <3> QED
      BY <3>7 DEF RevisionsAreTrue
  <2> QED
    BY <1>2, <2>1, <2>2 DEF Next, vars, Step, Open, Show, Submit, RequestDraft, RequestChange, Enter,
                           Fail, CommitDraft, CommitContent
<1> QED
  BY <1>1, <1>2, Sanity, PTL DEF Spec

-----------------------------------------------------------------------------
(* Contacts: the invariant.                                                *)

Entered(q) == ~AtRest(q) /\ handling[q].inside

Drafts(q) == ~AtRest(q) /\ handling[q].kind = "draft"

\* Marked contacts lose their mark with the commit of whoever marks another one.
ChangeIsSound(w) ==
    /\ w.kind = "create" => /\ w.contact = Absent /\ w.edit.primary \in BOOLEAN
                            /\ w.edit.address \in Addresses \cup {Absent}
    /\ w.kind # "create" => w.contact \in DOMAIN contacts /\ contacts[w.contact].company = w.company
    /\ w.edit.primary = TRUE =>
         \A k \in ActiveOf(w.company) : contacts[k].primary => k = w.contact \/ k \in w.others

DraftIsSound(w) ==
    /\ outreach[w.mail] = Absent
    /\ w.contact # Absent => w.contact \in DOMAIN contacts /\ w.address # Absent

ReplyIsSound(w) ==
    /\ outreach[w.mail] # Absent /\ outreach[w.mail].sent > 0
    /\ replies[<<w.mail, w.text>>] = 0

WorkIsSound(w) ==
    /\ w.kind \in Changing => ChangeIsSound(w)
    /\ w.kind = "draft" => DraftIsSound(w)
    /\ w.kind = "reply" => ReplyIsSound(w)

HandlingIsSound == \A q \in Requests : ~AtRest(q) => WorkIsSound(handling[q])

KeysDiffer ==
    \A p, q \in Requests :
        p # q /\ Entered(p) /\ Entered(q) => Keys(handling[p]) \cap Keys(handling[q]) = {}

MailsDiffer ==
    \A p, q \in Requests : p # q /\ Drafts(p) /\ Drafts(q) => handling[p].mail # handling[q].mail

OutreachIsSound ==
    \A m \in Mails : outreach[m] # Absent =>
        /\ outreach[m].contact # Absent =>
             outreach[m].contact \in DOMAIN contacts /\ outreach[m].address # Absent
        /\ outreach[m].contact = Absent => outreach[m].to = Absent

Silent(i) == ~contacts[i].active \/ contacts[i].unsubscribed

\* Whoever asked to stop was written to, and nobody writes to that contact.
StoppedAreSilent ==
    \A m \in stopped :
        /\ outreach[m] # Absent /\ outreach[m].sent > 0
        /\ outreach[m].contact # Absent /\ Silent(outreach[m].contact)

Marked(i) == contacts[i].active /\ contacts[i].primary

OneMark ==
    \A i, k \in DOMAIN contacts :
        contacts[i].company = contacts[k].company /\ Marked(i) /\ Marked(k) => i = k

ContactsAreSane ==
    /\ ContactsTypeOK /\ HandlingIsSound /\ KeysDiffer /\ MailsDiffer
    /\ OutreachIsSound /\ StoppedAreSilent /\ OneMark /\ RecordedOnce

-----------------------------------------------------------------------------
(* Types.                                                                  *)

LEMMA HandlingIsTyped ==
    ASSUME ContactsTypeOK, NEW q \in Requests, ~AtRest(q)
    PROVE  /\ handling[q] \in Change \cup Drafting \cup Recording
           /\ handling[q].kind \in Changing => handling[q] \in Change
           /\ handling[q].kind = "draft" => handling[q] \in Drafting
           /\ handling[q].kind = "reply" => handling[q] \in Recording
<1>1. handling[q] \in Change \cup Drafting \cup Recording
  BY DEF ContactsTypeOK, AtRest
<1> QED
  BY <1>1 DEF Change, Drafting, Recording, Changing

LEMMA ContactIsTyped ==
    ASSUME ContactsTypeOK, NEW i \in DOMAIN contacts
    PROVE  /\ contacts[i] \in Contact /\ i \in Ids /\ i \in 1 .. Len(contacts)
           /\ contacts[i].company \in Companies /\ contacts[i].address \in Addresses \cup {Absent}
           /\ contacts[i].active \in BOOLEAN /\ contacts[i].primary \in BOOLEAN
           /\ contacts[i].unsubscribed \in BOOLEAN
<1>1. contacts \in Seq(Contact) /\ Len(contacts) \in Nat /\ DOMAIN contacts = 1 .. Len(contacts)
  BY LenProperties DEF ContactsTypeOK
<1>2. contacts[i] \in Contact /\ i \in 1 .. Len(contacts)
  BY <1>1, ElementOfSeq
<1>3. i \in Ids
  BY <1>1, <1>2, BoundsAreNumbers DEF ContactsTypeOK, Ids
<1> QED
  BY <1>2, <1>3 DEF Contact

LEMMA MailIsTyped ==
    ASSUME ContactsTypeOK, NEW m \in Mails, outreach[m] # Absent
    PROVE  /\ outreach[m] \in Mail /\ outreach[m].contact \in Ids \cup {Absent}
           /\ outreach[m].company \in Companies /\ outreach[m].open \in BOOLEAN
           /\ outreach[m].address \in Addresses \cup {Absent}
           /\ outreach[m].to \in Addresses \cup {Absent}
           /\ outreach[m].sent \in 0 .. MaxSendings /\ outreach[m].sent \in Nat
<1>1. outreach[m] \in Mail
  BY DEF ContactsTypeOK
<1> QED
  BY <1>1, BoundsAreNumbers DEF Mail

\* What has the domain of contacts and consists of contacts is of their type.
LEMMA SameLength ==
    ASSUME ContactsTypeOK, NEW f, f = [i \in DOMAIN contacts |-> f[i]],
           \A i \in DOMAIN contacts : f[i] \in Contact
    PROVE  /\ f \in Seq(Contact) /\ Len(f) = Len(contacts) /\ DOMAIN f = DOMAIN contacts
           /\ Len(f) <= MaxContacts
<1>1. contacts \in Seq(Contact) /\ Len(contacts) \in Nat /\ DOMAIN contacts = 1 .. Len(contacts)
  BY LenProperties DEF ContactsTypeOK
<1>2. f \in [1 .. Len(contacts) -> Contact]
  BY <1>1
<1>3. f \in Seq(Contact)
  BY <1>1, <1>2, SeqDef
<1>4. Len(f) = Len(contacts)
  BY <1>1, <1>2, <1>3, LenProperties
<1> QED
  BY <1>1, <1>2, <1>3, <1>4 DEF ContactsTypeOK

LEMMA WithoutMarkType ==
    ASSUME ContactsTypeOK, NEW ids
    PROVE  /\ WithoutMark(ids) \in Seq(Contact) /\ Len(WithoutMark(ids)) = Len(contacts)
           /\ DOMAIN WithoutMark(ids) = DOMAIN contacts
           /\ \A i \in DOMAIN contacts :
                /\ WithoutMark(ids)[i] \in Contact
                /\ WithoutMark(ids)[i].company = contacts[i].company
                /\ WithoutMark(ids)[i].active = contacts[i].active
                /\ WithoutMark(ids)[i].address = contacts[i].address
                /\ WithoutMark(ids)[i].unsubscribed = contacts[i].unsubscribed
                /\ WithoutMark(ids)[i].primary = IF i \in ids THEN FALSE ELSE contacts[i].primary
<1>1. ASSUME NEW i \in DOMAIN contacts
      PROVE  /\ WithoutMark(ids)[i] = IF i \in ids THEN [contacts[i] EXCEPT !.primary = FALSE] ELSE contacts[i]
             /\ contacts[i] \in Contact
  BY ContactIsTyped DEF WithoutMark
<1>2. ASSUME NEW i \in DOMAIN contacts
      PROVE  /\ WithoutMark(ids)[i] \in Contact
             /\ WithoutMark(ids)[i].company = contacts[i].company
             /\ WithoutMark(ids)[i].active = contacts[i].active
             /\ WithoutMark(ids)[i].address = contacts[i].address
             /\ WithoutMark(ids)[i].unsubscribed = contacts[i].unsubscribed
             /\ WithoutMark(ids)[i].primary = IF i \in ids THEN FALSE ELSE contacts[i].primary
  BY <1>1 DEF Contact
<1>3. WithoutMark(ids) = [i \in DOMAIN contacts |-> WithoutMark(ids)[i]]
  BY DEF WithoutMark
<1>4. DOMAIN WithoutMark(ids) = DOMAIN contacts
  BY DEF WithoutMark
<1> HIDE DEF WithoutMark
<1> QED
  BY <1>2, <1>3, <1>4, SameLength

LEMMA MarkUnsubscribedType ==
    ASSUME ContactsTypeOK, NEW ids, MarkUnsubscribed(ids)
    PROVE  /\ contacts' \in Seq(Contact) /\ Len(contacts') = Len(contacts)
           /\ Len(contacts') <= MaxContacts
           /\ DOMAIN contacts' = DOMAIN contacts
           /\ \A i \in DOMAIN contacts :
                /\ contacts'[i] \in Contact
                /\ contacts'[i].company = contacts[i].company
                /\ contacts'[i].active = contacts[i].active
                /\ contacts'[i].unsubscribed = (contacts[i].unsubscribed \/ i \in ids)
                /\ contacts'[i].primary => contacts[i].primary
<1>1. ASSUME NEW i \in DOMAIN contacts
      PROVE  /\ contacts'[i] = IF i \in ids
                                THEN [contacts[i] EXCEPT !.unsubscribed = TRUE, !.primary = FALSE]
                                ELSE contacts[i]
             /\ contacts[i] \in Contact
  BY ContactIsTyped DEF MarkUnsubscribed, Unsubscribed
<1>2. ASSUME NEW i \in DOMAIN contacts
      PROVE  /\ contacts'[i] \in Contact
             /\ contacts'[i].company = contacts[i].company
             /\ contacts'[i].active = contacts[i].active
             /\ contacts'[i].unsubscribed = (contacts[i].unsubscribed \/ i \in ids)
             /\ contacts'[i].primary => contacts[i].primary
  BY <1>1 DEF Contact
<1>3. contacts' = [i \in DOMAIN contacts |-> contacts'[i]]
  BY DEF MarkUnsubscribed
<1> QED
  BY <1>2, <1>3, SameLength

-----------------------------------------------------------------------------
(* How the contacts move.                                                  *)

\* The commit of q marks i, and leaves no other mark in its company.
MarkedBy(q, i) ==
    /\ Within(q, Changing) /\ handling'[q] = Absent
    /\ contacts'[i].company = handling[q].company
    /\ \A k \in DOMAIN contacts' : contacts'[k].company = handling[q].company /\ Marked(k)' => k = i

\* The commit of q lets i be written to again.
Lifted(q, i) ==
    CommitUpdate(q) /\ handling[q].contact = i /\ handling[q].edit.unsubscribed = FALSE

ContactsMove ==
    /\ contacts' \in Seq(Contact) /\ Len(contacts') <= MaxContacts
    /\ DOMAIN contacts \subseteq DOMAIN contacts'
    /\ \A i \in DOMAIN contacts : contacts'[i].company = contacts[i].company
    /\ \A i \in DOMAIN contacts' : Marked(i)' =>
          (i \in DOMAIN contacts /\ Marked(i)) \/ \E q \in Requests : MarkedBy(q, i)
    /\ \A i \in DOMAIN contacts : Silent(i) => Silent(i)' \/ \E q \in Requests : Lifted(q, i)

LEMMA UnchangedMoves == ASSUME ContactsTypeOK, UNCHANGED contacts PROVE ContactsMove
BY DEF ContactsMove, ContactsTypeOK, Marked, Silent

LEMMA UnsubscriptionMoves ==
    ASSUME ContactsTypeOK, NEW ids, MarkUnsubscribed(ids) PROVE ContactsMove
<1>1. \A i \in DOMAIN contacts : contacts[i].unsubscribed \in BOOLEAN /\ contacts'[i].unsubscribed \in BOOLEAN
  BY ContactIsTyped, MarkUnsubscribedType DEF Contact
<1>2. \A i \in DOMAIN contacts : Silent(i) => Silent(i)'
  BY <1>1, MarkUnsubscribedType DEF Silent
<1> QED
  BY <1>2, MarkUnsubscribedType DEF ContactsMove, Marked

LEMMA CreationMoves ==
    ASSUME ContactsAreSane, NEW q \in Requests, CommitCreate(q) PROVE ContactsMove
<1> DEFINE w == handling[q]
           new == [company |-> w.company, address |-> w.edit.address, active |-> TRUE,
                   primary |-> w.edit.primary, unsubscribed |-> FALSE]
           left == WithoutMark(w.others)
           n == Len(contacts) + 1
<1>1. /\ w \in Change /\ w.kind = "create" /\ w.company \in Companies
      /\ w.edit \in Edit /\ ~AtRest(q) /\ Within(q, Changing)
  BY HandlingIsTyped DEF CommitCreate, Within, Changing, Change, ContactsAreSane
<1>2. ChangeIsSound(w)
  BY <1>1 DEF ContactsAreSane, HandlingIsSound, WorkIsSound, Changing
<1>3. new \in Contact
  BY <1>1, <1>2 DEF Contact, Edit, ChangeIsSound
<1>4. /\ left \in Seq(Contact) /\ Len(left) = Len(contacts) /\ Len(contacts) \in Nat
      /\ DOMAIN left = DOMAIN contacts /\ DOMAIN contacts = 1 .. Len(contacts)
      /\ contacts \in Seq(Contact)
      /\ \A i \in DOMAIN contacts :
           /\ left[i].company = contacts[i].company
           /\ left[i].active = contacts[i].active
           /\ left[i].unsubscribed = contacts[i].unsubscribed
           /\ left[i].primary = IF i \in w.others THEN FALSE ELSE contacts[i].primary
  <2>1. ContactsTypeOK
    BY DEF ContactsAreSane
  <2>2. /\ contacts \in Seq(Contact) /\ Len(contacts) \in Nat
        /\ DOMAIN contacts = 1 .. Len(contacts)
    BY <2>1, LenProperties DEF ContactsTypeOK
  <2>3. /\ left \in Seq(Contact) /\ Len(left) = Len(contacts) /\ DOMAIN left = DOMAIN contacts
        /\ \A i \in DOMAIN contacts :
                /\ left[i] \in Contact
                /\ left[i].company = contacts[i].company
                /\ left[i].active = contacts[i].active
                /\ left[i].address = contacts[i].address
                /\ left[i].unsubscribed = contacts[i].unsubscribed
                /\ left[i].primary = IF i \in w.others THEN FALSE ELSE contacts[i].primary
    BY <2>1, WithoutMarkType
  <2> HIDE DEF left, w
  <2> QED
    BY <2>2, <2>3
<1>5. contacts' = Append(left, new) /\ Len(contacts) < MaxContacts
  BY DEF CommitCreate
<1>6. /\ contacts' \in Seq(Contact) /\ Len(contacts') = n /\ DOMAIN contacts' = 1 .. n
      /\ \A i \in DOMAIN contacts : contacts'[i] = left[i]
      /\ contacts'[n] = new
  <2> HIDE DEF left, new
  <2>1. Append(left, new) \in Seq(Contact) /\ Len(Append(left, new)) = Len(left) + 1
        /\ \A i \in 1 .. Len(left) : Append(left, new)[i] = left[i]
        /\ Append(left, new)[Len(left) + 1] = new
    BY <1>3, <1>4, AppendProperties
  <2> QED
    BY <2>1, <1>4, <1>5, LenProperties
<1>7. Len(contacts') <= MaxContacts
  BY <1>4, <1>5, <1>6, BoundsAreNumbers
<1>8. ASSUME NEW i \in DOMAIN contacts
      PROVE  /\ contacts'[i].company = contacts[i].company
             /\ contacts'[i].active = contacts[i].active
             /\ contacts'[i].unsubscribed = contacts[i].unsubscribed
             /\ contacts'[i].primary = IF i \in w.others THEN FALSE ELSE contacts[i].primary
  <2>1. contacts'[i] = left[i]
    BY <1>6
  <2> HIDE DEF left, w
  <2> QED
    BY <2>1, <1>4
<1>9. handling'[q] = Absent
  BY DEF CommitCreate, Done, ContactsAreSane, ContactsTypeOK
<1>10. ASSUME NEW i \in DOMAIN contacts', Marked(i)', ~(i \in DOMAIN contacts /\ Marked(i))
       PROVE  MarkedBy(q, i)
  <2>1. i = n
    <3>1. i \notin DOMAIN contacts
      <4> HIDE DEF w
      <4> QED
        BY <1>10, <1>8 DEF Marked
    <3> QED
      BY <3>1, <1>4, <1>6
  <2>2. w.edit.primary = TRUE /\ contacts'[i].company = w.company
    <3> HIDE DEF w
    <3>1. new.primary = w.edit.primary /\ new.company = w.company
      OBVIOUS
    <3>2. contacts'[i] = new
      BY <2>1, <1>6
    <3>3. w.edit.primary
      BY <3>1, <3>2, <1>10 DEF Marked
    <3>4. w.edit.primary \in BOOLEAN
      BY <1>1, <1>2 DEF ChangeIsSound
    <3> QED
      BY <3>1, <3>2, <3>3, <3>4
  <2>3. ASSUME NEW k \in DOMAIN contacts', contacts'[k].company = w.company, Marked(k)'
        PROVE  k = i
    <3>1. SUFFICES ASSUME k \in DOMAIN contacts PROVE FALSE
      BY <1>4, <1>6, <2>1
    <3>2. k \notin w.others /\ Marked(k) /\ contacts[k].company = w.company
      BY <3>1, <2>3, <1>8 DEF Marked
    <3>3. k \in ActiveOf(w.company) /\ contacts[k].primary
      BY <3>1, <3>2 DEF ActiveOf, Marked
    <3>4. k = w.contact
      BY <3>2, <3>3, <2>2, <1>2 DEF ChangeIsSound
    <3>5. w.contact = Absent /\ k \in Ids
      BY <1>1, <1>2, <3>1, ContactIsTyped DEF ChangeIsSound, ContactsAreSane
    <3> QED
      BY <3>4, <3>5, AbsentIsNone
  <2> QED
    BY <2>2, <2>3, <1>1, <1>9 DEF MarkedBy
<1>11. \A i \in DOMAIN contacts : Silent(i) => Silent(i)'
  BY <1>8 DEF Silent
<1>12. DOMAIN contacts \subseteq DOMAIN contacts'
  BY <1>4, <1>6
<1> QED
  BY <1>6, <1>7, <1>8, <1>10, <1>11, <1>12 DEF ContactsMove

LEMMA UpdateMoves ==
    ASSUME ContactsAreSane, NEW q \in Requests, CommitUpdate(q) PROVE ContactsMove
<1> DEFINE w == handling[q]
           left == WithoutMark(w.others)
           j == w.contact
           changed == Edited(j, w.edit)
<1>1. /\ w \in Change /\ w.kind = "update" /\ w.company \in Companies
      /\ w.edit \in Edit /\ ~AtRest(q) /\ Within(q, Changing)
  BY HandlingIsTyped DEF CommitUpdate, Within, Changing, Change, ContactsAreSane
<1>2. ChangeIsSound(w)
  BY <1>1 DEF ContactsAreSane, HandlingIsSound, WorkIsSound, Changing
<1>3. j \in DOMAIN contacts /\ contacts[j].company = w.company
  BY <1>1, <1>2 DEF ChangeIsSound
<1>4. ContactsTypeOK
  BY DEF ContactsAreSane
<1>5. contacts' = [left EXCEPT ![j] = changed]
  BY DEF CommitUpdate
<1>6. /\ DOMAIN left = DOMAIN contacts
      /\ \A i \in DOMAIN contacts :
                /\ left[i] \in Contact
                /\ left[i].company = contacts[i].company
                /\ left[i].active = contacts[i].active
                /\ left[i].address = contacts[i].address
                /\ left[i].unsubscribed = contacts[i].unsubscribed
                /\ left[i].primary = IF i \in w.others THEN FALSE ELSE contacts[i].primary
  BY <1>4, WithoutMarkType
<1>7. /\ changed \in Contact
      /\ changed.company = contacts[j].company /\ changed.active = contacts[j].active
      /\ changed.unsubscribed = Sent(w.edit.unsubscribed, contacts[j].unsubscribed)
      /\ changed.primary = Sent(w.edit.primary, contacts[j].primary)
  <2>1. contacts[j] \in Contact
    BY <1>3, <1>4, ContactIsTyped
  <2>2. /\ w.edit.address \in Addresses \cup {Absent, "none"} /\ w.edit.unsubscribed \in BOOLEAN \cup {Absent}
        /\ w.edit.primary \in BOOLEAN \cup {Absent}
    BY <1>1 DEF Edit
  <2>3. /\ (IF w.edit.address = "none" THEN Absent ELSE Sent(w.edit.address, contacts[j].address)) \in Addresses \cup {Absent}
        /\ Sent(w.edit.unsubscribed, contacts[j].unsubscribed) \in BOOLEAN
        /\ Sent(w.edit.primary, contacts[j].primary) \in BOOLEAN
    BY <2>1, <2>2 DEF Contact, Sent
  <2> HIDE DEF w
  <2> QED
    BY <2>1, <2>3 DEF Contact, Edited
<1> HIDE DEF left, changed
<1>8. DOMAIN contacts' = DOMAIN contacts /\ contacts' = [i \in DOMAIN contacts |-> contacts'[i]]
      /\ contacts'[j] = changed /\ \A i \in DOMAIN contacts : i # j => contacts'[i] = left[i]
  BY <1>3, <1>5, <1>6
<1>9. /\ contacts' \in Seq(Contact) /\ Len(contacts') <= MaxContacts
  BY <1>4, <1>6, <1>7, <1>8, SameLength
<1>10. handling'[q] = Absent
  BY DEF CommitUpdate, Done, ContactsAreSane, ContactsTypeOK
<1>11. \A i \in DOMAIN contacts : contacts'[i].company = contacts[i].company /\ contacts'[i].active = contacts[i].active
  BY <1>3, <1>6, <1>7, <1>8
<1>12. ASSUME NEW i \in DOMAIN contacts, Marked(i)', ~Marked(i)
       PROVE  MarkedBy(q, i)
  <2>1. i = j
    BY <1>12, <1>6, <1>8, <1>11, ZenonT(60) DEF Marked
  <2>2. w.edit.primary = TRUE
    <3>1. ~contacts[j].primary /\ contacts'[j].primary
      BY <1>12, <2>1, <1>11 DEF Marked
    <3>2. changed.primary /\ w.edit.primary \in BOOLEAN \cup {Absent}
      BY <3>1, <1>8, <1>1 DEF Edit
    <3> QED
      BY <3>1, <3>2, <1>7 DEF Sent
  <2>3. ASSUME NEW k \in DOMAIN contacts, contacts'[k].company = w.company, Marked(k)', k # j
        PROVE  FALSE
    <3>1. k \notin w.others /\ Marked(k) /\ contacts[k].company = w.company
      BY <2>3, <1>6, <1>8, <1>11 DEF Marked
    <3>2. k \in ActiveOf(w.company) /\ contacts[k].primary
      BY <3>1 DEF ActiveOf, Marked
    <3> QED
      BY <3>1, <3>2, <2>2, <2>3, <1>2 DEF ChangeIsSound
  <2> QED
    BY <2>1, <2>3, <1>1, <1>3, <1>8, <1>10, <1>11 DEF MarkedBy
<1>13. ASSUME NEW i \in DOMAIN contacts, Silent(i), ~Silent(i)'
       PROVE  Lifted(q, i)
  <2>1. i = j
    BY <1>13, <1>6, <1>8, <1>11 DEF Silent
  <2>2. contacts[j].unsubscribed /\ ~contacts'[j].unsubscribed
    BY <1>13, <2>1, <1>11 DEF Silent
  <2>3. w.edit.unsubscribed = FALSE
    <3>1. ~changed.unsubscribed /\ w.edit.unsubscribed \in BOOLEAN \cup {Absent}
      BY <2>2, <1>8, <1>1 DEF Edit
    <3> QED
      BY <2>2, <3>1, <1>7 DEF Sent
  <2> QED
    BY <2>1, <2>3 DEF Lifted
<1> QED
  BY <1>8, <1>9, <1>11, <1>12, <1>13 DEF ContactsMove

LEMMA EndMoves ==
    ASSUME ContactsAreSane, NEW q \in Requests, CommitArchive(q) \/ CommitUnsubscribe(q)
    PROVE  ContactsMove
<1> DEFINE j == handling[q].contact
<1>1. /\ handling[q] \in Change /\ handling[q].kind \in {"archive", "unsubscribe"} /\ ~AtRest(q)
  BY HandlingIsTyped DEF CommitArchive, CommitUnsubscribe, Within, Changing, Change, ContactsAreSane
<1>2. j \in DOMAIN contacts
  BY <1>1 DEF ContactsAreSane, HandlingIsSound, WorkIsSound, Changing, ChangeIsSound
<1>3. ContactsTypeOK /\ contacts[j] \in Contact
  BY <1>2, ContactIsTyped DEF ContactsAreSane
<1>4. CASE CommitArchive(q)
  <2>1. contacts' = [contacts EXCEPT ![j] = [contacts[j] EXCEPT !.active = FALSE, !.primary = FALSE]]
    BY <1>4, <1>2 DEF CommitArchive
  <2>2. ASSUME NEW i \in DOMAIN contacts
        PROVE  /\ contacts'[i] \in Contact /\ contacts'[i].company = contacts[i].company
               /\ Marked(i)' => Marked(i)
               /\ Silent(i) => Silent(i)'
    <3>1. contacts[i] \in Contact
      BY <1>3, ContactIsTyped
    <3>2. CASE i = j
      <4>1. contacts'[i] = [contacts[i] EXCEPT !.active = FALSE, !.primary = FALSE]
        BY <3>2, <2>1
      <4> QED
        BY <4>1, <3>1 DEF Contact, Marked, Silent
    <3>3. CASE i # j
      <4>1. contacts'[i] = contacts[i]
        BY <3>3, <2>1
      <4> QED
        BY <4>1, <3>1 DEF Marked, Silent
    <3> QED
      BY <3>2, <3>3
  <2>3. DOMAIN contacts' = DOMAIN contacts /\ contacts' = [i \in DOMAIN contacts |-> contacts'[i]]
    BY <2>1
  <2>4. contacts' \in Seq(Contact) /\ Len(contacts') <= MaxContacts
    BY <1>3, <2>2, <2>3, SameLength
  <2> QED
    BY <2>2, <2>3, <2>4 DEF ContactsMove
<1>5. CASE CommitUnsubscribe(q)
  <2>1. contacts' = [contacts EXCEPT ![j] = Unsubscribed(j)]
    BY <1>5 DEF CommitUnsubscribe
  <2>2. contacts' = [i \in DOMAIN contacts |-> IF i \in {j} THEN Unsubscribed(i) ELSE contacts[i]]
    BY <2>1, <1>2
  <2>3. MarkUnsubscribed({j})
    BY <2>2 DEF MarkUnsubscribed
  <2> QED
    BY <2>3, <1>3, UnsubscriptionMoves
<1> QED
  BY <1>4, <1>5


-----------------------------------------------------------------------------
(* How the other variables move.                                           *)

\* A mail keeps whom it is for, and only the commit of its draft makes one.
OutreachMoves ==
    /\ outreach' \in [Mails -> Mail \cup {Absent}]
    /\ \A m \in Mails : outreach[m] # Absent =>
          /\ outreach'[m] # Absent /\ outreach'[m].contact = outreach[m].contact
          /\ outreach'[m].to = outreach[m].to /\ outreach'[m].address = outreach[m].address
          /\ outreach'[m].sent >= outreach[m].sent
    /\ \A m \in Mails : outreach[m] = Absent /\ outreach'[m] # Absent =>
          \E q \in Requests :
             /\ Drafts(q) /\ handling[q].mail = m /\ handling'[q] = Absent
             /\ outreach'[m].contact = handling[q].contact
             /\ outreach'[m].address = handling[q].address
             /\ handling[q].contact = Absent => outreach'[m].to = Absent

Records(q, r) == Within(q, {"reply"}) /\ r = <<handling[q].mail, handling[q].text>>

RepliesMove ==
    /\ replies' \in [Mails \X Texts -> Nat]
    /\ \A r \in Mails \X Texts : replies'[r] # replies[r] =>
          replies'[r] = replies[r] + 1 /\ \E q \in Requests : Records(q, r) /\ handling'[q] = Absent

StoppedMoves ==
    \A m \in stopped' :
       \/ m \in stopped /\ ~\E q \in Requests : Lifted(q, outreach[m].contact)
       \/ /\ m \in Mails /\ outreach[m] # Absent /\ outreach[m].sent > 0
          /\ outreach[m].contact # Absent /\ Silent(outreach[m].contact)'

\* A request moves alone: it is over, or has work that may be done beside that of
\* the others.
Begins(q, w) ==
    /\ handling'[q] = w
    /\ WorkIsSound(w)
    /\ w.inside => Unlocked(w)
    /\ w.kind = "draft" => \A k \in Requests \ {q} : Drafts(k) => handling[k].mail # w.mail
    /\ UNCHANGED <<contacts, outreach, replies, stopped>>

HandlingMoves ==
    \/ UNCHANGED handling
    \/ \E q \in Requests :
         /\ handling' = [handling EXCEPT ![q] = handling'[q]]
         /\ handling'[q] = Absent \/ \E w \in Change \cup Drafting \cup Recording : Begins(q, w)

Moves == ContactsMove /\ OutreachMoves /\ RepliesMove /\ StoppedMoves /\ HandlingMoves

LEMMA MailsStay == ASSUME ContactsTypeOK, UNCHANGED outreach PROVE OutreachMoves
<1>1. \A m \in Mails : outreach[m] # Absent => outreach[m].sent >= outreach[m].sent
  BY MailIsTyped
<1> QED
  BY <1>1 DEF OutreachMoves, ContactsTypeOK

LEMMA RepliesStay == ASSUME ContactsTypeOK, UNCHANGED replies PROVE RepliesMove
BY DEF RepliesMove, ContactsTypeOK

\* Nothing but an update lifts the silence of a contact.
LEMMA OnlyUpdatesLift ==
    ASSUME ContactsTypeOK, NEW q \in Requests, NEW i, Lifted(q, i)
    PROVE  ~AtRest(q) /\ handling[q].kind = "update" /\ handling' # handling
           /\ stopped' = {m \in stopped : outreach[m].contact # i}
BY AbsentIsNone DEF Lifted, CommitUpdate, Within, Done, AtRest, ContactsTypeOK

\* So what stays in stopped was not lifted.
LEMMA StoppedStay ==
    ASSUME ContactsTypeOK, stopped' \subseteq stopped PROVE StoppedMoves
<1> SUFFICES ASSUME NEW m \in stopped', NEW q \in Requests, Lifted(q, outreach[m].contact) PROVE FALSE
  BY DEF StoppedMoves
<1> QED
  BY OnlyUpdatesLift

LEMMA BeginMoves ==
    ASSUME ContactsAreSane, NEW q \in Requests,
           NEW w \in Change \cup Drafting \cup Recording, Ask(q, w), Begins(q, w)
    PROVE  Moves
<1>1. ContactsTypeOK /\ UNCHANGED <<contacts, outreach, replies, stopped>>
  BY DEF ContactsAreSane, Begins
<1>2. ContactsMove /\ OutreachMoves /\ RepliesMove
  BY <1>1, UnchangedMoves, MailsStay, RepliesStay
<1>3. handling' = [handling EXCEPT ![q] = w] /\ handling'[q] = w
  BY DEF Ask, ContactsAreSane, ContactsTypeOK
<1>4. HandlingMoves
  BY <1>3 DEF HandlingMoves
<1>5. StoppedMoves
  BY <1>1, StoppedStay
<1> QED
  BY <1>2, <1>4, <1>5 DEF Moves

LEMMA MinIsIn == ASSUME NEW S \in SUBSET Nat, S # {} PROVE Min(S) \in S
<1> DEFINE R == OpToRel(<, Nat)
<1>1. IsWellFoundedOn(R, Nat)
  BY NatLessThanWellFounded
<1>2. \A x, y \in Nat : <<x, y>> \in R <=> x < y
  BY DEF OpToRel
<1> HIDE DEF R
<1>3. PICK x \in S : \A y \in S : ~ (<<y, x>> \in R)
  BY <1>1, WFMin
<1>4. \A y \in S : x <= y
  <2>1. \A y \in S : ~ (y < x) /\ y \in Nat /\ x \in Nat
    BY <1>2, <1>3
  <2> QED
    BY <2>1
<1> QED
  BY <1>4 DEF Min

\* The recipient is a contact with an address.
LEMMA RecipientHasAddress ==
    ASSUME ContactsTypeOK, NEW c, Recipient(c) # Absent
    PROVE  /\ Recipient(c) \in DOMAIN contacts /\ Recipient(c) \in Ids
           /\ contacts[Recipient(c)].address # Absent
<1> DEFINE first == {i \in Mailable(c) : contacts[i].primary}
<1>1. /\ Mailable(c) \subseteq DOMAIN contacts /\ first \subseteq Mailable(c)
      /\ \A i \in Mailable(c) : contacts[i].address # Absent
  BY DEF Mailable, ActiveOf
<1>2. \A i \in DOMAIN contacts : i \in Ids /\ i \in Nat
  BY ContactIsTyped, BoundsAreNumbers DEF Ids
<1>3. first # {} => Min(first) \in Mailable(c)
  BY <1>1, <1>2, MinIsIn
<1>4. Mailable(c) # {} => Min(Mailable(c)) \in Mailable(c)
  BY <1>1, <1>2, MinIsIn
<1>5. Recipient(c) \in Mailable(c)
  BY <1>3, <1>4 DEF Recipient
<1> QED
  BY <1>1, <1>2, <1>5

-----------------------------------------------------------------------------
(* Requests begin.                                                         *)

LEMMA OtherPrimariesCover ==
    ASSUME ContactsTypeOK, NEW c, NEW j
    PROVE  /\ OtherPrimaries(c, j) \in SUBSET Ids
           /\ \A k \in ActiveOf(c) : contacts[k].primary => k = j \/ k \in OtherPrimaries(c, j)
BY ContactIsTyped DEF OtherPrimaries, ActiveOf

LEMMA BeginCreateMoves ==
    ASSUME ContactsAreSane, NEW q \in Requests, NEW c \in Companies, NEW new \in Creations,
           BeginCreate(q, c, new)
    PROVE  Moves
<1> DEFINE edit == [primary |-> new.primary, unsubscribed |-> FALSE, address |-> new.address]
           others == IF new.primary THEN OtherPrimaries(c, Absent) ELSE {}
           w == [kind |-> "create", inside |-> TRUE, company |-> c, contact |-> Absent,
                 edit |-> edit, others |-> others]
<1>1. ContactsTypeOK
  BY DEF ContactsAreSane
<1>2. new.primary \in BOOLEAN /\ new.address \in Addresses \cup {Absent}
  BY CreationsAreContacts
<1>3. edit \in Edit
  BY <1>2 DEF Edit
<1>4. others \in SUBSET Ids
  BY <1>1, OtherPrimariesCover
<1>5. w \in Change
  <2> HIDE DEF edit, others
  <2> QED
    BY <1>3, <1>4 DEF Change
<1>6. Begin(q, w)
  BY DEF BeginCreate
<1>7. ChangeIsSound(w)
  <2>1. edit.primary = new.primary /\ edit.address = new.address
    OBVIOUS
  <2>2. new.primary = TRUE =>
          \A k \in ActiveOf(c) : contacts[k].primary => k = Absent \/ k \in others
    BY <1>1, OtherPrimariesCover
  <2> HIDE DEF edit, others
  <2> QED
    BY <2>1, <2>2, <1>2 DEF ChangeIsSound
<1>8. w.kind = "create" /\ w.inside
  OBVIOUS
<1> HIDE DEF w
<1>9. Begins(q, w) /\ Ask(q, w)
  BY <1>1, <1>6, <1>7, <1>8 DEF Begin, Begins, Ask, WorkIsSound, ContactsTypeOK
<1> QED
  BY <1>5, <1>9, BeginMoves

LEMMA BeginUpdateMoves ==
    ASSUME ContactsAreSane, NEW q \in Requests, NEW i \in DOMAIN contacts, NEW edit \in Edits,
           BeginUpdate(q, i, edit)
    PROVE  Moves
<1> DEFINE unsubscribed == IF edit.unsubscribed = Absent THEN contacts[i].unsubscribed
                           ELSE edit.unsubscribed
           primary == edit.primary = TRUE /\ ~unsubscribed
           c == contacts[i].company
           mark == IF edit.unsubscribed = TRUE THEN FALSE
                   ELSE IF edit.primary = Absent THEN Absent ELSE primary
           sent == [edit EXCEPT !.primary = mark]
           others == IF primary THEN OtherPrimaries(c, i) ELSE {}
           w == [kind |-> "update", inside |-> TRUE, company |-> c, contact |-> i,
                 edit |-> sent, others |-> others]
<1>1. ContactsTypeOK
  BY DEF ContactsAreSane
<1>2. edit \in Edit
  BY EditsAreEdits
<1>3. c \in Companies /\ i \in Ids
  BY <1>1, ContactIsTyped
<1>4. mark \in BOOLEAN \cup {Absent} /\ (mark = TRUE => primary)
  <2> HIDE DEF unsubscribed
  <2> QED
    BY AbsentIsNone
<1>5. sent \in Edit /\ sent.primary = mark
  <2> HIDE DEF mark
  <2> QED
    BY <1>2, <1>4 DEF Edit
<1>6. others \in SUBSET Ids
  BY <1>1, OtherPrimariesCover
<1>7. w \in Change
  <2> HIDE DEF sent, others
  <2> QED
    BY <1>3, <1>5, <1>6 DEF Change
<1>8. Begin(q, w)
  BY DEF BeginUpdate
<1>9. ChangeIsSound(w)
  <2>1. mark = TRUE => \A k \in ActiveOf(c) : contacts[k].primary => k = i \/ k \in others
    BY <1>1, <1>4, OtherPrimariesCover
  <2> HIDE DEF sent, others, mark
  <2> QED
    BY <2>1, <1>5 DEF ChangeIsSound
<1>10. w.kind = "update" /\ w.inside
  OBVIOUS
<1> HIDE DEF w
<1>11. Begins(q, w) /\ Ask(q, w)
  BY <1>1, <1>8, <1>9, <1>10 DEF Begin, Begins, Ask, WorkIsSound, ContactsTypeOK
<1> QED
  BY <1>7, <1>11, BeginMoves

LEMMA BeginEndMoves ==
    ASSUME ContactsAreSane, NEW q \in Requests, NEW i \in DOMAIN contacts,
           NEW kind \in {"archive", "unsubscribe"}, BeginEnd(q, kind, i)
    PROVE  Moves
<1> DEFINE w == [kind |-> kind, inside |-> TRUE, company |-> contacts[i].company, contact |-> i,
                 edit |-> NoEdit, others |-> {}]
<1>1. ContactsTypeOK
  BY DEF ContactsAreSane
<1>2. contacts[i].company \in Companies /\ i \in Ids
  BY <1>1, ContactIsTyped
<1>3. NoEdit \in Edit /\ NoEdit.primary # TRUE
  BY AbsentIsNone DEF NoEdit, Edit
<1>4. w \in Change
  BY <1>2, <1>3 DEF Change
<1>5. Begin(q, w)
  BY DEF BeginEnd
<1>6. ChangeIsSound(w)
  BY <1>3 DEF ChangeIsSound
<1>7. w.kind \in {"archive", "unsubscribe"} /\ w.inside
  OBVIOUS
<1> HIDE DEF w
<1>8. Begins(q, w) /\ Ask(q, w)
  BY <1>1, <1>5, <1>6, <1>7 DEF Begin, Begins, Ask, WorkIsSound, ContactsTypeOK
<1> QED
  BY <1>4, <1>8, BeginMoves

LEMMA AskDraftMoves ==
    ASSUME ContactsAreSane, NEW q \in Requests, NEW c \in Companies, NEW m \in Mails,
           AskDraft(q, c, m)
    PROVE  Moves
<1> DEFINE to == Recipient(c)
           at == IF to = Absent THEN LeadAddress[c] ELSE contacts[to].address
           w == [kind |-> "draft", inside |-> FALSE, company |-> c, mail |-> m,
                 contact |-> to, address |-> at]
<1>1. ContactsTypeOK
  BY DEF ContactsAreSane
<1>2. to # Absent => to \in DOMAIN contacts /\ to \in Ids /\ contacts[to].address # Absent
  BY <1>1, RecipientHasAddress
<1>3. at \in Addresses \cup {Absent} /\ (to # Absent => at # Absent)
  BY <1>1, <1>2, ContactIsTyped, LeadAddressesAreAddresses
<1>4. /\ Ask(q, w) /\ outreach[m] = Absent /\ UNCHANGED <<contacts, outreach, replies, stopped>>
      /\ \A k \in Requests : Drafts(k) => handling[k].mail # m
  BY DEF AskDraft, Drafts
<1> HIDE DEF to, at
<1>5. w \in Drafting
  BY <1>2, <1>3 DEF Drafting
<1>6. DraftIsSound(w)
  BY <1>2, <1>3, <1>4 DEF DraftIsSound
<1>7. w.kind = "draft" /\ ~w.inside /\ w.mail = m
  OBVIOUS
<1> HIDE DEF w
<1>8. Begins(q, w)
  BY <1>1, <1>4, <1>6, <1>7 DEF Begins, Ask, WorkIsSound, Changing, ContactsTypeOK
<1> QED
  BY <1>4, <1>5, <1>8, BeginMoves

LEMMA EnterDraftMoves ==
    ASSUME ContactsAreSane, NEW q \in Requests, EnterDraft(q) PROVE Moves
<1> DEFINE w == [handling[q] EXCEPT !.inside = TRUE]
<1>1. ContactsTypeOK /\ MailsDiffer /\ HandlingIsSound
  BY DEF ContactsAreSane
<1>2. /\ ~AtRest(q) /\ handling[q].kind = "draft" /\ Unlocked(handling[q])
      /\ UNCHANGED <<contacts, outreach, replies, stopped>>
  BY DEF EnterDraft
<1>3. handling[q] \in Drafting
  BY <1>1, <1>2, HandlingIsTyped
<1>4. /\ w \in Drafting /\ w.kind = "draft" /\ w.mail = handling[q].mail /\ w.inside
      /\ w.contact = handling[q].contact /\ w.address = handling[q].address
      /\ w.company = handling[q].company
  BY <1>3 DEF Drafting
<1>5. Ask(q, w)
  BY DEF EnterDraft, Ask
<1> HIDE DEF w
<1>6. Keys(w) = Keys(handling[q])
  BY <1>2, <1>4 DEF Keys, Changing
<1>7. WorkIsSound(w)
  BY <1>1, <1>2, <1>4 DEF HandlingIsSound, WorkIsSound, DraftIsSound, Changing
<1>8. \A k \in Requests \ {q} : Drafts(k) => handling[k].mail # w.mail
  BY <1>1, <1>2, <1>4 DEF MailsDiffer, Drafts
<1>9. Begins(q, w)
  BY <1>1, <1>2, <1>5, <1>6, <1>7, <1>8 DEF Begins, Ask, Unlocked, ContactsTypeOK
<1> QED
  BY <1>4, <1>5, <1>9, BeginMoves

LEMMA BeginReplyMoves ==
    ASSUME ContactsAreSane, NEW q \in Requests, NEW m \in Mails, NEW text \in Texts,
           BeginReply(q, m, text)
    PROVE  Moves
<1> DEFINE w == [kind |-> "reply", inside |-> TRUE, mail |-> m, text |-> text]
<1>1. ContactsTypeOK
  BY DEF ContactsAreSane
<1>2. w \in Recording
  BY DEF Recording
<1>3. Begin(q, w) /\ ReplyIsSound(w)
  BY DEF BeginReply, ReplyIsSound
<1>4. w.kind = "reply" /\ w.inside
  OBVIOUS
<1> HIDE DEF w
<1>5. Begins(q, w) /\ Ask(q, w)
  BY <1>1, <1>3, <1>4 DEF Begin, Begins, Ask, WorkIsSound, Changing, ContactsTypeOK
<1> QED
  BY <1>2, <1>5, BeginMoves

-----------------------------------------------------------------------------
(* Requests end.                                                           *)

LEMMA DoneMoves ==
    ASSUME ContactsTypeOK, NEW q \in Requests, Done(q)
    PROVE  HandlingMoves /\ handling'[q] = Absent
BY DEF Done, HandlingMoves, ContactsTypeOK

LEMMA RefuseMoves ==
    ASSUME ContactsAreSane, NEW q \in Requests, Refuse(q) PROVE Moves
<1>1. ContactsTypeOK /\ UNCHANGED <<contacts, outreach, replies, stopped>> /\ Done(q)
  BY DEF ContactsAreSane, Refuse
<1>2. ContactsMove /\ OutreachMoves /\ RepliesMove
  BY <1>1, UnchangedMoves, MailsStay, RepliesStay
<1>3. StoppedMoves /\ HandlingMoves
  BY <1>1, StoppedStay, DoneMoves
<1> QED
  BY <1>2, <1>3 DEF Moves

LEMMA ChangeMoves ==
    ASSUME ContactsAreSane, NEW q \in Requests,
           CommitCreate(q) \/ CommitUpdate(q) \/ CommitArchive(q) \/ CommitUnsubscribe(q)
    PROVE  Moves
<1>1. ContactsTypeOK
  BY DEF ContactsAreSane
<1>2. ContactsMove
  BY CreationMoves, UpdateMoves, EndMoves
<1>3. UNCHANGED <<outreach, replies>> /\ Done(q) /\ stopped' \subseteq stopped
  BY DEF CommitCreate, CommitUpdate, CommitArchive, CommitUnsubscribe
<1>4. OutreachMoves /\ RepliesMove /\ StoppedMoves /\ HandlingMoves
  BY <1>1, <1>3, MailsStay, RepliesStay, StoppedStay, DoneMoves
<1> QED
  BY <1>2, <1>4 DEF Moves

LEMMA CommitMailMoves ==
    ASSUME ContactsAreSane, NEW q \in Requests, CommitMail(q) PROVE Moves
<1> DEFINE w == handling[q]
           mail == [company |-> w.company, contact |-> w.contact,
                    to |-> IF w.contact = Absent THEN Absent ELSE w.address,
                    address |-> w.address, open |-> TRUE, sent |-> 0]
<1>1. ContactsTypeOK
  BY DEF ContactsAreSane
<1>2. w \in Drafting /\ w.kind = "draft" /\ ~AtRest(q)
  BY <1>1, HandlingIsTyped DEF CommitMail, Within
<1>3. DraftIsSound(w)
  BY <1>2 DEF ContactsAreSane, HandlingIsSound, WorkIsSound
<1>4. UNCHANGED <<contacts, replies, stopped>> /\ Done(q) /\ outreach' = [outreach EXCEPT ![w.mail] = mail]
  BY DEF CommitMail
<1>5. ContactsMove /\ RepliesMove /\ StoppedMoves /\ HandlingMoves /\ handling'[q] = Absent
  BY <1>1, <1>4, UnchangedMoves, RepliesStay, StoppedStay, DoneMoves
<1>6. /\ mail \in Mail /\ mail.contact = w.contact /\ mail.address = w.address
      /\ w.contact = Absent => mail.to = Absent
  <2>1. /\ w.company \in Companies /\ w.contact \in Ids \cup {Absent}
        /\ w.address \in Addresses \cup {Absent} /\ 0 \in 0 .. MaxSendings
    BY <1>2, BoundsAreNumbers DEF Drafting
  <2> HIDE DEF w
  <2> QED
    BY <2>1 DEF Mail
<1>7. w.mail \in Mails /\ outreach[w.mail] = Absent
  BY <1>2, <1>3 DEF Drafting, DraftIsSound
<1> HIDE DEF mail
<1>8. OutreachMoves
  <2>1. outreach' \in [Mails -> Mail \cup {Absent}]
    BY <1>1, <1>4, <1>6 DEF ContactsTypeOK
  <2>2. \A m \in Mails : m # w.mail => outreach'[m] = outreach[m]
    BY <1>1, <1>4 DEF ContactsTypeOK
  <2>3. outreach'[w.mail] = mail
    BY <1>1, <1>4, <1>7 DEF ContactsTypeOK
  <2>4. \A m \in Mails : outreach[m] # Absent => m # w.mail /\ outreach[m].sent >= outreach[m].sent
    BY <1>1, <1>7, MailIsTyped
  <2> QED
    BY <1>2, <1>5, <1>6, <2>1, <2>2, <2>3, <2>4 DEF OutreachMoves, Drafts
<1> QED
  BY <1>5, <1>8 DEF Moves

LEMMA CommitReplyMoves ==
    ASSUME ContactsAreSane, NEW q \in Requests, NEW from \in Addresses, CommitReply(q, from)
    PROVE  Moves
<1> DEFINE w == handling[q]
           mail == outreach[w.mail]
           asksToStop == w.text = "stop"
           ids == IF mail.contact # Absent THEN {mail.contact}
                  ELSE {i \in ActiveOf(mail.company) : contacts[i].address = from}
           r == <<w.mail, w.text>>
<1>1. ContactsTypeOK /\ OutreachIsSound
  BY DEF ContactsAreSane
<1>2. w \in Recording /\ w.kind = "reply" /\ ~AtRest(q) /\ Within(q, {"reply"})
  BY <1>1, HandlingIsTyped DEF CommitReply, Within
<1>3. ReplyIsSound(w)
  BY <1>2 DEF ContactsAreSane, HandlingIsSound, WorkIsSound
<1>4. /\ replies' = [replies EXCEPT ![r] = @ + 1]
      /\ IF asksToStop THEN MarkUnsubscribed(ids) ELSE UNCHANGED contacts
      /\ stopped' = IF asksToStop /\ mail.contact # Absent THEN stopped \cup {w.mail} ELSE stopped
      /\ Done(q) /\ UNCHANGED outreach
  BY DEF CommitReply
<1>5. w.mail \in Mails /\ r \in Mails \X Texts
  BY <1>2 DEF Recording
<1>6. ContactsMove
  <2> HIDE DEF ids
  <2> QED
    BY <1>1, <1>4, UnchangedMoves, UnsubscriptionMoves
<1>7. OutreachMoves /\ HandlingMoves /\ handling'[q] = Absent
  BY <1>1, <1>4, MailsStay, DoneMoves
<1>8. RepliesMove
  <2>1. Records(q, r)
    BY <1>2 DEF Records
  <2> HIDE DEF r
  <2>2. replies' \in [Mails \X Texts -> Nat]
    BY <1>1, <1>4, <1>5 DEF ContactsTypeOK
  <2>3. \A s \in Mails \X Texts : replies'[s] # replies[s] => s = r /\ replies'[s] = replies[s] + 1
    BY <1>1, <1>4, <1>5 DEF ContactsTypeOK
  <2> QED
    BY <2>1, <2>2, <2>3, <1>7 DEF RepliesMove
<1>9. StoppedMoves
  <2>1. CASE stopped' \subseteq stopped
    BY <1>1, <2>1, StoppedStay
  <2>2. CASE asksToStop /\ mail.contact # Absent
    <3>1. mail # Absent /\ mail.sent > 0
      BY <1>3 DEF ReplyIsSound
    <3>2. mail.contact \in DOMAIN contacts
      BY <1>1, <1>5, <2>2, <3>1 DEF OutreachIsSound
    <3>3. contacts'[mail.contact].unsubscribed
      <4>1. MarkUnsubscribed(ids) /\ mail.contact \in ids
        BY <1>4, <2>2
      <4> HIDE DEF ids, mail
      <4> QED
        BY <1>1, <3>2, <4>1, MarkUnsubscribedType, ZenonT(60)
    <3>6. ASSUME NEW m \in Mails, m = w.mail
          PROVE  /\ outreach[m] # Absent /\ outreach[m].sent > 0
                 /\ outreach[m].contact # Absent /\ Silent(outreach[m].contact)'
      <4>1. outreach[m] = mail /\ outreach'[m] = mail
        BY <1>4, <3>6
      <4> HIDE DEF mail
      <4> QED
        BY <4>1, <2>2, <3>1, <3>3 DEF Silent
    <3>4. \A m \in stopped' : m \in stopped \/ m = w.mail
      BY <1>4
    <3>5. \A m \in stopped', p \in Requests : m \in stopped => ~Lifted(p, outreach[m].contact)
      BY <1>1, OnlyUpdatesLift
    <3> QED
      BY <1>5, <3>4, <3>5, <3>6 DEF StoppedMoves
  <2> QED
    BY <1>4, <2>1, <2>2
<1> QED
  BY <1>6, <1>7, <1>8, <1>9 DEF Moves

-----------------------------------------------------------------------------
(* Mails and unsubscriptions.                                              *)

\* A mail moves on as what it is.
LEMMA MailMoves ==
    ASSUME ContactsAreSane, NEW m \in Mails, Drop(m) \/ Reopen(m) \/ Send(m)
    PROVE  Moves
<1>1. ContactsTypeOK
  BY DEF ContactsAreSane
<1>2. /\ outreach[m] # Absent /\ UNCHANGED <<contacts, replies, stopped, handling>>
      /\ outreach \in [Mails -> Mail \cup {Absent}]
  BY <1>1 DEF Drop, Reopen, Send, ContactsTypeOK
<1>3. outreach[m] \in Mail /\ outreach[m].sent \in Nat
  BY <1>1, <1>2, MailIsTyped
<1>4. PICK new : /\ outreach' = [outreach EXCEPT ![m] = new]
                 /\ new \in Mail /\ new.contact = outreach[m].contact /\ new.to = outreach[m].to
                 /\ new.address = outreach[m].address /\ new.sent >= outreach[m].sent
  <2>1. CASE Drop(m) \/ Reopen(m)
    <3>1. PICK open \in BOOLEAN : outreach' = [outreach EXCEPT ![m] = [outreach[m] EXCEPT !.open = open]]
      BY <2>1, <1>2 DEF Drop, Reopen
    <3> DEFINE new == [outreach[m] EXCEPT !.open = open]
    <3>2. /\ new \in Mail /\ new.contact = outreach[m].contact /\ new.to = outreach[m].to
          /\ new.address = outreach[m].address /\ new.sent = outreach[m].sent
      BY <1>3 DEF Mail
    <3>3. outreach' = [outreach EXCEPT ![m] = new] /\ new.sent >= outreach[m].sent
      BY <3>1, <3>2, <1>3
    <3> HIDE DEF new
    <3> QED
      BY <3>2, <3>3
  <2>2. CASE Send(m)
    <3> DEFINE new == [outreach[m] EXCEPT !.open = FALSE, !.sent = outreach[m].sent + 1]
    <3>1. outreach' = [outreach EXCEPT ![m] = new] /\ outreach[m].sent < MaxSendings
      BY <2>2, <1>2 DEF Send
    <3>2. outreach[m].sent + 1 \in 0 .. MaxSendings /\ outreach[m].sent + 1 >= outreach[m].sent
      BY <3>1, <1>3, BoundsAreNumbers
    <3>3. /\ new \in Mail /\ new.contact = outreach[m].contact /\ new.to = outreach[m].to
          /\ new.address = outreach[m].address /\ new.sent = outreach[m].sent + 1
      BY <1>3, <3>2 DEF Mail
    <3> QED
      BY <3>1, <3>2, <3>3
  <2> QED
    BY <2>1, <2>2
<1>5. new # Absent
  BY <1>4, AbsentIsNone
<1>6. /\ outreach' \in [Mails -> Mail \cup {Absent}] /\ outreach'[m] = new
      /\ \A k \in Mails : k # m => outreach'[k] = outreach[k]
  BY <1>2, <1>4
<1>7. \A k \in Mails : outreach[k] # Absent => outreach[k].sent >= outreach[k].sent
  BY <1>1, MailIsTyped
<1>8. OutreachMoves
  BY <1>2, <1>4, <1>5, <1>6, <1>7 DEF OutreachMoves
<1>9. ContactsMove /\ RepliesMove /\ StoppedMoves /\ HandlingMoves
  BY <1>1, <1>2, UnchangedMoves, RepliesStay, StoppedStay DEF HandlingMoves
<1> QED
  BY <1>8, <1>9 DEF Moves

LEMMA SuppressMoves ==
    ASSUME ContactsAreSane, NEW ids, Suppress(ids) PROVE Moves
<1>1. ContactsTypeOK /\ MarkUnsubscribed(ids) /\ UNCHANGED <<outreach, replies, stopped, handling>>
  BY DEF ContactsAreSane, Suppress
<1> QED
  BY <1>1, UnsubscriptionMoves, MailsStay, RepliesStay, StoppedStay DEF HandlingMoves, Moves

LEMMA FollowLinkMoves ==
    ASSUME ContactsAreSane, NEW m \in Mails, FollowLink(m) PROVE Moves
<1> DEFINE ids == Matched(m, outreach[m].to)
           i == outreach[m].contact
<1>1. ContactsTypeOK /\ OutreachIsSound
  BY DEF ContactsAreSane
<1>2. /\ outreach[m] # Absent /\ outreach[m].sent > 0 /\ outreach[m].to # Absent
      /\ MarkUnsubscribed(ids) /\ stopped' = stopped \cup {m}
      /\ UNCHANGED <<outreach, replies, handling>>
  BY DEF FollowLink
<1>3. i # Absent /\ i \in DOMAIN contacts
  BY <1>1, <1>2 DEF OutreachIsSound
<1>4. contacts[i].active => i \in ids
  BY <1>3 DEF Matched
<1>5. ContactsMove /\ OutreachMoves /\ RepliesMove /\ HandlingMoves
  <2> HIDE DEF ids
  <2> QED
    BY <1>1, <1>2, UnsubscriptionMoves, MailsStay, RepliesStay DEF HandlingMoves
<1>6. ~contacts'[i].active \/ contacts'[i].unsubscribed
  <2> HIDE DEF ids, i
  <2> QED
    BY <1>1, <1>2, <1>3, <1>4, MarkUnsubscribedType
<1>7. Silent(outreach[m].contact)'
  BY <1>2, <1>6 DEF Silent
<1>8. \A k \in stopped', p \in Requests : k \in stopped => ~Lifted(p, outreach[k].contact)
  BY <1>1, OnlyUpdatesLift
<1>9. StoppedMoves
  BY <1>2, <1>3, <1>7, <1>8 DEF StoppedMoves
<1> QED
  BY <1>5, <1>9 DEF Moves

\* Every step is of these.
LEMMA NextMoves == ASSUME ContactsAreSane, ContactsNext PROVE Moves
<1>1. ASSUME NEW q \in Requests, Handle(q) PROVE Moves
  BY <1>1, BeginCreateMoves, BeginUpdateMoves, BeginEndMoves, ChangeMoves, AskDraftMoves,
     EnterDraftMoves, CommitMailMoves, BeginReplyMoves, CommitReplyMoves, RefuseMoves DEF Handle
<1>2. ASSUME NEW m \in Mails, Drop(m) \/ Reopen(m) \/ Send(m) \/ FollowLink(m) PROVE Moves
  BY <1>2, MailMoves, FollowLinkMoves
<1> QED
  BY <1>1, <1>2, SuppressMoves DEF ContactsNext

LEMMA StutterMoves == ASSUME ContactsAreSane, UNCHANGED contactVars PROVE Moves
<1>1. ContactsTypeOK /\ UNCHANGED <<contacts, outreach, replies, stopped, handling>>
  BY DEF ContactsAreSane, contactVars
<1> QED
  BY <1>1, UnchangedMoves, MailsStay, RepliesStay, StoppedStay DEF HandlingMoves, Moves

-----------------------------------------------------------------------------
(* The invariant is kept.                                                  *)

\* A request that is at work afterwards was at it before, or begins it now.
LEMMA AtWorkAfter ==
    ASSUME ContactsAreSane, Moves, NEW p \in Requests, handling'[p] # Absent
    PROVE  /\ \/ handling'[p] = handling[p]
              \/ \E w \in Change \cup Drafting \cup Recording : Begins(p, w)
           /\ \A q \in Requests \ {p} : handling'[p] # handling[p] => handling'[q] = handling[q]
<1>1. handling \in [Requests -> Change \cup Drafting \cup Recording \cup {Absent}]
  BY DEF ContactsAreSane, ContactsTypeOK
<1>2. CASE UNCHANGED handling
  BY <1>2
<1>3. CASE ~UNCHANGED handling
  <2>1. PICK q \in Requests :
          /\ handling' = [handling EXCEPT ![q] = handling'[q]]
          /\ handling'[q] = Absent \/ \E w \in Change \cup Drafting \cup Recording : Begins(q, w)
    BY <1>3 DEF Moves, HandlingMoves
  <2>2. \A k \in Requests : k # q => handling'[k] = handling[k]
    BY <1>1, <2>1
  <2> QED
    BY <2>1, <2>2
<1> QED
  BY <1>2, <1>3

LEMMA TypesKept == ASSUME ContactsAreSane, Moves PROVE ContactsTypeOK'
<1>1. contacts' \in Seq(Contact) /\ Len(contacts') <= MaxContacts
  BY DEF Moves, ContactsMove
<1>2. outreach' \in [Mails -> Mail \cup {Absent}] /\ replies' \in [Mails \X Texts -> Nat]
  BY DEF Moves, OutreachMoves, RepliesMove
<1>3. stopped' \subseteq Mails
  BY DEF Moves, StoppedMoves, ContactsAreSane, ContactsTypeOK
<1>4. handling' \in [Requests -> Change \cup Drafting \cup Recording \cup {Absent}]
  <2>1. handling \in [Requests -> Change \cup Drafting \cup Recording \cup {Absent}]
    BY DEF ContactsAreSane, ContactsTypeOK
  <2>2. CASE UNCHANGED handling
    BY <2>1, <2>2
  <2>3. CASE ~UNCHANGED handling
    <3>1. PICK q \in Requests :
            /\ handling' = [handling EXCEPT ![q] = handling'[q]]
            /\ handling'[q] = Absent \/ \E w \in Change \cup Drafting \cup Recording : Begins(q, w)
      BY <2>3 DEF Moves, HandlingMoves
    <3>2. handling'[q] \in Change \cup Drafting \cup Recording \cup {Absent}
      BY <3>1 DEF Begins
    <3> QED
      BY <2>1, <3>1, <3>2
  <2> QED
    BY <2>2, <2>3
<1> QED
  BY <1>1, <1>2, <1>3, <1>4 DEF ContactsTypeOK

LEMMA KeysKept == ASSUME ContactsAreSane, Moves PROVE KeysDiffer'
<1> SUFFICES ASSUME NEW p \in Requests, NEW q \in Requests, p # q, Entered(p)', Entered(q)'
             PROVE  Keys(handling'[p]) \cap Keys(handling'[q]) = {}
  BY DEF KeysDiffer, Keys
<1>1. /\ handling'[p] # Absent /\ handling'[p].inside
      /\ handling'[q] # Absent /\ handling'[q].inside
  BY DEF Entered, AtRest
<1>2. CASE handling'[p] = handling[p] /\ handling'[q] = handling[q]
  BY <1>1, <1>2 DEF ContactsAreSane, KeysDiffer, Entered, AtRest
<1>3. ASSUME NEW k \in Requests, NEW l \in Requests, k # l,
             handling'[k] # Absent, handling'[k].inside, handling'[l] # Absent, handling'[l].inside,
             handling'[k] # handling[k]
      PROVE  Keys(handling'[k]) \cap Keys(handling'[l]) = {}
  <2>1. PICK w \in Change \cup Drafting \cup Recording : Begins(k, w)
    BY <1>3, AtWorkAfter
  <2>2. handling'[k] = w /\ Unlocked(w)
    BY <2>1, <1>3 DEF Begins
  <2>3. handling'[l] = handling[l]
    BY <1>3, AtWorkAfter
  <2>4. Keys(handling[l]) \cap Keys(w) = {}
    BY <1>3, <2>2, <2>3 DEF Unlocked, AtRest
  <2> QED
    BY <2>2, <2>3, <2>4
<1> QED
  BY <1>1, <1>2, <1>3

LEMMA MailsKept == ASSUME ContactsAreSane, Moves PROVE MailsDiffer'
<1> SUFFICES ASSUME NEW p \in Requests, NEW q \in Requests, p # q, Drafts(p)', Drafts(q)'
             PROVE  handling'[p].mail # handling'[q].mail
  BY DEF MailsDiffer
<1>1. /\ handling'[p] # Absent /\ handling'[p].kind = "draft"
      /\ handling'[q] # Absent /\ handling'[q].kind = "draft"
  BY DEF Drafts, AtRest
<1>2. CASE handling'[p] = handling[p] /\ handling'[q] = handling[q]
  BY <1>1, <1>2 DEF ContactsAreSane, MailsDiffer, Drafts, AtRest
<1>3. ASSUME NEW k \in Requests, NEW l \in Requests, k # l,
             handling'[k] # Absent, handling'[k].kind = "draft",
             handling'[l] # Absent, handling'[l].kind = "draft", handling'[k] # handling[k]
      PROVE  handling'[k].mail # handling'[l].mail
  <2>1. PICK w \in Change \cup Drafting \cup Recording : Begins(k, w)
    BY <1>3, AtWorkAfter
  <2>2. handling'[l] = handling[l]
    BY <1>3, AtWorkAfter
  <2>3. Drafts(l) /\ l \in Requests \ {k}
    BY <1>3, <2>2 DEF Drafts, AtRest
  <2> QED
    BY <1>3, <2>1, <2>2, <2>3 DEF Begins
<1> QED
  BY <1>1, <1>2, <1>3

LEMMA OutreachKept == ASSUME ContactsAreSane, Moves PROVE OutreachIsSound'
<1> SUFFICES ASSUME NEW m \in Mails, outreach'[m] # Absent
             PROVE  /\ outreach'[m].contact # Absent =>
                         outreach'[m].contact \in DOMAIN contacts' /\ outreach'[m].address # Absent
                    /\ outreach'[m].contact = Absent => outreach'[m].to = Absent
  BY DEF OutreachIsSound
<1>1. DOMAIN contacts \subseteq DOMAIN contacts'
  BY DEF Moves, ContactsMove
<1>2. CASE outreach[m] # Absent
  BY <1>1, <1>2 DEF Moves, OutreachMoves, ContactsAreSane, OutreachIsSound
<1>3. CASE outreach[m] = Absent
  <2>1. PICK q \in Requests :
             /\ Drafts(q) /\ outreach'[m].contact = handling[q].contact
             /\ outreach'[m].address = handling[q].address
             /\ handling[q].contact = Absent => outreach'[m].to = Absent
    BY <1>3 DEF Moves, OutreachMoves
  <2>2. DraftIsSound(handling[q])
    BY <2>1 DEF ContactsAreSane, HandlingIsSound, WorkIsSound, Drafts
  <2> QED
    BY <1>1, <2>1, <2>2 DEF DraftIsSound
<1> QED
  BY <1>2, <1>3

LEMMA SilenceKept == ASSUME ContactsAreSane, Moves PROVE StoppedAreSilent'
<1> SUFFICES ASSUME NEW m \in stopped'
             PROVE  /\ outreach'[m] # Absent /\ outreach'[m].sent > 0
                    /\ outreach'[m].contact # Absent /\ Silent(outreach[m].contact)'
  BY DEF StoppedAreSilent
<1>1. /\ m \in Mails /\ outreach[m] # Absent /\ outreach[m].sent > 0 /\ outreach[m].contact # Absent
  BY DEF Moves, StoppedMoves, ContactsAreSane, StoppedAreSilent, ContactsTypeOK
<1>2. /\ outreach'[m] # Absent /\ outreach'[m].contact = outreach[m].contact
      /\ outreach'[m].sent >= outreach[m].sent
  BY <1>1 DEF Moves, OutreachMoves
<1>3. outreach[m].sent \in Nat /\ outreach'[m].sent \in Nat
  <2>1. ContactsTypeOK /\ ContactsTypeOK'
    BY TypesKept DEF ContactsAreSane
  <2>2. outreach[m] \in Mail /\ outreach'[m] \in Mail
    BY <1>1, <1>2, <2>1 DEF ContactsTypeOK
  <2> QED
    BY <2>2, BoundsAreNumbers DEF Mail
<1>4. Silent(outreach[m].contact)'
  <2>1. CASE m \in stopped /\ ~\E q \in Requests : Lifted(q, outreach[m].contact)
    <3>1. Silent(outreach[m].contact) /\ outreach[m].contact \in DOMAIN contacts
      BY <2>1, <1>1 DEF ContactsAreSane, StoppedAreSilent, OutreachIsSound
    <3> DEFINE i == outreach[m].contact
    <3>2. ~contacts'[i].active \/ contacts'[i].unsubscribed
      BY <2>1, <3>1 DEF Moves, ContactsMove, Silent
    <3> QED
      BY <1>2, <3>2 DEF Silent
  <2> QED
    BY <2>1 DEF Moves, StoppedMoves
<1> QED
  BY <1>1, <1>2, <1>3, <1>4

LEMMA MarkKept == ASSUME ContactsAreSane, Moves PROVE OneMark'
<1> SUFFICES ASSUME NEW i \in DOMAIN contacts', NEW k \in DOMAIN contacts',
                    contacts'[i].company = contacts'[k].company, Marked(i)', Marked(k)'
             PROVE  i = k
  BY DEF OneMark
<1>1. /\ (i \in DOMAIN contacts /\ Marked(i)) \/ \E q \in Requests : MarkedBy(q, i)
      /\ (k \in DOMAIN contacts /\ Marked(k)) \/ \E q \in Requests : MarkedBy(q, k)
  BY DEF Moves, ContactsMove
<1>2. ASSUME NEW q \in Requests, MarkedBy(q, i) \/ MarkedBy(q, k) PROVE i = k
  BY <1>2 DEF MarkedBy
<1>3. CASE i \in DOMAIN contacts /\ Marked(i) /\ k \in DOMAIN contacts /\ Marked(k)
  BY <1>3 DEF Moves, ContactsMove, ContactsAreSane, OneMark
<1> QED
  BY <1>1, <1>2, <1>3

\* Whoever commits is another request than p, with other keys.
LEMMA OthersCommit ==
    ASSUME ContactsAreSane, NEW p \in Requests, NEW q \in Requests,
           handling'[p] = handling[p], ~AtRest(p), handling'[q] = Absent
    PROVE  /\ q # p
           /\ Entered(p) /\ Entered(q) => Keys(handling[p]) \cap Keys(handling[q]) = {}
           /\ Drafts(p) /\ Drafts(q) => handling[p].mail # handling[q].mail
BY DEF ContactsAreSane, KeysDiffer, MailsDiffer, AtRest

LEMMA ChangeKept ==
    ASSUME ContactsAreSane, Moves, NEW p \in Requests, ~AtRest(p), handling'[p] = handling[p],
           handling[p].kind \in Changing
    PROVE  ChangeIsSound(handling[p])'
<1> DEFINE w == handling[p]
<1>1. w \in Change /\ Entered(p)
  BY HandlingIsTyped DEF ContactsAreSane, Change, Entered
<1>2. ChangeIsSound(w)
  BY DEF ContactsAreSane, HandlingIsSound, WorkIsSound
<1>3. \A i \in DOMAIN contacts : i \in DOMAIN contacts' /\ contacts'[i].company = contacts[i].company
  BY DEF Moves, ContactsMove
<1>4. ASSUME NEW k \in DOMAIN contacts', contacts'[k].company = w.company, Marked(k)'
      PROVE  k \in DOMAIN contacts /\ Marked(k)
  <2> SUFFICES ASSUME NEW q \in Requests, MarkedBy(q, k) PROVE FALSE
    BY <1>4 DEF Moves, ContactsMove
  <2>1. /\ handling'[q] = Absent /\ Entered(q) /\ handling[q].kind \in Changing
        /\ handling[q].company = w.company
    BY <1>4 DEF MarkedBy, Within, Entered
  <2>2. Keys(w) \cap Keys(handling[q]) = {}
    BY <1>1, <2>1, OthersCommit
  <2>3. <<"contacts", w.company>> \in Keys(w) /\ <<"contacts", w.company>> \in Keys(handling[q])
    BY <2>1 DEF Keys
  <2> QED
    BY <2>2, <2>3
<1>5. ASSUME w.edit.primary = TRUE, NEW k \in DOMAIN contacts', contacts'[k].company = w.company, Marked(k)'
      PROVE  k = w.contact \/ k \in w.others
  <2>1. k \in DOMAIN contacts /\ Marked(k) /\ contacts[k].company = w.company
    BY <1>3, <1>4, <1>5
  <2>2. k \in ActiveOf(w.company) /\ contacts[k].primary
    BY <2>1 DEF ActiveOf, Marked
  <2> QED
    BY <1>2, <1>5, <2>2 DEF ChangeIsSound
<1>6. /\ w.kind = "create" => /\ w.contact = Absent /\ w.edit.primary \in BOOLEAN
                              /\ w.edit.address \in Addresses \cup {Absent}
      /\ w.kind # "create" => w.contact \in DOMAIN contacts' /\ contacts'[w.contact].company = w.company
  BY <1>2, <1>3 DEF ChangeIsSound
<1> QED
  BY <1>5, <1>6 DEF ChangeIsSound, ActiveOf, Marked

LEMMA DraftKept ==
    ASSUME ContactsAreSane, Moves, NEW p \in Requests, Drafts(p), handling'[p] = handling[p]
    PROVE  DraftIsSound(handling[p])'
<1> DEFINE w == handling[p]
<1>1. w \in Drafting /\ ~AtRest(p) /\ w.mail \in Mails
  BY HandlingIsTyped DEF ContactsAreSane, Drafts, Drafting
<1>2. DraftIsSound(w)
  BY <1>1 DEF ContactsAreSane, HandlingIsSound, WorkIsSound, Drafts
<1>3. outreach'[w.mail] = Absent
  <2> SUFFICES ASSUME outreach'[w.mail] # Absent PROVE FALSE
    OBVIOUS
  <2>1. PICK q \in Requests : Drafts(q) /\ handling[q].mail = w.mail /\ handling'[q] = Absent
    BY <1>1, <1>2 DEF Moves, OutreachMoves, DraftIsSound
  <2> QED
    BY <1>1, <2>1, OthersCommit
<1>4. w.contact # Absent => w.contact \in DOMAIN contacts' /\ w.address # Absent
  BY <1>2 DEF Moves, ContactsMove, DraftIsSound
<1> QED
  BY <1>3, <1>4 DEF DraftIsSound

LEMMA ReplyKept ==
    ASSUME ContactsAreSane, Moves, NEW p \in Requests, ~AtRest(p), handling[p].kind = "reply",
           handling'[p] = handling[p]
    PROVE  ReplyIsSound(handling[p])'
<1> DEFINE w == handling[p]
           r == <<w.mail, w.text>>
<1>1. w \in Recording /\ w.mail \in Mails /\ r \in Mails \X Texts /\ Entered(p)
  BY HandlingIsTyped DEF ContactsAreSane, Recording, Entered
<1>2. ReplyIsSound(w)
  BY DEF ContactsAreSane, HandlingIsSound, WorkIsSound
<1>3. outreach'[w.mail] # Absent /\ outreach'[w.mail].sent >= outreach[w.mail].sent
  BY <1>1, <1>2 DEF Moves, OutreachMoves, ReplyIsSound
<1>4. outreach'[w.mail].sent > 0
  <2>1. ContactsTypeOK /\ ContactsTypeOK'
    BY TypesKept DEF ContactsAreSane
  <2>2. outreach[w.mail] \in Mail /\ outreach'[w.mail] \in Mail
    BY <1>1, <1>2, <1>3, <2>1 DEF ContactsTypeOK, ReplyIsSound
  <2>3. outreach[w.mail].sent \in Nat /\ outreach'[w.mail].sent \in Nat /\ outreach[w.mail].sent > 0
    BY <2>2, <1>2, BoundsAreNumbers DEF Mail, ReplyIsSound
  <2> QED
    BY <1>3, <2>3
<1>5. replies'[r] = replies[r]
  <2> SUFFICES ASSUME NEW q \in Requests, Records(q, r), handling'[q] = Absent PROVE FALSE
    BY <1>1 DEF Moves, RepliesMove
  <2>1. /\ Entered(q) /\ handling[q].kind = "reply"
        /\ <<handling[q].mail, handling[q].text>> = <<w.mail, w.text>>
    BY DEF Records, Within, Entered
  <2>2. handling[q].mail = w.mail /\ handling[q].text = w.text
    BY <2>1
  <2>3. Keys(w) \cap Keys(handling[q]) = {}
    BY <1>1, <2>1, OthersCommit
  <2>4. Keys(w) = {<<"reply", w.mail, w.text>>} /\ Keys(handling[q]) = {<<"reply", w.mail, w.text>>}
    BY <2>1, <2>2 DEF Keys, Changing
  <2> QED
    BY <2>3, <2>4
<1>6. replies'[r] = 0
  BY <1>2, <1>5 DEF ReplyIsSound
<1> QED
  BY <1>3, <1>4, <1>6 DEF ReplyIsSound

LEMMA WorkKept == ASSUME ContactsAreSane, Moves PROVE HandlingIsSound'
<1> SUFFICES ASSUME NEW p \in Requests, handling'[p] # Absent PROVE WorkIsSound(handling[p])'
  BY DEF HandlingIsSound, AtRest
<1>1. CASE handling'[p] = handling[p]
  <2>1. ~AtRest(p)
    BY <1>1 DEF AtRest
  <2>2. handling[p].kind \in Changing => ChangeIsSound(handling[p])'
    BY <1>1, <2>1, ChangeKept
  <2>3. handling[p].kind = "draft" => DraftIsSound(handling[p])'
    BY <1>1, <2>1, DraftKept DEF Drafts
  <2>4. handling[p].kind = "reply" => ReplyIsSound(handling[p])'
    BY <1>1, <2>1, ReplyKept
  <2> QED
    BY <1>1, <2>2, <2>3, <2>4 DEF WorkIsSound
<1>2. ASSUME NEW w \in Change \cup Drafting \cup Recording, Begins(p, w)
      PROVE  WorkIsSound(handling[p])'
  BY <1>2 DEF Begins, WorkIsSound, ChangeIsSound, DraftIsSound, ReplyIsSound, ActiveOf
<1> QED
  BY <1>1, <1>2, AtWorkAfter

LEMMA RecordsKept == ASSUME ContactsAreSane, Moves PROVE RecordedOnce'
<1> SUFFICES ASSUME NEW r \in Mails \X Texts PROVE replies'[r] <= 1
  BY DEF RecordedOnce
<1>1. CASE replies'[r] = replies[r]
  BY <1>1 DEF ContactsAreSane, RecordedOnce
<1>2. CASE replies'[r] # replies[r]
  <2>1. PICK q \in Requests : Records(q, r)
    BY <1>2 DEF Moves, RepliesMove
  <2>2. ReplyIsSound(handling[q])
    BY <2>1 DEF ContactsAreSane, HandlingIsSound, WorkIsSound, Records, Within
  <2>3. replies[r] = 0 /\ replies'[r] = replies[r] + 1
    BY <1>2, <2>1, <2>2 DEF ReplyIsSound, Records, Moves, RepliesMove
  <2> QED
    BY <2>3
<1> QED
  BY <1>1, <1>2

LEMMA SaneKept == ASSUME ContactsAreSane, Moves PROVE ContactsAreSane'
BY TypesKept, WorkKept, KeysKept, MailsKept, OutreachKept, SilenceKept, MarkKept, RecordsKept
   DEF ContactsAreSane

LEMMA ContactsInitSane == ContactsInit => ContactsAreSane
<1> SUFFICES ASSUME ContactsInit PROVE ContactsAreSane
  OBVIOUS
<1>1. DOMAIN contacts = {} /\ contacts \in Seq(Contact) /\ Len(contacts) = 0
  BY EmptySeq DEF ContactsInit
<1>2. ContactsTypeOK
  BY <1>1, BoundsAreNumbers DEF ContactsInit, ContactsTypeOK
<1>3. HandlingIsSound /\ KeysDiffer /\ MailsDiffer
  BY DEF ContactsInit, HandlingIsSound, KeysDiffer, MailsDiffer, Entered, Drafts, AtRest
<1>4. OutreachIsSound /\ StoppedAreSilent /\ OneMark /\ RecordedOnce
  BY <1>1 DEF ContactsInit, OutreachIsSound, StoppedAreSilent, OneMark, RecordedOnce
<1> QED
  BY <1>2, <1>3, <1>4 DEF ContactsAreSane

\* The invariant that everything about contacts follows from.
THEOREM ContactsSanity == ContactsSpec => []ContactsAreSane
<1>1. ContactsAreSane /\ [ContactsNext]_contactVars => ContactsAreSane'
  BY NextMoves, StutterMoves, SaneKept
<1> QED
  BY <1>1, ContactsInitSane, PTL DEF ContactsSpec

\* Contacts, mails, replies and the work of requests stay what they are said to be,
\* and no request ever refers to a contact that does not exist (ContactsService).
THEOREM ContactsTyping == ContactsSpec => []ContactsTypeOK
<1>1. ContactsAreSane => ContactsTypeOK
  BY DEF ContactsAreSane
<1> QED
  BY <1>1, ContactsSanity, PTL

LEMMA AtMostOne == ASSUME NEW S, \A x, y \in S : x = y PROVE Cardinality(S) <= 1
<1>1. CASE S = {}
  <2>1. Cardinality(S) = 0
    BY <1>1, FS_EmptySet
  <2> QED
    BY <2>1
<1>2. CASE S # {}
  <2>1. PICK x \in S : S = {x}
    BY <1>2
  <2>2. Cardinality(S) = 1
    BY <2>1, FS_Singleton
  <2> QED
    BY <2>2
<1> QED
  BY <1>1, <1>2

\* A company has one primary contact and a reply is recorded once, however many
\* requests are handled at once (ContactsService, RecordMailReplyUseCase).
THEOREM OneEach == ContactsSpec => []OneOfEach
<1>1. ContactsAreSane => OneOfEach
  <2> SUFFICES ASSUME ContactsAreSane PROVE OneOfEach
    OBVIOUS
  <2>1. ASSUME NEW c \in Companies
        PROVE  Cardinality({i \in ActiveOf(c) : contacts[i].primary}) <= 1
    <3>1. \A i, k \in {i \in ActiveOf(c) : contacts[i].primary} : i = k
      BY DEF ContactsAreSane, OneMark, Marked, ActiveOf
    <3> QED
      BY <3>1, AtMostOne
  <2> QED
    BY <2>1 DEF ContactsAreSane, OneOfEach, OnePrimary
<1> QED
  BY <1>1, ContactsSanity, PTL

\* Only Send counts a sending, and it looks at the contact.
LEMMA SendingsAreEligible ==
    ASSUME ContactsAreSane, [ContactsNext]_contactVars, NEW m \in Mails, outreach[m] # Absent,
           outreach'[m].sent > outreach[m].sent
    PROVE  Eligible(m)
<1>1. ContactsTypeOK /\ outreach[m] \in Mail /\ outreach[m].sent \in Nat
  BY MailIsTyped DEF ContactsAreSane
<1>2. outreach'[m] # outreach[m]
  BY <1>1
<1>3. ContactsNext
  BY <1>2 DEF contactVars
<1>4. ASSUME NEW q \in Requests, Handle(q) PROVE FALSE
  <2>1. CommitMail(q)
    BY <1>2, <1>4 DEF Handle, BeginCreate, BeginUpdate, BeginEnd, Begin, CommitCreate, CommitUpdate,
       CommitArchive, CommitUnsubscribe, AskDraft, EnterDraft, BeginReply, CommitReply, Refuse
  <2>2. DraftIsSound(handling[q]) /\ handling[q] \in Drafting
    BY <1>1, <2>1, HandlingIsTyped
       DEF CommitMail, Within, ContactsAreSane, HandlingIsSound, WorkIsSound
  <2>3. handling[q].mail # m
    BY <2>2 DEF DraftIsSound
  <2> QED
    BY <1>1, <1>2, <2>1, <2>3 DEF CommitMail, ContactsTypeOK
<1>5. ASSUME NEW k \in Mails, Drop(k) \/ Reopen(k) \/ Send(k) \/ FollowLink(k) PROVE Eligible(m)
  <2>1. k = m /\ ~FollowLink(k)
    BY <1>1, <1>2, <1>5 DEF Drop, Reopen, Send, FollowLink, ContactsTypeOK
  <2>2. ASSUME Drop(m) \/ Reopen(m) PROVE FALSE
    <3>1. PICK open \in BOOLEAN : outreach' = [outreach EXCEPT ![m] = [outreach[m] EXCEPT !.open = open]]
      BY <2>2 DEF Drop, Reopen
    <3>2. outreach'[m].sent = outreach[m].sent
      BY <3>1, <1>1 DEF ContactsTypeOK, Mail
    <3> QED
      BY <3>2, <1>1
  <2> QED
    BY <1>5, <2>1, <2>2 DEF Send
<1>6. ASSUME NEW ids, Suppress(ids) PROVE FALSE
  BY <1>2, <1>6 DEF Suppress
<1> QED
  BY <1>3, <1>4, <1>5, <1>6 DEF ContactsNext

\* Whoever asked not to be written to again is not, with any mail to the address,
\* until an operator clears the mark (assertPersistedMailContactEligible,
\* unsubscribeByToken, RecordMailReplyUseCase).
THEOREM Silence == ContactsSpec => StoppedStaysSilent
<1> DEFINE Quiet == \A m \in Mails : \A k \in stopped :
                       outreach[m] # Absent /\ outreach'[m].sent > outreach[m].sent
                         => outreach[m].address # outreach[k].address
<1>1. ASSUME ContactsAreSane, [ContactsNext]_contactVars PROVE [Quiet]_contactVars
  <2> SUFFICES ASSUME NEW m \in Mails, NEW k \in stopped, outreach[m] # Absent,
                      outreach'[m].sent > outreach[m].sent
               PROVE  outreach[m].address # outreach[k].address
    OBVIOUS
  <2>1. /\ ContactsTypeOK /\ k \in Mails /\ outreach[k] # Absent /\ outreach[k].sent > 0
        /\ outreach[k].contact # Absent /\ Silent(outreach[k].contact)
        /\ outreach[k].address # Absent
    BY <1>1 DEF ContactsAreSane, StoppedAreSilent, OutreachIsSound, ContactsTypeOK
  <2>2. Eligible(m)
    BY <1>1, SendingsAreEligible
  <2>3. m # k
    BY <2>1, <2>2 DEF Eligible, Silent
  <2>4. Holds(k)
    BY <2>1 DEF Holds
  <2> QED
    BY <2>1, <2>2, <2>3, <2>4 DEF Eligible, NobodyElseWrote
<1> QED
  BY <1>1, ContactsSanity, PTL DEF ContactsSpec, StoppedStaysSilent
=============================================================================
