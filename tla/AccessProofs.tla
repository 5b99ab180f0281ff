---------------------------- MODULE AccessProofs ----------------------------
(***************************************************************************)
(* What holds of UserSessions for every set of users, pages, browsers and  *)
(* sessions, whatever the lives of a session are; and of SignIn for every  *)
(* set of tabs, paths and accounts, and every life of cookie and keys.     *)
(***************************************************************************)
EXTENDS UserSessions, SignIn, TLAPS

-----------------------------------------------------------------------------
(* The parts of the invariant.                                             *)

RowTypes ==
    /\ member \in [Users -> Member \cup {Nobody}]
    /\ session \in [Sessions -> Session \cup {Nobody}]
    /\ now \in 0..MaxTime

PageTypes == page \in [Pages -> Page]

CookieTypes ==
    /\ cookie \in [Browsers -> Sessions \cup {Nobody}]
    /\ oauth \in [Browsers -> Pages \cup {Nobody}]

Targeted(r) == r.request \in {"update", "revoke", "create"} => r.target \in Users

SigningIn(r) ==
    /\ r.stage \in {"asked", "resolved", "identified"} => r.user \in Users
    /\ r.stage \in {"resolved", "identified"} => member[r.user] # Nobody

\* A request is that of its session, which it has just used.
Authenticated(r) ==
    r.stage \in {"found", "authorized", "inside"} =>
        /\ r.session \in Sessions /\ r.session # Nobody
        /\ session[r.session] # Nobody
        /\ session[r.session].user = r.user
        /\ session[r.session].used = now

HasToken(r) == r.stage \in {"authorized", "inside"} /\ r.request # "me" => r.shows = r.session

\* What was tested under the lock is still so.
Admitted(r) == r.stage = "inside" => r.request = "update" /\ Allowed(r) /\ r.read = member[r.target]

PagesAreSound ==
    \A p \in Pages :
        Targeted(page[p]) /\ SigningIn(page[p]) /\ Authenticated(page[p])
        /\ HasToken(page[p]) /\ Admitted(page[p])

OneInside == \A p, q \in Pages : At(p, "inside") /\ At(q, "inside") => p = q

SessionsAreOfMembers == \A s \in Sessions : session[s] # Nobody => member[session[s].user] # Nobody

-----------------------------------------------------------------------------
(* What a step does to the pages, the members and the sessions.            *)

LEMMA WaitingIsPage ==
    ASSUME NEW shows \in Sessions \cup {Nobody}
    PROVE  /\ Waiting(shows) \in Page
           /\ Waiting(shows).stage = "idle" /\ Waiting(shows).request = "me"
           /\ Waiting(shows).shows = shows /\ Waiting(shows).session = Nobody
BY DEF Waiting, Page, Stages, Requests, Member, Roles, ActiveAdmin

\* The page of a step, and what becomes of it.
Becomes(p, r) == page' = [page EXCEPT ![p] = r]

Rests(p) == \E shows \in Sessions \cup {Nobody} : Becomes(p, Waiting(shows))

Advances(p, stage) == page' = [page EXCEPT ![p].stage = stage]

LEMMA RestRests ==
    ASSUME NEW p \in Pages, PageTypes, Rest(p)
    PROVE  Rests(p)
<1>1. page[p].shows \in Sessions \cup {Nobody}
  BY DEF PageTypes, Page
<1> QED
  BY <1>1 DEF Rest, Rests, Becomes, PageTypes

\* Members are added by Create and Bootstrap, changed by Update.
Adds == \E u \in Users, m \in Member : member[u] = Nobody /\ member' = [member EXCEPT ![u] = m]

\* The sessions of a set are revoked.
SomeRevoked == \E sessions \in SUBSET Sessions : (\A s \in sessions : session[s] # Nobody) /\ session' = Revoked(sessions)

LEMMA RestTypes ==
    ASSUME NEW p \in Pages, PageTypes, Rests(p)
    PROVE  PageTypes'
BY WaitingIsPage DEF PageTypes, Rests, Becomes

LEMMA AdvanceTypes ==
    ASSUME NEW p \in Pages, NEW stage \in Stages, PageTypes, Advances(p, stage)
    PROVE  PageTypes'
BY DEF PageTypes, Advances, Page

LEMMA AddTypes ==
    ASSUME RowTypes, Adds
    PROVE  member' \in [Users -> Member \cup {Nobody}]
BY DEF RowTypes, Adds

LEMMA RevokedTypes ==
    ASSUME RowTypes, SomeRevoked
    PROVE  session' \in [Sessions -> Session \cup {Nobody}]
<1>1. PICK sessions \in SUBSET Sessions :
          (\A s \in sessions : session[s] # Nobody) /\ session' = Revoked(sessions)
  BY DEF SomeRevoked
<1>2. ASSUME NEW s \in sessions PROVE [session[s] EXCEPT !.revoked = TRUE] \in Session
  BY <1>1 DEF RowTypes, Session
<1> QED
  BY <1>1, <1>2 DEF Revoked, RowTypes

-----------------------------------------------------------------------------
(* Type correctness.                                                       *)

Types == RowTypes /\ PageTypes /\ CookieTypes

LEMMA TypeParts == TypeOK <=> Types
BY DEF TypeOK, Types, RowTypes, PageTypes, CookieTypes

LEMMA BrowsersOfPages == \A p \in Pages : BrowserOf[p] \in Browsers
BY DEF Browsers

\* Who signs in and what is asked for are users.
Named == \A p \in Pages : Targeted(page[p]) /\ SigningIn(page[p]) /\ Authenticated(page[p])

LEMMA SignInTypes ==
    ASSUME Types, Named, NEW p \in Pages,
           (\E u \in Users : Begin(p, u) \/ LocalLogin(p, u)) \/ Callback(p) \/ Identify(p) \/ Issue(p)
    PROVE  Types'
<1> USE BrowsersOfPages
<1>1. ASSUME NEW u \in Users, Begin(p, u) PROVE Types'
  <2>1. [Waiting(Nobody) EXCEPT !.stage = "asked", !.user = u] \in Page
    BY DEF Waiting, Page, Stages, Requests, Member, Roles, ActiveAdmin
  <2> QED
    BY <1>1, <2>1 DEF Begin, Types, RowTypes, PageTypes, CookieTypes
<1>2. ASSUME NEW u \in Users, LocalLogin(p, u) PROVE Types'
  <2>1. [Waiting(Nobody) EXCEPT !.stage = "resolved", !.user = u] \in Page
    BY DEF Waiting, Page, Stages, Requests, Member, Roles, ActiveAdmin
  <2> QED
    BY <1>2, <2>1 DEF LocalLogin, Types, RowTypes, PageTypes, CookieTypes
<1>3. CASE Callback(p)
  <2>1. PageTypes'
    <3>1. Advances(p, "resolved") \/ Rest(p)
      BY <1>3 DEF Callback, Advances
    <3> QED
      BY <3>1, RestRests, RestTypes, AdvanceTypes DEF Types, Stages
  <2> QED
    BY <1>3, <2>1 DEF Callback, Types, RowTypes, CookieTypes
<1>4. CASE Identify(p)
  <2>1. PageTypes'
    <3>1. Advances(p, "identified") \/ Rest(p)
      BY <1>4 DEF Identify, Advances
    <3> QED
      BY <3>1, RestRests, RestTypes, AdvanceTypes DEF Types, Stages
  <2> QED
    BY <1>4, <2>1 DEF Identify, Types, RowTypes, CookieTypes
<1>5. CASE Issue(p)
  <2>1. page[p].user \in Users
    BY <1>5 DEF Issue, At, Named, SigningIn
  <2>2. [user |-> page[p].user, revoked |-> FALSE, lastSeen |-> now, used |-> now,
         idle |-> now + IdleLife, absolute |-> now + AbsoluteLife] \in Session
    BY <2>1, LivesAreTimes DEF Session, Types, RowTypes
  <2>3. PageTypes'
    BY <1>5, RestRests, RestTypes DEF Issue, Types
  <2> QED
    BY <1>5, <2>2, <2>3 DEF Issue, Types, RowTypes, CookieTypes
<1> QED
  BY <1>1, <1>2, <1>3, <1>4, <1>5

LEMMA TouchedTypes ==
    ASSUME RowTypes, NEW s \in Sessions, session[s] # Nobody, session' = Touched(s)
    PROVE  session' \in [Sessions -> Session \cup {Nobody}]
<1>1. session[s] \in Session
  BY DEF RowTypes
<1>2. Earlier(session[s].absolute, now + IdleLife) \in Nat
  BY <1>1, LivesAreTimes DEF Earlier, Session, RowTypes
<1>3. [session[s] EXCEPT !.lastSeen = now, !.idle = Earlier(session[s].absolute, now + IdleLife)] \in Session
  BY <1>1, <1>2 DEF Session, RowTypes
<1> QED
  BY <1>3 DEF Touched, RowTypes

LEMMA RequestTypes ==
    ASSUME Types, Named, NEW p \in Pages,
           \/ \E request \in Requests, u \in Users \cup {Nobody}, change \in Member : Send(p, request, u, change)
           \/ Authorize(p) \/ Me(p) \/ Logout(p)
    PROVE  Types'
<1> USE BrowsersOfPages
<1>1. ASSUME NEW request \in Requests, NEW u \in Users \cup {Nobody}, NEW change \in Member,
             Send(p, request, u, change)
      PROVE  Types'
  <2> DEFINE s == cookie[BrowserOf[p]]
  <2>1. s \in Sessions /\ s # Nobody
    BY <1>1 DEF Send, Types, CookieTypes
  <2>2. CASE ~Usable(s)
    <3>1. Rests(p) /\ UNCHANGED session
      BY <1>1, <2>2 DEF Send, Rests, Becomes
    <3> QED
      BY <1>1, <3>1, RestTypes DEF Send, Types, RowTypes, CookieTypes
  <2>3. CASE Usable(s) /\ ~IsActive(session[s].user)
    <3>1. Rests(p) /\ SomeRevoked
      BY <1>1, <2>3 DEF Send, Rests, Becomes, SomeRevoked, SessionsOf
    <3> QED
      BY <1>1, <3>1, RestTypes, RevokedTypes DEF Send, Types, RowTypes, CookieTypes
  <2>4. CASE Usable(s) /\ IsActive(session[s].user)
    <3>1. session[s] \in Session /\ member[session[s].user] \in Member
      BY <2>1, <2>4 DEF Usable, IsActive, Types, RowTypes, Session
    <3>2. [session[s] EXCEPT !.used = now] \in Session
      BY <3>1 DEF Session, Types, RowTypes
    <3> DEFINE r == [Waiting(page[p].shows) EXCEPT !.stage = "found", !.request = request, !.session = s,
                        !.user = session[s].user, !.role = member[session[s].user].role,
                        !.target = u, !.change = change]
    <3>3. r \in Page
      <4>1. page[p].shows \in Sessions \cup {Nobody}
        BY DEF Types, PageTypes, Page
      <4> QED
        BY <2>1, <3>1, <4>1 DEF Waiting, Page, Stages, Requests, Member, Roles, Session, ActiveAdmin
    <3>4. page' = [page EXCEPT ![p] = r] /\ session' = [session EXCEPT ![s].used = now]
      BY <1>1, <2>4 DEF Send, Types, PageTypes
    <3> QED
      BY <1>1, <2>1, <3>2, <3>3, <3>4 DEF Send, Types, RowTypes, PageTypes, CookieTypes
  <2> QED
    BY <2>2, <2>3, <2>4
<1>2. CASE Authorize(p)
  <2>1. Advances(p, "authorized") \/ Rest(p)
    BY <1>2 DEF Authorize, Advances
  <2>2. page[p].session \in Sessions /\ session[page[p].session] # Nobody
    BY <1>2 DEF Authorize, At, Named, Authenticated
  <2> QED
    BY <1>2, <2>1, <2>2, TouchedTypes, RestRests, RestTypes, AdvanceTypes
       DEF Authorize, Types, RowTypes, CookieTypes, Stages
<1>3. CASE Me(p)
  <2>1. Rests(p)
    BY <1>3 DEF Me, Rests, Becomes, Types, PageTypes, Page
  <2> QED
    BY <1>3, <2>1, RestTypes DEF Me, Types, RowTypes, CookieTypes
<1>4. CASE Logout(p)
  <2>1. Rests(p)
    BY <1>4 DEF Logout, Rests, Becomes
  <2>2. SomeRevoked
    BY <1>4 DEF Logout, Serving, At, SomeRevoked, Named, Authenticated
  <2> QED
    BY <1>4, <2>1, <2>2, RestTypes, RevokedTypes DEF Logout, Types, RowTypes, CookieTypes
<1> QED
  BY <1>1, <1>2, <1>3, <1>4

LEMMA ManagementTypes ==
    ASSUME Types, Named, NEW p \in Pages, Create(p) \/ Revoke(p) \/ Enter(p) \/ Update(p), 
           At(p, "inside") => page[p].request = "update"
    PROVE  Types'
<1>0. page[p].change \in Member
  BY DEF Types, PageTypes, Page
<1>1. CASE Create(p)
  <2>1. page[p].target \in Users
    BY <1>1 DEF Create, Serving, Named, Targeted
  <2> QED
    BY <1>0, <1>1, <2>1, RestRests, RestTypes DEF Create, Types, RowTypes, CookieTypes
<1>2. CASE Revoke(p)
  <2>1. UNCHANGED session \/ SomeRevoked
    BY <1>2 DEF Revoke, SomeRevoked, SessionsOf
  <2> QED
    BY <1>2, <2>1, RestRests, RestTypes, RevokedTypes DEF Revoke, Types, RowTypes, CookieTypes
<1>3. CASE Enter(p)
  <2>1. CASE Rest(p)
    BY <1>3, <2>1, RestRests, RestTypes DEF Enter, Types, RowTypes, CookieTypes
  <2>2. CASE /\ Allowed(page[p])
             /\ page' = [page EXCEPT ![p].stage = "inside", ![p].read = member[page[p].target]]
    <3>1. member[page[p].target] \in Member
      BY <1>3, <2>2 DEF Enter, Serving, Allowed, Named, Targeted, Types, RowTypes
    <3>2. [page[p] EXCEPT !.stage = "inside", !.read = member[page[p].target]] \in Page
      BY <3>1 DEF Types, PageTypes, Page, Stages
    <3>3. PageTypes'
      BY <2>2, <3>2 DEF Types, PageTypes
    <3> QED
      BY <1>3, <3>3 DEF Enter, Types, RowTypes, CookieTypes
  <2> QED
    BY <1>3, <2>1, <2>2 DEF Enter
<1>4. CASE Update(p)
  <2>1. page[p].target \in Users
    BY <1>4 DEF Update, Named, Targeted
  <2>2. UNCHANGED session \/ SomeRevoked
    BY <1>4 DEF Update, SomeRevoked, SessionsOf
  <2> QED
    BY <1>0, <1>4, <2>1, <2>2, RestRests, RestTypes, RevokedTypes DEF Update, Types, RowTypes, CookieTypes
<1> QED
  BY <1>1, <1>2, <1>3, <1>4

-----------------------------------------------------------------------------
(* What stays.                                                             *)

Sound(r) == Targeted(r) /\ SigningIn(r) /\ Authenticated(r) /\ HasToken(r) /\ Admitted(r)

LEMMA SoundPages ==
    PagesAreSound <=> \A p \in Pages : Sound(page[p])
BY DEF PagesAreSound, Sound

LEMMA SoundIsNamed == PagesAreSound => Named
BY DEF PagesAreSound, Named

SessionMoves ==
    \/ UNCHANGED session
    \/ SomeRevoked
    \/ \E p \in Pages : Issue(p)
    \/ \E s \in Sessions : session[s] # Nobody /\ session' = [session EXCEPT ![s].used = now]
    \/ \E s \in Sessions : session[s] # Nobody /\ session' = Touched(s)

MemberMoves == UNCHANGED member \/ Adds \/ \E p \in Pages : Update(p)

LEMMA Requested ==
    ASSUME Types, NEW p \in Pages, Step(p)
    PROVE  \/ \E u \in Users : Begin(p, u) \/ LocalLogin(p, u)
           \/ Callback(p) \/ Identify(p) \/ Issue(p)
           \/ \E request \in Requests, u \in Users \cup {Nobody}, change \in Member :
                /\ request \in {"update", "revoke", "create"} => u \in Users
                /\ Send(p, request, u, change)
           \/ Authorize(p) \/ Me(p) \/ Logout(p)
           \/ Create(p) \/ Revoke(p) \/ Enter(p) \/ Update(p)
<1>1. ActiveAdmin \in Member
  BY DEF ActiveAdmin, Member, Roles
<1> QED
  BY <1>1, ChangesAreMembers DEF Step, Requests

LEMMA StepMoves ==
    ASSUME Types, PagesAreSound, NEW p \in Pages, Step(p)
    PROVE  SessionMoves /\ MemberMoves /\ now' = now
<1>0. Named /\ page[p].change \in Member
  BY SoundIsNamed DEF Types, PageTypes, Page
<1>1. ASSUME NEW request \in Requests, NEW u \in Users \cup {Nobody}, NEW change \in Member,
             Send(p, request, u, change)
      PROVE  SessionMoves /\ MemberMoves /\ now' = now
  <2> DEFINE s == cookie[BrowserOf[p]]
  <2>1. s \in Sessions /\ s # Nobody
    BY <1>1, BrowsersOfPages DEF Send, Types, CookieTypes
  <2>2. UNCHANGED session \/ SomeRevoked \/ (session[s] # Nobody /\ session' = [session EXCEPT ![s].used = now])
    BY <1>1 DEF Send, SomeRevoked, SessionsOf, Usable
  <2> QED
    BY <1>1, <2>1, <2>2 DEF Send, SessionMoves, MemberMoves
<1>2. CASE Authorize(p)
  <2>1. page[p].session \in Sessions /\ session[page[p].session] # Nobody
    BY <1>0, <1>2 DEF Authorize, At, Named, Authenticated
  <2> QED
    BY <1>2, <2>1 DEF Authorize, SessionMoves, MemberMoves
<1>3. CASE Logout(p)
  <2>1. SomeRevoked
    BY <1>0, <1>3 DEF Logout, Serving, At, SomeRevoked, Named, Authenticated
  <2> QED
    BY <1>3, <2>1 DEF Logout, SessionMoves, MemberMoves
<1>4. CASE Create(p)
  <2>1. page[p].target \in Users
    BY <1>0, <1>4 DEF Create, Serving, Named, Targeted
  <2> QED
    BY <1>0, <1>4, <2>1 DEF Create, SessionMoves, MemberMoves, Adds
<1>5. CASE Revoke(p)
  BY <1>5 DEF Revoke, SomeRevoked, SessionsOf, SessionMoves, MemberMoves
<1>6. CASE Update(p)
  BY <1>6 DEF Update, SomeRevoked, SessionsOf, SessionMoves, MemberMoves
<1>7. CASE \/ \E u \in Users : Begin(p, u) \/ LocalLogin(p, u)
           \/ Callback(p) \/ Identify(p) \/ Issue(p) \/ Me(p) \/ Enter(p)
  BY <1>7 DEF Begin, LocalLogin, Callback, Identify, Issue, Me, Enter, SessionMoves, MemberMoves
<1> QED
  BY <1>1, <1>2, <1>3, <1>4, <1>5, <1>6, <1>7, Requested

SessionsStay ==
    \A s \in Sessions : session[s] # Nobody =>
        /\ session'[s] # Nobody
        /\ session'[s].user = session[s].user
        /\ session[s].revoked => session'[s].revoked
        /\ session'[s].absolute = session[s].absolute
        /\ session'[s].used \in {session[s].used, now}

MembersStay == \A u \in Users : member[u] # Nobody => member'[u] # Nobody

LEMMA SessionsStayed ==
    ASSUME RowTypes, SessionMoves
    PROVE  SessionsStay
<1> SUFFICES ASSUME NEW s \in Sessions, session[s] # Nobody
             PROVE  /\ session'[s] # Nobody
                    /\ session'[s].user = session[s].user
                    /\ session[s].revoked => session'[s].revoked
                    /\ session'[s].absolute = session[s].absolute
                    /\ session'[s].used \in {session[s].used, now}
  BY DEF SessionsStay
<1>1. session[s] \in Session
  BY DEF RowTypes
<1>2. CASE SomeRevoked
  <2>1. PICK sessions \in SUBSET Sessions : session' = Revoked(sessions)
    BY <1>2 DEF SomeRevoked
  <2>2. [session[s] EXCEPT !.revoked = TRUE] \in Session
    BY <1>1 DEF Session
  <2>3. session'[s] = session[s] \/ session'[s] = [session[s] EXCEPT !.revoked = TRUE]
    BY <2>1 DEF Revoked
  <2> QED
    BY <1>1, <2>2, <2>3, NobodyIsNone DEF Session
<1>3. ASSUME NEW p \in Pages, Issue(p) PROVE session'[s] = session[s]
  BY <1>3 DEF Issue, RowTypes
<1>4. ASSUME NEW t \in Sessions, session[t] # Nobody, session' = [session EXCEPT ![t].used = now]
      PROVE  session'[s] # Nobody /\ session'[s] \in {session[s], [session[s] EXCEPT !.used = now]}
  <2>1. [session[s] EXCEPT !.used = now] \in Session
    BY <1>1 DEF Session, RowTypes
  <2> QED
    BY <1>4, <2>1, NobodyIsNone DEF RowTypes
<1>5. ASSUME NEW t \in Sessions, session[t] # Nobody, session' = Touched(t)
      PROVE  /\ session'[s] # Nobody
             /\ session'[s] \in {session[s], [session[s] EXCEPT !.lastSeen = now,
                                     !.idle = Earlier(session[s].absolute, now + IdleLife)]}
  <2>1. Earlier(session[s].absolute, now + IdleLife) \in Nat
    BY <1>1, LivesAreTimes DEF Earlier, Session, RowTypes
  <2>2. [session[s] EXCEPT !.lastSeen = now, !.idle = Earlier(session[s].absolute, now + IdleLife)] \in Session
    BY <1>1, <2>1 DEF Session, RowTypes
  <2> QED
    BY <1>5, <2>2, NobodyIsNone DEF RowTypes, Touched
<1> QED
  BY <1>1, <1>2, <1>3, <1>4, <1>5 DEF SessionMoves, Session

LEMMA MembersStayed ==
    ASSUME RowTypes, PageTypes, MemberMoves
    PROVE  MembersStay
<1>1. \A p \in Pages : page[p].change \in Member
  BY DEF PageTypes, Page
<1> QED
  BY <1>1, NobodyIsNone DEF MembersStay, MemberMoves, Adds, Update, RowTypes

-----------------------------------------------------------------------------
(* A step of one page leaves the others sound.                             *)

LEMMA OthersStaySound ==
    ASSUME Types, NEW q \in Pages, Sound(page[q]), page'[q] = page[q], now' = now,
           SessionsStay, MembersStay,
           At(q, "inside") => UNCHANGED member \/ Adds
    PROVE  Sound(page[q])'
<1>1. Targeted(page[q])' /\ HasToken(page[q])'
  BY DEF Sound, Targeted, HasToken
<1>2. SigningIn(page[q])'
  BY DEF Sound, SigningIn, MembersStay
<1>3. Authenticated(page[q])'
  BY DEF Sound, Authenticated, SessionsStay
<1>4. Admitted(page[q])'
  <2> SUFFICES ASSUME At(q, "inside")
               PROVE  page[q].request = "update" /\ Allowed(page[q])' /\ page[q].read = member'[page[q].target]
    BY DEF Admitted, At
  <2>1. /\ page[q].request = "update" /\ Allowed(page[q]) /\ page[q].read = member[page[q].target]
        /\ page[q].target \in Users
    BY DEF Sound, Admitted, Targeted, At
  <2>2. member'[page[q].target] = member[page[q].target]
    BY <2>1 DEF Adds, Allowed, Types, RowTypes
  <2>3. OtherAdmins(page[q].target) \subseteq OtherAdmins(page[q].target)'
    BY NobodyIsNone DEF Adds, OtherAdmins, IsAdmin, IsActive, Types, RowTypes
  <2>4. Demotes(page[q])' => Demotes(page[q])
    BY <2>2 DEF Demotes, IsAdmin, IsActive
  <2> QED
    BY <2>1, <2>2, <2>3, <2>4 DEF Allowed
<1> QED
  BY <1>1, <1>2, <1>3, <1>4 DEF Sound

\* A page at rest is sound.
LEMMA RestIsSound ==
    ASSUME PageTypes, NEW p \in Pages, Rests(p)
    PROVE  Sound(page[p])' /\ ~At(p, "inside")' /\ \A q \in Pages \ {p} : page'[q] = page[q]
<1>1. PICK shows \in Sessions \cup {Nobody} : page' = [page EXCEPT ![p] = Waiting(shows)]
  BY DEF Rests, Becomes
<1>2. page'[p] = Waiting(shows)
  BY <1>1 DEF PageTypes
<1> QED
  BY <1>1, <1>2, WaitingIsPage DEF Sound, Targeted, SigningIn, Authenticated, HasToken, Admitted, PageTypes, At

\* What a step makes of its own page: it is at rest, or sound and not inside, or
\* goes inside where nobody is.
OwnPage(p) ==
    /\ \A q \in Pages \ {p} : page'[q] = page[q]
    /\ Sound(page[p])'
    /\ At(p, "inside")' => LockIsFree(p) /\ UNCHANGED member

LEMMA OwnPageIsSound ==
    ASSUME Types, PagesAreSound, NEW p \in Pages, Step(p), SessionsStay, now' = now
    PROVE  OwnPage(p)
<1>0. Named /\ Sound(page[p])
  BY SoundIsNamed, SoundPages
<1>a. ASSUME Rests(p) PROVE OwnPage(p)
  BY <1>a, RestIsSound DEF OwnPage, Types
<1>b. ASSUME Rest(p) PROVE OwnPage(p)
  BY <1>a, <1>b, RestRests DEF Types
<1>1. ASSUME NEW u \in Users, Begin(p, u) PROVE OwnPage(p)
  <2>1. /\ page'[p] = [Waiting(Nobody) EXCEPT !.stage = "asked", !.user = u]
        /\ \A q \in Pages \ {p} : page'[q] = page[q]
    BY <1>1 DEF Begin, Types, PageTypes
  <2>2. /\ page'[p].stage = "asked" /\ page'[p].user = u /\ page'[p].request = "me"
    BY <2>1 DEF Waiting
  <2> QED
    BY <2>1, <2>2 DEF OwnPage, Sound, Targeted, SigningIn, Authenticated, HasToken, Admitted, At
<1>2. ASSUME NEW u \in Users, LocalLogin(p, u) PROVE OwnPage(p)
  <2>1. /\ page'[p] = [Waiting(Nobody) EXCEPT !.stage = "resolved", !.user = u]
        /\ \A q \in Pages \ {p} : page'[q] = page[q]
    BY <1>2 DEF LocalLogin, Types, PageTypes
  <2>2. page'[p].stage = "resolved" /\ page'[p].user = u /\ page'[p].request = "me"
    BY <2>1 DEF Waiting
  <2>3. member'[u] # Nobody
    BY <1>2 DEF LocalLogin
  <2> QED
    BY <2>1, <2>2, <2>3 DEF OwnPage, Sound, Targeted, SigningIn, Authenticated, HasToken, Admitted, At
<1>3. CASE Callback(p)
  <2>1. CASE page' = [page EXCEPT ![p].stage = "resolved"] /\ member[page[p].user] # Nobody
    <3>1. page'[p] = [page[p] EXCEPT !.stage = "resolved"] /\ \A q \in Pages \ {p} : page'[q] = page[q]
      BY <2>1 DEF Types, PageTypes
    <3>2. /\ page'[p].stage = "resolved" /\ page'[p].request = page[p].request
          /\ page'[p].target = page[p].target /\ page'[p].user = page[p].user
      BY <3>1 DEF Types, PageTypes, Page
    <3>3. page[p].user \in Users /\ member'[page[p].user] # Nobody
      BY <1>0, <1>3, <2>1 DEF Callback, At, Sound, SigningIn
    <3> QED
      BY <1>0, <3>1, <3>2, <3>3 DEF OwnPage, Sound, Targeted, SigningIn, Authenticated, HasToken, Admitted, At
  <2> QED
    BY <1>3, <1>b, <2>1 DEF Callback
<1>4. CASE Identify(p)
  <2>1. CASE page' = [page EXCEPT ![p].stage = "identified"]
    BY <1>0, <1>4, <2>1
       DEF Identify, OwnPage, Sound, Targeted, SigningIn, Authenticated, HasToken, Admitted, At, Types, PageTypes, Page
  <2> QED
    BY <1>4, <1>b, <2>1 DEF Identify
<1>5. CASE Issue(p) \/ Create(p) \/ Revoke(p) \/ Update(p)
  BY <1>5, <1>b DEF Issue, Create, Revoke, Update
<1>6. ASSUME NEW request \in Requests, NEW u \in Users \cup {Nobody}, NEW change \in Member,
             request \in {"update", "revoke", "create"} => u \in Users,
             Send(p, request, u, change)
      PROVE  OwnPage(p)
  <2> DEFINE s == cookie[BrowserOf[p]]
  <2>1. s \in Sessions /\ s # Nobody
    BY <1>6, BrowsersOfPages DEF Send, Types, CookieTypes
  <2>2. CASE ~(Usable(s) /\ IsActive(session[s].user))
    <3>1. Rests(p)
      BY <1>6, <2>2 DEF Send, Rests, Becomes
    <3> QED
      BY <3>1, <1>a
  <2>3. CASE Usable(s) /\ IsActive(session[s].user)
    <3>1. session[s] \in Session
      BY <2>1, <2>3 DEF Usable, Types, RowTypes
    <3> DEFINE r == [Waiting(page[p].shows) EXCEPT !.stage = "found", !.request = request, !.session = s,
                        !.user = session[s].user, !.role = member[session[s].user].role,
                        !.target = u, !.change = change]
    <3>2. /\ page'[p] = r
          /\ \A q \in Pages \ {p} : page'[q] = page[q]
          /\ session' = [session EXCEPT ![s].used = now]
      BY <1>6, <2>3 DEF Send, Types, PageTypes
    <3>3. /\ r.stage = "found" /\ r.request = request /\ r.session = s
          /\ r.user = session[s].user /\ r.target = u
      BY DEF Waiting
    <3>4. session'[s] # Nobody /\ session'[s].user = session[s].user /\ session'[s].used = now
      BY <2>1, <2>3, <3>1, <3>2 DEF SessionsStay, Usable, Types, RowTypes, Session
    <3> HIDE DEF r
    <3> QED
      BY <1>6, <2>1, <3>2, <3>3, <3>4
         DEF OwnPage, Sound, Targeted, SigningIn, Authenticated, HasToken, Admitted, At
  <2> QED
    BY <2>2, <2>3
<1>7. CASE Authorize(p)
  <2>1. CASE LetThrough(page[p]) /\ page' = [page EXCEPT ![p].stage = "authorized"]
    <3>1. page'[p] = [page[p] EXCEPT !.stage = "authorized"] /\ \A q \in Pages \ {p} : page'[q] = page[q]
      BY <2>1 DEF Types, PageTypes
    <3>2. /\ page'[p].stage = "authorized" /\ page'[p].request = page[p].request /\ page'[p].target = page[p].target
          /\ page'[p].session = page[p].session /\ page'[p].user = page[p].user /\ page'[p].shows = page[p].shows
      BY <3>1 DEF Types, PageTypes, Page
    <3>3. /\ page[p].session \in Sessions /\ page[p].session # Nobody /\ session[page[p].session] # Nobody
          /\ session[page[p].session].user = page[p].user /\ session[page[p].session].used = now
      BY <1>0, <1>7 DEF Authorize, At, Sound, Authenticated
    <3> QED
      BY <1>0, <2>1, <3>1, <3>2, <3>3
         DEF SessionsStay, LetThrough, OwnPage, Sound, Targeted, SigningIn, Authenticated, HasToken, Admitted, At
  <2> QED
    BY <1>7, <1>b, <2>1 DEF Authorize
<1>8. CASE Me(p) \/ Logout(p)
  <2>1. Rests(p)
    BY <1>8 DEF Me, Logout, Rests, Becomes, Types, PageTypes, Page
  <2> QED
    BY <2>1, <1>a
<1>9. CASE Enter(p)
  <2>1. CASE /\ Allowed(page[p])
             /\ page' = [page EXCEPT ![p].stage = "inside", ![p].read = member[page[p].target]]
    <3>1. /\ page'[p] = [page[p] EXCEPT !.stage = "inside", !.read = member[page[p].target]]
          /\ \A q \in Pages \ {p} : page'[q] = page[q]
      BY <2>1 DEF Types, PageTypes
    <3>2. /\ page'[p].stage = "inside" /\ page'[p].request = page[p].request /\ page'[p].target = page[p].target
          /\ page'[p].session = page[p].session /\ page'[p].user = page[p].user /\ page'[p].shows = page[p].shows
          /\ page'[p].change = page[p].change /\ page'[p].read = member[page[p].target]
      BY <3>1 DEF Types, PageTypes, Page
    <3>3. Allowed(page[p])'
      BY <1>9, <2>1, <3>2 DEF Enter, Allowed, Demotes, OtherAdmins, IsAdmin, IsActive
    <3> QED
      BY <1>0, <1>9, <3>1, <3>2, <3>3
         DEF Enter, Serving, OwnPage, Sound, Targeted, SigningIn, Authenticated, HasToken, Admitted, At
  <2> QED
    BY <1>9, <1>b, <2>1 DEF Enter
<1> QED
  BY <1>1, <1>2, <1>3, <1>4, <1>5, <1>6, <1>7, <1>8, <1>9, Requested

-----------------------------------------------------------------------------
(* The invariant.                                                          *)

Sane ==
    /\ Types
    /\ PagesAreSound
    /\ OneInside
    /\ SessionsAreOfMembers

LEMMA InitSane == Init => Sane
<1> SUFFICES ASSUME Init PROVE Sane
  OBVIOUS
<1>1. Types
  <2>1. ActiveAdmin \in Member
    BY DEF ActiveAdmin, Member, Roles
  <2>2. Waiting(Nobody) \in Page
    BY WaitingIsPage
  <2> QED
    BY <2>1, <2>2, LivesAreTimes DEF Init, Types, RowTypes, PageTypes, CookieTypes
<1>2. \A p \in Pages : page[p].stage = "idle" /\ page[p].request = "me"
  BY WaitingIsPage DEF Init
<1>3. PagesAreSound /\ OneInside
  BY <1>2 DEF PagesAreSound, Targeted, SigningIn, Authenticated, HasToken, Admitted, OneInside, At
<1>4. SessionsAreOfMembers
  BY DEF Init, SessionsAreOfMembers
<1> QED
  BY <1>1, <1>3, <1>4 DEF Sane

LEMMA StepTypes ==
    ASSUME Types, PagesAreSound, NEW p \in Pages, Step(p)
    PROVE  Types'
<1>1. Named
  BY SoundIsNamed
<1>2. At(p, "inside") => page[p].request = "update"
  BY DEF PagesAreSound, Admitted, At
<1> QED
  BY <1>1, <1>2, Requested, SignInTypes, RequestTypes, ManagementTypes

LEMMA StepSane ==
    ASSUME Sane, NEW p \in Pages, Step(p)
    PROVE  Sane'
<1>1. Types' /\ SessionMoves /\ MemberMoves /\ now' = now
  BY StepTypes, StepMoves DEF Sane
<1>2. SessionsStay /\ MembersStay
  BY <1>1, SessionsStayed, MembersStayed DEF Sane, Types
<1>3. OwnPage(p)
  BY <1>1, <1>2, OwnPageIsSound DEF Sane
<1>4. \A q \in Pages \ {p} : At(q, "inside") => UNCHANGED member \/ Adds
  <2>1. ASSUME NEW k \in Pages, Update(k) PROVE At(k, "inside") /\ page'[k] = Waiting(page[k].shows)
    BY <2>1 DEF Update, Rest, Sane, Types, PageTypes
  <2>2. ASSUME NEW k \in Pages \ {p}, Update(k) PROVE FALSE
    <3>1. page'[k] = page[k] /\ page[k].stage = "inside" /\ page'[k].stage = "idle"
      BY <1>3, <2>1, <2>2, WaitingIsPage DEF OwnPage, At, Sane, Types, PageTypes, Page
    <3> QED
      BY <3>1
  <2>3. CASE Update(p)
    BY <2>1, <2>3 DEF Sane, OneInside
  <2> QED
    BY <1>1, <2>2, <2>3 DEF MemberMoves
<1>5. \A q \in Pages \ {p} : Sound(page[q])'
  BY <1>1, <1>2, <1>3, <1>4, OthersStaySound, SoundPages DEF OwnPage, Sane
<1>6. PagesAreSound'
  <2>1. \A q \in Pages : Sound(page[q])'
    BY <1>3, <1>5 DEF OwnPage
  <2> QED
    BY <2>1 DEF Sound, PagesAreSound
<1>7. OneInside'
  BY <1>3 DEF OwnPage, Sane, OneInside, LockIsFree, At
<1>8. SessionsAreOfMembers'
  <2> SUFFICES ASSUME NEW s \in Sessions, session'[s] # Nobody
               PROVE  member'[session'[s].user] # Nobody
    BY DEF SessionsAreOfMembers
  <2>1. CASE session[s] # Nobody
    <3>1. session[s].user \in Users
      BY <2>1 DEF Sane, Types, RowTypes, Session
    <3> QED
      BY <1>2, <2>1, <3>1 DEF SessionsStay, MembersStay, Sane, SessionsAreOfMembers
  <2>2. CASE session[s] = Nobody
    <3>1. ASSUME NEW k \in Pages, Issue(k) PROVE session'[s].user = page[k].user /\ member[page[k].user] # Nobody /\ page[k].user \in Users
      BY <2>2, <3>1 DEF Issue, At, Sane, PagesAreSound, SigningIn, Types, RowTypes
    <3>2. CASE SomeRevoked
      BY <2>2, <3>2 DEF SomeRevoked, Revoked
    <3>3. ASSUME NEW t \in Sessions, session[t] # Nobody,
                 session' = [session EXCEPT ![t].used = now] \/ session' = Touched(t)
          PROVE  FALSE
      BY <2>2, <3>3 DEF Touched, Sane, Types, RowTypes
    <3> QED
      BY <1>1, <1>2, <2>2, <3>1, <3>2, <3>3 DEF SessionMoves, MembersStay
  <2> QED
    BY <2>1, <2>2
<1> QED
  BY <1>1, <1>6, <1>7, <1>8 DEF Sane

LEMMA BootstrapMoves ==
    ASSUME Sane, NEW u \in Users, Bootstrap(u)
    PROVE  Adds /\ SessionsStay /\ MembersStay
<1>1. ActiveAdmin \in Member
  BY DEF ActiveAdmin, Member, Roles
<1>2. Adds
  BY <1>1 DEF Bootstrap, Adds
<1>3. SessionMoves /\ MemberMoves
  BY <1>2 DEF Bootstrap, SessionMoves, MemberMoves
<1> QED
  BY <1>2, <1>3, SessionsStayed, MembersStayed DEF Sane, Types

LEMMA NextSane ==
    ASSUME Sane, [Next]_vars
    PROVE  Sane'
<1>1. ASSUME NEW p \in Pages, Step(p) PROVE Sane'
  BY <1>1, StepSane
<1>2. ASSUME NEW u \in Users, Bootstrap(u) PROVE Sane'
  <2>1. Adds /\ SessionsStay /\ MembersStay
    BY <1>2, BootstrapMoves
  <2>2. Types'
    BY <1>2, <2>1, AddTypes DEF Bootstrap, Sane, Types, RowTypes, PageTypes, CookieTypes
  <2>3. \A q \in Pages : Sound(page[q])'
    BY <1>2, <2>1, OthersStaySound, SoundPages DEF Bootstrap, Sane
  <2>4. PagesAreSound'
    BY <2>3 DEF Sound, PagesAreSound
  <2>5. OneInside'
    BY <1>2 DEF Bootstrap, Sane, OneInside, At
  <2>6. SessionsAreOfMembers'
    BY <1>2, <2>1 DEF Bootstrap, MembersStay, Sane, SessionsAreOfMembers, Types, RowTypes, Session
  <2> QED
    BY <2>2, <2>4, <2>5, <2>6 DEF Sane
<1>3. CASE Tick
  <2>1. Types'
    BY <1>3, LivesAreTimes DEF Tick, Sane, Types, RowTypes, PageTypes, CookieTypes
  <2>2. \A q \in Pages : Sound(page[q])'
    BY <1>3, SoundPages
       DEF Tick, Sane, Sound, Targeted, SigningIn, Authenticated, HasToken, Admitted
  <2>3. PagesAreSound'
    BY <2>2 DEF Sound, PagesAreSound
  <2> QED
    BY <1>3, <2>1, <2>3 DEF Tick, Sane, OneInside, At, SessionsAreOfMembers
<1>4. CASE UNCHANGED vars
  BY <1>4 DEF vars, Sane, Types, RowTypes, PageTypes, CookieTypes, PagesAreSound, Targeted, SigningIn,
              Authenticated, HasToken, Admitted, Allowed, Demotes, OtherAdmins, IsAdmin, IsActive,
              OneInside, At, SessionsAreOfMembers
<1> QED
  BY <1>1, <1>2, <1>3, <1>4 DEF Next

THEOREM Sanity == Spec => []Sane
BY InitSane, NextSane, PTL DEF Spec

\* The state is always well typed.
THEOREM Typing == Spec => []TypeOK
<1>1. Sane => TypeOK
  BY TypeParts DEF Sane
<1> QED
  BY <1>1, Sanity, PTL

-----------------------------------------------------------------------------
(* An admin remains.                                                       *)

LEMMA InitAdmin == Init => AdminRemains
<1> SUFFICES ASSUME Init PROVE AdminRemains
  OBVIOUS
<1>1. PICK registered \in (SUBSET Admins) \ {{}} :
        member = [u \in Users |-> IF u \in registered THEN ActiveAdmin ELSE Nobody]
  BY DEF Init
<1>2. PICK u \in registered : u \in Users
  BY <1>1, AdminsAreUsers
<1>a. ActiveAdmin \in Member
  BY DEF ActiveAdmin, Member, Roles
<1>3. member[u] = ActiveAdmin /\ ActiveAdmin # Nobody
  BY <1>1, <1>2, <1>a, NobodyIsNone
<1> QED
  BY <1>2, <1>3 DEF AdminRemains, IsAdmin, IsActive, ActiveAdmin

\* A change leaves an admin: the one it makes, or one it does not change.
LEMMA UpdateLeavesAdmin ==
    ASSUME Sane, AdminRemains, NEW p \in Pages, Update(p)
    PROVE  AdminRemains'
<1>1. /\ page[p].target \in Users /\ Allowed(page[p]) /\ page[p].change \in Member
      /\ member' = [member EXCEPT ![page[p].target] = page[p].change]
  BY DEF Update, At, Sane, PagesAreSound, Admitted, Targeted, Types, PageTypes, Page
<1>2. ASSUME NEW k \in Users, k # page[p].target, IsAdmin(k) PROVE IsAdmin(k)'
  BY <1>1, <1>2 DEF IsAdmin, IsActive, Sane, Types, RowTypes
<1>3. CASE Demotes(page[p])
  <2>1. PICK k \in Users : k # page[p].target /\ IsAdmin(k)
    BY <1>1, <1>3 DEF Allowed, OtherAdmins
  <2> QED
    BY <1>2, <2>1 DEF AdminRemains
<1>4. CASE ~Demotes(page[p])
  <2>1. PICK k \in Users : IsAdmin(k)
    BY DEF AdminRemains
  <2>2. CASE k # page[p].target
    BY <1>2, <2>1, <2>2 DEF AdminRemains
  <2>3. CASE k = page[p].target
    <3>1. page[p].change = ActiveAdmin
      BY <1>4, <2>1, <2>3 DEF Demotes
    <3>2. member'[k] = ActiveAdmin /\ ActiveAdmin # Nobody
      BY <1>1, <2>3, <3>1, NobodyIsNone DEF Sane, Types, RowTypes
    <3> QED
      BY <3>2 DEF AdminRemains, IsAdmin, IsActive, ActiveAdmin
  <2> QED
    BY <2>2, <2>3
<1> QED
  BY <1>3, <1>4

LEMMA NextAdmin ==
    ASSUME Sane, AdminRemains, [Next]_vars
    PROVE  AdminRemains'
<1>1. MemberMoves
  <2>1. CASE \E p \in Pages : Step(p)
    BY <2>1, StepMoves DEF Sane
  <2>2. CASE \E u \in Users : Bootstrap(u)
    BY <2>2, BootstrapMoves DEF MemberMoves
  <2>3. CASE Tick \/ UNCHANGED vars
    BY <2>3 DEF Tick, vars, MemberMoves
  <2> QED
    BY <2>1, <2>2, <2>3 DEF Next
<1>2. CASE UNCHANGED member
  BY <1>2 DEF AdminRemains, IsAdmin, IsActive
<1>3. CASE Adds
  BY <1>3 DEF Adds, AdminRemains, IsAdmin, IsActive, Sane, Types, RowTypes
<1>4. CASE \E p \in Pages : Update(p)
  BY <1>4, UpdateLeavesAdmin
<1> QED
  BY <1>1, <1>2, <1>3, <1>4 DEF MemberMoves

\* The organisation is never left without an active admin, however many admins
\* demote and deactivate one another at once (users.service.ts:108-131).
THEOREM OneAdminRemains == Spec => []AdminRemains
BY InitAdmin, NextAdmin, Sanity, PTL DEF Spec

-----------------------------------------------------------------------------
(* A page writes as the user it shows.                                     *)

\* A page that shows one user never writes in the name of another: what it holds is
\* the token of its session, which is that of the user (auth-security.guard.ts:34-38).
THEOREM Writing == Spec => []PageWritesAsShown
<1>1. Sane => PageWritesAsShown
  BY DEF Sane, PagesAreSound, Authenticated, HasToken, PageWritesAsShown
<1> QED
  BY <1>1, Sanity, PTL

-----------------------------------------------------------------------------
(* Sessions end when they must, and not before.                            *)

InHand(s) == \E p \in Pages : At(p, "found") /\ page[p].session = s

\* The idle end follows the last prolongation, which is not older than TouchAfter
\* when the session was used, unless the request that used it has not prolonged it
\* yet or the session was at its end.
Kept(r, inHand) ==
    /\ r.lastSeen <= r.used /\ r.used <= now
    /\ r.idle <= r.lastSeen + IdleLife
    /\ r.idle = r.lastSeen + IdleLife \/ r.idle = r.absolute
    /\ ~r.revoked /\ ~inHand => r.used <= r.lastSeen + TouchAfter \/ r.used >= r.absolute

SessionsAreKept == \A s \in Sessions : session[s] # Nobody => Kept(session[s], InHand(s))

\* No page lets go of a session that it has not prolonged.
HandsHold == \A s \in Sessions : InHand(s) => InHand(s)'

LEMMA HoldByOthers ==
    ASSUME NEW p \in Pages, ~At(p, "found"), \A q \in Pages \ {p} : page'[q] = page[q]
    PROVE  HandsHold
BY DEF HandsHold, InHand, At

LEMMA RevokedAreKept ==
    ASSUME Types, SessionsAreKept, HandsHold, now' = now, UNCHANGED session \/ SomeRevoked
    PROVE  SessionsAreKept'
<1> SUFFICES ASSUME NEW s \in Sessions, session'[s] # Nobody
             PROVE  Kept(session[s], InHand(s))'
  BY DEF SessionsAreKept
<1>1. CASE UNCHANGED session
  BY <1>1 DEF SessionsAreKept, Kept, HandsHold
<1>2. CASE SomeRevoked
  <2>1. PICK sessions \in SUBSET Sessions :
            (\A t \in sessions : session[t] # Nobody) /\ session' = Revoked(sessions)
    BY <1>2 DEF SomeRevoked
  <2>2. CASE s \notin sessions
    BY <2>1, <2>2 DEF Revoked, SessionsAreKept, Kept, HandsHold
  <2>3. CASE s \in sessions
    <3>1. session'[s] = [session[s] EXCEPT !.revoked = TRUE] /\ session[s] \in Session /\ session[s] # Nobody
      BY <2>1, <2>3 DEF Revoked, Types, RowTypes
    <3>2. /\ session'[s].revoked = TRUE /\ session'[s].lastSeen = session[s].lastSeen
          /\ session'[s].used = session[s].used /\ session'[s].idle = session[s].idle
          /\ session'[s].absolute = session[s].absolute
      BY <3>1 DEF Session
    <3> QED
      BY <3>1, <3>2 DEF SessionsAreKept, Kept
  <2> QED
    BY <2>2, <2>3
<1> QED
  BY <1>1, <1>2

LEMMA IssuedAreKept ==
    ASSUME Types, SessionsAreKept, HandsHold, NEW p \in Pages, Issue(p)
    PROVE  SessionsAreKept'
<1> SUFFICES ASSUME NEW s \in Sessions, session'[s] # Nobody
             PROVE  Kept(session[s], InHand(s))'
  BY DEF SessionsAreKept
<1> DEFINE r == [user |-> page[p].user, revoked |-> FALSE, lastSeen |-> now, used |-> now,
                 idle |-> now + IdleLife, absolute |-> now + AbsoluteLife]
<1>1. session'[s] = session[s] \/ session'[s] = r
  BY DEF Issue, Types, RowTypes
<1>2. now' = now /\ now \in Nat
  BY LivesAreTimes DEF Issue, Types, RowTypes
<1>3. CASE session'[s] = session[s]
  BY <1>2, <1>3 DEF SessionsAreKept, Kept, HandsHold
<1>4. CASE session'[s] = r
  BY <1>2, <1>4, LivesAreTimes DEF Kept
<1> QED
  BY <1>1, <1>3, <1>4

LEMMA UsedAreKept ==
    ASSUME Types, SessionsAreKept, HandsHold, now' = now, NEW t \in Sessions, session[t] # Nobody,
           session' = [session EXCEPT ![t].used = now], InHand(t)'
    PROVE  SessionsAreKept'
<1> SUFFICES ASSUME NEW s \in Sessions, session'[s] # Nobody
             PROVE  Kept(session[s], InHand(s))'
  BY DEF SessionsAreKept
<1>1. CASE s # t
  <2>1. session'[s] = session[s]
    BY <1>1 DEF Types, RowTypes
  <2> QED
    BY <2>1 DEF SessionsAreKept, Kept, HandsHold
<1>2. CASE s = t
  <2>1. session'[s] = [session[s] EXCEPT !.used = now] /\ session[s] \in Session
    BY <1>2 DEF Types, RowTypes
  <2>2. /\ session'[s].lastSeen = session[s].lastSeen
        /\ session'[s].used = now /\ session'[s].idle = session[s].idle
        /\ session'[s].absolute = session[s].absolute
    BY <2>1 DEF Session
  <2> QED
    BY <1>2, <2>1, <2>2, LivesAreTimes DEF SessionsAreKept, Kept, Session, Types, RowTypes
<1> QED
  BY <1>1, <1>2

LEMMA AuthorizedAreKept ==
    ASSUME Sane, SessionsAreKept, NEW p \in Pages, Authorize(p)
    PROVE  SessionsAreKept'
<1> SUFFICES ASSUME NEW s \in Sessions, session'[s] # Nobody
             PROVE  Kept(session[s], InHand(s))'
  BY DEF SessionsAreKept
<1> DEFINE t == page[p].session
<1>0. /\ t \in Sessions /\ session[t] # Nobody /\ session[t].used = now
      /\ now' = now /\ session' = Touched(t)
      /\ \A q \in Pages \ {p} : page'[q] = page[q]
  BY DEF Authorize, At, Sane, PagesAreSound, Authenticated, Types, PageTypes, Rest
<1>1. CASE s # t
  <2>1. session'[s] = session[s]
    BY <1>0, <1>1 DEF Touched, Sane, Types, RowTypes
  <2>2. InHand(s) => InHand(s)'
    BY <1>0, <1>1 DEF InHand, At
  <2> QED
    BY <1>0, <2>1, <2>2 DEF SessionsAreKept, Kept
<1>2. CASE s = t
  <2> DEFINE late == session[s].lastSeen + TouchAfter <= now /\ ~session[s].revoked /\ now < session[s].absolute
  <2>1. session[s] \in Session /\ session[s] # Nobody
    BY <1>0, <1>2 DEF Sane, Types, RowTypes
  <2>2. now \in Nat /\ session[s].lastSeen \in Nat
    BY <2>1, LivesAreTimes DEF Sane, Types, RowTypes, Session
  <2>3. CASE late
    <3> DEFINE i == Earlier(session[s].absolute, now + IdleLife)
    <3>1. i \in Nat /\ i <= now + IdleLife /\ (i = now + IdleLife \/ i = session[s].absolute)
      BY <2>1, <2>2, LivesAreTimes DEF Earlier, Session
    <3>2. session'[s] = [session[s] EXCEPT !.lastSeen = now, !.idle = i]
      BY <1>0, <1>2, <2>3 DEF Touched, Sane, Types, RowTypes
    <3> HIDE DEF i
    <3>3. /\ session'[s].lastSeen = now /\ session'[s].idle = i
          /\ session'[s].used = now
          /\ session'[s].absolute = session[s].absolute
      BY <1>0, <1>2, <2>1, <3>2 DEF Session
    <3> QED
      BY <1>0, <2>2, <3>1, <3>3, LivesAreTimes DEF Kept
  <2>4. CASE ~late
    <3>1. session'[s] = session[s]
      BY <1>0, <1>2, <2>4 DEF Touched
    <3>2. ~session[s].revoked => now <= session[s].lastSeen + TouchAfter \/ now >= session[s].absolute
      BY <2>1, <2>2, <2>4, LivesAreTimes DEF Session
    <3> QED
      BY <1>0, <1>2, <2>1, <2>2, <3>1, <3>2 DEF SessionsAreKept, Kept
  <2> QED
    BY <2>3, <2>4
<1> QED
  BY <1>1, <1>2

LEMMA StepKept ==
    ASSUME Sane, SessionsAreKept, NEW p \in Pages, Step(p)
    PROVE  SessionsAreKept'
<1>1. /\ now' = now /\ \A q \in Pages \ {p} : page'[q] = page[q]
      /\ Types /\ Named
  <2>1. SessionMoves /\ now' = now
    BY StepMoves DEF Sane
  <2> QED
    BY <2>1, SessionsStayed, OwnPageIsSound, SoundIsNamed DEF OwnPage, Sane, Types
<1>2. CASE Authorize(p)
  BY <1>2, AuthorizedAreKept
<1>3. ASSUME NEW request \in Requests, NEW u \in Users \cup {Nobody}, NEW change \in Member,
             Send(p, request, u, change)
      PROVE  SessionsAreKept'
  <2>0. PICK s \in Sessions : s = cookie[BrowserOf[p]]
    BY <1>1, <1>3, BrowsersOfPages DEF Send, Types, CookieTypes
  <2>1. HandsHold
    BY <1>1, <1>3, HoldByOthers DEF Send, At
  <2>2. CASE Usable(s) /\ IsActive(session[s].user)
    <3>1. session' = [session EXCEPT ![s].used = now] /\ session[s] # Nobody
      BY <1>3, <2>0, <2>2 DEF Send, Usable
    <3>2. page'[p].stage = "found" /\ page'[p].session = s
      <4> DEFINE r == [Waiting(page[p].shows) EXCEPT !.stage = "found", !.request = request, !.session = s,
                          !.user = session[s].user, !.role = member[session[s].user].role,
                          !.target = u, !.change = change]
      <4>1. page'[p] = r
        BY <1>1, <1>3, <2>0, <2>2 DEF Send, Types, PageTypes
      <4>2. r.stage = "found" /\ r.session = s
        BY DEF Waiting
      <4> QED
        BY <4>1, <4>2
    <3>3. InHand(s)'
      BY <3>2 DEF InHand, At
    <3> QED
      BY <1>1, <2>1, <3>1, <3>3, UsedAreKept
  <2>3. CASE ~(Usable(s) /\ IsActive(session[s].user))
    <3>1. UNCHANGED session \/ SomeRevoked
      BY <1>3, <2>0, <2>3 DEF Send, SomeRevoked, SessionsOf
    <3> QED
      BY <1>1, <2>1, <3>1, RevokedAreKept
  <2> QED
    BY <2>2, <2>3
<1>4. CASE Issue(p)
  BY <1>1, <1>4, HoldByOthers, IssuedAreKept DEF Issue, At
<1>5. CASE \/ \E u \in Users : Begin(p, u) \/ LocalLogin(p, u)
           \/ Callback(p) \/ Identify(p) \/ Me(p) \/ Create(p) \/ Enter(p)
  <2>1. UNCHANGED session /\ ~At(p, "found")
    BY <1>5 DEF Begin, LocalLogin, Callback, Identify, Me, Create, Enter, Serving, At
  <2> QED
    BY <1>1, <2>1, HoldByOthers, RevokedAreKept
<1>6. CASE Logout(p) \/ Revoke(p) \/ Update(p)
  <2>1. ~At(p, "found")
    BY <1>6 DEF Logout, Revoke, Update, Serving, At
  <2>2. UNCHANGED session \/ SomeRevoked
    BY <1>1, <1>6 DEF Logout, Revoke, Update, Serving, At, SomeRevoked, SessionsOf, Named, Authenticated
  <2> QED
    BY <1>1, <2>1, <2>2, HoldByOthers, RevokedAreKept
<1> QED
  BY <1>1, <1>2, <1>3, <1>4, <1>5, <1>6, Requested

LEMMA NextKept ==
    ASSUME Sane, SessionsAreKept, [Next]_vars
    PROVE  SessionsAreKept'
<1>1. CASE \E p \in Pages : Step(p)
  BY <1>1, StepKept
<1>2. CASE (\E u \in Users : Bootstrap(u)) \/ UNCHANGED vars
  <2>1. UNCHANGED <<session, page, now>>
    BY <1>2 DEF Bootstrap, vars
  <2> QED
    BY <2>1, RevokedAreKept DEF HandsHold, InHand, At, Sane
<1>3. CASE Tick
  <2>1. UNCHANGED <<session, page>> /\ now' = now + 1 /\ now \in Nat
    BY <1>3, LivesAreTimes DEF Tick, Sane, Types, RowTypes
  <2>2. ASSUME NEW s \in Sessions, session[s] # Nobody PROVE session[s].used \in Nat
    BY <2>2, LivesAreTimes DEF Sane, Types, RowTypes, Session
  <2> QED
    BY <2>1, <2>2 DEF SessionsAreKept, Kept, InHand, At
<1> QED
  BY <1>1, <1>2, <1>3 DEF Next

LEMMA KeptIsLife == Sane /\ SessionsAreKept => SessionLife
<1> SUFFICES ASSUME Sane, SessionsAreKept, NEW s \in Sessions, session[s] # Nobody, ~session[s].revoked
             PROVE  /\ Usable(s) => now < session[s].used + IdleLife /\ now < session[s].absolute
                    /\ (/\ now < session[s].absolute
                        /\ now + TouchAfter < session[s].used + IdleLife
                        /\ \A p \in Pages : page[p].session # s)
                       => Usable(s)
  BY DEF SessionLife
<1>1. /\ session[s].used \in Nat /\ session[s].lastSeen \in Nat /\ now \in Nat
      /\ session[s].idle \in Nat /\ session[s].absolute \in Nat
  BY LivesAreTimes DEF Sane, Types, RowTypes, Session
<1>2. Kept(session[s], InHand(s))
  BY DEF SessionsAreKept
<1>3. Usable(s) => now < session[s].used + IdleLife /\ now < session[s].absolute
  BY <1>1, <1>2, LivesAreTimes DEF Usable, Kept
<1>4. ASSUME now < session[s].absolute, now + TouchAfter < session[s].used + IdleLife,
             \A p \in Pages : page[p].session # s
      PROVE  Usable(s)
  <2>1. ~InHand(s)
    BY <1>4 DEF InHand
  <2> QED
    BY <1>1, <1>2, <1>4, <2>1, LivesAreTimes DEF Usable, Kept
<1> QED
  BY <1>3, <1>4

-----------------------------------------------------------------------------
(* A change of a member ends his sessions.                                 *)

EndsSessions ==
    \A s \in Sessions : session[s] # Nobody /\ ~session'[s].revoked =>
        member'[session[s].user] = member[session[s].user]

LEMMA NextEndsSessions ==
    ASSUME Sane, [Next]_vars
    PROVE  EndsSessions
<1> SUFFICES ASSUME NEW s \in Sessions, session[s] # Nobody, ~session'[s].revoked
             PROVE  member'[session[s].user] = member[session[s].user]
  BY DEF EndsSessions
<1>1. session[s].user \in Users /\ member[session[s].user] # Nobody
  BY DEF Sane, SessionsAreOfMembers, Types, RowTypes, Session
<1>2. MemberMoves
  <2>1. CASE \E p \in Pages : Step(p)
    BY <2>1, StepMoves DEF Sane
  <2>2. CASE \E u \in Users : Bootstrap(u)
    BY <2>2, BootstrapMoves DEF MemberMoves
  <2>3. CASE Tick \/ UNCHANGED vars
    BY <2>3 DEF Tick, vars, MemberMoves
  <2> QED
    BY <2>1, <2>2, <2>3 DEF Next
<1>3. CASE Adds
  BY <1>1, <1>3 DEF Adds, Sane, Types, RowTypes
<1>4. ASSUME NEW p \in Pages, Update(p) PROVE member'[session[s].user] = member[session[s].user]
  <2>1. /\ page[p].target \in Users /\ page[p].read = member[page[p].target]
        /\ member' = [member EXCEPT ![page[p].target] = page[p].change]
    BY <1>4 DEF Update, At, Sane, PagesAreSound, Admitted, Targeted
  <2>2. CASE page[p].target # session[s].user
    BY <1>1, <2>1, <2>2 DEF Sane, Types, RowTypes
  <2>3. CASE page[p].target = session[s].user
    <3>1. ~Revokes(page[p])
      <4> SUFFICES ASSUME Revokes(page[p]) PROVE FALSE
        OBVIOUS
      <4>1. session' = Revoked(SessionsOf(page[p].target)) /\ s \in SessionsOf(page[p].target)
        BY <1>4, <2>3 DEF Update, SessionsOf
      <4>2. session'[s] = [session[s] EXCEPT !.revoked = TRUE] /\ session[s] \in Session
        BY <4>1 DEF Revoked, Sane, Types, RowTypes
      <4> QED
        BY <4>2 DEF Session
    <3> QED
      BY <1>1, <2>1, <2>3, <3>1 DEF Revokes, Sane, Types, RowTypes
  <2> QED
    BY <2>2, <2>3
<1> QED
  BY <1>2, <1>3, <1>4 DEF MemberMoves

\* A session that is not revoked ends when nobody used it for its idle life or when
\* its absolute life is over, and, but for the grain of its prolongation, not before;
\* and a change of a member's role or activity ends the sessions he has
\* (auth-session.repository.ts:35, users.service.ts:143).
THEOREM Ending == Spec => SessionsEnd
<1>1. Init => SessionsAreKept
  BY DEF Init, SessionsAreKept
<1>2. Spec => []SessionsAreKept
  BY <1>1, NextKept, Sanity, PTL DEF Spec
<1>3. Spec => []SessionLife
  BY <1>2, KeptIsLife, Sanity, PTL
<1>4. Spec => ChangeEndsSessions
  <2>1. Sane /\ [Next]_vars => [EndsSessions]_vars
    BY NextEndsSessions
  <2> QED
    BY <2>1, Sanity, PTL DEF Spec, ChangeEndsSessions, EndsSessions
<1> QED
  BY <1>3, <1>4 DEF SessionsEnd

-----------------------------------------------------------------------------
(* The sign-in: the invariant, a tab at a time.                            *)

\* The tab is at Google.
IsAway(w) == w.stage \in {"google", "approved"}

\* It is at Google, or back from there.
IsUnderway(w) == w.stage \notin {"page", "login"}

\* It waits for the answer to its callback.
IsCalling(w) == w.stage \notin {"page", "login", "google", "approved"}

\* A tab keeps the page it was on, and so does its cookie.
PathIsKept(w) ==
    /\ w.stage # "page" => w.path \in ReturnPaths \cup {Home}
    /\ IsUnderway(w) => /\ w.attempt \in Attempts /\ attempt[w.attempt] \in Attempt
                        /\ attempt[w.attempt].path = w.path
                        /\ attempt[w.attempt].secret <= secret

\* A tab at Google has the cookie, unless it was disturbed or the cookie is too old.
TicketIsThere(w) ==
    IsAway(w) => \/ attempt[w.attempt].disturbed
                 \/ ticket = w.attempt
                 \/ clock >= attempt[w.attempt].until

\* What was found out about a callback so far.
CallIsSound(w) ==
    IsCalling(w) /\ w.stage # "refused" =>
        /\ w.sent = w.attempt
        /\ w.stage \in {"verified", "resolved"} => w.account \in Hosted
        /\ w.stage = "resolved" => w.account \in Members

\* Google has changed its key, less than an hour ago.
Rotated == google.key > 0 /\ clock < google.since + KeysLife

\* The key of the token, and the keys that were found for it.
KeyIsSound(w) ==
    /\ w.stage \in {"exchanged", "asking", "checking"} =>
         w.key <= google.key /\ (w.key # google.key => google.since = clock)
    /\ w.stage = "asking" => google.key \in w.found \/ (google.key > 0 /\ google.since = clock)
    /\ w.stage \in {"asking", "checking"} => w.key \in w.found \/ Rotated

TabIsSound(w) == PathIsKept(w) /\ TicketIsThere(w) /\ CallIsSound(w) /\ KeyIsSound(w)

\* While a callback is answered every tab at Google is disturbed.
CallsDisturb ==
    \A t, u \in Tabs : IsAway(tab[t]) /\ IsCalling(tab[u]) => attempt[tab[t].attempt].disturbed

\* The keys that are at hand are those of Google, or it has just changed them.
CacheIsSound ==
    /\ cache.until <= clock + KeysLife
    /\ clock < cache.until =>
         google.key \in cache.known \/ (google.key > 0 /\ cache.until <= google.since + KeysLife)

SignInIsSound ==
    /\ SignInTypeOK
    /\ \A t \in Tabs : TabIsSound(tab[t])
    /\ CallsDisturb
    /\ CacheIsSound

-----------------------------------------------------------------------------
(* Lemmas on the operators.                                                *)

LEMMA PathIsSafe ==
    ASSUME NEW path \in Paths \cup {Home}
    PROVE  /\ SafeReturnTo(path) \in ReturnPaths \cup {Home}
           /\ SafeReturnTo(path) \in Paths \cup {Home}
           /\ path \in ReturnPaths \cup {Home} => SafeReturnTo(path) = path
BY DEF SafeReturnTo

\* The pages a tab opens by itself.
LEMMA OpenedIsSound ==
    ASSUME NEW path \in Paths \cup {Home}
    PROVE  /\ OnPage(path) \in Tab /\ OnPage(path).stage = "page" /\ OnPage(path).path = path
           /\ OnLogin(path) \in Tab /\ OnLogin(path).stage = "login" /\ OnLogin(path).path = path
<1>1. 0 \in 0 .. MaxKey
  BY SignInBounds
<1>2. OnPage(path) \in Tab
  BY <1>1 DEF OnPage, Tab, TabStages
<1>3. OnLogin(path) \in Tab
  BY <1>2 DEF OnLogin, Tab, TabStages
<1> QED
  BY <1>2, <1>3 DEF OnPage, OnLogin

LEMMA LoginIsSound ==
    ASSUME NEW path \in Paths \cup {Home}
    PROVE  /\ Login(path) \in Tab
           /\ Login(path).stage \in {"page", "login"}
           /\ Login(path).path \in ReturnPaths \cup {Home}
<1>1. /\ SafeReturnTo(path) \in Paths \cup {Home} /\ SafeReturnTo(path) \in ReturnPaths \cup {Home}
  BY PathIsSafe
<1>2. CASE signedIn # Nothing
  BY <1>1, <1>2, OpenedIsSound DEF Login
<1>3. CASE signedIn = Nothing
  BY <1>1, <1>3, OpenedIsSound DEF Login
<1> QED
  BY <1>2, <1>3

\* A tab that is not on its way has nothing to keep but its page.
LEMMA IdleTabIsSound ==
    ASSUME NEW w, w.stage \in {"page", "login"},
           w.stage = "login" => w.path \in ReturnPaths \cup {Home}
    PROVE  TabIsSound(w) /\ ~IsAway(w) /\ ~IsCalling(w)
BY DEF TabIsSound, PathIsKept, TicketIsThere, CallIsSound, KeyIsSound, IsAway, IsUnderway, IsCalling

LEMMA CallsIsCalling == \A t : Calls(t) <=> IsCalling(tab[t])
BY DEF Calls, IsCalling

\* Some tab moves, and nothing else but the cookie that its answer clears, the session
\* and the cached keys.
LEMMA TabMoves ==
    ASSUME SignInIsSound, NEW t \in Tabs, NEW w \in Tab,
           tab' = [tab EXCEPT ![t] = w],
           UNCHANGED <<world, secret, attempt>>,
           TabIsSound(w),
           IsAway(w) => IsAway(tab[t]) /\ w.attempt = tab[t].attempt,
           IsCalling(w) => IsCalling(tab[t]),
           ticket' = ticket \/ (ticket' = Nothing /\ IsCalling(tab[t]) /\ ~IsAway(w)),
           signedIn' \in Accounts \cup {Nothing},
           cache' \in Keys, CacheIsSound'
    PROVE  SignInIsSound'
<1>1. /\ clock' = clock /\ google' = google /\ secret' = secret /\ attempt' = attempt
      /\ tab \in [Tabs -> Tab]
  BY DEF world, SignInIsSound, SignInTypeOK
<1>2. \A u \in Tabs : tab'[u] = IF u = t THEN w ELSE tab[u]
  BY <1>1
<1>3. SignInTypeOK'
  BY <1>1 DEF SignInIsSound, SignInTypeOK
<1>4. \A u \in Tabs : TabIsSound(tab'[u])
  BY <1>2 DEF SignInIsSound
<1>5. ASSUME NEW u \in Tabs PROVE TabIsSound(tab[u])'
  <2>1. PathIsKept(tab[u])' /\ CallIsSound(tab[u])' /\ KeyIsSound(tab[u])'
    BY <1>1, <1>4 DEF TabIsSound, PathIsKept, CallIsSound, KeyIsSound, IsUnderway, IsCalling, Rotated
  <2>2. TicketIsThere(tab[u])'
    <3>1. CASE ticket' = ticket
      BY <1>1, <1>4, <3>1 DEF TabIsSound, TicketIsThere, IsAway
    <3>2. CASE ticket' = Nothing /\ IsCalling(tab[t]) /\ ~IsAway(w)
      BY <1>1, <1>2, <3>2 DEF SignInIsSound, CallsDisturb, TicketIsThere, IsAway
    <3> QED
      BY <3>1, <3>2
  <2> QED
    BY <2>1, <2>2 DEF TabIsSound
<1>6. CallsDisturb'
  <2> SUFFICES ASSUME NEW u \in Tabs, NEW v \in Tabs, IsAway(tab'[u]), IsCalling(tab'[v])
               PROVE  attempt[tab'[u].attempt].disturbed
    BY <1>1 DEF CallsDisturb, IsAway, IsCalling
  <2>1. IsAway(tab[u]) /\ tab'[u].attempt = tab[u].attempt /\ IsCalling(tab[v])
    BY <1>2
  <2> QED
    BY <2>1 DEF SignInIsSound, CallsDisturb
<1> QED
  BY <1>3, <1>5, <1>6 DEF SignInIsSound

-----------------------------------------------------------------------------
(* Every step of a tab keeps the invariant.                                *)

\* A tab alone moves: nothing else changes.
LEMMA TabMovesAlone ==
    ASSUME SignInIsSound, NEW t \in Tabs, NEW w \in Tab,
           tab' = [tab EXCEPT ![t] = w],
           UNCHANGED <<world, server, attempt, ticket, signedIn>>,
           TabIsSound(w),
           IsAway(w) => IsAway(tab[t]) /\ w.attempt = tab[t].attempt,
           IsCalling(w) => IsCalling(tab[t])
    PROVE  SignInIsSound'
<1>1. /\ UNCHANGED <<world, secret, attempt>> /\ cache' = cache /\ ticket' = ticket /\ signedIn' = signedIn
      /\ clock' = clock /\ google' = google
  BY DEF server, world
<1>2. cache' \in Keys /\ CacheIsSound' /\ signedIn' \in Accounts \cup {Nothing}
  BY <1>1 DEF SignInIsSound, SignInTypeOK, CacheIsSound
<1> QED
  BY <1>1, <1>2, TabMoves

LEMMA TabTypes ==
    ASSUME SignInIsSound, NEW t \in Tabs
    PROVE  /\ tab[t] \in Tab /\ TabIsSound(tab[t])
           /\ clock \in Nat /\ secret \in Nat /\ google.key \in Nat /\ google.since \in Nat
           /\ google.key \in 0 .. MaxKey /\ cache \in Keys
           /\ tab[t].path \in Paths \cup {Home} /\ tab[t].key \in Nat
           /\ tab[t].stage \in TabStages
BY SignInBounds DEF SignInIsSound, SignInTypeOK, Tab, Times

LEMMA LoseSessionSound ==
    ASSUME SignInIsSound, NEW t \in Tabs, LoseSession(t) \/ Reload(t)
    PROVE  SignInIsSound'
<1>1. /\ tab' = [tab EXCEPT ![t] = Login(tab[t].path)]
      /\ UNCHANGED <<world, server, attempt, ticket, signedIn>>
  BY DEF LoseSession, Reload
<1>2. /\ Login(tab[t].path) \in Tab /\ Login(tab[t].path).stage \in {"page", "login"}
      /\ Login(tab[t].path).path \in ReturnPaths \cup {Home}
  BY TabTypes, LoginIsSound
<1>3. TabIsSound(Login(tab[t].path)) /\ ~IsAway(Login(tab[t].path)) /\ ~IsCalling(Login(tab[t].path))
  BY <1>2, IdleTabIsSound
<1> QED
  BY <1>1, <1>2, <1>3, TabMovesAlone

LEMMA ApproveSound ==
    ASSUME SignInIsSound, NEW t \in Tabs, Approve(t)
    PROVE  SignInIsSound'
<1>1. PICK a \in Accounts, denied \in BOOLEAN :
        tab' = [tab EXCEPT ![t].stage = "approved", ![t].denied = denied,
                           ![t].account = IF denied THEN Nothing ELSE a]
  BY DEF Approve
<1> DEFINE w == [tab[t] EXCEPT !.stage = "approved", !.denied = denied,
                               !.account = IF denied THEN Nothing ELSE a]
<1>2. tab' = [tab EXCEPT ![t] = w]
  BY <1>1
<1>3. w \in Tab /\ w.stage = "approved" /\ w.path = tab[t].path /\ w.attempt = tab[t].attempt
  BY TabTypes DEF Tab, TabStages
<1>4. TabIsSound(tab[t]) /\ tab[t].stage = "google"
  BY TabTypes DEF Approve, TabAt
<1> HIDE DEF w
<1>5. TabIsSound(w) /\ IsAway(w) /\ IsAway(tab[t]) /\ ~IsCalling(w)
  BY <1>3, <1>4 DEF TabIsSound, PathIsKept, TicketIsThere, CallIsSound, KeyIsSound, IsAway, IsUnderway,
     IsCalling
<1>6. UNCHANGED <<world, server, attempt, ticket, signedIn>>
  BY DEF Approve
<1> QED
  BY <1>2, <1>3, <1>5, <1>6, TabMovesAlone

\* A tab refused has nothing to answer for but its path.
LEMMA RefusedIsSound ==
    ASSUME NEW v, NEW w, PathIsKept(v), IsUnderway(v), w.stage = "refused", w.path = v.path,
           w.attempt = v.attempt
    PROVE  TabIsSound(w) /\ ~IsAway(w) /\ IsCalling(w)
BY DEF TabIsSound, PathIsKept, TicketIsThere, CallIsSound, KeyIsSound, IsAway, IsUnderway, IsCalling

LEMMA ExchangeSound ==
    ASSUME SignInIsSound, NEW t \in Tabs, Exchange(t)
    PROVE  SignInIsSound'
<1> DEFINE w == [tab[t] EXCEPT !.stage = "exchanged", !.key = google.key]
<1> DEFINE r == [tab[t] EXCEPT !.stage = "refused", !.denied = TRUE]
<1>1. /\ TabIsSound(tab[t]) /\ tab[t].stage = "returned" /\ IsCalling(tab[t]) /\ IsUnderway(tab[t])
      /\ UNCHANGED <<world, server, attempt, ticket, signedIn>>
  BY TabTypes DEF Exchange, TabAt, IsCalling, IsUnderway
<1>2. \/ tab[t].sent = tab[t].attempt /\ tab' = [tab EXCEPT ![t] = w]
      \/ tab' = [tab EXCEPT ![t] = r]
  BY DEF Exchange
<1>3. /\ w \in Tab /\ w.stage = "exchanged" /\ w.path = tab[t].path /\ w.attempt = tab[t].attempt
      /\ w.sent = tab[t].sent /\ w.key = google.key
      /\ r \in Tab /\ r.stage = "refused" /\ r.path = tab[t].path /\ r.attempt = tab[t].attempt
  BY TabTypes DEF Tab, TabStages
<1> HIDE DEF w, r
<1>4. TabIsSound(w) /\ ~IsAway(w)
  BY <1>1, <1>3, TabTypes DEF TabIsSound, PathIsKept, TicketIsThere, CallIsSound, KeyIsSound, IsAway, IsUnderway, IsCalling
<1>5. TabIsSound(r) /\ ~IsAway(r)
  BY <1>1, <1>3, RefusedIsSound DEF TabIsSound
<1> QED
  BY <1>1, <1>2, <1>3, <1>4, <1>5, TabMovesAlone

LEMMA FindKeysSound ==
    ASSUME SignInIsSound, NEW t \in Tabs, FindKeys(t)
    PROVE  SignInIsSound'
<1> DEFINE w == [tab[t] EXCEPT !.stage = "checking", !.found = cache.known]
<1> DEFINE q == [tab[t] EXCEPT !.stage = "asking", !.found = Published]
<1> DEFINE r == [tab[t] EXCEPT !.stage = "refused", !.denied = TRUE]
<1>1. /\ TabIsSound(tab[t]) /\ tab[t].stage = "exchanged" /\ IsCalling(tab[t]) /\ IsUnderway(tab[t])
      /\ UNCHANGED <<world, server, attempt, ticket, signedIn>>
  BY TabTypes DEF FindKeys, TabAt, IsCalling, IsUnderway
<1>2. \/ Fresh(cache) /\ tab' = [tab EXCEPT ![t] = w]
      \/ tab' = [tab EXCEPT ![t] = q]
      \/ tab' = [tab EXCEPT ![t] = r]
  BY DEF FindKeys
<1>3. Published \in SUBSET (0 .. MaxKey) /\ cache.known \in SUBSET (0 .. MaxKey)
  BY TabTypes DEF Published, Keys
<1>4. /\ w \in Tab /\ w.stage = "checking" /\ w.path = tab[t].path /\ w.attempt = tab[t].attempt
      /\ w.sent = tab[t].sent /\ w.key = tab[t].key /\ w.found = cache.known
      /\ q \in Tab /\ q.stage = "asking" /\ q.path = tab[t].path /\ q.attempt = tab[t].attempt
      /\ q.sent = tab[t].sent /\ q.key = tab[t].key /\ q.found = Published
      /\ r \in Tab /\ r.stage = "refused" /\ r.path = tab[t].path /\ r.attempt = tab[t].attempt
  BY <1>3, TabTypes DEF Tab, TabStages
<1> HIDE DEF w, q, r
<1>5. /\ tab[t].key <= google.key /\ (tab[t].key # google.key => google.since = clock)
      /\ tab[t].key \in Nat /\ google.key \in Nat /\ clock \in Nat /\ KeysLife \in Nat \ {0}
  BY <1>1, TabTypes, SignInBounds DEF TabIsSound, KeyIsSound
<1>6. /\ PathIsKept(w) /\ TicketIsThere(w) /\ CallIsSound(w) /\ ~IsAway(w)
      /\ PathIsKept(q) /\ TicketIsThere(q) /\ CallIsSound(q) /\ ~IsAway(q)
  BY <1>1, <1>4 DEF TabIsSound, PathIsKept, TicketIsThere, CallIsSound, IsAway, IsUnderway, IsCalling
<1>7. TabIsSound(r) /\ ~IsAway(r)
  BY <1>1, <1>4, RefusedIsSound DEF TabIsSound
<1>8. KeyIsSound(w) \/ ~Fresh(cache)
  <2> SUFFICES ASSUME Fresh(cache), tab[t].key \notin cache.known PROVE Rotated
    BY <1>4, <1>5 DEF KeyIsSound
  <2>1. CASE tab[t].key # google.key
    BY <1>5, <2>1 DEF Rotated
  <2>2. CASE tab[t].key = google.key
    <3>1. google.key > 0 /\ cache.until <= google.since + KeysLife /\ clock < cache.until
      BY <2>2 DEF SignInIsSound, CacheIsSound, Fresh
    <3>2. cache.until \in Nat /\ google.since \in Nat
      BY TabTypes, SignInBounds DEF Keys, Times
    <3> QED
      BY <1>5, <3>1, <3>2 DEF Rotated
  <2> QED
    BY <2>1, <2>2
<1>9. KeyIsSound(q)
  <2>1. google.key \in Published
    BY TabTypes DEF Published
  <2>2. tab[t].key \in Published \/ Rotated
    BY <1>5, <2>1 DEF Rotated
  <2> QED
    BY <1>4, <1>5, <2>1, <2>2 DEF KeyIsSound
<1> QED
  BY <1>1, <1>2, <1>4, <1>6, <1>7, <1>8, <1>9, TabMovesAlone DEF TabIsSound

LEMMA VerifySound ==
    ASSUME SignInIsSound, NEW t \in Tabs, Verify(t) \/ Resolve(t)
    PROVE  SignInIsSound'
<1>1. PICK stage \in {"verified", "resolved", "refused"} :
        /\ tab' = [tab EXCEPT ![t].stage = stage]
        /\ stage \in {"verified", "resolved"} => tab[t].account \in Hosted
        /\ stage = "resolved" => tab[t].account \in Members
  <2>1. CASE Verify(t)
    BY <2>1 DEF Verify, Go
  <2>2. CASE Resolve(t)
    <3>1. tab[t].account \in Hosted
      BY <2>2, TabTypes DEF Resolve, TabAt, TabIsSound, CallIsSound, IsCalling
    <3> QED
      BY <2>2, <3>1 DEF Resolve, Go
  <2> QED
    BY <2>1, <2>2
<1> DEFINE w == [tab[t] EXCEPT !.stage = stage]
<1>2. tab' = [tab EXCEPT ![t] = w]
  BY <1>1
<1>3. /\ w \in Tab /\ w.stage = stage /\ w.path = tab[t].path /\ w.attempt = tab[t].attempt
      /\ w.sent = tab[t].sent /\ w.account = tab[t].account
  BY TabTypes DEF Tab, TabStages
<1>4. /\ TabIsSound(tab[t]) /\ tab[t].stage \in {"checking", "verified"}
      /\ UNCHANGED <<world, server, attempt, ticket, signedIn>>
  BY TabTypes DEF Verify, Resolve, TabAt
<1> HIDE DEF w
<1>5. TabIsSound(w) /\ ~IsAway(w) /\ IsCalling(tab[t])
  BY <1>1, <1>3, <1>4 DEF TabIsSound, PathIsKept, TicketIsThere, CallIsSound, KeyIsSound, IsAway, IsUnderway,
     IsCalling
<1> QED
  BY <1>2, <1>3, <1>4, <1>5, TabMovesAlone

LEMMA KeepKeysSound ==
    ASSUME SignInIsSound, NEW t \in Tabs, KeepKeys(t)
    PROVE  SignInIsSound'
<1> DEFINE w == [tab[t] EXCEPT !.stage = "checking"]
<1>1. /\ TabIsSound(tab[t]) /\ tab[t].stage = "asking" /\ IsCalling(tab[t])
      /\ UNCHANGED <<world, secret, attempt, ticket, signedIn>>
      /\ cache' = [known |-> tab[t].found, until |-> clock + KeysLife]
      /\ tab' = [tab EXCEPT ![t] = w] /\ clock' = clock /\ google' = google
  BY TabTypes DEF KeepKeys, TabAt, IsCalling, Go, world
<1>2. /\ w \in Tab /\ w.stage = "checking" /\ w.path = tab[t].path /\ w.attempt = tab[t].attempt
      /\ w.sent = tab[t].sent /\ w.key = tab[t].key /\ w.found = tab[t].found
  BY TabTypes DEF Tab, TabStages
<1> HIDE DEF w
<1>3. TabIsSound(w) /\ ~IsAway(w)
  BY <1>1, <1>2 DEF TabIsSound, PathIsKept, TicketIsThere, CallIsSound, KeyIsSound, IsAway, IsUnderway,
     IsCalling
<1>4. clock + KeysLife \in Times /\ tab[t].found \in SUBSET (0 .. MaxKey)
  BY TabTypes, SignInBounds DEF SignInIsSound, SignInTypeOK, Times, Tab
<1>5. cache' \in Keys
  BY <1>1, <1>4 DEF Keys
<1>6. CacheIsSound'
  <2>1. google.key \in tab[t].found \/ (google.key > 0 /\ google.since = clock)
    BY <1>1 DEF TabIsSound, KeyIsSound
  <2>2. clock + KeysLife \in Nat /\ clock \in Nat
    BY TabTypes, SignInBounds
  <2> QED
    BY <1>1, <2>1, <2>2 DEF CacheIsSound
<1>7. signedIn' \in Accounts \cup {Nothing}
  BY <1>1 DEF SignInIsSound, SignInTypeOK
<1> QED
  BY <1>1, <1>2, <1>3, <1>5, <1>6, <1>7, TabMoves

\* Where a session begins.
LEMMA WhereItLands ==
    ASSUME SignInIsSound, NEW t \in Tabs, Land(t)
    PROVE  /\ signedIn' = tab[t].account /\ signedIn' \in Hosted \cap Members
           /\ Destination(t) = tab[t].path
<1>1. /\ TabIsSound(tab[t]) /\ tab[t].stage = "resolved"
  BY TabTypes DEF Land, TabAt
<1>2. /\ tab[t].sent = tab[t].attempt /\ attempt[tab[t].attempt].path = tab[t].path
      /\ tab[t].path \in ReturnPaths \cup {Home}
  BY <1>1 DEF TabIsSound, CallIsSound, PathIsKept, IsUnderway, IsCalling
<1>3. Destination(t) = tab[t].path
  BY <1>2, TabTypes, PathIsSafe DEF Destination
<1> QED
  BY <1>1, <1>3 DEF Land, TabIsSound, CallIsSound, IsCalling

LEMMA AnswerSound ==
    ASSUME SignInIsSound, NEW t \in Tabs, Land(t) \/ Deny(t)
    PROVE  SignInIsSound'
<1>1. /\ ticket' = Nothing /\ IsCalling(tab[t]) /\ tab[t] \in Tab
      /\ UNCHANGED <<world, secret, attempt>> /\ cache' = cache /\ clock' = clock /\ google' = google
      /\ signedIn' = signedIn \/ signedIn' = tab[t].account
  BY TabTypes DEF Land, Deny, TabAt, IsCalling, server, world
<1>2. PICK w \in Tab : /\ tab' = [tab EXCEPT ![t] = w] /\ w.stage \in {"page", "login"}
                       /\ w.path \in Paths \cup {Home}
                       /\ w.stage = "login" => w.path \in ReturnPaths \cup {Home}
  <2>1. CASE Land(t)
    <3> DEFINE v == OnPage(Destination(t))
    <3>1. v \in Tab /\ v.stage = "page" /\ v.path \in Paths \cup {Home}
      BY <2>1, WhereItLands, TabTypes, OpenedIsSound
    <3>2. tab' = [tab EXCEPT ![t] = v]
      BY <2>1 DEF Land
    <3> HIDE DEF v
    <3> QED
      BY <3>1, <3>2
  <2>2. CASE Deny(t)
    <3> DEFINE v == Login(Home)
    <3>1. v \in Tab /\ v.stage \in {"page", "login"} /\ v.path \in ReturnPaths \cup {Home}
      BY LoginIsSound
    <3>2. tab' = [tab EXCEPT ![t] = v]
      BY <2>2 DEF Deny
    <3>3. v.path \in Paths \cup {Home}
      BY <3>1 DEF Tab
    <3> QED
      BY <3>1, <3>2, <3>3
  <2> QED
    BY <2>1, <2>2
<1>3. TabIsSound(w) /\ ~IsAway(w) /\ ~IsCalling(w)
  BY <1>2, IdleTabIsSound
<1>4. cache' \in Keys /\ CacheIsSound' /\ signedIn' \in Accounts \cup {Nothing}
  BY <1>1 DEF SignInIsSound, SignInTypeOK, CacheIsSound, Tab
<1> QED
  BY <1>1, <1>2, <1>3, <1>4, TabMoves

\* What it means that a tab marks the attempts of the others.
LEMMA MarksAreSound ==
    ASSUME SignInIsSound, NEW t \in Tabs
    PROVE  /\ Disturbed(t) \in [Attempts -> Attempt \cup {Nothing}]
           /\ \A u \in Tabs : IsUnderway(tab[u]) =>
                LET k == tab[u].attempt IN
                /\ Disturbed(t)[k] \in Attempt
                /\ Disturbed(t)[k].path = attempt[k].path
                /\ Disturbed(t)[k].secret = attempt[k].secret
                /\ u # t /\ IsAway(tab[u]) => Disturbed(t)[k].disturbed
<1>1. \A u \in Tabs : IsUnderway(tab[u]) => tab[u].attempt \in Attempts /\ attempt[tab[u].attempt] \in Attempt
  BY DEF SignInIsSound, TabIsSound, PathIsKept
<1>2. attempt \in [Attempts -> Attempt \cup {Nothing}]
  BY DEF SignInIsSound, SignInTypeOK
<1>3. ASSUME NEW a \in Attempt
      PROVE  LET b == [a EXCEPT !.disturbed = TRUE] IN
             b \in Attempt /\ b.path = a.path /\ b.secret = a.secret /\ b.disturbed = TRUE
  BY DEF Attempt
<1>4. ASSUME NEW k \in Attempts, NEW u \in Tabs \ {t}, tab[u].attempt = k, tab[u].stage \in {"google", "approved"}
      PROVE  attempt[k] \in Attempt
  BY <1>1, <1>4 DEF IsUnderway
<1>5. Disturbed(t) \in [Attempts -> Attempt \cup {Nothing}]
  BY <1>2, <1>3, <1>4 DEF Disturbed
<1>6. ASSUME NEW u \in Tabs, IsUnderway(tab[u]), NEW k, k = tab[u].attempt
      PROVE  /\ Disturbed(t)[k] \in Attempt
             /\ Disturbed(t)[k].path = attempt[k].path
             /\ Disturbed(t)[k].secret = attempt[k].secret
             /\ u # t /\ IsAway(tab[u]) => Disturbed(t)[k].disturbed
  <2>1. k \in Attempts /\ attempt[k] \in Attempt
    BY <1>1, <1>6
  <2>2. Disturbed(t)[k] = IF \E v \in Tabs \ {t} : tab[v].attempt = k /\ tab[v].stage \in {"google", "approved"}
                          THEN [attempt[k] EXCEPT !.disturbed = TRUE] ELSE attempt[k]
    BY <2>1 DEF Disturbed
  <2>3. u # t /\ IsAway(tab[u]) =>
          \E v \in Tabs \ {t} : tab[v].attempt = k /\ tab[v].stage \in {"google", "approved"}
    BY <1>6 DEF IsAway
  <2> QED
    BY <1>3, <2>1, <2>2, <2>3
<1> QED
  BY <1>5, <1>6

\* A tab that was sound is, with the attempts marked, but for the tab that marks.
LEMMA MarkedIsSound ==
    ASSUME SignInIsSound, NEW t \in Tabs, NEW u \in Tabs, u # t, tab'[u] = tab[u],
           UNCHANGED <<world, server>>,
           IsUnderway(tab[u]) => attempt'[tab[u].attempt] = Disturbed(t)[tab[u].attempt]
    PROVE  /\ TabIsSound(tab[u])'
           /\ IsAway(tab[u]) => attempt'[tab[u].attempt].disturbed
<1>1. TabIsSound(tab[u]) /\ clock' = clock /\ google' = google /\ secret' = secret
  BY DEF SignInIsSound, world, server
<1>2. /\ IsUnderway(tab[u]) => /\ attempt'[tab[u].attempt] \in Attempt
                               /\ attempt'[tab[u].attempt].path = attempt[tab[u].attempt].path
                               /\ attempt'[tab[u].attempt].secret = attempt[tab[u].attempt].secret
      /\ IsAway(tab[u]) => attempt'[tab[u].attempt].disturbed
  BY MarksAreSound DEF IsAway, IsUnderway
<1> QED
  BY <1>1, <1>2 DEF TabIsSound, PathIsKept, TicketIsThere, CallIsSound, KeyIsSound, IsUnderway, IsCalling, IsAway,
     Rotated

\* Why a callback is refused at once.
LEMMA WhyItIsRefused ==
    ASSUME SignInIsSound, NEW t \in Tabs, TabAt(t, "approved"), ~Accepts(t, ticket)
    PROVE  \/ tab[t].denied
           \/ attempt[tab[t].attempt].disturbed
           \/ clock >= attempt[tab[t].attempt].until
           \/ secret > attempt[tab[t].attempt].secret + 1
<1> DEFINE a == attempt[tab[t].attempt]
<1>1. /\ tab[t].attempt \in Attempts /\ a \in Attempt /\ a.secret <= secret
      /\ a.disturbed \/ ticket = tab[t].attempt \/ clock >= a.until
  BY TabTypes DEF TabAt, TabIsSound, PathIsKept, TicketIsThere, IsAway, IsUnderway
<1>2. a.secret \in Nat /\ a.until \in Nat /\ secret \in Nat /\ clock \in Nat
  BY <1>1, TabTypes, SignInBounds DEF Attempt, Times
<1>3. SUFFICES ASSUME ~tab[t].denied, ticket = tab[t].attempt, clock < a.until
               PROVE  secret > a.secret + 1
  BY <1>1, <1>2
<1>4. ticket # Nothing
  BY <1>1, <1>3, NothingIsNone
<1>5. ~Verified(ticket)
  BY <1>3, <1>4 DEF Accepts
<1> QED
  BY <1>1, <1>2, <1>3, <1>5 DEF Verified

LEMMA ReturnSound ==
    ASSUME SignInIsSound, NEW t \in Tabs, Return(t)
    PROVE  SignInIsSound'
<1>1. PICK stage \in {"returned", "refused"} :
        /\ tab' = [tab EXCEPT ![t].sent = ticket, ![t].stage = stage]
        /\ stage = "returned" => Accepts(t, ticket)
  BY DEF Return
<1> DEFINE w == [tab[t] EXCEPT !.sent = ticket, !.stage = stage]
<1>2. /\ attempt' = Disturbed(t) /\ UNCHANGED <<world, server, ticket, signedIn>>
      /\ clock' = clock /\ google' = google /\ secret' = secret /\ cache' = cache /\ ticket' = ticket
      /\ signedIn' = signedIn /\ TabIsSound(tab[t]) /\ IsUnderway(tab[t]) /\ IsAway(tab[t])
      /\ tab' = [tab EXCEPT ![t] = w]
  BY <1>1, TabTypes DEF Return, world, server, IsUnderway, IsAway, TabAt
<1>3. /\ w \in Tab /\ w.stage = stage /\ w.path = tab[t].path /\ w.attempt = tab[t].attempt
      /\ w.sent = ticket
  BY TabTypes DEF Tab, TabStages, SignInIsSound, SignInTypeOK
<1>4. \A u \in Tabs : tab'[u] = IF u = t THEN w ELSE tab[u]
  BY <1>2 DEF SignInIsSound, SignInTypeOK
<1> HIDE DEF w
<1>5. SignInTypeOK'
  BY <1>2, <1>3, MarksAreSound DEF SignInIsSound, SignInTypeOK
<1>6. TabIsSound(tab[t])' /\ ~IsAway(tab'[t])
  <2>1. tab'[t] = w
    BY <1>4
  <2>2. w.stage = "returned" => ticket = w.attempt
    BY <1>1, <1>3 DEF Accepts
  <2>3. /\ attempt'[w.attempt] \in Attempt
        /\ attempt'[w.attempt].path = attempt[tab[t].attempt].path
        /\ attempt'[w.attempt].secret = attempt[tab[t].attempt].secret
    BY <1>2, <1>3, MarksAreSound
  <2>4. PathIsKept(tab[t])'
    BY <1>2, <1>3, <2>1, <2>3 DEF TabIsSound, PathIsKept, IsUnderway
  <2>5. TicketIsThere(tab[t])' /\ KeyIsSound(tab[t])' /\ ~IsAway(tab'[t])
    BY <1>3, <2>1 DEF TicketIsThere, KeyIsSound, IsAway
  <2>6. CallIsSound(tab[t])'
    BY <1>3, <2>1, <2>2 DEF CallIsSound, IsCalling
  <2> QED
    BY <2>4, <2>5, <2>6 DEF TabIsSound
<1>7. ASSUME NEW u \in Tabs, u # t
      PROVE  TabIsSound(tab[u])' /\ (IsAway(tab'[u]) => attempt'[tab'[u].attempt].disturbed)
  BY <1>2, <1>4, <1>7, MarkedIsSound
<1>8. CallsDisturb'
  BY <1>6, <1>7 DEF CallsDisturb, IsAway
<1>9. CacheIsSound'
  BY <1>2 DEF SignInIsSound, CacheIsSound
<1> QED
  BY <1>5, <1>6, <1>7, <1>8, <1>9 DEF SignInIsSound

LEMMA BeginSignInSound ==
    ASSUME SignInIsSound, NEW t \in Tabs, BeginSignIn(t)
    PROVE  SignInIsSound'
<1>1. PICK k \in Attempts :
        /\ attempt[k] = Nothing
        /\ attempt' = [Disturbed(t) EXCEPT ![k] =
              [path |-> SafeReturnTo(tab[t].path), until |-> clock + TicketLife, secret |-> secret,
               disturbed |-> \E u \in Tabs : Calls(u)]]
        /\ ticket' = k
        /\ tab' = [tab EXCEPT ![t].stage = "google", ![t].attempt = k]
  BY DEF BeginSignIn
<1> DEFINE a == [path |-> SafeReturnTo(tab[t].path), until |-> clock + TicketLife, secret |-> secret,
                 disturbed |-> \E u \in Tabs : Calls(u)]
<1> DEFINE w == [tab[t] EXCEPT !.stage = "google", !.attempt = k]
<1>2. /\ UNCHANGED <<world, server, signedIn>>
      /\ clock' = clock /\ google' = google /\ secret' = secret /\ cache' = cache /\ signedIn' = signedIn
      /\ TabIsSound(tab[t]) /\ tab[t].stage = "login" /\ tab' = [tab EXCEPT ![t] = w]
  BY <1>1, TabTypes, ZenonT(60) DEF BeginSignIn, world, server, TabAt
<1>3. /\ w \in Tab /\ w.stage = "google" /\ w.path = tab[t].path /\ w.attempt = k
  BY TabTypes DEF Tab, TabStages
<1>4. tab[t].path \in ReturnPaths \cup {Home} /\ SafeReturnTo(tab[t].path) = tab[t].path
  BY <1>2, TabTypes, PathIsSafe DEF TabIsSound, PathIsKept
<1>5. /\ a \in Attempt /\ a.path = tab[t].path /\ a.secret = secret
      /\ a.disturbed <=> \E u \in Tabs : IsCalling(tab[u])
  <2>1. clock + TicketLife \in Times /\ secret \in 0 .. MaxSecret
    BY SignInBounds DEF SignInIsSound, SignInTypeOK, Times
  <2>2. (\E u \in Tabs : Calls(u)) \in BOOLEAN
    OBVIOUS
  <2> QED
    BY <1>4, <2>1, <2>2, TabTypes, CallsIsCalling DEF Attempt
<1>6. \A u \in Tabs : tab'[u] = IF u = t THEN w ELSE tab[u]
  BY <1>2 DEF SignInIsSound, SignInTypeOK
<1> HIDE DEF a, w
<1>7. attempt' = [Disturbed(t) EXCEPT ![k] = a]
  BY <1>1 DEF a
<1>8. attempt' \in [Attempts -> Attempt \cup {Nothing}] /\ attempt'[k] = a
  BY <1>5, <1>7, MarksAreSound
<1>9. SignInTypeOK'
  <2>1. tab' \in [Tabs -> Tab]
    BY <1>2, <1>3 DEF SignInIsSound, SignInTypeOK
  <2>2. ticket' \in Attempts \cup {Nothing}
    BY <1>1
  <2> QED
    BY <1>2, <1>8, <2>1, <2>2 DEF SignInIsSound, SignInTypeOK
<1>10. TabIsSound(tab[t])' /\ ~IsCalling(tab'[t])
  <2>1. tab'[t] = w /\ attempt'[w.attempt] = a /\ ticket' = w.attempt
    BY <1>1, <1>3, <1>6, <1>8
  <2>2. PathIsKept(tab[t])'
    BY <1>2, <1>3, <1>4, <1>5, <2>1, TabTypes DEF PathIsKept, IsUnderway
  <2>3. TicketIsThere(tab[t])' /\ KeyIsSound(tab[t])' /\ CallIsSound(tab[t])' /\ ~IsCalling(tab'[t])
    BY <1>3, <2>1 DEF TicketIsThere, KeyIsSound, CallIsSound, IsCalling
  <2> QED
    BY <2>2, <2>3 DEF TabIsSound
<1>11. ASSUME NEW u \in Tabs, u # t
       PROVE  TabIsSound(tab[u])' /\ (IsAway(tab'[u]) => attempt'[tab'[u].attempt].disturbed)
  <2>1. IsUnderway(tab[u]) => tab[u].attempt \in Attempts /\ attempt[tab[u].attempt] \in Attempt
    BY DEF SignInIsSound, TabIsSound, PathIsKept
  <2>2. IsUnderway(tab[u]) => tab[u].attempt # k
    BY <1>1, <2>1, NothingIsNone
  <2>3. IsUnderway(tab[u]) => attempt'[tab[u].attempt] = Disturbed(t)[tab[u].attempt]
    BY <1>7, <2>1, <2>2, MarksAreSound
  <2>4. tab'[u] = tab[u]
    BY <1>6, <1>11
  <2>5. TabIsSound(tab[u])' /\ (IsAway(tab[u]) => attempt'[tab[u].attempt].disturbed)
    BY <1>2, <1>11, <2>3, <2>4, MarkedIsSound
  <2> QED
    BY <2>4, <2>5
<1>12. CallsDisturb'
  <2> SUFFICES ASSUME NEW u \in Tabs, NEW v \in Tabs, IsAway(tab'[u]), IsCalling(tab'[v])
               PROVE  attempt'[tab'[u].attempt].disturbed
    BY DEF CallsDisturb, IsAway, IsCalling
  <2>1. v # t /\ IsCalling(tab[v])
    BY <1>6, <1>10
  <2>2. CASE u = t
    BY <1>3, <1>5, <1>6, <1>8, <2>1, <2>2
  <2>3. CASE u # t
    BY <1>11, <2>3
  <2> QED
    BY <2>2, <2>3
<1>13. CacheIsSound'
  BY <1>2 DEF SignInIsSound, CacheIsSound
<1> QED
  BY <1>9, <1>10, <1>11, <1>12, <1>13 DEF SignInIsSound

-----------------------------------------------------------------------------
(* The steps of the server and of time.                                    *)

LEMMA RotateSound ==
    ASSUME SignInIsSound, Rotate
    PROVE  SignInIsSound'
<1>1. /\ google.key < MaxKey /\ google' = [key |-> google.key + 1, since |-> clock] /\ clock' = clock
      /\ secret' = secret /\ cache' = cache /\ attempt' = attempt /\ ticket' = ticket
      /\ signedIn' = signedIn /\ tab' = tab
  BY DEF Rotate, server
<1>2. /\ google.key \in 0 .. MaxKey /\ google.since \in Nat /\ clock \in 0 .. MaxClock
      /\ cache.until \in Nat /\ KeysLife \in Nat \ {0} /\ MaxKey \in Nat /\ clock \in Times
      /\ clock \in Nat
  BY SignInBounds DEF SignInIsSound, SignInTypeOK, Keys, Times
<1>3. google'.key = google.key + 1 /\ google'.since = clock
  BY <1>1
<1>4. google' \in [key : 0 .. MaxKey, since : Times]
  BY <1>1, <1>2
<1>5. SignInTypeOK'
  BY <1>1, <1>4 DEF SignInIsSound, SignInTypeOK
<1>6. Rotated'
  BY <1>1, <1>2, <1>3 DEF Rotated
<1>7. CacheIsSound'
  BY <1>1, <1>2, <1>3 DEF SignInIsSound, CacheIsSound
<1>8. ASSUME NEW t \in Tabs PROVE TabIsSound(tab[t])'
  <2>1. TabIsSound(tab[t]) /\ tab[t].key \in Nat
    BY <1>8, TabTypes
  <2>2. PathIsKept(tab[t])' /\ TicketIsThere(tab[t])' /\ CallIsSound(tab[t])'
    BY <1>1, <2>1 DEF TabIsSound, PathIsKept, TicketIsThere, CallIsSound
  <2>3. KeyIsSound(tab[t])'
    BY <1>1, <1>2, <1>3, <1>6, <2>1 DEF TabIsSound, KeyIsSound
  <2> QED
    BY <2>2, <2>3 DEF TabIsSound
<1>9. CallsDisturb'
  BY <1>1 DEF SignInIsSound, CallsDisturb
<1> QED
  BY <1>5, <1>7, <1>8, <1>9 DEF SignInIsSound

LEMMA DeploySound ==
    ASSUME SignInIsSound, Deploy
    PROVE  SignInIsSound'
<1>1. /\ secret < MaxSecret /\ secret' = secret + 1 /\ cache' = [known |-> {}, until |-> 0]
      /\ clock' = clock /\ google' = google /\ attempt' = attempt /\ ticket' = ticket
      /\ signedIn' = signedIn /\ tab' = tab
  BY DEF Deploy, world
<1>2. /\ secret \in 0 .. MaxSecret /\ MaxSecret \in Nat /\ clock \in Nat /\ KeysLife \in Nat /\ 0 \in Times
  BY SignInBounds DEF SignInIsSound, SignInTypeOK, Times
<1>3. SignInTypeOK'
  BY <1>1, <1>2 DEF SignInIsSound, SignInTypeOK, Keys
<1>4. CacheIsSound'
  BY <1>1, <1>2 DEF CacheIsSound
<1>5. ASSUME NEW t \in Tabs PROVE TabIsSound(tab[t])'
  <2>1. TabIsSound(tab[t])
    BY <1>5, TabTypes
  <2>2. PathIsKept(tab[t])'
    <3>1. attempt[tab[t].attempt] \in Attempt => attempt[tab[t].attempt].secret \in Nat
      BY DEF Attempt
    <3> QED
      BY <1>1, <1>2, <2>1, <3>1 DEF TabIsSound, PathIsKept
  <2> QED
    BY <1>1, <2>1, <2>2 DEF TabIsSound, TicketIsThere, CallIsSound, KeyIsSound, Rotated
<1>6. CallsDisturb'
  BY <1>1 DEF SignInIsSound, CallsDisturb
<1> QED
  BY <1>3, <1>4, <1>5, <1>6 DEF SignInIsSound

LEMMA EndSessionSound ==
    ASSUME SignInIsSound, EndSession
    PROVE  SignInIsSound'
<1>1. /\ signedIn' = Nothing /\ clock' = clock /\ google' = google /\ secret' = secret /\ cache' = cache
      /\ attempt' = attempt /\ ticket' = ticket /\ tab' = tab
  BY DEF EndSession, world, server
<1> QED
  BY <1>1 DEF SignInIsSound, SignInTypeOK, CallsDisturb, CacheIsSound, TabIsSound, PathIsKept, TicketIsThere,
     CallIsSound, KeyIsSound, Rotated

LEMMA TickClockSound ==
    ASSUME SignInIsSound, TickClock
    PROVE  SignInIsSound'
<1>1. /\ clock < MaxClock /\ clock' = clock + 1 /\ google' = google /\ secret' = secret /\ cache' = cache
      /\ attempt' = attempt /\ signedIn' = signedIn /\ tab' = tab
      /\ ticket' = ticket \/ (ticket # Nothing /\ ticket' = Nothing /\ attempt[ticket].until <= clock')
      /\ \A t \in Tabs : ~IsCalling(tab[t])
  BY CallsIsCalling DEF TickClock, server
<1>2. /\ clock \in 0 .. MaxClock /\ MaxClock \in Nat /\ cache.until \in Nat /\ KeysLife \in Nat
      /\ google.since \in Nat
  BY SignInBounds DEF SignInIsSound, SignInTypeOK, Keys, Times
<1>3. SignInTypeOK'
  BY <1>1, <1>2 DEF SignInIsSound, SignInTypeOK
<1>4. CacheIsSound'
  BY <1>1, <1>2 DEF SignInIsSound, CacheIsSound
<1>5. ASSUME NEW t \in Tabs PROVE TabIsSound(tab[t])'
  <2>1. TabIsSound(tab[t]) /\ ~IsCalling(tab[t])
    BY <1>1, <1>5, TabTypes
  <2>2. PathIsKept(tab[t])'
    BY <1>1, <2>1 DEF TabIsSound, PathIsKept
  <2>3. CallIsSound(tab[t])' /\ KeyIsSound(tab[t])'
    BY <1>1, <2>1 DEF CallIsSound, KeyIsSound, IsCalling
  <2>4. TicketIsThere(tab[t])'
    <3> SUFFICES ASSUME IsAway(tab[t])
                 PROVE  \/ attempt[tab[t].attempt].disturbed \/ ticket' = tab[t].attempt
                        \/ clock' >= attempt[tab[t].attempt].until
      BY <1>1 DEF TicketIsThere
    <3>1. attempt[tab[t].attempt] \in Attempt
      BY <2>1 DEF TabIsSound, PathIsKept, IsAway, IsUnderway
    <3>2. attempt[tab[t].attempt].until \in Nat /\ clock' \in Nat
      BY <1>1, <1>2, <3>1 DEF Attempt, Times
    <3> QED
      BY <1>1, <1>2, <2>1, <3>2 DEF TabIsSound, TicketIsThere
  <2> QED
    BY <2>2, <2>3, <2>4 DEF TabIsSound
<1>6. CallsDisturb'
  BY <1>1 DEF SignInIsSound, CallsDisturb
<1> QED
  BY <1>3, <1>4, <1>5, <1>6 DEF SignInIsSound

-----------------------------------------------------------------------------
(* The theorems.                                                           *)

LEMMA SignInStarts == SignInInit => SignInIsSound
<1> SUFFICES ASSUME SignInInit PROVE SignInIsSound
  OBVIOUS
<1>1. \A t \in Tabs : tab[t] \in Tab /\ tab[t].stage = "page"
  <2> SUFFICES ASSUME NEW t \in Tabs PROVE tab[t] \in Tab /\ tab[t].stage = "page"
    OBVIOUS
  <2>1. PICK p \in Paths : tab[t] = OnPage(p)
    BY DEF SignInInit
  <2> QED
    BY <2>1, OpenedIsSound
<1>2. SignInTypeOK
  <2>1. tab \in [Tabs -> Tab]
    BY <1>1 DEF SignInInit
  <2>2. 0 \in 0 .. MaxClock /\ 0 \in 0 .. MaxSecret /\ 0 \in 0 .. MaxKey /\ 0 \in Times
    BY SignInBounds DEF Times
  <2>3. google \in [key : 0 .. MaxKey, since : Times] /\ cache \in Keys
    BY <2>2 DEF SignInInit, Keys
  <2>4. attempt \in [Attempts -> Attempt \cup {Nothing}]
    BY DEF SignInInit
  <2> QED
    BY <2>1, <2>2, <2>3, <2>4 DEF SignInInit, SignInTypeOK
<1>3. ASSUME NEW t \in Tabs PROVE TabIsSound(tab[t]) /\ ~IsAway(tab[t])
  <2>1. tab[t].stage = "page"
    BY <1>1
  <2> QED
    BY <2>1, IdleTabIsSound
<1>4. CallsDisturb
  BY <1>3 DEF CallsDisturb
<1>5. CacheIsSound
  BY SignInBounds DEF SignInInit, CacheIsSound
<1> QED
  BY <1>2, <1>3, <1>4, <1>5 DEF SignInIsSound

LEMMA SignInKeeps == SignInIsSound /\ [SignInNext]_signInVars => SignInIsSound'
<1> SUFFICES ASSUME SignInIsSound, [SignInNext]_signInVars PROVE SignInIsSound'
  OBVIOUS
<1>1. ASSUME NEW t \in Tabs, TabStep(t) PROVE SignInIsSound'
  BY <1>1, LoseSessionSound, BeginSignInSound, ApproveSound, ReturnSound, ExchangeSound, FindKeysSound,
     KeepKeysSound, VerifySound, AnswerSound DEF TabStep
<1>2. CASE UNCHANGED signInVars
  BY <1>2 DEF signInVars, SignInIsSound, SignInTypeOK, CallsDisturb, CacheIsSound, TabIsSound, PathIsKept,
     TicketIsThere, CallIsSound, KeyIsSound, Rotated
<1> QED
  BY <1>1, <1>2, RotateSound, DeploySound, EndSessionSound, TickClockSound DEF SignInNext

LEMMA SignInInvariant == SignInSpec => []SignInIsSound
BY SignInStarts, SignInKeeps, PTL DEF SignInSpec

\* The cookie, the sign-ins, the keys and the tabs are what they are declared to be.
THEOREM SignInTyping == SignInSpec => []SignInTypeOK
<1>1. SignInIsSound => SignInTypeOK
  BY DEF SignInIsSound
<1> QED
  BY <1>1, SignInInvariant, PTL

\* A tab that gets refused has a reason.
LEMMA RefusalHasReason ==
    ASSUME SignInIsSound, NEW t \in Tabs, TabStep(t), ~TabAt(t, "refused"), tab'[t].stage = "refused"
    PROVE  Disappointed(t)
<1>1. tab \in [Tabs -> Tab] /\ tab[t] \in Tab
  BY DEF SignInIsSound, SignInTypeOK
<1>2. CASE Return(t)
  <2>1. ~Accepts(t, ticket) /\ tab'[t].denied = tab[t].denied
    BY <1>1, <1>2 DEF Return, Tab
  <2> QED
    BY <1>2, <2>1, WhyItIsRefused DEF Return, Disappointed
<1>3. CASE Exchange(t) \/ FindKeys(t)
  <2>1. tab'[t].denied
    BY <1>1, <1>3 DEF Exchange, FindKeys, Tab
  <2> QED
    BY <2>1 DEF Disappointed
<1>4. CASE Verify(t)
  <2>1. tab[t].key \notin tab[t].found \/ tab[t].account \notin Hosted
    BY <1>1, <1>4 DEF Verify, Go, Tab
  <2>2. tab[t].key \in tab[t].found \/ Rotated
    BY <1>4, TabTypes DEF Verify, TabAt, TabIsSound, KeyIsSound
  <2> QED
    BY <2>1, <2>2 DEF Disappointed, Rotated
<1>5. CASE Resolve(t)
  BY <1>1, <1>5 DEF Resolve, Go, Tab, Disappointed
<1>6. CASE LoseSession(t) \/ Reload(t) \/ Deny(t)
  <2>1. PICK p \in Paths \cup {Home} : tab' = [tab EXCEPT ![t] = Login(p)]
    BY <1>1, <1>6 DEF LoseSession, Reload, Deny, Tab
  <2> QED
    BY <1>1, <2>1, LoginIsSound
<1>7. CASE BeginSignIn(t) \/ Approve(t) \/ KeepKeys(t)
  <2>1. tab'[t].stage \in {"google", "approved", "checking"}
    <3>1. CASE BeginSignIn(t)
      BY <1>1, <3>1 DEF BeginSignIn
    <3>2. CASE Approve(t)
      BY <1>1, <3>2 DEF Approve
    <3>3. CASE KeepKeys(t)
      BY <1>1, <3>3 DEF KeepKeys, Go
    <3> QED
      BY <1>7, <3>1, <3>2, <3>3
  <2> QED
    BY <2>1
<1>8. CASE Land(t)
  BY <1>1, <1>8 DEF Land, OnPage
<1> QED
  BY <1>2, <1>3, <1>4, <1>5, <1>6, <1>7, <1>8 DEF TabStep

\* A tab that gets from a callback to a page, without a refusal, has landed.
LEMMA OnlyLandingEndsCalls ==
    ASSUME SignInIsSound, NEW t \in Tabs, TabStep(t), Calls(t), ~TabAt(t, "refused"), tab'[t].stage = "page"
    PROVE  Land(t)
<1>1. tab \in [Tabs -> Tab] /\ tab[t] \in Tab
  BY DEF SignInIsSound, SignInTypeOK
<1> QED
  BY <1>1, ZenonT(60) DEF TabStep, Calls, TabAt, LoseSession, Reload, BeginSignIn, Approve, Return, Exchange, FindKeys, KeepKeys,
     Verify, Resolve, Deny, Go, Tab

\* A sign-in comes through unless the user, Google, another tab, the clock, the secrets,
\* the account or a change of Google's key stands against it; and who comes through has
\* the session of the account he chose and is on the page he came from
\* (google-oidc.service.ts:73-95, 136-145).
THEOREM SigningThrough == SignInSpec => SignInPromise
<1> DEFINE Promise(t) ==
        /\ ~TabAt(t, "refused") /\ tab'[t].stage = "refused" => Disappointed(t)
        /\ Calls(t) /\ tab'[t].stage = "page" /\ ~TabAt(t, "refused") =>
              /\ signedIn' = tab[t].account /\ signedIn' \in Hosted \cap Members
              /\ tab'[t].path = tab[t].path
<1>1. ASSUME SignInIsSound, [SignInNext]_signInVars PROVE [\A t \in Tabs : Promise(t)]_signInVars
  <2> SUFFICES ASSUME SignInNext, NEW t \in Tabs PROVE Promise(t)
    BY <1>1
  <2>1. CASE TabStep(t)
    <3>1. ~TabAt(t, "refused") /\ tab'[t].stage = "refused" => Disappointed(t)
      BY <1>1, <2>1, RefusalHasReason
    <3>2. ASSUME Calls(t), tab'[t].stage = "page", ~TabAt(t, "refused")
          PROVE  /\ signedIn' = tab[t].account /\ signedIn' \in Hosted \cap Members
                 /\ tab'[t].path = tab[t].path
      <4>1. Land(t)
        BY <1>1, <2>1, <3>2, OnlyLandingEndsCalls
      <4>2. tab'[t].path = Destination(t)
        BY <1>1, <4>1 DEF Land, OnPage, SignInIsSound, SignInTypeOK
      <4> QED
        BY <1>1, <4>1, <4>2, WhereItLands
    <3> QED
      BY <3>1, <3>2
  <2>2. CASE ~TabStep(t)
    <3>1. tab'[t] = tab[t]
      <4>1. CASE \E u \in Tabs : TabStep(u)
        <5>1. PICK u \in Tabs : TabStep(u)
          BY <4>1
        <5>2. u # t
          BY <2>2, <5>1
        <5>3. PICK w : tab' = [tab EXCEPT ![u] = w]
          BY <5>1 DEF TabStep, LoseSession, Reload, BeginSignIn, Approve, Return, Exchange, FindKeys, KeepKeys,
             Verify, Resolve, Land, Deny, Go
        <5> QED
          BY <1>1, <5>2, <5>3 DEF SignInIsSound, SignInTypeOK
      <4>2. CASE Rotate \/ Deploy \/ EndSession \/ TickClock
        BY <4>2 DEF Rotate, Deploy, EndSession, TickClock
      <4> QED
        BY <4>1, <4>2 DEF SignInNext
    <3> QED
      BY <3>1 DEF TabAt, Calls
  <2> QED
    BY <2>1, <2>2
<1> QED
  BY <1>1, SignInInvariant, PTL DEF SignInSpec, SignInPromise
=============================================================================
