---------------------------- MODULE UserSessions ----------------------------
(***************************************************************************)
(* Members of one organisation, their sessions, and the browser pages that *)
(* act in their name (src/apps/api/src/auth, users).                       *)
(*                                                                         *)
(* The pages of a browser share its session cookie; each page keeps the    *)
(* CSRF token it was given when it last asked who it is.  A request reads  *)
(* its session and the role of its member, then prolongs the session, then *)
(* is let through or not, and only then runs its handler: the member may   *)
(* have changed by then.  A sign-in reads the user, then the membership,   *)
(* then creates the session.                                               *)
(***************************************************************************)
EXTENDS Naturals, FiniteSets

CONSTANTS
    Users,
    Admins,         \* those that may be admins at the start
    Pages,
    BrowserOf,      \* the browser of each page
    Sessions,       \* bound: session ids
    AbsoluteLife,   \* ABSOLUTE_SESSION_MS, in ticks
    IdleLife,       \* IDLE_SESSION_MS
    TouchAfter,     \* the five minutes of touchIfNeeded
    MaxTime,        \* bound: the clock
    Changes,        \* bound: what a member is made
    Nobody

ASSUME AdminsAreUsers == Admins \subseteq Users /\ Admins # {}
ASSUME LivesAreTimes == AbsoluteLife \in Nat /\ IdleLife \in Nat /\ TouchAfter \in Nat /\ MaxTime \in Nat

VARIABLES
    member,     \* OrganizationMembership: role and activity of each user
    session,    \* UserSession
    cookie,     \* the session cookie of each browser
    oauth,      \* whose sign-in the OAuth cookie of each browser belongs to
    page,       \* what each page shows and is waiting for
    now

vars == <<member, session, cookie, oauth, page, now>>

Browsers == {BrowserOf[p] : p \in Pages}

Roles == {"operator", "admin"}

Member == [role : Roles, active : BOOLEAN]

Session == [user : Users, revoked : BOOLEAN, lastSeen : 0..MaxTime,
            idle : Nat, absolute : Nat, used : 0..MaxTime]

Stages == {"idle", "asked", "resolved", "identified", "found", "authorized", "inside"}

Requests == {"me", "logout", "update", "revoke", "create"}

\* shows: the session whose CSRF token the page holds.
Page == [shows : Sessions \cup {Nobody}, stage : Stages, request : Requests, user : Users \cup {Nobody},
         session : Sessions \cup {Nobody}, role : Roles, target : Users \cup {Nobody}, change : Member,
         read : Member]

TypeOK ==
    /\ member \in [Users -> Member \cup {Nobody}]
    /\ session \in [Sessions -> Session \cup {Nobody}]
    /\ cookie \in [Browsers -> Sessions \cup {Nobody}]
    /\ oauth \in [Browsers -> Pages \cup {Nobody}]
    /\ page \in [Pages -> Page]
    /\ now \in 0..MaxTime

ActiveAdmin == [role |-> "admin", active |-> TRUE]

ActiveOperator == [role |-> "operator", active |-> TRUE]

\* No member and no session is Nobody, and a member is made a member.
ASSUME ChangesAreMembers == Changes \subseteq Member
ASSUME NobodyIsNone == Nobody \notin Member /\ Nobody \notin Session

\* A page that waits for nothing: what it remembers of its last request is
\* forgotten.
Waiting(shows) ==
    [shows |-> shows, stage |-> "idle", request |-> "me", user |-> Nobody,
     session |-> Nobody, role |-> "operator", target |-> Nobody,
     change |-> ActiveAdmin, read |-> ActiveAdmin]

Init ==
    /\ \E registered \in (SUBSET Admins) \ {{}} :
        member = [u \in Users |-> IF u \in registered THEN ActiveAdmin ELSE Nobody]
    /\ session = [s \in Sessions |-> Nobody]
    /\ cookie = [b \in Browsers |-> Nobody]
    /\ oauth = [b \in Browsers |-> Nobody]
    /\ page = [p \in Pages |-> Waiting(Nobody)]
    /\ now = 0

IsActive(u) == member[u] # Nobody /\ member[u].active

IsAdmin(u) == IsActive(u) /\ member[u].role = "admin"

At(p, stage) == page[p].stage = stage

Rest(p) == page' = [page EXCEPT ![p] = Waiting(@.shows)]

Earlier(t, u) == IF t < u THEN t ELSE u

-----------------------------------------------------------------------------
(* Sessions.                                                               *)

\* findActiveByTokenHashes.
Usable(s) ==
    /\ session[s] # Nobody /\ ~session[s].revoked
    /\ now < session[s].absolute
    /\ now < session[s].idle

Revoked(sessions) ==
    [s \in Sessions |-> IF s \in sessions THEN [session[s] EXCEPT !.revoked = TRUE] ELSE session[s]]

SessionsOf(u) == {s \in Sessions : session[s] # Nobody /\ session[s].user = u}

\* Mutant: the idle end stays where it was.
TouchedOnlySeen(s) ==
    IF session[s].lastSeen + TouchAfter <= now /\ ~session[s].revoked /\ now < session[s].absolute
    THEN [session EXCEPT ![s].lastSeen = now]
    ELSE session

\* touchIfNeeded: not more often than every five minutes.
Touched(s) ==
    IF session[s].lastSeen + TouchAfter <= now /\ ~session[s].revoked /\ now < session[s].absolute
    THEN [session EXCEPT ![s].lastSeen = now,
                         ![s].idle = Earlier(session[s].absolute, now + IdleLife)]
    ELSE session

-----------------------------------------------------------------------------
(* Sign-in.                                                                *)

\* googleStart: the OAuth cookie of the browser now belongs to this page.
Begin(p, u) ==
    /\ At(p, "idle")
    /\ oauth' = [oauth EXCEPT ![BrowserOf[p]] = p]
    /\ page' = [page EXCEPT ![p] = [Waiting(Nobody) EXCEPT !.stage = "asked", !.user = u]]
    /\ UNCHANGED <<member, session, cookie, now>>

\* googleCallback: the state must be that of the cookie, which is gone afterwards
\* either way; the user is known and active (resolveGoogleUser).
Callback(p) ==
    /\ At(p, "asked")
    /\ oauth' = [oauth EXCEPT ![BrowserOf[p]] = Nobody]
    /\ IF oauth[BrowserOf[p]] = p /\ member[page[p].user] # Nobody
       THEN page' = [page EXCEPT ![p].stage = "resolved"]
       ELSE Rest(p)
    /\ UNCHANGED <<member, session, cookie, now>>

\* localLogin: the development user, without Google.
LocalLogin(p, u) ==
    /\ At(p, "idle")
    /\ member[u] # Nobody
    /\ page' = [page EXCEPT ![p] = [Waiting(Nobody) EXCEPT !.stage = "resolved", !.user = u]]
    /\ UNCHANGED <<member, session, cookie, oauth, now>>

\* findLoginIdentityByEmail.
Identify(p) ==
    /\ At(p, "resolved")
    /\ IF IsActive(page[p].user)
       THEN page' = [page EXCEPT ![p].stage = "identified"]
       ELSE Rest(p)
    /\ UNCHANGED <<member, session, cookie, oauth, now>>

\* issueSession: the member may have changed since.
Issue(p) ==
    /\ At(p, "identified")
    /\ \E s \in Sessions :
        /\ session[s] = Nobody
        /\ session' = [session EXCEPT ![s] =
              [user |-> page[p].user, revoked |-> FALSE, lastSeen |-> now, used |-> now,
               idle |-> now + IdleLife, absolute |-> now + AbsoluteLife]]
        /\ cookie' = [cookie EXCEPT ![BrowserOf[p]] = s]
    /\ Rest(p)
    /\ UNCHANGED <<member, oauth, now>>

-----------------------------------------------------------------------------
(* Requests.                                                               *)

\* AuthService.authenticate.  A session of a member who is no longer active takes
\* all sessions of that member with it.
Send(p, request, target, change) ==
    LET s == cookie[BrowserOf[p]] IN
    /\ At(p, "idle") /\ s # Nobody
    /\ request # "me" => page[p].shows # Nobody
    /\ IF ~Usable(s)
       THEN /\ page' = [page EXCEPT ![p] = Waiting(Nobody)]
            /\ UNCHANGED session
       ELSE IF ~IsActive(session[s].user)
       THEN /\ session' = Revoked(SessionsOf(session[s].user))
            /\ page' = [page EXCEPT ![p] = Waiting(Nobody)]
       ELSE /\ session' = [session EXCEPT ![s].used = now]
            /\ page' = [page EXCEPT ![p] =
                  [Waiting(@.shows) EXCEPT !.stage = "found", !.request = request, !.session = s,
                                           !.user = session[s].user,
                                           !.role = member[session[s].user].role,
                                           !.target = target, !.change = change]]
    /\ UNCHANGED <<member, cookie, oauth, now>>

\* Mutant: the CSRF token is not compared.
LetThroughWithoutToken(r) == r.request \in {"update", "revoke", "create"} => r.role = "admin"

\* AuthSecurityGuard and RbacGuard: a write carries the token of its session;
\* users are managed by admins.
LetThrough(r) ==
    /\ r.request # "me" => r.shows = r.session
    /\ r.request \in {"update", "revoke", "create"} => r.role = "admin"

Authorize(p) ==
    /\ At(p, "found")
    /\ session' = Touched(page[p].session)
    /\ IF LetThrough(page[p]) THEN page' = [page EXCEPT ![p].stage = "authorized"] ELSE Rest(p)
    /\ UNCHANGED <<member, cookie, oauth, now>>

Serving(p, request) == At(p, "authorized") /\ page[p].request = request

\* GET auth/me: the page is given the CSRF token of its session.
Me(p) ==
    /\ Serving(p, "me")
    /\ page' = [page EXCEPT ![p] = Waiting(page[p].session)]
    /\ UNCHANGED <<member, session, cookie, oauth, now>>

Logout(p) ==
    /\ Serving(p, "logout")
    /\ session' = Revoked({page[p].session})
    /\ cookie' = [cookie EXCEPT ![BrowserOf[p]] = Nobody]
    /\ page' = [page EXCEPT ![p] = Waiting(Nobody)]
    /\ UNCHANGED <<member, oauth, now>>

\* UsersService.create.
Create(p) ==
    /\ Serving(p, "create")
    /\ member' = IF member[page[p].target] = Nobody
                 THEN [member EXCEPT ![page[p].target] = page[p].change] ELSE member
    /\ Rest(p)
    /\ UNCHANGED <<session, cookie, oauth, now>>

\* UsersService.revokeSessions.
Revoke(p) ==
    /\ Serving(p, "revoke")
    /\ session' = IF member[page[p].target] # Nobody THEN Revoked(SessionsOf(page[p].target)) ELSE session
    /\ Rest(p)
    /\ UNCHANGED <<member, cookie, oauth, now>>

-----------------------------------------------------------------------------
(* UsersService.update.                                                    *)

OtherAdmins(u) == {k \in Users \ {u} : IsAdmin(k)}

Demotes(r) == IsAdmin(r.target) /\ r.change # ActiveAdmin

\* Mutant: nobody waits for the lock.
LockIsAlwaysFree(p) == TRUE

\* rbac:active-admin.
LockIsFree(p) == \A k \in Pages \ {p} : ~At(k, "inside")

\* Under the lock: nobody demotes himself, nor the last active admin.
Allowed(r) ==
    /\ member[r.target] # Nobody
    /\ r.target = r.user => r.change = ActiveAdmin
    /\ Demotes(r) => OtherAdmins(r.target) # {}

Enter(p) ==
    /\ Serving(p, "update")
    /\ LockIsFree(p)
    /\ IF Allowed(page[p])
       THEN page' = [page EXCEPT ![p].stage = "inside", ![p].read = member[page[p].target]]
       ELSE Rest(p)
    /\ UNCHANGED <<member, session, cookie, oauth, now>>

\* Mutant: a change of role leaves the sessions alone.
RevokesForActivity(r) == r.read.active # r.change.active

\* securityChanged.
Revokes(r) == r.read # r.change

Update(p) ==
    /\ At(p, "inside")
    /\ member' = [member EXCEPT ![page[p].target] = page[p].change]
    /\ session' = IF Revokes(page[p]) THEN Revoked(SessionsOf(page[p].target)) ELSE session
    /\ Rest(p)
    /\ UNCHANGED <<cookie, oauth, now>>

\* bootstrapAdmin: a user nobody registered yet becomes an admin.
Bootstrap(u) ==
    /\ member[u] = Nobody
    /\ member' = [member EXCEPT ![u] = ActiveAdmin]
    /\ UNCHANGED <<session, cookie, oauth, page, now>>

\* A tick is long against a request.
Tick ==
    /\ now < MaxTime
    /\ \A p \in Pages : page[p].stage \in {"idle", "asked"}
    /\ now' = now + 1
    /\ UNCHANGED <<member, session, cookie, oauth, page>>

-----------------------------------------------------------------------------
Step(p) ==
    \/ \E u \in Users : Begin(p, u)
    \/ Callback(p)
    \/ \E u \in Users : LocalLogin(p, u)
    \/ Identify(p)
    \/ Issue(p)
    \/ \E request \in {"me", "logout"} : Send(p, request, Nobody, ActiveAdmin)
    \/ \E u \in Users : Send(p, "revoke", u, ActiveAdmin)
    \/ \E u \in Users, change \in Changes : Send(p, "create", u, change)
    \/ \E u \in Users, change \in Changes : Send(p, "update", u, change)
    \/ Authorize(p)
    \/ Me(p)
    \/ Logout(p)
    \/ Create(p)
    \/ Revoke(p)
    \/ Enter(p)
    \/ Update(p)

Next ==
    \/ \E p \in Pages : Step(p)
    \/ \E u \in Users : Bootstrap(u)
    \/ Tick

Spec == Init /\ [][Next]_vars

-----------------------------------------------------------------------------
(* Properties.                                                             *)

\* The organisation is never left without an active admin, however many admins
\* demote and deactivate one another at once, each with a session of the time when
\* he was one (users.service.ts:108-131).
AdminRemains == \E u \in Users : IsAdmin(u)

\* A page that shows one user never writes in the name of another who has signed in
\* in the same browser since: the token it holds is that of its session
\* (auth-security.guard.ts:34-38).
PageWritesAsShown ==
    \A p \in Pages :
        page[p].stage \in {"authorized", "inside"} /\ page[p].request # "me" =>
            /\ page[p].shows # Nobody
            /\ session[page[p].shows].user = page[p].user

\* A session that is not revoked ends when nobody used it for its idle life or when
\* its absolute life is over; and it does not end before, as long as somebody uses
\* it: prolonging it only every five minutes costs at most those five minutes
\* (auth-session.repository.ts:35).
SessionLife ==
    \A s \in Sessions : session[s] # Nobody /\ ~session[s].revoked =>
        /\ Usable(s) => now < session[s].used + IdleLife /\ now < session[s].absolute
        /\ (/\ now < session[s].absolute
            /\ now + TouchAfter < session[s].used + IdleLife
            /\ \A p \in Pages : page[p].session # s)
           => Usable(s)

\* When a member's role or activity changes, none of the sessions he has stays
\* usable, whatever request of his is between its authentication and the prolonging
\* of its session (users.service.ts:143); only a sign-in that read him before may
\* still create one.
ChangeEndsSessions ==
    [][\A s \in Sessions : session[s] # Nobody /\ ~session'[s].revoked =>
          member'[session[s].user] = member[session[s].user]]_vars

\* Sessions end when they must, and not before: for want of use, by their age, and
\* with the role they were given to.
SessionsEnd == []SessionLife /\ ChangeEndsSessions
=============================================================================
