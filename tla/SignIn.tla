------------------------------- MODULE SignIn -------------------------------
(***************************************************************************)
(* The sign-in with Google of the tabs of one browser (src/apps/api/src/   *)
(* auth, GoogleOidcService and AuthController).                            *)
(*                                                                         *)
(* What a sign-in must remember, its state, nonce and verifier, the page   *)
(* to return to and its end, stands in a signed cookie, of which the       *)
(* browser has one for all its tabs.  Every answer to a callback takes the *)
(* cookie away, whosever it is by then.  Google's code is only good for    *)
(* the verifier it was asked with, and its token names the nonce: both are *)
(* here the attempt itself.                                                *)
(***************************************************************************)
EXTENDS Naturals

CONSTANTS
    Tabs,
    Paths,        \* where a tab may want to go
    ReturnPaths,  \* RETURN_PATHS
    Home,         \* the path "/"
    Accounts,     \* Google accounts
    Hosted,       \* those of GOOGLE_ALLOWED_DOMAINS
    Members,      \* those of active members
    MaxAttempts,  \* bound: sign-ins begun
    TicketLife,   \* OAUTH_TTL_MS, in ticks
    KeysLife,     \* the hour that the keys of Google are kept
    MaxClock,     \* bound: the clock
    MaxSecret,    \* bound: changes of SESSION_SECRETS
    MaxKey,       \* bound: changes of Google's key
    Nothing

VARIABLES
    clock,
    secret,   \* the first of SESSION_SECRETS; the one before it is still listed
    google,   \* the key Google signs with, and since when
    cache,    \* jwksCache
    attempt,  \* what the cookie of each sign-in says
    ticket,   \* the OAuth cookie of the browser
    signedIn, \* whose session the browser has
    tab       \* where each tab is

signInVars == <<clock, secret, google, cache, attempt, ticket, signedIn, tab>>

Attempts == 1 .. MaxAttempts

Times == 0 .. MaxClock + TicketLife + KeysLife

ASSUME SignInBounds ==
    /\ {MaxClock, MaxSecret, MaxKey, MaxAttempts, TicketLife} \subseteq Nat
    /\ KeysLife \in Nat \ {0}

\* disturbed, of the history alone: another tab began, or had a callback answered,
\* while this sign-in was at Google.
Attempt == [path : Paths \cup {Home}, until : Times, secret : 0 .. MaxSecret, disturbed : BOOLEAN]

Keys == [known : SUBSET (0 .. MaxKey), until : Times]

TabStages == {"page", "login", "google", "approved", "returned", "exchanged", "asking", "checking",
           "verified", "resolved", "refused"}

\* path: where the tab is, or wants to go; sent: the sign-in whose cookie came with
\* the callback; denied: the user, or Google, has said no.
Tab == [stage : TabStages, path : Paths \cup {Home},
        attempt : Attempts \cup {Nothing}, sent : Attempts \cup {Nothing},
        account : Accounts \cup {Nothing}, key : 0 .. MaxKey, found : SUBSET (0 .. MaxKey), denied : BOOLEAN]

ASSUME NothingIsNone == Nothing \notin Attempts /\ Nothing \notin Accounts /\ Nothing \notin Attempt

SignInTypeOK ==
    /\ clock \in 0 .. MaxClock
    /\ secret \in 0 .. MaxSecret
    /\ google \in [key : 0 .. MaxKey, since : Times]
    /\ cache \in Keys
    /\ attempt \in [Attempts -> Attempt \cup {Nothing}]
    /\ ticket \in Attempts \cup {Nothing}
    /\ signedIn \in Accounts \cup {Nothing}
    /\ tab \in [Tabs -> Tab]

OnPage(path) ==
    [stage |-> "page", path |-> path, attempt |-> Nothing, sent |-> Nothing, account |-> Nothing,
     key |-> 0, found |-> {}, denied |-> FALSE]

OnLogin(path) == [OnPage(path) EXCEPT !.stage = "login"]

SignInInit ==
    /\ clock = 0 /\ secret = 0 /\ google = [key |-> 0, since |-> 0]
    /\ cache = [known |-> {}, until |-> 0]
    /\ attempt = [k \in Attempts |-> Nothing]
    /\ ticket = Nothing /\ signedIn = Nothing
    /\ tab \in [Tabs -> {OnPage(p) : p \in Paths}]

TabAt(t, stage) == tab[t].stage = stage

Go(t, stage) == tab' = [tab EXCEPT ![t].stage = stage]

server == <<secret, cache>>
world == <<clock, google>>

\* The tab waits for the answer to its callback.
Calls(t) == tab[t].stage \notin {"page", "login", "google", "approved"}

Disturbed(t) ==
    [k \in Attempts |->
        IF \E u \in Tabs \ {t} : tab[u].attempt = k /\ tab[u].stage \in {"google", "approved"}
        THEN [attempt[k] EXCEPT !.disturbed = TRUE]
        ELSE attempt[k]]

-----------------------------------------------------------------------------
(* The login page.                                                         *)

\* safeReturnTo: no page but those of the list.
SafeReturnTo(path) == IF path \in ReturnPaths THEN path ELSE Home

\* What GET login answers.
Login(path) == IF signedIn # Nothing THEN OnPage(SafeReturnTo(path)) ELSE OnLogin(SafeReturnTo(path))

\* A page, or a call of its, finds that the session is over: AuthExceptionFilter
\* and the API client go to the login page.
LoseSession(t) ==
    /\ TabAt(t, "page")
    /\ signedIn = Nothing
    /\ tab' = [tab EXCEPT ![t] = Login(tab[t].path)]
    /\ UNCHANGED <<world, server, attempt, ticket, signedIn>>

\* The page is opened anew: another tab may have signed in.
Reload(t) ==
    /\ TabAt(t, "login")
    /\ signedIn # Nothing
    /\ tab' = [tab EXCEPT ![t] = Login(tab[t].path)]
    /\ UNCHANGED <<world, server, attempt, ticket, signedIn>>

\* begin: the cookie of the browser is now that of this sign-in.
BeginSignIn(t) ==
    /\ TabAt(t, "login")
    /\ \E k \in Attempts :
        /\ attempt[k] = Nothing
        /\ \A j \in Attempts : j < k => attempt[j] # Nothing
        /\ attempt' = [Disturbed(t) EXCEPT ![k] =
              [path |-> SafeReturnTo(tab[t].path), until |-> clock + TicketLife, secret |-> secret,
               disturbed |-> \E u \in Tabs : Calls(u)]]
        /\ ticket' = k
        /\ tab' = [tab EXCEPT ![t].stage = "google", ![t].attempt = k]
    /\ UNCHANGED <<world, server, signedIn>>

-----------------------------------------------------------------------------
(* Google.                                                                 *)

\* The user chooses an account, or declines.
Approve(t) ==
    /\ TabAt(t, "google")
    /\ \E a \in Accounts, denied \in BOOLEAN :
        tab' = [tab EXCEPT ![t].stage = "approved", ![t].denied = denied,
                           ![t].account = IF denied THEN Nothing ELSE a]
    /\ UNCHANGED <<world, server, attempt, ticket, signedIn>>

\* Google begins to sign with another key.
Rotate ==
    /\ google.key < MaxKey
    /\ google' = [key |-> google.key + 1, since |-> clock]
    /\ UNCHANGED <<clock, server, attempt, ticket, signedIn, tab>>

Published == {k \in 0 .. MaxKey : k = google.key \/ k + 1 = google.key}

-----------------------------------------------------------------------------
(* The callback.                                                           *)

\* Mutant: only the first secret is tried.
VerifiedByFirst(k) == attempt[k].secret = secret

\* verifySignedJson: any secret of the list will do.
Verified(k) == attempt[k].secret = secret \/ attempt[k].secret + 1 = secret

\* Where complete goes on: the state is that of the cookie, which is not too old.
Accepts(t, k) ==
    /\ ~tab[t].denied
    /\ k # Nothing
    /\ Verified(k)
    /\ clock < attempt[k].until
    /\ k = tab[t].attempt

\* The callback comes with the cookie the browser has by now.
Return(t) ==
    /\ TabAt(t, "approved")
    /\ tab' = [tab EXCEPT ![t].sent = ticket,
                          ![t].stage = IF Accepts(t, ticket) THEN "returned" ELSE "refused"]
    /\ attempt' = Disturbed(t)
    /\ UNCHANGED <<world, server, ticket, signedIn>>

\* exchangeCode: a code is good for the verifier it was asked with.
Exchange(t) ==
    /\ TabAt(t, "returned")
    /\ \/ /\ tab[t].sent = tab[t].attempt
          /\ tab' = [tab EXCEPT ![t].stage = "exchanged", ![t].key = google.key]
       \/ tab' = [tab EXCEPT ![t].stage = "refused", ![t].denied = TRUE]
    /\ UNCHANGED <<world, server, attempt, ticket, signedIn>>

\* Mutant: the keys are kept for good.
FreshForGood(c) == c.known # {}

Fresh(c) == clock < c.until

\* getJwks: the keys that are kept, or those Google publishes.
FindKeys(t) ==
    /\ TabAt(t, "exchanged")
    /\ \/ /\ Fresh(cache)
          /\ tab' = [tab EXCEPT ![t].stage = "checking", ![t].found = cache.known]
       \/ /\ ~Fresh(cache)
          /\ tab' = [tab EXCEPT ![t].stage = "asking", ![t].found = Published]
       \/ /\ ~Fresh(cache)
          /\ tab' = [tab EXCEPT ![t].stage = "refused", ![t].denied = TRUE]
    /\ UNCHANGED <<world, server, attempt, ticket, signedIn>>

\* Their answer is there.
KeepKeys(t) ==
    /\ TabAt(t, "asking")
    /\ cache' = [known |-> tab[t].found, until |-> clock + KeysLife]
    /\ Go(t, "checking")
    /\ UNCHANGED <<world, secret, attempt, ticket, signedIn>>

\* verifyIdToken: a key that is not found is not asked for again.
Verify(t) ==
    /\ TabAt(t, "checking")
    /\ Go(t, IF tab[t].key \in tab[t].found /\ tab[t].account \in Hosted THEN "verified" ELSE "refused")
    /\ UNCHANGED <<world, server, attempt, ticket, signedIn>>

\* resolveGoogleUser, findLoginIdentityByEmail, issueSession (UserSessions).
Resolve(t) ==
    /\ TabAt(t, "verified")
    /\ Go(t, IF tab[t].account \in Members THEN "resolved" ELSE "refused")
    /\ UNCHANGED <<world, server, attempt, ticket, signedIn>>

\* The page to return to is that of the cookie.
Destination(t) == SafeReturnTo(attempt[tab[t].sent].path)

\* The answer: the session, and the cookie gone.
Land(t) ==
    /\ TabAt(t, "resolved")
    /\ signedIn' = tab[t].account
    /\ ticket' = Nothing
    /\ tab' = [tab EXCEPT ![t] = OnPage(Destination(t))]
    /\ UNCHANGED <<world, server, attempt>>

\* The answer to a sign-in that failed is the login page without its destination;
\* the cookie is gone, too.
Deny(t) ==
    /\ TabAt(t, "refused")
    /\ ticket' = Nothing
    /\ tab' = [tab EXCEPT ![t] = Login(Home)]
    /\ UNCHANGED <<world, server, attempt, signedIn>>

-----------------------------------------------------------------------------
(* The server, and time.                                                   *)

\* The server is deployed with a new secret before the others.
Deploy ==
    /\ secret < MaxSecret
    /\ \A t \in Tabs : ~Calls(t)
    /\ secret' = secret + 1
    /\ cache' = [known |-> {}, until |-> 0]
    /\ UNCHANGED <<world, attempt, ticket, signedIn, tab>>

EndSession ==
    /\ signedIn # Nothing
    /\ signedIn' = Nothing
    /\ UNCHANGED <<world, server, attempt, ticket, tab>>

\* A tick is long against a call.  The browser lets its cookie go when it is too old.
TickClock ==
    /\ clock < MaxClock
    /\ \A t \in Tabs : ~Calls(t)
    /\ clock' = clock + 1
    /\ ticket' = IF ticket # Nothing /\ attempt[ticket].until <= clock' THEN Nothing ELSE ticket
    /\ UNCHANGED <<google, server, attempt, signedIn, tab>>

-----------------------------------------------------------------------------
TabStep(t) ==
    \/ LoseSession(t) \/ Reload(t) \/ BeginSignIn(t) \/ Approve(t) \/ Return(t) \/ Exchange(t)
    \/ FindKeys(t) \/ KeepKeys(t) \/ Verify(t) \/ Resolve(t) \/ Land(t) \/ Deny(t)

SignInNext ==
    \/ \E t \in Tabs : TabStep(t)
    \/ Rotate \/ Deploy \/ EndSession \/ TickClock

SignInSpec == SignInInit /\ [][SignInNext]_signInVars

-----------------------------------------------------------------------------
(* Properties.                                                             *)

Disappointed(t) ==
    LET a == attempt[tab[t].attempt] IN
    \/ tab'[t].denied
    \/ a.disturbed
    \/ clock >= a.until
    \/ secret > a.secret + 1
    \/ tab[t].account \notin Hosted \cap Members
    \/ google.key > 0 /\ clock < google.since + KeysLife

\* A sign-in comes through: it is refused only when the user or Google said no, when
\* another tab of the browser signed in meanwhile, when it took longer than its
\* cookie lives, when the secrets were changed twice, when the account is none of an
\* active member, or when Google changed its key less than an hour ago.  And the
\* session a browser gets is that of the account chosen in the tab that gets it,
\* which returns to the page it came from (google-oidc.service.ts:73-95, 136-145).
SignInPromise ==
    [][\A t \in Tabs :
        /\ ~TabAt(t, "refused") /\ tab'[t].stage = "refused" => Disappointed(t)
        /\ Calls(t) /\ tab'[t].stage = "page" /\ ~TabAt(t, "refused") =>
              /\ signedIn' = tab[t].account /\ signedIn' \in Hosted \cap Members
              /\ tab'[t].path = tab[t].path]_signInVars

\* Any tab that comes back in time signs in.  Not so: the browser has one OAuth
\* cookie, which a second tab overwrites and every answer clears.
EveryTabSignsIn == \A t \in Tabs : tab[t].stage = "approved" => ticket = tab[t].attempt

\* Who has to sign in again comes to the login page for the page he was on.  Not so
\* on the page of operations, which RETURN_PATHS lacks.
LoginIsForThePage ==
    [][\A t \in Tabs : TabAt(t, "page") /\ tab'[t].stage = "login" => tab'[t].path = tab[t].path]_signInVars
=============================================================================
