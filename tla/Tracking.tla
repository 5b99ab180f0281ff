------------------------------ MODULE Tracking ------------------------------
(***************************************************************************)
(* The tracked links of a mail and who followed them                       *)
(* (src/apps/api/src/tracking).                                            *)
(*                                                                         *)
(* A recipient is known by the fingerprint of his address and browser.     *)
(* Following a link, and loading the picture that tells that the mail was  *)
(* opened, is counted once in a while: the request looks for an earlier    *)
(* one and then, in further statements and no transaction, writes its own. *)
(* Requests run beside each other and may die between two statements.      *)
(***************************************************************************)
EXTENDS Naturals, Sequences, FiniteSets, FiniteSetsExt

CONSTANTS
    Requests,    \* requests under way
    Readers,     \* fingerprints
    Urls,        \* addresses of the material
    Labels,      \* labels of links, of which one is that of the material
    Material,    \* COMPANY_MATERIAL_LINK_LABEL
    ClickWindow, \* CLICK_DEDUPLICATION_MS, in ticks
    OpenWindow,  \* OPEN_DEDUPLICATION_MS
    MaxTime,     \* bound: the clock
    MaxRows,     \* bound: links, clicks and openings in all
    Nothing

VARIABLES
    hour,     \* the clock
    links,    \* TrackedLink, in the order of their creation
    clicks,   \* LinkClick, in the order of clickedAt
    opens,    \* EmailEvent "opened"
    events,   \* EmailEvent "clicked": the link, and the count it tells
    request   \* what each request does

vars == <<hour, links, clicks, opens, events, request>>

Link == [url : Urls, label : Labels]

Click == [link : 1 .. MaxRows, reader : Readers, at : 0 .. MaxTime]

Opening == [reader : Readers, at : 0 .. MaxTime]

Event == [link : 1 .. MaxRows, count : 0 .. MaxRows]

\* link: that is to be created, or is followed; count: what count told.
Request == [stage : {"idle", "creating", "clicking", "counting", "telling", "opening"},
            url : Urls \cup {Nothing}, label : Labels \cup {Nothing},
            link : 0 .. MaxRows, reader : Readers \cup {Nothing}, count : 0 .. MaxRows]

TypeOK ==
    /\ hour \in 0 .. MaxTime
    /\ links \in Seq(Link)
    /\ clicks \in Seq(Click)
    /\ opens \in Seq(Opening)
    /\ events \in Seq(Event)
    /\ request \in [Requests -> Request]

NoRequest == [stage |-> "idle", url |-> Nothing, label |-> Nothing, link |-> 0, reader |-> Nothing, count |-> 0]

Init ==
    /\ hour = 0
    /\ links = <<>> /\ clicks = <<>> /\ opens = <<>> /\ events = <<>>
    /\ request = [r \in Requests |-> NoRequest]

At(r, stage) == request[r].stage = stage

Room == Len(links) + Len(clicks) + Len(opens) < MaxRows

Begin(r, with) == At(r, "idle") /\ request' = [request EXCEPT ![r] = with]

End(r) == request' = [request EXCEPT ![r] = NoRequest]

-----------------------------------------------------------------------------
(* createTrackedLink: the link there is, or a new one.                     *)

Existing(url, label) == {k \in DOMAIN links : links[k].url = url /\ links[k].label = label}

CreateTrackedLink(r, url, label) ==
    /\ Existing(url, label) = {}
    /\ Begin(r, [NoRequest EXCEPT !.stage = "creating", !.url = url, !.label = label])
    /\ UNCHANGED <<hour, links, clicks, opens, events>>

InsertLink(r) ==
    /\ At(r, "creating") /\ Room
    /\ links' = Append(links, [url |-> request[r].url, label |-> request[r].label])
    /\ End(r)
    /\ UNCHANGED <<hour, clicks, opens, events>>

-----------------------------------------------------------------------------
(* resolveClick and trackOpen.  Those of a robot, by its name, write       *)
(* nothing.                                                                *)

\* Mutant: a click as old as the window is forgotten.
CountedLately(k, reader) ==
    \E i \in DOMAIN clicks :
        clicks[i].link = k /\ clicks[i].reader = reader /\ clicks[i].at + ClickWindow > hour

\* The reader's click is counted already.
Counted(k, reader) ==
    \E i \in DOMAIN clicks :
        clicks[i].link = k /\ clicks[i].reader = reader /\ clicks[i].at + ClickWindow >= hour

ResolveClick(r, k, reader) ==
    /\ k \in DOMAIN links
    /\ ~Counted(k, reader)
    /\ Begin(r, [NoRequest EXCEPT !.stage = "clicking", !.link = k, !.reader = reader])
    /\ UNCHANGED <<hour, links, clicks, opens, events>>

InsertClick(r) ==
    /\ At(r, "clicking") /\ Room
    /\ clicks' = Append(clicks, [link |-> request[r].link, reader |-> request[r].reader, at |-> hour])
    /\ request' = [request EXCEPT ![r].stage = "counting"]
    /\ UNCHANGED <<hour, links, opens, events>>

ClicksOf(k) == {i \in DOMAIN clicks : clicks[i].link = k}

CountClicks(r) ==
    /\ At(r, "counting")
    /\ request' = [request EXCEPT ![r].stage = "telling",
                                  ![r].count = Cardinality(ClicksOf(request[r].link))]
    /\ UNCHANGED <<hour, links, clicks, opens, events>>

InsertEvent(r) ==
    /\ At(r, "telling")
    /\ events' = Append(events, [link |-> request[r].link, count |-> request[r].count])
    /\ End(r)
    /\ UNCHANGED <<hour, links, clicks, opens>>

Opened(reader) == \E i \in DOMAIN opens : opens[i].reader = reader /\ opens[i].at + OpenWindow >= hour

TrackOpen(r, reader) ==
    /\ ~Opened(reader)
    /\ Begin(r, [NoRequest EXCEPT !.stage = "opening", !.reader = reader])
    /\ UNCHANGED <<hour, links, clicks, opens, events>>

InsertOpen(r) ==
    /\ At(r, "opening") /\ Room
    /\ opens' = Append(opens, [reader |-> request[r].reader, at |-> hour])
    /\ End(r)
    /\ UNCHANGED <<hour, links, clicks, events>>

\* The request dies: what it has written stays.
Die(r) ==
    /\ ~At(r, "idle")
    /\ End(r)
    /\ UNCHANGED <<hour, links, clicks, opens, events>>

\* A tick is long against a request.
Tick ==
    /\ hour < MaxTime
    /\ \A r \in Requests : At(r, "idle")
    /\ hour' = hour + 1
    /\ UNCHANGED <<links, clicks, opens, events, request>>

-----------------------------------------------------------------------------
Next ==
    \/ \E r \in Requests :
        \/ \E url \in Urls, label \in Labels : CreateTrackedLink(r, url, label)
        \/ InsertLink(r)
        \/ \E k \in DOMAIN links, reader \in Readers : ResolveClick(r, k, reader)
        \/ InsertClick(r) \/ CountClicks(r) \/ InsertEvent(r)
        \/ \E reader \in Readers : TrackOpen(r, reader)
        \/ InsertOpen(r) \/ Die(r)
    \/ Tick

Spec == Init /\ [][Next]_vars

-----------------------------------------------------------------------------
(* getMailEngagement.                                                      *)

MaterialLinks == {k \in DOMAIN links : links[k].label = Material}

MaterialClicks == UNION {ClicksOf(k) : k \in MaterialLinks}

\* materialEngagementForClickCount.
Angle(count) == IF count >= 3 THEN "hot" ELSE IF count >= 1 THEN "interested" ELSE "none"

\* Of the first link that was followed the last click.
LastMaterialClickAt ==
    LET followed == {k \in MaterialLinks : ClicksOf(k) # {}}
    IN  IF followed = {} THEN Nothing ELSE clicks[Max(ClicksOf(Min(followed)))].at

-----------------------------------------------------------------------------
(* Properties.                                                             *)

\* A reader counts once for each link and while: two clicks of his that are nearer
\* than the window were under way at once, and so are two openings, which can be no
\* more than there are requests.
CountedOnce ==
    /\ \A i, j \in DOMAIN clicks :
        (i < j /\ clicks[i].link = clicks[j].link /\ clicks[i].reader = clicks[j].reader) =>
            clicks[j].at = clicks[i].at \/ clicks[j].at > clicks[i].at + ClickWindow
    /\ \A i, j \in DOMAIN opens :
        (i < j /\ opens[i].reader = opens[j].reader) =>
            opens[j].at = opens[i].at \/ opens[j].at > opens[i].at + OpenWindow

\* A link has no more events than clicks, in whatever order its requests write them
\* and wherever they die, and no event tells of clicks that are not there.
EventsAreOfClicks ==
    \A k \in DOMAIN links :
        LET told == {i \in DOMAIN events : events[i].link = k} IN
        /\ Cardinality(told) <= Cardinality(ClicksOf(k))
        /\ \A i \in told : events[i].count \in 1 .. Cardinality(ClicksOf(k))

\* One link per address and label.  Not so: two requests look for it before either
\* creates it (tracking.service.ts:33).
OneLinkPerAddress == \A j, k \in DOMAIN links : links[j] = links[k] => j = k

\* Two clicks of one reader within the window are one.  Not so: two requests at once.
ClicksAreDeduplicated ==
    \A i, j \in DOMAIN clicks :
        (i < j /\ clicks[i].link = clicks[j].link /\ clicks[i].reader = clicks[j].reader) =>
            clicks[j].at > clicks[i].at + ClickWindow

\* The last view shown is the last one.  Not so with two links of the material: it is
\* that of the first link (tracking.service.ts:73; analyze-lead.usecase.ts takes the
\* latest).
LastIsLatest == MaterialClicks # {} => LastMaterialClickAt = clicks[Max(MaterialClicks)].at
=============================================================================
