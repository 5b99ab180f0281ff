------------------------------ MODULE Reports ------------------------------
(***************************************************************************)
(* The two reports of the dashboard: the sales performance of a period     *)
(* (src/apps/api/src/performance) and its operations                       *)
(* (src/apps/api/src/operations).                                          *)
(*                                                                         *)
(* A report is a number of queries outside of any transaction: mails, lead *)
(* stages, replies and search jobs go on changing between them.  Times are *)
(* counted in units of which a day has Day, and Tokyo is Offset units      *)
(* ahead of UTC.  The times of a sending and of a reply may be typed in by *)
(* the user, and then lie in the past.                                     *)
(***************************************************************************)
EXTENDS Integers, FiniteSets

CONSTANTS
    Leads, Mails,
    LeadOf,     \* the lead of each mail
    Jobs,       \* search jobs
    Day,        \* units of time a day has
    Offset,     \* units Tokyo is ahead of UTC, less than a day
    MaxTime,    \* bound on the clock
    MaxReplies, \* bound on the replies
    MaxMoves    \* bound on the stage moves

VARIABLES
    now,        \* the clock
    mail,       \* OutreachEmail: is its status sent, and its sentAt, which a sent event goes with
    replies,    \* EmailReply: its mail and its receivedAt
    stage,      \* Opportunity.stage of each lead
    lostAt,     \* Opportunity.lostAt of each lead
    moves,      \* OpportunityStageHistory: lead, toStage (but for "open") and createdAt
    job,        \* ProjectSearchJob: is it running, and if so is its lease alive
    audits,     \* the projects.search_finished rows: the job, and which row of it
    report      \* the report that is being made

vars == <<now, mail, replies, stage, lostAt, moves, job, audits, report>>

salesVars == <<mail, replies, stage, lostAt, moves>>

jobVars == <<job, audits>>

-----------------------------------------------------------------------------
(* Periods.                                                                *)

Never == -1

Times == 0..MaxTime

\* The calendar day in Tokyo of a time.
tokyoDateKey(t) == (t + Offset) \div Day

Days == tokyoDateKey(0)..tokyoDateKey(MaxTime)

\* The time at which a day begins in Tokyo.
tokyoDayStartUtc(day) == day * Day - Offset

\* The period of whole days from the first to the last: startUtc and endExclusiveUtc.
InPeriod(from, to, t) == tokyoDayStartUtc(from) <= t /\ t < tokyoDayStartUtc(to + 1)

-----------------------------------------------------------------------------
(* Types.                                                                  *)

\* "open" stands for the stages no report asks for.
Stages == {"open", "meeting", "won", "lost"}

SalesQueries == {"replies", "moves", "lost"}

SearchQueries == {"finished", "running", "stale"}

NoReport ==
    [kind |-> "none", from |-> 0, to |-> 0, read |-> {},
     sent |-> {}, replied |-> {}, moved |-> {}, lost |-> {},
     finished |-> {}, running |-> {}, stale |-> {},
     mails |-> {}, replies |-> {}, moves |-> {}, ended |-> {}]

Replies == [mail : Mails, at : Times]

Moves == [lead : Leads, to : Stages, at : Times]

Sendings == [mail : Mails, at : Times]

Audits == Jobs \X {1, 2}

TypeOK ==
    /\ now \in Times
    /\ mail \in [Mails -> [sent : BOOLEAN, sentAt : Times \cup {Never}]]
    /\ replies \subseteq Replies
    /\ stage \in [Leads -> Stages]
    /\ lostAt \in [Leads -> Times \cup {Never}]
    /\ moves \subseteq Moves
    /\ job \in [Jobs -> {"none", "running", "lapsed", "over"}]
    /\ audits \subseteq Audits
    /\ report \in
         [kind : {"none", "performance", "operations"}, from : Days, to : Days,
          read : SUBSET (SalesQueries \cup SearchQueries),
          sent : SUBSET Sendings, replied : SUBSET Replies, moved : SUBSET Moves,
          lost : SUBSET (Leads \X (Times \cup {Never})),
          finished : SUBSET Audits, running : SUBSET Jobs, stale : SUBSET Jobs,
          mails : SUBSET Sendings, replies : SUBSET Replies, moves : SUBSET Moves,
          ended : SUBSET Jobs]

Init ==
    /\ now = 0
    /\ mail = [m \in Mails |-> [sent |-> FALSE, sentAt |-> Never]]
    /\ replies = {}
    /\ stage = [l \in Leads |-> "open"]
    /\ lostAt = [l \in Leads |-> Never]
    /\ moves = {}
    /\ job = [j \in Jobs |-> "none"]
    /\ audits = {}
    /\ report = NoReport

-----------------------------------------------------------------------------
(* What happens while no one, or someone, reads.                           *)

Tick ==
    /\ now < MaxTime
    /\ now' = now + 1
    /\ UNCHANGED <<salesVars, jobVars, report>>

\* A mail is sent by the worker, now, or marked as sent by a user.  The question itself
\* reads the mails: what becomes of them after it has no effect, and is left out.
Send(m, at) ==
    /\ report.kind = "none"
    /\ ~mail[m].sent
    /\ at <= now
    /\ mail' = [mail EXCEPT ![m] = [sent |-> TRUE, sentAt |-> at]]
    /\ UNCHANGED <<now, replies, stage, lostAt, moves, jobVars, report>>

\* A sent mail is rejected or put up for review again: its sentAt stays.
Rework(m) ==
    /\ report.kind = "none"
    /\ mail[m].sent
    /\ mail' = [mail EXCEPT ![m].sent = FALSE]
    /\ UNCHANGED <<now, replies, stage, lostAt, moves, jobVars, report>>

MoveTo(l, to) ==
    /\ Cardinality(moves) < MaxMoves
    /\ stage' = [stage EXCEPT ![l] = to]
    /\ moves' = IF to = "open" THEN moves ELSE moves \cup {[lead |-> l, to |-> to, at |-> now]}
    /\ lostAt' = [lostAt EXCEPT ![l] = IF to = "lost" THEN now
                                       ELSE IF to = "won" \/ stage[l] \in {"won", "lost"}
                                       THEN Never ELSE @]

\* A reply to a mail; one that asks for a meeting moves the opportunity.
Reply(m, at) ==
    /\ Cardinality(replies) < MaxReplies
    /\ at <= now
    /\ replies' = replies \cup {[mail |-> m, at |-> at]}
    /\ \/ UNCHANGED <<stage, lostAt, moves>>
       \/ stage[LeadOf[m]] = "open" /\ MoveTo(LeadOf[m], "meeting")
    /\ UNCHANGED <<now, mail, jobVars, report>>

\* A user moves an opportunity on, ends it or opens it again.
MoveStage(l, to) ==
    /\ <<stage[l], to>> \in
         ({"open"} \X Stages) \cup ({"meeting"} \X {"open", "won", "lost"})
           \cup ({"won", "lost"} \X {"open", "meeting"})
    /\ MoveTo(l, to)
    /\ UNCHANGED <<now, mail, replies, jobVars, report>>

StartSearch(j) ==
    /\ job[j] = "none"
    /\ job' = [job EXCEPT ![j] = "running"]
    /\ UNCHANGED <<now, salesVars, audits, report>>

\* The server of the job stops, or stalls.
LoseLease(j) ==
    /\ job[j] = "running"
    /\ job' = [job EXCEPT ![j] = "lapsed"]
    /\ UNCHANGED <<now, salesVars, audits, report>>

EndSearch(j) ==
    /\ job[j] \in {"running", "lapsed"}
    /\ job' = [job EXCEPT ![j] = "over"]
    /\ UNCHANGED <<now, salesVars, audits, report>>

\* The end is recorded by a call of its own, and sometimes by two.
RecordSearchFinished(j, n) ==
    /\ job[j] = "over"
    /\ audits' = audits \cup {<<j, n>>}
    /\ UNCHANGED <<now, salesVars, job, report>>

-----------------------------------------------------------------------------
(* The queries.  What the tables held when a report was asked for is kept  *)
(* beside what the queries read.                                           *)

LostRows == {<<l, lostAt[l]>> : l \in {k \in Leads : stage[k] = "lost"}}

\* The mails of the period which stand as sent.
SentInPeriod(from, to) ==
    {[mail |-> m, at |-> mail[m].sentAt] :
        m \in {n \in Mails : mail[n].sent /\ InPeriod(from, to, mail[n].sentAt)}}

AskPerformance(from, to) ==
    /\ report.kind = "none"
    /\ from <= to
    /\ report' = [NoReport EXCEPT
         !.kind = "performance", !.from = from, !.to = to,
         !.sent = SentInPeriod(from, to),
         !.mails = {[mail |-> m, at |-> mail[m].sentAt] : m \in {n \in Mails : mail[n].sent}},
         !.replies = replies, !.moves = moves]
    /\ UNCHANGED <<now, salesVars, jobVars>>

MailsOf(sendings) == {s.mail : s \in sendings}

LeadsOf(sendings) == {LeadOf[s.mail] : s \in sendings}

\* The three queries about the mails and the leads of the first run side by side.
ReadSales(q) ==
    /\ report.kind = "performance"
    /\ q \notin report.read
    /\ report' = [report EXCEPT
         !.read = @ \cup {q},
         !.replied = IF q = "replies"
                     THEN {r \in replies : r.mail \in MailsOf(report.sent)} ELSE @,
         !.moved = IF q = "moves"
                   THEN {v \in moves : /\ v.to \in {"meeting", "won"}
                                       /\ v.lead \in LeadsOf(report.sent)} ELSE @,
         !.lost = IF q = "lost"
                  THEN {r \in LostRows : r[1] \in LeadsOf(report.sent)} ELSE @]
    /\ UNCHANGED <<now, salesVars, jobVars>>

AskOperations ==
    /\ report.kind = "none"
    /\ report' = [NoReport EXCEPT !.kind = "operations", !.ended = {a[1] : a \in audits}]
    /\ UNCHANGED <<now, salesVars, jobVars>>

ReadSearches(q) ==
    /\ report.kind = "operations"
    /\ q \notin report.read
    /\ report' = [report EXCEPT
         !.read = @ \cup {q},
         !.finished = IF q = "finished" THEN audits ELSE @,
         !.running = IF q = "running" THEN {j \in Jobs : job[j] = "running"} ELSE @,
         !.stale = IF q = "stale" THEN {j \in Jobs : job[j] = "lapsed"} ELSE @]
    /\ UNCHANGED <<now, salesVars, jobVars>>

-----------------------------------------------------------------------------
(* The counts of a report, as the sets they count.                         *)

\* Mutant: what happened before the first sending of the period counts.
AtAnyTime(l, at) == \E s \in report.sent : LeadOf[s.mail] = l

occurredAfterFirstSend(l, at) == \E s \in report.sent : LeadOf[s.mail] = l /\ at >= s.at

repliedLeadIds ==
    {LeadOf[r.mail] : r \in {x \in report.replied :
        \E s \in report.sent : s.mail = x.mail /\ x.at >= s.at}}

LeadsMovedTo(to) ==
    {v.lead : v \in {x \in report.moved : x.to = to /\ occurredAfterFirstSend(x.lead, x.at)}}

lostLeadIds ==
    {r[1] : r \in {x \in report.lost : x[2] # Never /\ occurredAfterFirstSend(x[1], x[2])}}

\* The rows of a search that is over, of the audit log or of a lapsed lease.
terminalSearches ==
    {<<a[1], "audit">> : a \in report.finished} \cup {<<j, "stale">> : j \in report.stale}

uniqueTerminalSearches == Cardinality({r[1] : r \in terminalSearches})

-----------------------------------------------------------------------------
\* The model ends with its first report.
Reading == report.read \notin {SalesQueries, SearchQueries}

SalesNext ==
    /\ Reading
    /\ \/ Tick
       \/ \E m \in Mails, at \in Times : Send(m, at) \/ Reply(m, at)
       \/ \E m \in Mails : Rework(m)
       \/ \E l \in Leads, to \in Stages : MoveStage(l, to)
       \/ \E from, to \in Days : AskPerformance(from, to)
       \/ \E q \in SalesQueries : ReadSales(q)

SearchNext ==
    /\ Reading
    /\ \/ \E j \in Jobs : StartSearch(j) \/ LoseLease(j) \/ EndSearch(j)
       \/ \E j \in Jobs, n \in {1, 2} : RecordSearchFinished(j, n)
       \/ AskOperations
       \/ \E q \in SearchQueries : ReadSearches(q)

Next == SalesNext \/ SearchNext

Spec == Init /\ [][Next]_vars

-----------------------------------------------------------------------------
(* Properties.                                                             *)

\* The sendings of the days of the report, by the definition of performance/README.md:
\* each lies on a day in Tokyo from the first to the last.
SentOnDays == {s \in report.mails : tokyoDateKey(s.at) \in report.from..report.to}

\* Did something happen to the lead at or after one of these sendings?
Since(l, at) == \E s \in SentOnDays : LeadOf[s.mail] = l /\ at >= s.at

\* The counts of a performance report lie between what the definitions give when it is
\* asked for and when it is answered, however mails, replies and stages change between
\* its queries: the sendings are exactly those of the days asked for, all that happened
\* after them and before the question is counted, and nothing is counted that had not
\* happened, or happened before the sending.
PerformanceIsOfItsTime ==
    report.read = SalesQueries =>
      /\ report.sent = SentOnDays
      /\ {LeadOf[r.mail] : r \in {x \in report.replies :
            \E s \in SentOnDays : s.mail = x.mail /\ x.at >= s.at}} \subseteq repliedLeadIds
      /\ \A l \in repliedLeadIds : \E r \in replies : LeadOf[r.mail] = l /\ Since(l, r.at)
      /\ \A to \in {"meeting", "won"} :
           /\ \A v \in report.moves : v.to = to /\ Since(v.lead, v.at) => v.lead \in LeadsMovedTo(to)
           /\ \A l \in LeadsMovedTo(to) : \E v \in moves : v.lead = l /\ v.to = to /\ Since(l, v.at)
      /\ \A l \in lostLeadIds : \E v \in moves : v.lead = l /\ v.to = "lost" /\ Since(l, v.at)

\* An operations report counts every search whose end was recorded before it was asked
\* for, once, however often it was recorded, and no search as over that still runs with
\* a living lease.
EndsAreCountedOnce ==
    report.read = SearchQueries =>
      LET over == {j \in Jobs : job[j] \in {"lapsed", "over"}} IN
      /\ Cardinality(report.ended) <= uniqueTerminalSearches
      /\ uniqueTerminalSearches <= Cardinality(over)

\* Not so: a search is counted as running or as over, not as both and not as neither.
SearchIsCountedOnce ==
    report.read = SearchQueries =>
      /\ \A j \in report.running : \A r \in terminalSearches : r[1] # j
      /\ \A j \in report.ended : \E r \in terminalSearches : r[1] = j

\* Not so: what was sent on the days of the report is counted (performance/README.md),
\* whatever became of the mail.
SendingsStayCounted ==
    report.kind = "performance" =>
      \A m \in Mails : mail[m].sentAt # Never /\ tokyoDateKey(mail[m].sentAt) \in report.from..report.to
                       => m \in MailsOf(report.sent)

\* Both reports.
ReportsAreOfTheirTime == PerformanceIsOfItsTime /\ EndsAreCountedOnce
=============================================================================
