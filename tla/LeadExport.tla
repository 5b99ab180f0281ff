----------------------------- MODULE LeadExport -----------------------------
(***************************************************************************)
(* The export of the list of leads to a file (src/apps/api/src/dashboard,  *)
(* ui/leads-page.ts and client/lead-export.ts).                            *)
(*                                                                         *)
(* What is shown is written at once, which is left out.  All leads are     *)
(* asked for page after page: the first tells how many there are, the      *)
(* others are asked for by several workers at once, and their answers put  *)
(* together in the order of the pages.  Every page is asked for with what  *)
(* the controls say by then, and is cut from what the list is by then.     *)
(***************************************************************************)
EXTENDS Naturals, FiniteSets, Sequences, SequencesExt

CONSTANTS
    Leads,       \* leads
    Filters,     \* what the controls may ask for
    Matching,    \* the leads of each filter
    PageSize,    \* rows of a page
    Workers,     \* as many as MAX_CONCURRENCY
    MaxChanges,  \* bound: changes of the list, and of the controls
    Nothing

VARIABLES
    list,      \* the leads there are, in the order of the list
    filter,    \* what the controls say
    changed,   \* how often the list or the controls were changed
    exporting, \* the export under way
    asked,     \* the page each worker has asked for, and with which filter
    file       \* the file that was written last

vars == <<list, filter, changed, exporting, asked, file>>

MaxPages == Cardinality(Leads)

Rows == {s \in SeqOf(Leads, Cardinality(Leads)) : IsInjective(s)}

\* filter: that of the first page; next: nextPage; since: how often things had
\* changed when it began.
Exporting == [step : {"off", "first", "rest"}, filter : Filters, total : 1 .. MaxPages,
              next : 1 .. MaxPages + 1, pages : SeqOf(Rows, MaxPages), since : 0 .. MaxChanges]

Asking == [page : 1 .. MaxPages, filter : Filters]

TypeOK ==
    /\ list \in Rows
    /\ filter \in Filters
    /\ changed \in 0 .. MaxChanges
    /\ exporting \in Exporting
    /\ asked \in [Workers -> Asking \cup {Nothing}]
    /\ file # Nothing => file.rows \in Seq(Leads) /\ file.since \in 0 .. MaxChanges

NoExport == [step |-> "off", filter |-> filter, total |-> 1, next |-> 1, pages |-> <<>>, since |-> 0]

Init ==
    /\ list \in Rows
    /\ filter \in Filters
    /\ changed = 0
    /\ exporting = NoExport
    /\ asked = [w \in Workers |-> Nothing]
    /\ file = Nothing

-----------------------------------------------------------------------------
(* The list.                                                               *)

\* LeadsService.list: the leads that match, of which the k-th has k of them up to its
\* place in the list, and a page of them.
Matched(f) ==
    LET places == {i \in DOMAIN list : list[i] \in Matching[f]}
    IN  [k \in 1 .. Cardinality(places) |->
           list[CHOOSE i \in places : Cardinality({j \in places : j <= i}) = k]]

Smaller(a, b) == IF a < b THEN a ELSE b

PageOf(f, k) == SubSeq(Matched(f), (k - 1) * PageSize + 1, Smaller(k * PageSize, Len(Matched(f))))

\* A lead is created, or leaves the list.
ChangeList ==
    /\ changed < MaxChanges
    /\ \/ \E l \in Leads \ ToSet(list) : list' = <<l>> \o list
       \/ \E i \in DOMAIN list : list' = RemoveAt(list, i)
    /\ changed' = changed + 1
    /\ UNCHANGED <<filter, exporting, asked, file>>

SetFilter(f) ==
    /\ f # filter
    /\ changed < MaxChanges
    /\ filter' = f
    /\ changed' = changed + 1
    /\ UNCHANGED <<list, exporting, asked, file>>

-----------------------------------------------------------------------------
(* exportLeads, collectAllLeadPages.                                       *)

Exports(step) == exporting.step = step

\* The button is disabled until it is over.
Export ==
    /\ Exports("off")
    /\ exporting' = [NoExport EXCEPT !.step = "first", !.since = changed]
    /\ UNCHANGED <<list, filter, changed, asked, file>>

\* buildLeadExportRows, serializeLeadExportRows: a row for each lead; of no lead no
\* file is written.
Write(rows) ==
    /\ file' = IF rows = <<>> THEN file ELSE [rows |-> rows, since |-> exporting.since]
    /\ exporting' = NoExport

\* totalPages.
TotalPages(f) ==
    IF Matched(f) = <<>> THEN 1 ELSE (Len(Matched(f)) + PageSize - 1) \div PageSize

\* The first workers take the next pages, as many as there are.
AnswerFirst ==
    LET rows == PageOf(exporting.filter, 1)
        total == TotalPages(exporting.filter)
        busy == {w \in Workers : w < total} IN
    /\ Exports("first")
    /\ IF total = 1
       THEN Write(rows) /\ UNCHANGED asked
       ELSE /\ exporting' = [exporting EXCEPT
                  !.step = "rest", !.total = total, !.next = 2 + Cardinality(busy),
                  !.pages = [k \in 1 .. total |-> IF k = 1 THEN rows ELSE <<>>]]
            /\ asked' = [w \in Workers |-> IF w \in busy THEN [page |-> w + 1, filter |-> filter] ELSE Nothing]
            /\ UNCHANGED file
    /\ UNCHANGED <<list, filter, changed>>

\* Mutant: the pages stand in the order of their answers.
StoredByArrival(pages, k, rows) ==
    LET first == CHOOSE j \in DOMAIN pages : pages[j] = <<>> /\ \A i \in 1 .. j - 1 : pages[i] # <<>>
    IN  [pages EXCEPT ![first] = rows]

\* Each answer has its place.
Stored(pages, k, rows) == [pages EXCEPT ![k] = rows]

\* The page a worker asked for is there, and it takes the next one; when all have
\* answered the pages are put together.
Answer(w) ==
    LET pages == Stored(exporting.pages, asked[w].page, PageOf(asked[w].filter, asked[w].page)) IN
    /\ asked[w] # Nothing
    /\ IF exporting.next <= exporting.total
       THEN /\ asked' = [asked EXCEPT ![w] = [page |-> exporting.next, filter |-> filter]]
            /\ exporting' = [exporting EXCEPT !.pages = pages, !.next = @ + 1]
            /\ UNCHANGED file
       ELSE /\ asked' = [asked EXCEPT ![w] = Nothing]
            /\ IF \A v \in Workers \ {w} : asked[v] = Nothing
               THEN Write(FlattenSeq(pages))
               ELSE exporting' = [exporting EXCEPT !.pages = pages] /\ UNCHANGED file
    /\ UNCHANGED <<list, filter, changed>>

\* A page fails: so does the export; no answer of another page is looked at again.
Fail ==
    /\ ~Exports("off")
    /\ exporting' = NoExport
    /\ asked' = [w \in Workers |-> Nothing]
    /\ UNCHANGED <<list, filter, changed, file>>

-----------------------------------------------------------------------------
Next ==
    \/ ChangeList
    \/ \E f \in Filters : SetFilter(f)
    \/ Export
    \/ AnswerFirst
    \/ \E w \in Workers : Answer(w)
    \/ Fail

Spec == Init /\ [][Next]_vars

-----------------------------------------------------------------------------
(* Properties.                                                             *)

\* As long as neither the list nor the controls changed since the button was pressed,
\* the file has all leads that match, each once and in their order, in whatever order
\* the pages came (lead-export.ts:20-51).
FileIsOfList == file # Nothing /\ file.since = changed => file.rows = Matched(filter)

\* No lead is in a file twice.  Not so when a lead is created, or a filter set, while
\* the pages come: they are cut from different lists.
NoLeadTwice == file # Nothing => IsInjective(file.rows)

\* A lead that matched from the beginning to the end is in the file.  Not so, for the
\* same reason.
LeadsInFile == file # Nothing /\ changed = 1 => ToSet(Matched(filter)) \subseteq ToSet(file.rows)
=============================================================================
