--------------------------- MODULE MCProjectImport ---------------------------
(***************************************************************************)
(* Candidates for TLC.                                                     *)
(* ProjectImport: a bulk import and a single one that share an address of  *)
(* one company.                                                            *)
(* SourceSearch: five entries of four projects, of which the one with two  *)
(* links, p, was imported before, and of which one comes to be listed only *)
(* during the search; two candidates are asked for, in rounds of two and   *)
(* of three.                                                               *)
(***************************************************************************)
EXTENDS Candidates, TLC

CONSTANTS b1, s1, x, y, acme, bolt, e1, e2, e3, e4, e5, p, q, r, t, a1, a2, a3

BothUrls == (b1 :> {x, y}) @@ (s1 :> {y})

SameCompany == (x :> acme) @@ (y :> acme)

FiveEntries == (e1 :> p) @@ (e2 :> p) @@ (e3 :> q) @@ (e4 :> r) @@ (e5 :> t)

Days == (e1 :> 2) @@ (e2 :> 2) @@ (e3 :> 0) @@ (e4 :> 1) @@ (e5 :> 1)

Listed == <<e1, e3, e2, e4>>

ThreeAddresses == <<a1, a2, a3>>

AtAddresses == (a1 :> <<>>) @@ (a2 :> <<e2, e4>>) @@ (a3 :> <<e5>>)

Rounds == <<1, 2, 3>>

Asked(source, soon, seasoned) ==
    [source |-> source, soon |-> soon, seasoned |-> seasoned, desired |-> 2]

FiveRequests ==
    {Asked(s, TRUE, FALSE) : s \in {"campfire", "makuake", "green"}} \cup
    {Asked("campfire", FALSE, TRUE), Asked("green", FALSE, FALSE)}

Searches == [campfire |-> 2, makuake |-> 1, green |-> 1]

\* Beside an import the search stands still, whatever it is asked for.
MCInit == PartsInit /\ (part = "import" => request = Asked("campfire", TRUE, FALSE))

MCSpec == MCInit /\ [][PartsNext]_<<part, vars, searchVars>> /\ PartsFairness
=============================================================================
