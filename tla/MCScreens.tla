------------------------------ MODULE MCScreens ------------------------------
(***************************************************************************)
(* The pages of the dashboard and its two reports for TLC.                 *)
(* Workspace: two leads of two companies, of which one has a mail when the *)
(* page is opened.  SearchScreen: two sources, two addresses, of which one *)
(* is a lead.  LeadsScreen: two leads, and two lists, of one and of both.  *)
(* WorkPages: two filters, two pages.  Reports: two mails of one lead, two *)
(* search jobs, two days.  Tracking: two requests at once, two readers,    *)
(* one address as material and as another link.  LeadExport: three leads,  *)
(* one to a page, and two workers.                                         *)
(***************************************************************************)
EXTENDS Screens, TLC

CONSTANTS l1, l2, c1, c2, s1, s2, u1, u2

MCCompanyOf == (l1 :> c1) @@ (l2 :> c2)
MCLeadOf == (1 :> l1) @@ (2 :> l2)
MCListOf == [one |-> {l1}, both |-> {l1, l2}]
MCSoldOf == [m \in Mails |-> l1]
MCMatching == [some |-> {1, 2}, all |-> {1, 2, 3}]

\* The page that is open begins with each of its kept selections (of leads, with
\* that of a lead that has mails, or none); the others begin with one.
MCInit ==
  /\ ScreensInit
  /\ saved \in (IF open = "workspace" THEN {l1, Nothing} ELSE {Nothing})
  /\ open # "search" => selected = Nothing
  /\ open # "leads" => chosen = Nothing /\ listing.asked = "both"
  /\ open # "pages" => view.kind = "today" /\ view.aborts
  /\ open # "export" => rows = <<>> /\ filter = "all"

MCSpec == MCInit /\ [][ScreensNext]_screensVars
=============================================================================
