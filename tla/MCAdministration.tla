--------------------------- MODULE MCAdministration ---------------------------
(***************************************************************************)
(* Values for TLC, and two parts of the administration that share no state *)
(* side by side: metadata edits, and the reports of tracked documents (the *)
(* scrapes of metrics and the listings).  A behaviour is one of one of the *)
(* Parts, with the variables of the other at rest.                         *)
(***************************************************************************)
EXTENDS MetadataEdits, Reports, TLC

CONSTANTS Parts, r1, r2

VARIABLE part

MCDocs       == {1, 2}
MCFields     == {"title_s", "series_s"}
MCEditFields == {{"title_s"}, {"series_s"}}
MCPosted     == {"title_s"}

\* One failure and one indexing of the documents that two requests edit.
MCBudget == [mishap |-> 1, index |-> 1]

MCNoMishap == [mishap |-> 0, index |-> 1]

RequestSymmetry == Permutations(Requests)

-----------------------------------------------------------------------------
ReportsAtRest ==
    /\ tracked = [d \in TrackedDocs |-> Untracked] /\ failures = 0 /\ known = {} /\ counted = 0
    /\ changes = 0 /\ scrapes = [s \in Scrapers |-> NoScrape] /\ overtaken = FALSE
    /\ listing = NoListing

AdministrationInit ==
    /\ part \in Parts
    /\ Init
    /\ IF part \in {"scrapes", "listing"} THEN ReportsInit ELSE ReportsAtRest

\* The part that rests comes first, so that TLC sees to it once per state.
AdministrationNext ==
    /\ UNCHANGED part
    /\ IF part = "edits" THEN UNCHANGED reportsVars ELSE UNCHANGED vars
    /\ CASE part = "edits"   -> Next
         [] part = "scrapes" -> RecordsNext \/ ScrapesNext
         [] part = "listing" -> RecordsNext \/ ListingNext

AdministrationSpec == AdministrationInit /\ [][AdministrationNext]_<<part, vars, reportsVars>>
=============================================================================
