\* Two documents, two requests that race each other and the indexer; two documents
\* that are reported on while their records change.
SPECIFICATION AdministrationSpec
CONSTANTS
    Parts = {"edits", "scrapes", "listing"}
    r1 = r1
    r2 = r2
    Automatic = Automatic
    Absent = Absent
    Docs <- MCDocs
    Indexed <- MCDocs
    Fields <- MCFields
    EditFields <- MCEditFields
    PostedFields <- MCPosted
    Requests = {r1, r2}
    PageSize = 1
    MaxIds = 2
    Budget <- MCBudget
    TrackedDocs = {1, 2}
    Scrapers = {1, 2}
    MaxChanges = 3
INVARIANT EditsTypeOK
INVARIANT AgreeAtRest
INVARIANT PagesMissNothing
INVARIANT FailuresCountedOnce
INVARIANT ListingIsComplete
SYMMETRY RequestSymmetry
CHECK_DEADLOCK FALSE
