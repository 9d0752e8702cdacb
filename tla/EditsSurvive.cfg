\* The same, against the sentence of the manual.
SPECIFICATION AdministrationSpec
CONSTANTS
    Parts = {"edits"}
    r1 = r1
    r2 = r2
    Automatic = Automatic
    Absent = Absent
    Docs <- MCDocs
    Indexed <- MCDocs
    Fields <- MCFields
    EditFields <- MCEditFields
    PostedFields <- MCPosted
    Requests = {r1, r2}
    PageSize = 1
    MaxIds = 2
    Budget <- MCNoMishap
    TrackedDocs = {1, 2}
    Scrapers = {1, 2}
    MaxChanges = 3
SYMMETRY RequestSymmetry
CHECK_DEADLOCK FALSE
INVARIANT ManualEditsSurvive
