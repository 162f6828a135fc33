CONSTANTS
    MaxJobs = 1
    Workers = {w1, w2}
    Admins = {a1}
    Requests = {r1, r2}
    c1 = c1
    c2 = c2
    s1 = s1
    s2 = s2
    Codes <- MCCodes
    Amounts = {1, 2}
    Spellings <- MCSpellings
    Workbooks <- MCWorkbooks
    Edits <- MCEdits
    MaxAttempts = 2
    MaxReviews = 2
    MaxSnapshots = 4
    MaxCrashes = 1
    NoWorker = NoWorker
    NoPlan = NoPlan
    NoItem = NoItem
    NoBrand = NoBrand

SPECIFICATION Spec
SYMMETRY Symmetry

INVARIANTS
    TypeOK
    LinearHistory
    OneSnapshotEach
    RowsAreClean
PROPERTIES
    ReplacesWhatWasShown
    KeepsPromise
