CONSTANTS
    MaxJobs = 1
    Workers = {w1}
    Admins = {a1, a2}
    Requests = {r1}
    c1 = c1
    c2 = c2
    s1 = s1
    s2 = s2
    Codes <- MCCodes
    Amounts = {1, 2}
    Spellings <- MCSpellings
    Workbooks <- MCWorkbooks
    Edits <- MCEdits
    MaxAttempts = 3
    MaxReviews = 0
    MaxSnapshots = 0
    MaxCrashes = 0
    NoWorker = NoWorker
    NoPlan = NoPlan
    NoItem = NoItem
    NoBrand = NoBrand

SPECIFICATION Spec

PROPERTIES
    ConfirmsWhatIsShown
