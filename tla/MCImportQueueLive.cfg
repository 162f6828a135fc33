CONSTANTS
    MaxJobs = 2
    Workers = {w1}
    Operators = {o1}
    MaxAttempts = 2
    MaxRetained = 2
    MaxCatalogue = 0
    MaxCrashes = 1
    NoWorker = NoWorker
    NoPlan = NoPlan

SPECIFICATION LiveSpec

PROPERTIES
    JobsComeToRest
    ExpiredIsPurged
