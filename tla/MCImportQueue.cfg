CONSTANTS
    MaxJobs = 1
    Workers = {w1, w2}
    Operators = {o1, o2}
    MaxAttempts = 2
    MaxRetained = 2
    MaxCatalogue = 1
    MaxCrashes = 1
    NoWorker = NoWorker
    NoPlan = NoPlan

SPECIFICATION Spec
SYMMETRY Symmetry

INVARIANTS
    TypeOK
    CancelWins
    PreviewIsBacked
    PurgedIsOver
PROPERTIES
    AppliesOnlyPreviewedPlans
    ConfirmsWhatIsShown
    KeepsPromise
