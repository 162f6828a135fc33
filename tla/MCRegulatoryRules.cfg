CONSTANTS
    s1 = s1
    s2 = s2
    s3 = s3
    a = a
    b = b
    i1 = i1
    i2 = i2
    i3 = i3
    v1 = v1
    v2 = v2
    n1 = n1
    n2 = n2
    Statuses = {s1, s2, s3}
    Labels = {a, b}
    Ids = {i1, i2}
    Contents <- TheContents
    OldStatuses = {s1, s2}
    OldIds = {i1}
    Values = {v1, v2}
    Notes = {n1, n2}
    Jobs = {j1}
    Requests = {r1}
    Files <- TheFiles
    MaxPriority = 3
    MaxRevision = 3
    MaxAttempts = 3
    MaxChanges = 1
    Unused = Unused
    Gone = Gone
    NoCatalog = NoCatalog
    NoId = NoId
    NoForm = NoForm

SPECIFICATION Spec
SYMMETRY Symmetry

INVARIANTS
    TypeOK
    KeysStayWithOwner
PROPERTIES
    WritesWhatWasConfirmed
    ImportsSpareEdits
    EditsWhatIsShown
