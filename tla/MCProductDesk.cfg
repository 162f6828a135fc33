CONSTANTS
    s1 = s1
    s2 = s2
    z1 = z1
    Ids = {p1, p2}
    Brands = {b1}
    Sources = {s1, s2}
    Sizes = {Blank, z1}
    Statuses = {A}
    Labels = {L, M}
    Admins = {a1}
    Tokens = {t1, t2}
    Forms <- TheForms
    Scopes <- TheScopes
    MaxWrites = 3
    MaxOthers = 1
    Blank = Blank
    AnyValue = AnyValue
    NoStatus = NoStatus
    NoLabel = NoLabel
    Absent = Absent
    Spent = Spent

SPECIFICATION Spec
SYMMETRY Symmetry
CHECK_DEADLOCK FALSE

INVARIANTS
    TypeOK
    OnePlace
PROPERTIES
    DeletionsAsShown
    EditsWhatIsShown
    FormsKeepApart
