SPECIFICATION Spec
CONSTANTS
    c1 = c1
    c2 = c2
    k1 = k1
    k2 = k2
    none = none
    gone = gone
    blank = blank
    t1 = t1
    t2 = t2
    a1 = a1
    a2 = a2
    idle = idle
    g1 = g1
    g2 = g2
    text = text
    usd = usd
    vnd = vnd
    Ids <- mcIds
    Brands <- mcBrands
    Codes = {c1, c2}
    Cases = {k1, k2, none}
    Placeholders = {none}
    Sizes <- mcSizes
    UnitOf <- mcUnitOf
    AmountOf <- mcAmountOf
    Preparations = {"NEAT"}
    Currencies = {usd, vnd}
    VND = vnd
    Gone = gone
    Blank = blank
    Granularity = 2
    Limit = 3
    Templates = {t1, t2}
    Uploaded = {t1}
    Keepers = {a1, a2}
    None = none
    Idle = idle
    Width = 2
    Starts <- mcStarts
    Edits <- mcEdits
    Choices <- mcChoices
    Menu <- mcMenu
    Roles <- mcRoles
    RateValues = {2}
    Posts <- mcPosts
    MaxChanges = 1
    MaxEvents = 3
INVARIANTS
    TypeOK
    TemplatesStayOpen
PROPERTIES
    AnswersFollowPolicy
    ShownCanBeExported
