CONSTANTS
    Teams = {t1, t2}
    Users = {u1, u2}
    Policies = {p1, p2}
    Tokens = {k1, k2}
    Requests = {r1, r2}
    MaxStamp = 2
    NoTeam = NoTeam
    NoPreview = NoPreview
    NoToken = NoToken

SPECIFICATION Spec
SYMMETRY Symmetry

INVARIANTS
    TypeOK
    MembersHaveOpenTeam
    OnceOnly
    OneChangePerState
PROPERTIES
    MovesWhoWasShown
