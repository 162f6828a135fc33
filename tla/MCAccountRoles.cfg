CONSTANTS
    Users = {a1, a2, u1}
    Founders = {a1, a2}
    Teams = {t1, t2}
    Keys = {"users", "teams"}
    Sessions = {s1, s2}
    MaxVersion = 3
    NoTeam = NoTeam
    NoSession = NoSession

SPECIFICATION Spec
SYMMETRY Symmetry

PROPERTIES
    PromotedBySupers
