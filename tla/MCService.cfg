SPECIFICATION Spec
CONSTANTS
    c1 = c1
    c2 = c2
    s1 = s1
    s2 = s2
    s3 = s3
    Callers <- MCCallers
    Services <- MCServices
    None = None
SYMMETRY CallSymmetry
INVARIANTS
    NoStrayService
PROPERTIES
    UndoSparesGiven
