SPECIFICATION Spec
CONSTANTS
    r1 = r1 r2 = r2
    logical = logical plain = plain fresh = fresh fresher = fresher
    c1 = c1 c2 = c2
    l1 = l1
    None = None
    Requests <- TwoRequests
    Keys <- LogicalAndFresh
    LogicalKeys <- OneKey
    EphemeralKeys <- TwoFresh
    Contents <- TwoContents
    Leases <- OneLease
    Streams <- Whole
    ExplicitSeam = TRUE
    Limit = 2
    MaxTombstones = 1
SYMMETRY FreshSymmetry
CONSTRAINT InService
CHECK_DEADLOCK FALSE
INVARIANTS
    TypeOK
    OneActiveRequest
    ResultMatchesFingerprint
    NoCloseUnderGeneration
    UnleasedIsLeaving
PROPERTIES
    NeverReplayed
