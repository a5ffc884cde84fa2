SPECIFICATION Spec
CONSTANTS
    r1 = r1 r2 = r2
    logical = logical plain = plain fresh = fresh fresher = fresher
    c1 = c1 c2 = c2
    l1 = l1
    None = None
    Requests <- TwoRequests
    Keys <- MixedKeys
    LogicalKeys = {}
    EphemeralKeys <- FreshKeys
    Contents <- OneContent
    Leases = {}
    Streams <- Streaming
    ExplicitSeam = FALSE
    Limit = 1
    MaxTombstones = 1
SYMMETRY PairSymmetry
CHECK_DEADLOCK FALSE
INVARIANTS
    LiveIsAccounted
    CapacityBound
