SPECIFICATION FairSpec
CONSTANTS
    r1 = r1 r2 = r2
    logical = logical plain = plain fresh = fresh fresher = fresher
    c1 = c1 c2 = c2
    l1 = l1
    None = None
    Requests <- TwoRequests
    Keys <- PlainKey
    LogicalKeys = {}
    EphemeralKeys = {}
    Contents <- OneContent
    Leases = {}
    Streams <- Whole
    ExplicitSeam = TRUE
    Limit = 1
    MaxTombstones = 1
CHECK_DEADLOCK FALSE
PROPERTIES
    ReleaseCompletes
    OwnerSettles
    OrphanIsReleased
