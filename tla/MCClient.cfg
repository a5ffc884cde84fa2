SPECIFICATION Spec
CONSTANTS
    logical = logical
    auxiliary = auxiliary
    read = read
    None = None
    Sessions <- TwoSessions
    Ephemeral <- OneCall
    MaxSessions = 1
    Toolsets <- WithAndWithout
    MaxFrame = 2
    MaxRequests = 2
    Before <- Short
INVARIANTS
    FrameSound
    ReplayableUndelivered
    SessionsBound
    StrayUnused
