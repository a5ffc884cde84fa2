SPECIFICATION Undisturbed
CONSTANTS
    logical = logical
    auxiliary = auxiliary
    read = read
    None = None
    Sessions <- OneSession
    Ephemeral <- Nobody
    MaxSessions = 1
    Toolsets <- Without
    MaxFrame = 5
    MaxRequests = 3
    Before <- Bulky
INVARIANTS
    StartsFromHistory
