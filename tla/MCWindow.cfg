SPECIFICATION Spec
CONSTANTS
    MaxRequests = 3
    MaxHooks = 3
    None = None
CHECK_DEADLOCK FALSE
INVARIANTS
    ReplayableIsUndelivered
    AnswerIsClaudes
    HonestHooksAccepted
