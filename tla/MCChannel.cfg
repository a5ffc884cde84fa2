SPECIFICATION Spec
CONSTANTS
    r1 = r1 r2 = r2 r3 = r3 r4 = r4
    c1 = c1 c2 = c2
    w1 = w1 w2 = w2 w3 = w3
    p1 = p1 p2 = p2
    t1 = t1 t2 = t2
    None = None
    Requests <- MCRequests
    Calls <- MCCalls
    Pollers <- MCPollers
    Prompts <- MCPrompts
    Tools <- MCTools
    MaxRequests = 3
    MaxWaiters = 2
    MaxGeneration = 2
SYMMETRY Symmetry
CHECK_DEADLOCK FALSE
INVARIANTS
    TypeOK
    HalfDuplex
    OneAnswerPerRequest
    NoLostWakeup
    CallsAgree
    ReadsAreCurrent
PROPERTIES
    DecisionKept
    RendezvousSpec
