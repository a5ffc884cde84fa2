SPECIFICATION Spec
CONSTANTS
    Deltas <- MCDeltas
    Script <- MCScript
    Strays <- MCStrays
    Answers <- MCAnswers
    MaxBatches = 4
    MaxLines = 5
    None = None
CHECK_DEADLOCK FALSE
INVARIANTS
    StreamedInOrder
    FinishSound
    HonestAccepted
