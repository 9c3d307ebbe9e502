\* Both handlers open transactions, with the same sequence number, while two slots
\* serve requests and answers.
SPECIFICATION Spec
CONSTANTS
    s1 = s1
    s2 = s2
    s3 = s3
    Slots = {s1, s2}
    Keys <- TwoKeys
    Callers <- TwoKeys
    NoKey = NoKey
    N3 = 2
    SeqSpace = 1
    MaxCopies = 1
    MaxGen = 1
    MaxCalls = 2
INVARIANTS
    NoPendingLeak
PROPERTIES
    SlotsAreFreed
CHECK_DEADLOCK FALSE
