\* Duplicates of two requests, one of them reused after its TTL; no Send.
SPECIFICATION Spec
CONSTANTS
    s1 = s1
    s2 = s2
    s3 = s3
    Slots = {s1, s2, s3}
    Keys <- TwoKeys
    Callers <- NoKeys
    NoKey = NoKey
    N3 = 1
    SeqSpace = 1
    MaxCopies = 3
    MaxGen = 2
    MaxCalls = 0
INVARIANTS
    OneAnswer
    InFlightOwned
PROPERTIES
    ImplementsAtMostOnce
CHECK_DEADLOCK FALSE
