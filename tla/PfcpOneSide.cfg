\* Only SGW-C opens transactions; SGW-U, which serves them, may restart.
SPECIFICATION WireSpec
CONSTANTS
    Ends = {sgwc, sgwu}
    Initiators = {sgwc}
    NoMsg = NoMsg
    N1 = 2
    MaxSends = 3
    Restarters = {sgwu}
    MaxRestarts = 1
INVARIANTS
    OwnResponse
    ExecutedOnce
PROPERTIES
    SendReturns
CHECK_DEADLOCK FALSE
