SPECIFICATION Spec
CONSTANTS
    Rx = {r1}
    Probe = probe
    Msgs = {msg}
    NoMsg = NoMsg
    SuspectAfter = 2
    DownAfter = 3
    SlowEcho = FALSE
    MaxLife = 2
    Sessions = {"ims", "net"}
    UE <- UEs
    Policies <- Rules
    Priority <- Priorities
    AtStart = {"ims"}
    Burst = 1
    QueueMax = 1
    Bypass = TRUE
    MaxSeq = 2
INVARIANTS  QueueCounted  RestoredWasAsked
CHECK_DEADLOCK FALSE
