\* Procedures of one PDN session; the PGW may go down, one procedure may outlast the timeout.
SPECIFICATION Spec
CONSTANTS
    s1 = s1
    s2 = s2
    Sessions = {s1}
    Control = s1
    EBIs = {5, 6}
    Owner <- OneOwner
    Default <- OneDefault
    Mode = "strict"
    BlockDownPGW = TRUE
    Handlers = {h1, h2, h3}
    MaxBegins = 3
    MaxOverruns = 1
INVARIANTS TypeOK NoUnsafeOverlap TrackedIsLive
PROPERTY TrackersDrain
CHECK_DEADLOCK FALSE
