\* Two sessions, of one or of two PDN connections; one failure of the store, one crash.
SPECIFICATION Spec
CONSTANTS
    Sessions = {x1, x2}
    PDNs = {d1, d2}
    Peers = {p1}
    Handlers = {h1}
    NoSession = NoSession
    NoPDN = NoPDN
    MaxVer = 2
    MaxErrors = 1
    MaxCrashes = 1
INVARIANTS TypeOK QueuesDisjoint NothingForgottenUntilError NoZombieUntilFailure
PROPERTY RemovedLeaveStore
CHECK_DEADLOCK FALSE
