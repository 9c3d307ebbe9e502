\* Two handlers, two subscribers with up to two PDN connections each, one restart.
\* A run ends when the bound on sessions is reached and all of them are gone.
SPECIFICATION Spec
CONSTANTS
    IMSIs = {i1, i2}
    EBIs = {5, 6}
    Teids = {t1, t2}
    S5Teids = {c1}
    PGWs = {p1}
    Handlers = {h1, h2}
    NoTeid = NoTeid
    NoPGW = NoPGW
    MaxSessions = 3
    MaxRestarts = 1
SYMMETRY Symmetry
INVARIANTS TypeOK NoDanglingEntry Reachable NoS11TeidLeak
CHECK_DEADLOCK FALSE
