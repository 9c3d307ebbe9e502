\* As in SgwuRules.cfg, two requests.
SPECIFICATION FairSpec
CONSTANTS
    SEIDs = {s1, s2}
    AtStart = {s1}
    Ids = {1, 2}
    Default = {1}
    Core = {1}
    Tunnels = {a, b}
    NoTunnel = NoTunnel
    Reqs = {t1, t2}
    Fwd = {f1}
    UseBPF = TRUE
    MayFail = {}
PROPERTY LoopRuns
CHECK_DEADLOCK FALSE
