\* s1 is established; s2 may be. Rule 1 is for downlink, rule 2 for uplink.
SPECIFICATION PlaneSpec
CONSTANTS
    SEIDs = {s1, s2}
    AtStart = {s1}
    Ids = {1, 2}
    Default = {1}
    Core = {1}
    Tunnels = {a, b}
    NoTunnel = NoTunnel
    Reqs = {t1, t2, t3}
    Fwd = {f1}
    UseBPF = TRUE
    MayFail = {"install"}
INVARIANTS SentIsCurrent IdleReported UnknownIsTrue
SYMMETRY Symmetry
CHECK_DEADLOCK FALSE
