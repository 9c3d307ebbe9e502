SPECIFICATION Spec
CONSTANTS
    EBIs = {5, 6}
    ENBs = {enb1}
    NoENB = NoENB
    Handlers = {h1, h2}
    MmeSerial = TRUE
    MaxSess = 2
    MaxFail = 2
INVARIANTS NothingLeaked ActiveHasLegs DownlinkAgrees
SYMMETRY Symmetry
CHECK_DEADLOCK FALSE
