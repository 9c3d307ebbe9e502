\* Both restart, SGW-C forgets its sessions, no procedure spans the loss of the association.
\* The procedures stop when the SEIDs are used up.
SPECIFICATION Spec
CONSTANTS
    Sess = {a, b}
    MaxSeid = 3
    MaxCLives = 2
    MaxULives = 2
    Recovery = FALSE
    OpsOutlive = FALSE
INVARIANTS
    SeidsIdentify
    NoStaleBinding
    
PROPERTIES
    Reassociates
CHECK_DEADLOCK FALSE
