SPECIFICATION Spec
CONSTANTS
    NumTasks = 2
    Depth = 2
    r1 = r1
    r2 = r2
    d1 = d1
    NoReq = NoReq
    Requests <- TwoRequests
    DcmdRequests <- OneDcmd
    Envs <- SafetyEnvs
SYMMETRY Symmetry
INVARIANTS
    TypeOK
    StartSeesRequest
    HaltAgreement
    SlotsOwned
    NoOrphan
    PendingIsOwed
    NoLostWakeup
PROPERTIES
    Refines
CHECK_DEADLOCK FALSE
