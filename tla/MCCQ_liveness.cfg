SPECIFICATION FairSpec
CONSTANTS
    NumTasks = 2
    Depth = 2
    r1 = r1
    r2 = r2
    d1 = d1
    NoReq = NoReq
    Requests <- OneRequest
    DcmdRequests <- OneDcmd
    Envs <- LivenessEnvs
INVARIANTS
    ErrorIsReported
PROPERTIES
    PendingEnds
    HandlerReturns
