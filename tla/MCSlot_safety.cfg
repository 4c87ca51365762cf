SPECIFICATION Spec
CONSTANTS
    c1 = c1
    c2 = c2
    b1 = b1
    d1 = d1
    d2 = d2
    d3 = d3
    w1 = w1
    NoReq = NoReq
    Blocked = Blocked
    Plain <- PlainReqs
    Busy <- BusyReqs
    Reads <- ReadReqs
    Writes <- WriteReqs
    HwChecked <- HwCheckedReqs
    Adma3 <- Adma3Reqs
    Envs <- SafetyEnvs
INVARIANTS
    PendingIsOwed
    OkWasExecuted
    CurrentIsLive
PROPERTIES
    SentWhenFree
CHECK_DEADLOCK FALSE
