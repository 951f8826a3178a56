SPECIFICATION NodeSpec
CONSTANTS
    Joiners = {j1}
    Peers = {p1, p2, p3}
    Kin = {p1, p2}
    Refusers = {p2}
    NoPeer = NoPeer
    MaxAttempts = 3
    MeshJoinFails = TRUE
    MaxInAir = 2
    Interval = 2
    MaxInterval = 5
    Window = 6
    MaxTXTime = 2
    SendTimes = {1, 2}
    PeerCounts = {0, 500}
    Originators = {o1}
    NormalBurst = 1
    RejoinBurst = 2
    OGMRate = 1
    Baseline = 1
    RejoinDetectWindow = 2
    RejoinModeDuration = 2
    OriginatorWarnThreshold = 3
    OriginatorHysteresisRecovery = 1
    MaxPopulation = 3
INVARIANTS RequestsBounded
PROPERTIES EventuallyConnected CancelEnds OGMsMetered RejoinEnds EmissionSettles Hysteresis DeferredResumes
CHECK_DEADLOCK FALSE
