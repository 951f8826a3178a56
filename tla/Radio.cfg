SPECIFICATION FairSpec
CONSTANTS
    ping = ping
    join = join
    beacon = beacon
    hint = hint
    Callers = {c1}
    NoCaller = NoCaller
    TxFrames = {ping, join}
    RxFrames = {beacon, hint}
    NoFrame = NoFrame
    Length <- FrameLength
    FifoSize = 2
    TxBase = 1
    MaxFaults = 1
INVARIANTS TransmittedOnce ReceivedWhole
PROPERTY CallsReturn
CHECK_DEADLOCK FALSE
