SPECIFICATION Spec
CONSTANTS
    ping = ping
    join = join
    beacon = beacon
    hint = hint
    Callers = {c1}
    NoCaller = NoCaller
    TxFrames = {ping, join}
    RxFrames = {beacon, hint}
    NoFrame = NoFrame
    Length <- FrameLength
    FifoSize = 2
    TxBase = 1
    MaxFaults = 0
INVARIANT PayloadOnAir
CHECK_DEADLOCK FALSE
