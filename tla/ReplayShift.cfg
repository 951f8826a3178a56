SPECIFICATION Spec
CONSTANTS
    Peers = {p1}
    Word = 2
    SeqSpace = 16
    FirstFrame = 1
    LastFrame = 6
    Arrivals <- AllArrivals
INVARIANT NoReplay
CHECK_DEADLOCK FALSE
