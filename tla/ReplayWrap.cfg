SPECIFICATION Spec
CONSTANTS
    Peers = {p1}
    Word = 2
    SeqSpace = 12
    FirstFrame = 9
    LastFrame = 25
    Arrivals <- SoundArrivals
INVARIANTS NoReplay NoFalseRefusal WindowIsHistory
PROPERTY ImplementsFilter
CHECK_DEADLOCK FALSE
