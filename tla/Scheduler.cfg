SPECIFICATION FairSpec
CONSTANTS
    Producers = {r1, r2}
    Airtimes = {0, 1, 3}
    QueueSize = 1
    Capacity = 3
    RefillRate <- TestRate
    MaxOffered = 3
INVARIANTS NoOverdraft FramesConserved BoundedBypass
PROPERTIES SilentAfterClose ImplementsMeter HighServed CloseTerminates
CHECK_DEADLOCK FALSE
