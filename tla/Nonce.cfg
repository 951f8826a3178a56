SPECIFICATION FairSpec
CONSTANTS
    Threads = {t1, t2}
    NoOwner = NoOwner
    MaxSeq = 2
    MaxCounter = 3
    MaxBoots = 2
INVARIANTS UsedIsPersisted NoReuseWithinBoot NoReuseAcrossBoots
PROPERTY CallsReturn
CHECK_DEADLOCK FALSE
