SPECIFICATION FairSpec
CONSTANTS
    Producers = {r1}
    Airtimes = {1, 2}
    QueueSize = 2
    Capacity = 3
    RefillRate <- CodeRate
    MaxOffered = 3
PROPERTY HighServed
CHECK_DEADLOCK FALSE
