SPECIFICATION FairSpec
CONSTANTS
    Frequencies = {f1, f2, f3}
    Primary = f1
    MinPeers = 1
    Share = 2
    Nodes = {n1}
    Beacons = {x}
    NoBeacon = NoBeacon
    InitialTTL = 2
    MaxCount = 1
    MaxRestarts = 2
INVARIANTS StormBounded StoredListIsZoneList
PROPERTY HomeAgain
CHECK_DEADLOCK FALSE
