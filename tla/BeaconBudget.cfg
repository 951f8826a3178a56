SPECIFICATION BeaconSpec
CONSTANTS
    Interval = 2
    MaxInterval = 6
    Window = 9
    MaxTXTime = 3
    SendTimes = {1, 2}
    PeerCounts = {0, 100, 500}
INVARIANT BudgetObeyed
CHECK_DEADLOCK FALSE
