SPECIFICATION PluginSpec
CONSTANTS
    Names = {yggdrasil, other}
    Plugins = {yggdrasil}
    Removers = {yggdrasil}
    Publishers = {p1}
    n1 = n1
    n2 = n2
    a1 = a1
    Nodes = {n1, n2}
    NoAddr = NoAddr
    NoHint = NoHint
    Hints <- MCHints
    BufSize = 1
    MaxRegistrations = 2
    MaxPublished = 3
INVARIANTS NoSendOnClosed DrainedBeforeExit CachedIsPeer
PROPERTIES CloseReturns RunEnds HintsConsumed
CHECK_DEADLOCK FALSE
