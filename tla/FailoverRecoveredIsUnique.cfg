SPECIFICATION Spec
CONSTANTS
    k1 = k1
    k2 = k2
    k3 = k3
    N = 2
    Keys <- MCKeys
    NoKey = NoKey
    Health = health
    Refreshers = {ticker}
    Free = Free
    FailThreshold = 2
    Pools <- MCPools
    Starts <- MCStarts
    MaxRefreshes = 1
    MaxMishaps = 0
    RefreshWeight = 0
PROPERTY
    RecoveredIsUnique
