SPECIFICATION Spec
CONSTANTS
    k1 = k1
    k2 = k2
    k3 = k3
    N = 1
    Keys <- MCKeys
    NoKey = NoKey
    Health = health
    Refreshers = {ticker, api}
    Free = Free
    FailThreshold = 2
    Pools <- MCPools
    Starts <- MCAlone
    MaxRefreshes = 2
    MaxMishaps = 0
    RefreshWeight = 0
PROPERTY
    RotationIsSurgical
