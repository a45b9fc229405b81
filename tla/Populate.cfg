SPECIFICATION FairSpec
CONSTANTS
    Instances = {i1, i2, i3}
    Keys = {k1, k2}
    Healthy = {k1}
    NoKey = NoKey
    NoInst = NoInst
    Workers = 2
    MaxRounds = 2
    MaxAttempts = 2
    ServeMinReady = 2
INVARIANTS
    NoClaimIsLost
    OneHolder
    StatusIsServed
    HealthyIsNotPoisoned
    Handover
PROPERTIES
    KeepsPromises
    StartReturns
