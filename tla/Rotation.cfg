SPECIFICATION FairSpec
CONSTANTS
    Legs = {primary, telegram}
    AnyAnswer = {telegram}
    Refreshers = {ticker}
    Direct = {d1}
    Bridged = {b1}
    Prober = prober
    FailThreshold = 2
    EgressGrace = 1
    MaxAge = 1
    UnprovenGrace = 2
INVARIANTS
    VerdictIsJust
PROPERTIES
    SeenIsSpared
    ExpiryIsEarned
    SlowIsLeft
