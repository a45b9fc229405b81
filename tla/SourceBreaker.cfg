SPECIFICATION FairSpec
CONSTANTS
    Sources = {u1, u2}
    Refreshers = {ticker, api}
    Ticker = ticker
    FailThreshold = 2
    SkipCycles = 2
    FailCap = 3
INVARIANTS
    RestNeedsFailures
PROPERTIES
    RestEnds
    SourcesReturn
