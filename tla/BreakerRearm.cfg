SPECIFICATION Spec
CONSTANTS
    Sources = {u1}
    Refreshers = {ticker}
    Ticker = ticker
    FailThreshold = 2
    SkipCycles = 2
    FailCap = 3
PROPERTIES
    FailureRearms
