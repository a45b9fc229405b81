SPECIFICATION FairSpec
CONSTANTS
    Proxies = {p1, p2}
    Exits = {x1, x2}
    NoProxy = NoProxy
    NoExit = NoExit
    RotateFails = 3
    WaitTries = 2
PROPERTIES
    VerifiedIsTheTunnel
    Recovers
