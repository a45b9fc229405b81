SPECIFICATION MCSpec
CONSTANTS
    Requests = {r1, r2, r3}
    MaxConns = 1
    N = 3
    Direct = {c1}
    Relayed = {}
    Probe = probe
    MinStreak = 1
    Budget = 3
    Share = 2
    Latencies = {0, 1}
    MaxReports = 3
INVARIANTS
    HandlersAreBounded
    NothingLeaks
    LadderIsTiered
    HeadIsBest
    SilenceIsShared
PROPERTIES
    EveryHandlerReturns
    TunnelsCloseTogether
    ClientsAreSettled
CHECK_DEADLOCK FALSE
