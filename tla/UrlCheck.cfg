SPECIFICATION FairSpec
CONSTANTS
    Urls = {u1, u2, u3}
    Callers = {c1, c2}
    NoCaller = NoCaller
    NoUrl = NoUrl
    MaxDepth = 1
    TTL = 0
    MaxEntries = 2
    MaxClock = 1
INVARIANTS
    OneFlight
    JoinedIsFlying
    CacheIsSound
    OnlyJoinersAreShort
PROPERTIES
    EveryoneIsAnswered
