SPECIFICATION FairSpec
CONSTANTS
    N = 2
    Probers <- MCProbers
    Home <- MCHome
    Pids = {1, 2, 3, 4}
    Orphans = {1}
    t1 = t1
PROPERTIES
    OwnedIsSpared
    OrphansDie
