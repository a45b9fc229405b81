SPECIFICATION Spec
CONSTANTS
    Requests = {r1, r2}
    MaxConns = 1
INVARIANTS
    ConnectsAreBounded
CHECK_DEADLOCK FALSE
