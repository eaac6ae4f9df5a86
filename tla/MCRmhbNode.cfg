SPECIFICATION NodeFairSpec
CONSTANTS
    Addr = {a1, a2, a3}
    NoAddr = none
    MaxNeighbors = 2
    MaxSleeps = 2
INVARIANTS NodeSound
PROPERTY Responsive
