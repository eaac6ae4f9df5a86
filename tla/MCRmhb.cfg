SPECIFICATION Spec
CONSTANTS
    a = a
    b = b
    c = c
    Node = {a, b, c}
    InRange <- Line
    MaxNeighbors = 2
    Sinks = {}
    Mutes = {}
    MaxStarts = 2
    MaxSleeps = 1
    MaxMsgs = 2
    MaxRepeats = 1
INVARIANTS Genuine WalkersExplained
