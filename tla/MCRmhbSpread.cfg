SPECIFICATION FairSpec
CONSTANTS
    a = a
    b = b
    c = c
    Node = {a, b}
    InRange <- Pair
    MaxNeighbors = 2
    Sinks = {b}
    Mutes = {a}
    MaxStarts = 1
    MaxSleeps = 0
    MaxMsgs = 2
    MaxRepeats = 0
PROPERTY Spreads
