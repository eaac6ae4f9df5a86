SPECIFICATION FairSpec
CONSTANTS
    n1 = n1
    n2 = n2
    n3 = n3
    Node = {n1, n2, n3}
    Block = {1}
    NoBlock = 0
    Request <- MCRequest
    SeqMod = 3
    MaxRequests = 2
INVARIANTS ClearAsserted OwnCells OnlyAccepted
PROPERTY TransEnds
CHECK_DEADLOCK FALSE
