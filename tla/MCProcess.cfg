SPECIFICATION Spec
CONSTANTS
    Proc = {p1, p2, p3}
    NULL = NULL
    NumEvents = 1
    Posted = {"MSG"}
    MaxThreads = 2
    MaxCalls = 1
    MaxStarts = 4
    SelfExit = FALSE
SYMMETRY Symmetry
INVARIANTS StackSound RunningIsListed PollKept WalkReachesAll SleepsIdle
