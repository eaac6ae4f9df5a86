SPECIFICATION FairSpec
CONSTANTS
    Proc = {p1, p2}
    NULL = NULL
    NumEvents = 1
    Posted = {"MSG", "EXIT"}
    MaxThreads = 2
    MaxCalls = 1
    MaxStarts = 3
    SelfExit = FALSE
PROPERTY Served
