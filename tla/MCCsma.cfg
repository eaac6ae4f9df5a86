SPECIFICATION FairLinkSpec
CONSTANTS
    p1 = p1
    p2 = p2
    p3 = p3
    nbr = nbr
    all = all
    Packet = {p1, p2, p3}
    Addr = {nbr, all}
    Broadcast = {all}
    Dest <- MCDest
    Transmissions <- MCTransmissions
    MaxNeighbors = 2
    MaxPackets = 3
    MaxPerNeighbor = 2
    MaxQueuebufs = 2
    MaxBackoff = 1
    MaxRetries = 0
    Receiver = nbr
    Self = self
    Others = {other}
    NoSender = none
    Width = 5
    Starts = {4}
    MaxRx = 1
    MaxSeqnos = 2
INVARIANTS QueueAlive PoolsBalanced RetryBudget AckedArrived RepeatsExplained
PROPERTIES ImplementsMac Finished
CHECK_DEADLOCK FALSE
