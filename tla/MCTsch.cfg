SPECIFICATION Spec
CONSTANTS
    p1 = p1
    p2 = p2
    n1 = n1
    n2 = n2
    eb = eb
    bc = bc
    all = all
    own = own
    None = None
    Packet = {p1, p2}
    Addr = {n1, n2, eb, bc}
    Dest <- MCDest
    MaxTx <- MCMaxTx
    Link = {all, own}
    Dynamic = {own}
    Options <- MCOptions
    LinkAddr <- MCLinkAddr
    Slotframe <- MCSlotframe
    Timeslot <- MCTimeslot
    FromBeacon <- MCFromBeacon
    Sources = {n2}
    Failures = {"NOACK"}
    MaxNeighbors = 4
    MaxPackets = 2
    MaxLinks = 3
    QueueSize = 4
    DequeuedSize = 2
    InputSize = 2
    MaxWindow = 1
    BurstMax = 2
    MaxChanges = 2
    MaxLeaves = 1
INVARIANTS SlotSafe PacketsSound KeptAlive LinksCounted
PROPERTY ImplementsMac
