SPECIFICATION FairSpec
CONSTANTS
    Size = 4
    Byte <- MCByte
    NoByte = NoByte
    NumEvents = 3
    Reserve = 2
    MaxLines = 3
    MaxColumns = 4
INVARIANTS RingInv LineSound
PROPERTIES ImplementsFifo AllHandled
CHECK_DEADLOCK FALSE
