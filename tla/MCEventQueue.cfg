SPECIFICATION QueueSpec
CONSTANTS
    Event = {e1, e2}
    NoEvent = NoEvent
    NumEvents = 4
    CharWidth = 8
PROPERTY ImplementsFifo
