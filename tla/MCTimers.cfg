SPECIFICATION FairSpec
CONSTANTS
    Etimer = {e1}
    Ctimer = {c1}
    User = {u1}
    NULL = NULL
    Width = 6
    Intervals = {0, 2}
    Adjustments <- Earlier
    QueueSize = 1
    MaxPosts = 1
    MaxLag = 1
INVARIANTS ListSound ExpiredIsTrue ExpiryNoticed
PROPERTY ExpiryPosted
