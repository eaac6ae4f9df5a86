SPECIFICATION FairSpec
CONSTANTS
    Node = {n1, n2}
    NoMail = NoMail
    Imin = 2
    Imax = 1
    K = 1
    Clock = 16
    Token = 4
    FirstToken = 2
    MaxTokens = 4
    MaxLag = 2
INVARIANTS NeverStalls IntervalSound
PROPERTIES NoRegress Agreement
