CONSTANTS
    c1 = c1
    c2 = c2
    k1 = k1
    k2 = k2
    NoKey = NoKey
    Clients <- OneClient
    Keys <- MCKeys
    MaxUnread = 2
SPECIFICATION Spec
SYMMETRY KeySymmetry
PROPERTY PutIsShared
