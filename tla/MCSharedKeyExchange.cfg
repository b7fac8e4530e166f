CONSTANTS
    c1 = c1
    c2 = c2
    k1 = k1
    k2 = k2
    NoKey = NoKey
    Clients <- MCClients
    Keys <- MCKeys
    MaxUnread = 2
SPECIFICATION Spec
SYMMETRY Symmetry
CONSTRAINT Unspoilt
INVARIANTS
    TypeOK
    Agreement
    NoGarbage
