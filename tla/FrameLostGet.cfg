SPECIFICATION Spec
CONSTANTS
    a = a
    b = b
    c = c
    d = d
    t1 = t1
    t2 = t2
    Name <- MCName
    Thread = {t1, t2}
    RawNames <- SharedRaw
    TableNames <- SharedTable
    References <- SharedReferences
    GetNames = {a, b}
    PutNames = {}
INVARIANT GetFindsAvailable
