SPECIFICATION FairSpec
CONSTANTS
    a = a
    b = b
    c = c
    d = d
    t1 = t1
    t2 = t2
    Name <- MCName
    Thread = {t1}
    RawNames <- CyclicRaw
    TableNames <- CyclicTable
    References <- CyclicReferences
    GetNames = {a, b, c, d}
    PutNames = {a, c, d}
INVARIANTS
    RelationsResolved
PROPERTY
    ContractSpec
