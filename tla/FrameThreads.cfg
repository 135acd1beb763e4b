SPECIFICATION FairSpec
CONSTANTS
    a = a
    b = b
    c = c
    d = d
    t1 = t1
    t2 = t2
    Name <- MCName
    Thread = {t1, t2}
    RawNames <- SharedRaw
    TableNames <- SharedTable
    References <- SharedReferences
    GetNames = {a, b, c}
    PutNames = {a, d}
INVARIANTS
    TypeOK
    BuffersOnce
    NothingLost
    OneSetter
    RelationsValid
PROPERTIES
    EntriesStable
    GetsReturn
