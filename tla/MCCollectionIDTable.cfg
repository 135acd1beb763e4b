SPECIFICATION Spec
CONSTANTS
    a = a
    b = b
    c = c
    t1 = t1
    t2 = t2
    Name <- MCName
    ID <- MCID
    Hash <- MCHash
    FileNames <- MCFileNames
    FileIDs <- MCFileIDs
    Thread <- MCThread
INVARIANTS
    TypeOK
    Consistent
    RoundTrip
    CopyIDsRight
PROPERTIES
    IDsStable
    RegistrySpec
