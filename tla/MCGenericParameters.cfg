SPECIFICATION Spec
CONSTANTS
    setter = setter
    loader = loader
    reader = reader
    int = int
    double = double
    k1 = k1
    k2 = k2
    x = x
    None = None
    Thread <- MCThread
    Type <- MCType
    Key <- MCKey
    Value <- MCValue
    Vector <- MCVector
    Batch <- MCBatch
    Calls <- MCCalls
INVARIANTS
    ReadsStayTrue
PROPERTIES
    StoreSpec
