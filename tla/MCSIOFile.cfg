SPECIFICATION Spec
CONSTANTS
    events = events
    runs = runs
    f = f
    g = g
    Category <- MCCategory
    EDMDefinitions = EDMDefinitions
    Frame <- MCFrame
    None = None
    Torn = Torn
    Unopened = Unopened
    PositionRange = 9
    MaxRecords = 5
    Index = {1}
SYMMETRY Alike
INVARIANTS
    TOCLeadsToHeaders
    ReaderSeesAll
PROPERTY
    LogSpec
