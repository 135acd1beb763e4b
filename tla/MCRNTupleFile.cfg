SPECIFICATION TupleSpec
CONSTANTS
    Category <- MCCategories
    Name <- MCNames
    Size <- MCSize
    Rank <- MCRank
    Frame <- MCFrames
    Contents <- MCContents
    NoField = {"e"}
    NoBuffers = {"dd"}
    Requests <- MCRequests
    Limits <- MCLimits
    Index = {1, 2}
    MaxEntries = 2
    MaxFiles = 2
    MaxOpened = 3
    None = None
INVARIANTS MetadataFitsFields AnswersRight
CHECK_DEADLOCK FALSE
