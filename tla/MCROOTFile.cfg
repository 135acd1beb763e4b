SPECIFICATION Spec
CONSTANTS
    Category <- MCCategories
    Name <- MCNames
    Size <- MCSize
    Rank <- MCRank
    Related = {"a"}
    Frame <- MCFrames
    Contents <- MCContents
    Known <- MCKnown
    Requests <- MCRequests
    Limits <- MCLimits
    ParamBranches = ParamBranches
    Index = {1, 3, 5}
    MaxEntries = 3
    MaxFiles = 3
    Torn = Torn
    Unopened = Unopened
INVARIANTS InfoMatchesEntries NoFalseAlarm StaleOnlyAfterLapse
PROPERTY LogSpec
CHECK_DEADLOCK FALSE
