SPECIFICATION Spec
CONSTANTS
    podio = podio
    podioSio = podioSio
    edm = edm
    edmSio = edmSio
    ext = ext
    extSio = extSio
    user = user
    hit = hit
    link = link
    datamodel = datamodel
    json = json
    json2 = json2
    extension = extension
    evolve = evolve
    p = p
    q = q
    r = r
    Library <- MCLibrary
    Needs <- MCNeeds
    SIOLibrary <- MCSIOLibrary
    Type <- MCType
    TypesOf <- MCTypesOf
    Current <- MCCurrent
    Package = {datamodel, extension}
    PackageOf <- MCPackageOf
    Definition <- MCDefinition
    Evolution <- MCEvolution
    Paths <- MCPaths
    Broken = {extSio}
    NoOp = NoOp
    None = None
    Entry <- MCEntry
    Limits <- MCLimits
    Name <- MCName
    UserData = {user}
    Links = {link}
    NoData = NoData
INVARIANTS
    CreatedCanEvolve
    DefinitionsComplete
    BuffersOwnedOnce
    AnswersComplete
    StopsOnlyAtUnreadable
CHECK_DEADLOCK FALSE
