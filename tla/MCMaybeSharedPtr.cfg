SPECIFICATION Spec
CONSTANTS
    o1 = o1
    o2 = o2
    h1 = h1
    h2 = h2
    h3 = h3
    h4 = h4
    c1 = c1
    c2 = c2
    Nothing = Nothing
    Obj <- MCObj
    Handle <- MCHandle
    Coll <- MCColl
INVARIANTS
    CountsRight
    OwnershipRight
PROPERTIES
    SingleOwner
CHECK_DEADLOCK FALSE
