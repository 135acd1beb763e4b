SPECIFICATION Spec
CONSTANTS
    x = x
    y = y
    f = f
    t1 = t1
    t2 = t2
    Thread <- MCThread
    Obj <- MCObj
    Foreign <- MCForeign
    MaxRel = 2
    MaxLeft = 1
    Null = Null
SYMMETRY Alike
INVARIANTS
    Aligned
    RoundTrip
CHECK_DEADLOCK FALSE
