SPECIFICATION LinkSpec
CONSTANTS
    l1 = l1
    l2 = l2
    a1 = a1
    b1 = b1
    Link <- MCLink
    From <- MCFrom
    To <- MCTo
    Weight = {1, 2}
    Default = 1
    MaxLen = 1
    Null = Null
INVARIANTS
    LinksNumbered
    RoundTrip
    NavigatorInverse
CHECK_DEADLOCK FALSE
