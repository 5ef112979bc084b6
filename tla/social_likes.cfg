SPECIFICATION Spec
CONSTANTS
    Attempts = {1, 2, 3, 4, 5, 6}
    Request <- MCRequest
    Targets <- MCTargets
    NoKey = NoKey
    Nobody = Nobody
    u1 = u1
    u2 = u2
    p1 = p1
    k1 = k1
INVARIANT LikesShownAreLikes
CHECK_DEADLOCK FALSE
