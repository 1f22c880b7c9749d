SPECIFICATION FairSpec
CONSTANTS
    l1 = l1
    l2 = l2
    m1 = m1
    m2 = m2
    Loops = {l1, l2}
    Msgs = {m1, m2}
    NoMsg = NoMsg
    BatchSize = 1
    Scopes <- MCScopes
INVARIANTS NothingIsForgotten VerdictsAreTrue
PROPERTIES VerdictStays EveryMessageIsDelivered
CHECK_DEADLOCK FALSE
