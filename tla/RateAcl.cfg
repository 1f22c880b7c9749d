SPECIFICATION FairSpec
CONSTANTS
    me = me
    a = a
    o = o
    z = z
    Callers <- All
    Pushers <- MCPushers
    Acl <- MCAcl
    Owner <- MCOwner
    Steps = 2
    Scale = 3
    Me = me
    MaxCalls = 3
    MaxAttempt = 40
INVARIANTS BoundedOvershoot DelayAsAnnounced
PROPERTY AdmittedInTheEnd
CHECK_DEADLOCK FALSE
