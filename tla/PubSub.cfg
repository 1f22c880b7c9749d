SPECIFICATION FairSpec
CONSTANTS
    c1 = c1
    Publishers = {p1}
    Chans = {c1, c2}
    Echo = {c1}
    BufCap <- MCBufCap
    MaxPubs = 3
PROPERTIES ImplementsBroadcast PubReturns StopEnds
CHECK_DEADLOCK FALSE
