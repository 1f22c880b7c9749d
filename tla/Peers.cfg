SPECIFICATION FairSpec
CONSTANTS
    Self = 2
    Ids = {1, 3}
    MaxActivePeers = 1
    MaxObjs = 2
    MaxStarts = 3
    MaxUpdates = 3
INVARIANTS AtMostMaxActive EndsAfterPeers
PROPERTIES ChosenIsStarted StopEndsAll
CHECK_DEADLOCK FALSE
