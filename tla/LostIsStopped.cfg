SPECIFICATION Spec
CONSTANTS
    Self = 2
    Ids = {1, 3}
    MaxActivePeers = 0
    MaxObjs = 2
    MaxStarts = 4
    MaxUpdates = 4
INVARIANT LostIsStopped
CHECK_DEADLOCK FALSE
