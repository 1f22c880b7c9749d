SPECIFICATION FairSpec
CONSTANTS
    Inserters = {i1, i2}
    Minute = 9
    MaxTime = 3
    MaxDue = 2
    MaxInserts = 3
PROPERTIES ImplementsTimedQueue EveryElementIsPopped PopEnds
CHECK_DEADLOCK FALSE
