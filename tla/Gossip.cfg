SPECIFICATION FairSpec
CONSTANTS
    Nodes = {1, 2, 3, 4}
    ActiveLimits = {1, 2}
    HopLimits <- MCHopLimits
    NoHops = NoHops
    MaxUpdates = 1
    MaxBreaks = 1
INVARIANT HopsAreAJourney
PROPERTY EveryoneGetsIt
CHECK_DEADLOCK FALSE
