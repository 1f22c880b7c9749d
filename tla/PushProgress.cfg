SPECIFICATION FairPushSpec
CONSTANTS
    i1 = i1
    m1 = m1
    m2 = m2
    s1 = s1
    Ids = {i1}
    Msgs = {m1}
    NoMsg = NoMsg
    IdOf <- MCIdOf
    Chunks = {"a", "b"}
    Content <- MCContent
    Handlers = {h1, h2}
    Local = {}
    Readers = {}
    Peers = {}
    Infos = {none}
    ZeroInfo = none
    MaxSize = 3
    MaxCrashes = 1
    Senders = {s1}
    Sends <- MCSends
    NoCall = NoCall
    MaxBreaks = 2
    MaxErrors = 2
PROPERTY EventuallyStored
CHECK_DEADLOCK FALSE
