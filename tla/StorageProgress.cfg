SPECIFICATION FairSpec
CONSTANTS
    i1 = i1
    m1 = m1
    m2 = m2
    Ids = {i1}
    Msgs <- MCMsgs
    NoMsg = NoMsg
    IdOf <- MCIdOf
    Chunks = {"a", "b"}
    Content <- MCContent
    Handlers = {h1, h2}
    Local = {h1}
    Readers = {}
    Peers = {}
    Infos = {none, sent}
    ZeroInfo = none
    MaxSize = 3
    MaxCrashes = 1
PROPERTIES LockIsReleased ExpiredIsRemoved
