SPECIFICATION PushSpec
CONSTANTS
    i1 = i1
    m1 = m1
    m2 = m2
    s1 = s1
    Ids = {i1}
    Msgs = {m1, m2}
    NoMsg = NoMsg
    IdOf <- MCIdOf
    Chunks = {"a", "b"}
    Content <- MCContent
    Handlers = {h1, h2}
    Local = {}
    Readers = {}
    Peers = {}
    Infos = {none}
    ZeroInfo = none
    MaxSize = 3
    MaxCrashes = 1
    Senders = {s1, s2}
    Sends <- MCSends
    NoCall = NoCall
    MaxBreaks = 1
    MaxErrors = 1
INVARIANTS SentIsStored PublishedIsComplete CompleteIsPublished ContentIsPrefix
PROPERTY ImplementsFileStorage
SYMMETRY Symmetric
CHECK_DEADLOCK FALSE
