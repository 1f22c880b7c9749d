SPECIFICATION Spec
CONSTANTS
    i1 = i1
    m1 = m1
    m2 = m2
    Ids = {i1}
    Msgs <- MCMsgs
    NoMsg = NoMsg
    IdOf <- MCIdOf
    Chunks = {"a", "b"}
    Content <- MCContent
    Handlers = {h1, h2}
    Local = {h1, h2}
    Readers = {r1}
    Peers = {p1}
    Infos = {none, sent}
    ZeroInfo = none
    MaxSize = 2
    MaxCrashes = 1
INVARIANTS LockDiscipline DoneMeansVerified ReadersSeeVerifiedContent
PROPERTIES CompleteIsFinal TransferOnlyAppends
SYMMETRY Symmetric
