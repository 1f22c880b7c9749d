SPECIFICATION FairSpec
CONSTANTS
    Configs <- MCConfigs
    Addrs = {a1, a2}
    BufCap = 1
    MaxDiscs = 2
    Talkers = {t1, t2}
INVARIANTS
    OneAdvertisement FileIsWhole
    NothingLeftBehind PongsAreBounded TalkersListen
PROPERTIES EverythingEnds AdvertisedIsCurrent EveryMessageIsShown
CHECK_DEADLOCK FALSE
