SPECIFICATION FairSpec
CONSTANTS
    Threads = {t1, t2}
    Main = t1
    k1 = k1
    k2 = k2
    Keys = {k1, k2}
    Vals = {v1, v2}
    None = None
    NCache = 2
    MaxVotes = 2
    PrefixOf <- NoPrefix
    TooBig = {v2}
INVARIANTS
    OneSlotPerKey
    FlushAllPersists
PROPERTIES
    FlushReqServed
    RefinesStore
