SPECIFICATION Spec
CONSTANTS
    Threads = {t1}
    Main = t1
    k1 = k1
    k2 = k2
    Keys = {k1, k2}
    Vals = {v1}
    None = None
    NCache = 2
    MaxVotes = 2
    PrefixOf <- OnePrefix
    TooBig = {}
PROPERTY
    ByTargetKey
