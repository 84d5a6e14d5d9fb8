SPECIFICATION FairSpec
CONSTANTS
    Apps = {btmusic, btcall, ota}
    Default = btmusic
    CanFail = {btmusic}
    Linger = {ota}
    Clients = {main, work}
    Main = main
    Switchers = {main}
    Notifiers = {work}
    None = None
    NTerm = 3
    NMsg = 6
    PostBound = 1
    JoinTimeout = FALSE
INVARIANTS
    StackExclusive
    CurrentIsRunning
PROPERTIES
    CallsReturn
    SwitchSucceeded
