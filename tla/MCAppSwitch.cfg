SPECIFICATION FairSpec
CONSTANTS
    Apps = {btmusic, btcall, ap_record, ota}
    Ota = ota
    BtCall = btcall
    BtMusic = btmusic
    ApRecord = ap_record
    NoApp = NoApp
    Plugged = {btmusic}
    Launched = btmusic
    QBound = 2
    Windows = {}
INVARIANTS
    CurIsActive
    OtaUninterrupted
    WakeBalanced
PROPERTIES
    ReturnsFromOta
    CallsReturn
    OtaLeaves
