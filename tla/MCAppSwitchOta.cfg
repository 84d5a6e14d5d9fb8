SPECIFICATION FairSpec
CHECK_DEADLOCK FALSE
CONSTANTS
    Apps = {btmusic, btcall, ap_record, ota}
    Ota = ota
    BtCall = btcall
    BtMusic = btmusic
    ApRecord = ap_record
    NoApp = NoApp
    Plugged = {btmusic}
    Launched = btmusic
    QBound = 3
    Windows = {"start"}
PROPERTY
    CallsReturn
