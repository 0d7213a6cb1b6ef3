CONSTANTS
    TunCount = 1
    ReqCap = 2
    TagMod = 6
    TagBound = 4
    PingLimit = 0
    NoReq = NoReq
    Req = {r1, r2}
SPECIFICATION Spec
CHECK_DEADLOCK FALSE
PROPERTIES SendToPeerSucceeds
