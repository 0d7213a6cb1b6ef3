CONSTANTS
    ReqCap = 1
    PingLimit = 0
    TagBound = 1
    CountMod = 2
    NoReq = NoReq
    Req = {r1}
SPECIFICATION FairSpec
CHECK_DEADLOCK FALSE
PROPERTIES StopQuiesces
