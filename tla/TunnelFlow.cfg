\* One request and more data than its quota; the client reports by twos.
CONSTANTS
    ReqCap = 2
    TagMod = 4
    Quota = 4
    MaxDown = 7
    MaxUp = 0
    NoReq = NoReq
    Req = {r1}
SPECIFICATION FairSpec
CHECK_DEADLOCK FALSE
INVARIANTS QuotaConserved
PROPERTIES QuotaReturns BothEndsClose
