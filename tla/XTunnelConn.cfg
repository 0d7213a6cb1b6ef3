\* One slot, two tasks and two requests per connection, so that a task can
\* outlive its slot and its connection; req_count wraps after its third value.
CONSTANTS
    ReqCap = 1
    PingLimit = 1
    TagBound = 2
    CountMod = 3
    NoReq = NoReq
    Req = {r1, r2}
SPECIFICATION FairSpec
CHECK_DEADLOCK FALSE
INVARIANT PeerWillKnow
PROPERTIES CountKeepsPace OwnFree SilentPeerIsDropped ImplementsPool PoolProgress
