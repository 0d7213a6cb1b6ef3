\* Two tunnels with one usable slot each, and no wrap-around of tags: TagBound
\* allows two allocations of a slot in the life of a tunnel.
CONSTANTS
    TunCount = 2
    ReqCap = 2
    TagMod = 6
    TagBound = 3
    PingLimit = 0
    NoReq = NoReq
    Req = {r1, r2}
SPECIFICATION Spec
SYMMETRY ReqSymmetry
CHECK_DEADLOCK FALSE
INVARIANTS OneOwner UsableIsFound
PROPERTIES OwnFree
