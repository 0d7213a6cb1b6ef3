\* One tunnel with two usable slots, given up after three unanswered pings, and
\* two request tasks, so that a slow one survives its tunnel and its slot.
\* Tags wrap around after two allocations of a slot, and TagBound does not keep
\* them from it.
CONSTANTS
    TunCount = 1
    ReqCap = 3
    TagMod = 4
    TagBound = 4
    PingLimit = 2
    NoReq = NoReq
    Req = {r1, r2}
SPECIFICATION FairSpec
CHECK_DEADLOCK FALSE
INVARIANTS SlotAccounting SlotOwned
PROPERTIES SilentPeerIsDropped ImplementsPool PoolProgress StopQuiesces
