\* One usable slot, so that two requests use it in turn while the task of the
\* first may still be running.  Two messages from the server: the first can end
\* the request (the write fails) while the second is on its way.  The quota is
\* large enough for no report to be due (TunnelFlow has the reports).
CONSTANTS
    ReqCap = 2
    TagMod = 8
    Quota = 6
    MaxDown = 2
    MaxUp = 1
    NoReq = NoReq
    Req = {r1, r2}
SPECIFICATION Spec
SYMMETRY ReqSymmetry
CHECK_DEADLOCK FALSE
INVARIANTS SlotFreeAtServer NothingAfterEnd
PROPERTIES ImplementsSessions
