\* A byte has four values, so that lengths need both bytes of a header; a message
\* holds one or two bytes of data, four bytes are sent, and a UDP packet may be
\* too long.
CONSTANTS
    Base = 4
    DEFAULT_CAP = 6
    THEADER_SIZE = 1
    TMESSAGE_KEEP = 4
    DataLen = 4
    UdpSizes = {7}
    RequestLen = 2
SPECIFICATION FairSpec
CHECK_DEADLOCK FALSE
INVARIANTS FramesIntact
PROPERTIES AllArrives
