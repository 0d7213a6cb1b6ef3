\* Two addresses and two stubs, so that the stub of an address is built again
\* while the task of the last one has not ended, and three numbers of file
\* descriptors, which other threads use as well.
CONSTANTS
    Addr = {a1, a2}
    Stub = {s1, s2}
    NoStub = NoStub
    Fd = {3, 4, 5}
    Free = Free
    Other = Other
SPECIFICATION FairSpec
CHECK_DEADLOCK FALSE
INVARIANTS CacheSound
PROPERTIES SocketsOwned StubsEnd
