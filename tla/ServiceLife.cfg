\* Six subservices: two TunMgr threads, ReqMgr, Forwarder, UdpX and XTunnel; three versions
\* of the domains, which the cloud may change to in any order.
CONSTANTS
    NSubs = 6
    Version = {v1, v2, v3}
    NoVersion = NoVersion
SPECIFICATION FairSpec
CHECK_DEADLOCK FALSE
INVARIANTS OneChain RulesAreServed DomainsCurrent CleanExit
PROPERTIES KeepsTrying SignalStops
