\* One client, one address and one name, a TunMgr thread with up to two commands, with
\* any number of restarts, in global mode or not.  The cloud takes the URL of the reports away, or
\* that of the monitor, and may give the former back.
CONSTANTS
    Client = {c1}
    Client4 = {c1}
    Ip = {i1}
    Ip4 = {i1}
    Reserved = {}
    Special = {}
    Domain = {d1}
    NoName = NoName
    Cfg = {{"token", "cfg_monitor_url", "cfg_access_report_url"}, {"token", "cfg_monitor_url"}, {"token", "cfg_access_report_url"}}
    NTunMgr = 1
    MaxCtl = 2
    MaxIns = 2
SPECIFICATION FairSpec
CHECK_DEADLOCK FALSE
INVARIANTS RedirectedOnceResolved NamedByAnswer
PROPERTIES AccessReported
