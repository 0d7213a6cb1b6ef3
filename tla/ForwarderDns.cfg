\* Two tunnels, given up after two unanswered pings, and two clients that ask one
\* name with the same id, which a new list of domains moves to and fro between
\* the tunnels and the local resolver.
CONSTANTS
    Tun = {0, 1}
    PingLimit = 0
    Query <- MCQuery
    Client = {c1, c2}
    NoClient = NoClient
    Lists <- MCLists
    AskBound = 2
    Label <- MCLabel
    Empty = ""
SPECIFICATION FairSpec
CHECK_DEADLOCK FALSE
INVARIANTS NoStray DomapExact
PROPERTIES ImplementsPool PoolProgress StopQuiesces
