\* A subscription with up to two connections at a time and a direct start,
\* with one process that may crash, hang in its start or end a stream before
\* the one that stays, and a change of the profile.
CONSTANTS
    k1 = k1
    k2 = k2
    k3 = k3
    d1 = d1
    Clients = {k1, k2}
    Directs = {d1}
    NoConn = NoConn
    MaxProcs = 2
    MaxRestarts = 1
    Linger = FALSE
SPECIFICATION StreamsFairSpec
CHECK_DEADLOCK FALSE
INVARIANTS
    OneAgentProcess
    OneListener
PROPERTIES
    SubscriptionIsServed
