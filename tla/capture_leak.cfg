CONSTANTS
    Components = {"capture"}
    Clients = {a}
    UserOf <- OneUser
    Writers = {w1}
    Conns = {k1, k2}
    HandoffMax = 1
    QueueMax = 1
    ConnsPerUser = 1
    MaxRestarts = 1
    LastVersion = 2
    MaxFaults = 2
    None = None
    a = a
    w1 = w1
    w2 = w2
    k1 = k1
    k2 = k2
    t1 = t1
    t2 = t2
    o1 = o1
SPECIFICATION FairSpec
PROPERTY BrowsersAreReleased
CHECK_DEADLOCK FALSE
