CONSTANTS
\* Four threads on one item.
    Threads = {t1, t2, t3, t4}
    NoThread = NoThread
    Ops <- LockFirst
    Amounts = {2}
    Opening = 1
    None = None
    sThreads = {t1, t2, t3}
    kThreads = {t1, t2}
    kTools = {k1, k2}
    kUsers = {u1, u2}
    lThreads = {t1, t2}
    lOrders = {w1, w2}
    lWorkers = {u1, u2}
    lClocks = {c1, c2, c3}
SPECIFICATION MCSpec
INVARIANTS TypeOK NoLostUpdate LineIsAggregate
PROPERTIES StockRequestsEnd ToolRequestsEnd LaborRequestsEnd
CHECK_DEADLOCK FALSE
