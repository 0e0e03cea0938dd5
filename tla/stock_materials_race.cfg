CONSTANTS
    Threads = {t1, t2, t3}
    NoThread = NoThread
    Ops <- AllOps
    Amounts = {1, 2}
    Opening = 2
SPECIFICATION FairSpec
INVARIANTS NoLostUpdate
CHECK_DEADLOCK FALSE
