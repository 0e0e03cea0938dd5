CONSTANTS
    Orders = {w1}
    Workers = {u1}
    Threads = {t1}
    None = None
    Clocks = {c1}
    Legacy = {}
    Ops <- PunchingOut
SPECIFICATION Spec
INVARIANT BilledOnce
CHECK_DEADLOCK FALSE
