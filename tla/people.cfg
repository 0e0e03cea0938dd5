\* One thread of shift requests, then two that cross, with the next midnight in reach.
CONSTANTS
    Components = {"alone", "crossing", "throttle", "window", "sessions", "push", "alerts"}
    Threads = {t1, t2}
    Workers = {w}
    Leads = {l}
    Admins = {a}
    Owners = {w}
    None = None
    Sends <- Alone
    DayLen = 2
    WeekLen = 1
    LaborCap = 1
    MaxNow = 3
    MaxPunches = 2
    MaxAudits = 1
    cSends <- Crossing
    cMaxNow = 2
\* Two accounts behind one address.
    gUsers = {u1, u2}
    gAddress = ip
    gPerIp = TRUE
    gFree = 0
    gPerIpFree = 1
    gBaseDelay = 1
    gMaxDelay = 2
    gTTL = 2
    gMaxNow = 3
    gMaxCount = 2
\* Two callers, a window of three ticks with room for two requests.
    wCallers = {u1, u2}
    wMaxRequests = 2
    wWindow = 3
    wSecond = 2
    wSweepInterval = 4
    wMaxNow = 6
    wMaxGrants = 4
\* An Owner and a person he manages.
    sUsers = {a, w}
    sStartRank <- Ranked
    sOwner = 2
    sSends <- Managing
    sLifetime = 1
    sMaxNow = 2
    sMaxSessions = 2
    sMaxEpoch = 1
\* One device two people use, two endpoints its browser may mint, one sender.
    pDevices = {d1}
    pUsers = {u1, u2}
    pSenders = {f1}
    pEndpoints = {e1, e2}
\* One item, two clerks.
    aSends <- Clerks
    aMaxQty = 2
    aMaxThreshold = 2
    aMaxAsks = 2
    t1 = t1
    t2 = t2
    w = w
    a = a
SPECIFICATION PersonnelSpec
INVARIANTS TimesheetHolds AccessHolds AlertsHold
PROPERTIES RecordStands AccessStands
CHECK_DEADLOCK FALSE
