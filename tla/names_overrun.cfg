CONSTANTS
    Components = {"names"}
    Orders = {o1}
    Workers = {u1, u2}
    Threads = {t1}
    Clocks = {c1, c2, c3}
    Legacy = {}
    Ops <- OneStep
    Clerks = {t1, t2}
    eBoth = {o1, o2}
    eOne = {o1}
    eWorkers = {u1}
    eSupervisors = {v1}
    eMoving <- Moving
    eOneOrder <- OneOrder
    eLeaving <- Leaving
    iRows = {r1, r2}
    iNumbers = {n1, n2}
    iTasks = {k1}
    iPlaces = {p1}
    iSupervisors = {v1}
    iWorkers = {u1}
    iNameOf <- SameName
    iFiles <- CsvFiles
    iOps <- Importing
    bRows = {r1, r2}
    bNumbers = {n1, n2, n3}
    bBadNumbers = {n3}
    bUrgent = {n1, n3}
    bMaxEdits = 2
    bMaxLosses = 2
    nMaxAttempts = 2
    nExports <- TwoFiles
    cAlone <- OneEditor
    cTogether <- TwoEditors
    cAloneWrites = 3
    cTogetherWrites = 2
    cRows = {l1, l2}
    cWorkers = {u1, u2}
    cVendors = {v1}
    cVendorOf <- OneVendor
    cDays = {d1, d2}
    cWeeks = {1, 2}
    cWeekOf <- WeekPerDay
    sSends <- Uploaded
    sNumbers = {n1, n2}
    sSheet <- VendorSheet
    sReviewed = {n1, n2}
    sBreakdown = {n2}
    sMaxEdits = 2
    sMaxUploads = 3
    sMaxCrashes = 1
    wLastWeek = 3
    wMaxHours = 1
    mCrews = {c1, c2}
    mHeads <- HeadsOf
    mEach <- HoursOf
    mNames = {p, q, r}
    mWorkerOf <- TwoSpellings
    mMaxRuns = 2
    mMaxHours = 3
    None = None
    t1 = t1
    t2 = t2
    u1 = u1
    u2 = u2
    v1 = v1
    n1 = n1
    n2 = n2
    k1 = k1
    p1 = p1
    nm = nm
    d1 = d1
    d2 = d2
    c1 = c1
    c2 = c2
    p = p
    q = q
    r = r
SPECIFICATION OrderDeskSpec
PROPERTY NamesFitInvoice
CHECK_DEADLOCK FALSE
