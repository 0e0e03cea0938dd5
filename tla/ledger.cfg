\* The crib: one tool, two users, three threads.
CONSTANTS
    Components = {"ledger", "recounts", "truck"}
    Clerks = {t1, t2}
    Threads = {t1, t2, t3}
    Tools = {k1}
    Users = {u1, u2}
    None = None
    Ops <- EveryCall
    Amounts = {2}
    Opening = 2
    HeldAtStart = {0, 1}
\* The ledger: two rooms, three rows.
    hRooms <- TwoRooms
    hPlanned <- OneEach
    hMoves <- EveryMovement
    hRecounts <- Recounting
    hAmounts = {1, 3}
    hOpening = 1
    hMaxRows = 3
\* One work order's queue.
    qOrders = {o1}
    qMinHand <- Short
    qMaxHand = 1
    qMaxRows = 3
    qShelf <- Shelf
    qShelfFiled = 2
    qShelfLine = 1
    qFulfil <- Fulfilment
    qFulfilFiled = 3
    qFulfilLine = 2
\* Two codes two items fight over.
    iCodes = {c1, c2}
    iSends <- Coding
    iMaxItems = 2
\* One dispense, two exports at a time, three sheets.
    xDispenses = {d1}
    xMaxNow = 3
    xMaxSheets = 3
\* Two stages of two buildings.
    pSends <- Planners
    pStageIds = {s1, s2}
    pBuildings = {b1, b2}
    pOrders = {o1}
    pMaxSlots = 2
    pMaxStock = 2
    pMaxQty = 2
    pMaxSent = 6
    t1 = t1
    t2 = t2
    w1 = w1
    w2 = w2
SPECIFICATION StoreroomSpec
INVARIANT LedgerHolds
PROPERTIES FlagsHold TruckHolds
CHECK_DEADLOCK FALSE
