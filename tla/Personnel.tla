------------------------------ MODULE Personnel ------------------------------
(***************************************************************************)
(* People, one component at a time: their shifts (one request at a time,   *)
(* then two), the login throttle, the request limiter, their sessions,     *)
(* their push devices and the low-stock alerts pushed to them.  Threads    *)
(* and None are the same for all; the other constants of a component carry *)
(* its letter, as its variables do.                                        *)
(***************************************************************************)
EXTENDS Attendance

CONSTANT Components   \* the components a run goes through

VARIABLE on   \* the component that runs

-----------------------------------------------------------------------------
\* The shifts again, with other requests and another horizon.
CONSTANTS cSends, cMaxNow
Cross == INSTANCE Attendance WITH Sends <- cSends, MaxNow <- cMaxNow

-----------------------------------------------------------------------------
CONSTANTS gUsers, gAddress, gPerIp, gFree, gPerIpFree, gBaseDelay, gMaxDelay, gTTL,
          gMaxNow, gMaxCount
VARIABLES gNow, gRow, gJob, gBroken, gFails, gCrossed
Throttle == INSTANCE LoginThrottle WITH
    now <- gNow, row <- gRow, job <- gJob, broken <- gBroken, fails <- gFails,
    crossed <- gCrossed, Users <- gUsers, Address <- gAddress, PerIp <- gPerIp,
    Free <- gFree, PerIpFree <- gPerIpFree, BaseDelay <- gBaseDelay,
    MaxDelay <- gMaxDelay, TTL <- gTTL, MaxNow <- gMaxNow, MaxCount <- gMaxCount
LoginThrottleVars == <<gNow, gRow, gJob, gBroken, gFails, gCrossed>>

\* The curve's numbers, a lock never longer than a counter is kept (15 minutes
\* against a day), an address that is no user, and None neither a row nor a time.
ThrottleConstantsOK ==
    /\ {gFree, gPerIpFree, gBaseDelay, gMaxDelay, gTTL, gMaxNow, gMaxCount} \subseteq Nat
    /\ gMaxDelay <= gTTL
    /\ gPerIp \in BOOLEAN
    /\ gAddress \notin gUsers
    /\ None \notin Throttle!AttemptRows /\ None \notin 0 .. (gMaxNow + gMaxDelay)
ASSUME ThrottleAssumption == ThrottleConstantsOK

-----------------------------------------------------------------------------
CONSTANTS wCallers, wMaxRequests, wWindow, wSecond, wSweepInterval, wMaxNow, wMaxGrants
VARIABLES wNow, wBucket, wLastSweep, wGranted, wPromise
Limiter == INSTANCE SlidingWindow WITH
    now <- wNow, bucket <- wBucket, lastSweep <- wLastSweep,
    granted <- wGranted, promise <- wPromise, Callers <- wCallers,
    MaxRequests <- wMaxRequests, Window <- wWindow, Second <- wSecond,
    SweepInterval <- wSweepInterval, MaxNow <- wMaxNow, MaxGrants <- wMaxGrants
SlidingWindowVars == <<wNow, wBucket, wLastSweep, wGranted, wPromise>>

\* The cap and the bounds are numbers, and a second is at least a tick.
LimiterConstantsOK ==
    /\ {wMaxRequests, wWindow, wSweepInterval, wMaxNow, wMaxGrants} \subseteq Nat
    /\ wSecond \in Nat \ {0}
ASSUME LimiterAssumption == LimiterConstantsOK

-----------------------------------------------------------------------------
CONSTANTS sUsers, sStartRank, sOwner, sSends, sLifetime, sMaxNow, sMaxSessions, sMaxEpoch
VARIABLES sNow, sAccount, sSession, sJob, sCrossed
Access == INSTANCE Sessions WITH
    now <- sNow, account <- sAccount, session <- sSession, job <- sJob,
    crossed <- sCrossed, Users <- sUsers, StartRank <- sStartRank,
    Owner <- sOwner, Sends <- sSends, Lifetime <- sLifetime, MaxNow <- sMaxNow,
    MaxSessions <- sMaxSessions, MaxEpoch <- sMaxEpoch
SessionsVars == <<sNow, sAccount, sSession, sJob, sCrossed>>

\* Ranks are counted from zero to the Owner's; the bounds are numbers.
AccessConstantsOK ==
    /\ sOwner \in Nat /\ sMaxNow \in Nat /\ sLifetime \in Nat /\ sMaxEpoch \in Nat
    /\ sStartRank \in [sUsers -> Access!Ranks]
ASSUME AccessAssumption == AccessConstantsOK

-----------------------------------------------------------------------------
CONSTANTS pDevices, pUsers, pSenders, pEndpoints
VARIABLES pSignedIn, pEndpoint, pMinted, pServed, pRows, pArchived, pPost,
          pSend
Push == INSTANCE PushDevices WITH
    signedIn <- pSignedIn, endpoint <- pEndpoint, minted <- pMinted,
    served <- pServed, rows <- pRows, archived <- pArchived, post <- pPost,
    send <- pSend, Devices <- pDevices, Users <- pUsers, Senders <- pSenders,
    Endpoints <- pEndpoints
PushDevicesVars == <<pSignedIn, pEndpoint, pMinted, pServed, pRows,
                     pArchived, pPost, pSend>>

-----------------------------------------------------------------------------
CONSTANTS aSends, aMaxQty, aMaxThreshold, aMaxAsks
VARIABLES aQuantity, aThreshold, aArchived, aPriced, aLinked, aAsks, aLoose,
          aPage, aPushes, aBorn, aLock, aJob
Alerts == INSTANCE ItemAlerts WITH
    quantity <- aQuantity, threshold <- aThreshold, archived <- aArchived,
    priced <- aPriced, linked <- aLinked, asks <- aAsks, loose <- aLoose,
    page <- aPage, pushes <- aPushes, born <- aBorn, lock <- aLock,
    job <- aJob, Sends <- aSends, MaxQty <- aMaxQty,
    MaxThreshold <- aMaxThreshold, MaxAsks <- aMaxAsks
ItemAlertsVars == <<aQuantity, aThreshold, aArchived, aPriced, aLinked,
                    aAsks, aLoose, aPage, aPushes, aBorn, aLock, aJob>>

\* The bounds are numbers, None is no thread, and threads send what the routes take.
AlertsConstantsOK ==
    /\ aMaxQty \in Nat /\ aMaxThreshold \in Nat \ {0} /\ aMaxAsks \in Nat
    /\ None \notin Threads
    /\ \A t \in Threads :
        aSends[t] \subseteq {"stock", "retune", "edit", "attach", "fulfil", "archive"}
ASSUME AlertsAssumption == AlertsConstantsOK

-----------------------------------------------------------------------------
\* Only the component chosen at the start takes steps.
PersonnelInit ==
    /\ on \in Components
    /\ Init
    /\ Throttle!Init
    /\ Limiter!Init
    /\ Access!Init
    /\ Push!Init
    /\ Alerts!Init
    /\ on # "alerts" => aQuantity = 0 /\ ~aPriced /\ ~aLinked

PersonnelNext ==
    /\ UNCHANGED on
    /\ \/ /\ on = "alone" /\ Next
          /\ UNCHANGED <<LoginThrottleVars, SlidingWindowVars, SessionsVars,
                         PushDevicesVars, ItemAlertsVars>>
       \/ /\ on = "crossing" /\ Cross!Next
          /\ UNCHANGED <<LoginThrottleVars, SlidingWindowVars, SessionsVars,
                         PushDevicesVars, ItemAlertsVars>>
       \/ /\ on = "throttle" /\ Throttle!Next
          /\ UNCHANGED <<vars, SlidingWindowVars, SessionsVars,
                         PushDevicesVars, ItemAlertsVars>>
       \/ /\ on = "window" /\ Limiter!Next
          /\ UNCHANGED <<vars, LoginThrottleVars, SessionsVars,
                         PushDevicesVars, ItemAlertsVars>>
       \/ /\ on = "sessions" /\ Access!Next
          /\ UNCHANGED <<vars, LoginThrottleVars, SlidingWindowVars,
                         PushDevicesVars, ItemAlertsVars>>
       \/ /\ on = "push" /\ Push!Next
          /\ UNCHANGED <<vars, LoginThrottleVars, SlidingWindowVars,
                         SessionsVars, ItemAlertsVars>>
       \/ /\ on = "alerts" /\ Alerts!Next
          /\ UNCHANGED <<vars, LoginThrottleVars, SlidingWindowVars,
                         SessionsVars, PushDevicesVars>>

PersonnelVars == <<on, vars, LoginThrottleVars, SlidingWindowVars,
            SessionsVars, PushDevicesVars, ItemAlertsVars>>
PersonnelSpec == PersonnelInit /\ [][PersonnelNext]_PersonnelVars

-----------------------------------------------------------------------------
\* Failures are counted once and spaced as far as the delays they earned, no
\* window lets more than the cap through and who waits the Retry-After seconds
\* is let through, no session outlives a change of its account unless the two
\* overlapped, and a browser's endpoint belongs to one person
\* (login_throttle.py, rate_limit.py, auth.py, push.py).
AccessHolds ==
    /\ on = "throttle" => Throttle!TypeOK /\ Throttle!CountsFailures /\ Throttle!BackoffHolds
    /\ on = "window" => Limiter!TypeOK /\ Limiter!CapHolds /\ Limiter!RetryWorks
    /\ on = "sessions" => Access!TypeOK /\ Access!SessionsAreCurrent /\ Access!ShownRoleIsLive
    /\ on = "push" => Push!TypeOK /\ Push!OneClaim

\* Each fall below the threshold is announced once, the Low Stock page shows
\* what is low, and the price queue agrees with the item (items.py, low_stock.py).
AlertsHold ==
    on = "alerts" =>
        /\ Alerts!TypeOK /\ Alerts!LowIsAnnounced /\ Alerts!PageSettles /\ Alerts!PriceQueue

\* The sweep of old counters lifts no lock that still runs, nobody below the cap
\* is refused, nobody becomes an Owner and no Owner is changed, and the clean-up
\* after a push spares the endpoints still served (login_throttle.py,
\* rate_limit.py, users.py, push.py).
AccessStands ==
    /\ Throttle!SweepKeepsLocks /\ Limiter!RefusedOnlyAtCap
    /\ Access!OwnersAreFixed /\ Push!LiveStaysSubscribed
=============================================================================
