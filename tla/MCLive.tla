-------------------------------- MODULE MCLive --------------------------------
(***************************************************************************)
(* What must eventually happen outside the database: the real-time layer   *)
(* and a screen behind it, one user's NetFacilities sign-in with the chain *)
(* of import and enrichment it feeds, and the queue of requests, whose     *)
(* transactions wait for each other's rows.                                *)
(***************************************************************************)
EXTENDS Realtime, TLC

CONSTANT Components   \* the components a run goes through
CONSTANTS a, w1, w2, k1, k2, t1, t2, o1

VARIABLE on   \* the component that runs

OneUser == [c \in Clients |-> 1]

-----------------------------------------------------------------------------
\* One screen, two connections, as the cfg says.

-----------------------------------------------------------------------------
\* Two ceremonies, a file exported in the first.
OneFile == <<1, 0>>
VARIABLES nCer, nPolling, nLate, nReleases, nFiles, nChain, nImported,
          nSaved, nJob
Capture == INSTANCE CloudCapture WITH
    cer <- nCer, polling <- nPolling, late <- nLate, releases <- nReleases,
    files <- nFiles, chain <- nChain, imported <- nImported, saved <- nSaved,
    job <- nJob, MaxAttempts <- 2, Exports <- OneFile
CloudCaptureVars == <<nCer, nPolling, nLate, nReleases, nFiles, nChain,
                      nImported, nSaved, nJob>>

-----------------------------------------------------------------------------
\* One work order's queue and shelf; two fulfilments may lock two rows crosswise.
Filing == t1 :> {"ask", "fulfil", "reopen"} @@ t2 :> {"fulfil", "cancel"}
VARIABLES rOnHand, rClosed, rReq, rLine, rLogged, rFilled, rItemLock,
          rRowLock, rJob
Queue == INSTANCE Requests WITH
    onHand <- rOnHand, closed <- rClosed, req <- rReq, line <- rLine,
    logged <- rLogged, filled <- rFilled, itemLock <- rItemLock,
    rowLock <- rRowLock, job <- rJob, Threads <- {t1, t2}, Orders <- {o1},
    Sends <- Filing, MinHand <- -1, MaxHand <- 1, MaxRows <- 4,
    MaxFiled <- 4, MaxLine <- 4
RequestsVars == <<rOnHand, rClosed, rReq, rLine, rLogged, rFilled, rItemLock,
                  rRowLock, rJob>>

-----------------------------------------------------------------------------
\* Only the component chosen at the start takes steps.
MCInit ==
    /\ on \in Components
    /\ Init
    /\ Capture!Init
    /\ Queue!Init

MCNext ==
    /\ UNCHANGED on
    /\ \/ /\ on = "hub" /\ Next
          /\ UNCHANGED <<CloudCaptureVars, RequestsVars>>
       \/ /\ on = "capture" /\ Capture!Next
          /\ UNCHANGED <<vars, RequestsVars>>
       \/ /\ on = "queue" /\ Queue!Next
          /\ UNCHANGED <<vars, CloudCaptureVars>>

MCVars == <<on, vars, CloudCaptureVars, RequestsVars>>
MCSpec == MCInit /\ [][MCNext]_MCVars

\* Each component's own fairness, while it is the one that runs.
HubRuns(A) == on = "hub" /\ A
HubFairness ==
    /\ \A w \in Writers : WF_vars(HubRuns(EmitAppend(w))) /\ WF_vars(HubRuns(EmitWake(w)))
    /\ WF_vars(HubRuns(Dispatch))
    /\ \A c \in Clients :
         /\ WF_vars(HubRuns(\E k \in Conns : Resolve(c, k)))
         /\ WF_vars(HubRuns(screen[c] = Blank /\ Activate(c)))
         /\ WF_vars(HubRuns(Opened(c))) /\ WF_vars(HubRuns(Reconnect(c)))
         /\ WF_vars(HubRuns(NoticeLoss(c)))
    /\ \A k \in Conns : /\ WF_vars(HubRuns(Register(k))) /\ WF_vars(HubRuns(SendPump(k)))
                        /\ WF_vars(HubRuns(Revalidate(k))) /\ WF_vars(HubRuns(Finish(k)))
CaptureFairness ==
    /\ \A n \in 1..2 : /\ WF_CloudCaptureVars(on = "capture" /\ Capture!Late(n))
                      /\ WF_CloudCaptureVars(on = "capture" /\ Capture!PollStep(n))
    /\ \A r \in 0..2 : WF_CloudCaptureVars(on = "capture" /\ Capture!ChainStep(r))
QueueFairness ==
    \A t \in {t1, t2} : SF_RequestsVars(on = "queue" /\ Queue!Step(t))
FairSpec == MCSpec /\ HubFairness /\ CaptureFairness /\ QueueFairness

\* An open ceremony's browser is released in the end (netfacilities_cloud_auth.py).
BrowsersAreReleased == Capture!BrowsersAreReleased

\* No player is shown for a browser that was let go (netfacilities_cloud_auth.py).
PlayerIsHeld == Capture!PlayerIsHeld

\* A ceremony comes to one end, its rented browser is let go and every chain of
\* import and enrichment ends, unless a start fails after renting, an exception
\* ends the poll or the chain, or its user cancels (netfacilities_cloud_auth.py,
\* netfacilities_cloud_chain.py).
CaptureEnds ==
    Capture!EndsOnce /\ Capture!BrowsersAreLetGo /\ Capture!ChainEnds

\* Every transaction on a queue ends, also when two fulfilments lock the rows of
\* one pair of requests in opposite orders (user_requests.py, material_requests.py).
QueueMovesOn == Queue!RequestsEnd
=============================================================================
