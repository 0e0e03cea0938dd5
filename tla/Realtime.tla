------------------------------- MODULE Realtime -------------------------------
(***************************************************************************)
(* The real-time layer: request threads hand events to the event loop      *)
(* (services/realtime.py), one supervised task fans them out to bounded    *)
(* per-connection queues, the /ws endpoint owns each socket                *)
(* (routers/realtime.py), and the browser reconnects and fetches again     *)
(* (static/realtime.js).                                                   *)
(*                                                                         *)
(* The loop is one thread: whatever runs between two awaits is atomic for  *)
(* other tasks (LoopIsFree), but not for the request threads, which append *)
(* to the handoff and schedule the wakeup at any moment.  An event is the  *)
(* number of the commit it announces; the code puts no data in it.  A      *)
(* screen's fetch reads what is committed, in one step.  Handshake and     *)
(* frame budgets are SlidingWindow's; audiences are one.                   *)
(***************************************************************************)
EXTENDS Integers, Sequences, FiniteSets

CONSTANTS Clients, UserOf,   \* browser tabs, and whose they are
          Writers,           \* request threads that commit and emit
          Conns,             \* connection objects
          HandoffMax, QueueMax, ConnsPerUser, MaxRestarts,
          LastVersion, MaxFaults, \* bounds on commits and on faults
          None

ASSUME RealtimeAssumption ==
    /\ {HandoffMax, QueueMax, ConnsPerUser, MaxRestarts, LastVersion} \subseteq Nat
    /\ None \notin Conns

VARIABLES version,
          pc,        \* pc[w] \in {"idle", "append", "wake"}
          news,      \* the commit writer w is announcing
          handoff,   \* _handoff
          scheduled, \* a wakeup.set waits in the loop's own queue
          wakeup,    \* the asyncio.Event
          phase,     \* where the dispatch task is
          restarts,  \* DispatchSupervisor.restarts
          conn,      \* the endpoint's connections
          session,   \* the client's session resolves
          sock,      \* the client's socket: "opening", "open", "lost", "timer"
          cur,       \* the connection at the other end of it
          recovery,  \* recoveryRefreshNeeded
          screen,    \* the version the client's page shows
          missed,    \* an accepted loss has befallen the client since it fetched
          faults

server == <<handoff, scheduled, wakeup, phase, restarts>>
client == <<sock, cur, recovery>>
vars == <<version, pc, news, handoff, scheduled, wakeup, phase, restarts, conn,
          session, sock, cur, recovery, screen, missed, faults>>

Blank == -1
PolicyViolation == 1008
TryAgainLater == 1013
Codes == {0, PolicyViolation, TryAgainLater}

\* __init__ of Connection, and a slot of Conns no connection uses.
Closed == [state |-> "closed", of |-> None, listed |-> FALSE, queue |-> <<>>, code |-> 0]
NewConnection(c) == [Closed EXCEPT !.state = "resolved", !.of = c]

TypeOK ==
    /\ version \in 0 .. LastVersion
    /\ pc \in [Writers -> {"idle", "append", "wake"}] /\ news \in [Writers -> 0 .. LastVersion]
    /\ handoff \in Seq(1 .. LastVersion) /\ Len(handoff) <= HandoffMax
    /\ {scheduled, wakeup} \subseteq BOOLEAN
    /\ phase \in {"top", "wait", "drain", "gaveUp"}
    /\ restarts \in 0 .. MaxRestarts
    /\ \A k \in Conns : /\ conn[k].state \in {"closed", "resolved", "open", "dead"}
                        /\ conn[k].queue \in Seq(1 .. LastVersion)
                        /\ Len(conn[k].queue) <= QueueMax
                        /\ conn[k].code \in Codes
    /\ sock \in [Clients -> {"opening", "open", "lost", "timer"}]
    /\ cur \in [Clients -> Conns \union {None}]
    /\ screen \in [Clients -> Blank .. LastVersion]

\* The page is shown, then connectRealtime opens a socket.
Init ==
    /\ version = 0
    /\ pc = [w \in Writers |-> "idle"] /\ news = [w \in Writers |-> 0]
    /\ handoff = <<>> /\ scheduled = FALSE /\ wakeup = FALSE
    /\ phase = "top" /\ restarts = 0
    /\ conn = [k \in Conns |-> Closed]
    /\ session = [c \in Clients |-> TRUE]
    /\ sock = [c \in Clients |-> "opening"]
    /\ cur = [c \in Clients |-> None]
    /\ recovery = [c \in Clients |-> FALSE]
    /\ screen = [c \in Clients |-> Blank]
    /\ missed = [c \in Clients |-> FALSE]
    /\ faults = 0

\* No task of the loop is between two awaits.
LoopIsFree == phase \in {"wait", "gaveUp"}

Listed == {k \in Conns : conn[k].listed}

OnUser(u) == {k \in Listed : UserOf[conn[k].of] = u}

FetchBy(S) ==
    /\ screen' = [c \in Clients |-> IF c \in S THEN version ELSE screen[c]]
    /\ missed' = [c \in Clients |-> missed[c] /\ c \notin S]

-----------------------------------------------------------------------------
(* Request threads *)

\* The durable write commits before anything is emitted.
Commit(w) ==
    /\ pc[w] = "idle" /\ version < LastVersion
    /\ version' = version + 1
    /\ news' = [news EXCEPT ![w] = version + 1]
    /\ pc' = [pc EXCEPT ![w] = "append"]
    /\ UNCHANGED <<server, conn, session, client, screen, missed, faults>>

\* emit, under the handoff's lock: append, or drop the newest and count it.
EmitAppend(w) ==
    /\ pc[w] = "append"
    /\ IF Len(handoff) >= HandoffMax
         THEN /\ missed' = [c \in Clients |-> TRUE]
              /\ pc' = [pc EXCEPT ![w] = "idle"]
              /\ UNCHANGED handoff
         ELSE /\ handoff' = Append(handoff, news[w])
              /\ pc' = [pc EXCEPT ![w] = "wake"]
              /\ UNCHANGED missed
    /\ UNCHANGED <<version, news, scheduled, wakeup, phase, restarts, conn, session, client,
                   screen, faults>>

\* emit, after the lock: call_soon_threadsafe(wakeup.set).
EmitWake(w) ==
    /\ pc[w] = "wake"
    /\ scheduled' = TRUE
    /\ pc' = [pc EXCEPT ![w] = "idle"]
    /\ UNCHANGED <<version, news, handoff, wakeup, phase, restarts, conn, session, client,
                   screen, missed, faults>>

-----------------------------------------------------------------------------
(* The dispatch task *)

\* The loop runs the scheduled wakeup.set.
WakeupSet ==
    /\ LoopIsFree /\ scheduled
    /\ scheduled' = FALSE /\ wakeup' = TRUE
    /\ UNCHANGED <<version, pc, news, handoff, phase, restarts, conn, session, client, screen,
                   missed, faults>>

\* The non-empty check at the top of each pass.
LeftBehind == handoff # <<>>

DispatchTop ==
    /\ phase = "top"
    /\ wakeup' = (wakeup \/ LeftBehind)
    /\ phase' = "wait"
    /\ UNCHANGED <<version, pc, news, handoff, scheduled, restarts, conn, session, client,
                   screen, missed, faults>>

DispatchWoken ==
    /\ phase = "wait" /\ wakeup
    /\ wakeup' = FALSE
    /\ phase' = "drain"
    /\ UNCHANGED <<version, pc, news, handoff, scheduled, restarts, conn, session, client,
                   screen, missed, faults>>

\* request_close: the first writer wins.
RequestClose(k, code) == [conn[k] EXCEPT !.code = IF @ = 0 THEN code ELSE @]

\* _fan_out over the connections in S: queue the envelope; one whose queue is
\* full is taken off the list and asked to close.
FannedOut(S, e) ==
    [k \in Conns |->
        CASE k \notin S -> conn[k]
          [] k \in S /\ Len(conn[k].queue) < QueueMax ->
               [conn[k] EXCEPT !.queue = Append(@, e)]
          [] OTHER -> [RequestClose(k, TryAgainLater) EXCEPT !.listed = FALSE]]

FanOut ==
    /\ phase = "drain" /\ handoff # <<>>
    /\ conn' = FannedOut(Listed, Head(handoff))
    /\ handoff' = Tail(handoff)
    /\ UNCHANGED <<version, pc, news, scheduled, wakeup, phase, restarts, session, client,
                   screen, missed, faults>>

Drained ==
    /\ phase = "drain" /\ handoff = <<>>
    /\ phase' = "top"
    /\ UNCHANGED <<version, pc, news, handoff, scheduled, wakeup, restarts, conn, session,
                   client, screen, missed, faults>>

\* _fan_out raises part way: the envelope is gone, the supervisor restarts the
\* loop MaxRestarts times and then gives up.
DispatchCrash ==
    /\ phase = "drain" /\ handoff # <<>> /\ faults < MaxFaults
    /\ faults' = faults + 1
    /\ \E S \in SUBSET Listed :
         /\ conn' = FannedOut(S, Head(handoff))
         /\ missed' = [c \in Clients |-> missed[c] \/ \E k \in Listed \ S : conn[k].of = c]
    /\ handoff' = Tail(handoff)
    /\ IF restarts >= MaxRestarts
         THEN phase' = "gaveUp" /\ UNCHANGED restarts
         ELSE phase' = "top" /\ restarts' = restarts + 1
    /\ UNCHANGED <<version, pc, news, scheduled, wakeup, session, client, screen>>

-----------------------------------------------------------------------------
(* The /ws endpoint *)

\* The worker thread of the handshake resolves the session; 401 when it does
\* not resolve, before anything is accepted.
Resolve(c, k) ==
    /\ LoopIsFree /\ sock[c] = "opening" /\ cur[c] = None
    /\ conn[k] = Closed /\ k = CHOOSE x \in Conns : conn[x] = Closed
    /\ IF session[c]
         THEN /\ conn' = [conn EXCEPT ![k] = NewConnection(c)]
              /\ cur' = [cur EXCEPT ![c] = k]
              /\ UNCHANGED <<sock, recovery>>
         ELSE /\ sock' = [sock EXCEPT ![c] = "timer"]
              /\ recovery' = [recovery EXCEPT ![c] = TRUE]
              /\ UNCHANGED <<conn, cur>>
    /\ UNCHANGED <<version, pc, news, server, session, screen, missed, faults>>

\* Seeded fault: connections on their way out do not count.
AtCap_LiveOnly(u) == Cardinality({k \in OnUser(u) : conn[k].state = "open"}) >= ConnsPerUser

AtCap(u) == Cardinality(OnUser(u)) >= ConnsPerUser

\* register, then accept; or 429.  A screen that was fetched before its first
\* connection is listed hears nothing of the commits between: no refresh is due
\* on a first open.
Register(k) ==
    LET c == conn[k].of IN
    /\ LoopIsFree /\ conn[k].state = "resolved"
    /\ IF AtCap(UserOf[c])
         THEN /\ conn' = [conn EXCEPT ![k] = Closed]
              /\ sock' = [sock EXCEPT ![c] = "timer"]
              /\ cur' = [cur EXCEPT ![c] = None]
              /\ recovery' = [recovery EXCEPT ![c] = TRUE]
              /\ UNCHANGED missed
         ELSE /\ conn' = [conn EXCEPT ![k].state = "open", ![k].listed = TRUE]
              /\ missed' = [missed EXCEPT ![c] =
                   @ \/ (~recovery[c] /\ screen[c] # Blank /\ screen[c] < version)]
              /\ UNCHANGED client
    /\ UNCHANGED <<version, pc, news, server, session, screen, faults>>

\* _send_pump: one envelope to the browser, whose subscriber fetches again.
SendPump(k) ==
    LET c == conn[k].of IN
    /\ LoopIsFree /\ conn[k].state = "open" /\ conn[k].code = 0
    /\ conn[k].queue # <<>> /\ sock[c] = "open"
    /\ conn' = [conn EXCEPT ![k].queue = Tail(@)]
    /\ FetchBy(IF session[c] THEN {c} ELSE {})
    /\ UNCHANGED <<version, pc, news, server, session, client, faults>>

\* Seeded fault: the periodic check only looks at connections that are idle.
Drifted_WhenIdle(k) == ~session[conn[k].of] /\ conn[k].queue # <<>>

Drifted(k) == ~session[conn[k].of]

\* _revalidation_loop: the session no longer resolves to the handshake's identity.
Revalidate(k) ==
    /\ LoopIsFree /\ conn[k].state = "open" /\ conn[k].code = 0 /\ Drifted(k)
    /\ conn' = [conn EXCEPT ![k] = RequestClose(k, PolicyViolation)]
    /\ UNCHANGED <<version, pc, news, server, session, client, screen, missed, faults>>

\* The endpoint's finally: deregister and closed.set().
Left(k) == Closed

\* Seeded fault: a close asks for no refresh.
Recovers_Never(c) == recovery[c]

\* The browser's close handler.
Recovers(c) == TRUE

\* The endpoint of a connection that was asked to close, or whose peer is gone,
\* ends; a browser still at the other end gets the close event.
Finish(k) ==
    LET c == conn[k].of
        told == sock[c] \in {"opening", "open"} /\ cur[c] = k IN
    /\ LoopIsFree
    /\ conn[k].state = "dead" \/ (conn[k].state = "open" /\ conn[k].code # 0)
    /\ conn' = [conn EXCEPT ![k] = Left(k)]
    /\ sock' = [sock EXCEPT ![c] = IF told THEN "timer" ELSE @]
    /\ cur' = [cur EXCEPT ![c] = IF told THEN None ELSE @]
    /\ recovery' = [recovery EXCEPT ![c] = IF told THEN Recovers(c) ELSE @]
    /\ UNCHANGED <<version, pc, news, server, session, screen, missed, faults>>

-----------------------------------------------------------------------------
(* The browser *)

\* A page is shown: it fetches.
Activate(c) ==
    /\ session[c] /\ (screen[c] # version \/ missed[c])
    /\ FetchBy({c})
    /\ UNCHANGED <<version, pc, news, server, conn, session, client, faults>>

\* Seeded fault: the flag is reset before it is read.
Opened_ResetsFirst(c) ==
    /\ sock[c] = "opening" /\ cur[c] # None /\ conn[cur[c]].state = "open"
    /\ sock' = [sock EXCEPT ![c] = "open"]
    /\ recovery' = [recovery EXCEPT ![c] = FALSE]
    /\ UNCHANGED <<version, pc, news, server, conn, session, cur, screen, missed, faults>>

\* The open event; a recovery refreshes every subscriber.
Opened(c) ==
    /\ sock[c] = "opening" /\ cur[c] # None /\ conn[cur[c]].state = "open"
    /\ sock' = [sock EXCEPT ![c] = "open"]
    /\ recovery' = [recovery EXCEPT ![c] = FALSE]
    /\ FetchBy(IF recovery[c] /\ session[c] THEN {c} ELSE {})
    /\ UNCHANGED <<version, pc, news, server, conn, session, cur, faults>>

\* The backoff timer fires.
Reconnect(c) ==
    /\ sock[c] = "timer"
    /\ sock' = [sock EXCEPT ![c] = "opening"]
    /\ UNCHANGED <<version, pc, news, server, conn, session, cur, recovery, screen, missed,
                   faults>>

\* The browser learns that its peer is gone.
NoticeLoss(c) ==
    /\ sock[c] = "lost"
    /\ sock' = [sock EXCEPT ![c] = "timer"]
    /\ recovery' = [recovery EXCEPT ![c] = Recovers(c)]
    /\ UNCHANGED <<version, pc, news, server, conn, session, cur, screen, missed, faults>>

-----------------------------------------------------------------------------
(* Faults *)

\* The network drops a socket; neither end has noticed yet.
Vanish(c) ==
    /\ faults < MaxFaults /\ sock[c] \in {"opening", "open"} /\ cur[c] # None
    /\ conn[cur[c]].state = "open"
    /\ faults' = faults + 1
    /\ conn' = [conn EXCEPT ![cur[c]].state = "dead"]
    /\ sock' = [sock EXCEPT ![c] = "lost"]
    /\ cur' = [cur EXCEPT ![c] = None]
    /\ UNCHANGED <<version, pc, news, server, session, recovery, screen, missed>>

\* The session is revoked: signed out elsewhere, role changed, archived.
Revoke(c) ==
    /\ faults < MaxFaults /\ session[c]
    /\ faults' = faults + 1
    /\ session' = [session EXCEPT ![c] = FALSE]
    /\ UNCHANGED <<version, pc, news, server, conn, client, screen, missed>>

\* stop_dispatch closes every connection with GoingAway, the process ends, and
\* the next one starts with empty queues; a request cut down after its commit
\* announces nothing.
RestartProcess ==
    /\ faults < MaxFaults /\ LoopIsFree
    /\ faults' = faults + 1
    /\ handoff' = <<>> /\ scheduled' = FALSE /\ wakeup' = FALSE
    /\ phase' = "top" /\ restarts' = 0
    /\ pc' = [w \in Writers |-> "idle"]
    /\ conn' = [k \in Conns |-> Closed]
    /\ sock' = [c \in Clients |-> IF sock[c] = "lost" THEN "lost" ELSE "timer"]
    /\ cur' = [c \in Clients |-> None]
    /\ recovery' = [c \in Clients |-> TRUE]
    /\ UNCHANGED <<version, news, session, screen, missed>>

-----------------------------------------------------------------------------

Dispatch == WakeupSet \/ DispatchTop \/ DispatchWoken \/ FanOut \/ Drained

Next ==
    \/ \E w \in Writers : Commit(w) \/ EmitAppend(w) \/ EmitWake(w)
    \/ Dispatch \/ DispatchCrash
    \/ \E c \in Clients : \/ \E k \in Conns : Resolve(c, k)
                          \/ Activate(c) \/ Opened(c) \/ Reconnect(c) \/ NoticeLoss(c)
                          \/ Vanish(c) \/ Revoke(c)
    \/ \E k \in Conns : Register(k) \/ SendPump(k) \/ Revalidate(k) \/ Finish(k)
    \/ RestartProcess

\* Threads, tasks and timers run; nothing obliges a commit, a page change or a
\* fault.  A page that was never loaded loads.
Fairness ==
    /\ \A w \in Writers : WF_vars(EmitAppend(w)) /\ WF_vars(EmitWake(w))
    /\ WF_vars(Dispatch)
    /\ \A c \in Clients :
         /\ WF_vars(\E k \in Conns : Resolve(c, k))
         /\ WF_vars(screen[c] = Blank /\ Activate(c))
         /\ WF_vars(Opened(c)) /\ WF_vars(Reconnect(c)) /\ WF_vars(NoticeLoss(c))
    /\ \A k \in Conns : /\ WF_vars(Register(k)) /\ WF_vars(SendPump(k))
                        /\ WF_vars(Revalidate(k)) /\ WF_vars(Finish(k))

Spec == Init /\ [][Next]_vars /\ Fairness

-----------------------------------------------------------------------------

\* What the code may lose: an event dropped at the handoff's limit, in a crash
\* of the dispatch task, before a first connection; anything once dispatch gave
\* up; everything to a session that was revoked.
Excused(c) ==
    \/ missed[c] \/ ~session[c] \/ phase = "gaveUp"
    \/ sock[c] = "opening" /\ ~recovery[c]

\* News is on its way to the client's screen.
Coming(c) ==
    \/ screen[c] = Blank
    \/ \E w \in Writers : pc[w] = "append" /\ news[w] > screen[c]
    \/ \E i \in DOMAIN handoff : handoff[i] > screen[c]
    \/ cur[c] # None /\ (conn[cur[c]].queue # <<>> \/ conn[cur[c]].code # 0)
    \/ recovery[c] \/ sock[c] = "lost"

\* A screen that is behind is going to hear of it, in every state: the event is
\* in a thread's hands, in the handoff, in the connection's queue, or a close and
\* the refresh after it are due; apart from the losses the design accepts.
NoSilentStaleness ==
    \A c \in Clients : screen[c] = version \/ Coming(c) \/ Excused(c)

\* A user's places on the list are never more than the cap and are all taken by
\* connections whose endpoint is still there to give them back.
NoLeakedSlot ==
    /\ \A c \in Clients : Cardinality(OnUser(UserOf[c])) <= ConnsPerUser
    /\ \A k \in Listed : conn[k].state \in {"open", "dead"}

\* The layer's state is well typed, and its places are within the cap and taken
\* only by live endpoints.
SlotsHold == TypeOK /\ NoLeakedSlot

\* A revoked session's connection is taken down, within one revalidation.
RevokedIsCut ==
    \A c \in Clients :
        ~session[c] ~> \A k \in Conns : conn[k].of # c

\* Every screen that is behind catches up unless it is excused: the layer
\* implements Invalidation.
Promise ==
    INSTANCE Invalidation
    WITH Screens <- Clients, seen <- screen, excused <- [c \in Clients |-> Excused(c)]

KeepsPromise == Promise!Spec
===============================================================================
