--------------------------- MODULE WorkOrderEvents ---------------------------
(***************************************************************************)
(* What clients are told of a work order after a request changed it.  A    *)
(* route writes under the order's row lock and commits (Write); only then, *)
(* with the lock gone, does it re-read the row, emit the invalidations of  *)
(* its route and queue the push its transition calls for (Answer).  Two    *)
(* requests may write before either answers.                               *)
(***************************************************************************)
EXTENDS Naturals, FiniteSets

CONSTANTS Orders, Workers, Supervisors, Threads, None,
          Sends         \* the routes each thread calls, the editor's fields apart

Statuses == {"created", "assigned", "in_progress", "on_hold", "ready_to_complete",
             "completed", "review"}
PreWork == {"created", "assigned"}
Startable == PreWork \cup {"in_progress", "on_hold"}
Stopping == {"on_hold", "ready_to_complete", "completed"}
Routes == {"scanStart", "complete", "hold", "resume", "patch", "start", "stop", "archive",
           "restore", "punchOut"}

\* What a client shows: a card, the Review queue, the crew board.
Card(w) == <<"card", w>>
Review == <<"review", None>>
Board == <<"board", None>>
Cards == {Card(w) : w \in Orders}
Projections == Cards \cup {Review, Board}

VARIABLES
    order,      \* the work-order rows
    running,    \* the order each worker's clock runs on
    pend,       \* per thread, the request that has written and not yet answered
    unheard     \* projections that changed since clients were last told to refetch

vars == <<order, running, pend, unheard>>

NoRequest == [route |-> "none", order |-> None, by |-> None, prev |-> None, wrote |-> None,
              committed |-> FALSE, added |-> {}, routed |-> None, side |-> None, sidePrev |-> None]

OrderRows == [status : Statuses, live : BOOLEAN, crew : SUBSET Workers,
              sup : Supervisors \cup {None}]

TypeOK ==
    /\ order \in [Orders -> OrderRows]
    /\ running \in [Workers -> Orders \cup {None}]
    /\ pend \in [Threads -> [route : Routes \cup {"none"}, order : Orders \cup {None},
                             by : Workers \cup Supervisors \cup {None},
                             prev : Statuses \cup {None}, wrote : Statuses \cup {None},
                             committed : BOOLEAN, added : SUBSET Workers,
                             routed : Supervisors \cup {None},
                             side : Orders \cup {None}, sidePrev : Statuses \cup {None}]]
    /\ unheard \subseteq Projections

Init ==
    /\ order \in [Orders -> [status : {"created"}, live : {TRUE}, crew : {{}},
                             sup : Supervisors \cup {None}]]
    /\ running = [u \in Workers |-> None]
    /\ pend = [t \in Threads |-> NoRequest]
    /\ unheard = {}

-----------------------------------------------------------------------------
\* The write.

Reconcile(s, C) == IF s \in PreWork THEN IF C = {} THEN "created" ELSE "assigned" ELSE s
Charging(w) == {u \in Workers : running[u] = w}
InReview(rows) == {w \in Orders : rows[w].live /\ rows[w].status = "review"}

\* The clock u stops on w was the last one of an In-Progress order.
HeldWithout(u, w) ==
    IF order[w].status = "in_progress" /\ Charging(w) \subseteq {u} THEN "on_hold"
    ELSE order[w].status

Outdated(rows, clocks) ==
    {Card(w) : w \in {x \in Orders : rows[x] # order[x]}}
        \cup (IF InReview(rows) # InReview(order) THEN {Review} ELSE {})
        \cup (IF clocks # running THEN {Board} ELSE {})

\* Commit rows and clocks; the request still owes its answer.
Write(t, r, rows, clocks, facts) ==
    /\ pend[t] = NoRequest /\ r \in Sends[t]
    /\ order' = rows /\ running' = clocks
    /\ unheard' = unheard \cup Outdated(rows, clocks)
    /\ pend' = [pend EXCEPT ![t] = facts]

Row(w, s) == [order EXCEPT ![w].status = s]
Stopped(S) == [u \in Workers |-> IF u \in S THEN None ELSE running[u]]

\* The facts stamped on the row a transition of w returns.
Moved(r, w, u, s) == [NoRequest EXCEPT !.route = r, !.order = w, !.by = u, !.committed = TRUE,
                                       !.prev = order[w].status, !.wrote = s]
\* A tap that finds its work already done returns without a commit.
Repeat(t, r, w, u) ==
    Write(t, r, order, running, [Moved(r, w, u, order[w].status) EXCEPT !.committed = FALSE])

ScanStart(t, w, u) ==
    /\ order[w].live
    /\ \/ /\ order[w].status = "assigned"
          /\ Write(t, "scanStart", Row(w, "in_progress"), running,
                   Moved("scanStart", w, u, "in_progress"))
       \/ order[w].status = "in_progress" /\ Repeat(t, "scanStart", w, u)

\* A technician's Notify Team Lead parks the order, a supervisor's completes it.
Complete(t, w, u, target) ==
    /\ order[w].live /\ u \in order[w].crew
    /\ \/ /\ order[w].status = "in_progress" /\ Charging(w) \subseteq {u}
          /\ Write(t, "complete", Row(w, target), Stopped(Charging(w)),
                   Moved("complete", w, u, target))
       \/ order[w].status = target /\ Repeat(t, "complete", w, u)

Hold(t, w, u) ==
    /\ order[w].live /\ u \in order[w].crew
    /\ \/ /\ order[w].status = "in_progress"
          /\ Write(t, "hold", Row(w, "on_hold"), Stopped(Charging(w)),
                   Moved("hold", w, u, "on_hold"))
       \/ order[w].status = "on_hold" /\ Repeat(t, "hold", w, u)

Resume(t, w, u) ==
    /\ order[w].live /\ u \in order[w].crew
    /\ \/ /\ order[w].status = "on_hold"
          /\ Write(t, "resume", Row(w, "in_progress"), running,
                   Moved("resume", w, u, "in_progress"))
       \/ order[w].status = "in_progress" /\ Repeat(t, "resume", w, u)

\* The editor: a status, or a crew, or a routing, or none of them.
PatchStatus(t, w, v, s) ==
    /\ order[w].live
    /\ s = "review" => order[w].status = "completed"
    /\ LET now == Reconcile(s, order[w].crew)
           stops == now \in Stopping /\ now # order[w].status
       IN Write(t, "patch", Row(w, now), IF stops THEN Stopped(Charging(w)) ELSE running,
                Moved("patch", w, v, now))
PatchCrew(t, w, v, C) ==
    /\ order[w].live
    /\ LET now == Reconcile(order[w].status, C)
       IN Write(t, "assign", [order EXCEPT ![w].crew = C, ![w].status = now], running,
                [Moved("patch", w, v, now) EXCEPT !.added = C \ order[w].crew])
PatchRouting(t, w, v, x) ==
    /\ order[w].live
    /\ Write(t, "route", [order EXCEPT ![w].sup = x], running,
             [Moved("patch", w, v, order[w].status) EXCEPT
                !.routed = IF x = order[w].sup THEN None ELSE x])

\* Begin Charging: joins the crew, and stops the worker's clock elsewhere,
\* which may put that other order On-Hold.
Start(t, w, u) ==
    /\ order[w].live /\ running[u] # w /\ order[w].status \in Startable
    /\ LET o == running[u]
           begun == [order EXCEPT ![w].status = "in_progress", ![w].crew = @ \cup {u}]
           rows == IF o = None THEN begun ELSE [begun EXCEPT ![o].status = HeldWithout(u, o)]
       IN Write(t, "start", rows, [running EXCEPT ![u] = w],
                [Moved("start", w, u, "in_progress") EXCEPT
                   !.side = o, !.sidePrev = IF o = None THEN None ELSE order[o].status])
StartAgain(t, w, u) == order[w].live /\ running[u] = w /\ Repeat(t, "start", w, u)

Stop(t, w, u) ==
    /\ order[w].live
    /\ \/ /\ running[u] = w
          /\ Write(t, "stop", Row(w, HeldWithout(u, w)), Stopped({u}),
                   Moved("stop", w, u, HeldWithout(u, w)))
       \/ running[u] # w /\ Repeat(t, "stop", w, u)

\* Ending a shift stops the worker's clock, and says nothing of its order.
PunchOut(t, u) ==
    \E w \in {running[u]} \ {None} :
        Write(t, "punchOut", Row(w, HeldWithout(u, w)), Stopped({u}),
              [NoRequest EXCEPT !.route = "punchOut", !.by = u])

Archive(t, w, v) ==
    /\ order[w].live
    /\ Write(t, "archive", [order EXCEPT ![w].live = FALSE], Stopped(Charging(w)),
             [NoRequest EXCEPT !.route = "archive", !.order = w, !.by = v])
Restore(t, w, v) ==
    /\ ~order[w].live
    /\ Write(t, "restore", [order EXCEPT ![w].live = TRUE], running,
             [NoRequest EXCEPT !.route = "restore", !.order = w, !.by = v])

-----------------------------------------------------------------------------
\* The answer.

\* Seeded fault: starting a clock does not announce the order it stopped.
Announced_NoSide(p) ==
    CASE p.route \in {"patch", "archive"} -> {Review, Board, Card(p.order)}
      [] p.route = "restore" -> {Review, Board} \cup Cards
      [] p.route \in {"start", "stop", "scanStart", "complete", "hold", "resume"} ->
             {Board, Card(p.order)}
      [] OTHER -> {}

\* The projections the route's invalidations refresh: the status event reloads
\* its card (all of them when it names none) and the board, the labor event the
\* board, the review event the queue.  Attendance events reach neither.
Announced(p) ==
    CASE p.route \in {"patch", "archive"} -> {Review, Board, Card(p.order)}
      [] p.route = "restore" -> {Review, Board} \cup Cards
      [] p.route \in {"scanStart", "complete", "hold", "resume", "stop"} ->
             {Board, Card(p.order)}
      [] p.route = "start" -> {Board, Card(p.order)} \cup {Card(o) : o \in {p.side} \ {None}}
      [] OTHER -> {}

\* The status the answer sees: a commit is followed by a fresh read.
Shown(p) == IF p.committed THEN order[p.order].status ELSE p.wrote

\* The one push a change of status calls for, most specific first.
PatchNews(prev, now) ==
    CASE now = "on_hold" /\ prev # now -> "held"
      [] now = "completed" /\ prev # now -> "completed"
      [] prev = "completed" /\ now \notin {"completed", "on_hold", "review"} -> "reopened"
      [] prev = "review" /\ now = "in_progress" -> "returned"
      [] prev = "ready_to_complete" /\ now = "in_progress" -> "sentBack"
      [] OTHER -> "none"

News(route, prev, now) ==
    CASE route = "patch" -> PatchNews(prev, now)
      [] route = "complete" /\ prev # now ->
             IF now = "ready_to_complete" THEN "heldForReview" ELSE "completed"
      [] route = "hold" /\ prev # now -> "held"
      [] route \in {"start", "stop"} /\ prev # now /\ now = "on_hold" -> "held"
      [] OTHER -> "none"

\* Who a push about w reaches, but for the actor; unrouted holds go to Admins.
Audience(e, w) ==
    CASE e \in {"held", "heldForReview"} ->
             IF order[w].sup = None THEN {"admins"} ELSE {order[w].sup}
      [] e = "completed" -> {"admins"}
      [] OTHER -> order[w].crew \cup ({order[w].sup} \ {None})
Said(e, w, by) == IF e = "none" THEN {} ELSE {<<e, Audience(e, w) \ {by}>>}

\* The push about a change of status; a start tells only of the order it stopped.
Told(p) ==
    CASE p.route = "start" -> UNION {Said(News("start", p.sidePrev, order[o].status), o, p.by) :
                                     o \in {p.side} \ {None}}
      [] p.route \in {"patch", "complete", "hold", "stop"} ->
             Said(News(p.route, p.prev, Shown(p)), p.order, p.by)
      [] OTHER -> {}

\* What the answer queues, were it given now: <<event, audience>>.
Pushes(p) ==
    {q \in Told(p) \cup {<<"assigned", p.added \ {p.by}>>, <<"routed", {p.routed} \ {None, p.by}>>} :
        q[2] # {}}

Answer(t) ==
    /\ pend[t] # NoRequest
    /\ unheard' = unheard \ Announced(pend[t])
    /\ pend' = [pend EXCEPT ![t] = NoRequest]
    /\ UNCHANGED <<order, running>>

Tap(t, w) ==
    \E u \in Workers :
        \/ ScanStart(t, w, u) \/ Hold(t, w, u) \/ Resume(t, w, u)
        \/ \E s \in {"ready_to_complete", "completed"} : Complete(t, w, u, s)
        \/ Start(t, w, u) \/ StartAgain(t, w, u) \/ Stop(t, w, u)
Edit(t, w) ==
    \E v \in Supervisors :
        \/ \E s \in Statuses : PatchStatus(t, w, v, s)
        \/ \E C \in SUBSET Workers : PatchCrew(t, w, v, C)
        \/ \E x \in Supervisors \cup {None} : PatchRouting(t, w, v, x)
        \/ Archive(t, w, v) \/ Restore(t, w, v)

Next ==
    \E t \in Threads :
        \/ \E w \in Orders : Tap(t, w) \/ Edit(t, w)
        \/ \E u \in Workers : PunchOut(t, u)
        \/ Answer(t)

Spec == Init /\ [][Next]_vars

-----------------------------------------------------------------------------
\* Properties.

\* Whatever a request changed on a card, in the Review queue or on the crew
\* board is announced: some request that has not answered yet will send the
\* event that makes clients refetch it, the order a clock was moved away from
\* included.
MovesAreHeard == \A p \in unheard : \E t \in Threads : p \in Announced(pend[t])

\* A repeated tap, which writes nothing, buzzes nobody, even when another
\* request moves the order between its read and its answer.
RepeatIsSilent == \A t \in Threads : pend[t].route # "none" /\ ~pend[t].committed =>
                      Pushes(pend[t]) = {}

=============================================================================
