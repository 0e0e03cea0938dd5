----------------------- MODULE WorkOrderEventsProofs -----------------------
(***************************************************************************)
(* For any orders, workers, supervisors and requests: the state is well    *)
(* typed, a repeated tap buzzes nobody, and, punch-outs apart, whatever a  *)
(* request changed is announced by a request that has yet to answer.       *)
(***************************************************************************)
EXTENDS WorkOrderEvents, TLAPS

Clocks == [Workers -> Orders \cup {None}]
Pend == [route : Routes \cup {"none"}, order : Orders \cup {None},
         by : Workers \cup Supervisors \cup {None},
         prev : Statuses \cup {None}, wrote : Statuses \cup {None},
         committed : BOOLEAN, added : SUBSET Workers, routed : Supervisors \cup {None},
         side : Orders \cup {None}, sidePrev : Statuses \cup {None}]

StoreOK == order \in [Orders -> OrderRows] /\ running \in Clocks /\ unheard \subseteq Projections

\* A request that committed nothing found what it asked for, and names nobody else.
Quiet(p) == ~p.committed => p.prev = p.wrote /\ p.added = {} /\ p.routed = None /\ p.side = None

IInv == StoreOK /\ pend \in [Threads -> Pend] /\ \A t \in Threads : Quiet(pend[t])

LEMMA Types == IInv => TypeOK
  BY DEF IInv, StoreOK, TypeOK, Pend, Clocks

-----------------------------------------------------------------------------
(* The write *)

\* A request that says p writes rows and clocks, and will announce all it changed.
Says(p, rows, clocks) ==
    /\ p \in Pend /\ rows \in [Orders -> OrderRows] /\ clocks \in Clocks /\ Quiet(p)
    /\ p.route # "punchOut" => Outdated(rows, clocks) \subseteq Announced(p)

\* What a step must keep: the invariant, and the promise while nobody punches out.
Keeps(t) == IInv' /\ (MovesAreHeard /\ "punchOut" \notin Sends[t] => MovesAreHeard')

LEMMA WriteKeeps ==
    ASSUME IInv, NEW t \in Threads, NEW r, NEW rows, NEW clocks, NEW p,
           Write(t, r, rows, clocks, p), Says(p, rows, clocks),
           p.route = "punchOut" => r = "punchOut"
    PROVE  Keeps(t)
<1>1. /\ pend[t] = NoRequest /\ order' = rows /\ running' = clocks
      /\ unheard' = unheard \cup Outdated(rows, clocks) /\ pend' = [pend EXCEPT ![t] = p]
      /\ r \in Sends[t]
  BY DEF Write
<1>2. Outdated(rows, clocks) \subseteq Projections
  BY DEF Outdated, Projections, Cards
<1>3. StoreOK'
  BY <1>1, <1>2 DEF IInv, StoreOK, Says
<1>4. pend' \in [Threads -> Pend] /\ \A v \in Threads : Quiet(pend'[v])
  BY <1>1 DEF IInv, Says
<1>5. ASSUME MovesAreHeard, "punchOut" \notin Sends[t], NEW q \in unheard'
      PROVE  \E v \in Threads : q \in Announced(pend'[v])
  <2>1. CASE q \in Outdated(rows, clocks)
    BY <1>1, <1>5, <2>1 DEF Says, IInv
  <2>2. CASE q \in unheard
    <3>1. PICK v \in Threads : q \in Announced(pend[v])
      BY <1>5, <2>2 DEF MovesAreHeard
    <3>2. v # t
      BY <1>1, <3>1 DEF Announced, NoRequest
    <3> QED
      BY <1>1, <3>1, <3>2 DEF IInv
  <2> QED
    BY <1>1, <1>5, <2>1, <2>2
<1> QED
  BY <1>1, <1>3, <1>4, <1>5 DEF Keeps, IInv, MovesAreHeard

\* What changes when only w does, and when its place in the Review queue stays.
LEMMA OneChanged ==
    ASSUME NEW w \in Orders, NEW rows, NEW clocks,
           \A x \in Orders \ {w} : rows[x] = order[x]
    PROVE  /\ Outdated(rows, clocks) \subseteq {Card(w), Review, Board}
           /\ /\ rows[w].live = order[w].live
              /\ rows[w].status = "review" <=> order[w].status = "review"
              => Outdated(rows, clocks) \subseteq {Card(w), Board}
<1>1. {Card(x) : x \in {y \in Orders : rows[y] # order[y]}} \subseteq {Card(w)}
  OBVIOUS
<1>2. /\ rows[w].live = order[w].live
      /\ rows[w].status = "review" <=> order[w].status = "review"
      => InReview(rows) = InReview(order)
  BY DEF InReview
<1> QED
  BY <1>1, <1>2 DEF Outdated

\* A row whose status changes is still a row, and the others are untouched.
LEMMA RowKeeps ==
    ASSUME IInv, NEW w \in Orders, NEW s \in Statuses
    PROVE  /\ Row(w, s) \in [Orders -> OrderRows]
           /\ Row(w, s)[w].status = s /\ Row(w, s)[w].live = order[w].live
           /\ \A x \in Orders \ {w} : Row(w, s)[x] = order[x]
  BY DEF IInv, StoreOK, OrderRows, Row

LEMMA StoppedKeeps == ASSUME IInv, NEW S PROVE Stopped(S) \in Clocks
  BY DEF IInv, StoreOK, Clocks, Stopped

LEMMA MovedKeeps ==
    ASSUME IInv, NEW r \in Routes, NEW w \in Orders, NEW u \in Workers \cup Supervisors,
           NEW s \in Statuses
    PROVE  LET m == Moved(r, w, u, s) IN
           /\ m \in Pend /\ m.route = r /\ m.order = w /\ m.committed
           /\ m.added = {} /\ m.routed = None /\ m.side = None
           /\ m.prev = order[w].status /\ m.wrote = s
  BY DEF IInv, StoreOK, OrderRows, Moved, NoRequest, Pend

LEMMA HeldKeeps ==
    ASSUME IInv, NEW u, NEW w \in Orders
    PROVE  /\ HeldWithout(u, w) \in Statuses
           /\ HeldWithout(u, w) = "review" <=> order[w].status = "review"
  BY DEF IInv, StoreOK, OrderRows, HeldWithout, Statuses

\* A tap that moves one order between statuses short of the Review queue.
LEMMA TapKeeps ==
    ASSUME IInv, NEW t \in Threads, NEW w \in Orders, NEW u \in Workers, NEW S,
           NEW r \in {"scanStart", "complete", "hold", "resume", "stop"}, NEW s \in Statuses,
           s = "review" <=> order[w].status = "review",
           \E clocks \in {running, Stopped(S)} :
              Write(t, r, Row(w, s), clocks, Moved(r, w, u, s))
    PROVE  Keeps(t)
<1> DEFINE m == Moved(r, w, u, s)
           rows == Row(w, s)
<1>1. PICK clocks \in {running, Stopped(S)} : Write(t, r, rows, clocks, m)
  OBVIOUS
<1>2. m \in Pend /\ m.route = r /\ m.order = w /\ m.committed
  BY MovedKeeps DEF Routes
<1>3. /\ rows \in [Orders -> OrderRows] /\ rows[w].status = s /\ rows[w].live = order[w].live
      /\ \A x \in Orders \ {w} : rows[x] = order[x]
  BY RowKeeps
<1> HIDE DEF m, rows
<1>4. Outdated(rows, clocks) \subseteq {Card(w), Board}
  BY <1>3, OneChanged
<1>5. clocks \in Clocks
  BY <1>1, StoppedKeeps DEF IInv, StoreOK
<1>6. Says(m, rows, clocks)
  BY <1>2, <1>3, <1>4, <1>5 DEF Says, Quiet, Announced
<1> QED
  BY <1>1, <1>2, <1>6, WriteKeeps

\* A tap that finds its work done.
LEMMA RepeatKeeps ==
    ASSUME IInv, NEW t \in Threads, NEW w \in Orders, NEW u \in Workers,
           NEW r \in Routes \ {"punchOut"}, Repeat(t, r, w, u)
    PROVE  Keeps(t)
<1> DEFINE s == order[w].status
           m == Moved(r, w, u, s)
           p == [m EXCEPT !.committed = FALSE]
<1>1. s \in Statuses /\ order \in [Orders -> OrderRows] /\ running \in Clocks
  BY DEF IInv, StoreOK, OrderRows
<1>2. /\ m \in Pend /\ m.route = r /\ m.prev = s /\ m.wrote = s
      /\ m.added = {} /\ m.routed = None /\ m.side = None
  BY <1>1, MovedKeeps
<1>3. Write(t, r, order, running, p)
  BY DEF Repeat
<1> HIDE DEF s, m
<1>4. p \in Pend /\ p.route = r /\ Quiet(p)
  BY <1>2 DEF Pend, Quiet
<1>5. Outdated(order, running) = {}
  BY DEF Outdated
<1>6. Says(p, order, running)
  BY <1>1, <1>4, <1>5 DEF Says
<1> QED
  BY <1>3, <1>4, <1>6, WriteKeeps

-----------------------------------------------------------------------------
(* The routes *)

LEMMA TapStep ==
    ASSUME IInv, NEW t \in Threads, NEW w \in Orders, NEW u \in Workers,
           \/ ScanStart(t, w, u) \/ Hold(t, w, u) \/ Resume(t, w, u)
           \/ \E s \in {"ready_to_complete", "completed"} : Complete(t, w, u, s)
           \/ StartAgain(t, w, u) \/ Stop(t, w, u)
    PROVE  Keeps(t)
<1>1. CASE ScanStart(t, w, u)
  <2>1. CASE /\ order[w].status = "assigned"
             /\ Write(t, "scanStart", Row(w, "in_progress"), running,
                      Moved("scanStart", w, u, "in_progress"))
    BY <2>1, TapKeeps DEF Statuses
  <2>2. CASE Repeat(t, "scanStart", w, u)
    BY <2>2, RepeatKeeps DEF Routes
  <2> QED
    BY <1>1, <2>1, <2>2 DEF ScanStart
<1>2. CASE Hold(t, w, u)
  <2>1. CASE /\ order[w].status = "in_progress"
             /\ Write(t, "hold", Row(w, "on_hold"), Stopped(Charging(w)),
                      Moved("hold", w, u, "on_hold"))
    BY <2>1, TapKeeps DEF Statuses
  <2>2. CASE Repeat(t, "hold", w, u)
    BY <2>2, RepeatKeeps DEF Routes
  <2> QED
    BY <1>2, <2>1, <2>2 DEF Hold
<1>3. CASE Resume(t, w, u)
  <2>1. CASE /\ order[w].status = "on_hold"
             /\ Write(t, "resume", Row(w, "in_progress"), running,
                      Moved("resume", w, u, "in_progress"))
    BY <2>1, TapKeeps DEF Statuses
  <2>2. CASE Repeat(t, "resume", w, u)
    BY <2>2, RepeatKeeps DEF Routes
  <2> QED
    BY <1>3, <2>1, <2>2 DEF Resume
<1>4. ASSUME NEW s \in {"ready_to_complete", "completed"}, Complete(t, w, u, s) PROVE Keeps(t)
  <2>1. CASE /\ order[w].status = "in_progress"
             /\ Write(t, "complete", Row(w, s), Stopped(Charging(w)), Moved("complete", w, u, s))
    BY <2>1, TapKeeps DEF Statuses
  <2>2. CASE Repeat(t, "complete", w, u)
    BY <2>2, RepeatKeeps DEF Routes
  <2> QED
    BY <1>4, <2>1, <2>2 DEF Complete
<1>5. CASE StartAgain(t, w, u)
  BY <1>5, RepeatKeeps DEF StartAgain, Routes
<1>6. CASE Stop(t, w, u)
  <2>1. CASE Write(t, "stop", Row(w, HeldWithout(u, w)), Stopped({u}),
                   Moved("stop", w, u, HeldWithout(u, w)))
    BY <2>1, HeldKeeps, TapKeeps
  <2>2. CASE Repeat(t, "stop", w, u)
    BY <2>2, RepeatKeeps DEF Routes
  <2> QED
    BY <1>6, <2>1, <2>2 DEF Stop
<1> QED
  BY <1>1, <1>2, <1>3, <1>4, <1>5, <1>6

\* Begin Charging changes two cards, and announces both.
LEMMA StartStep ==
    ASSUME IInv, NEW t \in Threads, NEW w \in Orders, NEW u \in Workers, Start(t, w, u)
    PROVE  Keeps(t)
<1> DEFINE o == running[u]
           begun == [order EXCEPT ![w].status = "in_progress", ![w].crew = @ \cup {u}]
           rows == IF o = None THEN begun ELSE [begun EXCEPT ![o].status = HeldWithout(u, o)]
           clocks == [running EXCEPT ![u] = w]
           m == Moved("start", w, u, "in_progress")
           before == IF o = None THEN None ELSE order[o].status
           p == [m EXCEPT !.side = o, !.sidePrev = before]
<1>1. /\ Write(t, "start", rows, clocks, p) /\ o # w /\ order[w].status \in Startable
  BY DEF Start
<1>2. /\ order \in [Orders -> OrderRows] /\ running \in Clocks /\ o \in Orders \cup {None}
      /\ order[w] \in OrderRows
  BY DEF IInv, StoreOK, Clocks
<1>3. /\ m \in Pend /\ m.route = "start" /\ m.order = w /\ m.committed
  BY MovedKeeps DEF Routes, Statuses
<1>4. before \in Statuses \cup {None}
  BY <1>2 DEF OrderRows
<1>5. /\ begun \in [Orders -> OrderRows] /\ begun[w].status = "in_progress"
      /\ begun[w].live = order[w].live /\ \A x \in Orders \ {w} : begun[x] = order[x]
  BY <1>2 DEF OrderRows, Statuses
<1>6. clocks \in Clocks
  BY <1>2 DEF Clocks
<1> HIDE DEF m, before, begun, o, clocks
<1>7. /\ p \in Pend /\ p.route = "start" /\ p.order = w /\ p.side = o /\ p.committed
  BY <1>2, <1>3, <1>4 DEF Pend
<1>8. o \in Orders => /\ HeldWithout(u, o) \in Statuses
                      /\ HeldWithout(u, o) = "review" <=> order[o].status = "review"
  BY HeldKeeps
<1>9. /\ rows \in [Orders -> OrderRows]
      /\ \A x \in Orders \ {w, o} : rows[x] = order[x]
      /\ o \in Orders \ {None} => /\ rows[o].live = order[o].live
                                  /\ rows[o].status = "review" <=> order[o].status = "review"
      /\ rows[w] = begun[w]
  <2>1. CASE o = None
    BY <1>1, <1>5, <2>1
  <2>2. CASE o # None
    BY <1>1, <1>2, <1>5, <1>8, <2>2 DEF OrderRows
  <2> QED
    BY <2>1, <2>2
<1> HIDE DEF rows, p
<1>10. InReview(rows) = InReview(order)
  <2>1. ASSUME NEW x \in Orders
        PROVE  (rows[x].live /\ rows[x].status = "review")
               <=> (order[x].live /\ order[x].status = "review")
    <3>1. CASE x = w
      BY <1>1, <1>5, <1>9, <3>1 DEF Startable, PreWork
    <3>2. CASE x # w /\ x = o /\ o # None
      BY <1>9, <3>2
    <3>3. CASE x # w /\ x # o
      BY <1>9, <3>3
    <3>4. CASE x # w /\ o = None
      BY <1>5, <3>4 DEF rows
    <3> QED
      BY <3>1, <3>2, <3>3, <3>4
  <2> QED
    BY <2>1 DEF InReview
<1>11. \A x \in Orders : rows[x] # order[x] => x = w \/ (x = o /\ o # None)
  <2>1. CASE o = None
    BY <1>5, <2>1 DEF rows
  <2>2. CASE o # None
    BY <1>9, <2>2
  <2> QED
    BY <2>1, <2>2
<1>12. Outdated(rows, clocks) \subseteq {Board, Card(w)} \cup {Card(x) : x \in {o} \ {None}}
  BY <1>10, <1>11 DEF Outdated
<1>13. Says(p, rows, clocks)
  BY <1>6, <1>7, <1>9, <1>12 DEF Says, Quiet, Announced
<1> QED
  BY <1>1, <1>7, <1>13, WriteKeeps

\* A write of one row by a route that announces the card, the queue and the board.
LEMMA EditKeeps ==
    ASSUME IInv, NEW t \in Threads, NEW w \in Orders, NEW r, NEW row \in OrderRows,
           NEW rows, rows = [order EXCEPT ![w] = row], NEW clocks \in Clocks,
           NEW p \in Pend, Quiet(p), p.order = w, p.route \in {"patch", "archive"},
           Write(t, r, rows, clocks, p)
    PROVE  Keeps(t)
<1>1. /\ rows \in [Orders -> OrderRows] /\ \A x \in Orders \ {w} : rows[x] = order[x]
  BY DEF IInv, StoreOK
<1>2. Outdated(rows, clocks) \subseteq {Card(w), Review, Board}
  BY <1>1, OneChanged
<1>3. Says(p, rows, clocks)
  BY <1>1, <1>2 DEF Says, Announced
<1> QED
  BY <1>3, WriteKeeps

LEMMA EditStep ==
    ASSUME IInv, NEW t \in Threads, NEW w \in Orders, Edit(t, w)
    PROVE  Keeps(t)
<1>1. PICK v \in Supervisors :
        \/ \E s \in Statuses : PatchStatus(t, w, v, s)
        \/ \E C \in SUBSET Workers : PatchCrew(t, w, v, C)
        \/ \E x \in Supervisors \cup {None} : PatchRouting(t, w, v, x)
        \/ Archive(t, w, v) \/ Restore(t, w, v)
  BY DEF Edit
<1>2. /\ order \in [Orders -> OrderRows] /\ order[w] \in OrderRows /\ running \in Clocks
      /\ \A S : Stopped(S) \in Clocks
  BY StoppedKeeps DEF IInv, StoreOK
<1>3. ASSUME NEW s \in Statuses, NEW C PROVE Reconcile(s, C) \in Statuses
  BY DEF Reconcile, PreWork, Statuses
<1>4. ASSUME NEW s \in Statuses, PatchStatus(t, w, v, s) PROVE Keeps(t)
  <2> DEFINE now == Reconcile(s, order[w].crew)
             stops == now \in Stopping /\ now # order[w].status
             row == [order[w] EXCEPT !.status = now]
             clocks == IF stops THEN Stopped(Charging(w)) ELSE running
             p == Moved("patch", w, v, now)
  <2>1. Write(t, "patch", Row(w, now), clocks, p) /\ now \in Statuses
    BY <1>3, <1>4 DEF PatchStatus
  <2>2. p \in Pend /\ p.route = "patch" /\ p.order = w /\ p.committed
    BY <2>1, MovedKeeps DEF Routes
  <2>3. clocks \in Clocks
    BY <1>2
  <2> HIDE DEF p, clocks
  <2>4. Row(w, now) = [order EXCEPT ![w] = row] /\ row \in OrderRows
    BY <1>2, <2>1 DEF Row, OrderRows
  <2> QED
    BY <2>1, <2>2, <2>3, <2>4, EditKeeps DEF Quiet
<1>5. ASSUME NEW C \in SUBSET Workers, PatchCrew(t, w, v, C) PROVE Keeps(t)
  <2> DEFINE now == Reconcile(order[w].status, C)
             row == [order[w] EXCEPT !.crew = C, !.status = now]
             rows == [order EXCEPT ![w].crew = C, ![w].status = now]
             m == Moved("patch", w, v, now)
             p == [m EXCEPT !.added = C \ order[w].crew]
  <2>1. Write(t, "assign", rows, running, p)
    BY <1>5 DEF PatchCrew
  <2>2. now \in Statuses
    BY <1>2, <1>3 DEF OrderRows
  <2>3. m \in Pend /\ m.route = "patch" /\ m.order = w /\ m.committed
    BY <2>2, MovedKeeps DEF Routes
  <2> HIDE DEF now, m
  <2>4. p \in Pend /\ p.route = "patch" /\ p.order = w /\ p.committed
    BY <2>3 DEF Pend
  <2>5. rows = [order EXCEPT ![w] = row] /\ row \in OrderRows
    BY <1>2, <2>2 DEF OrderRows
  <2> HIDE DEF p, rows, row
  <2> QED
    BY <1>2, <2>1, <2>4, <2>5, EditKeeps DEF Quiet
<1>6. ASSUME NEW x \in Supervisors \cup {None}, PatchRouting(t, w, v, x) PROVE Keeps(t)
  <2> DEFINE row == [order[w] EXCEPT !.sup = x]
             rows == [order EXCEPT ![w].sup = x]
             s == order[w].status
             m == Moved("patch", w, v, s)
             to == IF x = order[w].sup THEN None ELSE x
             p == [m EXCEPT !.routed = to]
  <2>1. Write(t, "route", rows, running, p)
    BY <1>6 DEF PatchRouting
  <2>2. s \in Statuses /\ to \in Supervisors \cup {None}
    BY <1>2 DEF OrderRows
  <2>3. m \in Pend /\ m.route = "patch" /\ m.order = w /\ m.committed
    BY <2>2, MovedKeeps DEF Routes
  <2> HIDE DEF s, m, to
  <2>4. p \in Pend /\ p.route = "patch" /\ p.order = w /\ p.committed
    BY <2>2, <2>3 DEF Pend
  <2>5. rows = [order EXCEPT ![w] = row] /\ row \in OrderRows
    BY <1>2 DEF OrderRows
  <2> HIDE DEF p, rows, row
  <2> QED
    BY <1>2, <2>1, <2>4, <2>5, EditKeeps DEF Quiet
<1>7. CASE Archive(t, w, v)
  <2> DEFINE row == [order[w] EXCEPT !.live = FALSE]
             rows == [order EXCEPT ![w].live = FALSE]
             clocks == Stopped(Charging(w))
             p == [NoRequest EXCEPT !.route = "archive", !.order = w, !.by = v]
  <2>1. Write(t, "archive", rows, clocks, p)
    BY <1>7 DEF Archive
  <2>2. p \in Pend /\ p.route = "archive" /\ p.order = w /\ Quiet(p)
    BY DEF Pend, NoRequest, Routes, Quiet
  <2>3. rows = [order EXCEPT ![w] = row] /\ row \in OrderRows
    BY <1>2 DEF OrderRows
  <2>4. clocks \in Clocks
    BY <1>2
  <2> HIDE DEF p, rows, row, clocks
  <2> QED
    BY <2>1, <2>2, <2>3, <2>4, EditKeeps
<1>8. CASE Restore(t, w, v)
  <2> DEFINE rows == [order EXCEPT ![w].live = TRUE]
             p == [NoRequest EXCEPT !.route = "restore", !.order = w, !.by = v]
  <2>1. Write(t, "restore", rows, running, p)
    BY <1>8 DEF Restore
  <2>2. p \in Pend /\ p.route = "restore" /\ Quiet(p)
    BY DEF Pend, NoRequest, Routes, Quiet
  <2>3. rows \in [Orders -> OrderRows]
    BY <1>2 DEF OrderRows
  <2> HIDE DEF p, rows
  <2>4. Says(p, rows, running)
    BY <1>2, <2>2, <2>3 DEF Says, Announced, Outdated, Cards
  <2> QED
    BY <2>1, <2>2, <2>4, WriteKeeps
<1> QED
  BY <1>1, <1>4, <1>5, <1>6, <1>7, <1>8

\* Ending a shift is the one route that writes and announces nothing of it.
LEMMA PunchOutStep ==
    ASSUME IInv, NEW t \in Threads, NEW u \in Workers, PunchOut(t, u)
    PROVE  Keeps(t) /\ "punchOut" \in Sends[t]
<1>1. PICK w \in {running[u]} \ {None} :
        Write(t, "punchOut", Row(w, HeldWithout(u, w)), Stopped({u}),
              [NoRequest EXCEPT !.route = "punchOut", !.by = u])
  BY DEF PunchOut
<1> DEFINE p == [NoRequest EXCEPT !.route = "punchOut", !.by = u]
           rows == Row(w, HeldWithout(u, w))
<1>2. w \in Orders
  BY DEF IInv, StoreOK, Clocks
<1>3. rows \in [Orders -> OrderRows] /\ Stopped({u}) \in Clocks
  BY <1>2, HeldKeeps, RowKeeps, StoppedKeeps
<1>4. p \in Pend /\ p.route = "punchOut" /\ Quiet(p)
  BY DEF Pend, NoRequest, Routes, Quiet
<1> HIDE DEF p, rows
<1>5. Says(p, rows, Stopped({u}))
  BY <1>3, <1>4 DEF Says
<1>6. Write(t, "punchOut", rows, Stopped({u}), p)
  BY <1>1 DEF rows, p
<1> QED
  BY <1>5, <1>6, WriteKeeps DEF Write

\* An answer takes off what clients had not heard exactly what it announces.
LEMMA AnswerStep ==
    ASSUME IInv, NEW t \in Threads, Answer(t)
    PROVE  Keeps(t)
<1>1. /\ unheard' = unheard \ Announced(pend[t]) /\ UNCHANGED <<order, running>>
      /\ pend' = [pend EXCEPT ![t] = NoRequest]
  BY DEF Answer
<1>2. NoRequest \in Pend /\ Quiet(NoRequest)
  BY DEF NoRequest, Pend, Quiet
<1>3. IInv'
  BY <1>1, <1>2 DEF IInv, StoreOK
<1>4. ASSUME MovesAreHeard, NEW q \in unheard' PROVE \E v \in Threads : q \in Announced(pend'[v])
  BY <1>1, <1>4 DEF IInv, MovesAreHeard
<1> QED
  BY <1>3, <1>4 DEF Keeps, MovesAreHeard

LEMMA Step ==
    ASSUME IInv, Next
    PROVE  IInv' /\ ((\A t \in Threads : "punchOut" \notin Sends[t]) /\ MovesAreHeard
                     => MovesAreHeard')
<1>1. PICK t \in Threads :
        \/ \E w \in Orders : Tap(t, w) \/ Edit(t, w)
        \/ \E u \in Workers : PunchOut(t, u)
        \/ Answer(t)
  BY DEF Next
<1>2. ASSUME NEW w \in Orders, Tap(t, w) PROVE Keeps(t)
  BY <1>2, TapStep, StartStep DEF Tap
<1> QED
  BY <1>1, <1>2, EditStep, PunchOutStep, AnswerStep DEF Keeps

LEMMA InitIInv == Init => IInv /\ MovesAreHeard
<1> SUFFICES ASSUME Init PROVE IInv /\ MovesAreHeard
  OBVIOUS
<1>1. order \in [Orders -> OrderRows]
  BY DEF Init, OrderRows, Statuses
<1>2. NoRequest \in Pend /\ Quiet(NoRequest)
  BY DEF NoRequest, Pend, Quiet
<1> QED
  BY <1>1, <1>2 DEF Init, IInv, StoreOK, Clocks, MovesAreHeard

LEMMA Stutter == IInv /\ UNCHANGED vars => IInv' /\ (MovesAreHeard => MovesAreHeard')
  BY DEF IInv, StoreOK, MovesAreHeard, vars

LEMMA Invariant == Spec => []IInv
  BY InitIInv, Step, Stutter, PTL DEF Spec

-----------------------------------------------------------------------------
(* The theorems *)

\* Every route leaves every variable in its type: TypeOK of WorkOrderEvents.
THEOREM TypeCorrect == Spec => []TypeOK
  BY Types, Invariant, PTL

LEMMA NoNews == ASSUME NEW r, NEW s PROVE News(r, s, s) = "none"
<1>1. PatchNews(s, s) = "none"
  BY DEF PatchNews
<1>2. CASE r = "patch"
  BY <1>1, <1>2 DEF News
<1>3. CASE r # "patch"
  BY <1>3 DEF News
<1> QED
  BY <1>2, <1>3

LEMMA Silent == ASSUME IInv PROVE RepeatIsSilent
<1> SUFFICES ASSUME NEW t \in Threads, pend[t].route # "none", ~pend[t].committed
             PROVE  Pushes(pend[t]) = {}
  BY DEF RepeatIsSilent
<1> DEFINE p == pend[t]
<1>1. p.prev = p.wrote /\ p.added = {} /\ p.routed = None /\ p.side = None
  BY DEF IInv, Quiet
<1>2. Shown(p) = p.prev
  BY <1>1 DEF Shown
<1>3. News(p.route, p.prev, p.prev) = "none"
  BY NoNews
<1>4. Told(p) = {}
  <2>1. CASE p.route = "start"
    BY <1>1, <2>1 DEF Told
  <2>2. CASE p.route # "start"
    BY <1>2, <1>3, <2>2 DEF Told, Said
  <2> QED
    BY <2>1, <2>2
<1>5. p.added \ {p.by} = {} /\ {p.routed} \ {None, p.by} = {}
  BY <1>1
<1> HIDE DEF p
<1>6. Pushes(p) = {}
  BY <1>4, <1>5 DEF Pushes
<1> QED
  BY <1>6 DEF p

\* A tap that found its work done pushes nothing, also when another request moves
\* the order between its read and its answer: RepeatIsSilent (routers/work_orders.py).
THEOREM RepeatsAreSilent == Spec => []RepeatIsSilent
  BY Silent, Invariant, PTL

\* While nobody ends a shift, whatever a request changed on a card, in the Review
\* queue or on the crew board is announced by a request that has yet to answer, the
\* order a clock was moved away from included: MovesAreHeard (routers/work_orders.py).
THEOREM MovesAreAnnounced ==
    (\A t \in Threads : "punchOut" \notin Sends[t]) => (Spec => []MovesAreHeard)
<1> SUFFICES ASSUME \A t \in Threads : "punchOut" \notin Sends[t] PROVE Spec => []MovesAreHeard
  OBVIOUS
<1>1. IInv /\ MovesAreHeard /\ [Next]_vars => MovesAreHeard'
  BY Step, Stutter
<1> QED
  BY <1>1, InitIInv, Invariant, PTL DEF Spec

=============================================================================
