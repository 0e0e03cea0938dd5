---------------------------- MODULE Attendance ----------------------------
(***************************************************************************)
(* Shift punches: services/attendance.py over domain/attendance.py and     *)
(* domain/labor_day.py.  No row is locked here.  A request takes the time  *)
(* once, sweeps punches forgotten on an earlier day to their midnight (a   *)
(* commit of its own), reads the rows it acts on, and commits a write of   *)
(* the columns it changed against the copy it read.  A thread goes through *)
(* those steps; other threads, and the clock, run between them.            *)
(***************************************************************************)
EXTENDS Integers, FiniteSets, FiniteSetsExt

CONSTANTS Threads,
          Workers, Leads, Admins,   \* people by role; a lead may edit anyone
          Owners,    \* the people who punch and are punched for
          None,
          Sends,     \* the operations each thread carries
          DayLen, WeekLen,          \* ticks in a day, days in a week
          LaborCap,  \* ticks after which a running work-order clock is closed
          MaxNow, MaxPunches, MaxAudits   \* bounds

People == Workers \cup Leads \cup Admins

ASSUME AttendanceAssumption ==
    /\ {DayLen, WeekLen, LaborCap} \subseteq Nat \ {0}
    /\ {MaxNow, MaxPunches, MaxAudits} \subseteq Nat
    /\ Owners \subseteq People
    /\ None \notin Nat \cup People

VARIABLES now,
          punch,     \* attendance_punches: row or None by id
          clock,     \* when a person's running work-order clock started
          estimates, \* auto-closed labor sessions nobody has accepted
          job,       \* what each thread is doing
          audits,    \* commits that wrote rows to attendance_punch_edits
          crossed,   \* people two of whose requests overlapped in time
          left       \* people whose clock a sweep or a delete left running

vars == <<now, punch, clock, estimates, job, audits, crossed, left>>

Ids == 1 .. MaxPunches
Instants == 0 .. MaxNow

-----------------------------------------------------------------------------
(* Central days and weeks; where a punch ends for every read.              *)

DayOf(t) == t \div DayLen
DayStart(t) == DayOf(t) * DayLen
MidnightAfter(t) == (DayOf(t) + 1) * DayLen
WeekOf(t) == DayOf(t) \div WeekLen
WeekIsOpen(t, at) == WeekOf(t) = WeekOf(at)
WindowStart(week) == week * WeekLen * DayLen
WindowEnd(week) == (week + 1) * WeekLen * DayLen

\* Seeded fault: a read shows a forgotten punch as still running.
CappedEnd_Uncapped(p, at) == p.end

CappedEnd(p, at) ==
    IF p.end # None THEN p.end
    ELSE IF at >= MidnightAfter(p.start) THEN MidnightAfter(p.start) ELSE None

EndOr(end, at) == IF end = None THEN at ELSE end

Overlaps(s, e, p, at) == p.start < EndOr(e, at) /\ s < EndOr(p.end, at)

ValidWindow(s, e, at) ==
    /\ s <= at
    /\ e # None => s < e /\ e <= at /\ e <= MidnightAfter(s)

Live == {i \in Ids : punch[i] # None /\ ~punch[i].deleted}
LiveOf(u) == {i \in Live : punch[i].user = u}
OpenOf(u) == {i \in LiveOf(u) : punch[i].end = None}
Free == {i \in Ids : punch[i] = None}

\* A week-grid row: a punch past its midnight already reads as the sweep
\* will write it, closed and flagged.
Capped(i) == punch[i].end = None /\ CappedEnd(punch[i], now) # None
GridRow(i) ==
    [start |-> punch[i].start, end |-> CappedEnd(punch[i], now),
     source |-> IF Capped(i) THEN "auto_clock_out" ELSE punch[i].source,
     flagged |-> punch[i].review \/ Capped(i)]
Grid == [i \in Live |-> GridRow(i)]

\* The Home tab and the live roster: a punch past its midnight is no shift.
OnShift == {u \in Owners : \E i \in OpenOf(u) : CappedEnd(punch[i], now) = None}

Paid == [u \in Owners |->
    UNION {punch[i].start .. (EndOr(CappedEnd(punch[i], now), now) - 1) : i \in LiveOf(u)}]

-----------------------------------------------------------------------------
(* Requests.                                                               *)

IsLead(a) == a \in Leads \cup Admins
IsAdmin(a) == a \in Admins

\* Team leads change anyone's punch; others their own, in the open week.
MayEdit(r, u, starts) ==
    IsLead(r.actor) \/ (r.actor = u /\ \A s \in starts : WeekIsOpen(s, r.at))

Idle == [phase |-> "idle"]
Busy == {t \in Threads : job[t].phase # "idle"}

Scope(r) == IF r.op \in {"review", "board"} THEN Owners ELSE {r.user}

\* Everything but add and delete sweeps first.
Expired(r) ==
    IF r.op \in {"add", "delete"} THEN {}
    ELSE {i \in Live : /\ punch[i].user \in Scope(r)
                       /\ punch[i].end = None
                       /\ punch[i].start < DayStart(r.at)}

\* Ending a shift ends the running clock, unless it started later.
EndsClock(u, end) == clock[u] = None \/ clock[u] <= end

Overlapping(r, i, s, e) ==
    \E j \in LiveOf(r.user) \ {i} : Overlaps(s, e, punch[j], r.at)

\* The row an edit asks for, from the copy it read (None keeps a column).
Edited(r, p) ==
    LET times == [p EXCEPT !.start = IF r.start = None THEN @ ELSE r.start,
                           !.end = IF r.end = None THEN @ ELSE r.end]
        retimed == times.start # p.start \/ times.end # p.end
        clears == p.review /\ (r.looksRight \/ retimed)
        mine == r.actor = p.user
    IN  [times EXCEPT
          !.source = IF times.end = p.end THEN @
                     ELSE IF mine THEN "self_edit" ELSE "admin_edit",
          !.review = @ /\ ~clears,
          !.seen = @ \/ clears]

MayPatch(r, p) ==
    LET new == Edited(r, p) IN
    /\ MayEdit(r, p.user, {p.start, new.start})
    /\ r.looksRight => IsAdmin(r.actor)
    /\ <<new.start, new.end>> # <<p.start, p.end>> =>
        /\ ValidWindow(new.start, new.end, r.at)
        /\ ~Overlapping(r, r.id, new.start, new.end)
    /\ new # p
    /\ p.end = None /\ new.end # None => EndsClock(p.user, new.end)

\* Seeded fault: ending a shift forgets the work-order clock.
Write_LeavesClock(r, i, new, stops) ==
    [phase |-> "write", scope |-> {r.user}, id |-> i, copy |-> punch[i], new |-> new,
     audited |-> r.op # "punchOut", stops |-> None]

\* After the sweep a request reads, checks, and keeps what it will write:
\* the id, the copy it read, the new row, and the clock it will stop.
Write(r, i, new, stops) ==
    [phase |-> "write", scope |-> {r.user}, id |-> i, copy |-> punch[i], new |-> new,
     audited |-> r.op # "punchOut", stops |-> IF stops THEN clock[r.user] ELSE None]

NewRow(u, s, e, source) ==
    [user |-> u, start |-> s, end |-> e, source |-> source, review |-> FALSE,
     seen |-> FALSE, deleted |-> FALSE]

Insert(r, row) ==
    [phase |-> "insert", scope |-> {r.user}, new |-> row,
     audited |-> r.op = "add", starts |-> r.op = "startWork"]

Starting(u) == [phase |-> "start", scope |-> {u}]

ReadPunchIn(r) ==
    IF OpenOf(r.user) # {} THEN Idle
    ELSE Insert(r, NewRow(r.user, r.at, None, None))

\* An open punch is enough to start work; otherwise one is opened first.
ReadStartWork(r) ==
    IF OpenOf(r.user) # {} THEN Starting(r.user) ELSE ReadPunchIn(r)

ReadPunchOut(r) ==
    IF OpenOf(r.user) = {} \/ ~EndsClock(r.user, r.at) THEN Idle
    ELSE LET i == CHOOSE i \in OpenOf(r.user) : TRUE IN
         Write(r, i, [punch[i] EXCEPT !.end = r.at, !.source = "manual"], TRUE)

ReadAdd(r) ==
    IF /\ MayEdit(r, r.user, {r.start})
       /\ ValidWindow(r.start, r.end, r.at)
       /\ ~Overlapping(r, None, r.start, r.end)
    THEN Insert(r, NewRow(r.user, r.start, r.end,
                          IF r.actor = r.user THEN "self_edit" ELSE "admin_edit"))
    ELSE Idle

ReadEdit(r) ==
    IF r.id \in Live /\ MayPatch(r, punch[r.id])
    THEN Write(r, r.id, Edited(r, punch[r.id]),
               punch[r.id].end = None /\ r.end # None)
    ELSE Idle

\* The roster's "Clock out" is an edit of the open punch's end.
ReadClockOut(r) ==
    IF OpenOf(r.user) = {} THEN Idle
    ELSE ReadEdit([r EXCEPT !.id = CHOOSE i \in OpenOf(r.user) : TRUE, !.end = r.at])

ReadDelete(r) ==
    IF r.id \in Live /\ MayEdit(r, r.user, {punch[r.id].start})
    THEN Write(r, r.id, [punch[r.id] EXCEPT !.deleted = TRUE], FALSE)
    ELSE Idle

\* Flagged punches and unaccepted estimates that touch the week.
ReadReview(r) ==
    [phase |-> "review", scope |-> Owners, week |-> r.week,
     ids |-> {i \in Live : /\ punch[i].review
                           /\ punch[i].end # None
                           /\ punch[i].start < WindowEnd(r.week)
                           /\ punch[i].end > WindowStart(r.week)}]

Read(r) ==
    CASE r.op = "punchIn"   -> ReadPunchIn(r)
      [] r.op = "punchOut"  -> ReadPunchOut(r)
      [] r.op = "startWork" -> ReadStartWork(r)
      [] r.op = "add"       -> ReadAdd(r)
      [] r.op = "edit"      -> ReadEdit(r)
      [] r.op = "clockOut"  -> ReadClockOut(r)
      [] r.op = "delete"    -> ReadDelete(r)
      [] r.op = "review"    -> ReadReview(r)
      [] r.op = "board"     -> Idle

NoArgs == [op |-> "board", actor |-> None, user |-> None, at |-> 0, id |-> None,
           start |-> None, end |-> None, looksRight |-> FALSE,
           week |-> 0]

Ops == {"punchIn", "punchOut", "startWork", "add", "edit", "clockOut", "delete",
        "review", "board"}
ASSUME SendsAssumption == Sends \in [Threads -> SUBSET Ops]

Ask(o, a, u) == [NoArgs EXCEPT !.op = o, !.actor = a, !.user = u]
AskOf(o, a, i) == [Ask(o, a, punch[i].user) EXCEPT !.id = i]
AskWeek(a, w) == [Ask("review", a, None) EXCEPT !.week = w]
Timed(r, s, e) == [r EXCEPT !.start = s, !.end = e]
Marked(r, looksRight) == [r EXCEPT !.looksRight = looksRight]

\* What people send.  A punch is named by an id its screen showed.
Asked(o) ==
    CASE o \in {"punchIn", "punchOut", "startWork"} -> {Ask(o, u, u) : u \in Owners}
      [] o = "add" ->
            {Timed(Ask(o, a, u), s, e) :
                a \in People, u \in Owners, s \in Instants, e \in Instants}
      [] o = "edit" ->
            {Marked(Timed(AskOf(o, a, i), s, e), l) :
                a \in People, i \in Live, l \in BOOLEAN,
                s \in Instants \cup {None}, e \in Instants \cup {None}}
      [] o = "clockOut" -> {Ask(o, a, u) : a \in Leads \cup Admins, u \in Owners}
      [] o = "delete" -> {AskOf(o, a, i) : a \in People, i \in Live}
      [] o = "review" -> {AskWeek(a, w) : a \in Admins, w \in {WeekOf(t) : t \in 0 .. now}}
      [] o = "board" -> {NoArgs}

-----------------------------------------------------------------------------
(* Steps.                                                                  *)

PunchRows == [user : Owners, start : Instants, end : Instants \cup {None},
              source : {None, "manual", "auto_clock_out", "self_edit", "admin_edit"},
              review : BOOLEAN, seen : BOOLEAN, deleted : BOOLEAN]
ASSUME NoneIsNoRow == None \notin PunchRows /\ None # "auto_clock_out"

TypeOK ==
    /\ now \in Instants
    /\ punch \in [Ids -> PunchRows \cup {None}]
    /\ clock \in [Owners -> Instants \cup {None}]
    /\ \A u \in Owners : estimates[u] \subseteq Instants \X (Instants \cup {MaxNow + LaborCap})
    /\ \A t \in Threads : job[t].phase \in
         {"idle", "sweep", "look", "write", "insert", "start", "review"}
    /\ audits \in Nat
    /\ crossed \subseteq Owners
    /\ left \subseteq Owners

Init ==
    /\ now = 0
    /\ punch = [i \in Ids |-> None]
    /\ clock = [u \in Owners |-> None]
    /\ estimates = [u \in Owners |-> {}]
    /\ job = [t \in Threads |-> Idle]
    /\ audits = 0
    /\ crossed = {}
    /\ left = {}

ScopeOf(t) == IF job[t].phase = "idle" THEN {} ELSE job[t].scope

\* Time passes.  A request that spans a tick counts as overlapping.
Tick ==
    /\ now < MaxNow
    /\ now' = now + 1
    /\ crossed' = crossed \cup UNION {ScopeOf(t) : t \in Threads}
    /\ UNCHANGED <<punch, clock, estimates, job, audits, left>>

\* Clocks past the cap, closed at the cap when a week is reviewed.
Overrun(r) == IF r.op = "review" THEN {u \in Owners : clock[u] # None /\ clock[u] + LaborCap <= r.at}
              ELSE {}

\* A request arrives, and either finds something to sweep or reads on.
Arrive(t) ==
    /\ job[t].phase = "idle"
    /\ \E o \in Sends[t] : \E a \in Asked(o) :
        LET r == [a EXCEPT !.at = now] IN
        /\ job' = [job EXCEPT ![t] =
             IF Expired(r) = {} THEN Read(r)
             ELSE [phase |-> "sweep", scope |-> Scope(r), req |-> r,
                   rows |-> {<<i, punch[i].start>> : i \in Expired(r)}]]
        /\ clock' = [u \in Owners |-> IF u \in Overrun(r) THEN None ELSE clock[u]]
        /\ left' = left \ Overrun(r)
        /\ estimates' = [u \in Owners |-> estimates[u] \cup
             (IF u \in Overrun(r) THEN {<<clock[u], clock[u] + LaborCap>>} ELSE {})]
        /\ crossed' = crossed \cup
             (Scope(r) \cap UNION {ScopeOf(s) : s \in Threads \ {t}})
    /\ UNCHANGED <<now, punch, audits>>

\* The sweep's own commit: the midnight of the start it read, flagged.
SweptRow(p, start) ==
    [p EXCEPT !.end = MidnightAfter(start), !.source = "auto_clock_out", !.review = TRUE]

SweepCommit(t) ==
    /\ job[t].phase = "sweep"
    /\ LET ids == {x[1] : x \in job[t].rows}
           startOf(i) == (CHOOSE x \in job[t].rows : x[1] = i)[2] IN
       /\ punch' = [i \in Ids |-> IF i \in ids THEN SweptRow(punch[i], startOf(i)) ELSE punch[i]]
       /\ left' = left \cup {u \in Owners : clock[u] # None /\ \E i \in ids : punch[i].user = u}
       /\ job' = [job EXCEPT ![t] = [phase |-> "look", scope |-> @.scope, req |-> @.req]]
    /\ UNCHANGED <<now, clock, estimates, audits, crossed>>

Look(t) ==
    /\ job[t].phase = "look"
    /\ job' = [job EXCEPT ![t] = Read(@.req)]
    /\ UNCHANGED <<now, punch, clock, estimates, audits, crossed, left>>

\* An UPDATE carries the columns that differ from the copy.
Merged(p, copy, new) ==
    [p EXCEPT !.start = IF new.start = copy.start THEN @ ELSE new.start,
              !.end = IF new.end = copy.end THEN @ ELSE new.end,
              !.source = IF new.source = copy.source THEN @ ELSE new.source,
              !.review = IF new.review = copy.review THEN @ ELSE new.review,
              !.deleted = @ \/ new.deleted,
              !.seen = @ \/ new.seen]

\* The audit rows ride in the commit; a person's own taps write none.
Audited(j) == IF j.audited THEN 1 ELSE 0

Commit(t) ==
    /\ job[t].phase = "write"
    /\ LET j == job[t]  u == j.copy.user IN
       /\ audits + Audited(j) <= MaxAudits
       /\ punch' = [punch EXCEPT ![j.id] = Merged(@, j.copy, j.new)]
       /\ audits' = audits + Audited(j)
       /\ LET stopped == j.stops # None /\ clock[u] = j.stops
              leaves == j.new.deleted /\ j.copy.end = None /\ clock[u] # None IN
          /\ clock' = [clock EXCEPT ![u] = IF stopped THEN None ELSE @]
          /\ left' = IF stopped THEN left \ {u} ELSE IF leaves THEN left \cup {u} ELSE left
       /\ job' = [job EXCEPT ![t] = Idle]
    /\ UNCHANGED <<now, estimates, crossed>>

\* The partial unique index: one live open punch per person.
Collides(row) == row.end = None /\ OpenOf(row.user) # {}

InsertPunch(t) ==
    /\ job[t].phase = "insert"
    /\ Free # {}
    /\ LET j == job[t]  row == j.new IN
       IF Collides(row)
       THEN /\ job' = [job EXCEPT ![t] = Idle]   \* reports the winner's punch
            /\ UNCHANGED <<punch, audits>>
       ELSE /\ punch' = [punch EXCEPT ![Min(Free)] = row]
            /\ audits' = audits + Audited(j)
            /\ audits' <= MaxAudits
            /\ job' = [job EXCEPT ![t] = IF j.starts THEN Starting(row.user) ELSE Idle]
    /\ UNCHANGED <<now, clock, estimates, crossed, left>>

\* start_labor_session, a transaction of its own: it may be refused, and
\* the punch stays.  A person starts no two clocks in one instant.
StartWork(t) ==
    /\ job[t].phase = "start"
    /\ \E u \in job[t].scope :
       \/ UNCHANGED <<clock, left>>
       \/ /\ clock[u] # now
          /\ clock' = [clock EXCEPT ![u] = now]
          /\ left' = left \ {u}
    /\ job' = [job EXCEPT ![t] = Idle]
    /\ UNCHANGED <<now, punch, estimates, audits, crossed>>

\* Stop, Hold, Complete...: the work-order side ends a clock (LaborClock).
StopWork(u) ==
    /\ clock[u] # None
    /\ clock' = [clock EXCEPT ![u] = None]
    /\ left' = left \ {u}
    /\ UNCHANGED <<now, punch, estimates, job, audits, crossed>>

Touches(x, week) == x[1] < WindowEnd(week) /\ x[2] > WindowStart(week)

ReviewCommit(t) ==
    /\ job[t].phase = "review"
    /\ job[t].ids # {} => audits < MaxAudits
    /\ punch' = [i \in Ids |-> IF i \in job[t].ids
                 THEN [punch[i] EXCEPT !.review = FALSE, !.seen = TRUE] ELSE punch[i]]
    /\ estimates' = [u \in Owners |-> {x \in estimates[u] : ~Touches(x, job[t].week)}]
    /\ audits' = audits + (IF job[t].ids = {} THEN 0 ELSE 1)
    /\ job' = [job EXCEPT ![t] = Idle]
    /\ UNCHANGED <<now, clock, crossed, left>>

Next ==
    \/ Tick
    \/ \E t \in Threads : Arrive(t) \/ SweepCommit(t) \/ Look(t) \/ Commit(t)
                          \/ InsertPunch(t) \/ StartWork(t) \/ ReviewCommit(t)
    \/ \E u \in Owners : StopWork(u)

Spec == Init /\ [][Next]_vars

-----------------------------------------------------------------------------
(* Properties.                                                             *)

\* Nobody has two open punches, however the taps interleave: only the
\* unique index keeps two taps that both saw none apart.
OneOpenPunch == \A u \in Owners : Cardinality(OpenOf(u)) <= 1

\* As long as no two requests about a person overlapped: his punches do not
\* overlap, none crosses midnight, none ends in the future.
SoundTimesheet ==
    \A u \in Owners \ crossed : \A i \in LiveOf(u) :
        LET e == EndOr(CappedEnd(punch[i], now), now) IN
        /\ e <= MidnightAfter(punch[i].start) /\ e <= now
        /\ \A j \in LiveOf(u) \ {i} :
            (punch[i].start .. (e - 1)) \cap
            (punch[j].start .. (EndOr(CappedEnd(punch[j], now), now) - 1)) = {}

\* A work-order clock runs outside a shift only for a person whose punch was
\* swept to midnight or deleted under it; every other way out stops it.
ClockOnShift ==
    \A u \in Owners \ crossed : clock[u] # None /\ OpenOf(u) = {} => u \in left

\* An end the sweep made up stays flagged until somebody with the right to
\* has looked at it, whatever ran between.
EstimatesFlagged ==
    \A i \in Live : punch[i].source = "auto_clock_out" => punch[i].review \/ punch[i].seen

\* Writing a midnight down changes nothing anybody sees: the week grid and
\* the roster already read the punch as the sweep writes it.
SweepInvisible ==
    [][\A t \in Threads : SweepCommit(t) /\ crossed = {} => Grid' = Grid /\ OnShift' = OnShift]_vars

\* "Mark all reviewed" leaves no punch and no session of that week flagged.
ReviewClearsWeek ==
    [][\A t \in Threads : ReviewCommit(t) /\ crossed = {} =>
        LET reviewed == job[t].week IN
        /\ \A i \in Live' : GridRow(i)'.flagged =>
             ~Touches(<<punch'[i].start, GridRow(i)'.end>>, reviewed)
        /\ \A u \in Owners : \A x \in estimates'[u] : ~Touches(x, reviewed)]_vars

\* The detailed rows implement the abstract pay record.
PayRecord == INSTANCE Timesheet WITH
    People <- Owners, paid <- Paid, onShift <- OnShift, disputed <- crossed
KeepsPayRecord == PayRecord!Spec

\* A person has one open punch, and what the sweep made up stays flagged, however
\* taps, edits and sweeps interleave; punches do not overlap and a clock on a job
\* runs inside a punch, unless two requests about the person did (attendance.py).
TimesheetHolds ==
    TypeOK /\ OneOpenPunch /\ SoundTimesheet /\ ClockOnShift /\ EstimatesFlagged

\* The rows implement the abstract pay record Timesheet, the midnight sweep changes
\* nothing anyone was shown, and a review clears the week it looked at
\* (attendance.py, attendance_week.py).
RecordStands == KeepsPayRecord /\ SweepInvisible /\ ReviewClearsWeek
=============================================================================
