--------------------------- MODULE AttendanceProofs --------------------------
(***************************************************************************)
(* For any people, requests and lengths of day and week: the timesheet     *)
(* holds together and every step is one the pay record Timesheet allows.   *)
(***************************************************************************)
EXTENDS Attendance, FiniteSetTheorems, WellFoundedInduction, TLAPS

-----------------------------------------------------------------------------
(* Types *)

Reqs == [op : Ops, actor : People \cup {None}, user : Owners \cup {None}, at : Instants,
         id : Ids \cup {None}, start : Instants \cup {None}, end : Instants \cup {None},
         looksRight : BOOLEAN, week : Nat]

\* A request names a person, and a punch of his that once was.
Names(r) ==
    /\ r \in Reqs
    /\ r.op \notin {"review", "board"} => r.user \in Owners
    /\ r.op = "add" => r.start # None /\ r.end # None
    /\ r.op \in {"edit", "delete"} =>
         r.id \in Ids /\ punch[r.id] # None /\ punch[r.id].user = r.user

SweepJobs == [phase : {"sweep"}, scope : SUBSET Owners, req : Reqs,
              rows : SUBSET (Ids \X Instants)]
LookJobs == [phase : {"look"}, scope : SUBSET Owners, req : Reqs]
WriteJobs == [phase : {"write"}, scope : SUBSET Owners, id : Ids, copy : PunchRows,
              new : PunchRows, audited : BOOLEAN, stops : Instants \cup {None}]
InsertJobs == [phase : {"insert"}, scope : SUBSET Owners, new : PunchRows,
               audited : BOOLEAN, starts : BOOLEAN]
StartJobs == [phase : {"start"}, scope : SUBSET Owners]
ReviewJobs == [phase : {"review"}, scope : SUBSET Owners, week : Nat, ids : SUBSET Ids]
Jobs == {Idle} \cup SweepJobs \cup LookJobs \cup WriteJobs \cup InsertJobs \cup StartJobs
        \cup ReviewJobs

\* What a job may carry, whoever else is about: a write changes a column only as its
\* request may, so that merging it never reopens a shift nor unflags an estimate.
Reads(j) ==
    /\ Names(j.req) /\ j.scope = Scope(j.req) /\ j.req.at <= now
    /\ j.req.op \notin {"add", "delete"}
Sweeps(j) ==
    /\ Reads(j)
    /\ \A x \in j.rows : /\ x[2] < DayStart(j.req.at)
                         /\ punch[x[1]] # None /\ punch[x[1]].user \in j.scope
    /\ \A x, y \in j.rows : x[1] = y[1] => x = y
Writes(j) ==
    /\ j.scope = {j.copy.user} /\ j.new.user = j.copy.user
    /\ punch[j.id] # None /\ punch[j.id].user = j.copy.user
    /\ j.new.end = None => j.copy.end = None
    /\ j.new.source # j.copy.source => j.new.source # "auto_clock_out"
    /\ j.new.review => j.copy.review
    /\ j.new.review # j.copy.review => j.new.seen
Inserts(j) ==
    /\ j.scope = {j.new.user} /\ ~j.new.deleted /\ ~j.new.review
    /\ j.new.source # "auto_clock_out"
    /\ j.starts => j.new.end = None
JobOK(j) ==
    /\ j \in Jobs
    /\ j.phase = "sweep" => Sweeps(j)
    /\ j.phase = "look" => Reads(j)
    /\ j.phase = "write" => Writes(j)
    /\ j.phase = "insert" => Inserts(j)
    /\ j.phase = "start" => \E u \in Owners : j.scope = {u}
    /\ j.phase = "review" => j.scope = Owners /\ \A i \in j.ids : punch[i] # None

\* The partial unique index, row by row.
UniqueOpen ==
    \A i, j \in Live : punch[i].user = punch[j].user /\ punch[i].end = None /\ punch[j].end = None
                       => i = j

TInv ==
    /\ now \in Instants
    /\ punch \in [Ids -> PunchRows \cup {None}]
    /\ clock \in [Owners -> Instants \cup {None}]
    /\ estimates \in [Owners -> SUBSET (Instants \X (Instants \cup {MaxNow + LaborCap}))]
    /\ DOMAIN job = Threads /\ \A t \in Threads : JobOK(job[t])
    /\ audits \in Nat /\ crossed \subseteq Owners /\ left \subseteq Owners
    /\ UniqueOpen /\ EstimatesFlagged

-----------------------------------------------------------------------------
(* One person, no two of whose requests overlapped *)

Fits(p) == p.start <= now /\ (p.end # None => p.end <= now /\ p.end <= MidnightAfter(p.start))

\* Two stretches of work have no tick in common; an open one runs until now.
Apart(p, q) ==
    p.start < EndOr(p.end, now) /\ q.start < EndOr(q.end, now)
        => EndOr(p.end, now) <= q.start \/ EndOr(q.end, now) <= p.start

Settled(u) ==
    /\ \A i \in LiveOf(u) : Fits(punch[i]) /\ (punch[i].review => punch[i].end # None)
    /\ \A i, j \in LiveOf(u) : i # j => Apart(punch[i], punch[j])
    /\ clock[u] # None /\ OpenOf(u) = {} => u \in left

SweptOf(u) == \A i \in OpenOf(u) : DayStart(now) <= punch[i].start

\* What the one request about him read is still so.
FreshSweep(j, u) ==
    /\ \A x \in j.rows : punch[x[1]].user = u => x[1] \in OpenOf(u) /\ x[2] = punch[x[1]].start
    /\ \A i \in OpenOf(u) : punch[i].start < DayStart(now) => <<i, punch[i].start>> \in j.rows
FreshWrite(j, u) ==
    /\ j.id \in LiveOf(u) /\ punch[j.id] = j.copy
    /\ ~j.new.deleted => /\ Fits(j.new)
                         /\ \A k \in LiveOf(u) \ {j.id} : Apart(j.new, punch[k])
    /\ j.copy.end = None /\ j.new.end # None => clock[u] = None \/ j.stops = clock[u]
    /\ ~j.audited => /\ ~j.new.deleted /\ j.copy.end = None /\ j.new.end = now
                     /\ j.new.start = j.copy.start /\ now < MidnightAfter(j.copy.start)
FreshInsert(j, u) ==
    /\ Fits(j.new) /\ \A k \in LiveOf(u) : Apart(j.new, punch[k])
    /\ ~j.audited => j.new.end = None /\ j.new.start = now
FreshReview(j, u) ==
    /\ SweptOf(u)
    /\ \A i \in LiveOf(u) : i \in j.ids <=> /\ punch[i].review /\ punch[i].end # None
                                            /\ punch[i].start < WindowEnd(j.week)
                                            /\ punch[i].end > WindowStart(j.week)
Fresh(j, u) ==
    /\ j.phase \in {"sweep", "look"} => j.req.at = now
    /\ j.phase = "sweep" => FreshSweep(j, u)
    /\ j.phase = "look" => SweptOf(u)
    /\ j.phase = "write" => FreshWrite(j, u)
    /\ j.phase = "insert" => FreshInsert(j, u)
    /\ j.phase = "start" => OpenOf(u) # {}
    /\ j.phase = "review" => FreshReview(j, u)

PersonOK(u) ==
    /\ Settled(u)
    /\ \A s, t \in Threads : u \in ScopeOf(s) \cap ScopeOf(t) => s = t
    /\ \A t \in Threads : u \in ScopeOf(t) => Fresh(job[t], u)

PInv == \A u \in Owners \ crossed : PersonOK(u)
IInv == TInv /\ PInv

-----------------------------------------------------------------------------
(* Days, rows and requests *)

LEMMA Constants ==
    /\ DayLen \in Nat /\ DayLen > 0 /\ WeekLen \in Nat /\ WeekLen > 0 /\ LaborCap \in Nat
    /\ MaxNow \in Nat /\ MaxPunches \in Nat /\ MaxAudits \in Nat
    /\ None \notin Nat /\ None \notin Owners /\ Owners \subseteq People
  BY AttendanceAssumption

LEMMA Products ==
    \A a, b, d \in Nat : /\ a < b => (a + 1) * d <= b * d
                         /\ d > 0 /\ a * d < b * d => a < b
  OBVIOUS

LEMMA Days ==
    \A t \in Nat : /\ DayOf(t) \in Nat /\ WeekOf(t) \in Nat
                   /\ DayStart(t) \in Nat /\ MidnightAfter(t) \in Nat
                   /\ DayStart(t) <= t /\ t < MidnightAfter(t)
  BY Constants DEF DayOf, WeekOf, DayStart, MidnightAfter

\* An instant before today's start ends at a midnight that has passed, and one of
\* today does not.
LEMMA Midnights ==
    ASSUME NEW s \in Nat, NEW t \in Nat
    PROVE  /\ s < DayStart(t) => MidnightAfter(s) <= t
           /\ s <= t /\ DayStart(t) <= s => t < MidnightAfter(s)
           /\ MidnightAfter(s) <= t => s < DayStart(t)
<1> DEFINE a == DayOf(s)
           b == DayOf(t)
<1>1. /\ a \in Nat /\ b \in Nat /\ DayLen \in Nat /\ DayLen > 0
      /\ DayStart(s) = a * DayLen /\ DayStart(t) = b * DayLen
      /\ MidnightAfter(s) = (a + 1) * DayLen /\ MidnightAfter(t) = (b + 1) * DayLen
  BY Days, Constants DEF DayStart, MidnightAfter
<1>2. /\ DayStart(s) <= s /\ s < MidnightAfter(s) /\ DayStart(t) <= t /\ t < MidnightAfter(t)
      /\ DayStart(s) \in Nat /\ DayStart(t) \in Nat
      /\ MidnightAfter(s) \in Nat /\ MidnightAfter(t) \in Nat
  BY Days
<1> HIDE DEF a, b
<1>3. ASSUME s < DayStart(t) PROVE MidnightAfter(s) <= DayStart(t)
  <2>1. a * DayLen < b * DayLen
    BY <1>1, <1>2, <1>3
  <2>2. a < b
    BY <1>1, <2>1, Products
  <2> QED
    BY <1>1, <2>2, Products
<1>4. ASSUME MidnightAfter(s) <= t PROVE s < DayStart(t)
  <2>1. (a + 1) * DayLen < (b + 1) * DayLen
    BY <1>1, <1>2, <1>4
  <2>2. a + 1 < b + 1
    BY <1>1, <2>1, Products
  <2>3. (a + 1) * DayLen <= b * DayLen
    BY <1>1, <2>2, Products
  <2> QED
    BY <1>1, <1>2, <2>3
<1> QED
  BY <1>2, <1>3, <1>4

LEMMA LeastIsIn ==
    ASSUME NEW S \in SUBSET Nat, S # {}
    PROVE  Min(S) \in S
<1> DEFINE R == OpToRel(<, Nat)
<1>1. IsWellFoundedOn(R, Nat)
  BY NatLessThanWellFounded, Zenon
<1>2. ASSUME NEW x \in Nat, NEW y \in Nat, y < x PROVE <<y, x>> \in R
  <2>1. <<y, x>> \in Nat \X Nat
    OBVIOUS
  <2> QED
    BY <1>2, <2>1, Zenon DEF OpToRel
<1> HIDE DEF R
<1>3. S \subseteq Nat
  OBVIOUS
<1>4. PICK x \in S : \A y \in S : ~(<<y, x>> \in R)
  BY <1>1, <1>3, WFMin, Zenon
<1>5. ASSUME NEW y \in S PROVE x <= y
  <2>1. x \in Nat /\ y \in Nat
    OBVIOUS
  <2>2. ~(y < x)
    BY <1>2, <1>4, <2>1, Zenon
  <2> QED
    BY <2>1, <2>2
<1> QED
  BY <1>5 DEF Min

\* What a punch's columns are.
LEMMA RowFields ==
    ASSUME NEW p \in PunchRows
    PROVE  /\ p.user \in Owners /\ p.start \in Instants /\ p.end \in Instants \cup {None}
           /\ p.source \in {None, "manual", "auto_clock_out", "self_edit", "admin_edit"}
           /\ p.review \in BOOLEAN /\ p.seen \in BOOLEAN /\ p.deleted \in BOOLEAN
           /\ p # None
  BY NoneIsNoRow DEF PunchRows

LEMMA LiveRow ==
    ASSUME TInv, NEW i \in Live
    PROVE  i \in Ids /\ punch[i] \in PunchRows /\ punch[i] # None /\ ~punch[i].deleted
  BY DEF TInv, Live

\* What an edit may change.
LEMMA EditEffect ==
    ASSUME NEW r \in Reqs, NEW p \in PunchRows
    PROVE  LET new == Edited(r, p) IN
           /\ new \in PunchRows /\ new.user = p.user /\ new.deleted = p.deleted
           /\ new.start = IF r.start = None THEN p.start ELSE r.start
           /\ new.end = IF r.end = None THEN p.end ELSE r.end
           /\ new.source # p.source => new.source \in {"self_edit", "admin_edit"}
           /\ new.review => p.review
           /\ new.review # p.review => new.seen
<1> DEFINE times == [p EXCEPT !.start = IF r.start = None THEN p.start ELSE r.start,
                              !.end = IF r.end = None THEN p.end ELSE r.end]
           clears == p.review /\ (r.looksRight \/ (times.start # p.start \/ times.end # p.end))
           source == IF times.end = p.end THEN p.source
                     ELSE IF r.actor = p.user THEN "self_edit" ELSE "admin_edit"
<1>1. /\ times \in PunchRows
      /\ times.start = IF r.start = None THEN p.start ELSE r.start
      /\ times.end = IF r.end = None THEN p.end ELSE r.end
      /\ times.user = p.user /\ times.deleted = p.deleted /\ times.source = p.source
      /\ times.review = p.review /\ times.seen = p.seen
  BY DEF PunchRows, Reqs
<1>2. clears \in BOOLEAN /\ p.review \in BOOLEAN /\ p.seen \in BOOLEAN
  BY Zenon, RowFields
<1>3. source \in {None, "manual", "auto_clock_out", "self_edit", "admin_edit"}
      /\ (source # p.source => source \in {"self_edit", "admin_edit"})
  BY RowFields
<1>4. Edited(r, p) = [times EXCEPT !.source = source, !.review = times.review /\ ~clears,
                                   !.seen = times.seen \/ clears]
  BY <1>1 DEF Edited
<1>5. /\ (times.review /\ ~clears) \in BOOLEAN /\ (times.seen \/ clears) \in BOOLEAN
  BY Zenon
<1> HIDE DEF times, clears, source
<1>6. PICK rv \in BOOLEAN, sn \in BOOLEAN :
        /\ rv <=> times.review /\ ~clears
        /\ sn <=> times.seen \/ clears
        /\ Edited(r, p) = [times EXCEPT !.source = source, !.review = rv, !.seen = sn]
  BY <1>4, <1>5, Zenon
<1>9. PICK q \in PunchRows, c \in {None, "manual", "auto_clock_out", "self_edit", "admin_edit"} :
        q = times /\ c = source
  BY <1>1, <1>3
<1> DEFINE m == Edited(r, p)
<1>10. m = [q EXCEPT !.source = c, !.review = rv, !.seen = sn]
  BY <1>6, <1>9
<1> HIDE DEF m
<1>11. /\ m.user = q.user /\ m.deleted = q.deleted /\ m.start = q.start /\ m.end = q.end
       /\ m.source = c /\ m.review = rv /\ m.seen = sn
  BY <1>10 DEF PunchRows
<1>12. m \in PunchRows
  BY <1>10 DEF PunchRows
<1>7. /\ m \in PunchRows /\ m.user = p.user /\ m.deleted = p.deleted
      /\ m.start = times.start /\ m.end = times.end /\ m.source = source
      /\ m.review = rv /\ m.seen = sn
  BY <1>1, <1>9, <1>11, <1>12
<1>8. (m.review => p.review) /\ (m.review # p.review => m.seen)
  BY <1>1, <1>2, <1>6, <1>7
<1> QED
  BY <1>1, <1>3, <1>7, <1>8 DEF m

\* A merge keeps the row a row and its owner's; with a copy that is still so it is
\* the new row, but for the mark that somebody looked.
LEMMA MergeEffect ==
    ASSUME NEW p \in PunchRows, NEW copy \in PunchRows, NEW new \in PunchRows
    PROVE  LET m == Merged(p, copy, new) IN
           /\ m \in PunchRows /\ m.user = p.user
           /\ m.start = IF new.start = copy.start THEN p.start ELSE new.start
           /\ m.end = IF new.end = copy.end THEN p.end ELSE new.end
           /\ m.source = IF new.source = copy.source THEN p.source ELSE new.source
           /\ m.review = IF new.review = copy.review THEN p.review ELSE new.review
           /\ m.deleted <=> p.deleted \/ new.deleted
           /\ m.seen <=> p.seen \/ new.seen
<1>1. (p.deleted \/ new.deleted) \in BOOLEAN /\ (p.seen \/ new.seen) \in BOOLEAN
  BY Zenon
<1>2. PICK d \in BOOLEAN, sn \in BOOLEAN :
        /\ d <=> p.deleted \/ new.deleted
        /\ sn <=> p.seen \/ new.seen
        /\ d = (p.deleted \/ new.deleted) /\ sn = (p.seen \/ new.seen)
  BY <1>1, Zenon
<1> DEFINE s == IF new.start = copy.start THEN p.start ELSE new.start
           e == IF new.end = copy.end THEN p.end ELSE new.end
           c == IF new.source = copy.source THEN p.source ELSE new.source
           v == IF new.review = copy.review THEN p.review ELSE new.review
<1>3. Merged(p, copy, new) = [p EXCEPT !.start = s, !.end = e, !.source = c, !.review = v,
                                       !.deleted = d, !.seen = sn]
  BY <1>2 DEF Merged, PunchRows
<1>4. /\ s \in Instants /\ e \in Instants \cup {None} /\ v \in BOOLEAN
      /\ c \in {None, "manual", "auto_clock_out", "self_edit", "admin_edit"}
  BY RowFields
<1> HIDE DEF s, e, c, v
<1>6. PICK sr \in Instants, er \in Instants \cup {None}, vr \in BOOLEAN,
           cr \in {None, "manual", "auto_clock_out", "self_edit", "admin_edit"} :
        s = sr /\ e = er /\ v = vr /\ c = cr
  BY <1>4
<1>7. PICK m : /\ m = Merged(p, copy, new)
               /\ m = [p EXCEPT !.start = sr, !.end = er, !.source = cr, !.review = vr,
                                !.deleted = d, !.seen = sn]
  BY <1>3, <1>6
<1>8. m.user = p.user /\ m.start = sr /\ m.end = er /\ m.source = cr
  BY <1>7 DEF PunchRows
<1>9. m.review = vr /\ m.deleted = d /\ m.seen = sn
  BY <1>7 DEF PunchRows
<1>10. m \in PunchRows
  BY <1>7 DEF PunchRows
<1>5. LET n == Merged(p, copy, new) IN
      /\ n \in PunchRows /\ n.user = p.user /\ n.start = s /\ n.end = e /\ n.source = c
      /\ n.review = v /\ n.deleted = d /\ n.seen = sn
  BY <1>6, <1>7, <1>8, <1>9, <1>10, Zenon
<1> QED
  BY <1>2, <1>5 DEF s, e, c, v

-----------------------------------------------------------------------------
(* What a request reads *)

\* The new row a write carries breaks no rule of Writes.
MayWrite(p, new) ==
    /\ new \in PunchRows /\ new.user = p.user
    /\ new.end = None => p.end = None
    /\ new.source # p.source => new.source # "auto_clock_out"
    /\ new.review => p.review
    /\ new.review # p.review => new.seen

Written(j, r, i, new, stops) ==
    /\ JobOK(j) /\ j.phase = "write" /\ j.scope = {r.user} /\ j.id = i
    /\ j.copy = punch[i] /\ j.new = new /\ (j.audited <=> r.op # "punchOut")
    /\ j.stops = IF stops THEN clock[r.user] ELSE None

LEMMA WriteJob ==
    ASSUME TInv, NEW r \in Reqs, NEW i \in Live, punch[i].user = r.user,
           NEW new, MayWrite(punch[i], new), NEW stops \in BOOLEAN
    PROVE  Written(Write(r, i, new, stops), r, i, new, stops)
<1>1. i \in Ids /\ punch[i] \in PunchRows /\ punch[i] # None /\ r.user \in Owners
  BY LiveRow, RowFields
<1>2. (IF stops THEN clock[r.user] ELSE None) \in Instants \cup {None}
  BY <1>1 DEF TInv
<1>3. PICK x \in Instants \cup {None} : x = IF stops THEN clock[r.user] ELSE None
  BY <1>2
<1>4. PICK b \in BOOLEAN : b <=> r.op # "punchOut"
  OBVIOUS
<1>5. Write(r, i, new, stops) =
        [phase |-> "write", scope |-> {r.user}, id |-> i, copy |-> punch[i], new |-> new,
         audited |-> b, stops |-> x]
  BY <1>3, <1>4 DEF Write
<1>6. Write(r, i, new, stops) \in WriteJobs
  BY <1>1, <1>5 DEF WriteJobs, MayWrite
<1> QED
  BY <1>1, <1>3, <1>4, <1>5, <1>6 DEF JobOK, Jobs, Writes, MayWrite, Written

LEMMA InsertJob ==
    ASSUME NEW r \in Reqs, NEW row \in PunchRows, row.user = r.user, ~row.deleted, ~row.review,
           row.source # "auto_clock_out", r.op = "startWork" => row.end = None
    PROVE  LET j == Insert(r, row) IN
           /\ JobOK(j) /\ j.phase = "insert" /\ j.scope = {r.user} /\ j.new = row
           /\ (j.audited <=> r.op = "add") /\ (j.starts <=> r.op = "startWork")
<1>1. r.user \in Owners
  BY RowFields
<1>2. PICK a \in BOOLEAN, b \in BOOLEAN : (a <=> r.op = "add") /\ (b <=> r.op = "startWork")
  OBVIOUS
<1>3. Insert(r, row) =
        [phase |-> "insert", scope |-> {r.user}, new |-> row, audited |-> a, starts |-> b]
  BY <1>2 DEF Insert
<1>4. Insert(r, row) \in InsertJobs
  BY <1>1, <1>3 DEF InsertJobs
<1> QED
  BY <1>2, <1>3, <1>4 DEF JobOK, Jobs, Inserts

LEMMA IdleJob == JobOK(Idle) /\ Idle.phase = "idle"
  BY DEF JobOK, Jobs, Idle

LEMMA StartJob ==
    ASSUME NEW u \in Owners
    PROVE  JobOK(Starting(u)) /\ Starting(u).phase = "start" /\ Starting(u).scope = {u}
<1>1. Starting(u) \in StartJobs /\ Starting(u).phase = "start" /\ Starting(u).scope = {u}
  BY DEF Starting, StartJobs
<1> QED
  BY <1>1 DEF JobOK, Jobs

LEMMA NewRowTyped ==
    ASSUME NEW u \in Owners, NEW s \in Instants, NEW e \in Instants \cup {None},
           NEW c \in {None, "manual", "self_edit", "admin_edit"}
    PROVE  LET p == NewRow(u, s, e, c) IN
           /\ p \in PunchRows /\ p.user = u /\ p.start = s /\ p.end = e /\ p.source = c
           /\ ~p.review /\ ~p.deleted
  BY DEF NewRow, PunchRows

\* What a request's read hands to its write: a job that may run whatever else
\* happens, and that is right about a person only it deals with.
Ready(r, u) ==
    /\ u \in Owners /\ r.at = now /\ Settled(u)
    /\ r.op \notin {"add", "delete"} => SweptOf(u)
Served(j, r) ==
    /\ JobOK(j) /\ j.phase \notin {"sweep", "look"}
    /\ j.phase # "idle" => j.scope \subseteq Scope(r)
    /\ \A u \in Owners : Ready(r, u) /\ j.phase # "idle" /\ u \in j.scope => Fresh(j, u)

LEMMA IdleServes == \A r : Served(Idle, r)
  BY IdleJob DEF Served

LEMMA PunchInServes ==
    ASSUME TInv, NEW r \in Reqs, r.user \in Owners, r.op \in {"punchIn", "startWork"}
    PROVE  Served(ReadPunchIn(r), r)
<1> DEFINE row == NewRow(r.user, r.at, None, None)
           j == Insert(r, row)
<1>1. CASE OpenOf(r.user) # {}
  BY <1>1, IdleServes DEF ReadPunchIn
<1>2. CASE OpenOf(r.user) = {}
  <2>1. ReadPunchIn(r) = j
    BY <1>2 DEF ReadPunchIn
  <2>2. /\ row \in PunchRows /\ row.user = r.user /\ row.start = r.at /\ row.end = None
        /\ row.source = None /\ ~row.review /\ ~row.deleted
    BY NewRowTyped DEF Reqs
  <2> HIDE DEF row
  <2>3. row.source # "auto_clock_out"
    BY <2>2, NoneIsNoRow
  <2>4. /\ JobOK(j) /\ j.phase = "insert" /\ j.scope = {r.user} /\ j.new = row
        /\ (j.audited <=> r.op = "add") /\ (j.starts <=> r.op = "startWork")
    BY <2>2, <2>3, InsertJob
  <2> HIDE DEF j
  <2>5. r.at \in Nat /\ now \in Nat
    BY DEF Reqs, TInv, Instants
  <2>6. ASSUME NEW u \in Owners, Ready(r, u) PROVE FreshInsert(j, u)
    BY <2>2, <2>4, <2>5, <2>6 DEF FreshInsert, Fits, Apart, EndOr, Ready
  <2> QED
    BY <2>1, <2>4, <2>6 DEF Served, Fresh, Scope
<1> QED
  BY <1>1, <1>2

LEMMA StartWorkServes ==
    ASSUME TInv, NEW r \in Reqs, r.user \in Owners, r.op = "startWork"
    PROVE  Served(ReadStartWork(r), r)
<1>1. CASE OpenOf(r.user) = {}
  BY <1>1, PunchInServes DEF ReadStartWork
<1>2. CASE OpenOf(r.user) # {}
  <2>1. ReadStartWork(r) = Starting(r.user)
    BY <1>2 DEF ReadStartWork
  <2> QED
    BY <1>2, <2>1, StartJob DEF Served, Fresh, Scope
<1> QED
  BY <1>1, <1>2

\* A person's live rows: what is known of their columns.
LEMMA LiveOfRow ==
    ASSUME TInv, NEW u \in Owners, NEW k \in LiveOf(u)
    PROVE  /\ k \in Ids /\ k \in Live /\ k # None /\ punch[k] \in PunchRows /\ punch[k].user = u
           /\ punch[k].start \in Nat /\ (punch[k].end # None => punch[k].end \in Nat)
           /\ now \in Nat /\ EndOr(punch[k].end, now) \in Nat
<1>1. k \in Ids /\ k \in Live /\ punch[k] \in PunchRows /\ punch[k].user = u
  BY LiveRow DEF LiveOf
<1>2. punch[k].start \in Instants /\ punch[k].end \in Instants \cup {None} /\ now \in Instants
  BY <1>1, RowFields DEF TInv
<1>3. k # None
  BY <1>1, Constants DEF Ids
<1> QED
  BY <1>1, <1>2, <1>3 DEF Instants, EndOr

LEMMA PunchOutServes ==
    ASSUME TInv, NEW r \in Reqs, r.user \in Owners, r.op = "punchOut"
    PROVE  Served(ReadPunchOut(r), r)
<1>1. CASE OpenOf(r.user) = {} \/ ~EndsClock(r.user, r.at)
  BY <1>1, IdleServes DEF ReadPunchOut
<1>2. CASE ~(OpenOf(r.user) = {} \/ ~EndsClock(r.user, r.at))
  <2> DEFINE i == CHOOSE i \in OpenOf(r.user) : TRUE
             new == [punch[i] EXCEPT !.end = r.at, !.source = "manual"]
             j == Write(r, i, new, TRUE)
  <2>1. ReadPunchOut(r) = j
    BY <1>2 DEF ReadPunchOut
  <2>2. i \in OpenOf(r.user)
    BY <1>2
  <2> HIDE DEF i
  <2>3. /\ i \in LiveOf(r.user) /\ i \in Live /\ punch[i] \in PunchRows
        /\ punch[i].user = r.user /\ punch[i].end = None /\ ~punch[i].deleted
        /\ punch[i].start \in Nat
    BY <2>2, LiveOfRow DEF OpenOf, LiveOf, Live
  <2>4. r.at \in Nat /\ now \in Nat /\ r.at \in Instants /\ r.at # None
    BY Constants DEF Reqs, TInv, Instants
  <2>5. /\ new \in PunchRows /\ new.user = r.user /\ new.start = punch[i].start
        /\ new.end = r.at /\ new.source = "manual" /\ new.review = punch[i].review
        /\ ~new.deleted
    BY <2>3, <2>4 DEF PunchRows
  <2> HIDE DEF new
  <2>6. MayWrite(punch[i], new)
    BY <2>3, <2>4, <2>5 DEF MayWrite
  <2>7. /\ JobOK(j) /\ j.phase = "write" /\ j.scope = {r.user} /\ j.id = i
        /\ j.copy = punch[i] /\ j.new = new /\ ~j.audited
        /\ j.stops = clock[r.user]
    <3>1. TRUE \in BOOLEAN /\ r \in Reqs /\ i \in Live /\ punch[i].user = r.user
      BY <2>3
    <3>2. Written(j, r, i, new, TRUE)
      BY <2>6, <3>1, WriteJob, Zenon
    <3> QED
      BY <3>2 DEF Written
  <2> HIDE DEF j
  <2>8. ASSUME Ready(r, r.user) PROVE FreshWrite(j, r.user)
    <3>1. now < MidnightAfter(punch[i].start) /\ punch[i].start <= now
          /\ MidnightAfter(punch[i].start) \in Nat
      BY <2>2, <2>3, <2>4, <2>8, Midnights, Days DEF Ready, SweptOf, Settled, Fits
    <3>2. Fits(new)
      BY <2>4, <2>5, <2>8, <3>1 DEF Fits, Ready
    <3>3. ASSUME NEW k \in LiveOf(r.user) \ {i} PROVE Apart(new, punch[k])
      <4>1. Apart(punch[i], punch[k])
        BY <2>3, <2>8 DEF Ready, Settled
      <4> QED
        BY <2>3, <2>4, <2>5, <2>8, <4>1 DEF Apart, EndOr, Ready
    <3> QED
      BY <2>3, <2>5, <2>7, <2>8, <3>1, <3>2, <3>3 DEF FreshWrite, Ready
  <2> QED
    BY <2>1, <2>7, <2>8 DEF Served, Fresh, Scope
<1> QED
  BY <1>1, <1>2

\* A window that overlaps none of a person's punches lies apart from each.
LEMMA NoOverlapIsApart ==
    ASSUME TInv, NEW u \in Owners, NEW k \in LiveOf(u), NEW new \in PunchRows,
           ~Overlaps(new.start, new.end, punch[k], now)
    PROVE  Apart(new, punch[k])
<1>1. new.start \in Nat /\ EndOr(new.end, now) \in Nat
  BY RowFields DEF TInv, Instants, EndOr
<1> QED
  BY <1>1, LiveOfRow DEF Apart, Overlaps

\* The rule on windows keeps a row within its day and out of the future.
LEMMA ValidIsFit ==
    ASSUME now \in Instants, NEW new \in PunchRows, ValidWindow(new.start, new.end, now)
    PROVE  Fits(new)
<1>1. new.start \in Nat /\ now \in Nat /\ (new.end # None => new.end \in Nat)
  BY RowFields DEF Instants
<1> QED
  BY <1>1 DEF ValidWindow, Fits

LEMMA AddServes ==
    ASSUME TInv, NEW r, Names(r), r.op = "add"
    PROVE  Served(ReadAdd(r), r)
<1> DEFINE row == NewRow(r.user, r.start, r.end,
                         IF r.actor = r.user THEN "self_edit" ELSE "admin_edit")
           j == Insert(r, row)
<1>1. /\ r \in Reqs /\ r.user \in Owners /\ r.start \in Instants
      /\ r.end \in Instants /\ r.end # None
  BY DEF Names, Reqs
<1>2. CASE ReadAdd(r) = Idle
  BY <1>2, IdleServes
<1>3. CASE ReadAdd(r) # Idle
  <2>1. /\ ReadAdd(r) = j /\ ValidWindow(r.start, r.end, r.at)
        /\ ~Overlapping(r, None, r.start, r.end)
    BY <1>3 DEF ReadAdd
  <2>2. /\ row \in PunchRows /\ row.user = r.user /\ row.start = r.start /\ row.end = r.end
        /\ row.source \in {"self_edit", "admin_edit"} /\ ~row.review /\ ~row.deleted
    <3>1. PICK c \in {"self_edit", "admin_edit"} :
            c = IF r.actor = r.user THEN "self_edit" ELSE "admin_edit"
      OBVIOUS
    <3> QED
      BY <1>1, <3>1, NewRowTyped
  <2> HIDE DEF row
  <2>3. /\ JobOK(j) /\ j.phase = "insert" /\ j.scope = {r.user} /\ j.new = row
        /\ (j.audited <=> r.op = "add") /\ (j.starts <=> r.op = "startWork")
    BY <1>1, <2>2, InsertJob
  <2> HIDE DEF j
  <2>4. ASSUME NEW u \in Owners, Ready(r, u), u = r.user PROVE FreshInsert(j, u)
    <3>1. Fits(row)
      BY <2>1, <2>2, <2>4, ValidIsFit DEF Ready, TInv
    <3>2. ASSUME NEW k \in LiveOf(u) PROVE Apart(row, punch[k])
      <4>1. ~Overlaps(row.start, row.end, punch[k], now)
        BY <2>1, <2>2, <2>4, LiveOfRow DEF Overlapping, Ready
      <4> QED
        BY <2>2, <4>1, NoOverlapIsApart
    <3> QED
      BY <2>3, <3>1, <3>2 DEF FreshInsert
  <2> QED
    BY <2>1, <2>3, <2>4 DEF Served, Fresh, Scope
<1> QED
  BY <1>2, <1>3

LEMMA EditServes ==
    ASSUME TInv, NEW r \in Reqs, r.user \in Owners, r.op \in {"edit", "clockOut"},
           r.id \in Live => punch[r.id].user = r.user
    PROVE  Served(ReadEdit(r), r)
<1> DEFINE i == r.id
           new == Edited(r, punch[i])
           stops == punch[i].end = None /\ r.end # None
           j == Write(r, i, new, stops)
<1>1. CASE ReadEdit(r) = Idle
  BY <1>1, IdleServes
<1>2. CASE ReadEdit(r) # Idle
  <2>1. ReadEdit(r) = j /\ i \in Live /\ MayPatch(r, punch[i])
    BY <1>2 DEF ReadEdit
  <2>2. /\ i \in LiveOf(r.user) /\ punch[i] \in PunchRows /\ ~punch[i].deleted
        /\ punch[i].user = r.user
    BY <2>1, LiveRow DEF LiveOf
  <2>3. /\ new \in PunchRows /\ new.user = punch[i].user /\ new.deleted = punch[i].deleted
        /\ new.end = IF r.end = None THEN punch[i].end ELSE r.end
        /\ new.source # punch[i].source => new.source \in {"self_edit", "admin_edit"}
        /\ new.review => punch[i].review
        /\ new.review # punch[i].review => new.seen
    BY <2>2, EditEffect
  <2>4. <<new.start, new.end>> # <<punch[i].start, punch[i].end>> =>
            /\ ValidWindow(new.start, new.end, r.at)
            /\ ~Overlapping(r, i, new.start, new.end)
    BY <2>1 DEF MayPatch
  <2> HIDE DEF new
  <2>5. MayWrite(punch[i], new)
    BY <2>3 DEF MayWrite
  <2>6. stops \in BOOLEAN
    OBVIOUS
  <2> HIDE DEF stops
  <2>7. Written(j, r, i, new, stops)
    BY <2>1, <2>2, <2>5, <2>6, WriteJob, Zenon
  <2> HIDE DEF j
  <2>8. ASSUME Ready(r, r.user) PROVE FreshWrite(j, r.user)
    <3>1. Fits(punch[i]) /\ \A k \in LiveOf(r.user) \ {i} : Apart(punch[i], punch[k])
      BY <2>2, <2>8 DEF Ready, Settled
    <3>2. Fits(new) /\ \A k \in LiveOf(r.user) \ {i} : Apart(new, punch[k])
      <4>1. CASE new.start = punch[i].start /\ new.end = punch[i].end
        BY <3>1, <4>1 DEF Fits, Apart
      <4>2. CASE ~(new.start = punch[i].start /\ new.end = punch[i].end)
        <5>1. ValidWindow(new.start, new.end, now) /\ ~Overlapping(r, i, new.start, new.end)
              /\ r.at = now
          BY <2>4, <2>8, <4>2 DEF Ready
        <5>2. ASSUME NEW k \in LiveOf(r.user) \ {i} PROVE Apart(new, punch[k])
          <6>1. ~Overlaps(new.start, new.end, punch[k], now)
            BY <5>1 DEF Overlapping
          <6> QED
            BY <2>3, <6>1, NoOverlapIsApart
        <5> QED
          BY <2>3, <5>1, <5>2, ValidIsFit DEF TInv
      <4> QED
        BY <4>1, <4>2
    <3>3. punch[i].end = None /\ new.end # None => stops
      BY <2>3 DEF stops
    <3> QED
      BY <2>2, <2>7, <3>2, <3>3 DEF FreshWrite, Written
  <2> QED
    BY <2>1, <2>7, <2>8 DEF Served, Fresh, Scope, Written
<1> QED
  BY <1>1, <1>2

LEMMA ClockOutServes ==
    ASSUME TInv, NEW r \in Reqs, r.user \in Owners, r.op = "clockOut"
    PROVE  Served(ReadClockOut(r), r)
<1>1. CASE OpenOf(r.user) = {}
  BY <1>1, IdleServes DEF ReadClockOut
<1>2. CASE OpenOf(r.user) # {}
  <2> DEFINE i == CHOOSE i \in OpenOf(r.user) : TRUE
             q == [r EXCEPT !.id = i, !.end = r.at]
  <2>1. ReadClockOut(r) = ReadEdit(q)
    BY <1>2 DEF ReadClockOut, Reqs
  <2>2. i \in OpenOf(r.user)
    BY <1>2
  <2> HIDE DEF i
  <2>3. i \in Ids /\ punch[i].user = r.user
    BY <2>2, LiveOfRow DEF OpenOf
  <2>4. /\ q \in Reqs /\ q.user = r.user /\ q.op = r.op /\ q.id = i /\ q.at = r.at
    BY <2>3 DEF Reqs
  <2> HIDE DEF q
  <2>5. Served(ReadEdit(q), q)
    BY <2>3, <2>4, EditServes
  <2> QED
    BY <2>1, <2>4, <2>5 DEF Served, Ready, Scope
<1> QED
  BY <1>1, <1>2

LEMMA DeleteServes ==
    ASSUME TInv, NEW r, Names(r), r.op = "delete"
    PROVE  Served(ReadDelete(r), r)
<1> DEFINE i == r.id
           new == [punch[i] EXCEPT !.deleted = TRUE]
           j == Write(r, i, new, FALSE)
<1>1. CASE ReadDelete(r) = Idle
  BY <1>1, IdleServes
<1>2. CASE ReadDelete(r) # Idle
  <2>1. ReadDelete(r) = j /\ i \in Live /\ r \in Reqs /\ r.user \in Owners
    BY <1>2 DEF ReadDelete, Names
  <2>2. /\ i \in LiveOf(r.user) /\ punch[i] \in PunchRows /\ punch[i].user = r.user
    BY <2>1, LiveRow DEF LiveOf, Names
  <2>3. /\ new \in PunchRows /\ new.user = punch[i].user /\ new.deleted /\ new.end = punch[i].end
        /\ new.source = punch[i].source /\ new.review = punch[i].review
    BY <2>2 DEF PunchRows
  <2> HIDE DEF new
  <2>4. MayWrite(punch[i], new) /\ FALSE \in BOOLEAN
    BY <2>3 DEF MayWrite
  <2>5. Written(j, r, i, new, FALSE)
    BY <2>1, <2>2, <2>4, WriteJob, Zenon
  <2> HIDE DEF j
  <2>6. FreshWrite(j, r.user)
    BY <2>2, <2>3, <2>5 DEF FreshWrite, Written
  <2> QED
    BY <2>1, <2>5, <2>6 DEF Served, Fresh, Scope, Written
<1> QED
  BY <1>1, <1>2

LEMMA ReviewServes ==
    ASSUME TInv, NEW r \in Reqs, r.op = "review"
    PROVE  Served(ReadReview(r), r)
<1> DEFINE j == ReadReview(r)
           ids == {i \in Live : /\ punch[i].review /\ punch[i].end # None
                                /\ punch[i].start < WindowEnd(r.week)
                                /\ punch[i].end > WindowStart(r.week)}
<1>1. j = [phase |-> "review", scope |-> Owners, week |-> r.week, ids |-> ids]
  BY DEF ReadReview
<1>2. ids \in SUBSET Ids /\ r.week \in Nat
  BY DEF Live, Reqs
<1>3. \A i : i \in ids <=> /\ i \in Live /\ punch[i].review /\ punch[i].end # None
                           /\ punch[i].start < WindowEnd(r.week)
                           /\ punch[i].end > WindowStart(r.week)
  OBVIOUS
<1> HIDE DEF j, ids
<1>4. /\ j \in ReviewJobs /\ j.phase = "review" /\ j.scope = Owners /\ j.week = r.week
      /\ j.ids = ids
  BY <1>1, <1>2 DEF ReviewJobs
<1>5. JobOK(j)
  BY <1>3, <1>4 DEF JobOK, Jobs, Live
<1>6. ASSUME NEW u \in Owners, Ready(r, u) PROVE FreshReview(j, u)
  BY <1>3, <1>4, <1>6 DEF FreshReview, Ready, LiveOf
<1> QED
  BY <1>4, <1>5, <1>6 DEF Served, Fresh, Scope, j

LEMMA ReadServes ==
    ASSUME TInv, NEW r, Names(r)
    PROVE  Served(Read(r), r)
<1>1. r \in Reqs /\ r.op \in Ops /\ (r.op \notin {"review", "board"} => r.user \in Owners)
  BY DEF Names, Reqs
<1>2. CASE r.op = "punchIn"
  BY <1>1, <1>2, PunchInServes DEF Read
<1>3. CASE r.op = "punchOut"
  BY <1>1, <1>3, PunchOutServes DEF Read
<1>4. CASE r.op = "startWork"
  BY <1>1, <1>4, StartWorkServes DEF Read
<1>5. CASE r.op = "add"
  BY <1>5, AddServes DEF Read
<1>6. CASE r.op = "edit"
  BY <1>1, <1>6, EditServes DEF Read, Names
<1>7. CASE r.op = "clockOut"
  BY <1>1, <1>7, ClockOutServes DEF Read
<1>8. CASE r.op = "delete"
  BY <1>8, DeleteServes DEF Read
<1>9. CASE r.op = "review"
  BY <1>1, <1>9, ReviewServes DEF Read
<1>10. CASE r.op = "board"
  BY <1>10, IdleServes DEF Read
<1> QED
  BY <1>1, <1>2, <1>3, <1>4, <1>5, <1>6, <1>7, <1>8, <1>9, <1>10 DEF Ops

-----------------------------------------------------------------------------
(* What a step leaves alone *)

\* Rows are never removed and never change hands.
RowsStay == \A i \in Ids : punch[i] # None => punch'[i] # None /\ punch'[i].user = punch[i].user

\* The step touches no row of person u.
Spared(u) ==
    \A i \in Ids : \/ punch[i] # None /\ punch[i].user = u
                   \/ punch'[i] # None /\ punch'[i].user = u
                   => punch'[i] = punch[i]

LEMMA SameRows ==
    ASSUME NEW u, Spared(u)
    PROVE  /\ LiveOf(u)' = LiveOf(u) /\ OpenOf(u)' = OpenOf(u)
           /\ \A i \in LiveOf(u) : punch'[i] = punch[i]
  BY DEF Spared, LiveOf, OpenOf, Live

LEMMA JobKept ==
    ASSUME now \in Nat, now' \in Nat, RowsStay, now <= now', NEW j, JobOK(j)
    PROVE  JobOK(j)'
<1>1. ASSUME NEW r, Names(r) PROVE Names(r)'
  BY <1>1 DEF Names, RowsStay
<1>2. ASSUME Reads(j), j \in SweepJobs \cup LookJobs PROVE Reads(j)'
  <2>1. j.req.at \in Nat
    BY <1>2 DEF SweepJobs, LookJobs, Reqs, Instants
  <2> QED
    BY <1>1, <1>2, <2>1 DEF Reads
<1>3. ASSUME Sweeps(j), j \in SweepJobs PROVE Sweeps(j)'
  <2>1. \A x \in j.rows : x[1] \in Ids
    BY <1>3 DEF SweepJobs
  <2> QED
    BY <1>2, <1>3, <2>1 DEF Sweeps, RowsStay
<1>4. ASSUME Writes(j), j \in WriteJobs PROVE Writes(j)'
  BY <1>4 DEF Writes, WriteJobs, RowsStay
<1>5. /\ j.phase = "sweep" => j \in SweepJobs
      /\ j.phase = "look" => j \in LookJobs
      /\ j.phase = "write" => j \in WriteJobs
      /\ j.phase = "review" => j \in ReviewJobs
  BY DEF JobOK, Jobs, Idle, SweepJobs, LookJobs, WriteJobs, InsertJobs, StartJobs, ReviewJobs
<1>6. ASSUME j \in ReviewJobs, \A i \in j.ids : punch[i] # None
      PROVE  \A i \in j.ids : punch'[i] # None
  BY <1>6 DEF RowsStay, ReviewJobs
<1> QED
  BY <1>2, <1>3, <1>4, <1>5, <1>6 DEF JobOK, Inserts

\* Which kind of job a phase is.
LEMMA JobKind ==
    ASSUME NEW j, JobOK(j)
    PROVE  /\ j.phase = "sweep" => j \in SweepJobs
           /\ j.phase = "look" => j \in LookJobs
           /\ j.phase = "write" => j \in WriteJobs
           /\ j.phase = "insert" => j \in InsertJobs
           /\ j.phase = "start" => j \in StartJobs
           /\ j.phase = "review" => j \in ReviewJobs
           /\ j.phase # "idle" => j.scope \subseteq Owners
  BY DEF JobOK, Jobs, Idle, SweepJobs, LookJobs, WriteJobs, InsertJobs, StartJobs, ReviewJobs

LEMMA FreshKept ==
    ASSUME TInv, RowsStay, NEW u \in Owners, Spared(u), now' = now,
           clock'[u] \in {clock[u], None}, NEW j, JobOK(j), Fresh(j, u)
    PROVE  Fresh(j, u)'
<1>1. /\ LiveOf(u)' = LiveOf(u) /\ OpenOf(u)' = OpenOf(u)
      /\ \A i \in LiveOf(u) : punch'[i] = punch[i]
      /\ \A i \in OpenOf(u) : punch'[i] = punch[i]
  BY SameRows DEF OpenOf
<1>2. SweptOf(u)' <=> SweptOf(u)
  BY <1>1 DEF SweptOf
<1>3. j.phase = "sweep" => FreshSweep(j, u)'
  <2> SUFFICES ASSUME j.phase = "sweep" PROVE FreshSweep(j, u)'
    OBVIOUS
  <2>1. \A x \in j.rows : punch[x[1]] # None /\ punch'[x[1]].user = punch[x[1]].user
    BY JobKind DEF JobOK, Sweeps, RowsStay, SweepJobs
  <2> QED
    BY <1>1, <2>1 DEF Fresh, FreshSweep
<1>4. j.phase = "write" => FreshWrite(j, u)'
  BY <1>1 DEF Fresh, FreshWrite, Fits, Apart
<1>5. j.phase = "insert" => FreshInsert(j, u)'
  BY <1>1 DEF Fresh, FreshInsert, Fits, Apart
<1>6. j.phase = "review" => FreshReview(j, u)'
  BY <1>1, <1>2 DEF Fresh, FreshReview
<1> QED
  BY <1>1, <1>2, <1>3, <1>4, <1>5, <1>6 DEF Fresh

LEMMA SettledKept ==
    ASSUME NEW u \in Owners, Spared(u), now' = now, Settled(u),
           clock'[u] # None => clock'[u] = clock[u] /\ (u \in left => u \in left')
    PROVE  Settled(u)'
<1>1. /\ LiveOf(u)' = LiveOf(u) /\ OpenOf(u)' = OpenOf(u)
      /\ \A i \in LiveOf(u) : punch'[i] = punch[i]
  BY SameRows
<1> QED
  BY <1>1 DEF Settled, Fits, Apart

\* A thread takes its next step: the people its request is about are settled again,
\* and everybody else is not touched.
LEMMA ActorStep ==
    ASSUME IInv, RowsStay, now' = now, crossed' = crossed, NEW t \in Threads, NEW j,
           job' = [job EXCEPT ![t] = j], job[t].phase # "idle", JobOK(j)',
           j.phase # "idle" => j.scope \subseteq job[t].scope,
           \A u \in Owners \ job[t].scope :
              Spared(u) /\ clock'[u] = clock[u] /\ (u \in left => u \in left'),
           \A u \in (Owners \cap job[t].scope) \ crossed :
              Settled(u)' /\ (j.phase # "idle" /\ u \in j.scope => Fresh(j, u)')
    PROVE  (\A s \in Threads : JobOK(job[s])') /\ PInv'
<1>1. /\ DOMAIN job = Threads /\ job'[t] = j
      /\ \A s \in Threads \ {t} : job'[s] = job[s] /\ ScopeOf(s)' = ScopeOf(s)
  BY DEF IInv, TInv, ScopeOf
<1>2. ScopeOf(t) = job[t].scope /\ ScopeOf(t)' \subseteq ScopeOf(t)
  BY <1>1 DEF ScopeOf
<1>3. \A s \in Threads : JobOK(job[s])'
  <2>1. ASSUME NEW s \in Threads \ {t} PROVE JobOK(job[s])'
    <3>1. now \in Nat
      BY DEF IInv, TInv, Instants
    <3>2. PICK i : i = job[s]
      OBVIOUS
    <3>3. JobOK(i)'
      BY <3>1, <3>2, JobKept DEF IInv, TInv
    <3> QED
      BY <1>1, <3>2, <3>3
  <2> QED
    BY <1>1, <2>1
<1>4. ASSUME NEW u \in Owners \ crossed PROVE PersonOK(u)'
  <2>1. PersonOK(u)
    BY DEF IInv, PInv
  <2>2. CASE u \in ScopeOf(t)
    <3>1. \A s \in Threads \ {t} : u \notin ScopeOf(s)'
      BY <1>1, <2>1, <2>2 DEF PersonOK
    <3>2. u \in ScopeOf(t)' => j.phase # "idle" /\ u \in j.scope
      BY <1>1 DEF ScopeOf
    <3> QED
      BY <1>1, <1>2, <2>2, <3>1, <3>2 DEF PersonOK
  <2>3. CASE u \notin ScopeOf(t)
    <3>1. Settled(u)'
      BY <1>2, <2>1, <2>3, SettledKept DEF PersonOK
    <3>2. ASSUME NEW s \in Threads \ {t}, u \in ScopeOf(s) PROVE Fresh(job[s], u)'
      <4>1. PICK i : i = job[s]
        OBVIOUS
      <4>2. Fresh(i, u)'
        BY <1>2, <2>1, <2>3, <3>2, <4>1, FreshKept DEF PersonOK, IInv, TInv
      <4> QED
        BY <1>1, <4>1, <4>2
    <3> QED
      BY <1>1, <1>2, <2>1, <2>3, <3>1, <3>2 DEF PersonOK
  <2> QED
    BY <2>2, <2>3
<1> QED
  BY <1>3, <1>4 DEF PInv

-----------------------------------------------------------------------------
(* The invariant *)

LEMMA RowsUnchanged ==
    ASSUME UNCHANGED punch
    PROVE  /\ RowsStay /\ \A u : Spared(u)
           /\ UniqueOpen => UniqueOpen'
           /\ EstimatesFlagged => EstimatesFlagged'
  BY DEF RowsStay, Spared, UniqueOpen, EstimatesFlagged, Live

LEMMA InitInv == Init => IInv
<1> SUFFICES ASSUME Init PROVE IInv
  OBVIOUS
<1>1. \A i \in Ids : punch[i] = None
  BY DEF Init
<1>2. Live = {}
  BY <1>1 DEF Live
<1>3. \A t \in Threads : job[t] = Idle
  BY DEF Init
<1>4. TInv
  <2>1. now \in Instants /\ audits \in Nat
    BY Constants DEF Init, Instants
  <2>2. \A t \in Threads : JobOK(job[t])
    BY <1>3, IdleJob
  <2>3. UniqueOpen /\ EstimatesFlagged
    BY <1>2 DEF UniqueOpen, EstimatesFlagged
  <2> QED
    BY <2>1, <2>2, <2>3 DEF Init, TInv
<1>5. ASSUME NEW u \in Owners PROVE PersonOK(u)
  <2>1. LiveOf(u) = {}
    BY <1>2 DEF LiveOf
  <2>2. \A t \in Threads : ScopeOf(t) = {}
    BY <1>3, IdleJob DEF ScopeOf
  <2>3. clock[u] = None
    BY DEF Init
  <2> QED
    BY <2>1, <2>2, <2>3 DEF PersonOK, Settled
<1> QED
  BY <1>4, <1>5 DEF IInv, PInv

\* An open punch grows with the time that passes and meets no other.
LEMMA TickStep ==
    ASSUME IInv, Tick
    PROVE  IInv'
<1>1. /\ now \in Nat /\ now' = now + 1 /\ now' \in Instants
      /\ UNCHANGED <<punch, clock, estimates, job, audits, left>>
      /\ crossed' = crossed \cup UNION {ScopeOf(t) : t \in Threads}
  BY Constants DEF Tick, IInv, TInv, Instants
<1>2. \A t \in Threads : ScopeOf(t) \subseteq Owners
  BY JobKind DEF IInv, TInv, ScopeOf
<1>3. TInv'
  <2>1. crossed' \subseteq Owners
    BY <1>1, <1>2 DEF IInv, TInv
  <2>2. ASSUME NEW t \in Threads PROVE JobOK(job[t])'
    <3>1. PICK j : j = job[t]
      OBVIOUS
    <3>2. JobOK(j)'
      <4>1. JobOK(j) /\ now <= now' /\ now' \in Nat
        BY <1>1, <3>1 DEF IInv, TInv
      <4> QED
        BY <1>1, <4>1, RowsUnchanged, JobKept
    <3> QED
      BY <1>1, <3>1, <3>2
  <2> QED
    BY <1>1, <2>1, <2>2, RowsUnchanged DEF IInv, TInv
<1>4. ASSUME NEW u \in Owners \ crossed' PROVE PersonOK(u)'
  <2>1. u \notin crossed /\ \A t \in Threads : u \notin ScopeOf(t) /\ u \notin ScopeOf(t)'
    BY <1>1 DEF ScopeOf
  <2>2. Settled(u)
    BY <2>1 DEF IInv, PInv, PersonOK
  <2>3. LiveOf(u)' = LiveOf(u) /\ OpenOf(u)' = OpenOf(u)
    BY <1>1 DEF LiveOf, OpenOf, Live
  <2>4. ASSUME NEW i \in LiveOf(u) PROVE Fits(punch[i])'
    <3>1. /\ Fits(punch[i]) /\ punch[i].start \in Nat
          /\ punch[i].end # None => punch[i].end \in Nat
      BY <2>2, LiveOfRow DEF Settled, IInv
    <3> QED
      BY <1>1, <3>1 DEF Fits
  <2>5. ASSUME NEW i \in LiveOf(u), NEW k \in LiveOf(u), i # k
        PROVE  Apart(punch[i], punch[k])'
    <3>1. /\ Apart(punch[i], punch[k]) /\ Fits(punch[i]) /\ Fits(punch[k])
      BY <2>2, <2>5 DEF Settled
    <3>2. /\ punch[i].start \in Nat /\ (punch[i].end # None => punch[i].end \in Nat)
          /\ punch[k].start \in Nat /\ (punch[k].end # None => punch[k].end \in Nat)
          /\ punch[i].user = u /\ punch[k].user = u /\ i \in Live /\ k \in Live
      BY LiveOfRow DEF IInv
    <3>3. punch[i].end # None \/ punch[k].end # None
      BY <2>5, <3>2 DEF IInv, TInv, UniqueOpen
    <3> QED
      BY <1>1, <3>1, <3>2, <3>3 DEF Apart, Fits, EndOr
  <2> QED
    BY <1>1, <2>1, <2>2, <2>3, <2>4, <2>5 DEF PersonOK, Settled
<1> QED
  BY <1>3, <1>4 DEF IInv, PInv

\* What people send names people, punches and weeks that exist.
LEMMA AskedIsNamed ==
    ASSUME TInv, NEW o \in Ops, NEW a \in Asked(o), NEW r, r = [a EXCEPT !.at = now]
    PROVE  Names(r) /\ r.at = now
<1>1. NoArgs \in Reqs /\ now \in Instants /\ Owners \subseteq People
  BY Constants DEF NoArgs, Reqs, Ops, Instants, TInv
<1>3. \A i \in Live : i \in Ids /\ punch[i].user \in Owners
  BY LiveRow, RowFields
<1>4. ASSUME NEW b \in Reqs, b.op = o,
             o \notin {"review", "board"} => b.user \in Owners,
             o = "add" => b.start # None /\ b.end # None,
             o \in {"edit", "delete"} => b.id \in Live /\ punch[b.id].user = b.user,
             a = b
      PROVE  Names(r) /\ r.at = now
  <2>1. /\ r \in Reqs /\ r.at = now /\ r.op = o /\ r.user = b.user /\ r.id = b.id
        /\ r.start = b.start /\ r.end = b.end
    BY <1>1, <1>4 DEF Reqs
  <2> QED
    BY <1>3, <1>4, <2>1 DEF Names, Live
<1>5. CASE o \in {"punchIn", "punchOut", "startWork"}
  <2>1. Asked(o) = {Ask(o, u, u) : u \in Owners}
    BY <1>5 DEF Asked
  <2>2. PICK u \in Owners : a = Ask(o, u, u)
    BY <2>1
  <2>3. a \in Reqs /\ a.op = o /\ a.user = u
    BY <1>1, <2>2 DEF Ask, Reqs
  <2> QED
    BY <1>4, <1>5, <2>3
<1>6. CASE o = "add"
  <2>1. PICK c \in People, u \in Owners, s \in Instants, e \in Instants :
           a = Timed(Ask(o, c, u), s, e)
    BY <1>6 DEF Asked
  <2>2. s # None /\ e # None
    BY Constants DEF Instants
  <2>3. a \in Reqs /\ a.op = o /\ a.user = u /\ a.start = s /\ a.end = e
    BY <1>1, <2>1 DEF Ask, Timed, Reqs
  <2> QED
    BY <1>4, <1>6, <2>2, <2>3
<1>7. CASE o = "edit"
  <2>1. PICK c \in People, i \in Live, l \in BOOLEAN,
             s \in Instants \cup {None}, e \in Instants \cup {None} :
           a = Marked(Timed(AskOf(o, c, i), s, e), l)
    BY <1>7 DEF Asked
  <2>2. PICK u \in Owners : u = punch[i].user
    BY <1>3
  <2>3. a \in Reqs /\ a.op = o /\ a.user = u /\ a.id = i
    BY <1>1, <1>3, <2>1, <2>2 DEF Ask, AskOf, Timed, Marked, Reqs
  <2> QED
    BY <1>4, <1>7, <2>2, <2>3
<1>8. CASE o = "clockOut"
  <2>1. PICK c \in Leads \cup Admins, u \in Owners : a = Ask(o, c, u)
    BY <1>8 DEF Asked
  <2>2. a \in Reqs /\ a.op = o /\ a.user = u
    BY <1>1, <2>1 DEF Ask, Reqs, People
  <2> QED
    BY <1>4, <1>8, <2>2
<1>9. CASE o = "delete"
  <2>1. PICK c \in People, i \in Live : a = AskOf(o, c, i)
    BY <1>9 DEF Asked
  <2>2. PICK u \in Owners : u = punch[i].user
    BY <1>3
  <2>3. a \in Reqs /\ a.op = o /\ a.user = u /\ a.id = i
    BY <1>1, <1>3, <2>1, <2>2 DEF Ask, AskOf, Reqs
  <2> QED
    BY <1>4, <1>9, <2>2, <2>3
<1>10. CASE o = "review"
  <2>1. PICK c \in Admins, w \in {WeekOf(t) : t \in 0 .. now} : a = AskWeek(c, w)
    BY <1>10 DEF Asked
  <2>2. w \in Nat
    BY <1>1, Days DEF Instants
  <2>3. a \in Reqs /\ a.op = o
    BY <1>1, <1>10, <2>1, <2>2, Constants DEF Ask, AskWeek, Reqs, People
  <2> QED
    BY <1>4, <1>10, <2>3
<1>11. CASE o = "board"
  <2>1. a = NoArgs /\ NoArgs.op = "board"
    BY <1>11 DEF Asked, NoArgs
  <2> QED
    BY <1>1, <1>4, <1>11, <2>1
<1> QED
  BY <1>5, <1>6, <1>7, <1>8, <1>9, <1>10, <1>11 DEF Ops

\* The job a request starts: a sweep of the people it is about, or its read.
LEMMA SweepServes ==
    ASSUME TInv, NEW r, Names(r), r.at = now, r.op \notin {"add", "delete"}, NEW j,
           j = [phase |-> "sweep", scope |-> Scope(r), req |-> r,
                rows |-> {<<i, punch[i].start>> : i \in Expired(r)}]
    PROVE  /\ JobOK(j) /\ j.phase = "sweep" /\ j.scope = Scope(r)
           /\ \A u \in Owners : u \in Scope(r) => Fresh(j, u)
<1> DEFINE rows == {<<i, punch[i].start>> : i \in Expired(r)}
<1>1. /\ r \in Reqs /\ Scope(r) \subseteq Owners /\ now \in Nat
  BY DEF Names, Scope, Reqs, TInv, Instants
<1>2. ASSUME NEW i \in Expired(r)
      PROVE  /\ i \in Live /\ i \in Ids /\ punch[i] # None /\ punch[i].start \in Instants
             /\ punch[i].user \in Scope(r) /\ punch[i].end = None
             /\ punch[i].start < DayStart(now)
  <2>1. /\ i \in Live /\ punch[i].user \in Scope(r) /\ punch[i].end = None
        /\ punch[i].start < DayStart(now)
    BY DEF Expired
  <2> QED
    BY <2>1, LiveRow, RowFields
<1>3. rows \in SUBSET (Ids \X Instants)
  BY <1>2
<1>4. \A x \in rows : \E i \in Expired(r) : x = <<i, punch[i].start>>
  OBVIOUS
<1>5. \A i \in Live : /\ punch[i].user \in Scope(r) /\ punch[i].end = None
                      /\ punch[i].start < DayStart(now)
                      => <<i, punch[i].start>> \in rows
  BY DEF Expired
<1>6. j \in SweepJobs /\ j.phase = "sweep" /\ j.scope = Scope(r) /\ j.req = r /\ j.rows = rows
  BY <1>1, <1>3 DEF SweepJobs, Names
<1> HIDE DEF rows
<1>7. JobOK(j)
  <2>1. Reads(j)
    BY <1>1, <1>6 DEF Reads
  <2>2. Sweeps(j)
    BY <1>2, <1>4, <1>6, <2>1 DEF Sweeps
  <2> QED
    BY <1>6, <2>1, <2>2 DEF JobOK, Jobs
<1>8. ASSUME NEW u \in Owners, u \in Scope(r) PROVE FreshSweep(j, u)
  <2>1. \A x \in j.rows : punch[x[1]].user = u => x[1] \in OpenOf(u) /\ x[2] = punch[x[1]].start
    BY <1>2, <1>4, <1>6 DEF OpenOf, LiveOf
  <2>2. \A i \in OpenOf(u) : punch[i].start < DayStart(now) => <<i, punch[i].start>> \in j.rows
    BY <1>5, <1>6, <1>8 DEF OpenOf, LiveOf
  <2> QED
    BY <2>1, <2>2 DEF FreshSweep
<1> QED
  BY <1>6, <1>7, <1>8 DEF Fresh

LEMMA ArriveStep ==
    ASSUME IInv, NEW t \in Threads, Arrive(t)
    PROVE  IInv'
<1>1. PICK o \in Sends[t] : \E a \in Asked(o) :
        LET r == [a EXCEPT !.at = now] IN
        /\ job' = [job EXCEPT ![t] =
             IF Expired(r) = {} THEN Read(r)
             ELSE [phase |-> "sweep", scope |-> Scope(r), req |-> r,
                   rows |-> {<<i, punch[i].start>> : i \in Expired(r)}]]
        /\ clock' = [u \in Owners |-> IF u \in Overrun(r) THEN None ELSE clock[u]]
        /\ left' = left \ Overrun(r)
        /\ estimates' = [u \in Owners |-> estimates[u] \cup
             (IF u \in Overrun(r) THEN {<<clock[u], clock[u] + LaborCap>>} ELSE {})]
        /\ crossed' = crossed \cup
             (Scope(r) \cap UNION {ScopeOf(s) : s \in Threads \ {t}})
  BY DEF Arrive
<1>2. PICK a, r :
        /\ a \in Asked(o)
        /\ r = [a EXCEPT !.at = now]
        /\ job' = [job EXCEPT ![t] =
             IF Expired(r) = {} THEN Read(r)
             ELSE [phase |-> "sweep", scope |-> Scope(r), req |-> r,
                   rows |-> {<<i, punch[i].start>> : i \in Expired(r)}]]
        /\ clock' = [u \in Owners |-> IF u \in Overrun(r) THEN None ELSE clock[u]]
        /\ left' = left \ Overrun(r)
        /\ estimates' = [u \in Owners |-> estimates[u] \cup
             (IF u \in Overrun(r) THEN {<<clock[u], clock[u] + LaborCap>>} ELSE {})]
        /\ crossed' = crossed \cup
             (Scope(r) \cap UNION {ScopeOf(s) : s \in Threads \ {t}})
  BY <1>1
<1>3. UNCHANGED <<now, punch, audits>> /\ job[t].phase = "idle"
  BY DEF Arrive
<1>4. TInv /\ o \in Ops /\ Names(r) /\ r.at = now
  BY <1>2, SendsAssumption, AskedIsNamed DEF IInv
<1>5. PICK j : /\ job' = [job EXCEPT ![t] = j]
               /\ j = IF Expired(r) = {} THEN Read(r)
                      ELSE [phase |-> "sweep", scope |-> Scope(r), req |-> r,
                            rows |-> {<<i, punch[i].start>> : i \in Expired(r)}]
  BY <1>2
<1>6. /\ JobOK(j) /\ (j.phase # "idle" => j.scope \subseteq Scope(r))
      /\ \A u \in Owners : u \in Scope(r) /\ Settled(u) /\ j.phase # "idle" /\ u \in j.scope
                           => Fresh(j, u)
  <2>1. CASE Expired(r) = {}
    <3>1. j = Read(r) /\ Served(j, r)
      BY <1>4, <1>5, <2>1, ReadServes
    <3>2. ASSUME NEW u \in Owners, u \in Scope(r), Settled(u) PROVE Ready(r, u)
      <4>1. r.op \notin {"add", "delete"} => SweptOf(u)
        <5> SUFFICES ASSUME r.op \notin {"add", "delete"}, NEW i \in OpenOf(u)
                     PROVE  DayStart(now) <= punch[i].start
          BY DEF SweptOf
        <5>1. i \in LiveOf(u) /\ punch[i].end = None
          BY DEF OpenOf
        <5>2. i \in Live /\ punch[i].user = u /\ punch[i].start \in Nat /\ now \in Nat
          BY <1>4, <5>1, LiveOfRow
        <5>3. ~(punch[i].start < DayStart(now))
          BY <1>4, <2>1, <3>2, <5>1, <5>2 DEF Expired
        <5> QED
          BY <5>2, <5>3, Days
      <4> QED
        BY <1>4, <3>2, <4>1 DEF Ready
    <3> QED
      BY <3>1, <3>2 DEF Served
  <2>2. CASE Expired(r) # {}
    <3>1. r.op \notin {"add", "delete"}
      BY <2>2 DEF Expired
    <3> QED
      BY <1>4, <1>5, <2>2, <3>1, SweepServes
  <2> QED
    BY <2>1, <2>2
<1>7. /\ RowsStay /\ UniqueOpen' /\ EstimatesFlagged' /\ \A u : Spared(u)
  BY <1>3, RowsUnchanged DEF IInv, TInv
<1>8. ASSUME NEW i, JobOK(i) PROVE JobOK(i)'
  <2>1. now \in Nat /\ now' \in Nat /\ now <= now'
    BY <1>3, <1>4 DEF TInv, Instants
  <2> QED
    BY <1>7, <1>8, <2>1, JobKept
<1>9. /\ DOMAIN job' = Threads /\ job'[t] = j
      /\ \A s \in Threads \ {t} : job'[s] = job[s] /\ ScopeOf(s)' = ScopeOf(s)
      /\ ScopeOf(t)' = IF j.phase = "idle" THEN {} ELSE j.scope
  BY <1>4, <1>5 DEF TInv, ScopeOf
<1>10. ASSUME NEW s \in Threads PROVE JobOK(job[s])'
  <2>1. CASE s = t
    BY <1>6, <1>8, <1>9, <2>1
  <2>2. CASE s # t
    <3>1. PICK i : i = job[s]
      OBVIOUS
    <3> QED
      BY <1>4, <1>8, <1>9, <2>2, <3>1 DEF TInv
  <2> QED
    BY <2>1, <2>2
<1>11. /\ clock' \in [Owners -> Instants \cup {None}]
       /\ \A u \in Owners : clock'[u] \in {clock[u], None}
                            /\ (clock'[u] # None => (u \in left => u \in left'))
  BY <1>2, <1>4 DEF TInv
<1>12. estimates' \in [Owners -> SUBSET (Instants \X (Instants \cup {MaxNow + LaborCap}))]
  <2>1. ASSUME NEW u \in Owners, u \in Overrun(r)
        PROVE  <<clock[u], clock[u] + LaborCap>> \in Instants \X Instants
    <3>1. clock[u] # None /\ clock[u] + LaborCap <= now /\ clock[u] \in Instants
      BY <1>4, <2>1 DEF Overrun, TInv
    <3> QED
      BY <1>4, <3>1, Constants DEF TInv, Instants
  <2> QED
    BY <1>2, <1>4, <2>1 DEF TInv
<1>13. TInv'
  <2>1. crossed' \subseteq Owners
    BY <1>2, <1>4 DEF TInv, Scope, Names
  <2> QED
    BY <1>2, <1>3, <1>4, <1>7, <1>9, <1>10, <1>11, <1>12, <2>1 DEF TInv
<1>14. ASSUME NEW u \in Owners \ crossed' PROVE PersonOK(u)'
  <2>1. PersonOK(u)
    BY <1>2 DEF IInv, PInv
  <2>2. Settled(u)'
    BY <1>3, <1>7, <1>11, <2>1, SettledKept DEF PersonOK
  <2>3. ASSUME NEW i, JobOK(i), Fresh(i, u) PROVE Fresh(i, u)'
    BY <1>3, <1>4, <1>7, <1>11, <2>3, FreshKept
  <2>4. ASSUME NEW s \in Threads \ {t}, u \in ScopeOf(s)
        PROVE  Fresh(job[s], u)' /\ u \notin ScopeOf(t)'
    <3>1. PICK i : i = job[s]
      OBVIOUS
    <3>2. Fresh(i, u)'
      BY <1>4, <2>1, <2>3, <2>4, <3>1 DEF PersonOK, TInv
    <3>3. u \notin Scope(r)
      BY <1>2, <2>4
    <3> QED
      BY <1>6, <1>9, <3>1, <3>2, <3>3
  <2>5. u \in ScopeOf(t)' => Fresh(j, u)'
    BY <1>6, <1>9, <2>1, <2>3 DEF PersonOK
  <2> QED
    BY <1>9, <2>1, <2>2, <2>4, <2>5 DEF PersonOK
<1> QED
  BY <1>13, <1>14 DEF IInv, PInv

\* What a sweep commits: the midnight of the start it read, on the rows it read.
LEMMA SweepEffect ==
    ASSUME TInv, NEW t \in Threads, SweepCommit(t), NEW i \in Ids
    PROVE  \/ punch'[i] = punch[i] /\ \A x \in job[t].rows : x[1] # i
           \/ \E x \in job[t].rows : x[1] = i /\ punch'[i] = SweptRow(punch[i], x[2])
<1> DEFINE rows == job[t].rows
<1>1. \A x, y \in rows : x[1] = y[1] => x = y
  BY DEF TInv, JobOK, Sweeps, SweepCommit
<1>2. punch'[i] = IF i \in {x[1] : x \in rows}
                  THEN SweptRow(punch[i], (CHOOSE x \in rows : x[1] = i)[2]) ELSE punch[i]
  BY DEF SweepCommit
<1> HIDE DEF rows
<1>3. CASE i \in {x[1] : x \in rows}
  <2>1. PICK x \in rows : x[1] = i
    BY <1>3
  <2>2. (CHOOSE y \in rows : y[1] = i) = x
    BY <1>1, <2>1
  <2> QED
    BY <1>2, <1>3, <2>1, <2>2 DEF rows
<1>4. CASE i \notin {x[1] : x \in rows}
  BY <1>2, <1>4 DEF rows
<1> QED
  BY <1>3, <1>4

\* The row a sweep writes, and that its midnight has passed.
LEMMA SweptFields ==
    ASSUME TInv, NEW t \in Threads, job[t].phase = "sweep", NEW x \in job[t].rows
    PROVE  /\ x[1] \in Ids /\ x[2] \in Nat /\ punch[x[1]] \in PunchRows
           /\ punch[x[1]].user \in job[t].scope
           /\ MidnightAfter(x[2]) \in Instants /\ MidnightAfter(x[2]) <= now
           /\ MidnightAfter(x[2]) # None
           /\ LET m == SweptRow(punch[x[1]], x[2]) IN
              /\ m \in PunchRows /\ m.user = punch[x[1]].user /\ m.start = punch[x[1]].start
              /\ m.end = MidnightAfter(x[2]) /\ m.source = "auto_clock_out" /\ m.review
              /\ m.deleted = punch[x[1]].deleted /\ m.seen = punch[x[1]].seen
<1>1. PICK j : j = job[t]
  OBVIOUS
<1>2. j \in SweepJobs /\ Sweeps(j) /\ x \in j.rows
  BY <1>1, JobKind DEF TInv, JobOK
<1>3. /\ x \in Ids \X Instants /\ j.req.at \in Nat /\ j.req.at <= now
      /\ x[2] < DayStart(j.req.at) /\ punch[x[1]] # None /\ punch[x[1]].user \in j.scope
  BY <1>2 DEF SweepJobs, Sweeps, Reads, Reqs, Instants
<1>4. x[1] \in Ids /\ x[2] \in Nat /\ punch[x[1]] \in PunchRows /\ now \in 0 .. MaxNow
  BY <1>3 DEF TInv, Instants
<1>5. MidnightAfter(x[2]) \in Nat /\ MidnightAfter(x[2]) <= j.req.at
  BY <1>3, <1>4, Midnights, Days
<1>6. /\ MidnightAfter(x[2]) \in Instants /\ MidnightAfter(x[2]) <= now
      /\ MidnightAfter(x[2]) # None
  BY <1>3, <1>4, <1>5, Constants DEF Instants
<1>7. PICK p \in PunchRows, e \in Instants : p = punch[x[1]] /\ e = MidnightAfter(x[2])
  BY <1>4, <1>6
<1>8. LET m == [p EXCEPT !.end = e, !.source = "auto_clock_out", !.review = TRUE] IN
      /\ m \in PunchRows /\ m.user = p.user /\ m.start = p.start
      /\ m.end = e /\ m.source = "auto_clock_out" /\ m.review
      /\ m.deleted = p.deleted /\ m.seen = p.seen
  BY DEF PunchRows
<1> QED
  BY <1>1, <1>3, <1>4, <1>6, <1>7, <1>8 DEF SweptRow


LEMMA SweepStep ==
    ASSUME IInv, NEW t \in Threads, SweepCommit(t)
    PROVE  IInv'
<1>1. PICK j : j = job[t]
  OBVIOUS
<1>2. /\ TInv /\ PInv /\ j.phase = "sweep" /\ JobOK(j) /\ j \in SweepJobs /\ Sweeps(j) /\ Reads(j)
      /\ j.scope \subseteq Owners
  BY <1>1, JobKind DEF IInv, TInv, JobOK, Sweeps, SweepCommit
<1>3. PICK k : k = [phase |-> "look", scope |-> j.scope, req |-> j.req]
  OBVIOUS
<1>4. /\ UNCHANGED <<now, clock, estimates, audits, crossed>>
      /\ job' = [job EXCEPT ![t] = k]
      /\ left' = left \cup {u \in Owners : clock[u] # None /\
                              \E i \in {x[1] : x \in j.rows} : punch[i].user = u}
  BY <1>1, <1>3 DEF SweepCommit
<1>5. ASSUME NEW i \in Ids
      PROVE  \/ punch'[i] = punch[i] /\ \A x \in j.rows : x[1] # i
             \/ \E x \in j.rows : x[1] = i /\ punch'[i] = SweptRow(punch[i], x[2])
  BY <1>1, <1>2, SweepEffect
<1>6. ASSUME NEW x \in j.rows
      PROVE  /\ x[1] \in Ids /\ x[2] \in Nat /\ punch[x[1]] \in PunchRows
             /\ punch[x[1]].user \in j.scope /\ punch[x[1]] # None
             /\ MidnightAfter(x[2]) \in Instants /\ MidnightAfter(x[2]) <= now
             /\ MidnightAfter(x[2]) # None
             /\ LET m == SweptRow(punch[x[1]], x[2]) IN
                /\ m \in PunchRows /\ m.user = punch[x[1]].user /\ m.start = punch[x[1]].start
                /\ m.end = MidnightAfter(x[2]) /\ m.source = "auto_clock_out" /\ m.review
                /\ m.deleted = punch[x[1]].deleted /\ m.seen = punch[x[1]].seen
  BY <1>1, <1>2, SweptFields, RowFields
<1>7. ASSUME NEW i \in Ids, punch[i] # None
      PROVE  /\ punch'[i] \in PunchRows /\ punch'[i] # None /\ punch'[i].user = punch[i].user
             /\ punch'[i].start = punch[i].start /\ punch'[i].deleted = punch[i].deleted
             /\ punch'[i].end = None => punch'[i] = punch[i]
             /\ punch'[i].source = "auto_clock_out" => punch'[i].review \/ punch'[i] = punch[i]
  <2>1. punch[i] \in PunchRows
    BY <1>2, <1>7 DEF TInv
  <2> QED
    BY <1>5, <1>6, <1>7, <2>1, RowFields
<1>8. ASSUME NEW i \in Ids, punch[i] = None PROVE punch'[i] = None
  BY <1>5, <1>6, <1>8
<1>9. punch' \in [Ids -> PunchRows \cup {None}]
  <2>1. DOMAIN punch' = Ids /\ punch' = [i \in Ids |-> punch'[i]]
    BY DEF SweepCommit
  <2> QED
    BY <1>7, <1>8, <2>1
<1>10. RowsStay /\ Live' = Live /\ \A i \in Live : i \in Ids /\ punch[i] # None
  BY <1>7, <1>8 DEF RowsStay, Live
<1>11. UniqueOpen' /\ EstimatesFlagged'
  BY <1>2, <1>7, <1>10 DEF TInv, UniqueOpen, EstimatesFlagged
<1>12. k \in LookJobs /\ k.phase = "look" /\ k.scope = j.scope /\ k.req = j.req /\ JobOK(k)
  <2>1. k \in LookJobs /\ k.phase = "look" /\ k.scope = j.scope /\ k.req = j.req
    BY <1>2, <1>3 DEF LookJobs, SweepJobs
  <2> QED
    BY <1>2, <2>1 DEF JobOK, Jobs, Reads
<1>13. JobOK(k)'
  <2>1. now \in Nat /\ now' = now
    BY <1>2, <1>4 DEF TInv, Instants
  <2> QED
    BY <1>10, <1>12, <2>1, JobKept
<1>14. ASSUME NEW u \in Owners \ j.scope
       PROVE  Spared(u) /\ clock'[u] = clock[u] /\ (u \in left => u \in left')
  <2>1. ASSUME NEW i \in Ids, \/ punch[i] # None /\ punch[i].user = u
                              \/ punch'[i] # None /\ punch'[i].user = u
        PROVE  punch'[i] = punch[i]
    <3>1. punch[i] # None /\ punch[i].user = u
      BY <1>7, <1>8, <2>1
    <3> QED
      BY <1>5, <1>6, <3>1
  <2> QED
    BY <1>4, <2>1 DEF Spared
<1>15. ASSUME NEW u \in (Owners \cap j.scope) \ crossed
       PROVE  Settled(u)' /\ Fresh(k, u)'
  <2>1. Settled(u) /\ FreshSweep(j, u) /\ j.req.at = now
    BY <1>1, <1>2 DEF PInv, PersonOK, ScopeOf, Fresh
  <2>2. LiveOf(u)' = LiveOf(u) /\ LiveOf(u) \subseteq Ids /\ \A i \in LiveOf(u) : punch[i] # None
    BY <1>7, <1>10 DEF LiveOf
  <2>3. ASSUME NEW i \in LiveOf(u)
        PROVE  \/ punch'[i] = punch[i] /\ \A x \in j.rows : x[1] # i
               \/ /\ i \in OpenOf(u) /\ punch'[i].start = punch[i].start
                  /\ punch'[i].end = MidnightAfter(punch[i].start)
                  /\ punch'[i].end # None
                  /\ MidnightAfter(punch[i].start) <= now
                  /\ MidnightAfter(punch[i].start) \in Nat
                  /\ \E x \in j.rows : x[1] = i
    <3>1. CASE punch'[i] = punch[i] /\ \A x \in j.rows : x[1] # i
      BY <3>1
    <3>2. CASE \E x \in j.rows : x[1] = i /\ punch'[i] = SweptRow(punch[i], x[2])
      <4>1. PICK x \in j.rows : x[1] = i /\ punch'[i] = SweptRow(punch[i], x[2])
        BY <3>2
      <4>2. i \in OpenOf(u) /\ x[2] = punch[i].start
        BY <2>1, <4>1 DEF FreshSweep, LiveOf
      <4> QED
        BY <1>6, <4>1, <4>2 DEF Instants
    <3> QED
      BY <1>5, <2>2, <3>1, <3>2
  <2>4. ASSUME NEW i \in LiveOf(u)
        PROVE  /\ punch[i].start \in Nat /\ (punch[i].end # None => punch[i].end \in Nat)
               /\ now \in Nat /\ punch[i].user = u /\ i \in Live
    BY <1>2, LiveOfRow
  <2>5. ASSUME NEW i \in LiveOf(u)
        PROVE  Fits(punch[i])' /\ (punch'[i].review => punch'[i].end # None)
    <3>1. Fits(punch[i]) /\ (punch[i].review => punch[i].end # None)
      BY <2>1 DEF Settled
    <3> QED
      BY <1>4, <2>3, <2>4, <3>1 DEF Fits
  <2>6. ASSUME NEW i \in LiveOf(u), NEW h \in LiveOf(u), i # h
        PROVE  Apart(punch[i], punch[h])'
    <3>1. Apart(punch[i], punch[h]) /\ Fits(punch[i]) /\ Fits(punch[h])
      BY <2>1, <2>6 DEF Settled
    <3>2. ~(punch[i].end = None /\ punch[h].end = None)
      BY <1>2, <2>4, <2>6 DEF TInv, UniqueOpen
    <3>3. CASE punch'[i] = punch[i] /\ punch'[h] = punch[h]
      BY <1>4, <3>1, <3>3 DEF Apart
    <3>4. CASE i \in OpenOf(u) /\ punch'[h] = punch[h]
      BY <1>4, <2>3, <2>4, <3>1, <3>2, <3>4 DEF Apart, Fits, EndOr, OpenOf
    <3>5. CASE h \in OpenOf(u) /\ punch'[i] = punch[i]
      BY <1>4, <2>3, <2>4, <3>1, <3>2, <3>5 DEF Apart, Fits, EndOr, OpenOf
    <3> QED
      BY <2>3, <3>2, <3>3, <3>4, <3>5 DEF OpenOf
  <2>7. clock'[u] # None /\ OpenOf(u)' = {} => u \in left'
    <3> SUFFICES ASSUME clock[u] # None, OpenOf(u)' = {} PROVE u \in left'
      BY <1>4
    <3>1. CASE OpenOf(u) = {}
      BY <1>4, <2>1, <3>1 DEF Settled
    <3>2. CASE OpenOf(u) # {}
      <4>1. PICK i \in OpenOf(u) : i \in LiveOf(u) /\ punch[i].end = None /\ punch[i].user = u
        BY <2>4, <3>2 DEF OpenOf
      <4>2. punch'[i].end # None
        BY <2>2, <4>1 DEF OpenOf
      <4>3. \E x \in j.rows : x[1] = i
        BY <2>3, <4>1, <4>2
      <4> QED
        BY <1>4, <4>1, <4>3
    <3> QED
      BY <3>1, <3>2
  <2>8. SweptOf(u)'
    <3> SUFFICES ASSUME NEW i \in OpenOf(u)' PROVE DayStart(now) <= punch'[i].start
      BY <1>4 DEF SweptOf
    <3>1. i \in LiveOf(u) /\ punch'[i].end = None
      BY <2>2 DEF OpenOf
    <3>2. punch'[i] = punch[i] /\ \A x \in j.rows : x[1] # i
      BY <2>3, <3>1
    <3>3. i \in OpenOf(u)
      BY <3>1, <3>2 DEF OpenOf
    <3>4. ~(punch[i].start < DayStart(now))
      <4>1. <<i, punch[i].start>>[1] = i
        OBVIOUS
      <4> QED
        BY <2>1, <3>2, <3>3, <4>1 DEF FreshSweep
    <3>5. DayStart(now) \in Nat /\ punch[i].start \in Nat
      BY <2>4, <3>1, Days
    <3> QED
      BY <3>2, <3>4, <3>5
  <2>9. Settled(u)'
    BY <2>2, <2>5, <2>6, <2>7 DEF Settled
  <2>10. Fresh(k, u)'
    BY <1>4, <1>12, <2>1, <2>8 DEF Fresh
  <2> QED
    BY <2>9, <2>10
<1>16. (\A s \in Threads : JobOK(job[s])') /\ PInv'
  <2>1. k.phase # "idle" => k.scope \subseteq job[t].scope
    BY <1>1, <1>12
  <2>2. now' = now /\ crossed' = crossed
    BY <1>4
  <2> QED
    BY <1>1, <1>2, <1>4, <1>10, <1>13, <1>14, <1>15, <2>1, <2>2, ActorStep
<1>17. TInv'
  <2>1. left' \subseteq Owners /\ DOMAIN job' = Threads
    BY <1>2, <1>4 DEF TInv
  <2> QED
    BY <1>2, <1>4, <1>9, <1>11, <1>16, <2>1 DEF TInv
<1> QED
  BY <1>16, <1>17 DEF IInv


LEMMA LookStep ==
    ASSUME IInv, NEW t \in Threads, Look(t)
    PROVE  IInv'
<1>1. PICK j : j = job[t]
  OBVIOUS
<1>2. /\ TInv /\ PInv /\ j.phase = "look" /\ JobOK(j) /\ Reads(j) /\ j.scope \subseteq Owners
  BY <1>1, JobKind DEF IInv, TInv, JobOK, Look
<1>3. PICK r : r = j.req
  OBVIOUS
<1>4. Names(r) /\ j.scope = Scope(r)
  BY <1>2, <1>3 DEF Reads
<1>5. PICK k : k = Read(r)
  OBVIOUS
<1>6. Served(k, r)
  BY <1>2, <1>4, <1>5, ReadServes
<1>7. /\ UNCHANGED <<now, punch, clock, estimates, audits, crossed, left>>
      /\ job' = [job EXCEPT ![t] = k]
  BY <1>1, <1>3, <1>5 DEF Look
<1>8. RowsStay /\ UniqueOpen' /\ EstimatesFlagged' /\ \A u : Spared(u)
  BY <1>2, <1>7, RowsUnchanged DEF TInv
<1>9. JobOK(k) /\ JobOK(k)'
  <2>1. JobOK(k) /\ now \in Nat /\ now' = now
    BY <1>2, <1>6, <1>7 DEF Served, TInv, Instants
  <2> QED
    BY <1>8, <2>1, JobKept
<1>10. ASSUME NEW u \in (Owners \cap j.scope) \ crossed
       PROVE  Settled(u)' /\ (k.phase # "idle" /\ u \in k.scope => Fresh(k, u)')
  <2>1. Settled(u) /\ j.req.at = now /\ SweptOf(u)
    BY <1>1, <1>2 DEF PInv, PersonOK, ScopeOf, Fresh
  <2>2. Ready(r, u)
    BY <1>3, <2>1 DEF Ready
  <2>3. Settled(u)'
    BY <1>7, <1>8, <2>1, SettledKept
  <2>4. ASSUME Fresh(k, u) PROVE Fresh(k, u)'
    BY <1>2, <1>7, <1>8, <1>9, <2>4, FreshKept
  <2> QED
    BY <1>6, <2>2, <2>3, <2>4 DEF Served
<1>11. (\A s \in Threads : JobOK(job[s])') /\ PInv'
  <2>1. k.phase # "idle" => k.scope \subseteq job[t].scope
    BY <1>1, <1>4, <1>6 DEF Served
  <2>2. now' = now /\ crossed' = crossed /\ job[t].phase # "idle"
    BY <1>1, <1>2, <1>7
  <2>3. \A u \in Owners \ j.scope :
           Spared(u) /\ clock'[u] = clock[u] /\ (u \in left => u \in left')
    BY <1>7, <1>8
  <2> QED
    BY <1>1, <1>7, <1>8, <1>9, <1>10, <2>1, <2>2, <2>3, ActorStep
<1>12. TInv'
  <2>1. DOMAIN job' = Threads
    BY <1>2, <1>7 DEF TInv
  <2> QED
    BY <1>2, <1>7, <1>8, <1>11, <2>1 DEF TInv
<1> QED
  BY <1>11, <1>12 DEF IInv

\* A clock starts only for a person whose open punch was seen or made by his own request.
LEMMA StartWorkStep ==
    ASSUME IInv, NEW t \in Threads, StartWork(t)
    PROVE  IInv'
<1>1. PICK j : j = job[t]
  OBVIOUS
<1>2. /\ TInv /\ PInv /\ j.phase = "start" /\ JobOK(j)
  BY <1>1 DEF IInv, TInv, StartWork
<1>3. PICK u \in Owners : j.scope = {u}
  BY <1>2 DEF JobOK
<1>4. /\ UNCHANGED <<now, punch, estimates, audits, crossed>>
      /\ job' = [job EXCEPT ![t] = Idle]
      /\ \/ UNCHANGED <<clock, left>>
         \/ clock' = [clock EXCEPT ![u] = now] /\ left' = left \ {u}
  BY <1>1, <1>3 DEF StartWork
<1>5. /\ RowsStay /\ UniqueOpen' /\ EstimatesFlagged' /\ \A v : Spared(v)
  BY <1>2, <1>4, RowsUnchanged DEF TInv
<1>6. ASSUME NEW v \in Owners \ j.scope
      PROVE  Spared(v) /\ clock'[v] = clock[v] /\ (v \in left => v \in left')
  BY <1>2, <1>3, <1>4, <1>5 DEF TInv
<1>7. u \notin crossed => Settled(u)'
  <2> SUFFICES ASSUME u \notin crossed PROVE Settled(u)'
    OBVIOUS
  <2>1. Settled(u) /\ OpenOf(u) # {}
    BY <1>1, <1>2, <1>3 DEF PInv, PersonOK, ScopeOf, Fresh
  <2>2. /\ LiveOf(u)' = LiveOf(u) /\ OpenOf(u)' = OpenOf(u)
        /\ \A i \in LiveOf(u) : punch'[i] = punch[i]
    BY <1>5, SameRows
  <2> QED
    BY <1>4, <2>1, <2>2 DEF Settled, Fits, Apart
<1>8. JobOK(Idle)' /\ Idle.phase = "idle"
  BY IdleJob DEF JobOK, Idle
<1>9. (\A s \in Threads : JobOK(job[s])') /\ PInv'
  <2>1. now' = now /\ crossed' = crossed /\ job[t].phase # "idle"
    BY <1>1, <1>2, <1>4
  <2> QED
    BY <1>1, <1>2, <1>3, <1>4, <1>5, <1>6, <1>7, <1>8, <2>1, ActorStep DEF IInv
<1>10. TInv'
  <2>1. DOMAIN job' = Threads /\ left' \subseteq Owners
        /\ clock' \in [Owners -> Instants \cup {None}]
    BY <1>2, <1>4 DEF TInv
  <2> QED
    BY <1>2, <1>4, <1>5, <1>9, <2>1 DEF TInv
<1> QED
  BY <1>9, <1>10 DEF IInv

LEMMA StopWorkStep ==
    ASSUME IInv, NEW v \in Owners, StopWork(v)
    PROVE  IInv'
<1>1. /\ TInv /\ PInv /\ UNCHANGED <<now, punch, estimates, job, audits, crossed>>
      /\ clock' = [clock EXCEPT ![v] = None] /\ left' = left \ {v}
  BY DEF StopWork, IInv
<1>2. /\ RowsStay /\ UniqueOpen' /\ EstimatesFlagged' /\ \A u : Spared(u)
  BY <1>1, RowsUnchanged DEF TInv
<1>3. ASSUME NEW s \in Threads PROVE JobOK(job[s])'
  <2>1. PICK i : i = job[s]
    OBVIOUS
  <2>2. JobOK(i) /\ now \in Nat /\ now' = now
    BY <1>1, <2>1 DEF TInv, Instants
  <2>3. JobOK(i)'
    BY <1>2, <2>2, JobKept
  <2> QED
    BY <1>1, <2>1, <2>3
<1>4. TInv'
  <2>1. clock' \in [Owners -> Instants \cup {None}] /\ left' \subseteq Owners
    BY <1>1 DEF TInv
  <2> QED
    BY <1>1, <1>2, <1>3, <2>1 DEF TInv
<1>5. ASSUME NEW u \in Owners \ crossed PROVE PersonOK(u)'
  <2>1. PersonOK(u)
    BY <1>1 DEF PInv
  <2>2. clock'[u] \in {clock[u], None} /\ (clock'[u] # None => (u \in left => u \in left'))
    BY <1>1 DEF TInv
  <2>3. Settled(u)'
    BY <1>1, <1>2, <2>1, <2>2, SettledKept DEF PersonOK
  <2>4. ASSUME NEW s \in Threads, u \in ScopeOf(s) PROVE Fresh(job[s], u)'
    <3>1. PICK i : i = job[s]
      OBVIOUS
    <3>2. JobOK(i) /\ Fresh(i, u)
      BY <1>1, <2>1, <2>4, <3>1 DEF TInv, PersonOK
    <3>3. Fresh(i, u)'
      BY <1>1, <1>2, <2>2, <3>2, FreshKept
    <3> QED
      BY <1>1, <3>1, <3>3
  <2>5. \A s \in Threads : ScopeOf(s)' = ScopeOf(s)
    BY <1>1 DEF ScopeOf
  <2> QED
    BY <2>1, <2>3, <2>4, <2>5 DEF PersonOK
<1> QED
  BY <1>1, <1>4, <1>5 DEF IInv, PInv


LEMMA InsertStep ==
    ASSUME IInv, NEW t \in Threads, InsertPunch(t)
    PROVE  IInv'
<1>1. PICK j : j = job[t]
  OBVIOUS
<1>2. /\ TInv /\ PInv /\ j.phase = "insert" /\ JobOK(j) /\ Inserts(j) /\ j \in InsertJobs
  BY <1>1, JobKind DEF IInv, TInv, JobOK, InsertPunch
<1>3. PICK row \in PunchRows, u \in Owners : row = j.new /\ u = row.user
  BY <1>2, RowFields DEF InsertJobs
<1>4. /\ j.scope = {u} /\ ~row.deleted /\ ~row.review /\ row.source # "auto_clock_out"
      /\ (j.starts => row.end = None) /\ row # None
  BY <1>2, <1>3, RowFields DEF Inserts
<1>5. PICK i \in Free : i = Min(Free)
  <2>1. Free \in SUBSET Nat /\ Free # {}
    BY DEF Free, Ids, InsertPunch
  <2> QED
    BY <2>1, LeastIsIn
<1>6. i \in Ids /\ punch[i] = None
  BY DEF Free
<1>7. PICK k : k = IF Collides(row) \/ ~j.starts THEN Idle ELSE Starting(u)
  OBVIOUS
<1>8. /\ UNCHANGED <<now, clock, estimates, crossed, left>>
      /\ job' = [job EXCEPT ![t] = k]
      /\ \/ Collides(row) /\ k = Idle /\ UNCHANGED <<punch, audits>>
         \/ /\ ~Collides(row) /\ punch' = [punch EXCEPT ![i] = row]
            /\ audits' = audits + Audited(j)
  BY <1>1, <1>3, <1>5, <1>7 DEF InsertPunch
<1>9. k.phase # "idle" => /\ k.phase = "start" /\ k.scope = {u} /\ ~Collides(row)
                          /\ row.end = None
  BY <1>4, <1>7, IdleJob, StartJob
<1>10. JobOK(k)'
  <2>1. JobOK(k)
    BY <1>7, IdleJob, StartJob
  <2>2. k \in {Idle} \cup StartJobs
    BY <1>7 DEF Starting, StartJobs
  <2> QED
    BY <2>1, <2>2 DEF JobOK, Idle, StartJobs
<1>11. /\ RowsStay /\ punch' \in [Ids -> PunchRows \cup {None}]
       /\ \A v \in Owners \ {u} : Spared(v)
  BY <1>2, <1>3, <1>6, <1>8 DEF TInv, RowsStay, Spared
<1>12. CASE punch' = punch
  <2>1. /\ RowsStay /\ UniqueOpen' /\ EstimatesFlagged' /\ \A v : Spared(v)
    BY <1>2, <1>12, RowsUnchanged DEF TInv
  <2>2. ~(punch' = [punch EXCEPT ![i] = row])
    BY <1>2, <1>4, <1>6, <1>12 DEF TInv
  <2>3. UNCHANGED <<punch, audits>> /\ k = Idle
    BY <1>8, <2>2
  <2>4. u \notin crossed => Settled(u)'
    <3>1. u \notin crossed => Settled(u)
      BY <1>2 DEF PInv, PersonOK
    <3> QED
      BY <1>8, <2>1, <3>1, SettledKept
  <2>5. (\A s \in Threads : JobOK(job[s])') /\ PInv'
    <3>1. /\ now' = now /\ crossed' = crossed /\ job[t].phase # "idle"
          /\ job[t].scope = {u} /\ k.phase = "idle"
      BY <1>1, <1>2, <1>4, <1>8, <2>3, IdleJob
    <3> QED
      BY <1>8, <1>10, <2>1, <2>4, <3>1, ActorStep
  <2> QED
    <3>1. DOMAIN job' = Threads
      BY <1>2, <1>8 DEF TInv
    <3> QED
      BY <1>2, <1>8, <2>1, <2>3, <2>5, <3>1 DEF TInv, IInv
<1>13. CASE punch' # punch
  <2>1. ~Collides(row) /\ punch' = [punch EXCEPT ![i] = row] /\ audits' = audits + Audited(j)
    BY <1>8, <1>13
  <2>2. /\ punch'[i] = row /\ \A h \in Ids \ {i} : punch'[h] = punch[h]
        /\ Live' = Live \cup {i} /\ i \notin Live
    BY <1>2, <1>4, <1>6, <2>1 DEF TInv, Live
  <2>3. \A h \in Live : h \in Ids /\ h # i /\ punch'[h] = punch[h]
    BY <2>2 DEF Live
  <2>4. UniqueOpen'
    <3>1. row.end = None => \A h \in Live : ~(punch[h].user = u /\ punch[h].end = None)
      BY <1>3, <2>1 DEF Collides, OpenOf, LiveOf
    <3> QED
      BY <1>2, <1>3, <2>2, <2>3, <3>1 DEF TInv, UniqueOpen
  <2>5. EstimatesFlagged'
    BY <1>2, <1>4, <2>2, <2>3 DEF TInv, EstimatesFlagged
  <2>6. /\ LiveOf(u)' = LiveOf(u) \cup {i}
        /\ OpenOf(u)' = IF row.end = None THEN OpenOf(u) \cup {i} ELSE OpenOf(u)
        /\ LiveOf(u) \subseteq Live
    BY <1>3, <2>2, <2>3 DEF LiveOf, OpenOf
  <2>7. ASSUME u \notin crossed
        PROVE  Settled(u)' /\ (k.phase # "idle" => Fresh(k, u)')
    <3>1. Settled(u) /\ FreshInsert(j, u)
      BY <1>1, <1>2, <1>4, <2>7 DEF PInv, PersonOK, ScopeOf, Fresh
    <3>2. Fits(row) /\ \A h \in LiveOf(u) : Apart(row, punch[h]) /\ Apart(punch[h], row)
      BY <1>3, <3>1 DEF FreshInsert, Apart
    <3>3. ASSUME NEW h \in LiveOf(u)'
          PROVE  Fits(punch[h])' /\ (punch'[h].review => punch'[h].end # None)
      BY <1>4, <1>8, <2>2, <2>3, <2>6, <3>1, <3>2 DEF Settled, Fits
    <3>4. ASSUME NEW g \in LiveOf(u)', NEW h \in LiveOf(u)', g # h
          PROVE  Apart(punch[g], punch[h])'
      BY <1>8, <2>2, <2>3, <2>6, <3>1, <3>2, <3>4 DEF Settled, Apart
    <3>5. clock'[u] # None /\ OpenOf(u)' = {} => u \in left'
      BY <1>8, <2>6, <3>1 DEF Settled
    <3>6. k.phase # "idle" => Fresh(k, u)'
      BY <1>9, <2>6 DEF Fresh
    <3> QED
      BY <3>3, <3>4, <3>5, <3>6 DEF Settled
  <2>8. (\A s \in Threads : JobOK(job[s])') /\ PInv'
    <3>1. /\ now' = now /\ crossed' = crossed /\ job[t].phase # "idle"
          /\ job[t].scope = {u} /\ clock' = clock /\ left' = left
          /\ (k.phase # "idle" => k.scope \subseteq job[t].scope)
      BY <1>1, <1>2, <1>4, <1>8, <1>9
    <3> QED
      BY <1>8, <1>10, <1>11, <2>7, <3>1, ActorStep
  <2> QED
    <3>1. DOMAIN job' = Threads /\ audits' \in Nat
      BY <1>2, <1>8, <2>1 DEF TInv, Audited
    <3> QED
      BY <1>2, <1>8, <1>11, <2>4, <2>5, <2>8, <3>1 DEF TInv, IInv
<1> QED
  BY <1>12, <1>13

LEMMA ReviewStep ==
    ASSUME IInv, NEW t \in Threads, ReviewCommit(t)
    PROVE  IInv'
<1>1. PICK j : j = job[t]
  OBVIOUS
<1>2. /\ TInv /\ PInv /\ j.phase = "review" /\ JobOK(j) /\ j \in ReviewJobs
      /\ j.scope = Owners /\ \A i \in j.ids : i \in Ids /\ punch[i] # None
  BY <1>1, JobKind DEF IInv, TInv, JobOK, ReviewCommit, ReviewJobs
<1>3. /\ UNCHANGED <<now, clock, crossed, left>> /\ job' = [job EXCEPT ![t] = Idle]
      /\ punch' = [i \in Ids |-> IF i \in j.ids
                   THEN [punch[i] EXCEPT !.review = FALSE, !.seen = TRUE] ELSE punch[i]]
      /\ estimates' = [u \in Owners |-> {x \in estimates[u] : ~Touches(x, j.week)}]
      /\ audits' = audits + (IF j.ids = {} THEN 0 ELSE 1)
  BY <1>1 DEF ReviewCommit
<1>4. ASSUME NEW i \in Ids
      PROVE  \/ punch'[i] = punch[i]
             \/ /\ punch[i] # None /\ punch'[i] # None /\ punch'[i] \in PunchRows
                /\ punch'[i].user = punch[i].user /\ punch'[i].start = punch[i].start
                /\ punch'[i].end = punch[i].end /\ punch'[i].source = punch[i].source
                /\ punch'[i].deleted = punch[i].deleted /\ ~punch'[i].review /\ punch'[i].seen
  <2>1. CASE i \in j.ids
    <3>1. PICK p \in PunchRows : p = punch[i]
      BY <1>2, <2>1 DEF TInv
    <3>2. LET m == [p EXCEPT !.review = FALSE, !.seen = TRUE] IN
          /\ m \in PunchRows /\ m.user = p.user /\ m.start = p.start /\ m.end = p.end
          /\ m.source = p.source /\ m.deleted = p.deleted /\ ~m.review /\ m.seen
      BY DEF PunchRows
    <3> QED
      BY <1>3, <2>1, <3>1, <3>2, RowFields
  <2>2. CASE i \notin j.ids
    BY <1>3, <2>2
  <2> QED
    BY <2>1, <2>2
<1>5. punch' \in [Ids -> PunchRows \cup {None}]
  BY <1>2, <1>3, <1>4 DEF TInv
<1>6. RowsStay /\ Live' = Live /\ Live \subseteq Ids
  BY <1>4 DEF RowsStay, Live
<1>7. UniqueOpen' /\ EstimatesFlagged'
  BY <1>2, <1>4, <1>6 DEF TInv, UniqueOpen, EstimatesFlagged
<1>8. ASSUME NEW u \in Owners \ crossed PROVE Settled(u)'
  <2>1. Settled(u)
    BY <1>2 DEF PInv, PersonOK
  <2>2. LiveOf(u)' = LiveOf(u) /\ OpenOf(u)' = OpenOf(u) /\ LiveOf(u) \subseteq Ids
    BY <1>4, <1>6 DEF LiveOf, OpenOf
  <2>3. \A i \in LiveOf(u) : /\ punch'[i].start = punch[i].start /\ punch'[i].end = punch[i].end
                             /\ punch'[i].review => punch[i].review
    BY <1>4, <2>2
  <2> QED
    BY <1>3, <2>1, <2>2, <2>3 DEF Settled, Fits, Apart
<1>9. JobOK(Idle)' /\ Idle.phase = "idle"
  BY IdleJob DEF JobOK, Idle
<1>10. (\A s \in Threads : JobOK(job[s])') /\ PInv'
  <2>1. /\ now' = now /\ crossed' = crossed /\ job[t].phase # "idle" /\ job[t].scope = Owners
    BY <1>1, <1>2, <1>3
  <2> QED
    BY <1>3, <1>6, <1>8, <1>9, <2>1, ActorStep
<1>11. TInv'
  <2>1. DOMAIN job' = Threads
    BY <1>2, <1>3 DEF TInv
  <2>2. audits' \in Nat
    <3>1. audits' = audits + 0 \/ audits' = audits + 1
      BY <1>3
    <3> QED
      BY <1>2, <3>1 DEF TInv
  <2>3. estimates' \in [Owners -> SUBSET (Instants \X (Instants \cup {MaxNow + LaborCap}))]
    <3>1. PICK X : X = Instants \X (Instants \cup {MaxNow + LaborCap})
      OBVIOUS
    <3>2. \A u \in Owners : {x \in estimates[u] : ~Touches(x, j.week)} \in SUBSET X
      BY <1>2, <3>1 DEF TInv
    <3> QED
      BY <1>3, <3>1, <3>2
  <2> QED
    BY <1>2, <1>3, <1>5, <1>7, <1>10, <2>1, <2>2, <2>3 DEF TInv
<1> QED
  BY <1>10, <1>11 DEF IInv


\* A commit writes the columns that differ from the copy on the row as it is now.
LEMMA CommitStep ==
    ASSUME IInv, NEW t \in Threads, Commit(t)
    PROVE  IInv'
<1>1. PICK j : j = job[t]
  OBVIOUS
<1>2. /\ TInv /\ PInv /\ j.phase = "write" /\ JobOK(j) /\ Writes(j) /\ j \in WriteJobs
  BY <1>1, JobKind DEF IInv, TInv, JobOK, Commit
<1>3. PICK i \in Ids, copy \in PunchRows, new \in PunchRows, u \in Owners :
        /\ i = j.id /\ copy = j.copy /\ new = j.new /\ u = copy.user
        /\ j.scope = {u}
  BY <1>2, RowFields DEF WriteJobs, Writes
<1>4. PICK p \in PunchRows : p = punch[i]
  BY <1>2, <1>3 DEF Writes, TInv
<1>5. /\ p.user = u /\ (new.end = None => copy.end = None)
      /\ (new.source # copy.source => new.source # "auto_clock_out")
      /\ (new.review => copy.review)
      /\ (new.review # copy.review => new.seen)
  BY <1>2, <1>3, <1>4 DEF Writes
<1>6. PICK m : m = Merged(p, copy, new)
  OBVIOUS
<1>7. /\ m \in PunchRows /\ m.user = u
      /\ m.start = IF new.start = copy.start THEN p.start ELSE new.start
      /\ m.end = IF new.end = copy.end THEN p.end ELSE new.end
      /\ m.source = IF new.source = copy.source THEN p.source ELSE new.source
      /\ m.review = IF new.review = copy.review THEN p.review ELSE new.review
      /\ (m.deleted <=> p.deleted \/ new.deleted)
      /\ (m.seen <=> p.seen \/ new.seen)
  BY <1>5, <1>6, MergeEffect
<1>8. PICK stopped \in BOOLEAN, leaves \in BOOLEAN :
        /\ stopped <=> j.stops # None /\ clock[u] = j.stops
        /\ leaves <=> new.deleted /\ copy.end = None /\ clock[u] # None
  OBVIOUS
<1>9. /\ UNCHANGED <<now, estimates, crossed>> /\ job' = [job EXCEPT ![t] = Idle]
      /\ audits' = audits + Audited(j)
      /\ punch' = [punch EXCEPT ![i] = m]
      /\ clock' = [clock EXCEPT ![u] = IF stopped THEN None ELSE clock[u]]
      /\ left' = IF stopped THEN left \ {u} ELSE IF leaves THEN left \cup {u} ELSE left
  <2>1. /\ UNCHANGED <<now, estimates, crossed>> /\ job' = [job EXCEPT ![t] = Idle]
        /\ audits' = audits + Audited(j)
    BY <1>1 DEF Commit
  <2>2. punch' = [punch EXCEPT ![i] = m]
    BY <1>1, <1>3, <1>4, <1>6 DEF Commit
  <2>3. /\ clock' = [clock EXCEPT ![u] = IF stopped THEN None ELSE clock[u]]
        /\ left' = IF stopped THEN left \ {u} ELSE IF leaves THEN left \cup {u} ELSE left
    BY <1>1, <1>3, <1>8 DEF Commit
  <2> QED
    BY <2>1, <2>2, <2>3
<1>10. /\ punch'[i] = m /\ \A h \in Ids \ {i} : punch'[h] = punch[h]
       /\ punch' \in [Ids -> PunchRows \cup {None}] /\ p # None /\ m # None
  BY <1>2, <1>4, <1>7, <1>9, RowFields DEF TInv
<1>11. /\ RowsStay /\ \A v \in Owners \ {u} : Spared(v)
  BY <1>4, <1>5, <1>7, <1>10 DEF RowsStay, Spared
<1>12. /\ m.end = None => p.end = None
       /\ Live' \subseteq Live
       /\ \A h \in Live' : h \in Ids
       /\ i \in Live' => ~p.deleted /\ i \in Live
  BY <1>4, <1>5, <1>7, <1>10 DEF Live
<1>13. UniqueOpen'
  <2>1. ASSUME NEW g \in Live', NEW h \in Live', punch'[g].user = punch'[h].user,
               punch'[g].end = None, punch'[h].end = None
        PROVE  g = h
    <3>1. ASSUME NEW x \in Live', punch'[x].end = None
          PROVE  x \in Live /\ punch[x].end = None /\ punch[x].user = punch'[x].user
      BY <1>4, <1>5, <1>7, <1>10, <1>12, <3>1
    <3> QED
      BY <1>2, <2>1, <3>1 DEF TInv, UniqueOpen
  <2> QED
    BY <2>1 DEF UniqueOpen
<1>14. EstimatesFlagged'
  BY <1>2, <1>4, <1>5, <1>7, <1>10, <1>12 DEF TInv, EstimatesFlagged
<1>15. ASSUME u \notin crossed PROVE Settled(u)'
  <2>1. Settled(u) /\ FreshWrite(j, u)
    BY <1>1, <1>2, <1>3, <1>15 DEF PInv, PersonOK, ScopeOf, Fresh
  <2>2. i \in LiveOf(u) /\ p = copy /\ ~p.deleted
    BY <1>3, <1>4, <2>1 DEF FreshWrite, LiveOf, Live
  <2>3. /\ m.start = new.start /\ m.end = new.end /\ m.review = new.review
        /\ (m.deleted <=> new.deleted)
    BY <1>7, <2>2
  <2>4. /\ LiveOf(u)' = IF new.deleted THEN LiveOf(u) \ {i} ELSE LiveOf(u)
        /\ LiveOf(u) \subseteq Ids
    BY <1>4, <1>5, <1>7, <1>10, <2>2, <2>3 DEF LiveOf, Live
  <2>5. ASSUME NEW h \in LiveOf(u)'
        PROVE  Fits(punch[h])' /\ (punch'[h].review => punch'[h].end # None)
    <3>1. CASE h = i
      <4>1. Fits(new) /\ (p.review => p.end # None)
        BY <1>3, <1>4, <2>1, <2>2, <2>4, <2>5, <3>1 DEF FreshWrite, Settled
      <4> QED
        BY <1>5, <1>9, <1>10, <2>2, <2>3, <3>1, <4>1 DEF Fits
    <3>2. CASE h # i
      BY <1>9, <1>10, <2>1, <2>4, <3>2 DEF Settled, Fits
    <3> QED
      BY <3>1, <3>2
  <2>6. ASSUME NEW g \in LiveOf(u)', NEW h \in LiveOf(u)', g # h
        PROVE  Apart(punch[g], punch[h])'
    <3>1. CASE g # i /\ h # i
      BY <1>9, <1>10, <2>1, <2>4, <2>6, <3>1 DEF Settled, Apart
    <3>2. CASE g = i
      <4>1. Apart(new, punch[h]) /\ punch'[h] = punch[h]
        BY <1>3, <1>10, <2>1, <2>4, <2>6, <3>2 DEF FreshWrite
      <4> QED
        BY <1>9, <1>10, <2>3, <3>2, <4>1 DEF Apart
    <3>3. CASE h = i
      <4>1. Apart(new, punch[g]) /\ punch'[g] = punch[g]
        BY <1>3, <1>10, <2>1, <2>4, <2>6, <3>3 DEF FreshWrite
      <4> QED
        BY <1>9, <1>10, <2>3, <3>3, <4>1 DEF Apart
    <3> QED
      BY <3>1, <3>2, <3>3
  <2>7. ASSUME clock'[u] # None, OpenOf(u)' = {} PROVE u \in left'
    <3>1. ~stopped /\ clock[u] # None
      BY <1>2, <1>9, <2>7 DEF TInv
    <3>2. left \subseteq left'
      BY <1>9, <3>1
    <3>3. CASE OpenOf(u) = {}
      BY <2>1, <3>1, <3>2, <3>3 DEF Settled
    <3>4. CASE OpenOf(u) # {}
      <4>1. PICK h \in LiveOf(u) : punch[h].end = None
        BY <3>4 DEF OpenOf
      <4>2. h = i
        BY <1>10, <2>4, <2>7, <4>1 DEF OpenOf
      <4>3. copy.end = None
        BY <1>4, <2>2, <4>1, <4>2
      <4>4. CASE new.deleted
        BY <1>8, <1>9, <3>1, <4>3, <4>4
      <4>5. CASE ~new.deleted
        <5>1. new.end # None
          BY <1>10, <2>2, <2>3, <2>4, <2>7, <4>5 DEF OpenOf
        <5>2. j.stops = clock[u]
          BY <1>3, <2>1, <3>1, <4>3, <5>1 DEF FreshWrite
        <5> QED
          BY <1>8, <3>1, <5>2
      <4> QED
        BY <4>4, <4>5
    <3> QED
      BY <3>3, <3>4
  <2> QED
    BY <2>5, <2>6, <2>7 DEF Settled
<1>16. JobOK(Idle)' /\ Idle.phase = "idle"
  BY IdleJob DEF JobOK, Idle
<1>17. (\A s \in Threads : JobOK(job[s])') /\ PInv'
  <2>1. /\ now' = now /\ crossed' = crossed /\ job[t].phase # "idle" /\ job[t].scope = {u}
    BY <1>1, <1>2, <1>3, <1>9
  <2>2. \A v \in Owners \ {u} : clock'[v] = clock[v] /\ (v \in left => v \in left')
    BY <1>2, <1>9 DEF TInv
  <2> QED
    BY <1>9, <1>11, <1>15, <1>16, <2>1, <2>2, ActorStep
<1>18. TInv'
  <2>1. DOMAIN job' = Threads /\ audits' \in Nat
    BY <1>2, <1>9 DEF TInv, Audited
  <2>2. clock' \in [Owners -> Instants \cup {None}] /\ left' \subseteq Owners
    BY <1>2, <1>9 DEF TInv
  <2> QED
    BY <1>2, <1>9, <1>10, <1>13, <1>14, <1>17, <2>1, <2>2 DEF TInv
<1> QED
  BY <1>17, <1>18 DEF IInv

LEMMA StutterStep ==
    ASSUME IInv, UNCHANGED vars
    PROVE  IInv'
<1>1. TInv /\ PInv /\ UNCHANGED <<now, punch, clock, estimates, job, audits, crossed, left>>
  BY DEF vars, IInv
<1>2. /\ RowsStay /\ UniqueOpen' /\ EstimatesFlagged' /\ \A u : Spared(u)
  BY <1>1, RowsUnchanged DEF TInv
<1>3. ASSUME NEW s \in Threads PROVE JobOK(job[s])'
  <2>1. PICK i : i = job[s]
    OBVIOUS
  <2>2. JobOK(i) /\ now \in Nat /\ now' = now
    BY <1>1, <2>1 DEF TInv, Instants
  <2>3. JobOK(i)'
    BY <1>2, <2>2, JobKept
  <2> QED
    BY <1>1, <2>1, <2>3
<1>4. TInv'
  BY <1>1, <1>2, <1>3 DEF TInv
<1>5. ASSUME NEW u \in Owners \ crossed PROVE PersonOK(u)'
  <2>1. PersonOK(u)
    BY <1>1 DEF PInv
  <2>2. Settled(u)'
    BY <1>1, <1>2, <2>1, SettledKept DEF PersonOK
  <2>3. ASSUME NEW s \in Threads, u \in ScopeOf(s) PROVE Fresh(job[s], u)'
    <3>1. PICK i : i = job[s]
      OBVIOUS
    <3>2. JobOK(i) /\ Fresh(i, u)
      BY <1>1, <2>1, <2>3, <3>1 DEF TInv, PersonOK
    <3>3. Fresh(i, u)'
      BY <1>1, <1>2, <3>2, FreshKept
    <3> QED
      BY <1>1, <3>1, <3>3
  <2>4. \A s \in Threads : ScopeOf(s)' = ScopeOf(s)
    BY <1>1 DEF ScopeOf
  <2> QED
    BY <2>1, <2>2, <2>3, <2>4 DEF PersonOK
<1> QED
  BY <1>1, <1>4, <1>5 DEF IInv, PInv

LEMMA Invariant == Spec => []IInv
<1>1. ASSUME IInv, [Next]_vars PROVE IInv'
  <2>1. CASE Tick
    BY <1>1, <2>1, TickStep
  <2>2. ASSUME NEW t \in Threads, Arrive(t) PROVE IInv'
    BY <1>1, <2>2, ArriveStep
  <2>3. ASSUME NEW t \in Threads, SweepCommit(t) PROVE IInv'
    BY <1>1, <2>3, SweepStep
  <2>4. ASSUME NEW t \in Threads, Look(t) PROVE IInv'
    BY <1>1, <2>4, LookStep
  <2>5. ASSUME NEW t \in Threads, Commit(t) PROVE IInv'
    BY <1>1, <2>5, CommitStep
  <2>6. ASSUME NEW t \in Threads, InsertPunch(t) PROVE IInv'
    BY <1>1, <2>6, InsertStep
  <2>7. ASSUME NEW t \in Threads, StartWork(t) PROVE IInv'
    BY <1>1, <2>7, StartWorkStep
  <2>8. ASSUME NEW t \in Threads, ReviewCommit(t) PROVE IInv'
    BY <1>1, <2>8, ReviewStep
  <2>9. ASSUME NEW u \in Owners, StopWork(u) PROVE IInv'
    BY <1>1, <2>9, StopWorkStep
  <2>10. CASE UNCHANGED vars
    BY <1>1, <2>10, StutterStep
  <2> QED
    BY <1>1, <2>1, <2>2, <2>3, <2>4, <2>5, <2>6, <2>7, <2>8, <2>9, <2>10 DEF Next
<1> QED
  BY <1>1, InitInv, PTL DEF Spec


-----------------------------------------------------------------------------
(* What a screen shows of a row *)

\* The end every read gives a row: its own, the midnight it ran into, or now.
Shown(p) == EndOr(CappedEnd(p, now), now)

LEMMA ShownEnd ==
    ASSUME TInv, NEW p \in PunchRows
    PROVE  /\ p.start \in Nat /\ now \in Nat /\ Shown(p) \in Nat /\ EndOr(p.end, now) \in Nat
           /\ MidnightAfter(p.start) \in Nat /\ MidnightAfter(p.start) # None
           /\ Shown(p) <= EndOr(p.end, now)
           /\ Fits(p) => Shown(p) <= MidnightAfter(p.start) /\ Shown(p) <= now
           /\ p.end = None => Shown(p) = IF now >= MidnightAfter(p.start)
                                         THEN MidnightAfter(p.start) ELSE now
           /\ p.end # None => Shown(p) = p.end
           /\ p.end = None => (CappedEnd(p, now) = None <=> now < MidnightAfter(p.start))
<1>1. /\ p.start \in Nat /\ now \in Nat /\ (p.end # None => p.end \in Nat)
  BY RowFields DEF TInv, Instants
<1>2. MidnightAfter(p.start) \in Nat /\ MidnightAfter(p.start) # None
  BY <1>1, Days, Constants
<1> QED
  BY <1>1, <1>2 DEF Shown, EndOr, CappedEnd, Fits

\* Shift punches hold together, however requests interleave: one open punch each, and
\* for a person no two of whose requests overlapped, no shared tick, nothing past
\* midnight and no clock without a shift (services/attendance.py).
THEOREM TimesheetIsSound == Spec => []TimesheetHolds
<1>1. ASSUME IInv PROVE TimesheetHolds
  <2>1. TInv /\ PInv
    BY <1>1 DEF IInv
  <2>2. TypeOK
    <3>1. ASSUME NEW t \in Threads
          PROVE  job[t].phase \in {"idle", "sweep", "look", "write", "insert", "start", "review"}
      <4>1. PICK j : j = job[t]
        OBVIOUS
      <4>2. j \in Jobs
        BY <2>1, <4>1 DEF TInv, JobOK
      <4>3. j.phase \in {"idle", "sweep", "look", "write", "insert", "start", "review"}
        BY <4>2 DEF Jobs, Idle, SweepJobs, LookJobs, WriteJobs, InsertJobs, StartJobs,
                    ReviewJobs
      <4> QED
        BY <4>1, <4>3
    <3> QED
      BY <2>1, <3>1 DEF TInv, TypeOK
  <2>3. OneOpenPunch
    <3>1. ASSUME NEW u \in Owners PROVE Cardinality(OpenOf(u)) <= 1
      <4>1. CASE OpenOf(u) = {}
        BY <4>1, FS_EmptySet
      <4>2. CASE OpenOf(u) # {}
        <5>1. PICK i : i \in OpenOf(u)
          BY <4>2
        <5>2. \A k \in OpenOf(u) : k = i
          BY <2>1, <5>1 DEF TInv, UniqueOpen, OpenOf, LiveOf
        <5>3. OpenOf(u) = {i}
          BY <5>1, <5>2
        <5>4. Cardinality({i}) = 1
          BY FS_Singleton, Zenon
        <5> QED
          BY <5>3, <5>4
      <4> QED
        BY <4>1, <4>2
    <3> QED
      BY <3>1 DEF OneOpenPunch
  <2>4. SoundTimesheet
    <3>1. ASSUME NEW u \in Owners \ crossed, NEW i \in LiveOf(u)
          PROVE  /\ Shown(punch[i]) <= MidnightAfter(punch[i].start) /\ Shown(punch[i]) <= now
                 /\ \A j \in LiveOf(u) \ {i} :
                      (punch[i].start .. (Shown(punch[i]) - 1)) \cap
                      (punch[j].start .. (Shown(punch[j]) - 1)) = {}
      <4>1. Settled(u)
        BY <2>1 DEF PInv, PersonOK
      <4>2. punch[i] \in PunchRows /\ Fits(punch[i])
        BY <2>1, <4>1, LiveOfRow DEF Settled
      <4>3. ASSUME NEW j \in LiveOf(u) \ {i}, NEW x \in punch[i].start .. (Shown(punch[i]) - 1),
                   x \in punch[j].start .. (Shown(punch[j]) - 1)
            PROVE  FALSE
        <5>1. punch[j] \in PunchRows /\ Apart(punch[i], punch[j])
          BY <2>1, <4>1, LiveOfRow DEF Settled
        <5>2. /\ punch[i].start \in Nat /\ Shown(punch[i]) \in Nat
              /\ EndOr(punch[i].end, now) \in Nat
              /\ Shown(punch[i]) <= EndOr(punch[i].end, now)
          BY <2>1, <4>2, ShownEnd
        <5>3. /\ punch[j].start \in Nat /\ Shown(punch[j]) \in Nat
              /\ EndOr(punch[j].end, now) \in Nat
              /\ Shown(punch[j]) <= EndOr(punch[j].end, now)
          BY <2>1, <5>1, ShownEnd
        <5> QED
          BY <4>3, <5>1, <5>2, <5>3 DEF Apart
      <4> QED
        BY <2>1, <4>2, <4>3, ShownEnd
    <3> QED
      BY <3>1 DEF SoundTimesheet, Shown
  <2>5. ClockOnShift
    BY <2>1 DEF PInv, PersonOK, Settled, ClockOnShift
  <2> QED
    BY <2>1, <2>2, <2>3, <2>4, <2>5 DEF TInv, TimesheetHolds
<1> QED
  BY <1>1, Invariant, PTL


-----------------------------------------------------------------------------
(* The pay record *)

Ticks(p) == p.start .. (Shown(p) - 1)

LEMMA PaidIs ==
    ASSUME NEW u \in Owners
    PROVE  Paid[u] = UNION {Ticks(punch[i]) : i \in LiveOf(u)}
  BY DEF Paid, Ticks, Shown

LEMMA PaidNext ==
    ASSUME NEW u \in Owners
    PROVE  Paid'[u] = UNION {Ticks(punch[i])' : i \in LiveOf(u)'}
<1>1. Paid' = [v \in Owners |-> UNION {Ticks(punch[i])' : i \in LiveOf(v)'}]
  BY DEF Paid, Ticks, Shown
<1> QED
  BY <1>1

\* Rows that show the same stretch of time pay the same.
LEMMA SamePay ==
    ASSUME NEW u \in Owners, LiveOf(u)' = LiveOf(u),
           \A i \in LiveOf(u) : Ticks(punch[i])' = Ticks(punch[i])
    PROVE  Paid'[u] = Paid[u]
<1>1. Paid'[u] = UNION {Ticks(punch[i])' : i \in LiveOf(u)'}
  BY PaidNext
<1> QED
  BY <1>1, PaidIs

LEMMA SparedPay ==
    ASSUME NEW u \in Owners, Spared(u), now' = now
    PROVE  Paid'[u] = Paid[u]
<1>1. LiveOf(u)' = LiveOf(u) /\ \A i \in LiveOf(u) : punch'[i] = punch[i]
  BY SameRows
<1>2. \A i \in LiveOf(u) : Ticks(punch[i])' = Ticks(punch[i])
  BY <1>1 DEF Ticks, Shown, CappedEnd
<1> QED
  BY <1>1, <1>2, SamePay

\* A tick of the clock pays the tick that ends to whoever is on shift.
LEMMA TickPays ==
    ASSUME IInv, Tick, NEW u \in Owners \ crossed'
    PROVE  /\ Paid'[u] = IF u \in OnShift THEN Paid[u] \cup {now} ELSE Paid[u]
           /\ u \in OnShift' => u \in OnShift
<1>1. /\ TInv /\ TInv' /\ now' = now + 1 /\ punch' = punch /\ now \in Nat
  BY TickStep DEF IInv, Tick, TInv, Instants
<1>2. Settled(u)
  BY DEF Tick, IInv, PInv, PersonOK
<1>3. LiveOf(u)' = LiveOf(u) /\ OpenOf(u)' = OpenOf(u)
  BY <1>1 DEF LiveOf, OpenOf, Live
<1>4. ASSUME NEW i \in LiveOf(u)
      PROVE  /\ Ticks(punch[i])' = IF i \in OpenOf(u) /\ CappedEnd(punch[i], now) = None
                                   THEN Ticks(punch[i]) \cup {now} ELSE Ticks(punch[i])
             /\ i \in OpenOf(u) /\ CappedEnd(punch[i], now)' = None
                  => CappedEnd(punch[i], now) = None
  <2>1. PICK p \in PunchRows : p = punch[i]
    BY <1>1, LiveOfRow
  <2>2. Fits(p)
    BY <1>2, <2>1 DEF Settled
  <2>3. /\ p.start \in Nat /\ p.start <= now /\ (p.end # None => p.end \in Nat)
        /\ MidnightAfter(p.start) \in Nat /\ MidnightAfter(p.start) # None
    BY <1>1, <2>2, ShownEnd, RowFields DEF Fits, Instants
  <2>4. CappedEnd(p, now)' = CappedEnd(p, now + 1)
    BY <1>1 DEF CappedEnd
  <2>5. CASE p.end # None
    BY <1>1, <2>1, <2>3, <2>5 DEF Ticks, Shown, CappedEnd, EndOr, OpenOf
  <2>6. CASE p.end = None /\ now >= MidnightAfter(p.start)
    BY <1>1, <2>1, <2>3, <2>6 DEF Ticks, Shown, CappedEnd, EndOr, OpenOf
  <2>7. CASE p.end = None /\ now < MidnightAfter(p.start)
    <3>1. i \in OpenOf(u) /\ CappedEnd(p, now) = None /\ Shown(p) = now
      BY <1>1, <2>1, <2>3, <2>7 DEF Shown, CappedEnd, EndOr, OpenOf
    <3>2. Shown(p)' = now + 1
      BY <1>1, <2>1, <2>3, <2>7 DEF Shown, CappedEnd, EndOr
    <3>3. p.start .. now = (p.start .. (now - 1)) \cup {now}
      BY <1>1, <2>3
    <3> QED
      BY <1>1, <2>1, <3>1, <3>2, <3>3 DEF Ticks
  <2> QED
    BY <1>1, <2>3, <2>5, <2>6, <2>7
<1>5. u \in OnShift <=> \E i \in OpenOf(u) : CappedEnd(punch[i], now) = None
  BY DEF OnShift
<1>6. u \in OnShift' <=> \E i \in OpenOf(u) : CappedEnd(punch[i], now)' = None
  BY <1>3 DEF OnShift
<1>7. Paid'[u] = UNION {Ticks(punch[i])' : i \in LiveOf(u)}
  BY <1>3, PaidNext
<1>8. OpenOf(u) \subseteq LiveOf(u)
  BY DEF OpenOf
<1>9. Paid'[u] = IF u \in OnShift THEN Paid[u] \cup {now} ELSE Paid[u]
  <2>1. Paid[u] = UNION {Ticks(punch[i]) : i \in LiveOf(u)}
    BY PaidIs
  <2>2. CASE u \in OnShift
    <3>1. PICK i \in LiveOf(u) : Ticks(punch[i])' = Ticks(punch[i]) \cup {now}
      BY <1>4, <1>5, <1>8, <2>2
    <3>2. \A h \in LiveOf(u) : \/ Ticks(punch[h])' = Ticks(punch[h]) \cup {now}
                               \/ Ticks(punch[h])' = Ticks(punch[h])
      BY <1>4
    <3> QED
      BY <1>7, <2>1, <2>2, <3>1, <3>2
  <2>3. CASE u \notin OnShift
    <3>1. \A h \in LiveOf(u) : Ticks(punch[h])' = Ticks(punch[h])
      BY <1>4, <1>5, <2>3
    <3> QED
      BY <1>7, <2>1, <2>3, <3>1
  <2> QED
    BY <2>2, <2>3
<1> QED
  BY <1>4, <1>5, <1>6, <1>8, <1>9

\* Writing a midnight down shows nothing new of the rows of a person only it is about.
LEMMA SweepShows ==
    ASSUME IInv, NEW t \in Threads, SweepCommit(t), NEW u \in Owners \ crossed,
           NEW i \in LiveOf(u)
    PROVE  \/ punch'[i] = punch[i]
           \/ /\ i \in OpenOf(u) /\ punch'[i].start = punch[i].start
              /\ punch'[i].end = MidnightAfter(punch[i].start)
              /\ MidnightAfter(punch[i].start) <= now
              /\ punch'[i].source = "auto_clock_out" /\ punch'[i].review
<1>1. /\ TInv /\ job[t].phase = "sweep" /\ i \in Ids /\ punch[i].user = u
  BY LiveOfRow DEF IInv, SweepCommit
<1>2. SUFFICES ASSUME NEW x \in job[t].rows, x[1] = i, punch'[i] = SweptRow(punch[i], x[2])
               PROVE  /\ i \in OpenOf(u) /\ punch'[i].start = punch[i].start
                      /\ punch'[i].end = MidnightAfter(punch[i].start)
                      /\ MidnightAfter(punch[i].start) <= now
                      /\ punch'[i].source = "auto_clock_out" /\ punch'[i].review
  BY <1>1, SweepEffect
<1>3. u \in ScopeOf(t)
  BY <1>1, <1>2, SweptFields DEF ScopeOf
<1>4. FreshSweep(job[t], u)
  BY <1>1, <1>3 DEF IInv, PInv, PersonOK, Fresh
<1>5. i \in OpenOf(u) /\ x[2] = punch[i].start
  BY <1>1, <1>2, <1>4 DEF FreshSweep
<1> QED
  BY <1>1, <1>2, <1>5, SweptFields

LEMMA SweepPays ==
    ASSUME IInv, NEW t \in Threads, SweepCommit(t), NEW u \in Owners \ crossed
    PROVE  Paid'[u] = Paid[u]
<1>1. TInv /\ TInv' /\ now' = now
  BY SweepStep DEF IInv, SweepCommit
<1>2. LiveOf(u)' = LiveOf(u)
  <2>1. ASSUME NEW i \in Ids
        PROVE  /\ punch'[i] = None <=> punch[i] = None
               /\ punch[i] # None => punch'[i].user = punch[i].user
                                     /\ punch'[i].deleted = punch[i].deleted
    <3>1. job[t].phase = "sweep"
      BY DEF SweepCommit
    <3> QED
      BY <1>1, <3>1, SweepEffect, SweptFields, RowFields
  <2> QED
    BY <2>1 DEF LiveOf, Live
<1>3. ASSUME NEW i \in LiveOf(u) PROVE Ticks(punch[i])' = Ticks(punch[i])
  <2>1. PICK p \in PunchRows : p = punch[i]
    BY <1>1, LiveOfRow
  <2>2. CASE punch'[i] = punch[i]
    BY <1>1, <2>2 DEF Ticks, Shown, CappedEnd
  <2>3. CASE punch'[i] # punch[i]
    <3>1. /\ p.end = None /\ punch'[i].start = p.start
          /\ punch'[i].end = MidnightAfter(p.start) /\ MidnightAfter(p.start) <= now
      BY <2>1, <2>3, SweepShows DEF OpenOf
    <3>2. /\ now \in Nat /\ MidnightAfter(p.start) \in Nat /\ MidnightAfter(p.start) # None
          /\ Shown(p) = MidnightAfter(p.start)
      BY <1>1, <3>1, ShownEnd
    <3>3. Shown(punch[i])' = MidnightAfter(p.start)
      BY <3>1, <3>2 DEF Shown, CappedEnd, EndOr
    <3> QED
      BY <2>1, <3>1, <3>2, <3>3 DEF Ticks
  <2> QED
    BY <2>2, <2>3
<1> QED
  BY <1>2, <1>3, SamePay

\* A tap that ends a shift pays what the open punch showed already.
LEMMA CommitPays ==
    ASSUME IInv, NEW t \in Threads, Commit(t), NEW u \in Owners \ crossed, ~job[t].audited
    PROVE  Paid'[u] = Paid[u]
<1>1. PICK j : j = job[t]
  OBVIOUS
<1>2. /\ TInv /\ PInv /\ j.phase = "write" /\ Writes(j) /\ j \in WriteJobs /\ now' = now
  BY <1>1, JobKind DEF IInv, TInv, JobOK, Commit
<1>3. PICK p, m : p \in PunchRows /\ p = punch[j.id] /\ m = Merged(p, j.copy, j.new)
  BY <1>2 DEF Writes, TInv, WriteJobs
<1>4. punch' = [punch EXCEPT ![j.id] = m] /\ j.id \in Ids
  BY <1>1, <1>2, <1>3 DEF Commit, WriteJobs
<1>5. /\ m \in PunchRows /\ m.user = p.user
      /\ m.start = IF j.new.start = j.copy.start THEN p.start ELSE j.new.start
      /\ m.end = IF j.new.end = j.copy.end THEN p.end ELSE j.new.end
      /\ (m.deleted <=> p.deleted \/ j.new.deleted)
  BY <1>2, <1>3, MergeEffect DEF WriteJobs
<1>6. CASE p.user # u
  <2>1. Spared(u)
    BY <1>2, <1>3, <1>4, <1>5, <1>6 DEF Spared, TInv
  <2> QED
    BY <1>2, <2>1, SparedPay
<1>7. CASE p.user = u
  <2>1. FreshWrite(j, u)
    BY <1>1, <1>2, <1>3, <1>7 DEF Writes, PInv, PersonOK, ScopeOf, Fresh
  <2>2. /\ p = j.copy /\ j.id \in LiveOf(u) /\ ~p.deleted /\ ~j.new.deleted /\ p.end = None
        /\ m.start = p.start /\ m.end = now /\ now < MidnightAfter(p.start)
    BY <1>1, <1>3, <1>5, <2>1 DEF FreshWrite, LiveOf, Live
  <2>3. /\ punch'[j.id] = m /\ \A i \in Ids \ {j.id} : punch'[i] = punch[i]
    BY <1>2, <1>4 DEF TInv
  <2>4. LiveOf(u)' = LiveOf(u) /\ LiveOf(u) \subseteq Ids
    BY <1>3, <1>5, <1>7, <2>2, <2>3, RowFields DEF LiveOf, Live
  <2>5. ASSUME NEW i \in LiveOf(u) PROVE Ticks(punch[i])' = Ticks(punch[i])
    <3>1. CASE i = j.id
      <4>1. /\ now \in Nat /\ Shown(p) = now
        BY <1>2, <1>3, <2>2, ShownEnd
      <4>2. now # None
        BY <4>1, Constants
      <4>3. Shown(punch[i])' = now
        BY <1>2, <2>2, <2>3, <3>1, <4>2 DEF Shown, CappedEnd, EndOr
      <4> QED
        BY <1>3, <2>2, <2>3, <3>1, <4>1, <4>3 DEF Ticks
    <3>2. CASE i # j.id
      BY <1>2, <2>3, <2>4, <3>2 DEF Ticks, Shown, CappedEnd
    <3> QED
      BY <3>1, <3>2
  <2> QED
    BY <2>4, <2>5, SamePay
<1> QED
  BY <1>6, <1>7

\* A punch that starts now pays nothing yet.
LEMMA InsertPays ==
    ASSUME IInv, NEW t \in Threads, InsertPunch(t), NEW u \in Owners \ crossed, ~job[t].audited
    PROVE  Paid'[u] = Paid[u]
<1>1. PICK j : j = job[t]
  OBVIOUS
<1>2. /\ TInv /\ PInv /\ j.phase = "insert" /\ Inserts(j) /\ j \in InsertJobs /\ now' = now
      /\ j.new \in PunchRows
  BY <1>1, JobKind DEF IInv, TInv, JobOK, InsertPunch, InsertJobs
<1>3. PICK i \in Free : i = Min(Free)
  <2>1. Free \in SUBSET Nat /\ Free # {}
    BY DEF Free, Ids, InsertPunch
  <2> QED
    BY <2>1, LeastIsIn
<1>4. i \in Ids /\ punch[i] = None
  BY DEF Free
<1>5. punch' = punch \/ punch' = [punch EXCEPT ![i] = j.new]
  BY <1>1, <1>3 DEF InsertPunch
<1>6. CASE punch' = punch
  BY <1>2, <1>6, RowsUnchanged, SparedPay
<1>7. CASE punch' = [punch EXCEPT ![i] = j.new] /\ j.new.user # u
  <2>1. Spared(u)
    BY <1>2, <1>4, <1>7 DEF Spared, TInv
  <2> QED
    BY <1>2, <2>1, SparedPay
<1>8. CASE punch' = [punch EXCEPT ![i] = j.new] /\ j.new.user = u
  <2>1. FreshInsert(j, u)
    BY <1>1, <1>2, <1>8 DEF Inserts, PInv, PersonOK, ScopeOf, Fresh
  <2>2. j.new.start = now /\ j.new.end = None /\ now \in Nat
    BY <1>1, <1>2, <2>1 DEF FreshInsert, TInv, Instants
  <2>3. /\ punch'[i] = j.new /\ \A h \in Ids \ {i} : punch'[h] = punch[h]
    BY <1>2, <1>4, <1>8 DEF TInv
  <2>4. LiveOf(u)' = LiveOf(u) \cup {i} /\ i \notin LiveOf(u) /\ LiveOf(u) \subseteq Ids
    BY <1>2, <1>4, <1>8, <2>3, RowFields DEF LiveOf, Live, Inserts
  <2>5. ASSUME NEW h \in LiveOf(u) PROVE Ticks(punch[h])' = Ticks(punch[h])
    BY <1>2, <2>3, <2>4 DEF Ticks, Shown, CappedEnd
  <2>6. Ticks(punch[i])' = {}
    <3>1. Shown(punch[i])' = now
      <4>1. now < MidnightAfter(now)
        BY <2>2, Days
      <4>2. ~(now >= MidnightAfter(now))
        BY <2>2, <4>1, Days
      <4> QED
        BY <1>2, <2>2, <2>3, <4>2 DEF Shown, CappedEnd, EndOr
    <3> QED
      BY <2>2, <2>3, <3>1 DEF Ticks
  <2>7. Paid'[u] = UNION {Ticks(punch[h])' : h \in LiveOf(u)'}
    BY PaidNext
  <2> QED
    BY <2>4, <2>5, <2>6, <2>7, PaidIs
<1> QED
  BY <1>5, <1>6, <1>7, <1>8


LEMMA PayStep ==
    ASSUME IInv, [Next]_vars
    PROVE  [PayRecord!Next]_(PayRecord!vars)
<1>1. ASSUME punch' = punch, now' = now, audits' = audits, crossed \subseteq crossed'
      PROVE  PayRecord!Next
  <2>1. \A u \in Owners : Paid'[u] = Paid[u]
    BY <1>1, RowsUnchanged, SparedPay
  <2> QED
    BY <1>1, <2>1 DEF PayRecord!Next, PayRecord!Punch
<1>2. ASSUME now' = now, audits' = audits, crossed' = crossed,
             \A u \in Owners \ crossed : Paid'[u] = Paid[u]
      PROVE  PayRecord!Next
  BY <1>2 DEF PayRecord!Next, PayRecord!Punch
<1>3. ASSUME now' = now, audits' > audits, crossed' = crossed PROVE PayRecord!Next
  BY <1>3 DEF PayRecord!Next, PayRecord!Correct
<1>4. TInv /\ audits \in Nat
  BY DEF IInv, TInv
<1>5. CASE Tick
  <2>1. now' = now + 1 /\ audits' = audits /\ crossed \subseteq crossed'
    BY <1>5 DEF Tick
  <2>2. OnShift' \subseteq Owners
    BY DEF OnShift
  <2>3. OnShift' \subseteq OnShift \cup crossed'
    BY <1>5, <2>2, TickPays
  <2> QED
    BY <1>5, <2>1, <2>3, TickPays DEF PayRecord!Next, PayRecord!Tick
<1>6. ASSUME NEW t \in Threads, Arrive(t) PROVE PayRecord!Next
  <2>1. crossed \subseteq crossed'
    BY <1>6 DEF Arrive
  <2> QED
    BY <1>1, <1>6, <2>1 DEF Arrive
<1>7. ASSUME NEW t \in Threads, SweepCommit(t) PROVE PayRecord!Next
  <2>1. \A u \in Owners \ crossed : Paid'[u] = Paid[u]
    BY <1>7, SweepPays
  <2> QED
    BY <1>2, <1>7, <2>1 DEF SweepCommit
<1>8. ASSUME NEW t \in Threads, Look(t) \/ StartWork(t) PROVE PayRecord!Next
  BY <1>1, <1>8 DEF Look, StartWork
<1>9. ASSUME NEW t \in Threads, Commit(t) PROVE PayRecord!Next
  <2>1. now' = now /\ crossed' = crossed /\ audits' = audits + Audited(job[t])
    BY <1>9 DEF Commit
  <2>2. CASE job[t].audited
    BY <1>3, <1>4, <2>1, <2>2 DEF Audited
  <2>3. CASE ~job[t].audited
    <3>1. \A u \in Owners \ crossed : Paid'[u] = Paid[u]
      BY <1>9, <2>3, CommitPays
    <3> QED
      BY <1>2, <1>4, <2>1, <2>3, <3>1 DEF Audited
  <2> QED
    BY <2>2, <2>3
<1>10. ASSUME NEW t \in Threads, InsertPunch(t) PROVE PayRecord!Next
  <2>1. now' = now /\ crossed' = crossed
        /\ (UNCHANGED <<punch, audits>> \/ audits' = audits + Audited(job[t]))
    BY <1>10 DEF InsertPunch
  <2>2. CASE UNCHANGED <<punch, audits>>
    BY <1>1, <2>1, <2>2
  <2>3. CASE audits' = audits + Audited(job[t]) /\ job[t].audited
    BY <1>3, <1>4, <2>1, <2>3 DEF Audited
  <2>4. CASE audits' = audits + Audited(job[t]) /\ ~job[t].audited
    <3>1. \A u \in Owners \ crossed : Paid'[u] = Paid[u]
      BY <1>10, <2>4, InsertPays
    <3> QED
      BY <1>2, <1>4, <2>1, <2>4, <3>1 DEF Audited
  <2> QED
    BY <2>1, <2>2, <2>3, <2>4
<1>11. ASSUME NEW t \in Threads, ReviewCommit(t) PROVE PayRecord!Next
  <2>1. /\ now' = now /\ crossed' = crossed
        /\ audits' = audits + (IF job[t].ids = {} THEN 0 ELSE 1)
        /\ job[t].ids = {} => punch' = [i \in Ids |-> punch[i]]
    BY <1>11 DEF ReviewCommit
  <2>2. CASE job[t].ids = {}
    <3>1. punch' = punch /\ audits' = audits
      BY <1>4, <2>1, <2>2 DEF TInv
    <3> QED
      BY <1>1, <2>1, <3>1
  <2>3. CASE job[t].ids # {}
    BY <1>3, <1>4, <2>1, <2>3
  <2> QED
    BY <2>2, <2>3
<1>12. ASSUME NEW u \in Owners, StopWork(u) PROVE PayRecord!Next
  BY <1>1, <1>12 DEF StopWork
<1>13. CASE UNCHANGED vars
  <2>1. Paid' = Paid /\ OnShift' = OnShift
    BY <1>13 DEF vars, Paid, OnShift, OpenOf, LiveOf, Live, CappedEnd
  <2> QED
    BY <1>13, <2>1 DEF vars, PayRecord!vars
<1> QED
  BY <1>5, <1>6, <1>7, <1>8, <1>9, <1>10, <1>11, <1>12, <1>13 DEF Next

LEMMA PayInit == Init => PayRecord!Init
<1> SUFFICES ASSUME Init PROVE PayRecord!Init
  OBVIOUS
<1>1. Live = {} /\ now = 0 /\ audits = 0 /\ crossed = {}
  BY DEF Init, Live
<1>2. \A u : LiveOf(u) = {} /\ OpenOf(u) = {}
  BY <1>1 DEF LiveOf, OpenOf
<1>3. OnShift = {}
  BY <1>2 DEF OnShift
<1>4. \A u \in Owners : UNION {punch[i].start .. (EndOr(CappedEnd(punch[i], now), now) - 1) :
                                i \in LiveOf(u)} = {}
  BY <1>2
<1>5. Paid = [u \in Owners |-> {}]
  BY <1>4 DEF Paid
<1> QED
  BY <1>1, <1>3, <1>5 DEF PayRecord!Init

LEMMA SweepShowsNothing ==
    ASSUME IInv, NEW t \in Threads, SweepCommit(t), crossed = {}
    PROVE  Grid' = Grid /\ OnShift' = OnShift
<1>1. TInv /\ TInv' /\ now' = now /\ job[t].phase = "sweep" /\ DOMAIN punch = Ids
  BY SweepStep DEF IInv, SweepCommit, TInv
<1>2. ASSUME NEW i \in Ids
      PROVE  /\ punch'[i] = None <=> punch[i] = None
             /\ punch[i] # None => punch'[i].user = punch[i].user
                                   /\ punch'[i].deleted = punch[i].deleted
  BY <1>1, SweepEffect, SweptFields, RowFields
<1>3. Live' = Live
  BY <1>2 DEF Live
<1>4. ASSUME NEW i \in Live
      PROVE  GridRow(i)' = GridRow(i) /\ Capped(i)' \in BOOLEAN
             /\ (punch'[i].end = None /\ CappedEnd(punch[i], now)' = None
                   <=> punch[i].end = None /\ CappedEnd(punch[i], now) = None)
  <2>1. PICK p \in PunchRows : p = punch[i] /\ p.user \in Owners \ crossed /\ i \in LiveOf(p.user)
    BY <1>1, LiveRow, RowFields DEF LiveOf
  <2>2. CASE punch'[i] = punch[i]
    BY <1>1, <2>2 DEF GridRow, Capped, CappedEnd
  <2>3. CASE punch'[i] # punch[i]
    <3>1. /\ p.end = None /\ punch'[i].start = p.start
          /\ punch'[i].end = MidnightAfter(p.start) /\ MidnightAfter(p.start) <= now
          /\ punch'[i].source = "auto_clock_out" /\ punch'[i].review
      BY <2>1, <2>3, SweepShows DEF OpenOf
    <3>2. /\ now >= MidnightAfter(p.start) /\ MidnightAfter(p.start) # None
      BY <1>1, <3>1, ShownEnd
    <3>3. CappedEnd(p, now) = MidnightAfter(p.start)
          /\ CappedEnd(punch[i], now)' = MidnightAfter(p.start)
      BY <1>1, <3>1, <3>2 DEF CappedEnd
    <3>4. Capped(i) /\ ~(Capped(i)')
      BY <2>1, <3>1, <3>2, <3>3 DEF Capped
    <3>5. (punch[i].review \/ Capped(i)) = (punch[i].review \/ Capped(i))'
      BY <3>1, <3>4, Zenon
    <3>6. punch'[i].start = punch[i].start /\ CappedEnd(punch[i], now)' = CappedEnd(punch[i], now)
      BY <2>1, <3>1, <3>3
    <3>7. (IF Capped(i) THEN "auto_clock_out" ELSE punch[i].source)'
            = IF Capped(i) THEN "auto_clock_out" ELSE punch[i].source
      BY <3>1, <3>4
    <3>8. GridRow(i)' = GridRow(i)
      BY <3>5, <3>6, <3>7, Zenon DEF GridRow
    <3>9. Capped(i)' \in BOOLEAN
      BY Zenon DEF Capped
    <3> QED
      BY <2>1, <3>1, <3>2, <3>3, <3>8, <3>9
  <2> QED
    BY <2>2, <2>3
<1>5. Grid' = Grid
  BY <1>3, <1>4 DEF Grid
<1>6. ASSUME NEW u \in Owners PROVE u \in OnShift' <=> u \in OnShift
  <2>1. LiveOf(u)' = LiveOf(u) /\ LiveOf(u) \subseteq Live
    BY <1>2, <1>3 DEF LiveOf, Live
  <2> QED
    BY <1>4, <2>1 DEF OnShift, OpenOf
<1> QED
  BY <1>5, <1>6 DEF OnShift

LEMMA ReviewLeavesNothing ==
    ASSUME IInv, NEW t \in Threads, ReviewCommit(t), crossed = {}
    PROVE  /\ \A i \in Live' : GridRow(i)'.flagged =>
                 ~Touches(<<punch'[i].start, GridRow(i)'.end>>, job[t].week)
           /\ \A u \in Owners : \A x \in estimates'[u] : ~Touches(x, job[t].week)
<1>1. PICK j : j = job[t]
  OBVIOUS
<1>2. /\ TInv /\ PInv /\ TInv' /\ j.phase = "review" /\ j.scope = Owners /\ now' = now
      /\ punch' = [i \in Ids |-> IF i \in j.ids
                   THEN [punch[i] EXCEPT !.review = FALSE, !.seen = TRUE] ELSE punch[i]]
      /\ estimates' = [u \in Owners |-> {x \in estimates[u] : ~Touches(x, j.week)}]
  <2>1. TInv /\ PInv /\ TInv'
    BY ReviewStep DEF IInv
  <2>2. /\ j.phase = "review" /\ now' = now
        /\ punch' = [i \in Ids |-> IF i \in j.ids
                     THEN [punch[i] EXCEPT !.review = FALSE, !.seen = TRUE] ELSE punch[i]]
        /\ estimates' = [u \in Owners |-> {x \in estimates[u] : ~Touches(x, j.week)}]
    BY <1>1 DEF ReviewCommit
  <2>3. j.scope = Owners
    BY <1>1, <2>1, <2>2 DEF TInv, JobOK
  <2> QED
    BY <2>1, <2>2, <2>3
<1>3. ASSUME NEW i \in Live', GridRow(i)'.flagged
      PROVE  ~Touches(<<punch'[i].start, GridRow(i)'.end>>, j.week)
  <2>1. i \in Ids /\ punch'[i] # None /\ ~punch'[i].deleted
    BY DEF Live
  <2>2. GridRow(i)'.flagged <=> punch'[i].review \/ Capped(i)'
    BY DEF GridRow
  <2>3. GridRow(i)'.end = CappedEnd(punch'[i], now)
    <3>1. GridRow(i)'.end = CappedEnd(punch[i], now)'
      BY Zenon DEF GridRow
    <3> QED
      BY <1>2, <3>1 DEF CappedEnd
  <2>4. CASE i \in j.ids
    <3>1. PICK p \in PunchRows : p = punch[i]
      <4>1. JobOK(j)
        BY <1>1, <1>2 DEF TInv
      <4>2. punch[i] # None
        BY <1>2, <2>4, <4>1 DEF JobOK
      <4>3. punch[i] \in PunchRows
        BY <1>2, <2>1, <4>2 DEF TInv
      <4> QED
        BY <4>3
    <3>2. LET m == [p EXCEPT !.review = FALSE, !.seen = TRUE] IN
          ~m.review /\ m.start = p.start /\ m.end = p.end /\ m.deleted = p.deleted
      BY DEF PunchRows
    <3>3. /\ ~punch'[i].review /\ punch'[i].start = p.start /\ punch'[i].end = p.end
          /\ punch'[i].deleted = p.deleted
      BY <1>2, <2>1, <2>4, <3>1, <3>2
    <3>4. p.end = None /\ CappedEnd(p, now) # None
      BY <1>2, <2>2, <1>3, <3>3 DEF Capped, CappedEnd
    <3>5. FALSE
      <4>1. i \in j.ids /\ i \in LiveOf(p.user) /\ p.user \in Owners \ crossed
        BY <2>1, <2>4, <3>1, <3>3, RowFields DEF LiveOf, Live
      <4>2. FreshReview(j, p.user)
        BY <1>1, <1>2, <4>1 DEF PInv, PersonOK, ScopeOf, Fresh
      <4> QED
        BY <3>1, <3>4, <4>1, <4>2 DEF FreshReview
    <3> QED
      BY <3>5
  <2>5. CASE i \notin j.ids
    <3>1. punch'[i] = punch[i] /\ i \in Live
      BY <1>2, <2>1, <2>5 DEF Live
    <3>2. PICK p \in PunchRows : /\ p = punch[i] /\ p.user \in Owners \ crossed
                                 /\ i \in LiveOf(p.user) /\ p.start \in Nat /\ now \in Nat
      <4>1. punch[i] \in PunchRows
        BY <1>2, <3>1, LiveRow
      <4>2. punch[i].user \in Owners /\ punch[i].start \in Nat /\ now \in Nat
        BY <1>2, <4>1, RowFields, ShownEnd
      <4>3. i \in LiveOf(punch[i].user)
        BY <3>1 DEF LiveOf
      <4> QED
        BY <4>1, <4>2, <4>3
    <3>3. /\ Settled(p.user) /\ FreshReview(j, p.user)
      BY <1>1, <1>2, <3>2 DEF PInv, PersonOK, ScopeOf, Fresh
    <3>4. ~(Capped(i)')
      <4>1. SUFFICES ASSUME p.end = None, CappedEnd(p, now) # None PROVE FALSE
        BY <1>2, <3>1, <3>2 DEF Capped, CappedEnd
      <4>2. i \in OpenOf(p.user) /\ MidnightAfter(p.start) <= now
        <5>1. i \in OpenOf(p.user)
          BY <3>2, <4>1 DEF OpenOf
        <5>2. ~(now < MidnightAfter(p.start)) /\ MidnightAfter(p.start) \in Nat
          BY <1>2, <3>2, <4>1, ShownEnd
        <5> QED
          BY <3>2, <5>1, <5>2
      <4>3. DayStart(now) <= p.start /\ p.start < DayStart(now) /\ DayStart(now) \in Nat
        BY <3>2, <3>3, <4>2, Midnights, Days DEF FreshReview, SweptOf
      <4> QED
        BY <3>2, <4>3
    <3>5. p.review /\ p.end # None
      BY <1>3, <2>2, <3>1, <3>2, <3>3, <3>4 DEF Settled
    <3>6. ~(p.start < WindowEnd(j.week) /\ p.end > WindowStart(j.week))
      BY <2>5, <3>2, <3>3, <3>5 DEF FreshReview
    <3>7. GridRow(i)'.end = p.end
      BY <2>3, <3>1, <3>2, <3>5 DEF CappedEnd
    <3> QED
      BY <3>1, <3>2, <3>6, <3>7 DEF Touches
  <2> QED
    BY <2>4, <2>5
<1> QED
  BY <1>1, <1>2, <1>3

\* The rows implement the pay record Timesheet step by step: what a person is paid for
\* changes only with time on shift or with an audit row; the midnight sweep shows nothing
\* new; a review leaves nothing of its week flagged (services/attendance.py).
THEOREM RecordIsKept == Spec => RecordStands
<1>1. Init => PayRecord!Init
  BY PayInit
<1>2. IInv /\ [Next]_vars => [PayRecord!Next]_(PayRecord!vars)
  BY PayStep
<1>3. IInv /\ [Next]_vars =>
        [\A t \in Threads :
           SweepCommit(t) /\ crossed = {} => Grid' = Grid /\ OnShift' = OnShift]_vars
  BY SweepShowsNothing
<1>4. IInv /\ [Next]_vars =>
        [\A t \in Threads : ReviewCommit(t) /\ crossed = {} =>
           LET reviewed == job[t].week IN
           /\ \A i \in Live' : GridRow(i)'.flagged =>
                ~Touches(<<punch'[i].start, GridRow(i)'.end>>, reviewed)
           /\ \A u \in Owners : \A x \in estimates'[u] : ~Touches(x, reviewed)]_vars
  BY ReviewLeavesNothing
<1> QED
  BY <1>1, <1>2, <1>3, <1>4, Invariant, PTL
     DEF Spec, PayRecord!Spec, KeepsPayRecord, SweepInvisible, ReviewClearsWeek, RecordStands

=============================================================================
