--------------------------- MODULE WorkOrderImport ---------------------------
(***************************************************************************)
(* How work orders come to exist and what may overwrite them: the CSV      *)
(* import, the references that fill in blanks, and the edits, archives,    *)
(* restores and renumberings that run beside it.  An import reads the      *)
(* supervisors once, then takes its rows one by one: an unlocked lookup of *)
(* the number, then the locked find-or-create, each row a commit.  The     *)
(* insert that loses the race for a number re-locks the winner and merges  *)
(* into it, so find-or-create is one step.                                 *)
(***************************************************************************)
EXTENDS Naturals, Sequences, FiniteSets

CONSTANTS Rows,         \* work_orders rows: the bound on creations
          Numbers, Tasks, Places, Supervisors, Workers, Threads, None,
          NameOf,       \* the name of each supervisor, as CSV files spell it
          Files,        \* per thread, the CSV it imports: a sequence of rows
          Ops           \* the other endpoints in use

VARIABLES
    row,        \* the work orders
    active,     \* the supervisors who may be routed to
    job         \* per thread, its import

vars == <<row, active, job>>

Link(n) == <<"link", n>>
TaskOf(x) == <<"task", x>>
Blank == <<"blank", None>>

NoRow == [number |-> None, live |-> FALSE, task |-> Blank, place |-> None, sup |-> None,
          crew |-> {}, by |-> None]
NoJob == [next |-> 0, existed |-> FALSE, looked |-> FALSE, route |-> [x \in {} |-> None],
          created |-> {}]

OrderRows == [number : Numbers \cup {None}, live : BOOLEAN,
              task : {Blank} \cup {Link(n) : n \in Numbers} \cup {TaskOf(x) : x \in Tasks},
              place : Places \cup {None}, sup : Supervisors \cup {None},
              crew : SUBSET Workers, by : Threads \cup {None}]

TypeOK ==
    /\ row \in [Rows -> OrderRows]
    /\ active \subseteq Supervisors
    /\ \A t \in Threads : job[t].created \subseteq Numbers

Init ==
    /\ row = [r \in Rows |-> NoRow] /\ active = Supervisors
    /\ job = [t \in Threads |-> NoJob]

-----------------------------------------------------------------------------
\* Rules.

\* A number is one work order's, archived ones included.
Named(n) == {r \in Rows : row[r].number = n}

\* The unique index on the normalized number.
Free(n) == Named(n) = {}

\* Names that single out one active supervisor.
Lookup ==
    [nm \in {NameOf[s] : s \in Supervisors} |->
        LET who == {s \in active : NameOf[s] = nm}
        IN IF Cardinality(who) = 1 THEN CHOOSE s \in who : TRUE ELSE None]
RouteOf(t, c) == IF c.vendor = None THEN None ELSE job[t].route[c.vendor]

\* Seeded fault: any link counts as generated, whatever number it was made for.
Generated_AnyLink(x, n) == x[1] = "link"

\* The task is the link generated for the number the row has now.
Generated(x, n) == x = Link(n)

Given(c) == IF c.task = None THEN Link(c.number) ELSE TaskOf(c.task)

\* Fill blanks; a real task also replaces the generated link.
TaskAfter(r, c) ==
    IF row[r].task = Blank \/ (c.task # None /\ Generated(row[r].task, row[r].number))
    THEN Given(c) ELSE row[r].task

Routed(r, s) == IF row[r].sup = None THEN s ELSE row[r].sup

Merged(r, c, s) ==
    [row[r] EXCEPT !.task = TaskAfter(r, c),
                   !.place = IF @ = None THEN c.place ELSE @,
                   !.sup = Routed(r, s)]
New(c, s, t) == [NoRow EXCEPT !.number = c.number, !.live = TRUE, !.task = Given(c),
                              !.place = c.place, !.sup = s, !.by = t]

-----------------------------------------------------------------------------
\* The import.

Begin(t) ==
    /\ job[t].next = 0 /\ "import" \in Ops[t]
    /\ job' = [job EXCEPT ![t] = [NoJob EXCEPT !.next = 1, !.route = Lookup]]
    /\ UNCHANGED <<row, active>>

Current(t) == Files[t][job[t].next]
Done(j, n) == [j EXCEPT !.looked = FALSE, !.existed = FALSE, !.next = n]
After(t) == IF job[t].next = Len(Files[t]) THEN 0 ELSE job[t].next + 1

Skip(t) ==
    /\ job[t].next # 0 /\ Current(t).number = None
    /\ job' = [job EXCEPT ![t] = Done(@, After(t))]
    /\ UNCHANGED <<row, active>>

\* The unlocked lookup: is there such a number, and is it archived?
Look(t) ==
    LET n == Current(t).number
        hit == Named(n) IN
    /\ job[t].next # 0 /\ n # None /\ ~job[t].looked
    /\ job' = [job EXCEPT ![t] = IF \E r \in hit : ~row[r].live
                                 THEN Done(@, After(t))
                                 ELSE [@ EXCEPT !.looked = TRUE, !.existed = (hit # {})]]
    /\ UNCHANGED <<row, active>>

\* An archived match is returned as it is.
Untouched(r) == ~row[r].live

\* The supervisor the file names was fit to route to when the import began.
Unfit(t, c, r) ==
    /\ RouteOf(t, c) \notin active \cup {None}
    /\ r = None \/ \A x \in Rows \cap {r} : row[x].sup = None

\* A row the lookup did not find counts as created, and its supervisor is told.
Counted(t, c) ==
    [Done(job[t], After(t)) EXCEPT !.created = IF job[t].existed THEN @ ELSE @ \cup {c.number}]

Ready(t) == job[t].next # 0 /\ job[t].looked

Merge(t) ==
    /\ Ready(t)
    /\ \E r \in Named(Current(t).number) :
          LET c == Current(t) IN
          IF Untouched(r)
          THEN /\ job' = [job EXCEPT ![t] = Done(@, After(t))]
               /\ UNCHANGED row
          ELSE /\ ~Unfit(t, c, r)
               /\ row' = [row EXCEPT ![r] = Merged(r, c, RouteOf(t, c))]
               /\ job' = [job EXCEPT ![t] = Counted(t, c)]
    /\ UNCHANGED active

Create(t) ==
    /\ Ready(t) /\ Free(Current(t).number)
    /\ LET c == Current(t) IN
       /\ ~Unfit(t, c, None)
       /\ \E r \in Named(None) : row' = [row EXCEPT ![r] = New(c, RouteOf(t, c), t)]
       /\ job' = [job EXCEPT ![t] = Counted(t, c)]
    /\ UNCHANGED active

\* A supervisor gone since the import began stops it; the rows before stay.
Abort(t) ==
    /\ Ready(t)
    /\ \E r \in Named(Current(t).number) \cup {None} :
          /\ r = None => Free(Current(t).number)
          /\ r # None => row[r].live
          /\ Unfit(t, Current(t), r)
    /\ job' = [job EXCEPT ![t] = Done(@, 0)]
    /\ UNCHANGED <<row, active>>

-----------------------------------------------------------------------------
\* The other endpoints, each one locked step.

At(t, op) == op \in Ops[t] /\ job[t].next = 0
Put(r, x) == row' = [row EXCEPT ![r] = x] /\ UNCHANGED <<active, job>>

\* Scan-and-go and Mass Stage attach to a live number, filling blanks.
Resolve(t, r, u, p) ==
    /\ At(t, "resolve") /\ row[r].live
    /\ LET C == IF row[r].crew = {} THEN {u} ELSE row[r].crew
       IN Put(r, [row[r] EXCEPT !.place = IF @ = None THEN p ELSE @, !.crew = C])

Edit(t, r, x) == At(t, "edit") /\ row[r].live /\ Put(r, [row[r] EXCEPT !.task = TaskOf(x)])
Route(t, r, s) ==
    At(t, "route") /\ row[r].live /\ s \in active \cup {None} /\ Put(r, [row[r] EXCEPT !.sup = s])
Renumber(t, r, n) ==
    At(t, "renumber") /\ row[r].live /\ Free(n) /\ Put(r, [row[r] EXCEPT !.number = n])
Archive(t, r) == At(t, "archive") /\ row[r].live /\ Put(r, [row[r] EXCEPT !.live = FALSE])
Restore(t, r) ==
    /\ At(t, "restore") /\ row[r].number # None /\ ~row[r].live
    /\ Put(r, [row[r] EXCEPT !.live = TRUE])

\* A supervisor is archived, or given another role; and back.
Leave(t, s) ==
    /\ At(t, "leave")
    /\ active' = IF s \in active THEN active \ {s} ELSE active \cup {s}
    /\ UNCHANGED <<row, job>>

Next ==
    \E t \in Threads :
        \/ Begin(t) \/ Skip(t) \/ Look(t) \/ Merge(t) \/ Create(t) \/ Abort(t)
        \/ \E r \in Rows :
              \/ \E u \in Workers, p \in Places : Resolve(t, r, u, p)
              \/ \E x \in Tasks : Edit(t, r, x)
              \/ \E s \in Supervisors \cup {None} : Route(t, r, s)
              \/ \E n \in Numbers : Renumber(t, r, n)
              \/ Archive(t, r) \/ Restore(t, r)
        \/ \E s \in Supervisors : Leave(t, s)

Spec == Init /\ [][Next]_vars

-----------------------------------------------------------------------------
\* Properties.

\* No two work orders, archived ones included, ever carry one number.
OneNumber == \A r, q \in Rows : row[r].number = row[q].number /\ row[r].number # None => r = q

Imports(t) == job'[t] # job[t]

\* An import leaves what a person wrote: it fills blanks, and the only value it
\* replaces is the link generated for the row's own number, by a real task.
EditsSurviveImport ==
    [][\A t \in Threads, r \in Rows : Imports(t) =>
          /\ row[r].place # None => row'[r].place = row[r].place
          /\ row[r].task \notin {Blank, Link(row[r].number)} => row'[r].task = row[r].task
          /\ row[r].number # None => row'[r].task[1] # "link" \/ row'[r].task = row[r].task]_vars

\* An archived work order is untouched by every import, whatever the import saw
\* when it looked.
ArchivedUntouched ==
    [][\A t \in Threads, r \in Rows :
          Imports(t) /\ row[r].number # None /\ ~row[r].live => row'[r] = row[r]]_vars

\* An import never takes a work order from the supervisor it is routed to.
RoutingStands ==
    [][\A t \in Threads, r \in Rows :
          Imports(t) /\ row[r].sup # None => row'[r].sup = row[r].sup]_vars

\* Stated by the repository and not kept by the code (README, Disagreements).
\* An import counts as created, and tells supervisors of, only the work orders
\* it created itself.
ImportCountsOnce ==
    \A t \in Threads : \A n \in job[t].created, r \in Rows : row[r].number = n => row[r].by = t
=============================================================================
