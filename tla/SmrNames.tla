-------------------------------- MODULE SmrNames --------------------------------
(***************************************************************************)
(* Naming the generic vendor-crew lines of one week and vendor from the    *)
(* invoice: each unit of a crew line goes to the invoiced name with the    *)
(* most unused hours, as a charged line of its own for the worker of that  *)
(* name, under the run's tag; a run can be undone by its tag.  An invoice  *)
(* may spell one worker in several ways.                                   *)
(***************************************************************************)
EXTENDS Naturals, FiniteSets, Sequences, SequencesExt, Functions

CONSTANTS Crews,        \* the crew lines, as imported
          Heads, Each,  \* their headcount and their hours a head
          Names,        \* the names on invoices
          WorkerOf,     \* whose name each is, by display name or alias (match_worker)
          MaxRuns, MaxHours,   \* bounds on runs and on a name's invoiced hours
          AnyRun        \* whether a run is undone while a newer one stands

Runs == 1..MaxRuns
People == {WorkerOf[n] : n \in Names}
Spellings(w) == {n \in Names : WorkerOf[n] = w}

VARIABLES
    crew,       \* headcount and status of each crew line
    named,      \* the charged lines each run made, by crew line and name
    log,        \* what each run wrote of a crew line in its history
    invoiced,   \* the hours invoiced to each name
    run         \* runs so far

vars == <<crew, named, log, invoiced, run>>

None3 == [c \in Crews |-> [n \in Names |-> 0]]
Unlogged == [c \in Crews |-> [field |-> "none", old |-> 0]]

TypeOK ==
    /\ crew \in [Crews -> [heads : Nat, charged : BOOLEAN]]
    /\ named \in [Runs -> [Crews -> [Names -> Nat]]]
    /\ log \in [Runs -> [Crews -> [field : {"none", "headcount", "status"}, old : Nat]]]
    /\ invoiced \in [Names -> 0..MaxHours] /\ run \in 0..MaxRuns

Init ==
    /\ crew = [c \in Crews |-> [heads |-> Heads[c], charged |-> TRUE]]
    /\ named = [r \in Runs |-> None3] /\ log = [r \in Runs |-> Unlogged]
    /\ invoiced \in [Names -> 0..MaxHours] /\ run = 0

Plus(f) == FoldFunction(LAMBDA x, sum : x + sum, 0, f)

\* An invoice uploaded again, with more or fewer hours for a name.
Invoice ==
    /\ \E n \in Names, h \in 0..MaxHours : invoiced' = [invoiced EXCEPT ![n] = h]
    /\ UNCHANGED <<crew, named, log, run>>

-----------------------------------------------------------------------------
\* The hours on lines of a worker, under whichever of his names.
Used(w) == Plus([r \in Runs |-> Plus([c \in Crews |-> Plus([n \in Spellings(w) |-> named[r][c][n]]) * Each[c]])])

\* by_worker: one spelling of each worker, the last of a query with no order; the
\* invoices of other weeks may have brought it in.
Kept == {s \in [People -> Names] : \A w \in People : WorkerOf[s[w]] = w}

\* What a worker has used is taken from the spelling kept of him, from no other.
Room(spelling) ==
    [n \in Names |->
        LET used == IF spelling[WorkerOf[n]] = n THEN Used(WorkerOf[n]) ELSE 0
        IN IF invoiced[n] > used THEN invoiced[n] - used ELSE 0]

\* The units of the charged crew lines, the lines of the longest days first.
Order == SetToSortSeq({c \in Crews : crew[c].charged}, LAMBDA a, b : Each[a] >= Each[b])
Units == FlattenSeq([i \in 1..Len(Order) |-> [k \in 1..crew[Order[i]].heads |-> Order[i]]])

HasRoom(room, n, c) == room[n] >= Each[c]

\* One unit: to the name with the most room left, to nobody when none has room
\* for the whole of it.
Give(c, acc) ==
    LET able == {n \in Names : HasRoom(acc.room, n, c)}
        n == CHOOSE m \in able : \A o \in able : acc.room[o] <= acc.room[m]
    IN IF able = {} THEN acc
       ELSE [room |-> [acc.room EXCEPT ![n] = IF @ > Each[c] THEN @ - Each[c] ELSE 0],
             given |-> [acc.given EXCEPT ![c][n] = @ + 1]]

Given(room) == FoldLeft(LAMBDA acc, c : Give(c, acc), [room |-> room, given |-> None3], Units).given

\* The original keeps the unnamed units, or is removed when there are none.
Remaining(c, units) ==
    IF units = crew[c].heads THEN [crew[c] EXCEPT !.charged = FALSE]
    ELSE [crew[c] EXCEPT !.heads = @ - units]

Logged(c, units) ==
    CASE units = 0                          -> [field |-> "none", old |-> 0]
      [] units # 0 /\ units = crew[c].heads -> [field |-> "status", old |-> 0]
      [] OTHER                              -> [field |-> "headcount", old |-> crew[c].heads]

\* fill_invoice_names: one transaction.
Fill ==
    /\ run < MaxRuns /\ run' = run + 1
    /\ \E spelling \in Kept :
          LET given == Given(Room(spelling))
              units == [c \in Crews |-> IF crew[c].charged THEN Plus(given[c]) ELSE 0]
          IN /\ named' = [named EXCEPT ![run + 1] = given]
             /\ crew' = [c \in Crews |-> IF units[c] = 0 THEN crew[c] ELSE Remaining(c, units[c])]
             /\ log' = [log EXCEPT ![run + 1] = [c \in Crews |-> Logged(c, units[c])]]
    /\ UNCHANGED invoiced

\* What one history row of the run puts back.
Restored(c, entry) ==
    CASE entry.field = "headcount" -> [crew[c] EXCEPT !.heads = entry.old]
      [] entry.field = "status"    -> [crew[c] EXCEPT !.charged = TRUE]
      [] OTHER                     -> crew[c]

\* undo_invoice_names: the created lines are removed, the originals restored.
\* The history stays, so a tag can be undone again.
Undo ==
    /\ \E r \in 1..run :
          /\ AnyRun \/ \A s \in r + 1 .. run : named[s] = None3
          /\ named' = [named EXCEPT ![r] = None3]
          /\ crew' = [c \in Crews |-> Restored(c, log[r][c])]
    /\ UNCHANGED <<log, invoiced, run>>

Next == Invoice \/ Fill \/ Undo
Spec == Init /\ [][Next]_vars

-----------------------------------------------------------------------------
Charged ==
    Plus([c \in Crews |-> IF crew[c].charged THEN crew[c].heads * Each[c] ELSE 0])
      + Plus([r \in Runs |-> Plus([c \in Crews |-> Plus(named[r][c]) * Each[c]])])

\* Naming hours and taking the names back neither adds nor loses an hour that
\* the client is charged.
HoursAreKept == Charged = Plus([c \in Crews |-> Heads[c] * Each[c]])

InvoicedTo(w) == Plus([n \in Spellings(w) |-> invoiced[n]])

\* A run names a worker beyond the hours invoiced to him only if some were already
\* named to him and the invoices spell him in several ways, and not even then by
\* more than they invoice: otherwise rooms are what a worker has left.
RunFitsInvoice ==
    [][Fill => \A w \in People :
          Used(w)' > Used(w) =>
              Used(w)' <= InvoicedTo(w) + (IF Cardinality(Spellings(w)) > 1 THEN Used(w) ELSE 0)]_vars

\* Stated by the repository and not kept by the code (README, Disagreements).
\* "Room = the name's invoiced hours in the week minus hours already on lines
\* naming that person there": a run names nobody beyond the hours invoiced to him.
NamesFitInvoice ==
    [][Fill => \A w \in People : Used(w)' > Used(w) => Used(w)' <= InvoicedTo(w)]_vars
==================================================================================
