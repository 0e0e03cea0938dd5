---------------------------- MODULE WeeklyExport ----------------------------
(***************************************************************************)
(* The weekly sheet of dispensed items: services/dispense_export_xlsx.py.  *)
(* An export's window starts where the latest window ends and ends when    *)
(* the request began; the sheet prints the dispenses whose created_at lies *)
(* in it.  created_at is stamped when the row is flushed, and the row is   *)
(* visible when its transaction commits.                                   *)
(***************************************************************************)
EXTENDS Integers, FiniteSets, FiniteSetsExt

CONSTANTS Threads, Dispenses, None, MaxNow, MaxSheets

VARIABLES now,
          created,  \* created_at of each dispense, or None
          committed,\* when its transaction committed, or None
          voided,
          sheets,   \* dispense_exports, with what each sheet printed
          job

vars == <<now, created, committed, voided, sheets, job>>

Idle == [phase |-> "idle"]
Committed == {d \in Dispenses : committed[d] # None}

SheetRows == [start : 0 .. MaxNow, end : 0 .. MaxNow, by : Threads,
              printed : {None} \cup SUBSET Dispenses]

TypeOK ==
    /\ now \in 0 .. MaxNow
    /\ \A d \in Dispenses : {created[d], committed[d]} \subseteq 0 .. MaxNow \cup {None}
    /\ voided \subseteq Committed
    /\ sheets \subseteq SheetRows

Init ==
    /\ now = 0
    /\ created = [d \in Dispenses |-> None]
    /\ committed = [d \in Dispenses |-> None]
    /\ voided = {}
    /\ sheets = {}
    /\ job = [t \in Threads |-> Idle]

Tick == now < MaxNow /\ now' = now + 1 /\ UNCHANGED <<created, committed, voided, sheets, job>>

\* A dispense is flushed at one instant and committed at that one or later.
Flush(d) ==
    /\ created[d] = None
    /\ created' = [created EXCEPT ![d] = now]
    /\ UNCHANGED <<now, committed, voided, sheets, job>>

CommitDispense(d) ==
    /\ created[d] # None /\ committed[d] = None
    /\ committed' = [committed EXCEPT ![d] = now]
    /\ UNCHANGED <<now, created, voided, sheets, job>>

Void(d) ==
    /\ d \in Committed \ voided
    /\ voided' = voided \cup {d}
    /\ UNCHANGED <<now, created, committed, sheets, job>>

\* Seeded fault: it starts one instant after the latest end.
LatestEnd_Gap(s) == IF s = {} THEN 0 ELSE Max({w.end : w \in s}) + 1

LatestEnd(s) == IF s = {} THEN 0 ELSE Max({w.end : w \in s})

InWindow(at, w) == w.start <= at /\ at < w.end

\* create_export: read the latest, commit the run, render it.
Start(t) ==
    /\ job[t].phase = "idle" /\ Cardinality(sheets) < MaxSheets
    /\ job' = [job EXCEPT ![t] =
         [phase |-> "commit", start |-> LatestEnd(sheets), end |-> now]]
    /\ UNCHANGED <<now, created, committed, voided, sheets>>

CommitRun(t) ==
    /\ job[t].phase = "commit"
    /\ sheets' = sheets \cup {[start |-> job[t].start, end |-> job[t].end, by |-> t,
                               printed |-> None]}
    /\ job' = [job EXCEPT ![t].phase = "render"]
    /\ UNCHANGED <<now, created, committed, voided>>

Printable(w) == {d \in Committed \ voided : InWindow(created[d], w)}

Render(t) ==
    /\ job[t].phase = "render"
    /\ sheets' = {IF w.by = t /\ w.printed = None THEN [w EXCEPT !.printed = Printable(w)]
                  ELSE w : w \in sheets}
    /\ job' = [job EXCEPT ![t] = Idle]
    /\ UNCHANGED <<now, created, committed, voided>>

Next == \/ Tick
        \/ \E d \in Dispenses : Flush(d) \/ CommitDispense(d) \/ Void(d)
        \/ \E t \in Threads : Start(t) \/ CommitRun(t) \/ Render(t)

Spec == Init /\ [][Next]_vars

-----------------------------------------------------------------------------
(* Properties.                                                             *)

SheetsOf(d) == {w \in sheets : w.printed # None /\ d \in w.printed}
Rendered == \A t \in Threads : job[t].phase = "idle"

\* Whatever exports overlap: a dispense committed before the window over it
\* closed is on a sheet, and a void takes it off only sheets printed later.
NothingSkipped ==
    Rendered => \A d \in Committed \ voided :
        LET over == {w \in sheets : w.end > created[d]} IN
        over # {} /\ (\A w \in over : committed[d] < w.end) => SheetsOf(d) # {}

\* Stated by the repository and not kept by the code (README, Disagreements).
\* "Every dispense lands on exactly one sheet" (models.py:1245).
PrintedOnce ==
    Rendered => \A d \in Committed \ voided :
        created[d] < LatestEnd(sheets) => Cardinality(SheetsOf(d)) = 1
=============================================================================
