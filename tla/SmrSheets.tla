------------------------------- MODULE SmrSheets -------------------------------
(***************************************************************************)
(* The Owner's uploads that make and feed SMR orders: the vendor sheet     *)
(* (an order per Closed row and a baseline frozen once), the client's      *)
(* Breakdown (targets), the reviewed paper (readings and lines, and the    *)
(* orders the app never had), and the vendor invoices.  Uploads may run at *)
(* the same time, people edit and archive the orders meanwhile, and the    *)
(* process may restart under an upload, which is then sent again.          *)
(***************************************************************************)
EXTENDS Naturals, FiniteSets, Sequences

CONSTANTS Owners,       \* uploads in flight at once
          Uploads,      \* what each of them sends
          Numbers, None,
          Sheet,        \* the vendor sheet: rows of a number (None when blank) and closed
          Paper,        \* the numbers the reviewed paper has a reading and its lines of
          Breakdown,    \* the numbers the Breakdown has a row of
          MaxEdits, MaxUploads, MaxCrashes   \* bounds

\* `work` counts the edits of what is billed; a baseline is the count it froze.
OrderRows == [made : {"app", "sheet", "paper"}, live : BOOLEAN, smr : BOOLEAN,
              baseline : 0..MaxEdits \cup {None}, work : 0..MaxEdits, target : BOOLEAN]

VARIABLES
    order,      \* the orders; None for a number nobody created
    paper,      \* the lines of each number: None, "imported" or "edited"
    invoices,   \* the uploads whose rows the one vendor invoice has
    up,         \* each upload: its step and what it read
    edits, uploads, crashes

vars == <<order, paper, invoices, up, edits, uploads, crashes>>

Idle == [pc |-> "idle"]

TypeOK ==
    /\ order \in [Numbers -> OrderRows \cup {None}]
    /\ paper \in [Numbers -> {None, "imported", "edited"}]
    /\ invoices \in SUBSET (1..MaxUploads)
    /\ edits \in 0..MaxEdits /\ uploads \in 0..MaxUploads /\ crashes \in 0..MaxCrashes
    /\ \A t \in Owners :
          up[t].pc \in {"idle", "row", "merge", "mark", "shell", "shellmark", "lines", "targets", "replace"}

\* Numbers the app knows already, from the mass import.
New(made) == [made |-> made, live |-> TRUE, smr |-> FALSE, baseline |-> None, work |-> 0, target |-> FALSE]
Init ==
    /\ \E known \in SUBSET Numbers, live \in BOOLEAN :
          order = [n \in Numbers |-> IF n \in known THEN [New("app") EXCEPT !.live = live] ELSE None]
    /\ paper = [n \in Numbers |-> None] /\ invoices = {}
    /\ up = [t \in Owners |-> Idle] /\ edits = 0 /\ uploads = 0 /\ crashes = 0

Known(n) == order[n] # None
Smr(n) == Known(n) /\ order[n].smr

Goto(t, next) == up' = [up EXCEPT ![t] = next]
Send(t, what) ==
    /\ up[t] = Idle /\ what \in Uploads[t] /\ uploads < MaxUploads
    /\ uploads' = uploads + 1

-----------------------------------------------------------------------------
\* Meanwhile: an edit of what an order bills, an archive or a restore, and an
\* edit of an imported line.

Edit(n) ==
    /\ edits < MaxEdits /\ edits' = edits + 1 /\ Known(n)
    /\ \/ order[n].live /\ order' = [order EXCEPT ![n].work = @ + 1]
       \/ order' = [order EXCEPT ![n].live = ~@]
    /\ UNCHANGED <<paper, invoices, up, uploads, crashes>>

EditLine(n) ==
    /\ edits < MaxEdits /\ edits' = edits + 1
    /\ paper[n] = "imported" /\ paper' = [paper EXCEPT ![n] = "edited"]
    /\ UNCHANGED <<order, invoices, up, uploads, crashes>>

\* The process restarts: what was not committed is gone.
Crash ==
    /\ crashes < MaxCrashes /\ crashes' = crashes + 1
    /\ up' = [t \in Owners |-> Idle]
    /\ UNCHANGED <<order, paper, invoices, edits, uploads>>

-----------------------------------------------------------------------------
\* The vendor sheet, one row at a time.

SendSheet(t) ==
    /\ Send(t, "sheet") /\ Goto(t, [pc |-> "row", left |-> Sheet])
    /\ UNCHANGED <<order, paper, invoices, edits, crashes>>

\* Look the number up without a lock; blank and canceled rows are skipped.
Row(t) ==
    /\ up[t].pc = "row"
    /\ LET row == Head(up[t].left)
           skip == row.number = None \/ ~row.closed
       IN \/ up[t].left = <<>> /\ Goto(t, Idle)
          \/ up[t].left # <<>> /\ skip /\ Goto(t, [up[t] EXCEPT !.left = Tail(@)])
          \/ /\ up[t].left # <<>> /\ ~skip
             /\ Goto(t, [pc |-> "merge", left |-> Tail(up[t].left), number |-> row.number,
                         restore |-> Known(row.number) /\ ~order[row.number].live])
    /\ UNCHANGED <<order, paper, invoices, edits, uploads, crashes>>

\* get_or_create_work_order: insert it, or merge into the locked row; a row read
\* as archived is restored in the same commit.
Created(n, made, restore) ==
    IF ~Known(n) THEN New(made)
    ELSE IF restore THEN [order[n] EXCEPT !.live = TRUE] ELSE order[n]

\* The snapshot is of the row as it is now, whoever froze it in between.
Marked(row, mark, freeze) ==
    [row EXCEPT !.smr = @ \/ mark, !.baseline = IF freeze THEN row.work ELSE @]

\* The marks are decided by the row as refreshed here.
Merge(t) ==
    /\ up[t].pc = "merge"
    /\ LET n == up[t].number
           row == Created(n, "sheet", up[t].restore)
       IN /\ row.live
          /\ order' = [order EXCEPT ![n] = row]
          /\ Goto(t, [pc |-> "mark", left |-> up[t].left, number |-> n,
                      mark |-> ~row.smr, freeze |-> row.baseline = None])
    /\ UNCHANGED <<paper, invoices, edits, uploads, crashes>>

Mark(t) ==
    /\ up[t].pc = "mark"
    /\ order' = [order EXCEPT ![up[t].number] = Marked(@, up[t].mark, up[t].freeze)]
    /\ Goto(t, [pc |-> "row", left |-> up[t].left])
    /\ UNCHANGED <<paper, invoices, edits, uploads, crashes>>

\* A row archived since it was looked up comes back locked, not merged and not
\* committed: its marks are in the same transaction.
MergeArchived(t) ==
    /\ up[t].pc = "merge"
    /\ LET n == up[t].number IN
          /\ Known(n) /\ ~order[n].live /\ ~up[t].restore
          /\ order' = [order EXCEPT ![n] = Marked(@, ~@.smr, @.baseline = None)]
    /\ Goto(t, [pc |-> "row", left |-> up[t].left])
    /\ UNCHANGED <<paper, invoices, edits, uploads, crashes>>

-----------------------------------------------------------------------------
\* The Breakdown: the orders are read, then every target is in one commit.

SendTargets(t) ==
    /\ Send(t, "targets") /\ Goto(t, [pc |-> "targets", known |-> {n \in Breakdown : Smr(n)}])
    /\ UNCHANGED <<order, paper, invoices, edits, crashes>>

Targets(t) ==
    /\ up[t].pc = "targets"
    /\ order' = [n \in Numbers |-> IF n \in up[t].known THEN [order[n] EXCEPT !.target = TRUE]
                                   ELSE order[n]]
    /\ Goto(t, Idle)
    /\ UNCHANGED <<paper, invoices, edits, uploads, crashes>>

-----------------------------------------------------------------------------
\* The reviewed paper.

\* Refused before the first write: a number of the app that is not an SMR
\* order, one neither the app nor the Breakdown has, and a line that was
\* imported with other values.
Accepted ==
    /\ \A n \in Paper : Known(n) => Smr(n)
    /\ \A n \in Paper : ~Known(n) => n \in Breakdown
    /\ \A n \in Paper : paper[n] # "edited"

SendPaper(t) ==
    /\ Send(t, "paper")
    /\ Goto(t, IF Accepted
               THEN [pc |-> "shell", create |-> {n \in Paper : ~Known(n)},
                     new |-> {n \in Paper : paper[n] = None}]
               ELSE Idle)
    /\ UNCHANGED <<order, paper, invoices, edits, crashes>>

\* An order the app never had: get_or_create_work_order commits it, and its
\* SMR mark, baseline and target come in the next commit.
Shell(t) ==
    /\ up[t].pc = "shell"
    /\ \/ /\ up[t].create = {} /\ Goto(t, [up[t] EXCEPT !.pc = "lines"]) /\ UNCHANGED order
       \/ \E n \in up[t].create :
             /\ order' = [order EXCEPT ![n] = Created(n, "paper", FALSE)]
             /\ Goto(t, [pc |-> "shellmark", number |-> n, create |-> up[t].create \ {n},
                         new |-> up[t].new])
    /\ UNCHANGED <<paper, invoices, edits, uploads, crashes>>

ShellMark(t) ==
    /\ up[t].pc = "shellmark"
    /\ order' = [order EXCEPT ![up[t].number] =
                    [@ EXCEPT !.smr = TRUE, !.baseline = order[up[t].number].work, !.target = TRUE]]
    /\ Goto(t, [pc |-> "shell", create |-> up[t].create, new |-> up[t].new])
    /\ UNCHANGED <<paper, invoices, edits, uploads, crashes>>

\* Seeded fault: a line that is already there is overwritten.
Written_Over(new, done) == done = new

\* Readings, lines, workers and history in one commit; a key somebody else
\* inserted meanwhile takes all of them back.
Written(new, done) ==
    IF \A n \in new : paper[n] = None THEN done = new ELSE done = {}

PaperLines(t) ==
    /\ up[t].pc = "lines"
    /\ \E done \in SUBSET up[t].new :
          /\ Written(up[t].new, done)
          /\ paper' = [n \in Numbers |-> IF n \in done THEN "imported" ELSE paper[n]]
    /\ Goto(t, Idle)
    /\ UNCHANGED <<order, invoices, edits, uploads, crashes>>

-----------------------------------------------------------------------------
\* The vendor invoice: the rows the delete saw go, and the file's come, in one
\* commit.  A delete waits for another upload that is deleting the same rows.

SendInvoice(t) ==
    /\ Send(t, "invoice")
    /\ \A o \in Owners : up[o].pc = "replace" => up[o].old = {}
    /\ Goto(t, [pc |-> "replace", old |-> invoices, new |-> uploads + 1])
    /\ UNCHANGED <<order, paper, invoices, edits, crashes>>

Replace(t) ==
    /\ up[t].pc = "replace"
    /\ invoices' = (invoices \ up[t].old) \cup {up[t].new}
    /\ Goto(t, Idle)
    /\ UNCHANGED <<order, paper, edits, uploads, crashes>>

Next ==
    \/ \E n \in Numbers : Edit(n) \/ EditLine(n)
    \/ Crash
    \/ \E t \in Owners :
          \/ SendSheet(t) \/ Row(t) \/ Merge(t) \/ MergeArchived(t) \/ Mark(t)
          \/ SendTargets(t) \/ Targets(t)
          \/ SendPaper(t) \/ Shell(t) \/ ShellMark(t) \/ PaperLines(t)
          \/ SendInvoice(t) \/ Replace(t)

Spec == Init /\ [][Next]_vars

-----------------------------------------------------------------------------
\* An order is never an SMR order without the record it is compared with: the
\* mark and the frozen baseline are one commit in every upload that sets them.
SmrIsFrozen == \A n \in Numbers : Smr(n) => order[n].baseline # None

\* The paper is in whole or not at all: uploads that cross, fail or are cut off
\* by a restart leave the lines of every number or of none.
PaperIsWhole ==
    (\E n \in Paper : paper[n] # None) => \A n \in Paper : paper[n] # None

\* A paper uploaded again never takes back what was corrected in the app.
CorrectionsStand ==
    [][\A n \in Numbers : paper[n] = "edited" => paper'[n] = "edited"]_vars

\* Stated by the repository and not kept by the code (README, Disagreements).
\* An order the paper import creates is an SMR order, so that an import cut off
\* half-way can be sent again.
ShellsAreSmr ==
    (\A t \in Owners : up[t] = Idle) =>
        \A n \in Numbers : Known(n) /\ order[n].made = "paper" => Smr(n)

\* Stated by the repository and not kept by the code (README, Disagreements).
\* A re-upload of an invoice replaces its rows rather than doubling them.
InvoicesReplace == Cardinality(invoices) <= 1
================================================================================
