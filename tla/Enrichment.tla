------------------------------- MODULE Enrichment -------------------------------
(***************************************************************************)
(* One NetFacilities enrichment batch: a snapshot of the work orders whose *)
(* description is still the generated link or whose priority is blank, one *)
(* document read per candidate with no transaction open, and a conditional *)
(* write under the row's lock.  Meanwhile people edit, renumber, archive   *)
(* and restore the rows, and the source loses the home-page context that   *)
(* makes it print the priority.                                            *)
(***************************************************************************)
EXTENDS Naturals, FiniteSets, Sequences, SequencesExt

CONSTANTS Rows, Numbers, None,
          BadNumbers,   \* numbers the source's URL cannot carry
          Urgent,       \* numbers whose document carries a priority
          MaxEdits, MaxLosses   \* bounds on edits, and on home contexts lost

\* Where a value comes from, and the number it belongs to.
Texts == [kind : {"link", "typed", "source", "blank"}, of : Numbers \cup {None}]
Link(n) == [kind |-> "link", of |-> n]
Source(n) == [kind |-> "source", of |-> n]
Typed == [kind |-> "typed", of |-> None]
Blank == [kind |-> "blank", of |-> None]

Refusals == {"not_found", "permission_denied", "other"}
Zero == [attempted |-> 0, invalid |-> 0, refused |-> 0, lost |-> 0, written |-> 0,
         unchanged |-> 0, remaining |-> 0, candidates |-> 0]

VARIABLES
    wo,         \* the live columns of each work order
    edits,      \* edits people made
    home,       \* whether the source has the session's home-page context
    losses,     \* how often it lost it
    primed,     \* the client's memory of having loaded the home page
    batch,      \* the batch: its step, the candidates left, what the last read showed
    sum         \* its counts

vars == <<wo, edits, home, losses, primed, batch, sum>>

OrderRows == [number : Numbers, live : BOOLEAN, description : Texts, priority : Texts]

TypeOK ==
    /\ wo \in [Rows -> OrderRows]
    /\ edits \in 0..MaxEdits /\ losses \in 0..MaxLosses
    /\ home \in BOOLEAN /\ primed \in BOOLEAN
    /\ batch.pc \in {"load", "next", "prime", "read", "reprime", "reread", "apply", "done"}
    /\ batch.todo \in Seq([id : Rows, number : Numbers])
    /\ batch.priority \in {Blank} \cup {Source(n) : n \in Numbers}
    /\ sum \in [DOMAIN Zero -> 0..Cardinality(Rows)]

Init ==
    /\ \E number \in [Rows -> Numbers], linked, blank \in SUBSET Rows :
          /\ \A r, s \in Rows : r # s => number[r] # number[s]
          /\ wo = [r \in Rows |->
                     [number |-> number[r], live |-> TRUE,
                      description |-> IF r \in linked THEN Link(number[r]) ELSE Typed,
                      priority |-> IF r \in blank THEN Blank ELSE Typed]]
    /\ edits = 0 /\ home = FALSE /\ losses = 0 /\ primed = FALSE
    /\ batch = [pc |-> "load", todo |-> <<>>, priority |-> Blank] /\ sum = Zero

IsFallback(w) == w.description = Link(w.number)
IsBlank(w) == w.priority = Blank

-----------------------------------------------------------------------------
\* The people.

\* PATCH: the text of either field, a cleared priority, another number.
Edit(r) ==
    /\ edits < MaxEdits /\ edits' = edits + 1 /\ wo[r].live
    /\ \/ wo' = [wo EXCEPT ![r].description = Typed]
       \/ \E p \in {Typed, Blank} : wo' = [wo EXCEPT ![r].priority = p]
       \/ \E n \in Numbers : /\ \A s \in Rows : wo[s].number # n
                             /\ wo' = [wo EXCEPT ![r].number = n]
    /\ UNCHANGED <<home, losses, primed, batch, sum>>

\* Archive and restore.
Shelve(r) ==
    /\ edits < MaxEdits /\ edits' = edits + 1
    /\ wo' = [wo EXCEPT ![r].live = ~@]
    /\ UNCHANGED <<home, losses, primed, batch, sum>>

\* The source forgets that the session visited the home page.
ForgetHome ==
    /\ home /\ losses < MaxLosses /\ losses' = losses + 1 /\ home' = FALSE
    /\ UNCHANGED <<wo, edits, primed, batch, sum>>

-----------------------------------------------------------------------------
\* The batch.

Eligible(w) == w.live /\ (IsFallback(w) \/ IsBlank(w))

Count(field) == sum' = [sum EXCEPT ![field] = @ + 1]
Goto(pc) == batch' = [batch EXCEPT !.pc = pc]
Candidate == Head(batch.todo)
Rest == [batch EXCEPT !.pc = "next", !.todo = Tail(@), !.priority = Blank]

\* The candidates in order of their numbers, whatever that order is.
Load ==
    /\ batch.pc = "load"
    /\ \E ids \in SetToSeqs({[id |-> r, number |-> wo[r].number] :
                                  r \in {s \in Rows : Eligible(wo[s])}}) :
          /\ batch' = [batch EXCEPT !.pc = "next", !.todo = ids]
          /\ sum' = [Zero EXCEPT !.candidates = Len(ids)]
    /\ UNCHANGED <<wo, edits, home, losses, primed>>

\* What a batch that stops at a candidate had not reached.
Left(stopped) == IF stopped = "before" THEN Len(batch.todo) ELSE Len(batch.todo) - 1

\* The deadline passes before a candidate is asked for.
OutOfTime ==
    /\ batch.pc = "next" /\ batch.todo # <<>> /\ Goto("done")
    /\ sum' = [sum EXCEPT !.remaining = Left("before")]
    /\ UNCHANGED <<wo, edits, home, losses, primed>>

Finished ==
    /\ batch.pc = "next" /\ batch.todo = <<>> /\ Goto("done")
    /\ UNCHANGED <<wo, edits, home, losses, primed, sum>>

Request ==
    /\ batch.pc = "next" /\ batch.todo # <<>>
    /\ IF Candidate.number \in BadNumbers
       THEN Count("invalid") /\ batch' = Rest
       ELSE Count("attempted") /\ Goto(IF primed THEN "read" ELSE "prime")
    /\ UNCHANGED <<wo, edits, home, losses, primed>>

\* The home page is loaded, so that the documents carry their priority.
Prime ==
    /\ batch.pc \in {"prime", "reprime"} /\ Goto(IF batch.pc = "prime" THEN "read" ELSE "reread")
    /\ primed' = TRUE /\ home' = TRUE
    /\ UNCHANGED <<wo, edits, losses, sum>>

\* A document printed without the home-page context has no priority label at all.
Trimmed == ~home

\* The priority row of the document of n, if it has one.
Printed(n) == IF home /\ n \in Urgent THEN Source(n) ELSE Blank

\* The document; a trimmed one is asked for once more.
Read ==
    /\ batch.pc \in {"read", "reread"}
    /\ IF batch.pc = "read" /\ Trimmed
       THEN primed' = FALSE /\ Goto("reprime")
       ELSE /\ batch' = [batch EXCEPT !.pc = "apply", !.priority = Printed(Candidate.number)]
            /\ UNCHANGED primed
    /\ UNCHANGED <<wo, edits, home, losses, sum>>

\* A page of the source is on its way: it may come, be refused, or find the
\* session gone.
Asking == batch.pc \in {"prime", "read", "reprime", "reread"}

\* An answer about this document only: the next candidate is tried.
Refused(why) ==
    /\ Asking /\ why \in Refusals
    /\ batch' = Rest /\ Count("refused")
    /\ UNCHANGED <<wo, edits, home, losses, primed>>

\* The session is gone or the time is up: the batch stops at this candidate.
Stopped ==
    /\ Asking /\ Goto("done")
    /\ sum' = [sum EXCEPT !.lost = @ + 1, !.remaining = Left("at")]
    /\ UNCHANGED <<wo, edits, home, losses, primed>>

\* The locked row, re-checked: gone, archived or renumbered it is left alone.
Applied(w, c, p) ==
    IF ~w.live \/ w.number # c.number THEN w
    ELSE [w EXCEPT !.description = IF IsFallback(w) THEN Source(c.number) ELSE @,
                   !.priority = IF IsBlank(w) THEN p ELSE @]

Apply ==
    LET c == Candidate IN
    /\ batch.pc = "apply" /\ batch' = Rest
    /\ wo' = [wo EXCEPT ![c.id] = Applied(@, c, batch.priority)]
    /\ Count(IF wo' = wo THEN "unchanged" ELSE "written")
    /\ UNCHANGED <<edits, home, losses, primed>>

Step ==
    \/ Load \/ OutOfTime \/ Finished \/ Request \/ Prime \/ Read \/ Stopped \/ Apply
    \/ \E why \in Refusals : Refused(why)

Next == Step \/ ForgetHome \/ \E r \in Rows : Edit(r) \/ Shelve(r)

-----------------------------------------------------------------------------
Writes == batch.pc = "apply" /\ batch' # batch

\* The batch never writes over what a person typed or over an earlier read,
\* whatever it saw when it began.
EditsSurviveBatch ==
    [][Writes =>
         \A r \in Rows : /\ wo'[r].description # wo[r].description => IsFallback(wo[r])
                         /\ wo'[r].priority # wo[r].priority => IsBlank(wo[r])]_vars

\* What was read for one number is written on a row that bears it, live, at
\* that moment, though rows are renumbered and archived between read and write.
RightOrder ==
    [][Writes => \A r \in Rows :
          /\ wo'[r] # wo[r] => wo[r].live
          /\ wo'[r].description # wo[r].description => wo'[r].description = Source(wo[r].number)
          /\ wo'[r].priority # wo[r].priority => wo'[r].priority = Source(wo[r].number)]_vars

\* The counts of a finished batch account for each candidate exactly once,
\* wherever it stopped.
CountsAddUp ==
    batch.pc = "done" =>
       /\ sum.candidates = sum.attempted + sum.invalid + sum.remaining
       /\ sum.attempted = sum.refused + sum.lost + sum.written + sum.unchanged

\* A batch that went through leaves no urgent candidate without its priority
\* because the home-page context was lost once along the way.
PrioritiesAreRead ==
    batch.pc = "done" /\ edits = 0 /\ losses <= 1
       /\ sum.remaining + sum.lost + sum.refused = 0 =>
       \A r \in Rows : wo[r].number \in Urgent \ BadNumbers => ~IsBlank(wo[r])
=============================================================================
