------------------------------- MODULE SmrWeekly -------------------------------
(***************************************************************************)
(* The weekly hours chart of one vendor: an order's paper hours split into *)
(* what was billed already and what the review found, pro rata over its    *)
(* lines, and what a week's invoice does not cover rolled into the next    *)
(* week.  Hours are whole numbers here; a share is kept exact by counting  *)
(* in units of 1/total of an hour, `total` being the order's paper hours.  *)
(***************************************************************************)
EXTENDS Naturals, Sequences, Functions, FiniteSetsExt, SequencesExt

CONSTANTS LastWeek,     \* weeks on the chart
          MaxHours,     \* bound on a line's and an invoice's hours
          None          \* the Undated column

Weeks == 1..LastWeek
Slots == Weeks \cup {None}

VARIABLES
    lines,      \* the paper lines of an order: the hours in each column
    target,     \* the hours the client was billed for it already
    invoiced,   \* the hours invoiced in each week
    cells,      \* the chart: original, found and carried hours of each week
    week, carry \* the roll-forward: the week it is at, the hours it carries

vars == <<lines, target, invoiced, cells, week, carry>>

Total == FoldFunction(LAMBDA h, sum : h + sum, 0, lines)
Scale == IF Total = 0 THEN 1 ELSE Total

LeastOf(a, b) == IF a < b THEN a ELSE b
Over(a, b) == IF a > b THEN a - b ELSE 0

\* The billed hours the paper supports.
OriginalHours == LeastOf(target, Total)

\* A column's share of the original hours and the rest of its paper, scaled.
Original(s) == OriginalHours * lines[s]
Found(s) == lines[s] * Scale - Original(s)

TypeOK ==
    /\ lines \in [Slots -> 0..MaxHours] /\ invoiced \in [Weeks -> 0..MaxHours]
    /\ target \in Nat /\ week \in 1..LastWeek + 1 /\ carry \in Nat
    /\ cells \in [Weeks -> [original : Nat, found : Nat, carried : Nat]]

Init ==
    /\ lines \in [Slots -> 0..MaxHours] /\ invoiced \in [Weeks -> 0..MaxHours]
    /\ target \in 0..2 * MaxHours
    /\ cells = [w \in Weeks |-> [original |-> Original(w), found |-> Found(w), carried |-> 0]]
    /\ week = 1 /\ carry = 0

-----------------------------------------------------------------------------
Sum(c) == c.original + c.found + c.carried

\* What a week cannot explain; the last one keeps it.
Excess(c, w) == IF w < LastWeek THEN Over(Sum(c), invoiced[w] * Scale) ELSE 0

\* Seeded fault: hours carried in stay on the bar.
Taken_NotCarried(c, over) ==
    LET found == LeastOf(c.found, over)
        original == LeastOf(c.original, over - found)
    IN [c EXCEPT !.found = @ - found, !.original = @ - original]

\* Taken from the found hours first, then the original, then the carried.
Taken(c, over) ==
    LET found == LeastOf(c.found, over)
        original == LeastOf(c.original, over - found)
        carried == LeastOf(c.carried, over - found - original)
    IN [original |-> c.original - original, found |-> c.found - found,
        carried |-> c.carried - carried]

\* One week of roll_forward.
Roll ==
    /\ week <= LastWeek
    /\ LET c == [cells[week] EXCEPT !.carried = carry]
           over == Excess(c, week)
       IN /\ cells' = [cells EXCEPT ![week] = Taken(c, over)]
          /\ carry' = over
    /\ week' = week + 1
    /\ UNCHANGED <<lines, target, invoiced>>

Next == Roll
Spec == Init /\ [][Next]_vars

-----------------------------------------------------------------------------
Dated == FoldFunctionOnSet(LAMBDA h, sum : h + sum, 0, lines, Weeks)
Charted == FoldFunction(LAMBDA c, sum : Sum(c) + sum, 0, cells)

\* Rolling hours forward neither loses nor invents any: at every week the chart
\* and the hours in hand are the dated paper hours.
HoursAreConserved == Charted + carry = Dated * Scale

\* Before the last week no bar explains more hours than were invoiced in it.
BarsFitInvoices ==
    \A w \in Weeks : w < week /\ w < LastWeek => Sum(cells[w]) <= invoiced[w] * Scale

================================================================================
