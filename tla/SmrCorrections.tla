----------------------------- MODULE SmrCorrections -----------------------------
(***************************************************************************)
(* The paper-correction lines of one SMR order: lines added, edited and    *)
(* soft-removed, the day of the paper that dates its undated lines, vendor *)
(* workers merged, and correction blocks generated and marked pasted.      *)
(* Every request reads its rows, judges the state it would leave, and      *)
(* writes the changed columns; no request locks anything.                  *)
(***************************************************************************)
EXTENDS Naturals, FiniteSets

CONSTANTS Editors,      \* requests in flight at once
          Asks,         \* what each of them may ask for
          Lines, Workers, Vendors, VendorOf, None,
          Days, Weeks, WeekOf,   \* days a line can carry, and the week each falls in
          MaxWrites     \* bound on requests that wrote

Bases == {"paper", "week1 placement", "week placement"}
Placements == Bases \ {"paper"}
Grounds == {"undated", "other", "removed"}
Statuses == {"charged", "excluded"}

LineRows == [date : Days \cup {None}, basis : Bases, week : Weeks \cup {None},
             status : Statuses, ground : Grounds \cup {None},
             vendor : Vendors, worker : Workers \cup {None}]

VARIABLES
    lines,      \* the order's lines; None before one is added
    gone,       \* workers merged away
    day,        \* the day of the paper the lines were read from
    block,      \* the latest correction block
    ed,         \* each request: its step and what it read
    writes

vars == <<lines, gone, day, block, ed, writes>>

Idle == [pc |-> "idle"]
Present == {l \in Lines : lines[l] # None}
NoBlock == [version |-> 0, printed |-> <<>>, digest |-> <<>>, pasted |-> None]

TypeOK ==
    /\ lines \in [Lines -> LineRows \cup {None}] /\ gone \in SUBSET Workers
    /\ day \in Days \cup {None} /\ writes \in 0..MaxWrites
    /\ block.version \in 0..MaxWrites /\ block.pasted \in Editors \cup {None}
    /\ \A t \in Editors :
          ed[t].pc \in {"idle", "write", "insert", "day", "undated", "cascade", "merge", "render", "stamp"}

\* An imported line whose paper had no day, and nothing generated yet.
Undated(v) == [date |-> None, basis |-> "paper", week |-> None, status |-> "excluded",
               ground |-> "undated", vendor |-> v, worker |-> None]

Init ==
    /\ \E l \in Lines, v \in Vendors : lines = [k \in Lines |-> IF k = l THEN Undated(v) ELSE None]
    /\ gone = {} /\ day = None /\ block = NoBlock
    /\ ed = [t \in Editors |-> Idle] /\ writes = 0

-----------------------------------------------------------------------------
\* The rules a line is judged by.

WeekFor(date, basis, week) ==
    CASE date # None                                -> WeekOf[date]
      [] date = None /\ basis = "week1 placement"   -> 1
      [] date = None /\ basis = "week placement"    -> week
      [] OTHER                                      -> None

\* The columns of c, the others as x has them.
Over(c, x) ==
    [f \in DOMAIN c \cup DOMAIN x |-> IF f \in DOMAIN c THEN c[f] ELSE x[f]]

\* A day that lands on an undated line charges it.
Dated(line, c) ==
    IF /\ "date" \in DOMAIN c /\ c["date"] # None /\ "status" \notin DOMAIN c
       /\ line.status = "excluded" /\ line.ground = "undated"
    THEN Over([status |-> "charged", ground |-> None], c)
    ELSE c

Fits(w, vendor) == w \notin gone /\ VendorOf[w] = vendor

Sound(state, week) ==
    /\ state.basis = "week placement" /\ state.date = None => week # None
    /\ state.status = "charged" =>
          /\ state.date # None \/ state.basis \in Placements
          /\ state.ground = None
    /\ \A w \in {state.worker} \ {None} : Fits(w, state.vendor)

\* The constraint of the table.
Storable(l) ==
    l.status = "charged" => l.date # None \/ (l.basis \in Placements /\ l.week # None)

-----------------------------------------------------------------------------
\* One edit: what the body may change, and the columns the request will write.

Bodies ==
    [date : Days \cup {None}]
    \cup [status : {"excluded"}, ground : Grounds]
    \cup [status : {"charged"}, ground : {None}]
    \cup [basis : {"paper", "week1 placement"}]
    \cup [basis : {"week placement"}, week : Weeks]
    \cup [worker : Workers \cup {None}]
    \cup [vendor : Vendors]

\* A new vendor looks the keyed name up again: a live worker of it, or nobody.
Matched(body) ==
    IF "vendor" \in DOMAIN body
    THEN {Over([worker |-> w], body) : w \in {None} \cup {u \in Workers : Fits(u, body["vendor"])}}
    ELSE {body}

\* The columns an accepted edit of `line` writes; empty for a refused one.
Columns(line, c) ==
    LET state == Over(c, line)
        week == WeekFor(state.date, state.basis, state.week)
        after == Over([week |-> week], state)
        changed == {f \in DOMAIN c \cup {"week"} : after[f] # line[f]}
    IN IF Sound(state, state.week) THEN [f \in changed |-> after[f]] ELSE <<>>

Goto(t, next) == ed' = [ed EXCEPT ![t] = next]
Ask(t, what) == ed[t] = Idle /\ what \in Asks[t] /\ writes < MaxWrites
Wrote == writes < MaxWrites /\ writes' = writes + 1

EditRead(t) ==
    /\ Ask(t, "edit")
    /\ \E l \in Present, body \in Bodies :
          \E c \in Matched(Dated(lines[l], body)) :
             /\ Columns(lines[l], c) # <<>>
             /\ Goto(t, [pc |-> "write", line |-> l, columns |-> Columns(lines[l], c),
                           left |-> {}, day |-> None])
    /\ UNCHANGED <<lines, gone, day, block, writes>>

\* Commit; a row the constraint refuses answers 500 and writes nothing.
EditWrite(t) ==
    /\ ed[t].pc = "write"
    /\ LET l == ed[t].line
           row == Over(ed[t].columns, lines[l])
       IN \/ /\ Storable(row) /\ Wrote
             /\ lines' = [lines EXCEPT ![l] = row]
             /\ Goto(t, IF ed[t].left = {} THEN Idle
                        ELSE [pc |-> "cascade", left |-> ed[t].left, day |-> ed[t].day])
          \/ /\ ~Storable(row) /\ Goto(t, Idle) /\ UNCHANGED <<lines, writes>>
    /\ UNCHANGED <<gone, day, block>>

AddRead(t) ==
    /\ Ask(t, "add") /\ Present # Lines
    /\ \E v \in Vendors, d \in Days \cup {None}, b \in Bases, w \in Workers \cup {None} :
       \E sg \in {<<"charged", None>>} \cup ({"excluded"} \X Grounds) :
          LET row == [date |-> d, basis |-> b, week |-> WeekFor(d, b, None), status |-> sg[1],
                      ground |-> sg[2], vendor |-> v, worker |-> w]
          IN Sound(row, None) /\ Goto(t, [pc |-> "insert", row |-> row])
    /\ UNCHANGED <<lines, gone, day, block, writes>>

AddWrite(t) ==
    /\ ed[t].pc = "insert"
    /\ \/ /\ Storable(ed[t].row) /\ Wrote
          /\ \E l \in Lines \ Present : lines' = [lines EXCEPT ![l] = ed[t].row]
       \/ /\ Present = Lines \/ ~Storable(ed[t].row)
          /\ UNCHANGED <<lines, writes>>
    /\ Goto(t, Idle)
    /\ UNCHANGED <<gone, day, block>>

-----------------------------------------------------------------------------
\* Dating the paper dates its undated lines, one commit each.

DayRead(t) ==
    /\ Ask(t, "date")
    /\ \E d \in (Days \cup {None}) \ {day} : Goto(t, [pc |-> "day", day |-> d])
    /\ UNCHANGED <<lines, gone, day, block, writes>>

DayWrite(t) ==
    /\ ed[t].pc = "day" /\ Wrote
    /\ day' = ed[t].day
    /\ Goto(t, IF ed[t].day = None THEN Idle ELSE [pc |-> "undated", day |-> ed[t].day])
    /\ UNCHANGED <<lines, gone, block>>

\* Which lines, read once after the commit.
DayLines(t) ==
    /\ ed[t].pc = "undated"
    /\ LET left == {l \in Present : lines[l].date = None /\ lines[l].ground = "undated"}
       IN Goto(t, IF left = {} THEN Idle ELSE [pc |-> "cascade", left |-> left, day |-> ed[t].day])
    /\ UNCHANGED <<lines, gone, day, block, writes>>

\* The next of them is edited as any line is; a refused one ends the request
\* with the rest as they were.
DayLine(t) ==
    /\ ed[t].pc = "cascade"
    /\ \E l \in ed[t].left :
          LET columns == Columns(lines[l], Dated(lines[l], [date |-> ed[t].day]))
          IN \/ /\ columns # <<>>
                /\ Goto(t, [pc |-> "write", line |-> l, columns |-> columns,
                           left |-> ed[t].left \ {l}, day |-> ed[t].day])
             \/ columns = <<>> /\ Goto(t, Idle)
    /\ UNCHANGED <<lines, gone, day, block, writes>>

-----------------------------------------------------------------------------
\* Workers merged: the lines read are re-pointed and the duplicate archived.

Repointed(worker) == {l \in Present : lines[l].worker = worker}

MergeRead(t) ==
    /\ Ask(t, "merge")
    /\ \E dup \in Workers, keep \in Workers \ gone :
          /\ dup # keep
          /\ Goto(t, [pc |-> "merge", dup |-> dup, keep |-> keep, moved |-> Repointed(dup)])
    /\ UNCHANGED <<lines, gone, day, block, writes>>

MergeWrite(t) ==
    /\ ed[t].pc = "merge" /\ Wrote
    /\ lines' = [l \in Lines |-> IF l \in ed[t].moved THEN [lines[l] EXCEPT !.worker = ed[t].keep]
                                 ELSE lines[l]]
    /\ gone' = gone \cup {ed[t].dup} /\ Goto(t, Idle)
    /\ UNCHANGED <<day, block>>

-----------------------------------------------------------------------------
\* The correction block pasted into NetFacilities.

Charged(rows) == {l \in DOMAIN rows : rows[l] # None /\ rows[l].status = "charged"}
Printed(rows) == [l \in Charged(rows) |-> rows[l]]
Digest(rows) == rows
Stale == block.digest # Digest(lines)

BlockRead(t) ==
    /\ Ask(t, "block")
    /\ Goto(t, [pc |-> "render", rows |-> lines, version |-> block.version + 1])
    /\ UNCHANGED <<lines, gone, day, block, writes>>

\* Seeded fault: the digest is taken from the lines as they are at the commit.
Rendered_DigestLate(seen) == [version |-> seen.version, printed |-> Printed(seen.rows),
                              digest |-> Digest(lines), pasted |-> None]

Rendered(seen) == [version |-> seen.version, printed |-> Printed(seen.rows),
                   digest |-> Digest(seen.rows), pasted |-> None]

\* A version another request took first is refused by the unique key.
BlockWrite(t) ==
    /\ ed[t].pc = "render" /\ Goto(t, Idle)
    /\ \/ block.version < ed[t].version /\ block' = Rendered(ed[t]) /\ Wrote
       \/ block.version >= ed[t].version /\ UNCHANGED <<block, writes>>
    /\ UNCHANGED <<lines, gone, day>>

PasteRead(t) ==
    /\ Ask(t, "paste") /\ block # NoBlock /\ block.pasted = None
    /\ Goto(t, [pc |-> "stamp", version |-> block.version])
    /\ UNCHANGED <<lines, gone, day, block, writes>>

\* The stamp lands on the block it was asked for, an older version by now perhaps.
PasteWrite(t) ==
    /\ ed[t].pc = "stamp" /\ Wrote /\ Goto(t, Idle)
    /\ block' = IF block.version = ed[t].version THEN [block EXCEPT !.pasted = t] ELSE block
    /\ UNCHANGED <<lines, gone, day>>

Next ==
    \E t \in Editors :
       \/ EditRead(t) \/ EditWrite(t) \/ AddRead(t) \/ AddWrite(t)
       \/ DayRead(t) \/ DayWrite(t) \/ DayLines(t) \/ DayLine(t)
       \/ MergeRead(t) \/ MergeWrite(t)
       \/ BlockRead(t) \/ BlockWrite(t) \/ PasteRead(t) \/ PasteWrite(t)

Spec == Init /\ [][Next]_vars

-----------------------------------------------------------------------------
\* A block that does not read as stale prints the hours the order charges now:
\* the text pasted into NetFacilities and the digest come from one reading.
BlockIsCurrent ==
    block # NoBlock /\ ~Stale => block.printed = Printed(lines)

\* With one request at a time, no sequence of edits, merges and dated paper
\* leaves a line the rules would refuse: what is charged carries no ground and
\* has its week, the week is the one its day and basis give, and its worker was not merged away.
LinesAreSound ==
    \A l \in Present :
       /\ lines[l].status = "charged" => lines[l].ground = None /\ lines[l].week # None
       /\ lines[l].week = WeekFor(lines[l].date, lines[l].basis, lines[l].week)
       /\ lines[l].worker \notin gone

\* A removed line is an excluded one: it is never charged, so never billed.
RemovedIsNotBilled ==
    \A l \in Present : lines[l].ground = "removed" => lines[l].status = "excluded"
==================================================================================
