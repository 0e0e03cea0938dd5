------------------------- MODULE SmrCorrectionsProofs -------------------------
(***************************************************************************)
(* For any editors, lines, days, weeks, workers and vendors: a correction  *)
(* block that does not read as stale prints the lines as they are, and     *)
(* while one editor works alone no line is left that the rules refuse.     *)
(***************************************************************************)
EXTENDS SmrCorrections, TLAPS

\* A day falls in a week, the first week is one; None is no day, week, worker, ground or row.
ConstantsOK ==
    /\ WeekOf \in [Days -> Weeks] /\ 1 \in Weeks /\ MaxWrites \in Nat
    /\ None \notin Days \cup Weeks \cup Workers \cup Grounds /\ None \notin LineRows

\* Nobody but one editor sends anything.
OneEditor == \E e \in Editors : \A t \in Editors \ {e} : Asks[t] = {}

\* Columns an edit may write, each with a value of its own.
Fields == {"date", "basis", "week", "status", "ground", "vendor", "worker"}
Part(c) ==
    /\ DOMAIN c \subseteq Fields
    /\ "date" \in DOMAIN c => c["date"] \in Days \cup {None}
    /\ "basis" \in DOMAIN c => c["basis"] \in Bases
    /\ "week" \in DOMAIN c => c["week"] \in Weeks \cup {None}
    /\ "status" \in DOMAIN c => c["status"] \in Statuses
    /\ "ground" \in DOMAIN c => c["ground"] \in Grounds \cup {None}
    /\ "vendor" \in DOMAIN c => c["vendor"] \in Vendors
    /\ "worker" \in DOMAIN c => c["worker"] \in Workers \cup {None}

\* What a request remembers, with the lines that are there and the writes there were.
JobOK(j, present, n) ==
    /\ j.pc \in {"idle", "write", "insert", "day", "undated", "cascade", "merge", "render", "stamp"}
    /\ j.pc \in {"day", "undated", "cascade", "write"} => j.day \in Days \cup {None}
    /\ j.pc \in {"cascade", "write"} => j.left \subseteq present
    /\ j.pc = "write" => j.line \in present /\ Part(j.columns)
    /\ j.pc = "insert" => j.row \in LineRows
    /\ j.pc = "merge" => j.keep \in Workers /\ j.dup \in Workers /\ j.moved \subseteq present
    /\ j.pc = "render" => j.version \in 1..(n + 1)
    /\ j.pc = "stamp" => j.version # 0

\* A block prints the lines it took its digest of.
BlockOK ==
    /\ block = [version |-> block.version, printed |-> block.printed,
                digest |-> block.digest, pasted |-> block.pasted]
    /\ block.version \in 0..writes /\ block.pasted \in Editors \cup {None}
    /\ block = NoBlock \/ (block.version # 0 /\ block.printed = Printed(block.digest))

JobsOK == ed = [t \in Editors |-> ed[t]] /\ \A t \in Editors : JobOK(ed[t], Present, writes)
RowsOK == lines \in [Lines -> LineRows \cup {None}] /\ gone \in SUBSET Workers
TInv == RowsOK /\ day \in Days \cup {None} /\ writes \in 0..MaxWrites /\ JobsOK /\ BlockOK

LEMMA Types == ASSUME ConstantsOK, TInv PROVE TypeOK
  BY DEF ConstantsOK, TInv, RowsOK, JobsOK, JobOK, BlockOK, TypeOK

LEMMA Currents == ASSUME TInv PROVE BlockIsCurrent
  BY DEF TInv, BlockOK, BlockIsCurrent, Stale, Digest

LEMMA InitTInv == ASSUME ConstantsOK, Init PROVE TInv
<1>1. \A v \in Vendors : Undated(v) \in LineRows
  BY DEF Undated, LineRows, Bases, Statuses, Grounds
<1>2. RowsOK
  BY <1>1 DEF Init, RowsOK
<1>3. JobsOK
  BY DEF Init, JobsOK, JobOK, Idle
<1>4. BlockOK
  BY DEF Init, BlockOK, NoBlock
<1> QED
  BY <1>2, <1>3, <1>4 DEF Init, TInv, ConstantsOK

-----------------------------------------------------------------------------
\* Columns laid over others, and over a line.
LEMMA OverAt ==
    ASSUME NEW c, NEW x
    PROVE  /\ DOMAIN Over(c, x) = DOMAIN c \cup DOMAIN x
           /\ \A f \in DOMAIN c : Over(c, x)[f] = c[f]
           /\ \A f \in DOMAIN x \ DOMAIN c : Over(c, x)[f] = x[f]
  BY DEF Over

LEMMA OverParts == ASSUME NEW c, NEW x, Part(c), Part(x) PROVE Part(Over(c, x))
<1> DEFINE z == Over(c, x)
<1>1. /\ DOMAIN z = DOMAIN c \cup DOMAIN x
      /\ \A f \in DOMAIN c : z[f] = c[f]
      /\ \A f \in DOMAIN x \ DOMAIN c : z[f] = x[f]
  BY OverAt
<1>2. \A f \in DOMAIN z : (f \in DOMAIN c /\ z[f] = c[f]) \/ (f \in DOMAIN x /\ z[f] = x[f])
  BY <1>1
<1> HIDE DEF z
<1>3. DOMAIN z \subseteq Fields
  BY <1>1 DEF Part
<1>4. "date" \in DOMAIN z => z["date"] \in Days \cup {None}
  BY <1>2 DEF Part
<1>5. "basis" \in DOMAIN z => z["basis"] \in Bases
  BY <1>2 DEF Part
<1>6. "week" \in DOMAIN z => z["week"] \in Weeks \cup {None}
  BY <1>2 DEF Part
<1>7. "status" \in DOMAIN z => z["status"] \in Statuses
  BY <1>2 DEF Part
<1>8. "ground" \in DOMAIN z => z["ground"] \in Grounds \cup {None}
  BY <1>2 DEF Part
<1>9. "vendor" \in DOMAIN z => z["vendor"] \in Vendors
  BY <1>2 DEF Part
<1>10. "worker" \in DOMAIN z => z["worker"] \in Workers \cup {None}
  BY <1>2 DEF Part
<1>11. Part(z)
  BY <1>3, <1>4, <1>5, <1>6, <1>7, <1>8, <1>9, <1>10 DEF Part
<1> QED
  BY <1>11 DEF z

LEMMA LineParts == ASSUME NEW x \in LineRows PROVE Part(x) /\ DOMAIN x = Fields
  BY DEF LineRows, Part, Fields

LEMMA PartsAreLine ==
    ASSUME NEW c, Part(c), DOMAIN c = Fields, c = [f \in Fields |-> c[f]] PROVE c \in LineRows
  BY DEF LineRows, Part, Fields

LEMMA OverLine == ASSUME NEW c, Part(c), NEW x \in LineRows PROVE Over(c, x) \in LineRows
<1> DEFINE z == Over(c, x)
<1>1. Part(z)
  BY OverParts, LineParts
<1>2. DOMAIN z = Fields
  BY LineParts DEF Over, Part
<1>3. z = [f \in Fields |-> z[f]]
  BY <1>2 DEF Over
<1> QED
  BY <1>1, <1>2, <1>3, PartsAreLine

LEMMA EmptyPart == Part(<<>>)
<1>1. DOMAIN <<>> = {}
  OBVIOUS
<1> QED
  BY <1>1 DEF Part

LEMMA BodyParts == ASSUME NEW body \in Bodies PROVE Part(body)
<1>1. CASE body \in [date : Days \cup {None}]
  BY <1>1 DEF Part, Fields
<1>2. CASE body \in [status : {"excluded"}, ground : Grounds]
  BY <1>2 DEF Part, Fields, Statuses
<1>3. CASE body \in [status : {"charged"}, ground : {None}]
  BY <1>3 DEF Part, Fields, Statuses
<1>4. CASE body \in [basis : {"paper", "week1 placement"}]
  BY <1>4 DEF Part, Fields, Bases
<1>5. CASE body \in [basis : {"week placement"}, week : Weeks]
  BY <1>5 DEF Part, Fields, Bases
<1>6. CASE body \in [worker : Workers \cup {None}]
  BY <1>6 DEF Part, Fields
<1>7. CASE body \in [vendor : Vendors]
  BY <1>7 DEF Part, Fields
<1> QED
  BY <1>1, <1>2, <1>3, <1>4, <1>5, <1>6, <1>7 DEF Bodies

LEMMA DatedParts == ASSUME NEW x, NEW c, Part(c) PROVE Part(Dated(x, c))
<1>1. Part([status |-> "charged", ground |-> None])
  BY DEF Part, Fields, Statuses
<1> QED
  BY <1>1, OverParts DEF Dated

LEMMA MatchedParts == ASSUME NEW c, Part(c), NEW m \in Matched(c) PROVE Part(m)
<1>1. \A w \in Workers \cup {None} : Part([worker |-> w])
  BY DEF Part, Fields
<1> QED
  BY <1>1, OverParts DEF Matched

LEMMA WeekIs ==
    ASSUME ConstantsOK, NEW d \in Days \cup {None}, NEW b, NEW w \in Weeks \cup {None}
    PROVE  WeekFor(d, b, w) \in Weeks \cup {None}
  BY DEF ConstantsOK, WeekFor

LEMMA OverChanges ==
    ASSUME NEW x, NEW a, NEW F, NEW D \in SUBSET F, DOMAIN x = F, a = [f \in F |-> a[f]],
           \A f \in F \ D : a[f] = x[f]
    PROVE  Over([f \in {g \in D : a[g] # x[g]} |-> a[f]], x) = a
  BY DEF Over

\* An accepted edit, laid over the line it judged, leaves the line it judged.
LEMMA ColumnsAre ==
    ASSUME ConstantsOK, NEW x \in LineRows, NEW c, Part(c)
    PROVE  /\ Part(Columns(x, c))
           /\ Columns(x, c) # <<>> =>
                 LET s == Over(c, x) IN
                 /\ Sound(s, s.week) /\ s \in LineRows
                 /\ Over(Columns(x, c), x) = [s EXCEPT !.week = WeekFor(s.date, s.basis, s.week)]
<1> DEFINE s == Over(c, x)
           week == WeekFor(s.date, s.basis, s.week)
           after == Over([week |-> week], s)
           changed == {f \in DOMAIN c \cup {"week"} : after[f] # x[f]}
           k == [f \in changed |-> after[f]]
<1>1. s \in LineRows
  BY OverLine
<1>2. week \in Weeks \cup {None}
  BY <1>1, WeekIs DEF LineRows
<1>3. after = [s EXCEPT !.week = week] /\ after \in LineRows
  <2> HIDE DEF s, week
  <2> QED
    BY <1>1, <1>2 DEF Over, LineRows
<1>4. changed \subseteq Fields /\ DOMAIN x = Fields /\ Part(after)
  BY <1>3, LineParts DEF Part, Fields
<1>5. Part(k)
  <2> HIDE DEF after, changed
  <2> QED
    BY <1>4, <1>3, LineParts DEF Part
<1>6. Over(k, x) = after
  <2>1. after = [f \in Fields |-> after[f]] /\ s = [f \in Fields |-> s[f]]
    BY <1>1, <1>3, LineParts DEF LineRows, Fields
  <2>2. \A f \in Fields \ {"week"} : after[f] = s[f]
    <3> HIDE DEF s, week
    <3> QED
      BY <1>1, LineParts DEF Over
  <2>3. \A f \in Fields \ DOMAIN c : s[f] = x[f]
    BY <1>4, OverAt
  <2> HIDE DEF s, after
  <2> QED
    BY <1>4, <2>1, <2>2, <2>3, OverChanges DEF Part, Fields
<1>7. Columns(x, c) = IF Sound(s, s.week) THEN k ELSE <<>>
  BY DEF Columns
<1> HIDE DEF s, k, after
<1> QED
  BY <1>1, <1>3, <1>5, <1>6, <1>7, EmptyPart DEF s

-----------------------------------------------------------------------------
\* A request goes on; the others remember what they did, of lines that stay there.
LEMMA Goes ==
    ASSUME TInv, NEW t \in Editors, NEW j, Goto(t, j), Present \subseteq Present',
           writes \in Nat, writes' \in Nat, writes <= writes', JobOK(j, Present', writes')
    PROVE  JobsOK'
<1>1. /\ ed' = [u \in Editors |-> IF u = t THEN j ELSE ed[u]]
      /\ \A u \in Editors : JobOK(ed[u], Present, writes)
  BY DEF TInv, JobsOK, Goto
<1>2. ASSUME NEW u \in Editors PROVE JobOK(ed'[u], Present', writes')
  <2>1. CASE u = t
    BY <1>1, <2>1
  <2>2. CASE u # t
    <3>1. ed'[u] = ed[u] /\ JobOK(ed[u], Present, writes)
      BY <1>1, <2>2
    <3>2. ed[u].pc = "render" => ed[u].version \in 1..(writes' + 1)
      BY <3>1 DEF JobOK
    <3> QED
      BY <3>1, <3>2 DEF JobOK
  <2> QED
    BY <2>1, <2>2
<1> QED
  BY <1>1, <1>2 DEF JobsOK

LEMMA Counts == ASSUME ConstantsOK, TInv, UNCHANGED writes \/ Wrote
                PROVE  /\ writes \in Nat /\ writes' \in Nat /\ writes <= writes'
                       /\ writes' \in 0..MaxWrites
  BY DEF ConstantsOK, TInv, Wrote

LEMMA SameBlock == ASSUME TInv, UNCHANGED block, writes \in Nat, writes' \in Nat, writes <= writes'
                   PROVE  BlockOK'
<1>1. block.version \in 0..writes'
  BY DEF TInv, BlockOK
<1> QED
  BY <1>1 DEF TInv, BlockOK, NoBlock, Printed, Charged

\* A request reads and goes on.
LEMMA Reads ==
    ASSUME ConstantsOK, TInv, UNCHANGED <<lines, gone, day, block, writes>>, NEW t \in Editors,
           NEW j, Goto(t, j), JobOK(j, Present, writes)
    PROVE  TInv'
<1>1. Present' = Present
  BY DEF Present
<1>2. JobsOK'
  BY <1>1, Goes, Counts
<1>3. BlockOK'
  BY SameBlock, Counts
<1> QED
  BY <1>2, <1>3 DEF TInv, RowsOK

LEMMA IdleOK == ASSUME NEW P, NEW n PROVE JobOK(Idle, P, n)
  BY DEF JobOK, Idle

\* A request writes: one more write, rows that stay, the block as it was.
LEMMA Writes ==
    ASSUME ConstantsOK, TInv, UNCHANGED writes \/ Wrote, UNCHANGED block, RowsOK',
           day' \in Days \cup {None}, Present \subseteq Present', NEW t \in Editors,
           NEW j, Goto(t, j), JobOK(j, Present', writes')
    PROVE  TInv'
<1>1. JobsOK'
  BY Goes, Counts
<1>2. BlockOK'
  BY SameBlock, Counts
<1> QED
  BY <1>1, <1>2, Counts DEF TInv

LEMMA PresentIs == ASSUME TInv, NEW l \in Present PROVE l \in Lines /\ lines[l] \in LineRows
  BY DEF TInv, RowsOK, Present

LEMMA EditReadType == ASSUME ConstantsOK, TInv, NEW t \in Editors, EditRead(t) PROVE TInv'
<1>1. PICK l \in Present, body \in Bodies : \E c \in Matched(Dated(lines[l], body)) :
         Goto(t, [pc |-> "write", line |-> l, columns |-> Columns(lines[l], c),
                  left |-> {}, day |-> None])
  BY DEF EditRead
<1>a. PICK c \in Matched(Dated(lines[l], body)) :
         Goto(t, [pc |-> "write", line |-> l, columns |-> Columns(lines[l], c),
                  left |-> {}, day |-> None])
  BY <1>1
<1>2. Part(Columns(lines[l], c))
  BY BodyParts, DatedParts, MatchedParts, ColumnsAre, PresentIs
<1>3. JobOK([pc |-> "write", line |-> l, columns |-> Columns(lines[l], c),
             left |-> {}, day |-> None], Present, writes)
  BY <1>2 DEF JobOK
<1> QED
  BY <1>a, <1>3, Reads DEF EditRead

LEMMA EditWriteType == ASSUME ConstantsOK, TInv, NEW t \in Editors, EditWrite(t) PROVE TInv'
<1> DEFINE l == ed[t].line
           row == Over(ed[t].columns, lines[l])
           next == IF ed[t].left = {} THEN Idle
                   ELSE [pc |-> "cascade", left |-> ed[t].left, day |-> ed[t].day]
<1>1. /\ ed[t].pc = "write" /\ l \in Present /\ Part(ed[t].columns)
      /\ ed[t].left \subseteq Present /\ ed[t].day \in Days \cup {None}
  BY DEF EditWrite, TInv, JobsOK, JobOK
<1>2. row \in LineRows
  BY <1>1, OverLine, PresentIs
<1>3. CASE Storable(row) /\ Wrote /\ lines' = [lines EXCEPT ![l] = row] /\ Goto(t, next)
  <2>1. RowsOK' /\ Present' = Present
    BY <1>1, <1>2, <1>3 DEF TInv, RowsOK, Present, EditWrite, ConstantsOK
  <2>2. JobOK(next, Present', writes')
    BY <1>1, <2>1, IdleOK DEF JobOK
  <2> QED
    BY <1>3, <2>1, <2>2, Writes DEF EditWrite, TInv
<1>4. CASE Goto(t, Idle) /\ UNCHANGED <<lines, writes>>
  BY <1>4, IdleOK, Reads DEF EditWrite
<1> QED
  BY <1>3, <1>4 DEF EditWrite

LEMMA AddReadType == ASSUME ConstantsOK, TInv, NEW t \in Editors, AddRead(t) PROVE TInv'
<1>1. PICK v \in Vendors, d \in Days \cup {None}, b \in Bases, w \in Workers \cup {None},
           sg \in {<<"charged", None>>} \cup ({"excluded"} \X Grounds) :
         Goto(t, [pc |-> "insert",
                  row |-> [date |-> d, basis |-> b, week |-> WeekFor(d, b, None), status |-> sg[1],
                           ground |-> sg[2], vendor |-> v, worker |-> w]])
  BY DEF AddRead
<1>2. sg[1] \in Statuses /\ sg[2] \in Grounds \cup {None}
  BY DEF Statuses
<1>3. [date |-> d, basis |-> b, week |-> WeekFor(d, b, None), status |-> sg[1],
       ground |-> sg[2], vendor |-> v, worker |-> w] \in LineRows
  BY <1>2, WeekIs DEF LineRows
<1>4. JobOK([pc |-> "insert",
             row |-> [date |-> d, basis |-> b, week |-> WeekFor(d, b, None), status |-> sg[1],
                      ground |-> sg[2], vendor |-> v, worker |-> w]], Present, writes)
  BY <1>3 DEF JobOK
<1> QED
  BY <1>1, <1>4, Reads DEF AddRead

LEMMA AddWriteType == ASSUME ConstantsOK, TInv, NEW t \in Editors, AddWrite(t) PROVE TInv'
<1>1. ed[t].pc = "insert" /\ ed[t].row \in LineRows /\ Goto(t, Idle)
  BY DEF AddWrite, TInv, JobsOK, JobOK
<1>2. CASE Wrote /\ \E l \in Lines \ Present : lines' = [lines EXCEPT ![l] = ed[t].row]
  <2>1. RowsOK' /\ Present \subseteq Present'
    BY <1>1, <1>2 DEF TInv, RowsOK, Present, AddWrite
  <2> QED
    BY <1>1, <1>2, <2>1, IdleOK, Writes DEF AddWrite, TInv
<1>3. CASE UNCHANGED <<lines, writes>>
  BY <1>1, <1>3, IdleOK, Reads DEF AddWrite
<1> QED
  BY <1>2, <1>3 DEF AddWrite

LEMMA DayReadType == ASSUME ConstantsOK, TInv, NEW t \in Editors, DayRead(t) PROVE TInv'
<1>1. PICK d \in Days \cup {None} : Goto(t, [pc |-> "day", day |-> d])
  BY DEF DayRead
<1>2. JobOK([pc |-> "day", day |-> d], Present, writes)
  BY DEF JobOK
<1> QED
  BY <1>1, <1>2, Reads DEF DayRead

LEMMA DayWriteType == ASSUME ConstantsOK, TInv, NEW t \in Editors, DayWrite(t) PROVE TInv'
<1> DEFINE next == IF ed[t].day = None THEN Idle ELSE [pc |-> "undated", day |-> ed[t].day]
<1>1. ed[t].day \in Days \cup {None}
  BY DEF DayWrite, TInv, JobsOK, JobOK
<1>2. JobOK(next, Present, writes')
  BY <1>1, IdleOK DEF JobOK
<1>3. Present' = Present /\ RowsOK'
  BY DEF DayWrite, Present, TInv, RowsOK
<1> QED
  BY <1>1, <1>2, <1>3, Writes DEF DayWrite

LEMMA DayLinesType == ASSUME ConstantsOK, TInv, NEW t \in Editors, DayLines(t) PROVE TInv'
<1> DEFINE left == {l \in Present : lines[l].date = None /\ lines[l].ground = "undated"}
           next == IF left = {} THEN Idle ELSE [pc |-> "cascade", left |-> left, day |-> ed[t].day]
<1>1. ed[t].day \in Days \cup {None}
  BY DEF DayLines, TInv, JobsOK, JobOK
<1>2. JobOK(next, Present, writes)
  BY <1>1, IdleOK DEF JobOK
<1> QED
  BY <1>2, Reads DEF DayLines

LEMMA DayLineType == ASSUME ConstantsOK, TInv, NEW t \in Editors, DayLine(t) PROVE TInv'
<1>1. ed[t].day \in Days \cup {None} /\ ed[t].left \subseteq Present
  BY DEF DayLine, TInv, JobsOK, JobOK
<1>2. Part([date |-> ed[t].day])
  BY <1>1 DEF Part, Fields
<1>3. PICK l \in ed[t].left :
         LET columns == Columns(lines[l], Dated(lines[l], [date |-> ed[t].day]))
         IN \/ Goto(t, [pc |-> "write", line |-> l, columns |-> columns,
                        left |-> ed[t].left \ {l}, day |-> ed[t].day])
            \/ Goto(t, Idle)
  BY DEF DayLine
<1> DEFINE columns == Columns(lines[l], Dated(lines[l], [date |-> ed[t].day]))
<1>4. Part(columns)
  BY <1>1, <1>2, DatedParts, ColumnsAre, PresentIs
<1>5. JobOK([pc |-> "write", line |-> l, columns |-> columns,
             left |-> ed[t].left \ {l}, day |-> ed[t].day], Present, writes)
  BY <1>1, <1>4 DEF JobOK
<1> HIDE DEF columns
<1> QED
  BY <1>3, <1>5, IdleOK, Reads DEF DayLine, columns

LEMMA MergeReadType == ASSUME ConstantsOK, TInv, NEW t \in Editors, MergeRead(t) PROVE TInv'
<1>1. PICK dup \in Workers, keep \in Workers :
         Goto(t, [pc |-> "merge", dup |-> dup, keep |-> keep, moved |-> Repointed(dup)])
  BY DEF MergeRead
<1>2. JobOK([pc |-> "merge", dup |-> dup, keep |-> keep, moved |-> Repointed(dup)], Present, writes)
  BY DEF JobOK, Repointed
<1> QED
  BY <1>1, <1>2, Reads DEF MergeRead

LEMMA MergeWriteType == ASSUME ConstantsOK, TInv, NEW t \in Editors, MergeWrite(t) PROVE TInv'
<1>1. ed[t].keep \in Workers /\ ed[t].dup \in Workers /\ ed[t].moved \subseteq Present
  BY DEF MergeWrite, TInv, JobsOK, JobOK
<1>2. \A l \in ed[t].moved : [lines[l] EXCEPT !.worker = ed[t].keep] \in LineRows
  BY <1>1, PresentIs DEF LineRows
<1>3. RowsOK' /\ Present' = Present
  BY <1>1, <1>2, PresentIs DEF MergeWrite, TInv, RowsOK, Present, ConstantsOK
<1> QED
  BY <1>3, IdleOK, Writes DEF MergeWrite, TInv

LEMMA BlockReadType == ASSUME ConstantsOK, TInv, NEW t \in Editors, BlockRead(t) PROVE TInv'
<1>1. block.version + 1 \in 1..(writes + 1)
  BY DEF ConstantsOK, TInv, BlockOK
<1>2. JobOK([pc |-> "render", rows |-> lines, version |-> block.version + 1], Present, writes)
  BY <1>1 DEF JobOK
<1> QED
  BY <1>2, Reads DEF BlockRead

LEMMA BlockWriteType == ASSUME ConstantsOK, TInv, NEW t \in Editors, BlockWrite(t) PROVE TInv'
<1>1. ed[t].version \in 1..(writes + 1) /\ Present' = Present
  BY DEF BlockWrite, TInv, JobsOK, JobOK, Present
<1>2. CASE block' = Rendered(ed[t]) /\ Wrote
  <2>1. JobsOK'
    BY <1>1, <1>2, Goes, Counts, IdleOK DEF BlockWrite
  <2>2. /\ block'.version = ed[t].version /\ block'.printed = Printed(ed[t].rows)
        /\ block'.digest = ed[t].rows /\ block'.pasted = None
        /\ block' = [version |-> block'.version, printed |-> block'.printed,
                     digest |-> block'.digest, pasted |-> block'.pasted]
    BY <1>2 DEF Rendered, Digest
  <2>3. block'.version \in 0..writes' /\ block'.version # 0
    BY <1>1, <1>2, <2>2 DEF Wrote, TInv, ConstantsOK
  <2>4. BlockOK'
    BY <2>2, <2>3 DEF BlockOK, Printed, Charged
  <2> QED
    BY <1>2, <2>1, <2>4, Counts DEF BlockWrite, TInv, RowsOK
<1>3. CASE UNCHANGED <<block, writes>>
  BY <1>3, IdleOK, Reads DEF BlockWrite
<1> QED
  BY <1>2, <1>3 DEF BlockWrite

LEMMA PasteReadType == ASSUME ConstantsOK, TInv, NEW t \in Editors, PasteRead(t) PROVE TInv'
<1>1. block.version # 0
  BY DEF PasteRead, TInv, BlockOK
<1>2. JobOK([pc |-> "stamp", version |-> block.version], Present, writes)
  BY <1>1 DEF JobOK
<1> QED
  BY <1>2, Reads DEF PasteRead

LEMMA PasteWriteType == ASSUME ConstantsOK, TInv, NEW t \in Editors, PasteWrite(t) PROVE TInv'
<1>1. ed[t].version # 0 /\ Present' = Present
  BY DEF PasteWrite, TInv, JobsOK, JobOK, Present
<1>2. JobsOK'
  BY <1>1, Goes, Counts, IdleOK DEF PasteWrite
<1>3. CASE UNCHANGED block
  BY <1>2, <1>3, SameBlock, Counts DEF PasteWrite, TInv, RowsOK
<1>4. CASE block.version = ed[t].version /\ block' = [block EXCEPT !.pasted = t]
  <2>1. /\ block'.version = block.version /\ block'.printed = block.printed
        /\ block'.digest = block.digest /\ block'.pasted = t
        /\ block' = [version |-> block'.version, printed |-> block'.printed,
                     digest |-> block'.digest, pasted |-> block'.pasted]
    BY <1>4 DEF TInv, BlockOK
  <2>2. block.printed = Printed(block.digest) /\ block.version # 0
    BY <1>1, <1>4 DEF TInv, BlockOK, NoBlock
  <2>3. block'.version \in 0..writes'
    BY <2>1, Counts DEF PasteWrite, TInv, BlockOK
  <2>4. BlockOK'
    BY <2>1, <2>2, <2>3 DEF BlockOK, Printed, Charged
  <2> QED
    BY <1>2, <2>4, Counts DEF PasteWrite, TInv, RowsOK
<1> QED
  BY <1>3, <1>4 DEF PasteWrite

LEMMA StepTInv == ASSUME ConstantsOK, TInv, [Next]_vars PROVE TInv'
<1>1. CASE UNCHANGED vars
  BY <1>1 DEF vars, TInv, RowsOK, JobsOK, BlockOK, Present, Printed, Charged
<1>2. ASSUME NEW t \in Editors, EditRead(t) \/ EditWrite(t) \/ AddRead(t) \/ AddWrite(t) PROVE TInv'
  BY <1>2, EditReadType, EditWriteType, AddReadType, AddWriteType
<1>3. ASSUME NEW t \in Editors, DayRead(t) \/ DayWrite(t) \/ DayLines(t) \/ DayLine(t) PROVE TInv'
  BY <1>3, DayReadType, DayWriteType, DayLinesType, DayLineType
<1>4. ASSUME NEW t \in Editors, MergeRead(t) \/ MergeWrite(t) PROVE TInv'
  BY <1>4, MergeReadType, MergeWriteType
<1>5. ASSUME NEW t \in Editors, BlockRead(t) \/ BlockWrite(t) \/ PasteRead(t) \/ PasteWrite(t)
      PROVE TInv'
  BY <1>5, BlockReadType, BlockWriteType, PasteReadType, PasteWriteType
<1> QED
  BY <1>1, <1>2, <1>3, <1>4, <1>5 DEF Next

LEMMA TypeInvariant == ConstantsOK => (Init /\ [][Next]_vars => []TInv)
<1> SUFFICES ASSUME ConstantsOK PROVE Init /\ [][Next]_vars => []TInv
  OBVIOUS
<1>1. Init => TInv
  BY InitTInv
<1>2. TInv /\ [Next]_vars => TInv'
  BY StepTInv
<1> QED
  BY <1>1, <1>2, PTL

\* Whoever edits while a block is generated, a block that does not read as stale
\* prints the lines as they are: BlockIsCurrent (work_orders_smr.py).
THEOREM BlocksAreCurrent == ConstantsOK => (Init /\ [][Next]_vars => [](TypeOK /\ BlockIsCurrent))
<1> SUFFICES ASSUME ConstantsOK PROVE Init /\ [][Next]_vars => [](TypeOK /\ BlockIsCurrent)
  OBVIOUS
<1>1. TInv => TypeOK /\ BlockIsCurrent
  BY Types, Currents
<1> QED
  BY <1>1, TypeInvariant, PTL

-----------------------------------------------------------------------------
\* One editor at a time: a line the rules accept, with the workers merged away by then,
\* and what a request has yet to write of the lines as it read them.
SoundRow(r, away) ==
    /\ r.status = "charged" => r.ground = None /\ r.week # None
    /\ r.week = WeekFor(r.date, r.basis, r.week)
    /\ r.worker \notin away

ToWrite(j, rows, away) ==
    /\ j.pc = "write" => SoundRow(Over(j.columns, rows[j.line]), away)
    /\ j.pc = "insert" => SoundRow(j.row, away)
    /\ j.pc = "merge" =>
          /\ j.keep \notin away /\ j.keep # j.dup
          /\ \A l \in Lines \ j.moved : rows[l] # None => rows[l].worker # j.dup

SInv ==
    /\ TInv
    /\ \A t \in Editors : Asks[t] = {} => ed[t] = Idle
    /\ \A l \in Present : SoundRow(lines[l], gone)
    /\ \A t \in Editors : ToWrite(ed[t], lines, gone)

LEMMA Sounds == ASSUME ConstantsOK, SInv PROVE LinesAreSound /\ RemovedIsNotBilled
<1>1. \A l \in Present : lines[l] \in LineRows /\ SoundRow(lines[l], gone)
  BY PresentIs DEF SInv
<1>2. LinesAreSound
  BY <1>1 DEF LinesAreSound, SoundRow
<1>3. ASSUME NEW l \in Present, lines[l].ground = "removed" PROVE lines[l].status = "excluded"
  <2>1. lines[l].status \in Statuses /\ (lines[l].status = "charged" => lines[l].ground = None)
    BY <1>1 DEF SoundRow, LineRows
  <2>2. None # "removed"
    BY DEF ConstantsOK, Grounds
  <2> QED
    BY <1>3, <2>1, <2>2 DEF Statuses
<1> QED
  BY <1>2, <1>3 DEF RemovedIsNotBilled

LEMMA InitSInv == ASSUME ConstantsOK, Init PROVE SInv
<1>1. TInv
  BY InitTInv
<1>2. \A t \in Editors : ed[t] = Idle /\ ToWrite(ed[t], lines, gone)
  BY DEF Init, ToWrite, Idle
<1>3. ASSUME NEW l \in Present PROVE SoundRow(lines[l], gone)
  <2>1. PICK v \in Vendors : lines[l] = Undated(v) /\ gone = {}
    BY DEF Init, Present
  <2> QED
    BY <2>1 DEF Undated, SoundRow, WeekFor
<1> QED
  BY <1>1, <1>2, <1>3 DEF SInv

\* What the rules accept, its week derived, is sound.
LEMMA AcceptedIsSound ==
    ASSUME ConstantsOK, RowsOK, NEW s \in LineRows, Sound(s, s.week)
    PROVE  SoundRow([s EXCEPT !.week = WeekFor(s.date, s.basis, s.week)], gone)
<1> DEFINE week == WeekFor(s.date, s.basis, s.week)
           r == [s EXCEPT !.week = week]
<1>1. /\ s.date \in Days \cup {None} /\ s.basis \in Bases /\ s.week \in Weeks \cup {None}
      /\ s.worker \in Workers \cup {None}
      /\ r.date = s.date /\ r.basis = s.basis /\ r.week = week /\ r.status = s.status
      /\ r.ground = s.ground /\ r.worker = s.worker
  BY DEF LineRows
<1>2. s.worker \notin gone
  BY <1>1 DEF Sound, Fits, RowsOK, ConstantsOK
<1>3. s.status = "charged" => week # None
  <2> HIDE DEF r
  <2>1. CASE s.date # None
    <3>1. week = WeekOf[s.date]
      BY <2>1 DEF WeekFor
    <3> QED
      BY <1>1, <2>1, <3>1 DEF ConstantsOK
  <2>2. CASE s.date = None /\ s.basis = "week1 placement"
    <3>1. week = 1
      BY <2>2 DEF WeekFor
    <3> QED
      BY <3>1 DEF ConstantsOK
  <2>3. CASE s.date = None /\ s.basis = "week placement"
    <3>1. week = s.week
      BY <2>3 DEF WeekFor
    <3> QED
      BY <2>3, <3>1 DEF Sound
  <2> QED
    BY <1>1, <2>1, <2>2, <2>3 DEF Sound, Placements, Bases
<1>4. week = WeekFor(s.date, s.basis, week)
  BY <1>1 DEF WeekFor, ConstantsOK
<1>5. s.status = "charged" => s.ground = None
  BY DEF Sound
<1>6. r.week = WeekFor(r.date, r.basis, r.week)
  BY <1>1, <1>4
<1> HIDE DEF r, week
<1>7. SoundRow(r, gone)
  BY <1>1, <1>2, <1>3, <1>5, <1>6 DEF SoundRow
<1> QED
  BY <1>7 DEF r, week

LEMMA EditIsSound ==
    ASSUME ConstantsOK, RowsOK, NEW x \in LineRows, NEW c, Part(c), Columns(x, c) # <<>>
    PROVE  SoundRow(Over(Columns(x, c), x), gone)
  BY ColumnsAre, AcceptedIsSound

\* One request moves: what it has yet to write is sound, and the others have nothing.
LEMMA Moves ==
    ASSUME ConstantsOK, OneEditor, SInv, TInv', NEW t \in Editors, Asks[t] # {},
           NEW j, Goto(t, j), ToWrite(j, lines', gone'),
           \A l \in Present' : SoundRow(lines'[l], gone')
    PROVE  SInv'
<1>1. \A u \in Editors \ {t} : ed[u] = Idle /\ Asks[u] = {}
  BY DEF OneEditor, SInv
<1>2. ed'[t] = j /\ \A u \in Editors \ {t} : ed'[u] = Idle
  BY <1>1 DEF Goto, SInv, TInv, JobsOK
<1>3. \A u \in Editors \ {t} : ToWrite(ed'[u], lines', gone')
  BY <1>2 DEF ToWrite, Idle
<1> QED
  BY <1>1, <1>2, <1>3 DEF SInv

\* A request that reads leaves the lines as they are.
LEMMA MovesReading ==
    ASSUME ConstantsOK, OneEditor, SInv, TInv', NEW t \in Editors, Asks[t] # {},
           NEW j, Goto(t, j), UNCHANGED <<lines, gone>>, ToWrite(j, lines, gone)
    PROVE  SInv'
<1>1. Present' = Present /\ \A l \in Present : SoundRow(lines'[l], gone')
  BY DEF Present, SInv
<1> QED
  BY <1>1, Moves

LEMMA NothingToWrite ==
    ASSUME NEW j, j.pc \notin {"write", "insert", "merge"}, NEW rows, NEW away
    PROVE  ToWrite(j, rows, away)
  BY DEF ToWrite

LEMMA Asking == ASSUME SInv, NEW t \in Editors, ed[t] # Idle PROVE Asks[t] # {}
  BY DEF SInv

LEMMA EditReadSound ==
    ASSUME ConstantsOK, OneEditor, SInv, NEW t \in Editors, EditRead(t), TInv' PROVE SInv'
<1>1. PICK l \in Present, body \in Bodies : \E c \in Matched(Dated(lines[l], body)) :
         /\ Columns(lines[l], c) # <<>>
         /\ Goto(t, [pc |-> "write", line |-> l, columns |-> Columns(lines[l], c),
                     left |-> {}, day |-> None])
  BY DEF EditRead
<1>2. PICK c \in Matched(Dated(lines[l], body)) :
         /\ Columns(lines[l], c) # <<>>
         /\ Goto(t, [pc |-> "write", line |-> l, columns |-> Columns(lines[l], c),
                     left |-> {}, day |-> None])
  BY <1>1
<1>3. Part(c) /\ lines[l] \in LineRows /\ RowsOK
  BY BodyParts, DatedParts, MatchedParts, PresentIs DEF SInv, TInv
<1>4. SoundRow(Over(Columns(lines[l], c), lines[l]), gone)
  BY <1>2, <1>3, EditIsSound
<1>5. ToWrite([pc |-> "write", line |-> l, columns |-> Columns(lines[l], c),
               left |-> {}, day |-> None], lines, gone)
  BY <1>4 DEF ToWrite
<1> QED
  BY <1>2, <1>5, MovesReading DEF EditRead, Ask

LEMMA EditWriteSound ==
    ASSUME ConstantsOK, OneEditor, SInv, NEW t \in Editors, EditWrite(t), TInv' PROVE SInv'
<1> DEFINE l == ed[t].line
           row == Over(ed[t].columns, lines[l])
           next == IF ed[t].left = {} THEN Idle
                   ELSE [pc |-> "cascade", left |-> ed[t].left, day |-> ed[t].day]
<1>1. ed[t].pc = "write" /\ l \in Present /\ SoundRow(row, gone) /\ Asks[t] # {}
  BY Asking DEF EditWrite, SInv, TInv, JobsOK, JobOK, ToWrite, Idle
<1>2. CASE lines' = [lines EXCEPT ![l] = row] /\ Goto(t, next)
  <2>1. \A k \in Present' : SoundRow(lines'[k], gone')
    BY <1>1, <1>2 DEF SInv, TInv, RowsOK, Present, EditWrite
  <2>2. ToWrite(next, lines', gone')
    BY DEF ToWrite, Idle
  <2> QED
    BY <1>1, <1>2, <2>1, <2>2, Moves
<1>3. CASE Goto(t, Idle) /\ UNCHANGED lines
  BY <1>1, <1>3, NothingToWrite, MovesReading DEF EditWrite, Idle
<1> QED
  BY <1>2, <1>3 DEF EditWrite

LEMMA AddReadSound ==
    ASSUME ConstantsOK, OneEditor, SInv, NEW t \in Editors, AddRead(t), TInv' PROVE SInv'
<1>1. PICK v \in Vendors, d \in Days \cup {None}, b \in Bases, w \in Workers \cup {None},
           sg \in {<<"charged", None>>} \cup ({"excluded"} \X Grounds) :
         LET row == [date |-> d, basis |-> b, week |-> WeekFor(d, b, None), status |-> sg[1],
                     ground |-> sg[2], vendor |-> v, worker |-> w]
         IN Sound(row, None) /\ Goto(t, [pc |-> "insert", row |-> row])
  BY DEF AddRead
<1> DEFINE row == [date |-> d, basis |-> b, week |-> WeekFor(d, b, None), status |-> sg[1],
                   ground |-> sg[2], vendor |-> v, worker |-> w]
<1>2. Sound(row, None) /\ Goto(t, [pc |-> "insert", row |-> row])
  BY <1>1
<1>3. /\ row.date = d /\ row.basis = b /\ row.week = WeekFor(d, b, None)
      /\ row.worker = w
  OBVIOUS
<1> HIDE DEF row
<1>4. w \notin gone
  BY <1>2, <1>3 DEF Sound, Fits, SInv, TInv, RowsOK, ConstantsOK
<1>5. ~(b = "week placement" /\ d = None)
  BY <1>2, <1>3 DEF Sound
<1>6. row.week = WeekFor(d, b, row.week)
  BY <1>3, <1>5 DEF WeekFor, ConstantsOK
<1>7. row.status = "charged" => row.ground = None /\ row.week # None
  <2>1. ASSUME d # None PROVE row.week # None
    <3>1. row.week = WeekOf[d]
      BY <1>3, <2>1 DEF WeekFor
    <3>2. WeekOf[d] \in Weeks
      BY <2>1 DEF ConstantsOK
    <3> QED
      BY <3>1, <3>2 DEF ConstantsOK
  <2>2. d = None /\ b = "week1 placement" => row.week = 1 /\ 1 # None
    BY <1>3 DEF WeekFor, ConstantsOK
  <2> QED
    BY <1>2, <1>3, <1>5, <2>1, <2>2 DEF Sound, Placements, Bases
<1>8. ToWrite([pc |-> "insert", row |-> row], lines, gone)
  BY <1>3, <1>4, <1>6, <1>7 DEF ToWrite, SoundRow
<1> QED
  BY <1>2, <1>8, MovesReading DEF AddRead, Ask

LEMMA AddWriteSound ==
    ASSUME ConstantsOK, OneEditor, SInv, NEW t \in Editors, AddWrite(t), TInv' PROVE SInv'
<1>1. /\ ed[t].pc = "insert" /\ SoundRow(ed[t].row, gone) /\ Asks[t] # {}
      /\ Goto(t, Idle) /\ UNCHANGED gone
  BY Asking DEF AddWrite, SInv, ToWrite, Idle
<1>2. CASE \E l \in Lines \ Present : lines' = [lines EXCEPT ![l] = ed[t].row]
  <2>1. \A k \in Present' : SoundRow(lines'[k], gone')
    BY <1>1, <1>2 DEF SInv, TInv, RowsOK, Present
  <2> QED
    BY <1>1, <2>1, NothingToWrite, Moves DEF Idle
<1>3. CASE UNCHANGED lines
  BY <1>1, <1>3, NothingToWrite, MovesReading DEF Idle
<1> QED
  BY <1>2, <1>3 DEF AddWrite

LEMMA DaySound ==
    ASSUME ConstantsOK, OneEditor, SInv, NEW t \in Editors, TInv',
           DayRead(t) \/ DayWrite(t) \/ DayLines(t)
    PROVE  SInv'
<1>1. Asks[t] # {} /\ UNCHANGED <<lines, gone>>
  BY Asking DEF DayRead, DayWrite, DayLines, Ask, Idle
<1>2. CASE DayRead(t)
  <2>1. PICK d \in Days \cup {None} : Goto(t, [pc |-> "day", day |-> d])
    BY <1>2 DEF DayRead
  <2> QED
    BY <1>1, <2>1, NothingToWrite, MovesReading
<1>3. CASE DayWrite(t)
  <2> DEFINE next == IF ed[t].day = None THEN Idle ELSE [pc |-> "undated", day |-> ed[t].day]
  <2>1. Goto(t, next) /\ next.pc \in {"idle", "undated"}
    BY <1>3 DEF DayWrite, Idle
  <2> HIDE DEF next
  <2> QED
    BY <1>1, <2>1, NothingToWrite, MovesReading
<1>4. CASE DayLines(t)
  <2> DEFINE left == {l \in Present : lines[l].date = None /\ lines[l].ground = "undated"}
             next == IF left = {} THEN Idle ELSE [pc |-> "cascade", left |-> left, day |-> ed[t].day]
  <2>1. Goto(t, next) /\ next.pc \in {"idle", "cascade"}
    BY <1>4 DEF DayLines, Idle
  <2> HIDE DEF next
  <2> QED
    BY <1>1, <2>1, NothingToWrite, MovesReading
<1> QED
  BY <1>2, <1>3, <1>4

LEMMA DayLineSound ==
    ASSUME ConstantsOK, OneEditor, SInv, NEW t \in Editors, DayLine(t), TInv' PROVE SInv'
<1>1. /\ ed[t].day \in Days \cup {None} /\ ed[t].left \subseteq Present /\ Asks[t] # {}
      /\ UNCHANGED <<lines, gone>> /\ RowsOK
  BY Asking DEF DayLine, SInv, TInv, JobsOK, JobOK, Idle
<1>2. Part([date |-> ed[t].day])
  BY <1>1 DEF Part, Fields
<1>3. PICK l \in ed[t].left :
         LET columns == Columns(lines[l], Dated(lines[l], [date |-> ed[t].day]))
         IN \/ /\ columns # <<>>
               /\ Goto(t, [pc |-> "write", line |-> l, columns |-> columns,
                           left |-> ed[t].left \ {l}, day |-> ed[t].day])
            \/ Goto(t, Idle)
  BY DEF DayLine
<1> DEFINE c == Dated(lines[l], [date |-> ed[t].day])
           columns == Columns(lines[l], c)
<1>4. Part(c) /\ lines[l] \in LineRows
  BY <1>1, <1>2, DatedParts, PresentIs DEF SInv
<1>5. columns # <<>> => SoundRow(Over(columns, lines[l]), gone)
  BY <1>1, <1>4, EditIsSound
<1>6. CASE columns # <<>> /\ Goto(t, [pc |-> "write", line |-> l, columns |-> columns,
                                     left |-> ed[t].left \ {l}, day |-> ed[t].day])
  <2> HIDE DEF columns
  <2>1. ToWrite([pc |-> "write", line |-> l, columns |-> columns,
                 left |-> ed[t].left \ {l}, day |-> ed[t].day], lines, gone)
    BY <1>5, <1>6 DEF ToWrite
  <2> QED
    BY <1>1, <1>6, <2>1, MovesReading
<1>7. CASE Goto(t, Idle)
  BY <1>1, <1>7, NothingToWrite, MovesReading DEF Idle
<1> HIDE DEF columns
<1> QED
  BY <1>3, <1>6, <1>7 DEF columns

LEMMA MergeReadSound ==
    ASSUME ConstantsOK, OneEditor, SInv, NEW t \in Editors, MergeRead(t), TInv' PROVE SInv'
<1>1. PICK dup \in Workers, keep \in Workers \ gone :
         /\ dup # keep
         /\ Goto(t, [pc |-> "merge", dup |-> dup, keep |-> keep, moved |-> Repointed(dup)])
  BY DEF MergeRead
<1>2. \A l \in Lines \ Repointed(dup) : lines[l] # None => lines[l].worker # dup
  BY DEF Repointed, Present
<1>3. ToWrite([pc |-> "merge", dup |-> dup, keep |-> keep, moved |-> Repointed(dup)], lines, gone)
  BY <1>1, <1>2 DEF ToWrite
<1> QED
  BY <1>1, <1>3, MovesReading DEF MergeRead, Ask

LEMMA MergeWriteSound ==
    ASSUME ConstantsOK, OneEditor, SInv, NEW t \in Editors, MergeWrite(t), TInv' PROVE SInv'
<1>1. /\ ed[t].pc = "merge" /\ ed[t].keep \in Workers /\ ed[t].moved \subseteq Present
      /\ ed[t].keep \notin gone /\ ed[t].keep # ed[t].dup /\ Asks[t] # {} /\ Goto(t, Idle)
      /\ \A l \in Lines \ ed[t].moved : lines[l] # None => lines[l].worker # ed[t].dup
      /\ gone' = gone \cup {ed[t].dup}
  BY Asking DEF MergeWrite, SInv, TInv, JobsOK, JobOK, ToWrite, Idle
<1>2. ASSUME NEW l \in Present' PROVE SoundRow(lines'[l], gone')
  <2>1. l \in Lines /\ lines'[l] # None
        /\ lines'[l] = IF l \in ed[t].moved THEN [lines[l] EXCEPT !.worker = ed[t].keep] ELSE lines[l]
    BY DEF Present, MergeWrite
  <2>2. l \in Present /\ lines[l] \in LineRows /\ SoundRow(lines[l], gone)
    BY <1>1, <2>1, PresentIs DEF Present, SInv
  <2>3. CASE l \in ed[t].moved
    <3>1. /\ lines'[l].date = lines[l].date /\ lines'[l].basis = lines[l].basis
          /\ lines'[l].week = lines[l].week /\ lines'[l].status = lines[l].status
          /\ lines'[l].ground = lines[l].ground /\ lines'[l].worker = ed[t].keep
      BY <2>1, <2>2, <2>3 DEF LineRows
    <3> QED
      BY <1>1, <2>2, <3>1 DEF SoundRow
  <2>4. CASE l \notin ed[t].moved
    BY <1>1, <2>1, <2>2, <2>4 DEF SoundRow
  <2> QED
    BY <2>3, <2>4
<1> QED
  BY <1>1, <1>2, NothingToWrite, Moves DEF Idle

LEMMA BlockSound ==
    ASSUME ConstantsOK, OneEditor, SInv, NEW t \in Editors, TInv',
           BlockRead(t) \/ BlockWrite(t) \/ PasteRead(t) \/ PasteWrite(t)
    PROVE  SInv'
<1>1. Asks[t] # {} /\ UNCHANGED <<lines, gone>>
  BY Asking DEF BlockRead, BlockWrite, PasteRead, PasteWrite, Ask, Idle
<1>2. \/ Goto(t, Idle)
      \/ Goto(t, [pc |-> "render", rows |-> lines, version |-> block.version + 1])
      \/ Goto(t, [pc |-> "stamp", version |-> block.version])
  BY DEF BlockRead, BlockWrite, PasteRead, PasteWrite
<1>3. CASE Goto(t, Idle)
  BY <1>1, <1>3, NothingToWrite, MovesReading DEF Idle
<1>4. CASE Goto(t, [pc |-> "render", rows |-> lines, version |-> block.version + 1])
  BY <1>1, <1>4, NothingToWrite, MovesReading
<1>5. CASE Goto(t, [pc |-> "stamp", version |-> block.version])
  BY <1>1, <1>5, NothingToWrite, MovesReading
<1> QED
  BY <1>2, <1>3, <1>4, <1>5

LEMMA StepSInv == ASSUME ConstantsOK, OneEditor, SInv, [Next]_vars PROVE SInv'
<1>1. TInv'
  BY StepTInv DEF SInv
<1>2. CASE UNCHANGED vars
  BY <1>1, <1>2 DEF vars, SInv, Present
<1>3. ASSUME NEW t \in Editors, EditRead(t) \/ EditWrite(t) \/ AddRead(t) \/ AddWrite(t) PROVE SInv'
  BY <1>1, <1>3, EditReadSound, EditWriteSound, AddReadSound, AddWriteSound
<1>4. ASSUME NEW t \in Editors, DayRead(t) \/ DayWrite(t) \/ DayLines(t) \/ DayLine(t) PROVE SInv'
  BY <1>1, <1>4, DaySound, DayLineSound
<1>5. ASSUME NEW t \in Editors, MergeRead(t) \/ MergeWrite(t) PROVE SInv'
  BY <1>1, <1>5, MergeReadSound, MergeWriteSound
<1>6. ASSUME NEW t \in Editors, BlockRead(t) \/ BlockWrite(t) \/ PasteRead(t) \/ PasteWrite(t)
      PROVE SInv'
  BY <1>1, <1>6, BlockSound
<1> QED
  BY <1>2, <1>3, <1>4, <1>5, <1>6 DEF Next

\* One editor, whatever he adds, edits, dates and merges, leaves no line the rules
\* refuse and none removed and charged: LinesAreSound, RemovedIsNotBilled
\* (_smr_lines.py).
THEOREM CorrectionsAreSound ==
    ConstantsOK /\ OneEditor =>
        (Init /\ [][Next]_vars => [](LinesAreSound /\ RemovedIsNotBilled))
<1> SUFFICES ASSUME ConstantsOK, OneEditor
             PROVE  Init /\ [][Next]_vars => [](LinesAreSound /\ RemovedIsNotBilled)
  OBVIOUS
<1>1. Init => SInv
  BY InitSInv
<1>2. SInv /\ [Next]_vars => SInv'
  BY StepSInv
<1>3. SInv => LinesAreSound /\ RemovedIsNotBilled
  BY Sounds
<1> QED
  BY <1>1, <1>2, <1>3, PTL
=============================================================================
