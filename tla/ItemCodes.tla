----------------------------- MODULE ItemCodes -----------------------------
(***************************************************************************)
(* The barcodes of the catalogue: services/items.py.  A code is the        *)
(* primary of one item or an additional code of one item; the database     *)
(* keeps each kind unique, and only a check made before the write, over    *)
(* rows nobody locked, keeps the two kinds apart.  A deleted item keeps    *)
(* its codes until somebody confirms that they are to be reused.           *)
(***************************************************************************)
EXTENDS Integers, FiniteSets, FiniteSetsExt

CONSTANTS Threads, Codes, None, Sends, MaxItems

VARIABLES item,    \* items with their item_barcodes: None, row or Purged by id
          job,     \* what each thread has read and will commit
          raced,   \* codes two overlapping requests claimed
          stolen,  \* codes a live item lost to another one
          refused  \* codes whose confirmed reuse the database refused

vars == <<item, job, raced, stolen, refused>>

NewItem(c) == [primary |-> c, alts |-> {}, archived |-> FALSE, history |-> FALSE,
               cited |-> FALSE]
Purged == [primary |-> None, alts |-> {}, archived |-> TRUE, history |-> FALSE,
           cited |-> FALSE]   \* the row is gone

Ids == 1 .. MaxItems
Items == {i \in Ids : item[i] \notin {None, Purged}}
Free == {i \in Ids : item[i] = None}
Live == {i \in Items : ~item[i].archived}
Held(i) == {item[i].primary} \cup item[i].alts
Holders(c) == {i \in Items : c \in Held(i)}
Idle == [phase |-> "idle"]

ItemRows == [primary : Codes \cup {None},   \* None: retired
             alts : SUBSET Codes, archived : BOOLEAN, history : BOOLEAN, cited : BOOLEAN]

TypeOK ==
    /\ \A i \in Items : item[i] \in ItemRows
    /\ {raced, stolen, refused} \subseteq SUBSET Codes

Init ==
    /\ item = [i \in Ids |-> None]
    /\ job = [t \in Threads |-> Idle]
    /\ raced = {}
    /\ stolen = {}
    /\ refused = {}

-----------------------------------------------------------------------------
(* Before the write: _ensure_barcode_free for every code a request adds.   *)

\* Seeded fault: the check asks the primary codes only.
Holder_PrimaryOnly(c, self) ==
    LET primary == {i \in Holders(c) \ {self} : item[i].primary = c}
    IN  IF primary = {} THEN None ELSE Min(primary)

\* _barcode_holder: another item's primary before another item's additional.
Holder(c, self) ==
    LET others == Holders(c) \ {self}
        primary == {i \in others : item[i].primary = c}
    IN  IF others = {} THEN None ELSE IF primary # {} THEN Min(primary) ELSE Min(others)

CodeFree(c, self, override) ==
    \A h \in {Holder(c, self)} \ {None} : override /\ item[h].archived

NewCodes(r) ==
    CASE r.op = "create" -> {r.code}
      [] r.op = "edit" -> {r.code} \ {item[r.id].primary}
      [] r.op = "relabel" -> r.codes \ item[r.id].alts

Accepted(r) ==
    /\ \A c \in NewCodes(r) : CodeFree(c, r.id, r.override)
    /\ r.op = "relabel" => item[r.id].primary \notin NewCodes(r)

\* _free_archived_holder: a holder without history goes, one with history
\* keeps its row and gives up the code.
Freed(h, c) ==
    [id |-> h, code |-> c, how |-> IF ~item[h].history THEN "purge"
                                   ELSE IF item[h].primary = c THEN "retire" ELSE "drop"]

Ask(o, i, c, C, b) == [op |-> o, id |-> i, code |-> c, codes |-> C, override |-> b]
Asked(o) ==
    CASE o = "create" -> {Ask(o, None, c, {}, b) : c \in Codes, b \in BOOLEAN}
      [] o = "edit" -> {Ask(o, i, c, {}, b) : i \in Items, c \in Codes, b \in BOOLEAN}
      [] o = "relabel" -> {Ask(o, i, None, C, b) :
                              i \in Items, C \in SUBSET Codes, b \in BOOLEAN}

\* FOR UPDATE: an edit locks its item, and whoever writes that row waits.
Locked(i) == \E u \in Threads : job[u].phase = "commit" /\ job[u].req.id = i
                                /\ job[u].req.op = "edit"

Read(t) ==
    /\ job[t].phase = "idle"
    /\ \E o \in Sends[t] : \E r \in Asked(o) :
        /\ o = "edit" => ~Locked(r.id)
        /\ o = "create" => Free # {}   \* the bound on items, here and at the commit
        /\ Accepted(r)
        /\ job' = [job EXCEPT ![t] =
             [phase |-> "commit", req |-> r, adds |-> NewCodes(r),
              frees |-> {Freed(Holder(c, r.id), c) : c \in
                            {c \in NewCodes(r) : Holder(c, r.id) # None}},
              drops |-> IF r.op = "relabel" THEN item[r.id].alts \ r.codes ELSE {}]]
    /\ UNCHANGED <<item, raced, stolen, refused>>

-----------------------------------------------------------------------------
(* The commit, under the two unique constraints.                           *)

AfterFrees(frees) ==
    [i \in Ids |-> LET mine == {f \in frees : f.id = i} IN
        IF mine = {} \/ i \notin Items THEN item[i]
        ELSE IF \E f \in mine : f.how = "purge" THEN Purged
        ELSE [item[i] EXCEPT
                !.primary = IF \E f \in mine : f.how = "retire" THEN None ELSE @,
                !.alts = @ \ {f.code : f \in {f \in mine : f.how = "drop"}}]]

\* user_requests.item_id and work_order_items.item_id restrict the delete.
StillCited(frees) ==
    {f.code : f \in {f \in frees : f.how = "purge" /\ f.id \in Items
                                   /\ (item[f.id].cited \/ item[f.id].history)}}

Written(r, j, rows) ==
    CASE r.op = "create" -> [rows EXCEPT ![Min(Free)] = NewItem(r.code)]
      [] r.op = "edit" -> [rows EXCEPT ![r.id].primary = r.code]
      [] r.op = "relabel" -> [rows EXCEPT ![r.id].alts = (@ \ j.drops) \cup j.adds]

\* UNIQUE (items.barcode) and UNIQUE (item_barcodes.code); a code added to an
\* item that has it by now is a second row all the same.
Violates(j, rows, new) ==
    \/ \E i, k \in Ids : i # k /\ new[i] # None /\ new[k] # None
         /\ \/ new[i].primary = new[k].primary /\ new[i].primary # None
            \/ new[i].alts \cap new[k].alts # {}
    \/ j.req.op = "relabel" /\ j.adds \cap rows[j.req.id].alts # {}

Commit(t) ==
    LET j == job[t]  rows == AfterFrees(j.frees)  new == Written(j.req, j, rows)
        gone == j.req.id # None /\ rows[j.req.id] = Purged IN
    /\ j.phase = "commit"
    /\ j.req.op # "edit" /\ j.req.id # None => ~Locked(j.req.id)
    /\ \A f \in j.frees : ~Locked(f.id)
    /\ j.req.op = "create" => Free # {}
    /\ refused' = refused \cup StillCited(j.frees)
    /\ IF gone \/ StillCited(j.frees) # {} \/ Violates(j, rows, new)
       THEN UNCHANGED <<item, raced, stolen>>
       ELSE /\ item' = new
            /\ raced' = raced \cup UNION {j.adds \cap job[u].adds : u \in
                            {u \in Threads \ {t} : job[u].phase = "commit"}}
            /\ stolen' = stolen \cup {c \in Codes : \E i \in Live :
                  /\ c \in Held(i)
                  /\ j.req.id # i
                  /\ c \notin {new[i].primary} \cup new[i].alts}
    /\ job' = [job EXCEPT ![t] = Idle]

\* delete_item; a stock movement or a staging plan; a request or a line.
Archive(i) == item' = [item EXCEPT ![i].archived = TRUE]
Use(i) == i \in Live /\ item' = [item EXCEPT ![i].history = TRUE]
Cite(i) == i \in Live /\ item' = [item EXCEPT ![i].cited = TRUE]

Next ==
    \/ \E t \in Threads : Read(t) \/ Commit(t)
    \/ \E i \in Items : /\ ~Locked(i)
                       /\ (Archive(i) \/ Use(i) \/ Cite(i))
                       /\ UNCHANGED <<job, raced, stolen, refused>>

Spec == Init /\ [][Next]_vars

-----------------------------------------------------------------------------
(* Properties.                                                             *)

\* get_item_by_barcode: a scan never finds two live items, as long as no two
\* overlapping requests claimed the code (one as primary, one as additional:
\* no constraint keeps those apart).
ScanFindsOne ==
    \A c \in Codes \ raced : Cardinality(Holders(c) \cap Live) <= 1

\* Reusing a deleted item's code takes no code from a live item, whatever
\* was renamed or relabelled between the check and the write.
LiveKeepsCodes == stolen = {}

\* Stated by the repository and not kept by the code (README, Disagreements).
\* A confirmed reuse of a deleted item's code goes through ("the holder is
\* freed via _free_archived_holder and the caller may apply the code").
ReuseGoesThrough == refused = {}
=============================================================================
