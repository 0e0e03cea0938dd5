-------------------------- MODULE StageAllocation --------------------------
(***************************************************************************)
(* How a Mass Stage spreads one item over the rooms that planned it: the   *)
(* pure rules of domain/mass_staging.py.  rooms is the sequence of slots in *)
(* sort_order, each a record of planned, loaded and returned quantities;   *)
(* an allocation gives each room its share, zero for a room the code omits. *)
(***************************************************************************)
EXTENDS Integers, Sequences, SequencesExt

\* What a room still needs, and what it has on the truck.
Larger(m, n) == IF m >= n THEN m ELSE n
Need(room) == Larger(0, room.planned - room.loaded)
NetLoaded(room) == Larger(0, room.loaded - room.returned)

Sum(seq) ==
    LET upTo[i \in 0..Len(seq)] == IF i = 0 THEN 0 ELSE upTo[i - 1] + seq[i] IN upTo[Len(seq)]

\* Walk the rooms, each taking what it can of what is left.
Walk(rooms, CanTake(_), quantity) ==
    FoldLeft(LAMBDA acc, room :
                 LET take == Min({acc.left, CanTake(room)})
                 IN [left |-> acc.left - take, taken |-> Append(acc.taken, take)],
             [left |-> quantity, taken |-> <<>>], rooms)

\* Fill in sort order; what no room planned lands on the last one.
AllocateLoad(rooms, quantity) ==
    LET walked == Walk(rooms, Need, quantity)
    IN [walked.taken EXCEPT ![Len(rooms)] = @ + walked.left]

Returnable(rooms) == Sum([i \in 1..Len(rooms) |-> NetLoaded(rooms[i])])

\* The last room, which took the surplus, gives back first.
AllocateReturn(rooms, quantity) == Reverse(Walk(Reverse(rooms), NetLoaded, quantity).taken)
=============================================================================
