------------------------------- MODULE MCPeople -------------------------------
(***************************************************************************)
(* Values for the constants of Personnel (people.cfg).                     *)
(***************************************************************************)
EXTENDS Personnel, TLC

CONSTANTS t1, t2, w, a

\* Shifts: every operation by one thread; then two threads that cross each other.
Alone == t1 :> Ops @@ t2 :> {}
Crossing == t1 :> {"punchIn", "edit", "delete", "review"} @@ t2 :> {"punchIn", "punchOut"}

\* An Owner and a person he manages.
Ranked == a :> 2 @@ w :> 0
Managing == t1 :> {"signIn"} @@ t2 :> {"role", "reset", "archive", "delete"}

\* One item, two clerks.
Every == {"stock", "retune", "edit", "attach", "fulfil", "archive"}
Clerks == t1 :> Every @@ t2 :> Every
=============================================================================
