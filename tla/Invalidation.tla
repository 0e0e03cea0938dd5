----------------------------- MODULE Invalidation ----------------------------
(***************************************************************************)
(* What the real-time layer promises (docs: principles P1, P2 and P4): it  *)
(* carries no data, only the news that something changed, and every screen *)
(* that is behind fetches again, unless it is excused.                     *)
(***************************************************************************)
EXTENDS Integers

CONSTANTS Screens, LastVersion

VARIABLES version,  \* what is committed
          seen,     \* the version each screen shows, -1 for a blank one
          excused   \* screens nothing is promised to

vars == <<version, seen, excused>>

Init ==
    /\ version = 0
    /\ seen = [s \in Screens |-> -1]
    /\ excused \in [Screens -> BOOLEAN]

Commit ==
    /\ version < LastVersion
    /\ version' = version + 1
    /\ UNCHANGED <<seen, excused>>

Fetch(s) ==
    /\ seen' = [seen EXCEPT ![s] = version]
    /\ excused' \in [Screens -> BOOLEAN]
    /\ UNCHANGED version

Excuse ==
    /\ excused' \in [Screens -> BOOLEAN]
    /\ UNCHANGED <<version, seen>>

Next == Commit \/ Excuse \/ \E s \in Screens : Fetch(s)

Fairness == \A s \in Screens : WF_vars(Fetch(s) /\ seen[s] # version /\ ~excused[s])

Spec == Init /\ [][Next]_vars /\ Fairness
==============================================================================
