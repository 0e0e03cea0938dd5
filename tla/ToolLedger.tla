----------------------------- MODULE ToolLedger -----------------------------
(***************************************************************************)
(* What the tool crib promises: each operation is one indivisible step on  *)
(* the shelf counts and on what each user holds.  No thread, no lock, no   *)
(* stale read; ToolCustody is shown to implement it.                       *)
(***************************************************************************)
EXTENDS Integers

CONSTANTS Tools, Users,
          Amounts,      \* the quantities a request may carry
          Opening,      \* every tool's shelf count at the start
          HeldAtStart   \* what a user may hold of a tool at the start

VARIABLES onHand,       \* tools.quantity
          out,          \* checkouts minus returns, per tool and user
          live,         \* tools not archived
          active        \* users not archived

ledgerVars == <<onHand, out, live, active>>

Init ==
    /\ onHand = [k \in Tools |-> Opening]
    /\ out \in [Tools -> [Users -> HeldAtStart]]
    /\ live = [k \in Tools |-> TRUE]
    /\ active = [u \in Users |-> TRUE]

Checkout(k, u, q) ==
    /\ live[k] /\ active[u] /\ q <= onHand[k]
    /\ onHand' = [onHand EXCEPT ![k] = @ - q]
    /\ out' = [out EXCEPT ![k][u] = @ + q]
    /\ UNCHANGED <<live, active>>

Return(k, u, q) ==
    /\ live[k] /\ q <= out[k][u]
    /\ onHand' = [onHand EXCEPT ![k] = @ + q]
    /\ out' = [out EXCEPT ![k][u] = @ - q]
    /\ UNCHANGED <<live, active>>

CorrectCount(k, q) ==
    /\ live[k]
    /\ onHand' = [onHand EXCEPT ![k] = q]
    /\ UNCHANGED <<out, live, active>>

RetireTool(k) ==
    /\ \A u \in Users : out[k][u] = 0
    /\ live' = [live EXCEPT ![k] = FALSE]
    /\ UNCHANGED <<onHand, out, active>>

\* Everything the user still holds comes in with him.
ArchiveUser(u) ==
    /\ onHand' = [k \in Tools |-> onHand[k] + out[k][u]]
    /\ out' = [k \in Tools |-> [out[k] EXCEPT ![u] = 0]]
    /\ active' = [active EXCEPT ![u] = FALSE]
    /\ UNCHANGED live

RestoreUser(u) ==
    /\ active' = [active EXCEPT ![u] = TRUE]
    /\ UNCHANGED <<onHand, out, live>>

Next ==
    \/ \E k \in Tools, u \in Users, q \in Amounts : Checkout(k, u, q) \/ Return(k, u, q)
    \/ \E k \in Tools, q \in Amounts \cup {0} : CorrectCount(k, q)
    \/ \E k \in Tools : RetireTool(k)
    \/ \E u \in Users : ArchiveUser(u) \/ RestoreUser(u)

Spec == Init /\ [][Next]_ledgerVars
=============================================================================
