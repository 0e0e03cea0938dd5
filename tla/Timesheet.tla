----------------------------- MODULE Timesheet -----------------------------
(***************************************************************************)
(* What the pay record promises, whatever requests, sweeps and reads do    *)
(* behind it: a person's paid ticks grow only as time passes while he is   *)
(* on shift, and any other change leaves a row in the audit table.  The    *)
(* people in disputed had two requests about them overlap in time;         *)
(* nothing is promised about their ticks.                                  *)
(***************************************************************************)
EXTENDS Naturals

CONSTANT People

VARIABLES now,       \* the server's clock
          paid,      \* each person's ticks on the clock
          onShift,   \* who is punched in, as every screen shows it
          audits,    \* rows in the audit table
          disputed

vars == <<now, paid, onShift, audits, disputed>>

Init ==
    /\ now = 0
    /\ paid = [u \in People |-> {}]
    /\ onShift = {}
    /\ audits = 0
    /\ disputed = {}

\* Time passes: whoever is on shift earns the tick that ends.
Tick ==
    /\ now' = now + 1
    /\ \A u \in People \ disputed' :
        paid'[u] = IF u \in onShift THEN paid[u] \cup {now} ELSE paid[u]
    /\ onShift' \subseteq onShift \cup disputed'
    /\ audits' = audits

\* Somebody punches in or out, or a midnight is written down.
Punch ==
    /\ UNCHANGED <<now, audits>>
    /\ \A u \in People \ disputed' : paid'[u] = paid[u]

\* A correction: any change at all, with its audit rows.
Correct ==
    /\ now' = now
    /\ audits' > audits

Next ==
    /\ disputed \subseteq disputed'
    /\ Tick \/ Punch \/ Correct

Spec == Init /\ [][Next]_vars
=============================================================================
