----------------------------- MODULE WriterGate -----------------------------
(***************************************************************************)
(* What the Writer promises about doubt, whatever its queue and its commit *)
(* protocol do: it is busy with one run at a time, it starts in doubt, a   *)
(* write is under way only while there is no doubt, it may leave one when  *)
(* it ends, and only a reconcile run removes one.                          *)
(***************************************************************************)
CONSTANTS
  NoDoubt,      \* nothing is in doubt
  StartupDoubt, \* nothing has been verified since the process started
  WriteDoubts   \* what a write can leave

VARIABLES
  doubt, \* what a reconcile has to settle before the next write
  phase  \* "idle", "writing" or "reconciling"

vars == <<doubt, phase>>

Init == doubt = StartupDoubt /\ phase = "idle"

BeginWrite == phase = "idle" /\ doubt = NoDoubt /\ phase' = "writing" /\ doubt' = doubt

EndWrite == phase = "writing" /\ phase' = "idle" /\ doubt' \in WriteDoubts \cup {NoDoubt}

BeginReconcile == phase = "idle" /\ phase' = "reconciling" /\ doubt' = doubt

\* The reconcile settles the doubt, or ends, or both.
Reconcile ==
  /\ phase = "reconciling"
  /\ phase' \in {"reconciling", "idle"}
  /\ doubt' \in {doubt, NoDoubt}

\* The process starts again.
Crash == phase' = "idle" /\ doubt' = StartupDoubt

Next == BeginWrite \/ EndWrite \/ BeginReconcile \/ Reconcile \/ Crash

Spec == Init /\ [][Next]_vars
=============================================================================
