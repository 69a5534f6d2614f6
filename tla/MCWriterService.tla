-------------------------- MODULE MCWriterService --------------------------
(* Small instances of WriterService for TLC. *)
EXTENDS WriterService, TLC

Schedule(auto, meta, info) ==
  (AutoPull :> auto) @@ (MetadataSync :> meta) @@ (ModelInfo :> info)

\* No reconfigure: only triggers, blockers and retention.
NoSettings == {}

\* A write and a read-only schedule, and a faster write schedule alone.
SomeSchedules == {Schedule(2, 0, 1), Schedule(1, 0, 0)}

\* Timers admit everything else.
ReconcileOnly == {Reconcile}

\* Two writes that fall due together: one can stay queued behind the other's doubt.
WriteSchedules == {Schedule(1, 1, 0)}
=============================================================================
