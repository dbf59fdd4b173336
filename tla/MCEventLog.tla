----------------------------- MODULE MCEventLog -----------------------------
(***************************************************************************)
(* EventLog for TLC: processes and event ids are interchangeable.          *)
(***************************************************************************)
EXTENDS EventLog, TLC

Symmetry == Permutations(Procs) \cup Permutations(Ids)
=============================================================================
