-------------------------- MODULE MCEventPipeline --------------------------
(* EventPipeline on small instances: processes are interchangeable, and so *)
(* are the catch-ups of one process.                                       *)
EXTENDS EventPipeline, TLC

Symmetry == Permutations(Procs) \union Permutations(Replays)
=============================================================================
