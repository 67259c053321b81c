---------------------------- MODULE MCRecallCache ----------------------------
(* Small instances of RecallCache.                                          *)
EXTENDS RecallCache
=============================================================================
