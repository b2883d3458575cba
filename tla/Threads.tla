------------------------------- MODULE Threads -------------------------------
(***************************************************************************)
(* What the modules of the thread package have in common: the Thread       *)
(* objects of a run and the null pointer.                                  *)
(***************************************************************************)
CONSTANTS
  Thread,   \* every Thread object the run may allocate
  NULL      \* the null pointer

ASSUME NullAssumption == NULL \notin Thread
=============================================================================
