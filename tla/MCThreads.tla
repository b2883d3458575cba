------------------------------ MODULE MCThreads ------------------------------
(***************************************************************************)
(* Small instances of the modules of the thread package for TLC, one of    *)
(* which is chosen at the start: the scheduler, the semaphore, or the      *)
(* synchronized list on its lock and condition.  The threads of each are   *)
(* symmetric, but a run that checks liveness may not make use of that.     *)
(***************************************************************************)
EXTENDS Scheduler, Semaphore, SynchList

VARIABLE subject   \* the module that runs; the others stay at their start

MCVars == <<subject, schedVars, semVars, allVars>>

MCInit ==
  /\ SchedInit /\ SemInit /\ ListInit
  /\ subject \in {"scheduler", "semaphore", "list"}

MCNext ==
  \/ subject = "scheduler" /\ SchedNext /\ UNCHANGED <<subject, semVars, allVars>>
  \/ subject = "semaphore" /\ SemNext /\ UNCHANGED <<subject, schedVars, allVars>>
  \/ subject = "list" /\ ListNext /\ UNCHANGED <<subject, schedVars, semVars>>

\* Nothing the three ask fairness of is enabled in the start state of its module.
MCSpec == MCInit /\ [][MCNext]_MCVars /\ SchedFairness /\ SemFairness /\ ListFairness
=============================================================================
