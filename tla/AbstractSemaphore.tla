-------------------------- MODULE AbstractSemaphore --------------------------
(***************************************************************************)
(* What a counting semaphore promises its callers: P takes one unit when   *)
(* there is one and otherwise waits for one, V adds a unit.  No queue, no  *)
(* wakeups, no scheduler.  threads/synch.cc is shown to implement it.      *)
(***************************************************************************)
EXTENDS Integers

CONSTANTS
  Thread,        \* the callers
  InitialValue,  \* units at the start
  MaxValue       \* bound: units at any one time

VARIABLES
  value,         \* units available
  blocked        \* threads inside P that have not been given a unit

vars == <<value, blocked>>

Init == value = InitialValue /\ blocked = {}

\* P finds a unit.
Take(t) ==
  /\ t \notin blocked
  /\ value > 0
  /\ value' = value - 1
  /\ UNCHANGED blocked

\* P finds none: the caller starts to wait.  It may not wait otherwise.
StartWait(t) ==
  /\ t \notin blocked
  /\ value = 0
  /\ blocked' = blocked \cup {t}
  /\ UNCHANGED value

\* A waiting caller is given a unit and leaves P.
EndWait(t) ==
  /\ t \in blocked
  /\ value > 0
  /\ value' = value - 1
  /\ blocked' = blocked \ {t}

Give ==
  /\ value < MaxValue
  /\ value' = value + 1
  /\ UNCHANGED blocked

Next ==
  \/ \E t \in Thread : Take(t) \/ StartWait(t) \/ EndWait(t)
  \/ Give

Spec == Init /\ [][Next]_vars

SomeWaitEnds == \E t \in Thread : EndWait(t)

\* Units and waiting callers do not coexist for ever.
FairSpec == Spec /\ WF_vars(SomeWaitEnds)
=============================================================================
