------------------------------ MODULE Semaphore ------------------------------
(***************************************************************************)
(* The counting semaphore of threads/synch.cc.                             *)
(*                                                                         *)
(* Each method runs with interrupts disabled up to its Thread::Sleep, so   *)
(* the steps are: P up to its return or its Sleep, the code from the       *)
(* return of Sleep to the next Sleep or the end of P, V, and Destroy.      *)
(* Between two steps any thread may run: V only puts the waiter on the     *)
(* ready list, and until it is dispatched other callers may take the unit  *)
(* it was woken for.  The order in which ready threads are dispatched is   *)
(* left open here (module Scheduler has the ready list).                   *)
(***************************************************************************)
EXTENDS Threads, Integers, Sequences, FiniteSets

CONSTANTS
  InitialValue,  \* the constructor's initialValue
  MaxValue       \* bound: V is not called beyond this value

ASSUME SemaphoreAssumption ==
  /\ IsFiniteSet(Thread)
  /\ MaxValue \in Nat
  /\ InitialValue \in 0..MaxValue

VARIABLES
  value,   \* Semaphore::value
  queue,   \* Semaphore::queue, the sleeping threads
  woken    \* threads taken off the queue whose Sleep has not returned yet

semVars == <<value, queue, woken>>

\* The threads asleep in P.
Asleep == {queue[i] : i \in 1..Len(queue)}

SemTypeOK ==
  /\ value \in 0..MaxValue
  /\ queue \in Seq(Thread)
  /\ woken \subseteq Thread

SemInit ==
  /\ value = InitialValue
  /\ queue = <<>>
  /\ woken = {}

\* Mutant: the loop of P is an if: a woken thread takes a unit without looking.
TakeOrSleepOnce(t) ==
  \/ /\ value > 0 \/ t \in woken
     /\ value' = value - 1
     /\ UNCHANGED queue
  \/ /\ value = 0
     /\ t \notin woken
     /\ queue' = Append(queue, t)
     /\ UNCHANGED value

\* One turn of the loop of P: take a unit, or join the queue and sleep.
TakeOrSleep(t) ==
  \/ /\ value > 0
     /\ value' = value - 1
     /\ UNCHANGED queue
  \/ /\ value = 0
     /\ queue' = Append(queue, t)
     /\ UNCHANGED value

\* Semaphore::P, from the call.
P(t) ==
  /\ t \notin Asleep \cup woken
  /\ TakeOrSleep(t)
  /\ UNCHANGED woken

\* Semaphore::P, from the return of Sleep: the value is tested again.
Resume(t) ==
  /\ t \in woken
  /\ woken' = woken \ {t}
  /\ TakeOrSleep(t)

\* Mutant: V wakes a waiter only when it makes the value positive.
VOnlyFromZero ==
  /\ value < MaxValue
  /\ value' = value + 1
  /\ \/ /\ queue # <<>> /\ value = 0
        /\ queue' = Tail(queue)
        /\ woken' = woken \cup {Head(queue)}
     \/ /\ queue = <<>> \/ value > 0
        /\ UNCHANGED <<queue, woken>>

\* Semaphore::V, called by a running thread or by an interrupt handler: wake
\* the first waiter, if any, and increment in either case.
V ==
  /\ value < MaxValue
  /\ value' = value + 1
  /\ \/ /\ queue # <<>>
        /\ queue' = Tail(queue)
        /\ woken' = woken \cup {Head(queue)}
     \/ /\ queue = <<>>
        /\ UNCHANGED <<queue, woken>>

\* Semaphore::Destroy: ready every waiter, leave the value alone.
Destroy ==
  /\ queue # <<>>
  /\ queue' = <<>>
  /\ woken' = woken \cup Asleep
  /\ UNCHANGED value

SemNext ==
  \/ \E t \in Thread : P(t) \/ Resume(t)
  \/ V
  \/ Destroy

SemSpec == SemInit /\ [][SemNext]_semVars

\* A thread on the ready list is eventually dispatched (Scheduler!ReadyRuns).
SemFairness == \A t \in Thread : WF_semVars(Resume(t))

FairSemSpec == SemSpec /\ SemFairness

-----------------------------------------------------------------------------
(* Properties.                                                             *)

\* A thread is queued at most once and never both queued and ready.
QueueConsistent ==
  /\ \A i, j \in 1..Len(queue) : queue[i] = queue[j] => i = j
  /\ Asleep \cap woken = {}

\* No lost wakeup: while threads sleep in P, every available unit has a woken
\* thread on its way to it -- although callers of P may overtake the woken
\* ones (V readies a waiter but leaves the unit in value).
NoLostWakeup == queue # <<>> => value <= Cardinality(woken)

\* The callers see an atomic counting semaphore: threads asleep or woken are
\* the blocked ones, and the wakeups, the repeated tests and Destroy are
\* invisible.
Abstract == INSTANCE AbstractSemaphore WITH blocked <- Asleep \cup woken

\* Every behaviour of P, V and Destroy is one of the abstract semaphore.
ImplementsSemaphore == Abstract!Spec

\* With every ready thread dispatched, its promise of progress holds as well:
\* units do not stay available beside threads blocked in P for ever.
ImplementsFairSemaphore == Abstract!FairSpec

\* The inductive strengthening.
SemIInv == SemTypeOK /\ QueueConsistent /\ NoLostWakeup
=============================================================================
