------------------------------- MODULE Monitor -------------------------------
(***************************************************************************)
(* A Lock and a Condition of threads/synch.cc used together by any number  *)
(* of threads that keep the conventions of synch.h: a thread releases only *)
(* a lock it acquired and uses the condition only while it holds the lock. *)
(*                                                                         *)
(* Every method runs with interrupts disabled up to its Thread::Sleep; a   *)
(* woken thread goes on in a later step, after whatever other threads the  *)
(* scheduler chose to run first.                                           *)
(***************************************************************************)
EXTENDS Threads, Naturals, Sequences

VARIABLES
  available,   \* Lock::available
  owner,       \* Lock::owner
  lockQueue,   \* Lock::queue
  isBusy,      \* Condition::isBusy, FALSE while a signal is unconsumed
  condQueue,   \* Condition::queue
  pc           \* where each thread is

lockVars == <<available, owner, lockQueue>>
condVars == <<isBusy, condQueue>>
vars == <<available, owner, lockQueue, isBusy, condQueue, pc>>

\* out: not in the monitor; inside: holds the lock; acquiring / acquireWoken:
\* asleep in Acquire, readied; waiting / waitWoken: asleep in Wait, readied;
\* bcTest / bcSignal: in the loop of Broadcast, before the test / the Signal.
Location == {"out", "inside", "acquiring", "acquireWoken", "waiting",
             "waitWoken", "bcTest", "bcSignal"}

TypeOK ==
  /\ available \in BOOLEAN
  /\ owner \in Thread \cup {NULL}
  /\ lockQueue \in Seq(Thread)
  /\ isBusy \in BOOLEAN
  /\ condQueue \in Seq(Thread)
  /\ pc \in [Thread -> Location]

Init ==
  /\ available = TRUE
  /\ owner = NULL
  /\ lockQueue = <<>>
  /\ isBusy = TRUE
  /\ condQueue = <<>>
  /\ pc = [t \in Thread |-> "out"]

-----------------------------------------------------------------------------
(* Lock                                                                    *)

\* Mutant: Acquire does not test again after Sleep returns.
TryAcquireOnce(t) ==
  \/ /\ available \/ pc[t] = "acquireWoken"
     /\ available' = FALSE
     /\ owner' = t
     /\ pc' = [pc EXCEPT ![t] = "inside"]
     /\ UNCHANGED lockQueue
  \/ /\ ~available /\ pc[t] # "acquireWoken"
     /\ lockQueue' = Append(lockQueue, t)
     /\ pc' = [pc EXCEPT ![t] = "acquiring"]
     /\ UNCHANGED <<available, owner>>

\* One turn of the loop of Lock::Acquire.
TryAcquire(t) ==
  \/ /\ available
     /\ available' = FALSE
     /\ owner' = t
     /\ pc' = [pc EXCEPT ![t] = "inside"]
     /\ UNCHANGED lockQueue
  \/ /\ ~available
     /\ lockQueue' = Append(lockQueue, t)
     /\ pc' = [pc EXCEPT ![t] = "acquiring"]
     /\ UNCHANGED <<available, owner>>

\* Lock::Acquire, from the call.
Acquire(t) ==
  /\ pc[t] = "out"
  /\ TryAcquire(t)
  /\ UNCHANGED condVars

\* Lock::Acquire, from the return of Sleep.
AcquireResume(t) ==
  /\ pc[t] = "acquireWoken"
  /\ TryAcquire(t)
  /\ UNCHANGED condVars

\* The thread states after Lock::Release has readied the first waiter.
ReadyLockWaiter(at) ==
  IF lockQueue = <<>> THEN at ELSE [at EXCEPT ![Head(lockQueue)] = "acquireWoken"]

\* The rest of the queue after Lock::Release.
Dequeue(queue) == IF queue = <<>> THEN queue ELSE Tail(queue)

\* Mutant: Release forgets the waiters.
ReleaseNoWakeup(t) ==
  /\ pc[t] = "inside"
  /\ available' = TRUE
  /\ pc' = [pc EXCEPT ![t] = "out"]
  /\ UNCHANGED <<owner, lockQueue, isBusy, condQueue>>

\* Lock::Release: owner keeps its value.
Release(t) ==
  /\ pc[t] = "inside"
  /\ available' = TRUE
  /\ lockQueue' = Dequeue(lockQueue)
  /\ pc' = ReadyLockWaiter([pc EXCEPT ![t] = "out"])
  /\ UNCHANGED <<owner, isBusy, condQueue>>

\* Lock::isHeldByCurrentThread
IsHeldBy(t) == owner = t

-----------------------------------------------------------------------------
(* Condition                                                               *)

\* Condition::Wait, from the call: release the lock, which readies the first
\* thread waiting for it; then sleep or, if a signal has not been consumed,
\* consume it and take the lock again at once.
Wait(t) ==
  /\ pc[t] = "inside"
  /\ IsHeldBy(t)
  /\ lockQueue' = Dequeue(lockQueue)
  /\ UNCHANGED owner
  /\ \/ /\ isBusy
        /\ available' = TRUE
        /\ condQueue' = Append(condQueue, t)
        /\ pc' = ReadyLockWaiter([pc EXCEPT ![t] = "waiting"])
        /\ UNCHANGED isBusy
     \/ /\ ~isBusy
        /\ isBusy' = TRUE
        /\ available' = FALSE
        /\ pc' = ReadyLockWaiter(pc)
        /\ UNCHANGED condQueue

\* Condition::Wait, from the return of Sleep: unless another thread consumed
\* the signal meanwhile, consume it and acquire the lock.
WaitResume(t) ==
  /\ pc[t] = "waitWoken"
  /\ \/ /\ isBusy
        /\ condQueue' = Append(condQueue, t)
        /\ pc' = [pc EXCEPT ![t] = "waiting"]
        /\ UNCHANGED <<available, owner, lockQueue, isBusy>>
     \/ /\ ~isBusy
        /\ isBusy' = TRUE
        /\ TryAcquire(t)
        /\ UNCHANGED condQueue

\* Mutant: Signal marks the signal even when nobody waits.
NotifyAlways(at) ==
  /\ isBusy' = FALSE
  /\ condQueue' = Dequeue(condQueue)
  /\ pc' = IF condQueue = <<>> THEN at
           ELSE [at EXCEPT ![Head(condQueue)] = "waitWoken"]

\* The body of Condition::Signal: ready the first waiter, if any.
Notify(at) ==
  \/ /\ condQueue # <<>>
     /\ condQueue' = Tail(condQueue)
     /\ isBusy' = FALSE
     /\ pc' = [at EXCEPT ![Head(condQueue)] = "waitWoken"]
  \/ /\ condQueue = <<>>
     /\ pc' = at
     /\ UNCHANGED condVars

\* Condition::Signal
Signal(t) ==
  /\ pc[t] = "inside"
  /\ IsHeldBy(t)
  /\ Notify(pc)
  /\ UNCHANGED lockVars

\* Condition::Broadcast, from the call to the loop.
Broadcast(t) ==
  /\ pc[t] = "inside"
  /\ IsHeldBy(t)
  /\ pc' = [pc EXCEPT ![t] = "bcTest"]
  /\ UNCHANGED <<lockVars, condVars>>

\* while (queue->IsEmpty()): interrupts are enabled around the test.
BroadcastTest(t) ==
  /\ pc[t] = "bcTest"
  /\ pc' = [pc EXCEPT ![t] = IF condQueue = <<>> THEN "bcSignal" ELSE "inside"]
  /\ UNCHANGED <<lockVars, condVars>>

\* The Signal in the loop body.
BroadcastSignal(t) ==
  /\ pc[t] = "bcSignal"
  /\ Notify([pc EXCEPT ![t] = "bcTest"])
  /\ UNCHANGED lockVars

Next ==
  \E t \in Thread :
    \/ Acquire(t) \/ AcquireResume(t) \/ Release(t)
    \/ Wait(t) \/ WaitResume(t) \/ Signal(t)
    \/ Broadcast(t) \/ BroadcastTest(t) \/ BroadcastSignal(t)

Spec == Init /\ [][Next]_vars

-----------------------------------------------------------------------------
(* Properties.                                                             *)

\* The thread executes between a successful Acquire and its Release.
Holds(t) == pc[t] \in {"inside", "bcTest", "bcSignal"}

\* One thread at a time holds the lock, although woken waiters, callers of
\* Acquire and threads returning from Wait all race for it; and the lock is
\* marked unavailable exactly while somebody holds it.
MutualExclusion ==
  /\ \A t, u \in Thread : Holds(t) /\ Holds(u) => t = u
  /\ available <=> \A t \in Thread : ~Holds(t)

\* The holder is the recorded owner, so Wait does release the lock it is
\* called with and Signal is not silently ignored (both test the owner).
HolderIsOwner == \A t \in Thread : Holds(t) => IsHeldBy(t)

\* No lost wakeup in Acquire: threads sleep for a free lock only while one of
\* them is already on its way to it.
LockNoLostWakeup ==
  available /\ lockQueue # <<>> => \E t \in Thread : pc[t] = "acquireWoken"

\* An unconsumed signal has a signalled thread on its way to consume it.
SignalHasTaker == ~isBusy => \E t \in Thread : pc[t] = "waitWoken"

\* The two queues hold exactly the threads asleep in them, each once.
Lists(queue, at) ==
  /\ \A i, j \in 1..Len(queue) : queue[i] = queue[j] => i = j
  /\ \A t \in Thread : pc[t] = at <=> \E i \in 1..Len(queue) : queue[i] = t

QueuesExact == Lists(lockQueue, "acquiring") /\ Lists(condQueue, "waiting")

\* The inductive strengthening.
IInv ==
  /\ TypeOK
  /\ MutualExclusion
  /\ HolderIsOwner
  /\ LockNoLostWakeup
  /\ SignalHasTaker
  /\ QueuesExact
=============================================================================
