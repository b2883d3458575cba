------------------------------ MODULE Scheduler ------------------------------
(***************************************************************************)
(* Thread life cycle and CPU dispatching of the Nachos kernel:             *)
(* threads/scheduler.cc, threads/thread.cc and the idle loop of            *)
(* machine/interrupt.cc.                                                   *)
(*                                                                         *)
(* The machine has one processor.  Everything the kernel does to this      *)
(* state happens with interrupts disabled, so one call is one action; the  *)
(* only intermediate state another party can see is the idle loop of       *)
(* Thread::Sleep, where interrupt handlers run although no thread does.    *)
(* Time slices (-rs) and the debugger-driven preemption (-p) end in the    *)
(* same Thread::Yield a thread may call itself, at any point where         *)
(* interrupts are enabled.                                                 *)
(***************************************************************************)
EXTENDS Threads, Naturals, Sequences

CONSTANTS
  main,        \* the thread Initialize() makes out of the boot stack
  MaxPending   \* bound: device interrupts outstanding at once

ASSUME ThreadAssumption == main \in Thread /\ MaxPending \in Nat

VARIABLES
  status,               \* Thread::status, plus ABSENT / DELETED objects
  readyList,            \* Scheduler::readyList
  currentThread,        \* the global currentThread
  threadToBeDestroyed,  \* the global threadToBeDestroyed
  fresh,                \* forked threads whose stack still starts at ThreadRoot
  waiting,              \* threads sitting in the queue of some synch object
  pending,              \* number of pending device interrupts (timer excluded)
  mode                  \* Running, Idle (inside Interrupt::Idle) or Halted

schedVars == <<status, readyList, currentThread, threadToBeDestroyed, fresh,
               waiting, pending, mode>>

ThreadStatus ==
  {"ABSENT", "JUST_CREATED", "RUNNING", "READY", "BLOCKED", "DELETED"}

SchedTypeOK ==
  /\ status \in [Thread -> ThreadStatus]
  /\ readyList \in Seq(Thread)
  /\ currentThread \in Thread
  /\ threadToBeDestroyed \in Thread \cup {NULL}
  /\ fresh \subseteq Thread
  /\ waiting \subseteq Thread
  /\ pending \in 0..MaxPending
  /\ mode \in {"Running", "Idle", "Halted"}

SchedInit ==
  /\ status = [t \in Thread |-> IF t = main THEN "RUNNING" ELSE "ABSENT"]
  /\ readyList = <<>>
  /\ currentThread = main
  /\ threadToBeDestroyed = NULL
  /\ fresh = {}
  /\ waiting = {}
  /\ pending = 0
  /\ mode = "Running"

-----------------------------------------------------------------------------
(* The kernel's own routines, as functions of the values they change.      *)

\* Mutant: the woken thread jumps the queue (List::Prepend for List::Append).
EnqueuePrepend(list, t) == <<t>> \o list

\* List::Append on the ready list.
Enqueue(list, t) == Append(list, t)

\* The deletion Scheduler::Run performs once it is on the new thread's stack.
Reap(st, doomed) ==
  IF doomed = NULL THEN st ELSE [st EXCEPT ![doomed] = "DELETED"]

\* Scheduler::Run(next), with st and list the thread states and ready list its
\* caller has computed and doomed the current threadToBeDestroyed.  A thread
\* that has run before returns from SWITCH into Run and deletes the carcass; a
\* fresh one starts at ThreadRoot and does not execute that code.
Run(next, st, list, doomed) ==
  /\ currentThread' = next
  /\ readyList' = list
  /\ mode' = "Running"
  /\ \/ /\ next \in fresh
        /\ fresh' = fresh \ {next}
        /\ status' = [st EXCEPT ![next] = "RUNNING"]
        /\ threadToBeDestroyed' = doomed
     \/ /\ next \notin fresh
        /\ fresh' = fresh
        /\ status' = Reap([st EXCEPT ![next] = "RUNNING"], doomed)
        /\ threadToBeDestroyed' = NULL

\* Thread::Sleep of the current thread: run the next ready thread or, when
\* there is none, stay on this stack and enter Interrupt::Idle.
Sleep(doomed) ==
  LET st == [status EXCEPT ![currentThread] = "BLOCKED"]
  IN  \/ /\ readyList # <<>>
         /\ Run(Head(readyList), st, Tail(readyList), doomed)
      \/ /\ readyList = <<>>
         /\ mode' = "Idle"
         /\ status' = st
         /\ threadToBeDestroyed' = doomed
         /\ UNCHANGED <<readyList, currentThread, fresh>>

\* Scheduler::ReadyToRun(t) for a thread taken from a synch object's queue.
Wake(t) ==
  /\ status' = [status EXCEPT ![t] = "READY"]
  /\ readyList' = Enqueue(readyList, t)
  /\ waiting' = waiting \ {t}

-----------------------------------------------------------------------------
(* What the running thread may do.                                         *)

\* new Thread(...)
NewThread(t) ==
  /\ mode = "Running"
  /\ status[t] = "ABSENT"
  /\ status' = [status EXCEPT ![t] = "JUST_CREATED"]
  /\ UNCHANGED <<readyList, currentThread, threadToBeDestroyed, fresh,
                 waiting, pending, mode>>

\* Thread::Fork: allocate the stack, then put the thread on the ready list.
Fork(t) ==
  /\ mode = "Running"
  /\ status[t] = "JUST_CREATED"
  /\ fresh' = fresh \cup {t}
  /\ status' = [status EXCEPT ![t] = "READY"]
  /\ readyList' = Enqueue(readyList, t)
  /\ UNCHANGED <<currentThread, threadToBeDestroyed, waiting, pending, mode>>

\* Thread::Yield, called by the thread or by OneTick at the end of a time
\* slice.  With an empty ready list it returns at once and changes nothing.
Yield ==
  /\ mode = "Running"
  /\ readyList # <<>>
  /\ Run(Head(readyList),
         [status EXCEPT ![currentThread] = "READY"],
         Enqueue(Tail(readyList), currentThread),
         threadToBeDestroyed)
  /\ UNCHANGED <<waiting, pending>>

\* A synchronization routine appends the current thread to its queue and
\* calls Thread::Sleep.
Block ==
  /\ mode = "Running"
  /\ waiting' = waiting \cup {currentThread}
  /\ Sleep(threadToBeDestroyed)
  /\ UNCHANGED pending

\* A synchronization routine takes a thread off its queue and readies it.
ReadyWaiter(t) ==
  /\ mode = "Running"
  /\ t \in waiting
  /\ Wake(t)
  /\ UNCHANGED <<currentThread, threadToBeDestroyed, fresh, pending, mode>>

\* A device request (disk, console, network) schedules its interrupt.
RequestIO ==
  /\ mode = "Running"
  /\ pending < MaxPending
  /\ pending' = pending + 1
  /\ UNCHANGED <<status, readyList, currentThread, threadToBeDestroyed, fresh,
                 waiting, mode>>

\* Mutant: the thread object is deleted by Finish itself.
FinishDeletesAtOnce ==
  /\ mode = "Running"
  /\ LET st == [status EXCEPT ![currentThread] = "DELETED"]
     IN  \/ /\ readyList # <<>>
            /\ Run(Head(readyList), st, Tail(readyList), NULL)
         \/ /\ readyList = <<>>
            /\ mode' = "Idle"
            /\ status' = st
            /\ UNCHANGED <<readyList, currentThread, threadToBeDestroyed, fresh>>
  /\ UNCHANGED <<waiting, pending>>

\* Thread::Finish: remember the carcass and go to sleep for good.  The thread
\* is one of StartProcess, Exec or Fork, whose tables the removeResources that
\* Finish begins with gives up (module Process).  A kernel thread has no tables:
\* its Finish does not get this far (module Dining).
Finish ==
  /\ mode = "Running"
  /\ Sleep(currentThread)
  /\ UNCHANGED <<waiting, pending>>

\* Interrupt::Halt, from the Halt system call.
Halt ==
  /\ mode = "Running"
  /\ mode' = "Halted"
  /\ UNCHANGED <<status, readyList, currentThread, threadToBeDestroyed, fresh,
                 waiting, pending>>

-----------------------------------------------------------------------------
(* What interrupt handlers and the idle loop may do.                       *)

\* Mutant: the handler readies a thread without removing it from the queue it
\* sleeps in, so it can be readied a second time.
DeviceInterruptTwice ==
  /\ mode # "Halted"
  /\ pending > 0
  /\ pending' \in {pending - 1, pending}
  /\ \E t \in waiting :
       /\ status' = [status EXCEPT ![t] = "READY"]
       /\ readyList' = Enqueue(readyList, t)
       /\ UNCHANGED waiting
  /\ UNCHANGED <<currentThread, threadToBeDestroyed, fresh, mode>>

\* Interrupt::CheckIfDue fires a device handler: it may ready one sleeping
\* thread and may schedule the device's next interrupt.  It is called from
\* OneTick while a thread runs and from Idle while none does.
DeviceInterrupt ==
  /\ mode # "Halted"
  /\ pending > 0
  /\ pending' \in {pending - 1, pending}
  /\ \/ \E t \in waiting : Wake(t)
     \/ UNCHANGED <<status, readyList, waiting>>
  /\ UNCHANGED <<currentThread, threadToBeDestroyed, fresh, mode>>

\* Back from Idle, Sleep finds a ready thread -- possibly the sleeper itself.
IdleDispatch ==
  /\ mode = "Idle"
  /\ readyList # <<>>
  /\ Run(Head(readyList), status, Tail(readyList), threadToBeDestroyed)
  /\ UNCHANGED <<waiting, pending>>

\* Idle with nothing pending but the timer: the machine stops.
IdleHalt ==
  /\ mode = "Idle"
  /\ readyList = <<>>
  /\ pending = 0
  /\ mode' = "Halted"
  /\ UNCHANGED <<status, readyList, currentThread, threadToBeDestroyed, fresh,
                 waiting, pending>>

\* Cleanup() has ended the simulation.
Stopped ==
  /\ mode = "Halted"
  /\ UNCHANGED schedVars

SchedNext ==
  \/ \E t \in Thread : NewThread(t) \/ Fork(t) \/ ReadyWaiter(t)
  \/ Yield
  \/ Block
  \/ RequestIO
  \/ Finish
  \/ Halt
  \/ DeviceInterrupt
  \/ IdleDispatch
  \/ IdleHalt
  \/ Stopped

SchedSpec == SchedInit /\ [][SchedNext]_schedVars

\* With the timer running (-rs) a time slice always ends, the idle loop does
\* not stop, and a scheduled device interrupt is delivered.
SchedFairness ==
  /\ WF_schedVars(Yield)
  /\ WF_schedVars(IdleDispatch)
  /\ WF_schedVars(DeviceInterrupt)

FairSchedSpec == SchedSpec /\ SchedFairness

-----------------------------------------------------------------------------
(* Properties.                                                             *)

\* A thread that has called Finish: asleep in no queue.
Finished(t) == status[t] = "BLOCKED" /\ t \notin waiting

\* No thread is on the ready list twice.
NoDuplicates == \A i, j \in 1..Len(readyList) :
                  readyList[i] = readyList[j] => i = j

\* The ready list holds exactly the threads whose status is READY, each once:
\* no wakeup is lost and no thread is dispatched twice for one wakeup
\* (ReadyToRun, FindNextToRun, Yield and Sleep between them).
ReadyListExact ==
  /\ NoDuplicates
  /\ \A t \in Thread :
       status[t] = "READY" <=> \E i \in 1..Len(readyList) : readyList[i] = t

\* The CPU is held by currentThread and by nobody else; in the idle loop by
\* nobody at all, although currentThread still names the last sleeper.
OneRunning ==
  /\ mode = "Running" => status[currentThread] = "RUNNING"
  /\ \A t \in Thread :
       status[t] = "RUNNING" => t = currentThread /\ mode # "Idle"

\* The thread whose stack the processor is on is never deleted: the
\* ASSERT(this != currentThread) of Thread::~Thread cannot fail, even while
\* a finished thread idles on its own stack.
CurrentNotDeleted == status[currentThread] \notin {"ABSENT", "DELETED"}

\* The only thread Run can delete has finished: it is in no queue, so no later
\* wakeup reaches a deleted object.
DoomedIsFinished ==
  /\ threadToBeDestroyed # NULL => Finished(threadToBeDestroyed)
  /\ \A t \in waiting : status[t] = "BLOCKED"

\* Deleting threads is safe: neither the thread the processor stands on nor a
\* thread some queue may still hand to ReadyToRun is deleted, although Finish
\* leaves the deletion to whichever thread Run dispatches later.
SafeDestroy == CurrentNotDeleted /\ DoomedIsFinished

\* A finished thread is never readied or run again, and a deleted one stays
\* deleted, whatever interrupts and other threads do afterwards.
NoResurrection ==
  [][\A t \in Thread :
       /\ Finished(t) => (Finished(t)' \/ status'[t] = "DELETED")
       /\ status[t] = "DELETED" => status'[t] = "DELETED"]_schedVars

\* A ready thread eventually gets the CPU: the ready list is first in first
\* out and every time slice ends.
ReadyRuns ==
  \A t \in Thread :
    status[t] = "READY" ~> (status[t] = "RUNNING" \/ mode = "Halted")

\* A sleeping or never started thread is not fresh; a fresh one is ready.
FreshAreReady == \A t \in fresh : status[t] = "READY"

\* The inductive strengthening of the safety properties above.
SchedIInv ==
  /\ SchedTypeOK
  /\ ReadyListExact
  /\ OneRunning
  /\ CurrentNotDeleted
  /\ DoomedIsFinished
  /\ FreshAreReady
=============================================================================
