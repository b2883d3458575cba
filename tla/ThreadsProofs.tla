---------------------------- MODULE ThreadsProofs ----------------------------
(***************************************************************************)
(* Proofs about the thread package: the dispatcher (Scheduler), the        *)
(* semaphore (Semaphore), the lock and the condition (Monitor) and the     *)
(* synchronized list that runs on them (SynchList), each for any set of    *)
(* threads.                                                                *)
(***************************************************************************)
EXTENDS Scheduler, Semaphore, SynchList, QueueLemmas, FiniteSetTheorems

-----------------------------------------------------------------------------
(* The dispatcher                                                          *)

(* ReadyListExact in the vocabulary of the two lemmas.                     *)
LEMMA ReadyListExactMeans ==
  ReadyListExact <=>
    /\ Distinct(readyList)
    /\ \A t \in Thread : status[t] = "READY" <=> Listed(readyList, t)
  BY DEF ReadyListExact, NoDuplicates, Distinct, Listed

(* The initial state satisfies the inductive invariant.                    *)
LEMMA SchedInitIInv == SchedInit => SchedIInv
  <1> SUFFICES ASSUME SchedInit PROVE SchedIInv
    OBVIOUS
  <1> USE ThreadAssumption, NullAssumption
  <1>1. SchedTypeOK
    BY DEF SchedInit, SchedTypeOK, ThreadStatus
  <1>2. ReadyListExact
    BY DEF SchedInit, ReadyListExact, NoDuplicates
  <1>3. OneRunning /\ CurrentNotDeleted /\ DoomedIsFinished /\ FreshAreReady
    BY DEF SchedInit, OneRunning, CurrentNotDeleted, DoomedIsFinished, FreshAreReady
  <1>4. QED BY <1>1, <1>2, <1>3 DEF SchedIInv

(* A dispatch re-establishes the whole invariant, provided its caller hands *)
(* Scheduler::Run consistent thread states and a consistent ready list.    *)
LEMMA RunIInv ==
  ASSUME SchedTypeOK,
         NEW st \in [Thread -> ThreadStatus],
         NEW rest \in Seq(Thread),
         NEW next \in Thread,
         NEW doomed \in Thread \cup {NULL},
         st[next] = "READY",
         \A t \in Thread : st[t] # "RUNNING",
         Distinct(rest),
         \A t \in Thread : (st[t] = "READY" /\ t # next) <=> Listed(rest, t),
         doomed # NULL => st[doomed] = "BLOCKED" /\ doomed \notin waiting',
         waiting' \subseteq Thread,
         \A t \in waiting' : st[t] = "BLOCKED",
         \A t \in fresh : st[t] = "READY",
         pending' \in 0..MaxPending,
         Run(next, st, rest, doomed)
  PROVE  SchedIInv'
  <1> USE ThreadAssumption, NullAssumption
  <1>1. /\ currentThread' = next /\ readyList' = rest /\ mode' = "Running"
        /\ fresh' = fresh \ {next}
        /\ threadToBeDestroyed' \in {doomed, NULL}
    BY DEF Run
  <1>2. /\ status' \in [Thread -> ThreadStatus]
        /\ status'[next] = "RUNNING"
        /\ \A t \in Thread :
             t # next => \/ status'[t] = st[t]
                         \/ t = doomed /\ status'[t] = "DELETED" /\ threadToBeDestroyed' = NULL
    BY DEF Run, Reap, ThreadStatus
  <1>3. SchedTypeOK'
    BY <1>1, <1>2 DEF SchedTypeOK
  <1>4. \A t \in Thread : t # next => (status'[t] = "READY" <=> st[t] = "READY")
    <2> SUFFICES ASSUME NEW t \in Thread, t # next
                 PROVE  status'[t] = "READY" <=> st[t] = "READY"
      OBVIOUS
    <2>1. CASE status'[t] = st[t]
      BY <2>1
    <2>2. CASE t = doomed /\ status'[t] = "DELETED"
      <3>1. st[t] = "BLOCKED"
        BY <2>2
      <3>2. QED BY <2>2, <3>1
    <2>3. QED BY <1>2, <2>1, <2>2
  <1>5. \A t \in Thread : status'[t] = "READY" <=> Listed(rest, t)
    BY <1>2, <1>4
  <1>6. ReadyListExact'
    BY <1>1, <1>5 DEF ReadyListExact, NoDuplicates, Distinct, Listed
  <1>7. OneRunning' /\ CurrentNotDeleted'
    BY <1>1, <1>2 DEF OneRunning, CurrentNotDeleted
  <1>8. DoomedIsFinished'
    <2>1. ASSUME threadToBeDestroyed' # NULL PROVE Finished(threadToBeDestroyed)'
      <3>1. threadToBeDestroyed' = doomed /\ doomed \in Thread
        BY <1>1, <2>1
      <3>2. st[doomed] = "BLOCKED" /\ doomed \notin waiting'
        BY <2>1, <3>1
      <3>3. status'[doomed] = st[doomed]
        BY <1>2, <2>1, <3>1, <3>2
      <3>4. QED BY <3>1, <3>2, <3>3 DEF Finished
    <2>2. ASSUME NEW t \in waiting' PROVE status'[t] = "BLOCKED"
      <3>1. t \in Thread /\ st[t] = "BLOCKED" /\ t # next
        BY <2>2
      <3>2. t # doomed
        BY <2>2, <3>1
      <3>3. QED BY <1>2, <3>1, <3>2
    <2>3. QED BY <2>1, <2>2 DEF DoomedIsFinished
  <1>9. FreshAreReady'
    BY <1>1, <1>4 DEF FreshAreReady, SchedTypeOK
  <1>10. QED BY <1>3, <1>6, <1>7, <1>8, <1>9 DEF SchedIInv

(* Thread::Sleep re-establishes the invariant, whether it finds a thread to *)
(* run or enters the idle loop.                                            *)
LEMMA SleepIInv ==
  ASSUME SchedIInv, mode = "Running",
         NEW doomed \in Thread \cup {NULL},
         doomed # NULL =>
           /\ doomed = currentThread \/ status[doomed] = "BLOCKED"
           /\ doomed \notin waiting',
         waiting' \subseteq waiting \cup {currentThread},
         pending' = pending,
         Sleep(doomed)
  PROVE  SchedIInv'
  <1> DEFINE st == [status EXCEPT ![currentThread] = "BLOCKED"]
  <1> USE ThreadAssumption, NullAssumption
  <1>1. /\ st \in [Thread -> ThreadStatus]
        /\ status[currentThread] = "RUNNING"
        /\ st[currentThread] = "BLOCKED"
        /\ \A t \in Thread : t # currentThread => st[t] = status[t]
        /\ currentThread \in Thread
    BY DEF SchedIInv, SchedTypeOK, OneRunning, ThreadStatus
  <1>2. /\ \A t \in Thread : st[t] # "RUNNING"
        /\ \A t \in Thread : st[t] = "READY" <=> status[t] = "READY"
    BY <1>1 DEF SchedIInv, OneRunning
  <1>3. \A t \in waiting' : t \in Thread /\ st[t] = "BLOCKED"
    BY <1>1 DEF SchedIInv, SchedTypeOK, DoomedIsFinished
  <1>4. doomed # NULL => st[doomed] = "BLOCKED" /\ doomed \notin waiting'
    BY <1>1
  <1>5. \A t \in fresh : st[t] = "READY"
    BY <1>2 DEF SchedIInv, SchedTypeOK, FreshAreReady
  <1>6. /\ SchedTypeOK /\ readyList \in Seq(Thread) /\ Distinct(readyList)
        /\ \A t \in Thread : st[t] = "READY" <=> Listed(readyList, t)
    BY <1>2, ReadyListExactMeans DEF SchedIInv, SchedTypeOK
  <1>7. CASE readyList # <<>> /\ Run(Head(readyList), st, Tail(readyList), doomed)
    <2>1. /\ Head(readyList) \in Thread /\ Tail(readyList) \in Seq(Thread)
          /\ Distinct(Tail(readyList))
          /\ st[Head(readyList)] = "READY"
          /\ \A t \in Thread :
               (st[t] = "READY" /\ t # Head(readyList)) <=> Listed(Tail(readyList), t)
      BY <1>6, <1>7, RemoveListed
    <2>2. waiting' \subseteq Thread /\ pending' \in 0..MaxPending
      BY <1>3, <1>6 DEF SchedTypeOK
    <2> HIDE DEF st
    <2>3. QED BY <1>1, <1>2, <1>3, <1>4, <1>5, <1>6, <1>7, <2>1, <2>2, RunIInv
  <1>8. CASE /\ readyList = <<>> /\ mode' = "Idle" /\ status' = st
             /\ threadToBeDestroyed' = doomed
             /\ UNCHANGED <<readyList, currentThread, fresh>>
    <2> HIDE DEF st
    <2>1. SchedTypeOK'
      BY <1>1, <1>3, <1>6, <1>8 DEF SchedTypeOK
    <2>2. ReadyListExact'
      BY <1>6, <1>8 DEF ReadyListExact, NoDuplicates, Distinct, Listed
    <2>3. OneRunning' /\ CurrentNotDeleted'
      BY <1>1, <1>2, <1>8 DEF OneRunning, CurrentNotDeleted
    <2>4. DoomedIsFinished' /\ FreshAreReady'
      BY <1>3, <1>4, <1>5, <1>8 DEF DoomedIsFinished, Finished, FreshAreReady
    <2>5. QED BY <2>1, <2>2, <2>3, <2>4 DEF SchedIInv
  <1>9. QED BY <1>7, <1>8 DEF Sleep

(* Readying a blocked thread re-establishes the invariant: ReadyToRun from *)
(* a synchronization routine or an interrupt handler.                      *)
LEMMA WakeIInv ==
  ASSUME SchedIInv, NEW t \in waiting, Wake(t),
         pending' \in 0..MaxPending,
         UNCHANGED <<currentThread, threadToBeDestroyed, fresh, mode>>
  PROVE  SchedIInv'
  <1> USE ThreadAssumption, NullAssumption
  <1>1. /\ t \in Thread /\ status[t] = "BLOCKED"
        /\ status' = [status EXCEPT ![t] = "READY"]
        /\ status' \in [Thread -> ThreadStatus]
        /\ status'[t] = "READY"
        /\ \A u \in Thread : u # t => status'[u] = status[u]
        /\ waiting' = waiting \ {t}
    BY DEF SchedIInv, SchedTypeOK, DoomedIsFinished, Wake, ThreadStatus
  <1>2. /\ readyList \in Seq(Thread) /\ Distinct(readyList)
        /\ \A u \in Thread : status[u] = "READY" <=> Listed(readyList, u)
    BY ReadyListExactMeans DEF SchedIInv, SchedTypeOK
  <1>3. /\ readyList' = Enqueue(readyList, t) /\ readyList' \in Seq(Thread)
        /\ Distinct(readyList')
        /\ \A u \in Thread : Listed(readyList', u) <=> (Listed(readyList, u) \/ u = t)
    <2>1. readyList' = Enqueue(readyList, t) /\ ~ Listed(readyList, t)
      BY <1>1, <1>2 DEF Wake
    <2>2. QED BY <1>1, <1>2, <2>1, AppendListed DEF Enqueue
  <1>4. SchedTypeOK'
    BY <1>1, <1>3 DEF SchedIInv, SchedTypeOK
  <1>5. \A u \in Thread : status'[u] = "READY" <=> Listed(readyList', u)
    BY <1>1, <1>2, <1>3
  <1>6. ReadyListExact'
    BY <1>3, <1>5 DEF ReadyListExact, NoDuplicates, Distinct, Listed
  <1>7. OneRunning' /\ CurrentNotDeleted'
    BY <1>1 DEF SchedIInv, SchedTypeOK, OneRunning, CurrentNotDeleted
  <1>8. DoomedIsFinished' /\ FreshAreReady'
    BY <1>1 DEF SchedIInv, SchedTypeOK, DoomedIsFinished, Finished, FreshAreReady
  <1>9. QED BY <1>4, <1>6, <1>7, <1>8 DEF SchedIInv

(* Every step of the kernel preserves the inductive invariant.             *)
LEMMA SchedNextIInv == SchedIInv /\ [SchedNext]_schedVars => SchedIInv'
  <1> SUFFICES ASSUME SchedIInv, [SchedNext]_schedVars PROVE SchedIInv'
    OBVIOUS
  <1> USE ThreadAssumption, NullAssumption
  <1>a. /\ SchedTypeOK /\ readyList \in Seq(Thread) /\ Distinct(readyList)
        /\ \A t \in Thread : status[t] = "READY" <=> Listed(readyList, t)
        /\ currentThread \in Thread
    BY ReadyListExactMeans DEF SchedIInv, SchedTypeOK
  <1>1. ASSUME NEW t \in Thread, NewThread(t) PROVE SchedIInv'
    <2>1. /\ status' \in [Thread -> ThreadStatus]
          /\ status[t] = "ABSENT" /\ status'[t] = "JUST_CREATED"
          /\ \A u \in Thread : u # t => status'[u] = status[u]
      BY <1>1, <1>a DEF NewThread, SchedTypeOK, ThreadStatus
    <2>2. SchedTypeOK'
      BY <1>1, <1>a, <2>1 DEF NewThread, SchedTypeOK
    <2>3. ReadyListExact' /\ OneRunning' /\ CurrentNotDeleted'
      BY <1>1, <1>a, <2>1 DEF NewThread, SchedIInv, ReadyListExact, NoDuplicates,
         OneRunning, CurrentNotDeleted
    <2>4. DoomedIsFinished' /\ FreshAreReady'
      BY <1>1, <1>a, <2>1 DEF NewThread, SchedIInv, SchedTypeOK, DoomedIsFinished, Finished,
         FreshAreReady
    <2>5. QED BY <2>2, <2>3, <2>4 DEF SchedIInv
  <1>2. ASSUME NEW t \in Thread, Fork(t) PROVE SchedIInv'
    <2>1. /\ status' \in [Thread -> ThreadStatus]
          /\ status[t] = "JUST_CREATED" /\ status'[t] = "READY"
          /\ \A u \in Thread : u # t => status'[u] = status[u]
      BY <1>2, <1>a DEF Fork, SchedTypeOK, ThreadStatus
    <2>2. /\ readyList' = Enqueue(readyList, t) /\ readyList' \in Seq(Thread)
          /\ Distinct(readyList')
          /\ \A u \in Thread : Listed(readyList', u) <=> (Listed(readyList, u) \/ u = t)
      <3>1. readyList' = Enqueue(readyList, t) /\ ~ Listed(readyList, t)
        BY <1>2, <1>a, <2>1 DEF Fork
      <3>2. QED BY <1>a, <3>1, AppendListed DEF Enqueue
    <2>3. SchedTypeOK'
      BY <1>2, <1>a, <2>1, <2>2 DEF Fork, SchedTypeOK
    <2>4. \A u \in Thread : status'[u] = "READY" <=> Listed(readyList', u)
      BY <1>a, <2>1, <2>2
    <2>5. ReadyListExact'
      BY <2>2, <2>4 DEF ReadyListExact, NoDuplicates, Distinct, Listed
    <2>6. OneRunning' /\ CurrentNotDeleted'
      BY <1>2, <1>a, <2>1 DEF Fork, SchedIInv, OneRunning, CurrentNotDeleted
    <2>7. DoomedIsFinished' /\ FreshAreReady'
      BY <1>2, <1>a, <2>1 DEF Fork, SchedIInv, SchedTypeOK, DoomedIsFinished, Finished,
         FreshAreReady
    <2>8. QED BY <2>3, <2>5, <2>6, <2>7 DEF SchedIInv
  <1>3. ASSUME NEW t \in Thread, ReadyWaiter(t) PROVE SchedIInv'
    <2>1. t \in waiting /\ Wake(t) /\ pending' \in 0..MaxPending
          /\ UNCHANGED <<currentThread, threadToBeDestroyed, fresh, mode>>
      BY <1>3, <1>a DEF ReadyWaiter, SchedTypeOK
    <2>2. QED BY <2>1, WakeIInv
  <1>4. CASE Yield
    <2> DEFINE st == [status EXCEPT ![currentThread] = "READY"]
               next == Head(readyList)
               rest == Enqueue(Tail(readyList), currentThread)
    <2>1. /\ readyList # <<>> /\ mode = "Running"
          /\ waiting' = waiting /\ pending' = pending
          /\ Run(next, st, rest, threadToBeDestroyed)
      BY <1>4 DEF Yield
    <2>2. /\ status[currentThread] = "RUNNING"
          /\ st \in [Thread -> ThreadStatus] /\ st[currentThread] = "READY"
          /\ \A t \in Thread : t # currentThread => st[t] = status[t]
      BY <1>a, <2>1 DEF SchedIInv, OneRunning, SchedTypeOK, ThreadStatus
    <2>3. /\ next \in Thread /\ Listed(readyList, next)
          /\ Tail(readyList) \in Seq(Thread) /\ Distinct(Tail(readyList))
          /\ \A u \in Thread :
               Listed(Tail(readyList), u) <=> (Listed(readyList, u) /\ u # next)
      BY <1>a, <2>1, RemoveListed
    <2>4. next # currentThread /\ st[next] = "READY"
          /\ ~ Listed(Tail(readyList), currentThread)
      BY <1>a, <2>2, <2>3
    <2>5. /\ rest \in Seq(Thread) /\ Distinct(rest)
          /\ \A u \in Thread :
               Listed(rest, u) <=> (Listed(Tail(readyList), u) \/ u = currentThread)
      BY <1>a, <2>3, <2>4, AppendListed DEF Enqueue
    <2>6. \A t \in Thread : (st[t] = "READY" /\ t # next) <=> Listed(rest, t)
      BY <1>a, <2>2, <2>3, <2>4, <2>5
    <2>7. \A t \in Thread : st[t] # "RUNNING"
      BY <2>2 DEF SchedIInv, OneRunning
    <2>8. /\ threadToBeDestroyed # NULL =>
               st[threadToBeDestroyed] = "BLOCKED" /\ threadToBeDestroyed \notin waiting'
          /\ waiting' \subseteq Thread
          /\ \A t \in waiting' : st[t] = "BLOCKED"
          /\ \A t \in fresh : st[t] = "READY"
          /\ pending' \in 0..MaxPending
          /\ threadToBeDestroyed \in Thread \cup {NULL}
      BY <2>1, <2>2 DEF SchedIInv, SchedTypeOK, DoomedIsFinished, Finished, FreshAreReady
    <2> HIDE DEF st, next, rest
    <2>9. QED
      BY <1>a, <2>1, <2>2, <2>3, <2>4, <2>5, <2>6, <2>7, <2>8, RunIInv
  <1>5. CASE Block
    <2>1. /\ threadToBeDestroyed # NULL =>
               /\ threadToBeDestroyed = currentThread \/ status[threadToBeDestroyed] = "BLOCKED"
               /\ threadToBeDestroyed \notin waiting'
          /\ threadToBeDestroyed \in Thread \cup {NULL}
      BY <1>5 DEF Block, SchedIInv, SchedTypeOK, DoomedIsFinished, Finished, OneRunning
    <2>2. QED BY <1>5, <2>1, SleepIInv DEF Block
  <1>6. CASE RequestIO
    <2>1. SchedTypeOK'
      BY <1>6, <1>a DEF RequestIO, SchedTypeOK
    <2>2. QED
      BY <1>6, <2>1 DEF RequestIO, SchedIInv, ReadyListExact, NoDuplicates, OneRunning,
         CurrentNotDeleted, DoomedIsFinished, Finished, FreshAreReady
  <1>7. CASE Finish
    <2>1. /\ mode = "Running" /\ currentThread \notin waiting'
          /\ waiting' \subseteq waiting \cup {currentThread}
          /\ pending' = pending /\ Sleep(currentThread)
      BY <1>7 DEF Finish, SchedIInv, DoomedIsFinished, OneRunning
    <2>2. QED BY <1>a, <2>1, SleepIInv
  <1>8. CASE Halt
    <2>1. SchedTypeOK'
      BY <1>8, <1>a DEF Halt, SchedTypeOK
    <2>2. QED
      BY <1>8, <2>1 DEF Halt, SchedIInv, ReadyListExact, NoDuplicates, OneRunning,
         CurrentNotDeleted, DoomedIsFinished, Finished, FreshAreReady
  <1>9. CASE DeviceInterrupt
    <2>1. pending' \in 0..MaxPending
      BY <1>9, <1>a DEF DeviceInterrupt, SchedTypeOK
    <2>2. CASE \E t \in waiting : Wake(t)
      BY <1>9, <2>1, <2>2, WakeIInv DEF DeviceInterrupt
    <2>3. CASE UNCHANGED <<status, readyList, waiting>>
      <3>1. SchedTypeOK'
        BY <1>9, <1>a, <2>1, <2>3 DEF DeviceInterrupt, SchedTypeOK
      <3>2. QED
        BY <1>9, <2>3, <3>1 DEF DeviceInterrupt, SchedIInv, ReadyListExact, NoDuplicates,
           OneRunning, CurrentNotDeleted, DoomedIsFinished, Finished, FreshAreReady
    <2>4. QED BY <1>9, <2>2, <2>3 DEF DeviceInterrupt
  <1>10. CASE IdleDispatch
    <2> DEFINE next == Head(readyList)
    <2>1. /\ readyList # <<>> /\ mode = "Idle"
          /\ waiting' = waiting /\ pending' = pending
          /\ Run(next, status, Tail(readyList), threadToBeDestroyed)
      BY <1>10 DEF IdleDispatch
    <2>2. /\ next \in Thread /\ status[next] = "READY"
          /\ Tail(readyList) \in Seq(Thread) /\ Distinct(Tail(readyList))
          /\ \A u \in Thread :
               (status[u] = "READY" /\ u # next) <=> Listed(Tail(readyList), u)
      BY <1>a, <2>1, RemoveListed
    <2>3. \A t \in Thread : status[t] # "RUNNING"
      BY <2>1 DEF SchedIInv, OneRunning
    <2>4. /\ threadToBeDestroyed # NULL =>
               status[threadToBeDestroyed] = "BLOCKED" /\ threadToBeDestroyed \notin waiting'
          /\ waiting' \subseteq Thread
          /\ \A t \in waiting' : status[t] = "BLOCKED"
          /\ \A t \in fresh : status[t] = "READY"
          /\ pending' \in 0..MaxPending
          /\ threadToBeDestroyed \in Thread \cup {NULL}
          /\ status \in [Thread -> ThreadStatus]
      BY <2>1 DEF SchedIInv, SchedTypeOK, DoomedIsFinished, Finished, FreshAreReady
    <2> HIDE DEF next
    <2>5. QED BY <1>a, <2>1, <2>2, <2>3, <2>4, RunIInv
  <1>11. CASE IdleHalt
    <2>1. SchedTypeOK'
      BY <1>11, <1>a DEF IdleHalt, SchedTypeOK
    <2>2. QED
      BY <1>11, <2>1 DEF IdleHalt, SchedIInv, ReadyListExact, NoDuplicates, OneRunning,
         CurrentNotDeleted, DoomedIsFinished, Finished, FreshAreReady
  <1>12. CASE UNCHANGED schedVars
    BY <1>12 DEF schedVars, SchedIInv, SchedTypeOK, ReadyListExact, NoDuplicates, OneRunning,
       CurrentNotDeleted, DoomedIsFinished, Finished, FreshAreReady
  <1>13. CASE Stopped
    BY <1>12, <1>13 DEF Stopped
  <1>14. QED
    BY <1>1, <1>2, <1>3, <1>4, <1>5, <1>6, <1>7, <1>8, <1>9, <1>10, <1>11, <1>12,
       <1>13 DEF SchedNext

-----------------------------------------------------------------------------
(* Type correctness of the dispatcher.                                     *)
THEOREM SchedulerTypeOK == SchedSpec => []SchedTypeOK
  <1>1. SchedIInv => SchedTypeOK
    BY DEF SchedIInv
  <1>2. QED BY <1>1, SchedInitIInv, SchedNextIInv, PTL DEF SchedSpec

(* The ready list is exactly the set of READY threads, each listed once,   *)
(* for any number of threads: no wakeup is lost, none counted twice.       *)
THEOREM SchedulerReadyListExact == SchedSpec => []ReadyListExact
  <1>1. SchedIInv => ReadyListExact
    BY DEF SchedIInv
  <1>2. QED BY <1>1, SchedInitIInv, SchedNextIInv, PTL DEF SchedSpec

(* Only currentThread runs, and nobody runs in the idle loop.              *)
THEOREM SchedulerOneRunning == SchedSpec => []OneRunning
  <1>1. SchedIInv => OneRunning
    BY DEF SchedIInv
  <1>2. QED BY <1>1, SchedInitIInv, SchedNextIInv, PTL DEF SchedSpec

(* Deleting threads is safe: the ASSERT(this != currentThread) of          *)
(* Thread::~Thread never fails, and what Run deletes has finished.         *)
THEOREM SchedulerSafeDestroy == SchedSpec => []SafeDestroy
  <1>1. SchedIInv => SafeDestroy
    BY DEF SchedIInv, SafeDestroy
  <1>2. QED BY <1>1, SchedInitIInv, SchedNextIInv, PTL DEF SchedSpec

-----------------------------------------------------------------------------
(* A dispatch leaves a thread that is neither the one dispatched nor the   *)
(* one to be deleted as its caller has it.                                 *)
LEMMA RunLeavesOthers ==
  ASSUME NEW x \in Thread, NEW next \in Thread, x # next,
         NEW st \in [Thread -> ThreadStatus], NEW rest, NEW doomed,
         Run(next, st, rest, doomed)
  PROVE  status'[x] \in {st[x], "DELETED"}
  BY DEF Run, Reap

(* The same for Thread::Sleep, seen from a thread other than its caller.   *)
LEMMA SleepLeavesOthers ==
  ASSUME SchedIInv, NEW x \in Thread, x # currentThread, status[x] # "READY",
         NEW doomed, Sleep(doomed)
  PROVE  status'[x] \in {status[x], "DELETED"}
  <1> DEFINE st == [status EXCEPT ![currentThread] = "BLOCKED"]
  <1>1. st \in [Thread -> ThreadStatus] /\ st[x] = status[x]
    BY DEF SchedIInv, SchedTypeOK, ThreadStatus
  <1>2. CASE readyList # <<>> /\ Run(Head(readyList), st, Tail(readyList), doomed)
    <2>1. Head(readyList) \in Thread /\ x # Head(readyList)
      <3>1. Head(readyList) \in Thread /\ Listed(readyList, Head(readyList))
        BY <1>2, ReadyListExactMeans, RemoveListed DEF SchedIInv, SchedTypeOK
      <3>2. status[Head(readyList)] = "READY"
        BY <3>1, ReadyListExactMeans DEF SchedIInv
      <3>3. QED BY <3>1, <3>2
    <2> HIDE DEF st
    <2>2. QED BY <1>1, <1>2, <2>1, RunLeavesOthers
  <1>3. CASE status' = st
    BY <1>1, <1>3
  <1>4. QED BY <1>2, <1>3 DEF Sleep

(* No step readies, runs or queues a thread that is blocked in no queue or *)
(* deleted; the only thing that may still happen to it is its deletion.    *)
LEMMA GoneStaysGone ==
  ASSUME SchedIInv, [SchedNext]_schedVars, NEW x \in Thread, x \notin waiting,
         status[x] \in {"BLOCKED", "DELETED"}
  PROVE  status'[x] \in {status[x], "DELETED"} /\ x \notin waiting'
  <1>a. SchedTypeOK /\ status \in [Thread -> ThreadStatus] /\ currentThread \in Thread
    BY DEF SchedIInv, SchedTypeOK
  <1>b. mode = "Running" => x # currentThread
    BY DEF SchedIInv, OneRunning
  <1>c. ASSUME readyList # <<>>
        PROVE  Head(readyList) \in Thread /\ x # Head(readyList)
    <2>1. Head(readyList) \in Thread /\ Listed(readyList, Head(readyList))
      BY <1>c, ReadyListExactMeans, RemoveListed DEF SchedIInv, SchedTypeOK
    <2>2. status[Head(readyList)] = "READY"
      BY <2>1, ReadyListExactMeans DEF SchedIInv
    <2>3. QED BY <2>1, <2>2
  <1>1. ASSUME NEW t \in Thread, NewThread(t) PROVE status'[x] = status[x] /\ waiting' = waiting
    BY <1>1, <1>a DEF NewThread
  <1>2. ASSUME NEW t \in Thread, Fork(t) PROVE status'[x] = status[x] /\ waiting' = waiting
    BY <1>2, <1>a DEF Fork
  <1>3. ASSUME NEW t \in waiting, Wake(t) PROVE status'[x] = status[x] /\ x \notin waiting'
    BY <1>3, <1>a DEF Wake
  <1>4. CASE Yield
    <2> DEFINE st == [status EXCEPT ![currentThread] = "READY"]
    <2>1. st \in [Thread -> ThreadStatus] /\ st[x] = status[x]
      BY <1>4, <1>a, <1>b DEF Yield, ThreadStatus
    <2>2. readyList # <<>> /\ waiting' = waiting
          /\ Run(Head(readyList), st, Enqueue(Tail(readyList), currentThread),
                 threadToBeDestroyed)
      BY <1>4 DEF Yield
    <2> HIDE DEF st
    <2>3. QED BY <1>c, <2>1, <2>2, RunLeavesOthers
  <1>5. CASE Block
    BY <1>5, <1>b, SleepLeavesOthers DEF Block
  <1>6. CASE Finish
    BY <1>6, <1>b, SleepLeavesOthers DEF Finish
  <1>7. CASE DeviceInterrupt
    BY <1>7, <1>3 DEF DeviceInterrupt
  <1>8. CASE IdleDispatch
    BY <1>8, <1>a, <1>c, RunLeavesOthers DEF IdleDispatch
  <1>9. CASE RequestIO \/ Halt \/ IdleHalt \/ Stopped \/ UNCHANGED schedVars
    BY <1>9 DEF RequestIO, Halt, IdleHalt, Stopped, schedVars
  <1>10. ASSUME NEW t \in Thread, ReadyWaiter(t) PROVE status'[x] = status[x] /\ x \notin waiting'
    BY <1>10, <1>3 DEF ReadyWaiter
  <1>11. QED
    BY <1>1, <1>2, <1>4, <1>5, <1>6, <1>7, <1>8, <1>9, <1>10 DEF SchedNext

(* A finished thread is never readied or run again and a deleted one stays *)
(* deleted: an action property of every behaviour, with any number of      *)
(* threads and interrupts.                                                 *)
THEOREM SchedulerNoResurrection == SchedSpec => NoResurrection
  <1> DEFINE A == \A t \in Thread :
                    /\ Finished(t) => (Finished(t)' \/ status'[t] = "DELETED")
                    /\ status[t] = "DELETED" => status'[t] = "DELETED"
  <1>1. SchedIInv /\ [SchedNext]_schedVars => [A]_schedVars
    <2> SUFFICES ASSUME SchedIInv, [SchedNext]_schedVars, NEW t \in Thread
                 PROVE  /\ Finished(t) => (Finished(t)' \/ status'[t] = "DELETED")
                        /\ status[t] = "DELETED" => status'[t] = "DELETED"
      OBVIOUS
    <2>1. ASSUME Finished(t) PROVE Finished(t)' \/ status'[t] = "DELETED"
      BY <2>1, GoneStaysGone DEF Finished
    <2>2. ASSUME status[t] = "DELETED" PROVE status'[t] = "DELETED"
      <3>1. t \notin waiting
        BY <2>2 DEF SchedIInv, DoomedIsFinished
      <3>2. QED BY <2>2, <3>1, GoneStaysGone
    <2>3. QED BY <2>1, <2>2
  <1>2. QED BY <1>1, SchedInitIInv, SchedNextIInv, PTL DEF SchedSpec, NoResurrection

-----------------------------------------------------------------------------
(* The semaphore                                                           *)

(* Sleeping in P appends the thread to the queue and to nothing else.      *)
LEMMA AppendAsleep ==
  ASSUME SemTypeOK, NEW t \in Thread, queue' = Append(queue, t)
  PROVE  /\ queue' \in Seq(Thread)
         /\ Asleep' = Asleep \cup {t}
         /\ queue' # <<>>
         /\ /\ \A i, j \in 1..Len(queue) : queue[i] = queue[j] => i = j
            /\ t \notin Asleep
            => \A i, j \in 1..Len(queue') : queue'[i] = queue'[j] => i = j
  <1>1. /\ queue' \in Seq(Thread)
        /\ Len(queue) \in Nat
        /\ Len(queue') = Len(queue) + 1
        /\ \A i \in 1..Len(queue) : queue'[i] = queue[i]
        /\ queue'[Len(queue) + 1] = t
    BY DEF SemTypeOK
  <1>2. Asleep' = Asleep \cup {t}
    <2>1. ASSUME NEW u \in Asleep' PROVE u \in Asleep \cup {t}
      <3>1. PICK i \in 1..Len(queue') : u = queue'[i]
        BY <2>1 DEF Asleep
      <3>2. CASE i \in 1..Len(queue)
        BY <1>1, <3>1, <3>2 DEF Asleep
      <3>3. CASE i = Len(queue) + 1
        BY <1>1, <3>1, <3>3
      <3>4. QED BY <1>1, <3>1, <3>2, <3>3
    <2>2. ASSUME NEW u \in Asleep PROVE u \in Asleep'
      <3>1. PICK i \in 1..Len(queue) : u = queue[i]
        BY <2>2 DEF Asleep
      <3>2. i \in 1..Len(queue') /\ queue'[i] = u
        BY <1>1, <3>1
      <3>3. QED BY <3>2 DEF Asleep
    <2>3. t \in Asleep'
      <3>1. Len(queue) + 1 \in 1..Len(queue')
        BY <1>1
      <3>2. QED BY <1>1, <3>1 DEF Asleep
    <2>4. QED BY <2>1, <2>2, <2>3
  <1>3. ASSUME \A i, j \in 1..Len(queue) : queue[i] = queue[j] => i = j,
               t \notin Asleep
        PROVE  \A i, j \in 1..Len(queue') : queue'[i] = queue'[j] => i = j
    BY <1>1, <1>3 DEF Asleep
  <1>4. queue' # <<>>
    BY <1>1
  <1>5. QED BY <1>1, <1>2, <1>3, <1>4

(* V takes exactly the first sleeper off the queue.                        *)
LEMMA RemoveAsleep ==
  ASSUME SemTypeOK, QueueConsistent, queue # <<>>, queue' = Tail(queue)
  PROVE  /\ queue' \in Seq(Thread)
         /\ Head(queue) \in Asleep
         /\ Head(queue) \in Thread
         /\ Asleep' = Asleep \ {Head(queue)}
         /\ \A i, j \in 1..Len(queue') : queue'[i] = queue'[j] => i = j
  <1>1. /\ queue' \in Seq(Thread)
        /\ Len(queue) \in Nat \ {0}
        /\ Head(queue) = queue[1] /\ Head(queue) \in Thread
        /\ Len(queue') = Len(queue) - 1
        /\ \A i \in 1..Len(queue) - 1 : queue'[i] = queue[i + 1]
    BY DEF SemTypeOK
  <1>2. 1 \in 1..Len(queue)
    BY <1>1
  <1>3. Head(queue) \in Asleep
    BY <1>1, <1>2 DEF Asleep
  <1>4. ASSUME NEW u \in Asleep' PROVE u \in Asleep \ {Head(queue)}
    <2>1. PICK i \in 1..Len(queue') : u = queue'[i]
      BY <1>4 DEF Asleep
    <2>2. i + 1 \in 1..Len(queue) /\ u = queue[i + 1] /\ i + 1 # 1
      BY <1>1, <2>1
    <2>3. QED BY <1>1, <1>2, <2>2 DEF Asleep, QueueConsistent
  <1>5. ASSUME NEW u \in Asleep \ {Head(queue)} PROVE u \in Asleep'
    <2>1. PICK i \in 1..Len(queue) : u = queue[i]
      BY <1>5 DEF Asleep
    <2>2. i # 1
      BY <1>1, <1>5, <2>1
    <2>3. i - 1 \in 1..Len(queue') /\ queue'[i - 1] = u
      BY <1>1, <2>1, <2>2
    <2>4. QED BY <2>3 DEF Asleep
  <1>6. ASSUME NEW i \in 1..Len(queue'), NEW j \in 1..Len(queue'), queue'[i] = queue'[j]
        PROVE  i = j
    <2>1. i + 1 \in 1..Len(queue) /\ j + 1 \in 1..Len(queue)
      BY <1>1, <1>6
    <2>2. queue[i + 1] = queue[j + 1]
      BY <1>1, <1>6
    <2>3. QED BY <2>1, <2>2 DEF QueueConsistent
  <1>7. QED BY <1>1, <1>3, <1>4, <1>5, <1>6

(* The woken threads are finitely many, so they can be counted.            *)
LEMMA WokenFinite ==
  ASSUME SemTypeOK
  PROVE  IsFiniteSet(woken) /\ Cardinality(woken) \in Nat
  BY SemaphoreAssumption, FS_Subset, FS_CardinalityType DEF SemTypeOK

(* The initial state satisfies the inductive invariant.                    *)
LEMMA SemInitIInv == SemInit => SemIInv
  BY SemaphoreAssumption DEF SemInit, SemIInv, SemTypeOK, QueueConsistent, NoLostWakeup, Asleep

(* Every method step preserves the inductive invariant.                    *)
LEMMA SemNextIInv == SemIInv /\ [SemNext]_semVars => SemIInv'
  <1> SUFFICES ASSUME SemIInv, [SemNext]_semVars PROVE SemIInv'
    OBVIOUS
  <1> USE SemaphoreAssumption
  <1>a. SemTypeOK /\ QueueConsistent /\ NoLostWakeup
    BY DEF SemIInv
  <1>b. value \in Nat /\ value <= MaxValue /\ woken \subseteq Thread
    BY <1>a DEF SemTypeOK
  <1>c. IsFiniteSet(woken) /\ Cardinality(woken) \in Nat
    BY <1>a, WokenFinite
  <1>1. ASSUME NEW t \in Thread, P(t) PROVE SemIInv'
    <2>1. CASE value > 0 /\ value' = value - 1 /\ UNCHANGED <<queue, woken>>
      BY <1>a, <1>b, <1>c, <2>1 DEF SemIInv, SemTypeOK, QueueConsistent, Asleep, NoLostWakeup
    <2>2. CASE value = 0 /\ queue' = Append(queue, t) /\ UNCHANGED <<value, woken>>
      <3>1. /\ queue' \in Seq(Thread) /\ Asleep' = Asleep \cup {t}
            /\ \A i, j \in 1..Len(queue') : queue'[i] = queue'[j] => i = j
        BY <1>1, <1>a, <2>2, AppendAsleep DEF P, QueueConsistent
      <3>2. SemTypeOK' /\ QueueConsistent'
        BY <1>1, <1>a, <2>2, <3>1 DEF P, SemTypeOK, QueueConsistent
      <3>3. NoLostWakeup'
        BY <1>c, <2>2 DEF NoLostWakeup
      <3>4. QED BY <3>2, <3>3 DEF SemIInv
    <2>3. QED BY <1>1, <2>1, <2>2 DEF P, TakeOrSleep
  <1>2. ASSUME NEW t \in Thread, Resume(t) PROVE SemIInv'
    <2>0. /\ woken' = woken \ {t} /\ t \in woken
          /\ Cardinality(woken') = Cardinality(woken) - 1
      BY <1>2, <1>c, FS_RemoveElement DEF Resume
    <2>1. CASE value > 0 /\ value' = value - 1 /\ UNCHANGED queue
      <3>1. SemTypeOK' /\ QueueConsistent'
        BY <1>a, <1>b, <2>0, <2>1 DEF SemTypeOK, QueueConsistent, Asleep
      <3>2. NoLostWakeup'
        BY <1>a, <1>b, <1>c, <2>0, <2>1 DEF NoLostWakeup
      <3>3. QED BY <3>1, <3>2 DEF SemIInv
    <2>2. CASE value = 0 /\ queue' = Append(queue, t) /\ UNCHANGED value
      <3>1. t \notin Asleep
        BY <1>a, <2>0 DEF QueueConsistent
      <3>2. /\ queue' \in Seq(Thread) /\ Asleep' = Asleep \cup {t}
            /\ \A i, j \in 1..Len(queue') : queue'[i] = queue'[j] => i = j
        BY <1>a, <2>2, <3>1, AppendAsleep DEF QueueConsistent
      <3>3. SemTypeOK' /\ QueueConsistent'
        BY <1>a, <2>0, <2>2, <3>2 DEF SemTypeOK, QueueConsistent
      <3>4. value' = 0 /\ Cardinality(woken') \in Nat
        <4>1. IsFiniteSet(woken')
          BY <1>c, <2>0, FS_Subset
        <4>2. QED BY <2>2, <4>1, FS_CardinalityType
      <3>5. NoLostWakeup'
        BY <3>4 DEF NoLostWakeup
      <3>6. QED BY <3>3, <3>5 DEF SemIInv
    <2>3. QED BY <1>2, <2>1, <2>2 DEF Resume, TakeOrSleep
  <1>3. CASE V
    <2>1. CASE /\ queue # <<>> /\ queue' = Tail(queue)
               /\ woken' = woken \cup {Head(queue)}
      <3>1. /\ queue' \in Seq(Thread) /\ Asleep' = Asleep \ {Head(queue)}
            /\ Head(queue) \in Thread /\ Head(queue) \in Asleep
            /\ \A i, j \in 1..Len(queue') : queue'[i] = queue'[j] => i = j
        BY <1>a, <2>1, RemoveAsleep
      <3>2. Head(queue) \notin woken
        BY <1>a, <3>1 DEF QueueConsistent
      <3>3. Cardinality(woken') = Cardinality(woken) + 1
        BY <1>c, <2>1, <3>2, FS_AddElement
      <3>4. SemTypeOK' /\ QueueConsistent'
        BY <1>3, <1>a, <1>b, <2>1, <3>1 DEF V, SemTypeOK, QueueConsistent
      <3>5. NoLostWakeup'
        BY <1>3, <1>a, <1>b, <1>c, <2>1, <3>3 DEF V, NoLostWakeup
      <3>6. QED BY <3>4, <3>5 DEF SemIInv
    <2>2. CASE queue = <<>> /\ UNCHANGED <<queue, woken>>
      BY <1>3, <1>a, <1>b, <2>2 DEF V, SemIInv, SemTypeOK, QueueConsistent, Asleep, NoLostWakeup
    <2>3. QED BY <1>3, <2>1, <2>2 DEF V
  <1>4. CASE Destroy
    <2>1. Asleep \subseteq Thread
      BY <1>a DEF Asleep, SemTypeOK
    <2>2. Asleep' = {}
      BY <1>4 DEF Destroy, Asleep
    <2>3. SemTypeOK' /\ QueueConsistent' /\ NoLostWakeup'
      BY <1>4, <1>a, <2>1, <2>2 DEF Destroy, SemTypeOK, QueueConsistent, NoLostWakeup
    <2>4. QED BY <2>3 DEF SemIInv
  <1>5. CASE UNCHANGED semVars
    BY <1>5, <1>a DEF semVars, SemIInv, SemTypeOK, QueueConsistent, Asleep, NoLostWakeup
  <1>6. QED BY <1>1, <1>2, <1>3, <1>4, <1>5 DEF SemNext

-----------------------------------------------------------------------------
(* Type correctness: in particular the value is never negative, as the     *)
(* declaration in synch.h promises.                                        *)
THEOREM SemaphoreTypeOK == SemSpec => []SemTypeOK
  <1>1. SemIInv => SemTypeOK
    BY DEF SemIInv
  <1>2. QED BY <1>1, SemInitIInv, SemNextIInv, PTL DEF SemSpec

(* No wakeup is lost: while threads sleep in P there is a woken thread for *)
(* every available unit, whatever the order of dispatching.                *)
THEOREM SemaphoreNoLostWakeup == SemSpec => []NoLostWakeup
  <1>1. SemIInv => NoLostWakeup
    BY DEF SemIInv
  <1>2. QED BY <1>1, SemInitIInv, SemNextIInv, PTL DEF SemSpec

(* A thread is never queued twice, nor queued and ready at once.           *)
THEOREM SemaphoreQueueConsistent == SemSpec => []QueueConsistent
  <1>1. SemIInv => QueueConsistent
    BY DEF SemIInv
  <1>2. QED BY <1>1, SemInitIInv, SemNextIInv, PTL DEF SemSpec

(* P, V and Destroy implement the atomic counting semaphore.               *)
THEOREM SemaphoreRefinement == SemSpec => ImplementsSemaphore
  <1>1. SemInit => Abstract!Init
    BY DEF SemInit, Abstract!Init, Asleep
  <1>2. SemIInv /\ [SemNext]_semVars => [Abstract!Next]_(Abstract!vars)
    <2> SUFFICES ASSUME SemIInv, [SemNext]_semVars PROVE [Abstract!Next]_(Abstract!vars)
      OBVIOUS
    <2>a. SemTypeOK /\ QueueConsistent
      BY DEF SemIInv
    <2> USE DEF Abstract!Next, Abstract!vars, Abstract!Take, Abstract!StartWait,
                Abstract!EndWait, Abstract!Give
    <2>1. ASSUME NEW t \in Thread, P(t) PROVE [Abstract!Next]_(Abstract!vars)
      <3>1. CASE value > 0 /\ value' = value - 1 /\ UNCHANGED <<queue, woken>>
        <4>1. Asleep' = Asleep
          BY <3>1 DEF Asleep
        <4>2. Abstract!Take(t)
          BY <2>1, <3>1, <4>1 DEF P
        <4>3. QED BY <4>2
      <3>2. CASE value = 0 /\ queue' = Append(queue, t) /\ UNCHANGED <<value, woken>>
        <4>1. Asleep' = Asleep \cup {t}
          BY <2>a, <3>2, AppendAsleep
        <4>2. Abstract!StartWait(t)
          BY <2>1, <3>2, <4>1 DEF P
        <4>3. QED BY <4>2
      <3>3. QED BY <2>1, <3>1, <3>2 DEF P, TakeOrSleep
    <2>2. ASSUME NEW t \in Thread, Resume(t) PROVE [Abstract!Next]_(Abstract!vars)
      <3>1. CASE value > 0 /\ value' = value - 1 /\ UNCHANGED queue
        <4>1. Asleep' = Asleep /\ t \in woken /\ woken' = woken \ {t} /\ t \notin Asleep
          BY <2>2, <2>a, <3>1 DEF Asleep, Resume, QueueConsistent
        <4>2. Abstract!EndWait(t)
          BY <3>1, <4>1
        <4>3. QED BY <4>2
      <3>2. CASE value = 0 /\ queue' = Append(queue, t) /\ UNCHANGED value
        <4>1. Asleep' = Asleep \cup {t}
          BY <2>a, <3>2, AppendAsleep
        <4>2. Asleep' \cup woken' = Asleep \cup woken
          BY <2>2, <4>1 DEF Resume
        <4>3. QED BY <3>2, <4>2
      <3>3. QED BY <2>2, <3>1, <3>2 DEF Resume, TakeOrSleep
    <2>3. CASE V
      <3>1. Asleep' \cup woken' = Asleep \cup woken
        <4>1. CASE /\ queue # <<>> /\ queue' = Tail(queue)
                   /\ woken' = woken \cup {Head(queue)}
          BY <2>a, <4>1, RemoveAsleep
        <4>2. CASE UNCHANGED <<queue, woken>>
          BY <4>2 DEF Asleep
        <4>3. QED BY <2>3, <4>1, <4>2 DEF V
      <3>2. Abstract!Give
        BY <2>3, <3>1 DEF V
      <3>3. QED BY <3>2
    <2>4. CASE Destroy
      <3>1. Asleep' = {}
        BY <2>4 DEF Destroy, Asleep
      <3>2. QED BY <2>4, <3>1 DEF Destroy
    <2>5. CASE UNCHANGED semVars
      BY <2>5 DEF semVars, Asleep
    <2>6. QED BY <2>1, <2>2, <2>3, <2>4, <2>5 DEF SemNext
  <1>3. QED
    BY <1>1, <1>2, SemInitIInv, SemNextIInv, PTL DEF SemSpec, ImplementsSemaphore, Abstract!Spec

-----------------------------------------------------------------------------
(* The lock, the condition and the synchronized list                       *)

(* QueuesExact in the vocabulary of the queue lemmas.                      *)
LEMMA QueuesExactMeans ==
  QueuesExact <=>
    /\ Distinct(lockQueue)
    /\ \A t \in Thread : pc[t] = "acquiring" <=> Listed(lockQueue, t)
    /\ Distinct(condQueue)
    /\ \A t \in Thread : pc[t] = "waiting" <=> Listed(condQueue, t)
  BY DEF QueuesExact, Lists, Distinct, Listed

(* The same after a step.                                                  *)
LEMMA QueuesExactNext ==
  ASSUME Distinct(lockQueue'), Distinct(condQueue'),
         \A t \in Thread : pc'[t] = "acquiring" <=> Listed(lockQueue', t),
         \A t \in Thread : pc'[t] = "waiting" <=> Listed(condQueue', t)
  PROVE  QueuesExact'
  BY DEF QueuesExact, Lists, Distinct, Listed

(* The initial state satisfies the inductive invariant.                    *)
LEMMA InitIInv == Init => IInv
  BY NullAssumption DEF Init, IInv, TypeOK, Location, MutualExclusion, Holds,
     HolderIsOwner, IsHeldBy, LockNoLostWakeup, SignalHasTaker, QueuesExact, Lists

(* What removing the first thread waiting for the lock does, whatever the  *)
(* rest of the step does to the thread states.                             *)
LEMMA ReadyLockWaiterEffect ==
  ASSUME IInv, NEW at \in [Thread -> Location],
         \A t \in Thread : at[t] = "acquiring" <=> pc[t] = "acquiring"
  PROVE  /\ Dequeue(lockQueue) \in Seq(Thread)
         /\ Distinct(Dequeue(lockQueue))
         /\ ReadyLockWaiter(at) \in [Thread -> Location]
         /\ \A t \in Thread :
              ReadyLockWaiter(at)[t] = "acquiring" <=> Listed(Dequeue(lockQueue), t)
         /\ \A t \in Thread :
              \/ ReadyLockWaiter(at)[t] = at[t]
              \/ at[t] = "acquiring" /\ ReadyLockWaiter(at)[t] = "acquireWoken"
         /\ Dequeue(lockQueue) # <<>> =>
              \E t \in Thread : ReadyLockWaiter(at)[t] = "acquireWoken"
  <1>1. /\ lockQueue \in Seq(Thread) /\ Distinct(lockQueue)
        /\ \A t \in Thread : at[t] = "acquiring" <=> Listed(lockQueue, t)
    BY QueuesExactMeans DEF IInv, TypeOK
  <1>2. CASE lockQueue = <<>>
    BY <1>1, <1>2 DEF Dequeue, ReadyLockWaiter
  <1>3. CASE lockQueue # <<>>
    <2> DEFINE h == Head(lockQueue)
    <2>1. /\ h \in Thread /\ at[h] = "acquiring"
          /\ Tail(lockQueue) \in Seq(Thread) /\ Distinct(Tail(lockQueue))
          /\ \A u \in Thread :
               Listed(Tail(lockQueue), u) <=> (at[u] = "acquiring" /\ u # h)
      BY <1>1, <1>3, RemoveListed
    <2>2. /\ Dequeue(lockQueue) = Tail(lockQueue)
          /\ ReadyLockWaiter(at) = [at EXCEPT ![h] = "acquireWoken"]
      BY <1>3 DEF Dequeue, ReadyLockWaiter
    <2> HIDE DEF h
    <2>3. /\ ReadyLockWaiter(at) \in [Thread -> Location]
          /\ ReadyLockWaiter(at)[h] = "acquireWoken"
          /\ \A u \in Thread : u # h => ReadyLockWaiter(at)[u] = at[u]
      BY <2>1, <2>2 DEF Location
    <2>4. QED BY <2>1, <2>2, <2>3
  <1>4. QED BY <1>2, <1>3

(* Acquire, Release and Wait change the holder: at most the acting thread  *)
(* holds the lock before the step, so at most it holds it after.           *)
LEMMA SoleHolder ==
  ASSUME IInv, NEW t \in Thread, available \/ Holds(t)
  PROVE  \A u \in Thread : u # t => ~Holds(u)
  BY DEF IInv, MutualExclusion

(* A turn of the loop of Acquire preserves what concerns the lock.         *)
LEMMA TryAcquireStep ==
  ASSUME IInv, NEW t \in Thread, TryAcquire(t),
         pc[t] \in {"out", "acquireWoken", "waitWoken"},
         UNCHANGED condQueue,
         isBusy' \in BOOLEAN,
         ~isBusy' => \E u \in Thread \ {t} : pc[u] = "waitWoken"
  PROVE  IInv'
  <1>a. /\ pc \in [Thread -> Location] /\ lockQueue \in Seq(Thread)
        /\ Distinct(lockQueue)
        /\ \A u \in Thread : pc[u] = "acquiring" <=> Listed(lockQueue, u)
        /\ Distinct(condQueue)
        /\ \A u \in Thread : pc[u] = "waiting" <=> Listed(condQueue, u)
    BY QueuesExactMeans DEF IInv, TypeOK
  <1>1. CASE /\ available /\ available' = FALSE /\ owner' = t
             /\ pc' = [pc EXCEPT ![t] = "inside"]
             /\ UNCHANGED lockQueue
    <2>1. /\ pc' \in [Thread -> Location] /\ pc'[t] = "inside"
          /\ \A u \in Thread : u # t => pc'[u] = pc[u]
      BY <1>a, <1>1 DEF Location
    <2>2. TypeOK'
      BY <1>1, <2>1 DEF IInv, TypeOK
    <2>3. MutualExclusion' /\ HolderIsOwner'
      BY <1>1, <2>1, SoleHolder
      DEF IInv, MutualExclusion, HolderIsOwner, Holds, IsHeldBy
    <2>4. LockNoLostWakeup' /\ SignalHasTaker'
      BY <1>1, <2>1 DEF LockNoLostWakeup, SignalHasTaker
    <2>5. QueuesExact'
      <3>1. \A u \in Thread : /\ pc'[u] = "acquiring" <=> pc[u] = "acquiring"
                              /\ pc'[u] = "waiting" <=> pc[u] = "waiting"
        BY <2>1
      <3>2. QED BY <1>a, <1>1, <3>1 DEF QueuesExact, Lists, Distinct, Listed
    <2>6. QED BY <2>2, <2>3, <2>4, <2>5 DEF IInv
  <1>2. CASE /\ ~available /\ lockQueue' = Append(lockQueue, t)
             /\ pc' = [pc EXCEPT ![t] = "acquiring"]
             /\ UNCHANGED <<available, owner>>
    <2>1. /\ pc' \in [Thread -> Location] /\ pc'[t] = "acquiring"
          /\ \A u \in Thread : u # t => pc'[u] = pc[u]
      BY <1>a, <1>2 DEF Location
    <2>2. /\ lockQueue' \in Seq(Thread) /\ Distinct(lockQueue')
          /\ \A u \in Thread : Listed(lockQueue', u) <=> (Listed(lockQueue, u) \/ u = t)
      BY <1>a, <1>2, AppendListed
    <2>3. TypeOK'
      BY <1>2, <2>1, <2>2 DEF IInv, TypeOK
    <2>4. MutualExclusion' /\ HolderIsOwner'
      BY <1>2, <2>1 DEF IInv, MutualExclusion, HolderIsOwner, Holds, IsHeldBy
    <2>5. LockNoLostWakeup' /\ SignalHasTaker'
      BY <1>2, <2>1 DEF LockNoLostWakeup, SignalHasTaker
    <2>6. \A u \in Thread : /\ pc'[u] = "acquiring" <=> Listed(lockQueue', u)
                            /\ pc'[u] = "waiting" <=> Listed(condQueue, u)
      BY <1>a, <2>1, <2>2
    <2>7. QueuesExact'
      BY <1>a, <2>2, <2>6 DEF QueuesExact, Lists, Distinct, Listed
    <2>8. QED BY <2>3, <2>4, <2>5, <2>7 DEF IInv
  <1>3. QED BY <1>1, <1>2 DEF TryAcquire

(* The body of Signal, by the holder of the lock.                          *)
LEMMA NotifyStep ==
  ASSUME IInv, NEW t \in Thread, Holds(t),
         NEW loc \in {"inside", "bcTest"},
         Notify([pc EXCEPT ![t] = loc]), UNCHANGED lockVars
  PROVE  IInv'
  <1> DEFINE at == [pc EXCEPT ![t] = loc]
  <1>a. /\ pc \in [Thread -> Location] /\ condQueue \in Seq(Thread)
        /\ Distinct(lockQueue)
        /\ \A u \in Thread : pc[u] = "acquiring" <=> Listed(lockQueue, u)
        /\ Distinct(condQueue)
        /\ \A u \in Thread : pc[u] = "waiting" <=> Listed(condQueue, u)
    BY QueuesExactMeans DEF IInv, TypeOK
  <1>b. /\ at \in [Thread -> Location] /\ at[t] = loc
        /\ \A u \in Thread : u # t => at[u] = pc[u]
    BY <1>a DEF Location
  <1>c. pc[t] \in {"inside", "bcTest", "bcSignal"}
    BY DEF Holds
  <1>d. UNCHANGED <<available, owner, lockQueue>>
    BY DEF lockVars
  <1> HIDE DEF at
  <1>1. CASE /\ condQueue # <<>> /\ condQueue' = Tail(condQueue)
             /\ isBusy' = FALSE
             /\ pc' = [at EXCEPT ![Head(condQueue)] = "waitWoken"]
    <2> DEFINE h == Head(condQueue)
    <2>1. /\ h \in Thread /\ pc[h] = "waiting" /\ h # t
          /\ condQueue' \in Seq(Thread) /\ Distinct(condQueue')
          /\ \A u \in Thread :
               Listed(condQueue', u) <=> (pc[u] = "waiting" /\ u # h)
      BY <1>a, <1>c, <1>1, RemoveListed
    <2>2. /\ pc' \in [Thread -> Location] /\ pc'[h] = "waitWoken" /\ pc'[t] = loc
          /\ \A u \in Thread : u # t /\ u # h => pc'[u] = pc[u]
      <3> HIDE DEF h
      <3>1. pc' = [at EXCEPT ![h] = "waitWoken"]
        BY <1>1 DEF h
      <3>2. QED BY <1>b, <2>1, <3>1 DEF Location
    <2> HIDE DEF h
    <2>3. TypeOK'
      BY <1>1, <1>d, <2>1, <2>2 DEF IInv, TypeOK
    <2>4. \A u \in Thread : Holds(u)' <=> Holds(u)
      BY <2>1, <2>2 DEF Holds
    <2>5. MutualExclusion' /\ HolderIsOwner'
      BY <1>d, <2>4 DEF IInv, MutualExclusion, HolderIsOwner, IsHeldBy
    <2>6. LockNoLostWakeup' /\ SignalHasTaker'
      <3>1. ~available
        BY DEF IInv, MutualExclusion
      <3>2. QED BY <1>d, <2>1, <2>2, <3>1 DEF LockNoLostWakeup, SignalHasTaker
    <2>7. \A u \in Thread : /\ pc'[u] = "acquiring" <=> Listed(lockQueue, u)
                            /\ pc'[u] = "waiting" <=> Listed(condQueue', u)
      BY <1>a, <1>c, <2>1, <2>2
    <2>8. QueuesExact'
      <3>1. /\ Distinct(lockQueue') /\ Distinct(condQueue')
            /\ \A u \in Thread : pc'[u] = "acquiring" <=> Listed(lockQueue', u)
            /\ \A u \in Thread : pc'[u] = "waiting" <=> Listed(condQueue', u)
        BY <1>a, <1>d, <2>1, <2>7
      <3>2. QED BY <3>1, QueuesExactNext
    <2>9. QED BY <2>3, <2>5, <2>6, <2>8 DEF IInv
  <1>2. CASE condQueue = <<>> /\ pc' = at /\ UNCHANGED condVars
    <2>1. UNCHANGED <<isBusy, condQueue>>
      BY <1>2 DEF condVars
    <2>2. TypeOK'
      BY <1>b, <1>d, <1>2, <2>1 DEF IInv, TypeOK
    <2>3. \A u \in Thread : /\ Holds(u)' <=> Holds(u)
                            /\ pc'[u] = "acquiring" <=> pc[u] = "acquiring"
                            /\ pc'[u] = "waiting" <=> pc[u] = "waiting"
                            /\ pc'[u] = "waitWoken" <=> pc[u] = "waitWoken"
      BY <1>b, <1>c, <1>2 DEF Holds
    <2>4. MutualExclusion' /\ HolderIsOwner'
      BY <1>d, <2>3 DEF IInv, MutualExclusion, HolderIsOwner, IsHeldBy
    <2>5. LockNoLostWakeup' /\ SignalHasTaker'
      <3>1. ~available
        BY DEF IInv, MutualExclusion
      <3>2. QED BY <1>d, <2>1, <2>3, <3>1
            DEF IInv, LockNoLostWakeup, SignalHasTaker
    <2>6. QueuesExact'
      BY <1>a, <1>d, <2>1, <2>3 DEF QueuesExact, Lists, Distinct, Listed
    <2>7. QED BY <2>2, <2>4, <2>5, <2>6 DEF IInv
  <1>3. QED BY <1>1, <1>2 DEF Notify, at

(* Release, and the part of Wait before its Sleep: the holder leaves.      *)
LEMMA LeaveStep ==
  ASSUME IInv, NEW t \in Thread, pc[t] = "inside",
         NEW loc \in {"out", "waiting"},
         available' = TRUE, owner' = owner, isBusy' = isBusy,
         lockQueue' = Dequeue(lockQueue),
         pc' = ReadyLockWaiter([pc EXCEPT ![t] = loc]),
         condQueue' = IF loc = "waiting" THEN Append(condQueue, t) ELSE condQueue
  PROVE  IInv'
  <1> DEFINE at == [pc EXCEPT ![t] = loc]
  <1>a. /\ pc \in [Thread -> Location] /\ condQueue \in Seq(Thread)
        /\ Distinct(condQueue)
        /\ \A u \in Thread : pc[u] = "waiting" <=> Listed(condQueue, u)
    BY QueuesExactMeans DEF IInv, TypeOK
  <1>b. /\ at \in [Thread -> Location] /\ at[t] = loc
        /\ \A u \in Thread : u # t => at[u] = pc[u]
    BY <1>a DEF Location
  <1>c. \A u \in Thread : at[u] = "acquiring" <=> pc[u] = "acquiring"
    BY <1>b
  <1> HIDE DEF at
  <1>d. pc' = ReadyLockWaiter(at)
    BY DEF at
  <1>1. /\ lockQueue' \in Seq(Thread) /\ Distinct(lockQueue')
        /\ pc' \in [Thread -> Location]
        /\ \A u \in Thread : pc'[u] = "acquiring" <=> Listed(lockQueue', u)
        /\ \A u \in Thread : \/ pc'[u] = at[u]
                             \/ at[u] = "acquiring" /\ pc'[u] = "acquireWoken"
        /\ lockQueue' # <<>> => \E u \in Thread : pc'[u] = "acquireWoken"
    <2> DEFINE readied == ReadyLockWaiter(at)
    <2> DEFINE rest == Dequeue(lockQueue)
    <2>1. /\ rest \in Seq(Thread) /\ Distinct(rest)
          /\ readied \in [Thread -> Location]
          /\ \A u \in Thread : readied[u] = "acquiring" <=> Listed(rest, u)
          /\ \A u \in Thread : \/ readied[u] = at[u]
                               \/ at[u] = "acquiring" /\ readied[u] = "acquireWoken"
          /\ rest # <<>> => \E u \in Thread : readied[u] = "acquireWoken"
      BY <1>b, <1>c, ReadyLockWaiterEffect
    <2>2. pc' = readied /\ lockQueue' = rest
      BY <1>d
    <2> HIDE DEF readied, rest
    <2>3. QED BY <2>1, <2>2
  <1>2. /\ condQueue' \in Seq(Thread) /\ Distinct(condQueue')
        /\ \A u \in Thread : at[u] = "waiting" <=> Listed(condQueue', u)
    <2>1. CASE loc = "out"
      BY <1>a, <1>b, <2>1
    <2>2. CASE loc = "waiting"
      BY <1>a, <1>b, <2>2, AppendListed
    <2>3. QED BY <2>1, <2>2
  <1>3. TypeOK'
    BY <1>1, <1>2 DEF IInv, TypeOK
  <1>4. \A u \in Thread : ~Holds(u)'
    <2>1. \A u \in Thread : u # t => ~Holds(u)
      BY SoleHolder DEF Holds
    <2>2. \A u \in Thread : at[u] \notin {"inside", "bcTest", "bcSignal"}
      BY <1>b, <2>1 DEF Holds
    <2>3. QED BY <1>1, <2>2 DEF Holds
  <1>5. MutualExclusion' /\ HolderIsOwner'
    BY <1>4 DEF MutualExclusion, HolderIsOwner
  <1>6. LockNoLostWakeup' /\ SignalHasTaker'
    <2>1. \A u \in Thread : pc[u] = "waitWoken" => pc'[u] = "waitWoken"
      BY <1>b, <1>1
    <2>2. QED BY <1>1, <2>1 DEF IInv, LockNoLostWakeup, SignalHasTaker
  <1>7. \A u \in Thread : pc'[u] = "waiting" <=> Listed(condQueue', u)
    BY <1>1, <1>2
  <1>8. QueuesExact'
    BY <1>1, <1>2, <1>7 DEF QueuesExact, Lists, Distinct, Listed
  <1>9. QED BY <1>3, <1>5, <1>6, <1>8 DEF IInv

(* Wait that finds an unconsumed signal: it lets go of the lock and takes   *)
(* it again within one step.                                               *)
LEMMA WaitThroughStep ==
  ASSUME IInv, NEW t \in Thread, pc[t] = "inside",
         isBusy' = TRUE, available' = FALSE,
         lockQueue' = Dequeue(lockQueue), pc' = ReadyLockWaiter(pc),
         UNCHANGED <<owner, condQueue>>
  PROVE  IInv'
  <1>a. /\ pc \in [Thread -> Location] /\ Distinct(condQueue)
        /\ \A u \in Thread : pc[u] = "waiting" <=> Listed(condQueue, u)
    BY QueuesExactMeans DEF IInv, TypeOK
  <1>1. /\ lockQueue' \in Seq(Thread) /\ Distinct(lockQueue')
        /\ pc' \in [Thread -> Location]
        /\ \A u \in Thread : pc'[u] = "acquiring" <=> Listed(lockQueue', u)
        /\ \A u \in Thread : \/ pc'[u] = pc[u]
                             \/ pc[u] = "acquiring" /\ pc'[u] = "acquireWoken"
    BY <1>a, ReadyLockWaiterEffect
  <1>2. TypeOK'
    BY <1>1 DEF IInv, TypeOK
  <1>3. \A u \in Thread : Holds(u)' <=> Holds(u)
    BY <1>1 DEF Holds
  <1>4. MutualExclusion' /\ HolderIsOwner'
    <2>1. Holds(t)
      BY DEF Holds
    <2>2. QED BY <1>3, <2>1 DEF IInv, MutualExclusion, HolderIsOwner, IsHeldBy
  <1>5. LockNoLostWakeup' /\ SignalHasTaker'
    BY DEF LockNoLostWakeup, SignalHasTaker
  <1>6. \A u \in Thread : pc'[u] = "waiting" <=> Listed(condQueue, u)
    BY <1>a, <1>1
  <1>7. QueuesExact'
    BY <1>a, <1>1, <1>6 DEF QueuesExact, Lists, Distinct, Listed
  <1>8. QED BY <1>2, <1>4, <1>5, <1>7 DEF IInv

(* A signalled thread that finds its signal consumed waits again.          *)
LEMMA WaitAgainStep ==
  ASSUME IInv, NEW t \in Thread, pc[t] = "waitWoken", isBusy,
         condQueue' = Append(condQueue, t),
         pc' = [pc EXCEPT ![t] = "waiting"],
         UNCHANGED <<available, owner, lockQueue, isBusy>>
  PROVE  IInv'
  <1>a. /\ pc \in [Thread -> Location] /\ condQueue \in Seq(Thread)
        /\ Distinct(lockQueue)
        /\ \A u \in Thread : pc[u] = "acquiring" <=> Listed(lockQueue, u)
        /\ Distinct(condQueue)
        /\ \A u \in Thread : pc[u] = "waiting" <=> Listed(condQueue, u)
    BY QueuesExactMeans DEF IInv, TypeOK
  <1>1. /\ pc' \in [Thread -> Location] /\ pc'[t] = "waiting"
        /\ \A u \in Thread : u # t => pc'[u] = pc[u]
    BY <1>a DEF Location
  <1>2. /\ condQueue' \in Seq(Thread) /\ Distinct(condQueue')
        /\ \A u \in Thread : Listed(condQueue', u) <=> (Listed(condQueue, u) \/ u = t)
    BY <1>a, AppendListed
  <1>3. TypeOK'
    BY <1>1, <1>2 DEF IInv, TypeOK
  <1>4. MutualExclusion' /\ HolderIsOwner'
    BY <1>1 DEF IInv, MutualExclusion, HolderIsOwner, Holds, IsHeldBy
  <1>5. LockNoLostWakeup' /\ SignalHasTaker'
    BY <1>1 DEF IInv, LockNoLostWakeup, SignalHasTaker
  <1>6. \A u \in Thread : /\ pc'[u] = "acquiring" <=> Listed(lockQueue, u)
                          /\ pc'[u] = "waiting" <=> Listed(condQueue', u)
    BY <1>a, <1>1, <1>2
  <1>7. QueuesExact'
    BY <1>a, <1>2, <1>6 DEF QueuesExact, Lists, Distinct, Listed
  <1>8. QED BY <1>3, <1>4, <1>5, <1>7 DEF IInv

(* Moving the holder along inside Broadcast changes nothing else.          *)
LEMMA HolderMoves ==
  ASSUME IInv, NEW t \in Thread, Holds(t),
         NEW loc \in {"inside", "bcTest", "bcSignal"},
         pc' = [pc EXCEPT ![t] = loc],
         UNCHANGED <<lockVars, condVars>>
  PROVE  IInv'
  <1>a. /\ UNCHANGED <<available, owner, lockQueue, isBusy, condQueue>>
        /\ pc \in [Thread -> Location]
    BY DEF lockVars, condVars, IInv, TypeOK
  <1>1. /\ pc' \in [Thread -> Location] /\ pc'[t] = loc
        /\ \A u \in Thread : u # t => pc'[u] = pc[u]
    BY <1>a DEF Location
  <1>2. \A u \in Thread :
          /\ Holds(u)' <=> Holds(u)
          /\ \A l \in {"acquiring", "acquireWoken", "waiting", "waitWoken"} :
               pc'[u] = l <=> pc[u] = l
    BY <1>1 DEF Holds
  <1>3. TypeOK'
    BY <1>a, <1>1 DEF IInv, TypeOK
  <1>4. MutualExclusion' /\ HolderIsOwner'
    BY <1>a, <1>2 DEF IInv, MutualExclusion, HolderIsOwner, IsHeldBy
  <1>5. LockNoLostWakeup' /\ SignalHasTaker'
    BY <1>a, <1>2 DEF IInv, LockNoLostWakeup, SignalHasTaker
  <1>6. QueuesExact'
    BY <1>a, <1>2 DEF IInv, QueuesExact, Lists
  <1>7. QED BY <1>3, <1>4, <1>5, <1>6 DEF IInv

(* Every step of the monitor preserves the inductive invariant.            *)
LEMMA NextIInv == IInv /\ [Next]_vars => IInv'
  <1> SUFFICES ASSUME IInv, [Next]_vars PROVE IInv'
    OBVIOUS
  <1>a. pc \in [Thread -> Location] /\ isBusy \in BOOLEAN
    BY DEF IInv, TypeOK
  <1>1. ASSUME NEW t \in Thread, Acquire(t) \/ AcquireResume(t) PROVE IInv'
    <2>1. /\ pc[t] \in {"out", "acquireWoken"} /\ TryAcquire(t)
          /\ UNCHANGED <<isBusy, condQueue>>
      BY <1>1 DEF Acquire, AcquireResume, condVars
    <2>2. ~isBusy' => \E u \in Thread \ {t} : pc[u] = "waitWoken"
      BY <2>1 DEF IInv, SignalHasTaker
    <2>3. QED BY <1>a, <2>1, <2>2, TryAcquireStep
  <1>2. ASSUME NEW t \in Thread, Release(t) PROVE IInv'
    BY <1>2, LeaveStep DEF Release
  <1>3. ASSUME NEW t \in Thread, Wait(t) PROVE IInv'
    <2>1. CASE isBusy
      BY <1>3, <2>1, LeaveStep DEF Wait
    <2>2. CASE ~isBusy
      BY <1>3, <2>2, WaitThroughStep DEF Wait
    <2>3. QED BY <2>1, <2>2
  <1>4. ASSUME NEW t \in Thread, WaitResume(t) PROVE IInv'
    <2>1. CASE isBusy
      BY <1>4, <2>1, WaitAgainStep DEF WaitResume
    <2>2. CASE ~isBusy
      BY <1>4, <2>2, TryAcquireStep DEF WaitResume
    <2>3. QED BY <2>1, <2>2
  <1>5. ASSUME NEW t \in Thread, Signal(t) PROVE IInv'
    <2>1. pc = [pc EXCEPT ![t] = "inside"] /\ Holds(t)
      BY <1>a, <1>5 DEF Signal, Holds
    <2>2. Notify([pc EXCEPT ![t] = "inside"]) /\ UNCHANGED lockVars
      BY <1>5, <2>1 DEF Signal
    <2>3. QED BY <2>1, <2>2, NotifyStep
  <1>6. ASSUME NEW t \in Thread, Broadcast(t) \/ BroadcastTest(t) PROVE IInv'
    <2>1. Holds(t)
      BY <1>6 DEF Broadcast, BroadcastTest, Holds
    <2>2. QED BY <1>6, <2>1, HolderMoves DEF Broadcast, BroadcastTest
  <1>7. ASSUME NEW t \in Thread, BroadcastSignal(t) PROVE IInv'
    BY <1>7, NotifyStep DEF BroadcastSignal, Holds
  <1>8. CASE UNCHANGED vars
    BY <1>8 DEF vars, IInv, TypeOK, MutualExclusion, Holds, HolderIsOwner, IsHeldBy,
       LockNoLostWakeup, SignalHasTaker, QueuesExact, Lists
  <1>9. QED BY <1>1, <1>2, <1>3, <1>4, <1>5, <1>6, <1>7, <1>8 DEF Next

(* The inductive invariant holds in every reachable state.                 *)
LEMMA MonitorIInv == Spec => []IInv
  BY InitIInv, NextIInv, PTL DEF Spec

(* The variables of Lock and Condition keep their types.                   *)
THEOREM MonitorTypeOK == Spec => []TypeOK
  <1>1. IInv => TypeOK
    BY DEF IInv
  <1>2. QED BY <1>1, MonitorIInv, PTL

(* Lock gives mutual exclusion to any number of threads, whichever of them *)
(* come from Acquire and whichever from Wait.                              *)
THEOREM MonitorMutualExclusion == Spec => []MutualExclusion
  <1>1. IInv => MutualExclusion
    BY DEF IInv
  <1>2. QED BY <1>1, MonitorIInv, PTL

(* Lock::Release never leaves the lock free beside sleeping threads none   *)
(* of which has been readied.                                              *)
THEOREM MonitorNoLostWakeup == Spec => []LockNoLostWakeup
  <1>1. IInv => LockNoLostWakeup
    BY DEF IInv
  <1>2. QED BY <1>1, MonitorIInv, PTL

(* A signal of Condition::Signal is always carried by a thread that has    *)
(* been readied for it: it is neither lost nor saved for a later waiter.   *)
THEOREM MonitorSignalHasTaker == Spec => []SignalHasTaker
  <1>1. IInv => SignalHasTaker
    BY DEF IInv
  <1>2. QED BY <1>1, MonitorIInv, PTL

(* Whoever holds the lock is its recorded owner, so the owner tests of     *)
(* Wait, Signal and Broadcast never turn away a thread inside the monitor. *)
THEOREM MonitorHolderIsOwner == Spec => []HolderIsOwner
  <1>1. IInv => HolderIsOwner
    BY DEF IInv
  <1>2. QED BY <1>1, MonitorIInv, PTL

-----------------------------------------------------------------------------
(* The synchronized list                                                   *)

(* The state of the list, without the bound on the number of items.        *)
ListTypes ==
  /\ list \in Seq(Nat) /\ taken \in Seq(Nat)
  /\ stage \in [Thread -> Stage]
  /\ item \in [Thread -> Nat]
  /\ put \in Nat

(* Between the two halves of List::Remove the thread holds the lock, and   *)
(* the item it found is still the first of the list.                       *)
UnlinksFirst ==
  \A t \in Thread : stage[t] = "unlink" =>
    Holds(t) /\ list # <<>> /\ item[t] = Head(list)

(* The inductive strengthening of FirstInFirstOut.                         *)
ListIInv == IInv /\ ListTypes /\ UnlinksFirst /\ FirstInFirstOut

(* Every step of the list is a step of the monitor or leaves it alone.     *)
LEMMA ListStepIsMonitorStep == [ListNext]_allVars => [Next]_vars
  <1>1. ASSUME NEW t \in Thread, Enter(t) \/ Continue(t) PROVE [Next]_vars
    BY <1>1 DEF Enter, Continue, Resumed, AppendItem, SignalAppended, AwaitItem,
       ReadFirst, UnlinkFirst, ApplyToItems, Leave, Next
  <1>2. QED BY <1>1 DEF ListNext, allVars

(* list->Append of the next item keeps the items in order.                 *)
LEMMA AppendInOrder ==
  ASSUME ListTypes, FirstInFirstOut, put' = put + 1,
         list' = Append(list, put'), taken' = taken
  PROVE  FirstInFirstOut'
  <1>1. list \in Seq(Nat) /\ taken \in Seq(Nat) /\ put \in Nat /\ put + 1 \in Nat
    BY DEF ListTypes
  <1>2. taken' \o list' = Append([i \in 1..put |-> i], put + 1)
    <2>1. taken \o Append(list, put + 1) = Append(taken \o list, put + 1)
      BY <1>1, ConcatAppend
    <2>2. QED BY <2>1 DEF FirstInFirstOut
  <1>3. Append([i \in 1..put |-> i], put + 1) = [i \in 1..(put + 1) |-> i]
    <2> DEFINE n == put
               upTo == [i \in 1..n |-> i]
               more == Append(upTo, n + 1)
    <2>1. n \in Nat /\ upTo \in Seq(Nat) /\ Len(upTo) = n
      BY <1>1
    <2>2. \A i \in 1..n : upTo[i] = i
      OBVIOUS
    <2> HIDE DEF upTo, n
    <2>3. /\ more \in Seq(Nat) /\ Len(more) = n + 1
          /\ \A i \in 1..n : more[i] = upTo[i]
          /\ more[n + 1] = n + 1
      BY <2>1, AppendProperties
    <2>4. DOMAIN more = 1..(n + 1) /\ more = [i \in DOMAIN more |-> more[i]]
      BY <2>3
    <2> HIDE DEF more
    <2>5. ASSUME NEW i \in 1..(n + 1) PROVE more[i] = i
      <3>1. i \in 1..n \/ i = n + 1
        BY <2>1
      <3>2. QED BY <2>2, <2>3, <3>1
    <2>6. more = [i \in 1..(n + 1) |-> i]
      BY <2>4, <2>5
    <2>7. QED BY <2>6 DEF more, upTo, n
  <1>4. QED BY <1>2, <1>3 DEF FirstInFirstOut

(* Unlinking the first item and returning it keeps the items in order.     *)
LEMMA UnlinkInOrder ==
  ASSUME ListTypes, FirstInFirstOut, list # <<>>, put' = put,
         list' = SubSeq(list, 2, Len(list)), taken' = Append(taken, Head(list))
  PROVE  FirstInFirstOut' /\ list' \in Seq(Nat) /\ taken' \in Seq(Nat)
  <1>1. list \in Seq(Nat) /\ taken \in Seq(Nat)
    BY DEF ListTypes
  <1>2. list' = Tail(list)
    BY <1>1, TailIsSubSeq
  <1>3. /\ Head(list) \in Nat /\ Tail(list) \in Seq(Nat)
        /\ Append(taken, Head(list)) \o Tail(list) = taken \o list
    BY <1>1, HeadThenTail, MoveHead
  <1>4. QED BY <1>1, <1>2, <1>3, AppendProperties DEF FirstInFirstOut

(* A thread that holds the lock keeps it through the steps of the others.  *)
LEMMA HolderStays ==
  ASSUME IInv, NEW t \in Thread, NEW u \in Thread, u # t, Holds(u),
         \/ Acquire(t) \/ AcquireResume(t) \/ WaitResume(t)
         \/ Signal(t) \/ Wait(t) \/ Release(t)
  PROVE  Holds(u)'
  <1>1. ~Holds(t) /\ pc \in [Thread -> Location]
    BY DEF IInv, MutualExclusion, TypeOK
  <1>2. \/ Acquire(t) \/ AcquireResume(t) \/ WaitResume(t)
    BY <1>1 DEF Holds, Signal, Wait, Release
  <1>3. \E at \in Location : pc' = [pc EXCEPT ![t] = at]
    BY <1>2 DEF Acquire, AcquireResume, WaitResume, TryAcquire, Location
  <1>4. pc'[u] = pc[u]
    BY <1>1, <1>3
  <1>5. QED BY <1>4 DEF Holds

(* The empty list satisfies the inductive invariant.                       *)
LEMMA ListInitIInv == ListInit => ListIInv
  <1> SUFFICES ASSUME ListInit PROVE ListIInv
    OBVIOUS
  <1>1. IInv
    BY InitIInv DEF ListInit
  <1>2. ListTypes
    BY DEF ListInit, ListTypes, Stage
  <1>3. UnlinksFirst
    BY DEF ListInit, UnlinksFirst
  <1>4. FirstInFirstOut
    BY DEF ListInit, FirstInFirstOut
  <1>5. QED BY <1>1, <1>2, <1>3, <1>4 DEF ListIInv

(* A step that leaves the items alone and moves only its own thread, not   *)
(* into the middle of Remove, keeps the list's part of the invariant.      *)
LEMMA OtherStagesKeepItems ==
  ASSUME ListIInv, NEW t \in Thread, stage[t] # "unlink",
         NEW s \in Stage \ {"unlink"}, stage' = [stage EXCEPT ![t] = s],
         UNCHANGED <<list, item, put, taken>>,
         \A u \in Thread : u # t /\ Holds(u) => Holds(u)'
  PROVE  ListTypes' /\ UnlinksFirst' /\ FirstInFirstOut'
  <1>1. ListTypes'
    BY DEF ListIInv, ListTypes
  <1>2. UnlinksFirst'
    BY DEF ListIInv, ListTypes, UnlinksFirst
  <1>3. FirstInFirstOut'
    BY DEF ListIInv, FirstInFirstOut
  <1>4. QED BY <1>1, <1>2, <1>3

(* Every step of the list preserves its inductive invariant.               *)
LEMMA ListNextIInv == ListIInv /\ [ListNext]_allVars => ListIInv'
  <1> SUFFICES ASSUME ListIInv, [ListNext]_allVars PROVE ListIInv'
    OBVIOUS
  <1>a. IInv'
    BY ListStepIsMonitorStep, NextIInv DEF ListIInv
  <1>b. /\ IInv /\ ListTypes /\ UnlinksFirst /\ FirstInFirstOut
        /\ stage \in [Thread -> Stage]
    BY DEF ListIInv, ListTypes
  <1>c. ASSUME UNCHANGED vars PROVE \A u \in Thread : Holds(u)' <=> Holds(u)
    BY <1>c DEF vars, Holds
  <1>1. ASSUME NEW t \in Thread, Enter(t)
        PROVE  ListTypes' /\ UnlinksFirst' /\ FirstInFirstOut'
    <2>1. PICK s \in {"append", "apply", "remove"} : stage' = [stage EXCEPT ![t] = s]
      BY <1>1 DEF Enter, Goto
    <2>2. \A u \in Thread : u # t /\ Holds(u) => Holds(u)'
      BY <1>1, <1>b, HolderStays DEF Enter
    <2>3. QED BY <1>1, <2>1, <2>2, OtherStagesKeepItems DEF Enter, Stage
  <1>2. ASSUME NEW t \in Thread, Resumed(t) \/ AwaitItem(t)
        PROVE  ListTypes' /\ UnlinksFirst' /\ FirstInFirstOut'
    <2>1. \A u \in Thread : u # t /\ Holds(u) => Holds(u)'
      BY <1>2, <1>b, HolderStays DEF Resumed, AwaitItem
    <2>2. stage[t] # "unlink"
      BY <1>2, <1>b DEF Resumed, AwaitItem, AcquireResume, WaitResume, UnlinksFirst, Holds
    <2>3. stage' = [stage EXCEPT ![t] = stage[t]] /\ stage[t] \in Stage
      BY <1>2, <1>b DEF Resumed, AwaitItem, listVars
    <2>4. QED BY <1>2, <2>1, <2>2, <2>3, OtherStagesKeepItems
          DEF Resumed, AwaitItem, listVars
  <1>3. ASSUME NEW t \in Thread, AppendItem(t)
        PROVE  ListTypes' /\ UnlinksFirst' /\ FirstInFirstOut'
    <2>1. ListTypes'
      BY <1>3, <1>b DEF AppendItem, Goto, ListTypes, Stage
    <2>2. \A u \in Thread : stage[u] # "unlink"
      BY <1>3, <1>b DEF AppendItem, UnlinksFirst, IInv, MutualExclusion
    <2>3. UnlinksFirst'
      BY <1>3, <1>b, <2>2 DEF AppendItem, Goto, UnlinksFirst
    <2>4. FirstInFirstOut'
      BY <1>3, <1>b, AppendInOrder DEF AppendItem
    <2>5. QED BY <2>1, <2>3, <2>4
  <1>4. ASSUME NEW t \in Thread, SignalAppended(t) \/ Leave(t)
        PROVE  ListTypes' /\ UnlinksFirst' /\ FirstInFirstOut'
    <2>1. \A u \in Thread : u # t /\ Holds(u) => Holds(u)'
      BY <1>4, <1>b, HolderStays DEF SignalAppended, Leave
    <2>2. \E s \in Stage \ {"unlink"} : stage' = [stage EXCEPT ![t] = s]
      BY <1>4 DEF SignalAppended, Leave, Goto, Stage
    <2>3. QED BY <1>4, <2>1, <2>2, OtherStagesKeepItems DEF SignalAppended, Leave
  <1>5. ASSUME NEW t \in Thread, ReadFirst(t)
        PROVE  ListTypes' /\ UnlinksFirst' /\ FirstInFirstOut'
    <2>1. Head(list) \in Nat
      BY <1>5, <1>b DEF ReadFirst, ListTypes
    <2>2. ListTypes'
      BY <1>5, <1>b, <2>1 DEF ReadFirst, Goto, ListTypes, Stage
    <2>3. \A u \in Thread : Holds(u)' <=> Holds(u)
      BY <1>5, <1>c DEF ReadFirst
    <2>4. UnlinksFirst'
      BY <1>5, <1>b, <2>3 DEF ReadFirst, Goto, UnlinksFirst, ListTypes
    <2>5. FirstInFirstOut'
      BY <1>5, <1>b DEF ReadFirst, FirstInFirstOut
    <2>6. QED BY <2>2, <2>4, <2>5
  <1>6. ASSUME NEW t \in Thread, UnlinkFirst(t)
        PROVE  ListTypes' /\ UnlinksFirst' /\ FirstInFirstOut'
    <2>1. list # <<>> /\ item[t] = Head(list)
      BY <1>6, <1>b DEF UnlinkFirst, UnlinksFirst
    <2>2. FirstInFirstOut' /\ list' \in Seq(Nat) /\ taken' \in Seq(Nat)
      BY <1>6, <1>b, <2>1, UnlinkInOrder DEF UnlinkFirst
    <2>3. ListTypes'
      BY <1>6, <1>b, <2>2 DEF UnlinkFirst, Goto, ListTypes, Stage
    <2>4. \A u \in Thread : u # t => stage[u] # "unlink"
      BY <1>6, <1>b DEF UnlinkFirst, UnlinksFirst, IInv, MutualExclusion
    <2>5. UnlinksFirst'
      BY <1>6, <1>b, <2>4 DEF UnlinkFirst, Goto, UnlinksFirst
    <2>6. QED BY <2>2, <2>3, <2>5
  <1>7. ASSUME NEW t \in Thread, ApplyToItems(t)
        PROVE  ListTypes' /\ UnlinksFirst' /\ FirstInFirstOut'
    BY <1>7, <1>c, OtherStagesKeepItems DEF ApplyToItems, Goto, Stage
  <1>8. CASE UNCHANGED allVars
    <2>1. UNCHANGED vars /\ UNCHANGED <<list, stage, item, put, taken>>
      BY <1>8 DEF allVars, listVars
    <2>2. \A u \in Thread : Holds(u)' <=> Holds(u)
      BY <2>1, <1>c
    <2>3. QED BY <1>a, <1>b, <2>1, <2>2
          DEF ListIInv, ListTypes, UnlinksFirst, FirstInFirstOut
  <1>9. QED BY <1>a, <1>1, <1>2, <1>3, <1>4, <1>5, <1>6, <1>7, <1>8
        DEF ListNext, Continue, ListIInv

(* The inductive invariant holds in every reachable state of the list.     *)
LEMMA ListIInvariant == FairListSpec => []ListIInv
  BY ListInitIInv, ListNextIInv, PTL DEF FairListSpec, ListSpec

(* SynchList::Remove returns every item once, in the order in which Append *)
(* put them, for any producers, consumers and appliers.                    *)
THEOREM ListFirstInFirstOut == FairListSpec => []FirstInFirstOut
  <1>1. ListIInv => FirstInFirstOut
    BY DEF ListIInv
  <1>2. QED BY <1>1, ListIInvariant, PTL

(* The list keeps the conventions of its Lock and Condition, so what is    *)
(* proved of those holds where SynchList uses them.                        *)
THEOREM ListKeepsMonitor ==
  FairListSpec => [](MutualExclusion /\ LockNoLostWakeup /\ SignalHasTaker)
  <1>1. ListIInv => MutualExclusion /\ LockNoLostWakeup /\ SignalHasTaker
    BY DEF ListIInv, IInv
  <1>2. QED BY <1>1, ListIInvariant, PTL
=============================================================================
