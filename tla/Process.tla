------------------------------- MODULE Process -------------------------------
(***************************************************************************)
(* Processes and user threads: the system calls Exec, Fork, Join and Exit  *)
(* of userprog/exception.cc, Thread::Finish with removeResources of        *)
(* threads/thread.cc, and the ControlTable of userprog/OSTable.h in which  *)
(* threads find each other, composed with the memory of module AddrSpace.  *)
(*                                                                         *)
(* Kernel code gives up the processor only where it calls Yield or Sleep,  *)
(* so a system call is one action up to that point.  All threads of the    *)
(* machine share one set of tables (ShareResources), so the table of       *)
(* threads and one user count stand for the five.                          *)
(***************************************************************************)
EXTENDS AddrSpace

CONSTANTS
  main,        \* the thread that runs StartProcess
  NULL,        \* no thread
  TableSize    \* TABLE_SIZE

ASSUME ProcessAssumption ==
  /\ main \in Thread
  /\ NULL \notin Thread
  /\ TableSize \in Nat \ {0}
  /\ NumPages <= NumPhysPages

Id == 0..(TableSize - 1)

VARIABLES
  tstate,       \* where each thread is, see ThreadState
  threadTable,  \* logicalMap and openObjects of the table of threads
  users,        \* usage of the tables
  deleted,      \* the tables have been deleted
  joinQueue,    \* the queue of each thread's join semaphore
  joinTarget,   \* the thread each thread last waited for in Join
  result,       \* the value last returned to the thread by RETURN
  aborted       \* an ASSERT failed or the kernel crashed: Nachos is gone

procVars == <<tstate, threadTable, users, deleted, joinQueue, joinTarget,
              result, aborted>>
vars == <<spaceVars, procVars>>

\* forked: readied by Exec, execProcess not yet entered; running: in user
\* code; exiting: in the Yield of Exit; joining / woken: asleep in Join,
\* readied by Finish; lost: asleep in the queue of a deleted semaphore.
ThreadState ==
  {"absent", "forked", "running", "exiting", "joining", "woken", "lost", "finished"}

Live(t) == tstate[t] \notin {"absent", "finished"}

ProcTypeOK ==
  /\ SpaceTypeOK
  /\ tstate \in [Thread -> ThreadState]
  /\ threadTable \in [Id -> Thread \cup {NULL}]
  /\ users \in Int
  /\ deleted \in BOOLEAN
  /\ joinQueue \in [Thread -> Seq(Thread)]
  /\ joinTarget \in [Thread -> Thread \cup {NULL}]
  /\ result \in [Thread -> Id \cup {-1}]
  /\ aborted \in BOOLEAN

\* StartProcess has loaded the first program.
Init ==
  /\ physicalPageMap = 0..(NumPages - 1)
  /\ pageTable = [t \in Thread |->
                    IF t = main THEN [i \in 1..NumPages |-> i - 1] ELSE <<>>]
  /\ usage = [t \in Thread |-> IF t = main THEN 1 ELSE 0]
  /\ loader = [t \in Thread |-> t]
  /\ tstate = [t \in Thread |-> IF t = main THEN "running" ELSE "absent"]
  /\ threadTable = [id \in Id |-> IF id = 0 THEN main ELSE NULL]
  /\ users = 1
  /\ deleted = FALSE
  /\ joinQueue = [t \in Thread |-> <<>>]
  /\ joinTarget = [t \in Thread |-> NULL]
  /\ result = [t \in Thread |-> 0]
  /\ aborted = FALSE

-----------------------------------------------------------------------------
(* ControlTable                                                            *)

\* ControlTable::Open: the lowest clear id, -1 from a full table.
OpenId ==
  LET clear == {id \in Id : threadTable[id] = NULL}
  IN  IF clear = {} THEN -1
      ELSE CHOOSE id \in clear : \A other \in clear : id <= other

\* The table after Open.  A full table is written at index -1, outside of it.
Opened(t) ==
  [id \in Id |-> IF id = OpenId THEN t ELSE threadTable[id]]

\* ControlTable::getID, empty for -1.
IdsOf(t) == {id \in Id : threadTable[id] = t}

\* Mutant: the entry stays in the table.
ClosedNever(t) == threadTable

\* ControlTable::Close
Closed(t) == [id \in Id |-> IF threadTable[id] = t THEN NULL ELSE threadTable[id]]

-----------------------------------------------------------------------------
(* System calls                                                            *)

\* A system call of a running thread that gives the thread u a life.
Create(t, u) ==
  /\ ~aborted
  /\ tstate[t] = "running"
  /\ tstate[u] = "absent"
  /\ threadTable' = Opened(u)
  /\ UNCHANGED <<deleted, joinQueue, joinTarget, aborted>>

\* Mutant: the new thread does not count as a user of the tables.
ShareResourcesUncounted == UNCHANGED users

\* ShareResources
ShareResources == users' = users + 1

\* NachOS_Exec of an existing program.
Exec(t, u) ==
  /\ Create(t, u)
  /\ ShareResources
  /\ tstate' = [tstate EXCEPT ![u] = "forked"]
  /\ result' = [result EXCEPT ![t] = OpenId]
  /\ UNCHANGED spaceVars

\* NachOS_Exec of a program that cannot be opened.
ExecFails(t) ==
  /\ ~aborted
  /\ tstate[t] = "running"
  /\ result' = [result EXCEPT ![t] = -1]
  /\ UNCHANGED <<spaceVars, tstate, threadTable, users, deleted, joinQueue,
                 joinTarget, aborted>>

\* NachOS_Fork: no RETURN, the caller's result register keeps its value.
Fork(t, u) ==
  /\ Create(t, u)
  /\ ShareResources
  /\ CopySpace(t, u)
  /\ tstate' = [tstate EXCEPT ![u] = "running"]
  /\ UNCHANGED result

\* execProcess, when the new thread is first dispatched: load the program.
ExecStart(t) ==
  /\ ~aborted
  /\ tstate[t] = "forked"
  /\ LoadSpace(t)
  /\ tstate' = [tstate EXCEPT ![t] = "running"]
  /\ UNCHANGED <<threadTable, users, deleted, joinQueue, joinTarget, result, aborted>>

\* The ways Nachos ends at once: an ASSERT on the free frames in one of the
\* constructors, or execProcess following the argv of a stack frame that its
\* parent has left.
Abort ==
  /\ ~aborted
  /\ \/ \E t \in Thread : tstate[t] = "forked"
     \/ /\ StackPages > NumClear
        /\ \E t, u \in Thread : tstate[t] = "running" /\ tstate[u] = "absent"
  /\ aborted' = TRUE
  /\ UNCHANGED <<spaceVars, tstate, threadTable, users, deleted, joinQueue,
                 joinTarget, result>>

\* NachOS_Join of an id that is not in use.
JoinUnknown(t, id) ==
  /\ ~aborted
  /\ tstate[t] = "running"
  /\ threadTable[id] = NULL
  /\ result' = [result EXCEPT ![t] = -1]
  /\ UNCHANGED <<spaceVars, tstate, threadTable, users, deleted, joinQueue,
                 joinTarget, aborted>>

\* NachOS_Join, up to the Sleep in P: the semaphore's value is 0 until the
\* target finishes.
Join(t, id) ==
  /\ ~aborted
  /\ tstate[t] = "running"
  /\ threadTable[id] # NULL
  /\ joinTarget' = [joinTarget EXCEPT ![t] = threadTable[id]]
  /\ joinQueue' = [joinQueue EXCEPT ![threadTable[id]] = Append(@, t)]
  /\ tstate' = [tstate EXCEPT ![t] = "joining"]
  /\ UNCHANGED <<spaceVars, threadTable, users, deleted, result, aborted>>

\* The rest of NachOS_Join: P tests the value again in a semaphore Finish has
\* deleted.  It may find anything: a unit, or none and sleep for good.
JoinResume(t) ==
  /\ ~aborted
  /\ tstate[t] = "woken"
  /\ \/ /\ tstate' = [tstate EXCEPT ![t] = "running"]
        /\ result' = [result EXCEPT ![t] = -1]
     \/ /\ tstate' = [tstate EXCEPT ![t] = "lost"]
        /\ UNCHANGED result
  /\ UNCHANGED <<spaceVars, threadTable, users, deleted, joinQueue, joinTarget, aborted>>

\* Mutant: Exit lets the waiting threads go before it yields.
ExitWakesFirst(t) ==
  /\ ~aborted
  /\ tstate[t] = "running"
  /\ tstate' = [u \in Thread |->
                  CASE u = t -> "exiting"
                    [] joinQueue[t] # <<>> /\ u = Head(joinQueue[t]) -> "woken"
                    [] OTHER -> tstate[u]]
  /\ joinQueue' = [joinQueue EXCEPT ![t] = <<>>]
  /\ UNCHANGED <<spaceVars, threadTable, users, deleted, joinTarget, result, aborted>>

\* NachOS_Exit, up to its Yield.
Exit(t) ==
  /\ ~aborted
  /\ tstate[t] = "running"
  /\ tstate' = [tstate EXCEPT ![t] = "exiting"]
  /\ UNCHANGED <<spaceVars, threadTable, users, deleted, joinQueue, joinTarget,
                 result, aborted>>

\* removeResources: leave the tables, delete them if nobody is left, delete
\* the space.
RemoveResources(t) ==
  /\ threadTable' = Closed(t)
  /\ users' = users - 1
  /\ deleted' = (users' = 0)
  /\ DeleteSpace(t)

\* The rest of NachOS_Exit, Thread::Finish: one V, since the loop stops at
\* the value 1, then the semaphore is deleted with whoever is still queued.
Finish(t) ==
  /\ ~aborted
  /\ tstate[t] = "exiting"
  /\ IdsOf(t) # {}
  /\ RemoveResources(t)
  /\ tstate' = [u \in Thread |->
                  IF u = t THEN "finished"
                  ELSE IF joinQueue[t] # <<>> /\ u = Head(joinQueue[t]) THEN "woken"
                  ELSE tstate[u]]
  /\ joinQueue' = [joinQueue EXCEPT ![t] = <<>>]
  /\ UNCHANGED <<joinTarget, result, aborted>>

\* Thread::Finish of a thread the table had no room for: Close(-1) asserts.
FinishUnlisted(t) ==
  /\ ~aborted
  /\ tstate[t] = "exiting"
  /\ IdsOf(t) = {}
  /\ aborted' = TRUE
  /\ UNCHANGED <<spaceVars, tstate, threadTable, users, deleted, joinQueue,
                 joinTarget, result>>

Next ==
  \/ \E t, u \in Thread : Exec(t, u) \/ Fork(t, u)
  \/ \E t \in Thread :
       \/ ExecFails(t) \/ ExecStart(t) \/ JoinResume(t)
       \/ Exit(t) \/ Finish(t) \/ FinishUnlisted(t)
       \/ \E id \in Id : Join(t, id) \/ JoinUnknown(t, id)
  \/ Abort

Spec == Init /\ [][Next]_vars

-----------------------------------------------------------------------------
(* Properties.                                                             *)

\* Whatever the order of Exec, Fork and Exit, the table never names a thread
\* that has finished, and no thread under two ids: an id reaches one living
\* thread or nobody.  (A full table leaves new threads out of it.)
TableSound ==
  \A t \in Thread : Cardinality(IdsOf(t)) <= IF Live(t) THEN 1 ELSE 0

\* The tables are counted as used by the living threads and exist as long as
\* one of them is left: no system call reaches a deleted table.
TablesOutliveThreads ==
  /\ users = Cardinality({t \in Thread : Live(t)})
  /\ deleted => \A t \in Thread : ~Live(t)

\* Join lets a thread go on only after the thread it waits for has left the
\* table and given back its memory.
JoinAfterFinish ==
  \A t \in Thread : tstate[t] = "woken" =>
    /\ tstate[joinTarget[t]] = "finished"
    /\ ~HasSpace(joinTarget[t])
=============================================================================
