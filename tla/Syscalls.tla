------------------------------ MODULE Syscalls ------------------------------
(***************************************************************************)
(* The system calls of userprog/exception.cc on semaphores, locks,         *)
(* conditions, files and sockets: the control tables (OSTable.h) that turn *)
(* the ids user programs hold into kernel objects or host descriptors, the *)
(* objects themselves (synch.cc) and the console mutex around Read and     *)
(* Write.  The threads are those of one program and share its tables.      *)
(*                                                                         *)
(* Semaphore::P, Lock::Acquire, Mutex::Lock and the loop of                *)
(* Condition::Wait have one shape: sleep in the object's queue until its   *)
(* count is not zero, then decrement it.  A call is the sequence of such   *)
(* objects it still has to take.  Interrupts are enabled between the end   *)
(* of one take and what follows it only in Read and Write.                 *)
(*                                                                         *)
(* A Destroy deletes its object whoever uses it.  The pointers to it that  *)
(* threads keep in their calls dangle from then on: a sleeper is in no     *)
(* queue any more, and the run ends, as it is undefined from there on,     *)
(* when a thread goes on with such a pointer.                              *)
(***************************************************************************)
EXTENDS Integers, Sequences, FiniteSets

CONSTANTS
  Thread,      \* the threads of the program
  NULL,        \* no object, no thread, a free entry of a table
  TableSize,   \* TABLE_SIZE
  HostFds,     \* bound: number of host descriptors
  MaxObject,   \* bound: synchronization objects alive at once
  MaxValue,    \* bound: absolute value of a semaphore
  MaxSockets,  \* bound: sockets that are not connected
  Uses         \* bound: the groups of calls a program may use together

ASSUME SyscallsAssumption ==
  /\ IsFiniteSet(Thread)
  /\ NULL \notin Thread /\ NULL \notin Nat
  /\ TableSize \in Nat /\ TableSize > 3
  /\ HostFds \in Nat /\ HostFds > 3
  /\ MaxObject \in Nat \ {0}
  /\ MaxValue \in Nat \ {0}
  /\ MaxSockets \in Nat \ {0}
  /\ Uses \subseteq SUBSET {"sync", "files", "console"}

Id == 0..(TableSize - 1)
Fd == 0..(HostFds - 1)
Kind == {"sem", "lock", "cond"}
Object == 1..MaxObject
console == 0          \* the object canAccessConsole, which is in no table
disk == 3             \* the descriptor of the file that is the simulated disk

\* The pointers to objects that have been deleted, by the table they came from.
FreedSem == -1
FreedLock == -2
FreedCond == -3
Freed == {FreedSem, FreedLock, FreedCond}
Pointer == Object \cup {console} \cup Freed

\* A synchronization object: a class of synch.h.
SyncObject == [kind : Kind \cup {"mutex"}, count : Int, queue : Seq(Thread),
               owner : Thread \cup {NULL}]

\* A call that gives up the processor at times, and the objects it is about:
\* the condition and the lock of a Broadcast.
Doing == {"Broadcast", "Read", "Write"} \X Pointer \X Pointer

\* A null pointer is neither.
ASSUME NullAssumption == NULL \notin SyncObject /\ NULL \notin Doing

VARIABLES
  uses,       \* the groups of calls the program uses
  running,    \* threads that have not exited
  table,      \* semTable, lockTable, condTable: objects by kind and id
  object,     \* the objects: kind, count, queue and owner; NULL if not alive
  call,       \* the objects each thread has still to take in its call
  asleep,     \* the threads asleep in a queue
  doing,      \* the Read, Write or Broadcast each thread is in, NULL if none
  fileTable,  \* host descriptors by id
  host,       \* host descriptors: state, and the id the program has for them
  halted      \* the simulation has ended

fileVars == <<fileTable, host>>
sysVars == <<uses, running, table, object, call, asleep, doing, fileTable, host, halted>>

NewObject(kind, count) == [kind |-> kind, count |-> count, queue |-> <<>>, owner |-> NULL]
Closed == [state |-> "closed", id |-> -1]
givenUp == -2         \* the id of a descriptor after its Shutdown

\* The executable is closed when the program starts; the real file system, not
\* the stub, keeps the disk open.
SysInit ==
  /\ uses \in Uses
  /\ running = Thread
  /\ table = [k \in Kind |-> [i \in Id |-> NULL]]
  /\ object = [o \in Object \cup {console} |->
                 IF o = console THEN NewObject("mutex", 1) ELSE NULL]
  /\ call = [t \in Thread |-> <<>>]
  /\ asleep = {}
  /\ doing = [t \in Thread |-> NULL]
  /\ fileTable = [i \in Id |-> IF i < 3 THEN i ELSE NULL]
  /\ \E kept \in {{}, {disk}} :
       host = [f \in Fd |-> CASE f < 3 -> [state |-> "console", id |-> f]
                              [] f \in kept -> [state |-> "disk", id |-> -1]
                              [] OTHER -> Closed]
  /\ halted = FALSE

\* The thread has the processor in a call or in user code.
Awake(t) == ~halted /\ t \in running \ asleep
Ready(t) == Awake(t) /\ call[t] = <<>> /\ doing[t] = NULL

-----------------------------------------------------------------------------
(* ControlTable.                                                           *)

IsOpened(tab, id) == tab[id] # NULL
FreeIds(tab) == {i \in Id : ~IsOpened(tab, i)}

\* BitMap::Find: the first free id, -1 if there is none.
Find(tab) ==
  IF FreeIds(tab) = {} THEN -1
  ELSE CHOOSE i \in FreeIds(tab) : \A j \in FreeIds(tab) : i <= j

\* ControlTable::Open.  A full table loses the object: it is stored outside
\* the array.
Opened(tab, x) == IF Find(tab) = -1 THEN tab ELSE [tab EXCEPT ![Find(tab)] = x]

\* ControlTable::Close
Erased(tab, id) == [tab EXCEPT ![id] = NULL]

\* The assertion of isOpened, getObject and Close on an id outside the table.
BadId(t) ==
  /\ Ready(t)
  /\ halted' = TRUE
  /\ UNCHANGED <<running, table, object, call, asleep, doing, fileVars>>

-----------------------------------------------------------------------------
(* Taking and giving.                                                      *)

\* Thread t goes on with the objects in todo, the others being obs and the
\* sleepers sleeping: it takes what it can and falls asleep in the queue of the
\* first object that it cannot take.
GoOn(t, todo, obs, sleeping) ==
  LET n == CHOOSE k \in 0..Len(todo) :
             /\ \A i \in 1..k : obs[todo[i]].count # 0
             /\ k < Len(todo) => obs[todo[k + 1]].count = 0
      rest == SubSeq(todo, n + 1, Len(todo))
      took(o) == [obs[o] EXCEPT !.count = @ - 1,
                                !.owner = IF obs[o].kind = "lock" THEN t ELSE @]
  IN  /\ object' = [o \in DOMAIN obs |->
                      CASE \E i \in 1..n : todo[i] = o -> took(o)
                        [] rest # <<>> /\ rest[1] = o ->
                             [obs[o] EXCEPT !.queue = Append(@, t)]
                        [] OTHER -> obs[o]]
      /\ call' = [call EXCEPT ![t] = rest]
      /\ asleep' = IF rest = <<>> THEN sleeping ELSE sleeping \cup {t}

\* Taking the objects in todo reaches one that was deleted.
Dangles(todo) ==
  \E k \in 1..Len(todo) :
    /\ todo[k] \in Freed
    /\ \A i \in 1..(k - 1) : todo[i] \notin Freed /\ object[todo[i]].count # 0

\* The scheduler dispatches a thread that was readied inside a call.
Resume(t) ==
  /\ Awake(t) /\ call[t] # <<>> /\ ~Dangles(call[t])
  /\ GoOn(t, call[t], object, asleep)
  /\ UNCHANGED <<running, table, doing, fileVars, halted>>

\* Mutant: the readied thread stays in the queue.
GivenUnseen(o, count) == [object EXCEPT ![o].count = count]

\* The objects after V, Release, Unlock or Signal: the first thread leaves the
\* queue ...
Given(o, count) ==
  [object EXCEPT ![o].count = count,
                 ![o].queue = IF @ = <<>> THEN @ ELSE Tail(@)]

\* ... and becomes ready.
Readied(o) == IF object[o].queue = <<>> THEN {} ELSE {Head(object[o].queue)}

\* Mutant: nobody is readied.
GiveSilently(o, count) ==
  /\ object' = [object EXCEPT ![o].count = count]
  /\ UNCHANGED asleep

Give(o, count) ==
  /\ object' = Given(o, count)
  /\ asleep' = asleep \ Readied(o)

-----------------------------------------------------------------------------
(* Semaphore, lock and condition calls.                                    *)

Create(t, kind, count) ==
  /\ Ready(t)
  /\ \E o \in Object :
       /\ object[o] = NULL /\ \A p \in Object : object[p] = NULL => o <= p
       /\ object' = [object EXCEPT ![o] = NewObject(kind, count)]
       /\ table' = [table EXCEPT ![kind] = Opened(@, o)]
  /\ UNCHANGED <<running, call, asleep, doing, fileVars, halted>>

\* Mutant: the object is deleted and its id kept.
DestroyKeepsId(t, kind, freed) ==
  /\ Ready(t)
  /\ \E o \in {table[kind][id] : id \in {i \in Id : IsOpened(table[kind], i)}} :
       /\ \A u \in Thread : call[u] = <<>> /\ doing[u] = NULL
       /\ object' = [object EXCEPT ![o] = NULL]
  /\ UNCHANGED <<running, table, call, asleep, doing, fileVars, halted>>

\* What is left of pointers to o.
Left(p, o, freed) == IF p = o THEN freed ELSE p

\* The destructors free the queue and ready nobody.
Destroy(t, kind, freed) ==
  /\ Ready(t)
  /\ \E id \in Id :
       /\ IsOpened(table[kind], id)
       /\ LET o == table[kind][id]
          IN  /\ object' = [object EXCEPT ![o] = NULL]
              /\ call' = [u \in Thread |->
                            [i \in 1..Len(call[u]) |-> Left(call[u][i], o, freed)]]
              /\ doing' = [u \in Thread |->
                             IF doing[u] = NULL THEN NULL
                             ELSE <<doing[u][1], Left(doing[u][2], o, freed),
                                    Left(doing[u][3], o, freed)>>]
       /\ table' = [table EXCEPT ![kind] = Erased(@, id)]
  /\ UNCHANGED <<running, asleep, fileVars, halted>>

SemCreate(t) == \E v \in (-MaxValue)..MaxValue : Create(t, "sem", v)
SemDestroy(t) == Destroy(t, "sem", FreedSem)
LockCreate(t) == Create(t, "lock", 1)
LockDestroy(t) == Destroy(t, "lock", FreedLock)
CondCreate(t) == Create(t, "cond", 0)
CondDestroy(t) == Destroy(t, "cond", FreedCond)

\* The object behind an open id.  With any other id the call just fails.
Names(kind) == {table[kind][id] : id \in {i \in Id : IsOpened(table[kind], i)}}

SemWait(t) ==
  /\ Ready(t)
  /\ \E o \in Names("sem") : object[o].count > -MaxValue /\ GoOn(t, <<o>>, object, asleep)
  /\ UNCHANGED <<running, table, doing, fileVars, halted>>

SemSignal(t) ==
  /\ Ready(t)
  /\ \E o \in Names("sem") : object[o].count < MaxValue /\ Give(o, object[o].count + 1)
  /\ UNCHANGED <<running, table, call, doing, fileVars, halted>>

LockAcquire(t) ==
  /\ Ready(t)
  /\ \E o \in Names("lock") : GoOn(t, <<o>>, object, asleep)
  /\ UNCHANGED <<running, table, doing, fileVars, halted>>

LockRelease(t) ==
  /\ Ready(t)
  /\ \E o \in Names("lock") : Give(o, 1)
  /\ UNCHANGED <<running, table, call, doing, fileVars, halted>>

\* isHeldByCurrentThread: Release does not change the owner.
Holding(t, l) == object[l].owner = t

\* The two ids of a condition call are open.  Without the lock Wait skips the
\* Release and no more; Signal and Broadcast return at once.
CondWait(t) ==
  /\ Ready(t)
  /\ \E c \in Names("cond"), l \in Names("lock") :
       IF Holding(t, l) THEN GoOn(t, <<c, l>>, Given(l, 1), asleep \ Readied(l))
                        ELSE GoOn(t, <<c, l>>, object, asleep)
  /\ UNCHANGED <<running, table, doing, fileVars, halted>>

CondSignal(t) ==
  /\ Ready(t)
  /\ \E c \in Names("cond"), l \in Names("lock") :
       Holding(t, l) /\ object[c].queue # <<>> /\ Give(c, 1)
  /\ UNCHANGED <<running, table, call, doing, fileVars, halted>>

\* The loop of Broadcast ends at once if somebody waits.
CondBroadcast(t) ==
  /\ Ready(t)
  /\ \E c \in Names("cond"), l \in Names("lock") :
       /\ Holding(t, l)
       /\ object[c].queue = <<>>
       /\ doing' = [doing EXCEPT ![t] = <<"Broadcast", c, l>>]
  /\ UNCHANGED <<running, table, object, call, asleep, fileVars, halted>>

\* A turn of the loop with somebody in the queue, who came after the test, so
\* that Signal finds him, or before it, so that the loop ends.
BroadcastTurn(t) ==
  /\ Awake(t) /\ doing[t] # NULL /\ doing[t][1] = "Broadcast"
  /\ doing[t][2] \notin Freed
  /\ object[doing[t][2]].queue # <<>>
  /\ \/ /\ doing[t][3] \notin Freed /\ Holding(t, doing[t][3])
        /\ Give(doing[t][2], 1)
        /\ UNCHANGED doing
     \/ /\ doing' = [doing EXCEPT ![t] = NULL]
        /\ UNCHANGED <<object, asleep>>
  /\ UNCHANGED <<running, table, call, fileVars, halted>>

\* A thread goes on with an object that another one deleted meanwhile.
UseFreed(t) ==
  /\ Awake(t)
  /\ \/ Dangles(call[t])
     \/ doing[t] # NULL /\ {doing[t][2], doing[t][3]} \cap Freed # {}
  /\ halted' = TRUE
  /\ UNCHANGED <<running, table, object, call, asleep, doing, fileVars>>

-----------------------------------------------------------------------------
(* File and socket calls.                                                  *)

\* socket, bound, listening; stream: a file or a connected socket.
IsClosed(f) == host[f].state = "closed"

\* The host opens its first free descriptor, if it can; state is what it is.
HostOpen(state, id) ==
  \E f \in Fd : /\ IsClosed(f) /\ \A g \in Fd : IsClosed(g) => f <= g
                /\ host' = [host EXCEPT ![f] = [state |-> state, id |-> id]]
                /\ fileTable' = IF id = -1 THEN fileTable ELSE Opened(fileTable, f)

FileCall(t) ==
  /\ Ready(t)
  /\ UNCHANGED <<running, table, object, call, asleep, doing, halted>>

\* The descriptor of creat is returned to the program and not recorded.
CreateFile(t) == FileCall(t) /\ HostOpen("stream", -1)

Open(t) == FileCall(t) /\ HostOpen("stream", Find(fileTable))

Socket(t) ==
  /\ FileCall(t)
  /\ Cardinality({f \in Fd : host[f].state \in {"socket", "bound", "listening"}}) < MaxSockets
  /\ HostOpen("socket", Find(fileTable))

\* The host changes the state of the socket behind an open id.
SocketCall(t, from, to) ==
  /\ FileCall(t)
  /\ \E id \in Id :
       /\ IsOpened(fileTable, id)
       /\ host[fileTable[id]].state \in from
       /\ host' = [host EXCEPT ![fileTable[id]].state = to]
  /\ UNCHANGED fileTable

Connect(t) == SocketCall(t, {"socket"}, "stream")
Bind(t) == SocketCall(t, {"socket"}, "bound")
Listen(t) == SocketCall(t, {"bound"}, "listening")

Accept(t) ==
  /\ FileCall(t)
  /\ \E id \in Id : IsOpened(fileTable, id) /\ host[fileTable[id]].state = "listening"
  /\ HostOpen("stream", Find(fileTable))

\* Mutant: Close forgets the table.
CloseHostOnly(t) ==
  /\ FileCall(t)
  /\ \E id \in Id : /\ IsOpened(fileTable, id)
                    /\ host' = [host EXCEPT ![fileTable[id]] = Closed]
  /\ UNCHANGED fileTable

Close(t) ==
  /\ FileCall(t)
  /\ \E id \in Id : /\ IsOpened(fileTable, id)
                    /\ host' = [host EXCEPT ![fileTable[id]] = Closed]
                    /\ fileTable' = Erased(fileTable, id)

\* Shutdown gives the socket up and erases the entry whose number is the host
\* descriptor.  The host keeps the descriptor open.
Shutdown(t) ==
  /\ Ready(t)
  /\ \E id \in Id :
       /\ IsOpened(fileTable, id)
       /\ fileTable' = IF fileTable[id] \in Id THEN Erased(fileTable, fileTable[id])
                       ELSE fileTable
       /\ host' = [host EXCEPT ![fileTable[id]].id = givenUp]
       /\ halted' = (fileTable[id] \notin Id)
  /\ UNCHANGED <<running, table, object, call, asleep, doing>>

\* Up to the return of canAccessConsole->Lock().
BeginIO(t, op) ==
  /\ Ready(t)
  /\ doing' = [doing EXCEPT ![t] = <<op, console, console>>]
  /\ GoOn(t, <<console>>, object, asleep)
  /\ UNCHANGED <<running, table, fileVars, halted>>

\* The rest, up to canAccessConsole->Unlock(): the id is looked up here and the
\* bytes pass between the program's memory and the host.
EndIO(t, op) ==
  /\ Awake(t) /\ doing[t] = <<op, console, console>> /\ call[t] = <<>>
  /\ Give(console, 1)
  /\ doing' = [doing EXCEPT ![t] = NULL]
  /\ UNCHANGED <<running, table, call, fileVars, halted>>

Write(t) == BeginIO(t, "Write") \/ EndIO(t, "Write")
Read(t) == BeginIO(t, "Read") \/ EndIO(t, "Read")

-----------------------------------------------------------------------------
\* NachOS_Exit: the last thread deletes the tables, not what they hold.
Exit(t) ==
  /\ Ready(t)
  /\ running' = running \ {t}
  /\ IF running' = {}
     THEN /\ table' = [k \in Kind |-> [i \in Id |-> NULL]]
          /\ fileTable' = [i \in Id |-> NULL]
     ELSE UNCHANGED <<table, fileTable>>
  /\ UNCHANGED <<object, call, asleep, doing, host, halted>>

Halt(t) ==
  /\ Ready(t)
  /\ halted' = TRUE
  /\ UNCHANGED <<running, table, object, call, asleep, doing, fileVars>>

SysNext ==
  /\ UNCHANGED uses
  /\ \E t \in Thread :
       \/ BadId(t) \/ Resume(t) \/ UseFreed(t) \/ Exit(t) \/ Halt(t)
       \/ /\ "sync" \in uses
          /\ \/ SemCreate(t) \/ SemDestroy(t) \/ SemWait(t) \/ SemSignal(t)
             \/ LockCreate(t) \/ LockDestroy(t) \/ LockAcquire(t) \/ LockRelease(t)
             \/ CondCreate(t) \/ CondDestroy(t) \/ CondWait(t) \/ CondSignal(t)
             \/ CondBroadcast(t) \/ BroadcastTurn(t)
       \/ /\ "files" \in uses
          /\ \/ CreateFile(t) \/ Open(t) \/ Close(t) \/ Socket(t)
             \/ Connect(t) \/ Bind(t) \/ Listen(t) \/ Accept(t) \/ Shutdown(t)
       \/ "console" \in uses /\ (Write(t) \/ Read(t))

SysSpec == SysInit /\ [][SysNext]_sysVars

-----------------------------------------------------------------------------
(* Properties.                                                             *)

Alive(o) == object[o] # NULL
LiveObjects == {o \in Object \cup {console} : Alive(o)}
Waiting(o) == {object[o].queue[i] : i \in 1..Len(object[o].queue)}

\* Every thread asleep in a system call is in exactly one queue, once, that of
\* the object it is going to take next, so that a V, Release or Signal of it can
\* ready the thread.  Only deleting that very object takes a sleeper out of its
\* queue; deleting any other, also the lock it will need after its Wait, does not.
SleepersQueued ==
  /\ \A o \in LiveObjects : Cardinality(Waiting(o)) = Len(object[o].queue)
  /\ \A t \in Thread, o \in LiveObjects :
       t \in Waiting(o) <=> t \in asleep /\ call[t] # <<>> /\ Head(call[t]) = o
  /\ \A t \in asleep :
       call[t] # <<>> /\ (Head(call[t]) \in Freed \/ \E o \in LiveObjects : t \in Waiting(o))

\* Nobody sleeps in front of an object that could be taken, whichever calls
\* compete for it, with or without the lock, unless a thread is on its way to
\* take it.
NoneOverlooked ==
  \A o \in LiveObjects :
    object[o].count # 0 /\ object[o].queue # <<>> =>
      \E t \in running \ asleep : call[t] # <<>> /\ Head(call[t]) = o

\* Whatever is opened, closed, shut down or deleted, in whatever order, and with
\* the tables full: an id in a table of objects names one kernel object, alive
\* and of the table's kind; an id in the table of files leads to a descriptor
\* that is open, and that was opened under this id; and no other id leads there.
HandlesSound ==
  /\ \A k \in Kind : \A i \in Id :
       IsOpened(table[k], i) =>
         /\ Alive(table[k][i]) /\ object[table[k][i]].kind = k
         /\ \A j \in Id : table[k][j] = table[k][i] => i = j
  /\ \A i \in Id : IsOpened(fileTable, i) =>
       /\ ~IsClosed(fileTable[i]) /\ host[fileTable[i]].id \in {i, givenUp}
       /\ \A j \in Id : fileTable[j] = fileTable[i] => i = j

\* The comments on Semaphore::Destroy say that destroying a user semaphore frees
\* the waiting threads: no thread sleeps in front of a destroyed semaphore.
\* NachOS_SemDestroy deletes the semaphore without a call of Destroy.
SemSleepersFreed == \A t \in asleep : Head(call[t]) # FreedSem

\* The comments on NachOS_Shutdown say that it shuts down the socket whose id it
\* is given: the program's other ids go on leading to their files and sockets.
\* The entry it erases is the one numbered like the host descriptor.
HandlesKept ==
  ~halted /\ running # {} => \A f \in Fd : host[f].id \in Id => fileTable[host[f].id] = f
=============================================================================
