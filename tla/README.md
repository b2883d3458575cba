# A TLA+ verification of the CI-0122 NachOS kernel

This directory specifies, model-checks and partly proves the kernel in
`NachOSx64/code` (a 64-bit NachOS with the course's own locks, condition
variables, system calls, processes and demand paging), the machine it runs on,
and the course's programs beside it: the hot potato, the dining philosophers and
the baboons. Paths below are relative to `NachOSx64/code` unless they start with
`src/`.

## The system

NachOS is a kernel and the machine it runs on, in one host process. There is
one simulated processor. Kernel code is atomic while interrupts are disabled;
simulated time advances by one tick per user instruction and ten whenever
interrupts are enabled, and only then do interrupt handlers run and time slices
end. So interleaving happens at known points: `Thread::Sleep`, `Thread::Yield`
and every `SetLevel(IntOn)` (when the timer is on, option `-rs`).

| Part | State | Operations | Hard because |
|---|---|---|---|
| Threads, scheduler (`threads/thread.cc`, `scheduler.cc`, `list.h`) | status per thread, ready list, `currentThread`, `threadToBeDestroyed` | new, Fork, Yield, Sleep, Finish, ReadyToRun, Run | a finished thread idles on its own stack; it is deleted by whoever runs next |
| Semaphore (`threads/synch.cc`) | value, queue | P, V, Destroy | woken waiters are overtaken by new callers |
| Lock, Condition (`threads/synch.cc`) | available, owner, queue; isBusy, queue | Acquire, Release, Wait, Signal, Broadcast | one flag for all signals, an owner that is never reset |
| Mutex, Barrier (`threads/synch.cc`) | value, queue; count, queue | Lock, Unlock; Wait | interrupt level saved twice |
| Synchronized list (`threads/synchlist.h`) | list, lock, condition | Append, Remove, Apply | inherits the condition's semantics |
| Interrupts, timer (`machine/interrupt.cc`, `timer.cc`) | clock, pending list, level, mode, yieldOnReturn | SetLevel, OneTick, Idle, Schedule, CheckIfDue, TimerExpired | modes saved in one thread's frame while others run; interrupts put back |
| Address spaces (`userprog/addrspace.cc`, `bitmap.cc`) | frame map, page tables, usage | load, copy, delete | shared code and data, any order of exits |
| Processes (`userprog/exception.cc`, `OSTable.h`, `threads/thread.cc`) | table of threads, five counted tables, join semaphores | Exec, Fork, Join, Exit, Finish | full tables, several joiners, deleted objects |
| Virtual memory (`userprog/addrspaceVM.cc`, `vm/`) | page tables, TLB, inverted table, backing store, two clock hands | page fault, switch, fork, exec, exit | caches of caches, memory at its limit |
| Other system calls (`userprog/exception.cc`, `OSTable.h`) | tables of files, semaphores, locks, conditions; console mutex | create, use, destroy; open, close, sockets, Read, Write | destruction while in use; ids and host descriptors numbered apart |
| MIPS simulator (`machine/mipssim.cc`, `machine.cc`, `translate.cc`) | registers, load in progress, two program counters, memory | one instruction, exception, restart | load and branch delay slots across faults; carries and overflow |
| File system (`filesys/`) | bitmap, directory, headers, open files, disk lock | Create, Open, Remove, Seek, Read, Write | several sectors per operation, stops in between |
| Devices (`machine/disk.cc`, `console.cc`, `network.cc`) | busy flags, buffers, track buffer | request, completion, poll | one request at a time, one-packet and one-character buffers |
| Post office (`network/post.cc`, `nettest.cc`) | mailboxes, send lock, two semaphores | Send, Receive, PostalDelivery, MailTest | a network that loses packets and no timeout |
| Dining philosophers (`threads/diningph.cc`) | state and condition of each, one lock | pickup, putdown, test | a Wait outside a loop; everyone hungry |
| Hot potato (`src/TareasProgramadas/TP1`) | potato, ring, and a message queue, semaphores or mutexes | a turn, going out, winning, ending | processes that learn of the end by a queue that is gone |
| Baboons (`src/CorrecionExamen1/Babuinos`) | counters, a condition per rope | run | waits outside a loop, counted by others |

Threads call the synchronization objects, which call the scheduler; interrupt
handlers call `V` and so the scheduler too; system calls are kernel code of the
thread that traps; the machine calls the kernel through `RaiseException` and
through the handlers of pending interrupts.

## Modules

| Module | Models | Composes |
|---|---|---|
| `Threads` | the set of threads, shared by the four modules on threads | |
| `Scheduler` | thread life cycle and dispatching | extends `Threads` |
| `Interrupt` | time, interrupts, modes, time slices | |
| `AbstractSemaphore` | what a counting semaphore promises | |
| `Semaphore` | `Semaphore` of synch.cc | refines `AbstractSemaphore` |
| `Monitor` | `Lock` with `Condition` | |
| `SynchList` | `SynchList` | extends `Monitor` |
| `AddrSpace` | frames without virtual memory | |
| `Process` | Exec, Fork, Join, Exit, table of threads | extends `AddrSpace` |
| `Pager` | demand paging | |
| `MipsInstr` | what each instruction computes | |
| `MipsISA` | the processor as programs see it | extends `MipsInstr` |
| `Mips` | the simulator with faults and delayed loads | extends `MipsInstr`, refines `MipsISA` |
| `Syscalls` | tables, objects, files, sockets, console mutex | |
| `Disk` | disk and `SynchDisk` | |
| `FileStore` | what a file system promises | |
| `FileSystem` | `filesys/` with crashes and restarts | extends `Disk`, refines `FileStore` |
| `PostOffice` | network, post office, MailTest on two machines | |
| `HotPotato` | the game | |
| `PotatoRing`; `PotatoMail`, `PotatoShM`, `PotatoThreads` | ring and potato; the three programs | each refines `HotPotato` |
| `Dining`, `Baboons`, `Console` | philosophers; baboons; console and its test | |
| `QueueLemmas` | lemmas on queues, on least numbers and on loops | |
| `ThreadsProofs`, `InterruptProofs`, `ProcessProofs`, `SyscallsProofs`, `PagerProofs`, `DeviceProofs`, `ProgramProofs` | theorems | each extends what it is about and `QueueLemmas`; `ThreadsProofs` is about `Scheduler`, `Semaphore`, `Monitor` and `SynchList`, `ProcessProofs` also about `AddrSpace`, `DeviceProofs` about `FileSystem` with its `Disk` and about `PostOffice`, `ProgramProofs` about all of `MCPrograms` |
| `MC*` | instances for TLC | |

### Scheduler

`status` adds two values to the source's enumeration, for a `Thread` object
that does not exist yet (`ABSENT`) or no more (`DELETED`). `fresh` are the
threads that have never run: `SWITCH` sends them to `ThreadRoot`, not back into
`Scheduler::Run`, so they skip the deletion at the end of `Run`. `waiting`
stands for the queues of all synchronization objects together, `pending` counts
the device interrupts that are scheduled. `Sleep` with an empty ready list stays
on the sleeper's stack (`mode = "Idle"`) where only `DeviceInterrupt`,
`IdleDispatch` and `IdleHalt` happen. `Finish` is that of a thread of a user
program. The `removeResources` with which it begins, and the join semaphore, are
in `Process`: they change no state of the scheduler. A kernel thread never gets
past `removeResources`, which follows a table it does not have
(`threads/thread.cc:166`): that is modelled in `Dining`, whose threads are such.

### Interrupt

A pending interrupt carries the ticks left; the clock advancing subtracts from
all. `phase` says whether the current thread runs with interrupts on or off, or
the machine is inside `OneTick` or `Idle`. Each interrupt that fires is an
action, so every intermediate list is visible. `old[t]` is the local variable
of the `OneTick` in whose `Yield` thread `t` was switched out; nested `OneTick`s
(the `SetLevel` at the end of `Yield`) collapse into it, because all but the
outermost save `SystemMode`. The handler of the timer always finds
`SystemMode`, which `CheckIfDue` has set, so its test for `IdleMode` never
holds and `Idle` clears `yieldOnReturn` itself.

### Semaphore, Monitor, SynchList

One step is the code between two calls of `Sleep`. `woken` (and `acquireWoken`,
`waitWoken`) are threads on the ready list whose `Sleep` has not returned: the
place where others overtake them. `Monitor` assumes what `synch.h` demands of
callers: Release by the holder, the condition used with the lock held. The
condition's `Wait` without waiting (`isBusy` false) releases and takes the lock
in one step. `SynchList` adds the steps of its methods; removing an item is two
steps, reading and unlinking, so that mutual exclusion is what keeps the list
right.

### AddrSpace and Process

All threads of a machine share the same five tables, counted together; the table
of threads and one count stand for them. `Abort` gathers the ways the kernel ends
at once: the assertions on free frames, and `execProcess` reading `argv` from a
stack frame of `NachOS_Exec` that is gone (it may also work: both outcomes are
allowed). `loader` is a history variable: the thread that loaded the program a
thread runs. The destructor of its space gives code and data back, also under the
threads it forked, because the copy constructor counts the new user in the new
object (`userprog/addrspace.cc:150`). `Kept` are the pages that nobody has given
back, and `FramesExact` says that the map marks exactly their frames;
`MappedFramesTaken` says it of all mapped pages, and is violated. After `Finish`
has deleted the join semaphore, the readied joiner tests its value again:
`JoinResume` allows any outcome of that read. A system call is one action; with
`-rs` the enabling of interrupts inside one may end its time slice, which the
model does not split further.

### Pager

A page's contents are its number and a version (as loaded, as written), enough
to tell a right read from a wrong one. `UpdatedPageTables` copies bits from
every TLB slot, valid or not, as `updataPageTables` does; the slots start with
whatever frame and dirty bit the allocator left. `Steps` gives the distance the
hand of second chance moves. `FaultWild` is the branch where the hand reaches
an entry of the table of resident pages that was never set: following it is
undefined, and the run ends there. So it does in `FaultBeyond`, a fault at an
address beyond the space: `PageFaultException` indexes the page table without
comparing the number of the page with `numPages` (`userprog/addrspaceVM.cc:223`).

### Mips

A word has `W` bits; a byte is a quarter of it and an immediate a half, so the
masks and sign tests of the code keep their shape and every value of a word can
be enumerated. An instruction word is a record of its fields; programs are made
of the words in `Program`, chosen as they are fetched, which covers jumps into
any program. `fetched` keeps the word of an instruction that faulted: the
restart executes the same one. Faults are page faults that the kernel repairs;
every other exception but a system call ends the program (`Die`). An address
out of range is an address error with a page table and a page fault with a TLB
(`machine/translate.cc:202`, `:223`); the handler of the latter reads behind the
page table (`Pager!FaultBeyond`), so here too the run ends. The refinement
to `MipsISA` maps `regs` to the registers with the load in progress applied: it
holds because LWL and LWR look at the load in progress and because a fault
applies it before the kernel runs. `MipsISA` takes an instruction's operands
from the code too, so it says nothing about whether `OR` should combine two
registers; it says that delay and restart are invisible. That claim is about
pairs of instructions, one in the delay of the other, each with its own operands,
destination and faults, which is why `MipsInstr` keeps what every one of them
reads and writes.

### Syscalls

P, Acquire, `Mutex::Lock` and the loop of `Condition::Wait` have one shape, so an
object is a count with a queue, and a call the sequence of objects it has still
to take: `<<c, l>>` for a Wait. Threads are those of one program. `Uses` says
which groups of calls a program mixes; the groups share nothing but the threads,
so they are explored apart. Host descriptors are numbered by the host (the lowest
that is free), ids by the bitmap of the table; `host` remembers for which id a
descriptor was opened. A call with an id that is closed fails without effect and
is left out; one with an id outside the table ends the kernel (`BadId`). The
executable is closed when a program starts (`progtest.cc:47`), so that ids and
descriptors start with the same numbers, unless the real file system keeps the
descriptor of the disk open: `SysInit` has both. A semaphore may start negative
(`exception.cc:370` checks nothing); P then takes without waiting, until V has
brought the value to 0. `Condition::Wait` by a thread that does not hold the lock
skips the Release and no more (`threads/synch.cc:172`): `CondWait` has both
cases.

A Destroy deletes its object whoever uses it. The pointers to it that are left in
calls in progress become `FreedSem`, `FreedLock` or `FreedCond`: a thread asleep
in front of one is in no queue any more; one that goes on with it is undefined,
and ends the run (`UseFreed`). A thread asleep on a condition whose lock was
deleted is still in the condition's queue, can be signalled, and meets the deleted
lock then.

Shutdown marks its descriptor as given up and erases the entry numbered like the
descriptor. `HandlesSound` is what remains true of ids in spite of it: none leads
to a closed descriptor, or to one opened under another id, and no two lead to the
same. `HandlesKept`, that no id is lost, is violated.

### Disk and FileSystem

An operation is a list of sector accesses that its thread performs one by one,
each with its lock, request, interrupt and return; what it does with what it read
is computed when the reads are done. A crash may fall between any two accesses:
memory is lost, the disk stays, and it is mounted again (`Boot`) or formatted.
Formatting writes sector by sector (`StartFormat`, `FormatSector`) and may itself
be cut short. A directory takes two sectors and one entry lies across both, as
the 20-byte entries do in 128-byte sectors. `torn` marks the interval between the
two write backs of Create and Remove, where a crash leaves map and directory in
disagreement, and the time from the beginning of a format to its end; nothing is
claimed of such a disk until it is formatted. `FileStore` says the same of what
it promises: files go by `Format`, while the machine does not run, or by a `Stop`
in the middle of an update, and at no other moment. As the comment of
`FileSystem::Create` has it, one thread at a time is in Create, Open or Remove; a
file has one writer at a time and is closed before it is removed: nothing in the
code enforces it. Latencies are checked as arithmetic: the model enumerates
requests one after another and compares `ComputeLatency`, `ModuloDiff` and the
track buffer with the position of the sectors.

### PostOffice

Both machines run MailTest from the moment their sockets are bound. `wire` is the
host's socket, which keeps order; `Transmit` may lose the packet. Its assertion
that the network is not busy cannot fail, as nothing ever sets `sendBusy`
(`machine/network.cc:107`): that one packet is sent at a time is the work of
`sendLock` alone. `sending` counts the interrupts that will free it. `posted` and
`taken` are histories: `DeliveredInOrder` says that what is on its way (`Coming`)
is the end of what was posted, and that the rest, box by box (`ForBox`), is what
was taken followed by what lies in the boxes. A machine in `Chatty` has a second
thread that sends to itself and so competes for lock, socket, buffer and worker.
Nobody waits with a timeout in this code and nothing is sent twice, so a lost
packet of the test means that it never ends; `MailTestEnds` says that this is the
only reason.

### The programs

`MCPrograms` chooses one of six programs. In the three hot potatoes a player's
turn is one step, as only who holds the potato touches it. In `PotatoMail` every
process removes the queue as it exits and the others find their calls failing. In
`PotatoShM` the initial value of semaphore 0 is whatever `semctl` without its
fourth argument sets: `Leftover`. The values that the potato restarts with
(`rand_r` of the player's number) are assumed not to be 0, which never bursts. In
`Dining` and `Baboons` a method is one step from lock to unlock or wait.
`ThreadTest` starts the philosophers and returns, and main calls
`Thread::Finish`, which follows a table of threads that only `StartProcess`
makes: Nachos crashes. Philosophers eat only in the time slices that main loses
before (option `-rs`), or never; the model lets main come to its end at any time,
and a philosopher that has eaten its rounds crashes in the same way. A wait of a
baboon is in no loop and may return by itself (`early`): the baboon crosses, and
is counted until its rope is let go. `Console` is the device with the echo loop
of ConsoleTest.

## Runs

| Run | Bounds | Shows |
|---|---|---|
| `threads` | 5 threads; 2 interrupts; value up to 4; 2 producers (one also applies), 3 consumers, 3 items | scheduler: exact ready list, safe deletion, no resurrection, every ready thread runs. Semaphore: no lost wakeup, refinement of `AbstractSemaphore`, with progress. List: mutual exclusion, no lost wakeup, no signal without a taker; first in, first out, exactly once; an append to sleeping consumers wakes one |
| `interrupt` | 3 threads, timer slices 1..4, latency 3, 2 requests | mode belongs to the running thread, nothing late, timer kept; the timer gives every ready thread the processor |
| `user` | 4 threads, 2 ids, 4 frames; words of 8 bits, 4 registers, 2 instructions, all opcodes and functions | tables, user counts, frames and joins consistent, also with a full table and full memory; delays and restarts invisible; products and overflow tests exact for all 65536 pairs of words |
| `pager` | 2 spaces of 2 pages, 2 frames, 2 TLB slots | before any eviction frames are handed out once and every thread reads its own data; under memory pressure swapped-out pages are always stored |
| `syscalls` | 3 threads, 2 objects and the console, 4 ids, 5 descriptors, values -1..1 | sleepers reachable until their object is deleted, nobody overlooked, ids sound, also with a full table |
| `devices` | 2 threads, 9 sectors of 2 bytes, 2 directory entries, 3 names; 2 machines, one with 2 chats of its own | one request at a time, map and directory exact, latency exact, refinement of `FileStore` with crashes; mail once, in order, in its box, none to a halted machine; the test ends unless a packet of it is lost |
| `programs` | 5 players; 5 philosophers eating twice; 6 baboons, 2 ropes, 4 to gather; 5 characters | refinement of `HotPotato`; all programs end; forks, counters and echo right |
| `pager_writes` | as `pager` | violated: a program reads something else than it wrote once pages have been evicted |
| `frames` | as `user` | violated: the frames a forked thread maps are freed by its father's exit |
| `sem_destroy` | as `syscalls` | violated: a thread stays asleep in front of a destroyed semaphore |
| `shutdown` | as `syscalls`, 5 ids, 6 descriptors | violated: shutting a socket down takes the id of another away |
| `main_finish` | as `programs` | violated: the end of main ends the simulation before the other threads have run |

`threads`, `user` and `devices` each hold several modules that share no state:
`subject` says which of them runs from the start, the others stay at their start,
where what is asked of them holds. `MailTestOver` is `MailTestEnds` of the runs of
the post office.

The bounds are the smallest in which the contended cases happen: a waiter, a
caller that overtakes it, a second waiter and the thread that wakes them (four);
more living threads than table entries, and more programs than fit in memory; a
program's loader, its child and a third thread that loads another program; two
devices due at the same time as the timer; a frame, an evicted page and a third
one that wants the frame; an instruction in the delay slot of another (two in a
row); a condition and its lock, or two semaphores, with a thread asleep, one
readied and one that destroys; more descriptors than ids; more names than
directory entries, and files that fill the disk; a packet that comes while the
last is still buffered; a tie between ropes, and a second gathering after the
first. Five players are enough for the ring to close over two neighbours that are
out.

`pager`, `syscalls` and `devices` use a view: states that differ only in what no
later step and no property reads (contents of free sectors and of pages after an
eviction, fields of invalid TLB slots and free entries, everything after the end
of the simulation) count once. Symmetry is used for threads and names that play
the same role: in `user`, `pager` and `syscalls`, which check no liveness, and in
`devices` for the names of files, none of which occurs in a state of the post
office, the only subject there with a liveness property. Deadlock is checked
except where a program may leave all its threads waiting (`user`, `pager`,
`syscalls`) and where the number of instructions is bounded (`user`).

`ArithExact` and `LatencyExact` quantify over all words and over all requests.
They do not depend on the state, so each is asked in one.

## Findings

Five runs state what a document or a comment says of the code and find it
violated; `PROJECT.json` quotes the line.

* `pager_writes`: `Coherent`, that the running program reads what it wrote.
  `pager` and `pager_writes` together say that demand paging is right exactly
  until the first eviction: both state `Coherent`, the first (as
  `ReadsLastWrite`) as long as `evicted` is false. `pageOut` clears the bit of a
  frame that is handed on (`vm/BackingStore.cpp:33`).
* `frames`: `MappedFramesTaken`, that the frame of every mapped page is taken.
  The copy constructor of `AddrSpace` counts users in the new object
  (`userprog/addrspace.cc:150`, against `addrspace.h:97`), so a father that exits
  frees code and data frames its child still maps.
* `sem_destroy`: `SemSleepersFreed`. SemDestroy deletes the semaphore and readies
  nobody (`userprog/exception.cc:384`); `Semaphore::Destroy`, which would, is not
  called.
* `shutdown`: `HandlesKept`. Shutdown erases the entry with the number of the
  host's descriptor (`userprog/exception.cc:735`).
* `main_finish`: `MainLeavesOthers`. `removeResources` follows the table of
  threads of threads that have none (`threads/thread.cc:166`).

The models also reproduce the following behaviour of the code, which no property
forbids:

* two appends to two sleeping consumers wake both, but `isBusy` remembers one
  signal: a consumer sleeps on beside an item (`threads/synch.cc:189`; "will
  wait until the list has an element on it", `threads/synchlist.h:20`). What
  does hold is `SomeConsumerWakes`, and `SignalHasTaker` of the signal that is
  remembered;
* Finish readies one of several joiners and deletes the semaphore under the
  others, which sleep for ever, and under the one it readied, whose P goes on in
  deleted memory (`threads/thread.cc:151`; "Only return once the the user program
  "id" has finished", `userprog/syscall.h:88`). `JoinAfterFinish` says only that
  no Join returns early;
* a thread that finishes when the next one to run is fresh is not deleted: the
  fresh thread starts at `ThreadRoot`, and the next Finish overwrites
  `threadToBeDestroyed` (`threads/scheduler.cc:124`, "Scheduler::Run() will call
  the destructor", `threads/thread.cc:140`);
* `Lock::Release` keeps `owner` (`threads/synch.cc:143`), so
  `isHeldByCurrentThread` is still true of the last holder;
* the loop of `Condition::Broadcast` runs while the queue is empty
  (`threads/synch.cc:198`): with waiters it wakes nobody, without it spins. The
  list never calls it; the programs of `syscalls` do;
* Join returns -1 also after a wait that succeeded
  (`userprog/exception.cc:198`), and Fork has no `RETURN`
  (`userprog/exception.cc:351`);
* a full table is written at index -1, and the thread that found it full fails
  the assertion of `Close` when it exits (`userprog/OSTable.h:36`,
  `FinishUnlisted`);
* once memory is full, a frame may be marked free and in use
  (`vm/BackingStore.cpp:33`), a TLB slot may outlive its page, and second chance
  may follow a pointer that was never set (`FaultWild`); a fault beyond the space
  reads and writes behind its page table (`FaultBeyond`);
* Fork with virtual memory copies nothing of the father's memory
  (`userprog/addrspaceVM.cc`, `ForkSpace`);
* `OR` combines the register `rs` with itself, and `SRL` and `SRLV` shift
  arithmetically (`machine/mipssim.cc:375`, `:444`);
* Wait without the lock takes the lock when it returns (`threads/synch.cc:172`);
  destroying a lock or a condition leaves its sleepers asleep for ever
  (`userprog/exception.cc:446`); Exit closes no file (`:161`); Create returns the
  host's descriptor without entering it in the table (`:226`);
* a stop between the write backs of directory and free map leaves a file whose
  sectors are free (`filesys/filesys.cc:206`); two writers of one sector lose
  bytes of each other (`filesys/openfile.cc:166`), which the assumption of one
  writer at a time excludes;
* MailTest waits for ever when a packet of it is lost (`network/nettest.cc:33`);
* `semctl` with `SETVAL` gets no value
  (`src/TareasProgramadas/TP1/ShM/src/Semaphore.cpp:52`);
* the last baboons, fewer than `B`, wait for ever and main with them
  (`src/CorrecionExamen1/Babuinos/src/Babuino.cpp:44`), and one whose wait returns
  spuriously crosses before `B` have gathered.

Seen while reading, outside what the models tell apart: `ReadMem` of the system
calls stops at the first zero byte of a buffer (`userprog/exception.cc:68`); the
test that writes files creates them with size 0 and so writes nothing
(`filesys/fstest.cc:124`), as files do not grow; `Allocate` never compares the
number of sectors with `NumDirect` (`filesys/filehdr.cc:42`: the model passes
sizes that fit); a byte 0xFF from the keyboard reads as an empty buffer
(`machine/console.cc:97`); `Barrier::Wait`, which nothing calls, opens for the
thread after the last and leaves interrupts disabled (`threads/synch.cc:250`).

Every property of a passing run has a mutant: a plausible slip in one mapped
definition, written beside it, under which TLC refutes the property.

## Fairness

* `Interrupt!FairSpec` is weak fairness of the whole next-state relation: the
  simulator is a loop that executes one thing after the other.
* `Scheduler!FairSchedSpec` has weak fairness of `Yield`, of leaving the idle
  loop and of delivering a scheduled interrupt. The first is what the timer
  provides, checked as `TimerPreempts` in `Interrupt`; without `-rs` a thread
  that never yields keeps the processor, and nothing is claimed.
* `Semaphore!FairSemSpec` and `SynchList!FairListSpec` have weak fairness of
  going on after having been readied, which is `ReadyRuns` of `Scheduler`.
* `PostOffice!MailSpec` has weak fairness of the interrupts, of the worker and of
  the steps of each thread: interrupts come when their time does and ready
  threads run. The lock is not assumed to be fair. In `devices` this is asked of
  the runs of the post office.
* `MCPrograms!Spec` is weak fairness of the whole program: some process, thread
  or device that can go on does. No single one is favoured.

`threads` conjoins the fairness of its three modules; none of it is enabled in the
start state of a module that is not the subject, so it asks nothing there. Callers
are never assumed to call anything.

## Theorems

TLAPS proves, for any set of threads and any values of the constants that satisfy
the named assumptions of the modules:

* `ThreadsProofs`, on `Scheduler`: `SchedTypeOK`, `ReadyListExact`, `OneRunning`,
  `SafeDestroy` and the action property `NoResurrection`. The inductive invariant
  adds `FreshAreReady`: without it a dispatch of a fresh thread could be the
  dispatch of the thread that is about to be deleted. The argument for safe
  deletion is that a doomed thread is blocked in no queue, so it is neither on the
  ready list nor reachable by a wakeup, and `Run` switches away before it deletes.
  `NoResurrection` follows from the same invariant: each step that changes a
  status changes that of the current thread, of the head of the ready list, of a
  thread in a queue, or of the doomed one.
* On `Semaphore`: `SemTypeOK`, `QueueConsistent`, `NoLostWakeup`, and the
  refinement of `AbstractSemaphore` under `blocked <- Asleep \cup woken`.
  `NoLostWakeup` counts: V adds a unit and a woken thread, a woken thread that
  finds no unit sleeps again when the value is 0, and P takes units only.
* On `Monitor` and `SynchList`: `TypeOK`, `MutualExclusion`, `LockNoLostWakeup`,
  `SignalHasTaker` and `HolderIsOwner`. The invariant is their conjunction with
  `QueuesExact`; the last two are what makes the others inductive. `SynchList`
  inherits all of it (`ListKeepsMonitor`): its methods only add stages to the
  steps of the monitor. `ListFirstInFirstOut` needs in addition that the thread
  between reading and unlinking holds the lock and its item is still the head.
* `InterruptProofs`: `StatusMatchesThread`, `NoneOverdue` and the action property
  `TimerKept`. For the first, `SavedStatus` says that a thread switched out in a
  `OneTick` has saved the status it is to go on with, and that user code that has
  saved nothing has the processor. For the others, `PendingInv` says that the
  list is sorted and has at most one timer; what `SortedInsert`, removing the
  head, advancing the clock and putting back do to such a list are lemmas.
  `NoneOverdue` follows because `CheckIfDue` leaves the loop only with a head in
  the future, and sorted means that so is the rest.
* `ProcessProofs`: types, `TableSound`, `TablesOutliveThreads`,
  `JoinAfterFinish` and `FramesExact`, for any table size, memory and sizes of
  code, data and stack. `ProcIInv` adds that table entries name living threads,
  that the user count is their number, that join queues hold threads asleep in
  Join of that thread, and that a thread has its space from its start to the end
  of Finish, with the counter of users that its constructor set (`LoadersSound`: 1
  exactly in the space of a loader). The last is what makes the frames exact:
  the destructor decides by that counter what to free, so that code and data are
  kept exactly as long as their loader has its space.
* `SyscallsProofs`: `HandlesSound`, `SleepersQueued`, `NoneOverlooked`, for
  programs that mix all calls, destroy objects in use and wait without the lock.
  `SysInv` says of the calls in progress that they take at most a condition and
  then its lock, that what they are going to take is alive or marked as freed, that
  a queue holds exactly the threads asleep in front of its object,
  and `CountsCovered`: where threads sleep, a readied thread is on its way for
  each unit of the count. Counting is necessary: a semaphore may be signalled
  twice before the first readied thread runs; a semaphore below 0 can be taken by
  anybody, and nobody sleeps there. A system call is a composition of
  four steps (enter, take, block, give), each with a lemma over arbitrary
  objects and calls; `GoOnKeeps` composes them.
* `PagerProofs`: `PagerTypes`, `PagerFrameHeldOnce`, `PagerReadsLastWrite` and
  `PagerBackedUp`, for any numbers of threads, pages, frames and TLB slots.
  `PagerInv` has the types, the soundness of the spaces (`SpacesSound`) and
  `BackedUp`, which hold always, and two parts that hold until the first eviction:
  `TablesExact`, that a valid page of a live space has its last contents in a
  frame of its own and that every marked frame is held, and `TlbExact`, that a
  valid slot agrees with the table of the running thread. The loops of the code
  (over slots, over pages, the hand of second chance) are recursive functions;
  what they leave invariant comes from `LoopInvariant` of `QueueLemmas`.
* `DeviceProofs`, on the disk: `DiskOneRequest`. `DiskInv` says that an active
  request and an interrupt that nobody has consumed exclude each other, and that
  either holds the lock of `SynchDisk`.
* On the file system: `FilesSpaceExact`, for any disk and directory and with
  crashes anywhere. `FileInv` says that one thread at a time is in Create, Open
  or Remove, that what it has read is what the disk holds, that an open file is
  in the directory with the header that its handle holds (so a write reaches only
  data sectors of that file) and that the sectors `Find` chose are clear in the
  map. `FormatInv` says which sectors a format has written, so that the last one
  leaves a sound disk, whatever was there. A write back is described access by
  access: the disk is sound with the old directory and map until the first of
  them is written, and with the new ones once the last is.
* On the network: `PostDeliveredInOrder` and `PostNoMailToHalted`. `MailInv` has
  two independent parts. `Delivery`: types, what the buffer of the post office
  holds and for whom, and the order of the histories. `TestSound`: where each
  machine is in the test and what of its peer's mail it must have heard
  (`HeardSound`, `AckSent`), so that the acknowledgement, with which it halts, is
  the last thing its peer sends.
* `ProgramProofs`: `PhilosophersSafe` for any number of rounds, `ConsoleEchoes`
  for any input, `BaboonsCounted` for any numbers of baboons and ropes, any size
  of a gathering and any spurious returns, and the refinement of `HotPotato` by
  the three programs, for any number of players, rotation and values of the
  potato. The refinement mapping is `Playing`: the live players, or those that
  have not ended and the winner. Its invariants say that the potato counts them,
  that a winner is the last one and takes no more turns and, for the message
  queues, that until a winner is announced there is one potato, in one queue or in
  one hand.
* `QueueLemmas` states once what appending to, removing from and concatenating
  queues does, that a nonempty set of naturals has a least element, and, from
  that, what a loop of so many turns keeps.

The assumptions are those a run of the code satisfies: `main` is a thread, sizes
and costs are naturals (positive where the code divides by them or starts with
one), a program fits in memory when it is the first, the baboons are finitely
many, what is typed is a sequence that contains the character that ends the
test, in `Syscalls` the threads are finitely many and `NULL` is no thread,
number, object or call, the disk has whole tracks and room for the sectors of the
system, and there are two machines on the network. TLC finds the inductive
invariants true on the instances of the runs, too.

Only model-checked:

* all liveness (fairness is outside the prover's reach) and so the progress part
  of the refinements;
* the simulator, `ArithExact` and the refinement of `MipsISA` by `Mips`: over
  bitwise operators, which the prover does not know;
* `LatencyExact`: it compares nested quotients and remainders of the position of
  the head, arithmetic that is not linear and beyond the solver;
* the refinement of `FileStore` by `FileSystem`: its mapping follows the contents
  of files through the sectors that hold them while they are written.

## Not modelled

* The host interface (`machine/sysdep.cc`), statistics, debugging output and the
  start-up of `main.cc`: wrappers around the host and option parsing, without
  state of their own. What the models need of the host (descriptors, sockets,
  message queues, semaphores, mutexes) is in them, marked external.
* The ptrace-driven preemption (`threads/preemptive.cc`): its effect is a
  `Yield` at any point, which `Scheduler` allows.
* `Barrier`, which no code uses.
* Copying of program segments into frames, argument passing, and the bytes that
  Read and Write move: data that no property tells apart.
* Overflow of the tick counter after 2^31 ticks: times are relative.
* `filesys/fstest.cc` and the user programs in `test/`: inputs of the system.

## Plan

The models are complete as far as the source has state to model. Left to prove is
the safety part of the refinement of `FileStore`: `FileInv` says already which
sectors an open file has and that no other file has them; it lacks the contents.
