------------------------------ MODULE Interrupt ------------------------------
(***************************************************************************)
(* The simulated hardware of machine/interrupt.cc and machine/timer.cc:    *)
(* simulated time, the sorted list of pending interrupts, the three        *)
(* machine modes and the time slice, together with the places where        *)
(* threads give up the processor (threads/thread.cc).                      *)
(*                                                                         *)
(* Time only ever matters relative to stats->totalTicks, so a pending      *)
(* interrupt carries the ticks left until it is due and advancing the      *)
(* clock subtracts from all of them.  Handlers run with interrupts off and *)
(* to completion: firing one is one action.                                *)
(***************************************************************************)
EXTENDS Integers, Sequences, FiniteSets

CONSTANTS
  Thread,       \* the kernel's threads
  main,         \* the one that runs first
  UserTick,     \* cost of a user instruction
  SystemTick,   \* cost of enabling interrupts
  TimerTicks,   \* average length of a time slice
  Latency,      \* what a device may answer in
  MaxRequests   \* bound: device interrupts pending at once

ASSUME InterruptAssumption ==
  /\ main \in Thread
  /\ UserTick \in Nat \ {0}
  /\ SystemTick \in Nat \ {0}
  /\ TimerTicks \in Nat \ {0}
  /\ Latency \subseteq Nat \ {0}
  /\ MaxRequests \in Nat

VARIABLES
  pending,        \* Interrupt::pending, as [type, left] records
  status,         \* Interrupt::status
  yieldOnReturn,  \* Interrupt::yieldOnReturn
  phase,          \* what the processor is doing, see Phase
  current,        \* currentThread
  readyList,      \* Scheduler::readyList
  asleep,         \* threads in the queue of some synch object
  unborn,         \* threads not forked yet
  mode,           \* what code each thread executes
  inYield,        \* threads inside Yield or not started: all they do next is
                  \* to enable interrupts
  old             \* the local variable of the OneTick whose Yield a thread is
                  \* in, "none" outside of one

vars == <<pending, status, yieldOnReturn, phase, current, readyList, asleep,
          unborn, mode, inYield, old>>
threadVars == <<asleep, unborn, mode>>

\* on / off: the current thread executes with interrupts enabled / disabled;
\* tick: in the loop of OneTick; idle, idleLoop: in Idle, before and after the
\* first interrupt has been fired; halted: Cleanup has ended the simulation.
Phase == {"on", "off", "tick", "idle", "idleLoop", "halted"}

TimerDelay == 1..(2 * TimerTicks)
IntType == {"TimerInt", "DeviceInt"}
Longest == CHOOSE d \in TimerDelay \cup Latency : \A e \in TimerDelay \cup Latency : e <= d

InterruptTypeOK ==
  /\ pending \in Seq([type : IntType, left : (-SystemTick - UserTick)..Longest])
  /\ status \in {"IdleMode", "SystemMode", "UserMode"}
  /\ yieldOnReturn \in BOOLEAN
  /\ phase \in Phase
  /\ current \in Thread
  /\ readyList \in Seq(Thread)
  /\ asleep \subseteq Thread
  /\ unborn \subseteq Thread
  /\ mode \in [Thread -> {"kernel", "user", "syscall"}]
  /\ inYield \subseteq Thread
  /\ old \in [Thread -> {"none", "SystemMode", "UserMode"}]

\* Initialize has run and enabled interrupts; with -rs there is a timer.
Init ==
  /\ pending \in {<<>>} \cup {<<[type |-> "TimerInt", left |-> d]>> : d \in TimerDelay}
  /\ status = "SystemMode"
  /\ yieldOnReturn = FALSE
  /\ phase = "on"
  /\ current = main
  /\ readyList = <<>>
  /\ asleep = {}
  /\ unborn = Thread \ {main}
  /\ mode = [t \in Thread |-> "kernel"]
  /\ inYield = {}
  /\ old = [t \in Thread |-> "none"]

-----------------------------------------------------------------------------
(* The list of pending interrupts.                                         *)

\* Mutant: the element is put at the end, wherever its key belongs.
SortedInsertLast(list, e) == Append(list, e)

\* List::SortedInsert: before the first element with a larger key.
SortedInsert(list, e) ==
  LET larger == {i \in 1..Len(list) : list[i].left > e.left}
      at == IF larger = {} THEN Len(list) + 1
            ELSE CHOOSE i \in larger : \A j \in larger : i <= j
  IN  SubSeq(list, 1, at - 1) \o <<e>> \o SubSeq(list, at, Len(list))

\* The clock advances.
Advance(list, ticks) ==
  [i \in 1..Len(list) |-> [list[i] EXCEPT !.left = @ - ticks]]

\* CheckIfDue puts back what SortedRemove took: behind its equals.
PutBack(list) == IF list = <<>> THEN list ELSE SortedInsert(Tail(list), Head(list))

Due == pending # <<>> /\ Head(pending).left <= 0

\* "If the pending interrupt is just the time-slice daemon"
OnlyTimer == Len(pending) = 1 /\ Head(pending).type = "TimerInt"

\* Interrupt::Schedule with the rest of its caller's list.
Schedule(list, type, fromNow) ==
  pending' = SortedInsert(list, [type |-> type, left |-> fromNow])

-----------------------------------------------------------------------------
(* Handlers, called by CheckIfDue with list what is still pending.         *)

\* TimerInterruptHandler: CheckIfDue has set the status it tests.
TimerInterruptHandler(st) == yieldOnReturn' = (yieldOnReturn \/ st # "IdleMode")

\* Timer::TimerExpired
TimerExpired(list) ==
  /\ \E d \in TimerDelay : Schedule(list, "TimerInt", d)
  /\ TimerInterruptHandler("SystemMode")
  /\ UNCHANGED <<readyList, asleep>>

\* A device's handler: it may schedule the next interrupt of the device and
\* may ready a sleeping thread.
DeviceDone(list) ==
  /\ \/ pending' = list
     \/ \E d \in Latency : Schedule(list, "DeviceInt", d)
  /\ \/ \E t \in asleep : asleep' = asleep \ {t} /\ readyList' = Append(readyList, t)
     \/ UNCHANGED <<asleep, readyList>>
  /\ UNCHANGED yieldOnReturn

Handler(type, list) ==
  \/ type = "TimerInt" /\ TimerExpired(list)
  \/ type = "DeviceInt" /\ DeviceDone(list)

-----------------------------------------------------------------------------
(* OneTick.                                                                *)

\* OneTick up to its loop, in machine status st: time goes on.
BeginTick(st) ==
  /\ pending' = Advance(pending, IF st = "SystemMode" THEN SystemTick ELSE UserTick)
  /\ phase' = "tick"

\* CheckIfDue(false) in the loop of OneTick, with an interrupt due.
TickFire ==
  /\ phase = "tick" /\ Due
  /\ Handler(Head(pending).type, Tail(pending))
  /\ UNCHANGED <<status, phase, current, unborn, mode, inYield, old>>

\* Mutant: the mode of the interrupted thread is not restored after the Yield.
TickReturnUnrestored ==
  /\ phase = "tick" /\ ~Due /\ ~yieldOnReturn
  /\ pending' = PutBack(pending)
  /\ phase' = "on"
  /\ old' = [old EXCEPT ![current] = "none"]
  /\ inYield' = inYield \ {current}
  /\ UNCHANGED <<status, yieldOnReturn, current, readyList, threadVars>>

\* The end of OneTick, and of the Yields and OneTicks it may be nested in.
TickReturn ==
  /\ phase = "tick" /\ ~Due /\ ~yieldOnReturn
  /\ pending' = PutBack(pending)
  /\ phase' = "on"
  /\ status' = IF old[current] = "none" THEN status ELSE old[current]
  /\ old' = [old EXCEPT ![current] = "none"]
  /\ inYield' = inYield \ {current}
  /\ UNCHANGED <<yieldOnReturn, current, readyList, threadVars>>

\* Mutant: the time slice ends without a context switch.
TickYieldNobody ==
  /\ phase = "tick" /\ ~Due /\ yieldOnReturn
  /\ pending' = PutBack(pending)
  /\ yieldOnReturn' = FALSE
  /\ phase' = "on"
  /\ UNCHANGED <<status, current, readyList, threadVars, inYield, old>>

\* The end of a time slice: OneTick calls Yield of the current thread.
TickYield ==
  /\ phase = "tick" /\ ~Due /\ yieldOnReturn
  /\ pending' = PutBack(pending)
  /\ yieldOnReturn' = FALSE
  /\ status' = "SystemMode"
  /\ old' = [old EXCEPT ![current] = IF @ = "none" THEN status ELSE @]
  /\ inYield' = inYield \cup {current}
  /\ phase' = "off"
  /\ \/ /\ readyList # <<>>
        /\ current' = Head(readyList)
        /\ readyList' = Append(Tail(readyList), current)
     \/ /\ readyList = <<>>
        /\ UNCHANGED <<current, readyList>>
  /\ UNCHANGED threadVars

-----------------------------------------------------------------------------
(* What the current thread does.                                           *)

On(m) == phase = "on" /\ mode[current] = m
InKernel == phase \in {"on", "off"} /\ mode[current] # "user" /\ current \notin inYield

\* Machine::Run starts the user program.
EnterUser ==
  /\ On("kernel")
  /\ mode' = [mode EXCEPT ![current] = "user"]
  /\ status' = "UserMode"
  /\ UNCHANGED <<pending, yieldOnReturn, phase, current, readyList, asleep,
                 unborn, inYield, old>>

\* Machine::Run: an instruction that raises no exception, then OneTick.
UserInstruction ==
  /\ On("user")
  /\ BeginTick(status)
  /\ UNCHANGED <<status, yieldOnReturn, current, readyList, threadVars, inYield, old>>

\* Machine::RaiseException, up to the handler.
Syscall ==
  /\ On("user")
  /\ mode' = [mode EXCEPT ![current] = "syscall"]
  /\ status' = "SystemMode"
  /\ UNCHANGED <<pending, yieldOnReturn, phase, current, readyList, asleep,
                 unborn, inYield, old>>

\* The end of RaiseException, then the OneTick of Machine::Run.
SyscallReturn ==
  /\ On("syscall")
  /\ mode' = [mode EXCEPT ![current] = "user"]
  /\ status' = "UserMode"
  /\ BeginTick("UserMode")
  /\ UNCHANGED <<yieldOnReturn, current, readyList, asleep, unborn, inYield, old>>

\* SetLevel(IntOff)
Disable ==
  /\ InKernel /\ phase = "on"
  /\ phase' = "off"
  /\ UNCHANGED <<pending, status, yieldOnReturn, current, readyList, threadVars,
                 inYield, old>>

\* SetLevel(IntOn) with interrupts disabled.
Enable ==
  /\ phase = "off"
  /\ BeginTick(status)
  /\ UNCHANGED <<status, yieldOnReturn, current, readyList, threadVars, inYield, old>>

\* A device request schedules its completion.
Request ==
  /\ InKernel
  /\ Cardinality({i \in 1..Len(pending) : pending[i].type = "DeviceInt"}) < MaxRequests
  /\ \E d \in Latency : Schedule(pending, "DeviceInt", d)
  /\ UNCHANGED <<status, yieldOnReturn, phase, current, readyList, threadVars,
                 inYield, old>>

\* Thread::Fork
Fork(t) ==
  /\ InKernel /\ phase = "off"
  /\ t \in unborn
  /\ unborn' = unborn \ {t}
  /\ inYield' = inYield \cup {t}
  /\ readyList' = Append(readyList, t)
  /\ UNCHANGED <<pending, status, yieldOnReturn, phase, current, asleep, mode, old>>

\* Thread::Yield, called by the thread itself.
Yield ==
  /\ InKernel /\ phase = "off"
  /\ readyList # <<>>
  /\ current' = Head(readyList)
  /\ readyList' = Append(Tail(readyList), current)
  /\ inYield' = inYield \cup {current}
  /\ UNCHANGED <<pending, status, yieldOnReturn, phase, threadVars, old>>

\* Thread::Sleep, called by a synch object (the thread is in its queue) or by
\* Finish (it is in none): run a ready thread or call Idle.
Sleep ==
  /\ InKernel /\ phase = "off"
  /\ asleep' \in {asleep, asleep \cup {current}}
  /\ \/ /\ readyList # <<>>
        /\ current' = Head(readyList)
        /\ readyList' = Tail(readyList)
        /\ UNCHANGED <<phase, status>>
     \/ /\ readyList = <<>>
        /\ phase' = "idle"
        /\ status' = "IdleMode"
        /\ UNCHANGED <<current, readyList>>
  /\ UNCHANGED <<pending, yieldOnReturn, unborn, mode, inYield, old>>

\* A synch object readies a thread from its queue.
Wake(t) ==
  /\ InKernel /\ phase = "off"
  /\ t \in asleep
  /\ asleep' = asleep \ {t}
  /\ readyList' = Append(readyList, t)
  /\ UNCHANGED <<pending, status, yieldOnReturn, phase, current, unborn, mode,
                 inYield, old>>

\* Interrupt::Halt, from the system call.
Halt ==
  /\ InKernel
  /\ phase' = "halted"
  /\ UNCHANGED <<pending, status, yieldOnReturn, current, readyList, threadVars,
                 inYield, old>>

-----------------------------------------------------------------------------
(* Idle.                                                                   *)

\* CheckIfDue(true): advance the clock to the next interrupt and fire it.
IdleFire ==
  LET next == Head(pending)
  IN  /\ phase = "idle"
      /\ pending # <<>> /\ ~OnlyTimer
      /\ Handler(next.type,
                 IF next.left > 0 THEN Advance(Tail(pending), next.left) ELSE Tail(pending))
      /\ phase' = "idleLoop"
      /\ UNCHANGED <<status, current, unborn, mode, inYield, old>>

\* CheckIfDue(false) in Idle's loop, with an interrupt due.
IdleLoopFire ==
  /\ phase = "idleLoop" /\ Due /\ ~OnlyTimer
  /\ Handler(Head(pending).type, Tail(pending))
  /\ UNCHANGED <<status, phase, current, unborn, mode, inYield, old>>

\* Mutant: the timer that CheckIfDue took off the list is not put back.
IdleReturnDropsTimer ==
  /\ phase = "idleLoop" /\ (~Due \/ OnlyTimer)
  /\ pending' = IF OnlyTimer THEN <<>> ELSE PutBack(pending)
  /\ yieldOnReturn' = FALSE
  /\ \/ /\ readyList # <<>>
        /\ status' = "SystemMode"
        /\ current' = Head(readyList)
        /\ readyList' = Tail(readyList)
        /\ phase' = "off"
     \/ /\ readyList = <<>>
        /\ phase' = "idle"
        /\ UNCHANGED <<status, current, readyList>>
  /\ UNCHANGED <<threadVars, inYield, old>>

\* The end of Idle, and the loop of Sleep that called it.  A due timer stays
\* behind when nothing else is pending.
IdleReturn ==
  /\ phase = "idleLoop" /\ (~Due \/ OnlyTimer)
  /\ pending' = PutBack(pending)
  /\ yieldOnReturn' = FALSE
  /\ \/ /\ readyList # <<>>
        /\ status' = "SystemMode"
        /\ current' = Head(readyList)
        /\ readyList' = Tail(readyList)
        /\ phase' = "off"
     \/ /\ readyList = <<>>
        /\ phase' = "idle"
        /\ UNCHANGED <<status, current, readyList>>
  /\ UNCHANGED <<threadVars, inYield, old>>

\* Idle with nothing pending but the timer, which is put back at a clock that
\* has been advanced to it: Halt.
IdleHalt ==
  /\ phase = "idle"
  /\ \/ pending = <<>> /\ UNCHANGED pending
     \/ /\ OnlyTimer
        /\ pending' = IF Head(pending).left > 0
                      THEN Advance(pending, Head(pending).left) ELSE pending
  /\ phase' = "halted"
  /\ UNCHANGED <<status, yieldOnReturn, current, readyList, threadVars, inYield, old>>

\* Cleanup() has ended the simulation.
Stopped == phase = "halted" /\ UNCHANGED vars

Next ==
  \/ TickFire \/ TickReturn \/ TickYield
  \/ EnterUser \/ UserInstruction \/ Syscall \/ SyscallReturn
  \/ Disable \/ Enable \/ Request \/ Yield \/ Sleep \/ Halt
  \/ \E t \in Thread : Fork(t) \/ Wake(t)
  \/ IdleFire \/ IdleLoopFire \/ IdleReturn \/ IdleHalt
  \/ Stopped

Spec == Init /\ [][Next]_vars

\* The simulator executes one thing after the other and never just stops.
FairSpec == Spec /\ WF_vars(Next)

-----------------------------------------------------------------------------
(* Properties.                                                             *)

\* The machine status always says what the current thread executes, whatever
\* thread was preempted in which mode by whom, and after idling: it decides
\* what an instruction costs, and where an exception returns to.
StatusMatchesThread ==
  /\ phase = "on" => status = IF mode[current] = "user" THEN "UserMode" ELSE "SystemMode"
  /\ phase = "off" => status = "SystemMode"
  /\ phase \in {"idle", "idleLoop"} => status = "IdleMode"

\* No interrupt is late: whenever a thread executes with interrupts enabled,
\* everything still pending lies in the future, although Idle and OneTick put
\* interrupts back and handlers schedule new ones while others are fired.
NoneOverdue ==
  phase = "on" => \A i \in 1..Len(pending) : pending[i].left > 0

Timers == {i \in 1..Len(pending) : pending[i].type = "TimerInt"}

\* There is one timer or none, and it is never lost or doubled by firing it,
\* by Idle putting it back, or by a Halt.
TimerKept ==
  /\ Cardinality(Timers) <= 1
  /\ [][Cardinality(Timers') = Cardinality(Timers)]_vars

\* With the timer (-rs) every ready thread gets the processor, also from a
\* user program that loops for ever and from kernel threads that never yield:
\* the fairness the other modules assume of the scheduler.
TimerPreempts ==
  \A t \in Thread :
    (Timers # {} /\ \E i \in 1..Len(readyList) : readyList[i] = t)
      ~> (current = t \/ phase = "halted")
=============================================================================
