--------------------------- MODULE InterruptProofs ---------------------------
(***************************************************************************)
(* Proofs about the simulated hardware of module Interrupt: the machine    *)
(* status is always that of the current thread, no interrupt is late, and  *)
(* the timer is neither lost nor doubled.  They hold for every set of      *)
(* threads, every cost of an instruction, every time slice and every       *)
(* device latency, so also without the bound on the requests.              *)
(***************************************************************************)
EXTENDS Interrupt, QueueLemmas, FiniteSetTheorems

-----------------------------------------------------------------------------
(* The machine status.                                                     *)

(* The status under which a thread executes its code.                      *)
StatusOf(m) == IF m = "user" THEN "UserMode" ELSE "SystemMode"

(***************************************************************************)
(* What makes StatusMatchesThread inductive.  A thread inside the Yield of *)
(* a OneTick has saved the status it is to go on with; user code that has  *)
(* saved nothing has the processor; and a OneTick that has saved nothing   *)
(* still runs in the status of its thread.                                 *)
(***************************************************************************)
SavedStatus ==
  /\ mode \in [Thread -> {"kernel", "user", "syscall"}]
  /\ old \in [Thread -> {"none", "SystemMode", "UserMode"}]
  /\ current \in Thread
  /\ readyList \in Seq(Thread)
  /\ asleep \subseteq Thread
  /\ \A t \in Thread : old[t] # "none" => old[t] = StatusOf(mode[t])
  /\ \A t \in Thread : mode[t] = "user" /\ old[t] = "none" =>
                         t = current /\ phase \in {"on", "tick", "halted"}
  /\ phase = "on" => old[current] = "none"
  /\ phase = "tick" /\ old[current] = "none" => status = StatusOf(mode[current])

StatusInv == SavedStatus /\ StatusMatchesThread

(* A handler readies at most threads that sleep, and touches no mode.      *)
LEMMA HandlerLists ==
  ASSUME readyList \in Seq(Thread), asleep \subseteq Thread,
         NEW type, NEW list, Handler(type, list)
  PROVE  readyList' \in Seq(Thread) /\ asleep' \subseteq Thread
  BY DEF Handler, TimerExpired, DeviceDone

(* The machine starts in the status of its first thread.                   *)
LEMMA StatusInit == Init => StatusInv
  BY InterruptAssumption DEF Init, StatusInv, SavedStatus, StatusMatchesThread, StatusOf

(* Every step keeps the saved and the current status right.                *)
LEMMA StatusStep == StatusInv /\ [Next]_vars => StatusInv'
  <1> SUFFICES ASSUME StatusInv, [Next]_vars PROVE StatusInv'
    OBVIOUS
  <1> USE DEF StatusInv, SavedStatus, StatusMatchesThread, StatusOf, threadVars
  <1>1. CASE TickFire
    BY <1>1, HandlerLists DEF TickFire
  <1>2. CASE TickReturn
    BY <1>2 DEF TickReturn
  <1>3. CASE TickYield
    <2>1. /\ phase = "tick" /\ phase' = "off" /\ status' = "SystemMode"
          /\ mode' = mode /\ asleep' = asleep
          /\ old' = [old EXCEPT ![current] = IF old[current] = "none" THEN status
                                            ELSE old[current]]
      BY <1>3 DEF TickYield
    <2>2. current' \in Thread /\ readyList' \in Seq(Thread)
      <3>1. readyList \in Seq(Thread) /\ current \in Thread
        OBVIOUS
      <3>2. readyList # <<>> => Head(readyList) \in Thread /\ Tail(readyList) \in Seq(Thread)
        BY <3>1, HeadThenTail, SMT
      <3>3. readyList # <<>> => Append(Tail(readyList), current) \in Seq(Thread)
        BY <3>1, <3>2, SMT
      <3>4. \/ current' = Head(readyList) /\ readyList # <<>>
               /\ readyList' = Append(Tail(readyList), current)
            \/ current' = current /\ readyList' = readyList
        BY <1>3 DEF TickYield
      <3>5. QED BY <3>1, <3>2, <3>3, <3>4, Zenon
    <2>3. old'[current] # "none" /\ old'[current] = StatusOf(mode[current])
      BY <2>1
    <2>4. \A t \in Thread : t # current => old'[t] = old[t]
      BY <2>1
    <2>5. old' \in [Thread -> {"none", "SystemMode", "UserMode"}]
      BY <2>1
    <2>6. \A t \in Thread : /\ old'[t] # "none" => old'[t] = StatusOf(mode'[t])
                            /\ ~(mode'[t] = "user" /\ old'[t] = "none")
      BY <2>1, <2>3, <2>4
    <2>7. QED BY <2>1, <2>2, <2>5, <2>6
  <1>4. CASE EnterUser
    BY <1>4 DEF EnterUser, On
  <1>5. CASE UserInstruction
    BY <1>5 DEF UserInstruction, On, BeginTick
  <1>6. CASE Syscall
    BY <1>6 DEF Syscall, On
  <1>7. CASE SyscallReturn
    BY <1>7 DEF SyscallReturn, On, BeginTick
  <1>8. CASE Disable
    BY <1>8 DEF Disable, InKernel
  <1>9. CASE Enable
    BY <1>9 DEF Enable, BeginTick
  <1>10. CASE Request
    BY <1>10 DEF Request, Schedule
  <1>11. CASE Yield
    BY <1>11 DEF Yield, InKernel
  <1>12. CASE Sleep
    BY <1>12 DEF Sleep, InKernel
  <1>13. CASE Halt
    BY <1>13 DEF Halt, InKernel
  <1>14. ASSUME NEW t \in Thread, Fork(t) PROVE StatusInv'
    BY <1>14 DEF Fork
  <1>15. ASSUME NEW t \in Thread, Wake(t) PROVE StatusInv'
    BY <1>15 DEF Wake
  <1>16. CASE IdleFire
    BY <1>16, HandlerLists DEF IdleFire
  <1>17. CASE IdleLoopFire
    BY <1>17, HandlerLists DEF IdleLoopFire
  <1>18. CASE IdleReturn
    BY <1>18 DEF IdleReturn
  <1>19. CASE IdleHalt
    BY <1>19 DEF IdleHalt
  <1>20. CASE Stopped \/ UNCHANGED vars
    BY <1>20 DEF Stopped, vars
  <1>21. QED
    BY <1>1, <1>2, <1>3, <1>4, <1>5, <1>6, <1>7, <1>8, <1>9, <1>10, <1>11, <1>12,
       <1>13, <1>14, <1>15, <1>16, <1>17, <1>18, <1>19, <1>20 DEF Next

(***************************************************************************)
(* Whatever thread the timer preempts in whatever mode, and after idling,  *)
(* Interrupt::status is the mode of the thread that executes.              *)
(***************************************************************************)
THEOREM InterruptStatus == Spec => []StatusMatchesThread
  <1>1. StatusInv => StatusMatchesThread
    BY DEF StatusInv
  <1>2. QED BY <1>1, StatusInit, StatusStep, PTL DEF Spec

-----------------------------------------------------------------------------
(* The list of pending interrupts.                                         *)

PendingInterrupt == [type : IntType, left : Int]

(* The list is sorted by the time its interrupts are due.                  *)
Ordered(list) ==
  \A i, j \in 1..Len(list) : i <= j => list[i].left <= list[j].left

HasTimer(list) == \E i \in 1..Len(list) : list[i].type = "TimerInt"

OneTimer(list) ==
  \A i, j \in 1..Len(list) :
    list[i].type = "TimerInt" /\ list[j].type = "TimerInt" => i = j

(* Everything in the list lies in the future.                              *)
Future(list) == \A i \in 1..Len(list) : list[i].left > 0

(* What an entry of a list of interrupts consists of.                      *)
LEMMA PendingEntries ==
  ASSUME NEW list \in Seq(PendingInterrupt)
  PROVE  /\ Len(list) \in Nat
         /\ \A i \in 1..Len(list) : /\ list[i] \in PendingInterrupt
                                   /\ list[i].left \in Int /\ list[i].type \in IntType
  <1>1. Len(list) \in Nat /\ \A i \in 1..Len(list) : list[i] \in PendingInterrupt
    OBVIOUS
  <1>2. \A e \in PendingInterrupt : e.left \in Int /\ e.type \in IntType
    BY DEF PendingInterrupt
  <1>3. QED BY <1>1, <1>2

(***************************************************************************)
(* List::SortedInsert puts the element where it belongs: what was before   *)
(* that place is not later, what was behind it is, and is shifted by one.  *)
(***************************************************************************)
LEMMA InsertShape ==
  ASSUME NEW list \in Seq(PendingInterrupt), NEW e \in PendingInterrupt
  PROVE  /\ SortedInsert(list, e) \in Seq(PendingInterrupt)
         /\ Len(SortedInsert(list, e)) = Len(list) + 1
         /\ \E at \in 1..Len(list) + 1 :
              /\ SortedInsert(list, e)[at] = e
              /\ \A i \in 1..at - 1 : /\ SortedInsert(list, e)[i] = list[i]
                                      /\ list[i].left <= e.left
              /\ \A i \in at..Len(list) : SortedInsert(list, e)[i + 1] = list[i]
              /\ at <= Len(list) => list[at].left > e.left
  <1> DEFINE larger == {i \in 1..Len(list) : list[i].left > e.left}
             at == IF larger = {} THEN Len(list) + 1
                   ELSE CHOOSE i \in larger : \A j \in larger : i <= j
  <1>1. /\ Len(list) \in Nat
        /\ e.left \in Int
        /\ \A i \in 1..Len(list) : list[i] \in PendingInterrupt /\ list[i].left \in Int
    <2>1. e.left \in Int
      BY DEF PendingInterrupt
    <2>2. QED BY <2>1, PendingEntries
  <1>2. /\ at \in 1..Len(list) + 1
        /\ \A i \in 1..at - 1 : list[i].left <= e.left
        /\ at <= Len(list) => list[at].left > e.left
    <2>1. CASE larger = {}
      BY <1>1, <2>1
    <2>2. CASE larger # {}
      <3>1. larger \subseteq Nat
        BY <1>1
      <3>2. \E i \in larger : \A j \in larger : i <= j
        BY <2>2, <3>1, LeastNatural
      <3>3. at \in larger /\ \A j \in larger : at <= j
        BY <2>2, <3>2
      <3>4. /\ at \in 1..Len(list) /\ at \in Nat
            /\ list[at].left > e.left
        <4> HIDE DEF at
        <4>1. QED BY <1>1, <3>3
      <3>5. ASSUME NEW i \in 1..at - 1 PROVE list[i].left <= e.left
        <4> HIDE DEF at
        <4>1. i \in 1..Len(list) /\ ~(at <= i)
          BY <1>1, <3>4
        <4>2. i \notin larger
          BY <3>3, <4>1
        <4>3. QED BY <1>1, <4>1, <4>2
      <3>6. at \in 1..Len(list) + 1
        BY <1>1, <3>4
      <3>7. QED BY <3>4, <3>5, <3>6
    <2>3. QED BY <2>1, <2>2
  <1>3. SortedInsert(list, e) = SubSeq(list, 1, at - 1) \o <<e>> \o SubSeq(list, at, Len(list))
    BY DEF SortedInsert
  <1> HIDE DEF at
  <1> DEFINE before == SubSeq(list, 1, at - 1)
             behind == SubSeq(list, at, Len(list))
  <1>4. /\ before \in Seq(PendingInterrupt) /\ Len(before) = at - 1
        /\ \A i \in 1..at - 1 : before[i] = list[i]
    BY <1>1, <1>2
  <1>5. /\ behind \in Seq(PendingInterrupt) /\ Len(behind) = Len(list) + 1 - at
        /\ \A i \in 1..Len(list) + 1 - at : behind[i] = list[at + i - 1]
    BY <1>1, <1>2
  <1> HIDE DEF before, behind
  <1>6. /\ before \o <<e>> \in Seq(PendingInterrupt)
        /\ Len(before \o <<e>>) = at
        /\ (before \o <<e>>)[at] = e
        /\ \A i \in 1..at - 1 : (before \o <<e>>)[i] = list[i]
    BY <1>2, <1>4
  <1> DEFINE front == before \o <<e>>
  <1> HIDE DEF front
  <1>7. /\ front \o behind \in Seq(PendingInterrupt)
        /\ Len(front \o behind) = Len(list) + 1
        /\ \A i \in 1..at : (front \o behind)[i] = front[i]
        /\ \A i \in at + 1..Len(list) + 1 : (front \o behind)[i] = behind[i - at]
    <2>1. front \in Seq(PendingInterrupt) /\ Len(front) = at
      BY <1>6 DEF front
    <2>2. /\ front \o behind \in Seq(PendingInterrupt)
          /\ Len(front \o behind) = at + (Len(list) + 1 - at)
          /\ \A i \in 1..at + (Len(list) + 1 - at) :
               (front \o behind)[i] = IF i <= at THEN front[i] ELSE behind[i - at]
      BY <1>5, <2>1, ConcatProperties
    <2>3. at \in Int /\ at + (Len(list) + 1 - at) = Len(list) + 1
      BY <1>1, <1>2
    <2>4. \A i \in 1..at : i \in 1..Len(list) + 1 /\ i <= at
      BY <1>1, <1>2
    <2>5. \A i \in at + 1..Len(list) + 1 : i \in 1..Len(list) + 1 /\ ~(i <= at)
      BY <1>1, <1>2
    <2>6. QED BY <2>2, <2>3, <2>4, <2>5
  <1>8. SortedInsert(list, e) = front \o behind
    BY <1>3 DEF front, before, behind
  <1>9. \A i \in at..Len(list) : (front \o behind)[i + 1] = list[i]
    <2> TAKE i \in at..Len(list)
    <2>1. /\ i + 1 \in at + 1..Len(list) + 1
          /\ (i + 1) - at \in 1..Len(list) + 1 - at
          /\ at + ((i + 1) - at) - 1 = i
      BY <1>1, <1>2
    <2>2. QED BY <1>5, <1>7, <2>1
  <1>10. /\ (front \o behind)[at] = e
         /\ \A i \in 1..at - 1 : (front \o behind)[i] = list[i]
    BY <1>1, <1>2, <1>6, <1>7 DEF front
  <1>11. QED BY <1>2, <1>7, <1>8, <1>9, <1>10

(***************************************************************************)
(* So the list stays sorted and gains its new element and no other.        *)
(***************************************************************************)
LEMMA InsertKeeps ==
  ASSUME NEW list \in Seq(PendingInterrupt), NEW e \in PendingInterrupt
  PROVE  /\ SortedInsert(list, e) \in Seq(PendingInterrupt)
         /\ Ordered(list) => Ordered(SortedInsert(list, e))
         /\ Future(list) /\ e.left > 0 => Future(SortedInsert(list, e))
         /\ HasTimer(SortedInsert(list, e)) <=> HasTimer(list) \/ e.type = "TimerInt"
         /\ OneTimer(list) /\ ~(HasTimer(list) /\ e.type = "TimerInt")
              => OneTimer(SortedInsert(list, e))
  <1> DEFINE new == SortedInsert(list, e)
  <1>1. /\ new \in Seq(PendingInterrupt) /\ Len(new) = Len(list) + 1
        /\ Len(list) \in Nat
    BY InsertShape
  <1>2. PICK at \in 1..Len(list) + 1 :
              /\ new[at] = e
              /\ \A i \in 1..at - 1 : new[i] = list[i] /\ list[i].left <= e.left
              /\ \A i \in at..Len(list) : new[i + 1] = list[i]
              /\ at <= Len(list) => list[at].left > e.left
    BY InsertShape
  <1>3. /\ e.left \in Int
        /\ \A i \in 1..Len(list) : list[i].left \in Int
    <2>1. e.left \in Int
      BY DEF PendingInterrupt
    <2>2. QED BY <2>1, PendingEntries
  <1> HIDE DEF new
  <1>4. \A k \in 1..Len(new) :
           \/ k \in 1..at - 1 /\ k \in 1..Len(list) /\ new[k] = list[k]
           \/ k = at /\ new[k] = e
           \/ k - 1 \in at..Len(list) /\ k - 1 \in 1..Len(list) /\ new[k] = list[k - 1]
    <2> TAKE k \in 1..Len(new)
    <2>1. CASE k < at
      BY <1>1, <1>2, <2>1
    <2>2. CASE k = at
      BY <1>2, <2>2
    <2>3. CASE k > at
      <3>1. k - 1 \in at..Len(list) /\ k - 1 \in 1..Len(list) /\ (k - 1) + 1 = k
        BY <1>1, <2>3
      <3>2. QED BY <1>2, <3>1
    <2>4. QED BY <1>1, <2>1, <2>2, <2>3
  <1>5. ASSUME Ordered(list) PROVE Ordered(new)
    <2> SUFFICES ASSUME NEW i \in 1..Len(new), NEW j \in 1..Len(new), i <= j
                 PROVE  new[i].left <= new[j].left
      BY DEF Ordered
    <2>1. CASE j \in 1..at - 1
      BY <1>1, <1>3, <1>4, <1>5, <2>1 DEF Ordered
    <2>2. CASE j = at
      BY <1>1, <1>2, <1>3, <1>4, <2>2
    <2>3. CASE j > at
      <3>1. j - 1 \in at..Len(list) /\ j - 1 \in 1..Len(list) /\ new[j] = list[j - 1]
        BY <1>1, <1>4, <2>3
      <3>2. at \in 1..Len(list) /\ list[at].left > e.left /\ list[at].left <= list[j - 1].left
        BY <1>1, <1>2, <1>5, <3>1 DEF Ordered
      <3>3. CASE i <= at
        <4>1. new[i].left <= e.left /\ new[i].left \in Int
          <5>1. CASE i = at
            BY <1>2, <1>3, <5>1
          <5>2. CASE i < at
            <6>1. i \in 1..at - 1 /\ i \in 1..Len(list)
              BY <1>1, <5>2
            <6>2. QED BY <1>2, <1>3, <6>1
          <5>3. QED BY <1>1, <3>3, <5>1, <5>2
        <4>2. new[j].left = list[j - 1].left /\ list[j - 1].left \in Int
              /\ list[at].left \in Int
          BY <1>3, <3>1, <3>2
        <4>3. QED BY <1>3, <3>2, <4>1, <4>2
      <3>4. CASE i > at
        <4>1. i - 1 \in 1..Len(list) /\ new[i] = list[i - 1] /\ i - 1 <= j - 1
          BY <1>1, <1>4, <3>4
        <4>2. QED BY <1>5, <3>1, <4>1 DEF Ordered
      <3>5. QED BY <3>3, <3>4, <1>1
    <2>4. QED BY <1>1, <2>1, <2>2, <2>3
  <1>6. ASSUME Future(list), e.left > 0 PROVE Future(new)
    BY <1>1, <1>4, <1>6 DEF Future
  <1>7. HasTimer(new) <=> HasTimer(list) \/ e.type = "TimerInt"
    <2>1. HasTimer(new) => HasTimer(list) \/ e.type = "TimerInt"
      BY <1>1, <1>4 DEF HasTimer
    <2>2. ASSUME HasTimer(list) PROVE HasTimer(new)
      <3>1. PICK i \in 1..Len(list) : list[i].type = "TimerInt"
        BY <2>2 DEF HasTimer
      <3>2. CASE i < at
        <4>1. i \in 1..Len(new) /\ new[i] = list[i]
          BY <1>1, <1>2, <3>2
        <4>2. QED BY <3>1, <4>1 DEF HasTimer
      <3>3. CASE i >= at
        <4>1. i + 1 \in 1..Len(new) /\ new[i + 1] = list[i]
          BY <1>1, <1>2, <3>3
        <4>2. QED BY <3>1, <4>1 DEF HasTimer
      <3>4. QED BY <3>2, <3>3, <1>1
    <2>3. ASSUME e.type = "TimerInt" PROVE HasTimer(new)
      BY <1>1, <1>2, <2>3 DEF HasTimer
    <2>4. QED BY <2>1, <2>2, <2>3
  <1>8. ASSUME OneTimer(list), ~(HasTimer(list) /\ e.type = "TimerInt")
        PROVE  OneTimer(new)
    <2> SUFFICES ASSUME NEW i \in 1..Len(new), NEW j \in 1..Len(new),
                        new[i].type = "TimerInt", new[j].type = "TimerInt"
                 PROVE  i = j
      BY DEF OneTimer
    <2> DEFINE Was(k) == IF k < at THEN k ELSE k - 1
    <2>1. ASSUME NEW k \in 1..Len(new), k # at, new[k].type = "TimerInt"
          PROVE  Was(k) \in 1..Len(list) /\ list[Was(k)].type = "TimerInt"
      BY <1>1, <1>4, <2>1
    <2>2. CASE i = at \/ j = at
      BY <1>2, <1>8, <2>1, <2>2 DEF HasTimer
    <2>3. CASE i # at /\ j # at
      <3>1. Was(i) = Was(j)
        BY <1>8, <2>1, <2>3 DEF OneTimer
      <3>2. QED BY <1>1, <2>3, <3>1
    <2>4. QED BY <2>2, <2>3
  <1>9. QED BY <1>1, <1>5, <1>6, <1>7, <1>8 DEF new

(***************************************************************************)
(* CheckIfDue takes the first interrupt off the list.                      *)
(***************************************************************************)
LEMMA TailKeeps ==
  ASSUME NEW list \in Seq(PendingInterrupt), list # <<>>
  PROVE  /\ Head(list) \in PendingInterrupt
         /\ Tail(list) \in Seq(PendingInterrupt)
         /\ Ordered(list) => Ordered(Tail(list))
         /\ Future(list) => Future(Tail(list)) /\ Head(list).left > 0
         /\ OneTimer(list) => OneTimer(Tail(list))
         /\ OneTimer(list) => ~(Head(list).type = "TimerInt" /\ HasTimer(Tail(list)))
         /\ HasTimer(list) <=> HasTimer(Tail(list)) \/ Head(list).type = "TimerInt"
  <1>1. /\ Len(list) \in Nat \ {0} /\ Head(list) = list[1]
        /\ Head(list) \in PendingInterrupt
        /\ Tail(list) \in Seq(PendingInterrupt)
        /\ Len(Tail(list)) = Len(list) - 1
        /\ \A i \in 1..Len(list) - 1 : Tail(list)[i] = list[i + 1]
    OBVIOUS
  <1>2. \A i \in 1..Len(Tail(list)) : i + 1 \in 1..Len(list) /\ Tail(list)[i] = list[i + 1]
    BY <1>1
  <1>3. 1 \in 1..Len(list)
    BY <1>1
  <1>4. Ordered(list) => Ordered(Tail(list))
    BY <1>1, <1>2 DEF Ordered
  <1>5. Future(list) => Future(Tail(list)) /\ Head(list).left > 0
    BY <1>1, <1>2, <1>3 DEF Future
  <1>6. ASSUME OneTimer(list) PROVE OneTimer(Tail(list))
    <2> SUFFICES ASSUME NEW i \in 1..Len(Tail(list)), NEW j \in 1..Len(Tail(list)),
                        Tail(list)[i].type = "TimerInt", Tail(list)[j].type = "TimerInt"
                 PROVE  i = j
      BY DEF OneTimer
    <2>1. i + 1 = j + 1
      BY <1>2, <1>6 DEF OneTimer
    <2>2. QED BY <1>1, <2>1
  <1>7. ASSUME OneTimer(list), Head(list).type = "TimerInt", HasTimer(Tail(list))
        PROVE  FALSE
    <2>1. PICK i \in 1..Len(Tail(list)) : Tail(list)[i].type = "TimerInt"
      BY <1>7 DEF HasTimer
    <2>2. i + 1 = 1
      BY <1>1, <1>2, <1>3, <1>7, <2>1 DEF OneTimer
    <2>3. QED BY <1>1, <2>2
  <1>8. HasTimer(list) <=> HasTimer(Tail(list)) \/ Head(list).type = "TimerInt"
    <2>1. ASSUME HasTimer(list) PROVE HasTimer(Tail(list)) \/ Head(list).type = "TimerInt"
      <3>1. PICK i \in 1..Len(list) : list[i].type = "TimerInt"
        BY <2>1 DEF HasTimer
      <3>2. CASE i = 1
        BY <1>1, <3>1, <3>2
      <3>3. CASE i # 1
        <4>1. i - 1 \in 1..Len(Tail(list)) /\ Tail(list)[i - 1] = list[i]
          BY <1>1, <3>3
        <4>2. QED BY <3>1, <4>1 DEF HasTimer
      <3>4. QED BY <3>2, <3>3
    <2>2. HasTimer(Tail(list)) => HasTimer(list)
      BY <1>2 DEF HasTimer
    <2>3. Head(list).type = "TimerInt" => HasTimer(list)
      BY <1>1, <1>3 DEF HasTimer
    <2>4. QED BY <2>1, <2>2, <2>3
  <1>9. QED BY <1>1, <1>4, <1>5, <1>6, <1>7, <1>8

(* Time goes on for all of them alike.                                     *)
LEMMA AdvanceKeeps ==
  ASSUME NEW list \in Seq(PendingInterrupt), NEW ticks \in Int
  PROVE  /\ Advance(list, ticks) \in Seq(PendingInterrupt)
         /\ Ordered(list) => Ordered(Advance(list, ticks))
         /\ OneTimer(list) => OneTimer(Advance(list, ticks))
         /\ HasTimer(Advance(list, ticks)) <=> HasTimer(list)
  <1> DEFINE new == Advance(list, ticks)
  <1>1. Len(list) \in Nat /\ \A i \in 1..Len(list) : list[i] \in PendingInterrupt
    OBVIOUS
  <1>2. \A i \in 1..Len(list) : /\ list[i].left \in Int /\ list[i].type \in IntType
                                /\ [list[i] EXCEPT !.left = @ - ticks] \in PendingInterrupt
    BY <1>1 DEF PendingInterrupt
  <1>3. /\ new \in Seq(PendingInterrupt) /\ Len(new) = Len(list)
        /\ \A i \in 1..Len(list) : new[i] = [list[i] EXCEPT !.left = @ - ticks]
    BY <1>1, <1>2 DEF Advance
  <1>4. \A i \in 1..Len(list) : /\ new[i].left = list[i].left - ticks
                                /\ new[i].type = list[i].type
    BY <1>1, <1>3 DEF PendingInterrupt
  <1> HIDE DEF new
  <1>5. Ordered(list) => Ordered(new)
    <2> SUFFICES ASSUME Ordered(list), NEW i \in 1..Len(list), NEW j \in 1..Len(list),
                        i <= j
                 PROVE  new[i].left <= new[j].left
      BY <1>3 DEF Ordered
    <2>1. list[i].left <= list[j].left
      BY DEF Ordered
    <2>2. /\ list[i].left \in Int /\ list[j].left \in Int
          /\ new[i].left = list[i].left - ticks /\ new[j].left = list[j].left - ticks
      BY <1>2, <1>4
    <2>3. QED BY <2>1, <2>2
  <1>6. (OneTimer(list) => OneTimer(new)) /\ (HasTimer(new) <=> HasTimer(list))
    BY <1>3, <1>4 DEF OneTimer, HasTimer
  <1>7. QED BY <1>3, <1>5, <1>6 DEF new

(* What CheckIfDue has taken off and puts back changes nothing.            *)
LEMMA PutBackKeeps ==
  ASSUME NEW list \in Seq(PendingInterrupt)
  PROVE  /\ PutBack(list) \in Seq(PendingInterrupt)
         /\ Ordered(list) => Ordered(PutBack(list))
         /\ Future(list) => Future(PutBack(list))
         /\ OneTimer(list) => OneTimer(PutBack(list))
         /\ HasTimer(PutBack(list)) <=> HasTimer(list)
  <1>1. CASE list = <<>>
    BY <1>1 DEF PutBack
  <1>2. CASE list # <<>>
    <2>1. PutBack(list) = SortedInsert(Tail(list), Head(list))
      BY <1>2 DEF PutBack
    <2>2. Head(list) \in PendingInterrupt /\ Tail(list) \in Seq(PendingInterrupt)
      BY <1>2, TailKeeps
    <2> DEFINE head == Head(list)
               tail == Tail(list)
    <2>3. /\ Ordered(list) => Ordered(tail)
          /\ Future(list) => Future(tail) /\ head.left > 0
          /\ OneTimer(list) => OneTimer(tail)
          /\ OneTimer(list) => ~(HasTimer(tail) /\ head.type = "TimerInt")
          /\ HasTimer(list) <=> HasTimer(tail) \/ head.type = "TimerInt"
      BY <1>2, TailKeeps
    <2>4. /\ SortedInsert(tail, head) \in Seq(PendingInterrupt)
          /\ Ordered(tail) => Ordered(SortedInsert(tail, head))
          /\ Future(tail) /\ head.left > 0 => Future(SortedInsert(tail, head))
          /\ HasTimer(SortedInsert(tail, head)) <=> HasTimer(tail) \/ head.type = "TimerInt"
          /\ OneTimer(tail) /\ ~(HasTimer(tail) /\ head.type = "TimerInt")
               => OneTimer(SortedInsert(tail, head))
      BY <2>2, InsertKeeps
    <2> HIDE DEF head, tail
    <2>5. PutBack(list) = SortedInsert(tail, head)
      BY <2>1 DEF head, tail
    <2>6. QED BY <2>3, <2>4, <2>5
  <1>3. QED BY <1>1, <1>2

-----------------------------------------------------------------------------
(***************************************************************************)
(* What makes NoneOverdue inductive: the list is sorted, so that an        *)
(* interrupt that is due is never hidden behind one that is not.           *)
(***************************************************************************)
PendingInv ==
  /\ pending \in Seq(PendingInterrupt)
  /\ Ordered(pending)
  /\ OneTimer(pending)

(* The list as a step leaves it: sound, with the timer it had.             *)
PendingKept ==
  PendingInv' /\ (HasTimer(pending') <=> HasTimer(pending))

(* Timer and devices schedule interrupts that lie in the future.           *)
LEMMA DelayTypes ==
  /\ \A d \in TimerDelay : d \in Int /\ d > 0
  /\ \A d \in Latency : d \in Int /\ d > 0
  /\ \A d \in TimerDelay : [type |-> "TimerInt", left |-> d] \in PendingInterrupt
  /\ \A d \in Latency : [type |-> "DeviceInt", left |-> d] \in PendingInterrupt
  BY InterruptAssumption DEF TimerDelay, PendingInterrupt, IntType

(* A handler schedules at most one interrupt, the timer's the next timer.  *)
LEMMA HandlerKeeps ==
  ASSUME NEW list \in Seq(PendingInterrupt), Ordered(list), OneTimer(list),
         NEW type \in IntType, ~(type = "TimerInt" /\ HasTimer(list)),
         Handler(type, list)
  PROVE  /\ PendingInv'
         /\ HasTimer(pending') <=> HasTimer(list) \/ type = "TimerInt"
  <1>1. CASE type = "TimerInt"
    <2>1. PICK d \in TimerDelay :
                 pending' = SortedInsert(list, [type |-> "TimerInt", left |-> d])
      BY <1>1 DEF Handler, TimerExpired, Schedule
    <2>2. [type |-> "TimerInt", left |-> d] \in PendingInterrupt
      BY DelayTypes
    <2>3. QED BY <1>1, <2>1, <2>2, InsertKeeps DEF PendingInv
  <1>2. CASE type = "DeviceInt"
    <2>1. CASE pending' = list
      BY <1>2, <2>1 DEF PendingInv
    <2>2. ASSUME NEW d \in Latency,
                 pending' = SortedInsert(list, [type |-> "DeviceInt", left |-> d])
          PROVE  /\ PendingInv'
                 /\ HasTimer(pending') <=> HasTimer(list) \/ type = "TimerInt"
      <3>1. [type |-> "DeviceInt", left |-> d] \in PendingInterrupt
        BY DelayTypes
      <3>2. QED BY <1>2, <2>2, <3>1, InsertKeeps DEF PendingInv
    <2>3. QED BY <1>2, <2>1, <2>2 DEF Handler, DeviceDone, Schedule
  <1>3. QED BY <1>1, <1>2 DEF IntType

(* Time goes on in BeginTick by the cost of an instruction.                *)
LEMMA BeginTickKeeps ==
  ASSUME PendingInv, NEW st, BeginTick(st)
  PROVE  PendingKept
  <1>1. (IF st = "SystemMode" THEN SystemTick ELSE UserTick) \in Int
    BY InterruptAssumption
  <1>2. QED BY <1>1, AdvanceKeeps DEF PendingInv, PendingKept, BeginTick

(* The first of several interrupts in a sorted list is the earliest.       *)
LEMMA HeadEarliest ==
  ASSUME PendingInv, ~ Due
  PROVE  Future(pending)
  <1>1. /\ Len(pending) \in Nat
        /\ \A i \in 1..Len(pending) : pending[i].left \in Int
    BY PendingEntries DEF PendingInv
  <1>2. pending # <<>> => 1 \in 1..Len(pending) /\ Head(pending) = pending[1]
    BY DEF PendingInv
  <1>3. pending = <<>> => Len(pending) = 0
    OBVIOUS
  <1>4. QED BY <1>1, <1>2, <1>3 DEF Future, Due, PendingInv, Ordered

(* The machine starts with the timer pending, or with nothing.             *)
LEMMA PendingInit == Init => PendingInv /\ NoneOverdue
  <1> SUFFICES ASSUME Init PROVE PendingInv /\ NoneOverdue
    OBVIOUS
  <1>1. CASE pending = <<>>
    BY <1>1 DEF PendingInv, NoneOverdue, Ordered, OneTimer
  <1>2. ASSUME NEW d \in TimerDelay, pending = <<[type |-> "TimerInt", left |-> d]>>
        PROVE  PendingInv /\ NoneOverdue
    <2>1. [type |-> "TimerInt", left |-> d] \in PendingInterrupt /\ d \in Int /\ d > 0
      BY DelayTypes
    <2>2. /\ pending \in Seq(PendingInterrupt) /\ Len(pending) = 1
          /\ pending[1] = [type |-> "TimerInt", left |-> d]
      BY <1>2, <2>1
    <2>3. QED BY <2>1, <2>2 DEF PendingInv, NoneOverdue, Ordered, OneTimer
  <1>3. QED BY <1>1, <1>2 DEF Init

(***************************************************************************)
(* Every step keeps the list sorted and the timer in it, and whoever       *)
(* enables interrupts first fires what is due.                             *)
(***************************************************************************)
LEMMA PendingStep ==
  PendingInv /\ NoneOverdue /\ [Next]_vars => PendingKept /\ NoneOverdue'
  <1> SUFFICES ASSUME PendingInv, NoneOverdue, [Next]_vars
               PROVE  PendingKept /\ NoneOverdue'
    OBVIOUS
  <1> USE DEF threadVars
  <1>1. ASSUME pending' = pending, phase' = "on" => phase = "on"
        PROVE  PendingKept /\ NoneOverdue'
    BY <1>1 DEF PendingKept, PendingInv, NoneOverdue
  <1>2. ASSUME pending # <<>>, Handler(Head(pending).type, Tail(pending))
        PROVE  PendingKept
    <2>1. Head(pending).type \in IntType
      BY <1>2, TailKeeps DEF PendingInv, PendingInterrupt
    <2>2. QED BY <1>2, <2>1, TailKeeps, HandlerKeeps DEF PendingInv, PendingKept
  <1>3. CASE TickFire
    BY <1>2, <1>3 DEF TickFire, Due, NoneOverdue
  <1>4. CASE TickReturn
    <2>1. Future(pending) /\ pending' = PutBack(pending)
      BY <1>4, HeadEarliest DEF TickReturn
    <2>2. PendingKept /\ Future(pending')
      BY <2>1, PutBackKeeps DEF PendingInv, PendingKept
    <2>3. QED BY <2>2 DEF Future, NoneOverdue
  <1>5. CASE TickYield
    <2>1. phase' = "off" /\ pending' = PutBack(pending)
      BY <1>5 DEF TickYield
    <2>2. QED BY <2>1, PutBackKeeps DEF PendingInv, PendingKept, NoneOverdue
  <1>6. CASE EnterUser \/ Syscall
    BY <1>1, <1>6 DEF EnterUser, Syscall, On
  <1>7. CASE UserInstruction \/ SyscallReturn \/ Enable
    BY <1>7, BeginTickKeeps DEF UserInstruction, SyscallReturn, Enable, BeginTick, NoneOverdue
  <1>8. CASE Disable \/ Yield \/ Sleep \/ Halt
    BY <1>1, <1>8 DEF Disable, Yield, Sleep, Halt
  <1>9. CASE \E t \in Thread : Fork(t) \/ Wake(t)
    BY <1>1, <1>9 DEF Fork, Wake
  <1>10. CASE Request
    <2>1. PICK d \in Latency :
                 pending' = SortedInsert(pending, [type |-> "DeviceInt", left |-> d])
      BY <1>10 DEF Request, Schedule
    <2>2. /\ [type |-> "DeviceInt", left |-> d] \in PendingInterrupt
          /\ d > 0 /\ phase' = phase
      BY <1>10, DelayTypes DEF Request
    <2>3. PendingKept /\ (Future(pending) => Future(pending'))
      BY <2>1, <2>2, InsertKeeps DEF PendingInv, PendingKept
    <2>4. QED BY <2>2, <2>3 DEF Future, NoneOverdue
  <1>11. CASE IdleFire
    <2> DEFINE next == Head(pending)
               list == IF next.left > 0 THEN Advance(Tail(pending), next.left)
                       ELSE Tail(pending)
    <2>1. pending # <<>> /\ Handler(next.type, list) /\ phase' = "idleLoop"
      BY <1>11 DEF IdleFire
    <2>2. /\ next \in PendingInterrupt /\ Tail(pending) \in Seq(PendingInterrupt)
          /\ Ordered(Tail(pending)) /\ OneTimer(Tail(pending))
          /\ ~(next.type = "TimerInt" /\ HasTimer(Tail(pending)))
          /\ HasTimer(pending) <=> HasTimer(Tail(pending)) \/ next.type = "TimerInt"
      BY <2>1, TailKeeps DEF PendingInv
    <2>3. next.left \in Int /\ next.type \in IntType
      BY <2>2 DEF PendingInterrupt
    <2>4. /\ list \in Seq(PendingInterrupt) /\ Ordered(list) /\ OneTimer(list)
          /\ HasTimer(list) <=> HasTimer(Tail(pending))
      BY <2>2, <2>3, AdvanceKeeps
    <2> HIDE DEF list, next
    <2>5. QED BY <2>1, <2>2, <2>3, <2>4, HandlerKeeps DEF PendingKept, NoneOverdue
  <1>12. CASE IdleLoopFire
    BY <1>2, <1>12 DEF IdleLoopFire, Due, NoneOverdue
  <1>13. CASE IdleReturn
    <2>1. phase' \in {"off", "idle"} /\ pending' = PutBack(pending)
      BY <1>13 DEF IdleReturn
    <2>2. QED BY <2>1, PutBackKeeps DEF PendingInv, PendingKept, NoneOverdue
  <1>14. CASE IdleHalt
    <2>1. phase' = "halted"
      BY <1>14 DEF IdleHalt
    <2>2. CASE pending' = pending
      BY <1>1, <2>1, <2>2
    <2>3. CASE OnlyTimer /\ pending' = Advance(pending, Head(pending).left)
      <3>1. pending # <<>>
        BY <2>3 DEF OnlyTimer, PendingInv
      <3>2. Head(pending).left \in Int
        BY <3>1, TailKeeps DEF PendingInv, PendingInterrupt
      <3>3. QED BY <2>1, <2>3, <3>2, AdvanceKeeps DEF PendingInv, PendingKept, NoneOverdue
    <2>4. QED BY <1>14, <2>2, <2>3 DEF IdleHalt
  <1>15. CASE Stopped \/ UNCHANGED vars
    BY <1>1, <1>15 DEF Stopped, vars
  <1>16. QED
    BY <1>3, <1>4, <1>5, <1>6, <1>7, <1>8, <1>9, <1>10, <1>11, <1>12, <1>13, <1>14,
       <1>15 DEF Next

(***************************************************************************)
(* A thread that executes with interrupts enabled has nothing overdue.     *)
(***************************************************************************)
THEOREM InterruptNoneOverdue == Spec => []NoneOverdue
  <1>1. PendingKept => PendingInv'
    BY DEF PendingKept
  <1>2. PendingInv /\ NoneOverdue /\ [Next]_vars => (PendingInv /\ NoneOverdue)'
    BY <1>1, PendingStep
  <1>3. QED BY <1>2, PendingInit, PTL DEF Spec

-----------------------------------------------------------------------------
(* The timer.                                                              *)

(* Of a list with at most one timer, whether there is one says how many.   *)
LEMMA CountTimers ==
  ASSUME PendingInv
  PROVE  Cardinality(Timers) = IF HasTimer(pending) THEN 1 ELSE 0
  <1>1. CASE HasTimer(pending)
    <2>1. PICK i \in 1..Len(pending) : pending[i].type = "TimerInt"
      BY <1>1 DEF HasTimer
    <2>2. Timers = {i}
      BY <2>1 DEF Timers, PendingInv, OneTimer
    <2>3. QED BY <1>1, <2>2, FS_Singleton
  <1>2. CASE ~ HasTimer(pending)
    <2>1. Timers = {}
      BY <1>2 DEF Timers, HasTimer
    <2>2. QED BY <1>2, <2>1, FS_EmptySet
  <1>3. QED BY <1>1, <1>2

(***************************************************************************)
(* The timer is never lost or doubled: not by firing it, by Idle putting   *)
(* it back or by the end of the simulation.  A machine without -rs never   *)
(* gets one.                                                               *)
(***************************************************************************)
THEOREM InterruptTimerKept == Spec => TimerKept
  <1> DEFINE OnlyOne == Cardinality(Timers) <= 1
             Same == Cardinality(Timers') = Cardinality(Timers)
             Kept == PendingInv /\ NoneOverdue
  <1>1. Init => Kept
    BY PendingInit
  <1>2. Kept /\ [Next]_vars => Kept'
    BY PendingStep DEF PendingKept
  <1>3. Kept => OnlyOne
    BY CountTimers
  <1>4. Kept /\ Kept' /\ [Next]_vars => [Same]_vars
    <2> SUFFICES ASSUME Kept, Kept', [Next]_vars PROVE Same
      OBVIOUS
    <2>1. HasTimer(pending') <=> HasTimer(pending)
      BY PendingStep DEF PendingKept
    <2>2. Cardinality(Timers) = IF HasTimer(pending) THEN 1 ELSE 0
      BY CountTimers
    <2>3. (Cardinality(Timers) = IF HasTimer(pending) THEN 1 ELSE 0)'
      BY CountTimers, PTL
    <2>4. QED BY <2>1, <2>2, <2>3
  <1>5. QED BY <1>1, <1>2, <1>3, <1>4, PTL DEF Spec, TimerKept
=============================================================================
