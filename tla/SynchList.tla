------------------------------ MODULE SynchList ------------------------------
(***************************************************************************)
(* The synchronized list of threads/synchlist.h, run on the Lock and the   *)
(* Condition of module Monitor, which it composes: every step below that   *)
(* is not a plain list operation is one of the monitor's.                  *)
(*                                                                         *)
(* Items are numbered in the order in which they are appended.             *)
(***************************************************************************)
EXTENDS Monitor, FiniteSets

CONSTANTS
  Producer,   \* the threads that call Append
  Applier,    \* the threads that call Apply
  Consumer,   \* the threads that call Remove
  MaxItems    \* bound: calls of Append

ASSUME SynchListAssumption ==
  /\ Producer \cup Applier \cup Consumer = Thread
  /\ MaxItems \in Nat

VARIABLES
  list,    \* SynchList::list
  stage,   \* what each thread does next in its method, "none" outside one
  item,    \* the local variable of Remove, per thread
  put,     \* history: items appended so far
  taken    \* history: items returned by Remove, in the order of removal

listVars == <<list, stage, item, put, taken>>
allVars == <<vars, listVars>>

Stage == {"none", "append", "signal", "remove", "unlink", "apply", "leave"}

ListTypeOK ==
  /\ TypeOK
  /\ list \in Seq(1..MaxItems)
  /\ stage \in [Thread -> Stage]
  /\ item \in [Thread -> 0..MaxItems]
  /\ put \in 0..MaxItems
  /\ taken \in Seq(1..MaxItems)

ListInit ==
  /\ Init
  /\ list = <<>>
  /\ stage = [t \in Thread |-> "none"]
  /\ item = [t \in Thread |-> 0]
  /\ put = 0
  /\ taken = <<>>

Goto(t, s) == stage' = [stage EXCEPT ![t] = s]

-----------------------------------------------------------------------------
\* lock->Acquire() at the head of each method.
Enter(t) ==
  /\ stage[t] = "none"
  /\ Acquire(t)
  /\ \/ /\ t \in Producer
        /\ put + Cardinality({u \in Thread : stage[u] = "append"}) < MaxItems
        /\ Goto(t, "append")
     \/ t \in Applier /\ Goto(t, "apply")
     \/ t \in Consumer /\ Goto(t, "remove")
  /\ UNCHANGED <<list, item, put, taken>>

\* The scheduler dispatches a thread that was readied inside Acquire or Wait.
Resumed(t) ==
  /\ AcquireResume(t) \/ WaitResume(t)
  /\ UNCHANGED listVars

\* SynchList::Append: list->Append(item).
AppendItem(t) ==
  /\ stage[t] = "append" /\ Holds(t)
  /\ put' = put + 1
  /\ list' = Append(list, put')
  /\ Goto(t, "signal")
  /\ UNCHANGED <<vars, item, taken>>

\* Mutant: Append forgets to signal.
SignalAppendedNever(t) ==
  /\ stage[t] = "signal" /\ Holds(t)
  /\ Goto(t, "leave")
  /\ UNCHANGED <<vars, list, item, put, taken>>

\* SynchList::Append: listEmpty->Signal(lock).
SignalAppended(t) ==
  /\ stage[t] = "signal"
  /\ Signal(t)
  /\ Goto(t, "leave")
  /\ UNCHANGED <<list, item, put, taken>>

\* SynchList::Remove: the list is empty, listEmpty->Wait(lock).
AwaitItem(t) ==
  /\ stage[t] = "remove" /\ Holds(t)
  /\ list = <<>>
  /\ Wait(t)
  /\ UNCHANGED listVars

\* Mutant: the first item is looked up before the lock is held.
ReadFirstUnlocked(t) ==
  /\ stage[t] = "remove"
  /\ list # <<>>
  /\ item' = [item EXCEPT ![t] = Head(list)]
  /\ Goto(t, "unlink")
  /\ UNCHANGED <<vars, list, put, taken>>

\* SynchList::Remove, the first half of list->Remove(): find the first item.
ReadFirst(t) ==
  /\ stage[t] = "remove" /\ Holds(t)
  /\ list # <<>>
  /\ item' = [item EXCEPT ![t] = Head(list)]
  /\ Goto(t, "unlink")
  /\ UNCHANGED <<vars, list, put, taken>>

\* The second half: unlink it.  Interrupts are enabled between the two.
UnlinkFirst(t) ==
  /\ stage[t] = "unlink" /\ Holds(t)
  /\ list' = SubSeq(list, 2, Len(list))
  /\ taken' = Append(taken, item[t])
  /\ Goto(t, "leave")
  /\ UNCHANGED <<vars, put, item>>

\* SynchList::Apply: list->Apply(func) leaves the list as it is.
ApplyToItems(t) ==
  /\ stage[t] = "apply" /\ Holds(t)
  /\ Goto(t, "leave")
  /\ UNCHANGED <<vars, list, item, put, taken>>

\* lock->Release() at the end of each method.
Leave(t) ==
  /\ stage[t] = "leave"
  /\ Release(t)
  /\ Goto(t, "none")
  /\ UNCHANGED <<list, item, put, taken>>

\* What a thread inside a method does next.
Continue(t) ==
  \/ Resumed(t) \/ AppendItem(t) \/ SignalAppended(t)
  \/ AwaitItem(t) \/ ReadFirst(t) \/ UnlinkFirst(t) \/ ApplyToItems(t) \/ Leave(t)

ListNext == \E t \in Thread : Enter(t) \/ Continue(t)

ListSpec == ListInit /\ [][ListNext]_allVars

\* A thread that is not asleep is eventually dispatched and goes on.
ListFairness == \A t \in Thread : WF_allVars(Continue(t))

FairListSpec == ListSpec /\ ListFairness

-----------------------------------------------------------------------------
(* Properties.                                                             *)

\* Items leave the list exactly once and in the order in which they entered
\* it, whichever threads append and remove them concurrently.
FirstInFirstOut == taken \o list = [i \in 1..put |-> i]

\* An item appended while every consumer sleeps in Remove gets one of them
\* going: the Signal of Append is not lost between the lock and the condition.
SomeConsumerWakes ==
  (list # <<>> /\ \A c \in Consumer : pc[c] = "waiting")
    ~> (list = <<>> \/ \E c \in Consumer : pc[c] # "waiting")
=============================================================================
