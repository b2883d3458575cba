--------------------------- MODULE SyscallsProofs ---------------------------
(***************************************************************************)
(* Proofs about the system calls of module Syscalls: the tables that turn  *)
(* ids into objects and descriptors are sound, whoever sleeps in a call is *)
(* in one queue, and nobody sleeps in front of an object it could take.    *)
(* They hold for every number of threads, objects, table entries and       *)
(* descriptors, and for programs that use all the calls together.          *)
(***************************************************************************)
EXTENDS Syscalls, QueueLemmas, FiniteSetTheorems

-----------------------------------------------------------------------------
(***************************************************************************)
(* The calls in progress, over any objects obs, calls in progress calls,   *)
(* sleepers sl and running threads run: a call is made of a few steps of   *)
(* which each leaves these sound, and interrupts are enabled only after    *)
(* the last.                                                               *)
(***************************************************************************)
Objects == Object \cup {console}

(* The threads that have been readied to take o and have not done so.      *)
Heading(o, calls, sl, run) == {t \in run \ sl : calls[t] # <<>> /\ calls[t][1] = o}

(* A pointer that is kept in a call leads to a living object, or is known  *)
(* to be freed.                                                            *)
Tracked(p, obs) == p \in Freed \/ obs[p] # NULL

(* A call takes an object once.                                            *)
OnceEach(todo) ==
  \A i, j \in 1..Len(todo) : todo[i] = todo[j] /\ todo[i] \notin Freed => i = j

(* A call takes at most a condition and then its lock.                     *)
CallsSound(obs, calls, sl, run) ==
  /\ obs \in [Objects -> SyncObject \cup {NULL}]
  /\ calls \in [Thread -> Seq(Pointer)]
  /\ sl \subseteq run /\ run \subseteq Thread
  /\ \A t \in Thread : /\ Len(calls[t]) <= 2
                       /\ \A i \in 1..Len(calls[t]) : Tracked(calls[t][i], obs)
                       /\ OnceEach(calls[t])
  /\ \A t \in sl : calls[t] # <<>>

(* A queue holds the threads asleep in front of its object, each once.     *)
QueuesSound(obs, calls, sl) ==
  \A o \in Objects : obs[o] # NULL =>
    /\ Distinct(obs[o].queue)
    /\ \A t \in Thread :
         Listed(obs[o].queue, t) <=> (t \in sl /\ calls[t] # <<>> /\ calls[t][1] = o)

(* Where threads sleep, a readied thread comes for each unit of the count, *)
(* which is not negative: a semaphore blocks nobody before it reaches 0.   *)
CountsCovered(obs, calls, sl, run) ==
  \A o \in Objects : obs[o] # NULL /\ obs[o].queue # <<>> =>
    0 <= obs[o].count /\ obs[o].count <= Cardinality(Heading(o, calls, sl, run))

InCalls(obs, calls, sl, run) ==
  /\ CallsSound(obs, calls, sl, run)
  /\ QueuesSound(obs, calls, sl)
  /\ CountsCovered(obs, calls, sl, run)

(* The objects that are alive and their kinds.                             *)
SameObjects(obs, new) ==
  \A o \in Objects : /\ obs[o] = NULL <=> new[o] = NULL
                     /\ obs[o] # NULL => new[o].kind = obs[o].kind

-----------------------------------------------------------------------------
(* The tables.                                                             *)

HostState == {"closed", "console", "disk", "socket", "bound", "listening", "stream"}

TablesSound ==
  /\ table \in [Kind -> [Id -> Object \cup {NULL}]]
  /\ fileTable \in [Id -> Fd \cup {NULL}]
  /\ host \in [Fd -> [state : HostState, id : Int]]
  /\ HandlesSound

(* The console's mutex stays alive.                                        *)
DoingSound ==
  /\ doing \in [Thread -> Doing \cup {NULL}]
  /\ object[console] # NULL
  /\ \A t \in Thread : doing[t] # NULL =>
       Tracked(doing[t][2], object) /\ Tracked(doing[t][3], object)

SysInv ==
  /\ InCalls(object, call, asleep, running)
  /\ TablesSound
  /\ DoingSound

-----------------------------------------------------------------------------
(* The steps a call is made of.                                            *)

(* V, Release, Unlock and Signal on o, which leave the count at n.         *)
Woken(obs, o, n) ==
  [obs EXCEPT ![o].count = n, ![o].queue = IF @ = <<>> THEN @ ELSE Tail(@)]

First(obs, o) == IF obs[o].queue = <<>> THEN {} ELSE {Head(obs[o].queue)}

(* Thread t takes o.                                                       *)
Took(obs, o, t) ==
  [obs EXCEPT ![o].count = @ - 1,
              ![o].owner = IF obs[o].kind = "lock" THEN t ELSE @]

(* Thread t goes to sleep in front of o.                                   *)
Queued(obs, o, t) == [obs EXCEPT ![o].queue = Append(@, t)]

(* A pointer leads to an object or to one that was freed.                  *)
LEMMA PointerKinds ==
  ASSUME NEW p \in Pointer
  PROVE  p \in Freed \/ p \in Objects
  BY DEF Pointer, Objects

(* Freed pointers are negative, objects are not.                           *)
LEMMA FreedApart == \A p \in Objects : p \notin Freed /\ p \in Pointer
  BY DEF Objects, Object, console, Freed, FreedSem, FreedLock, FreedCond, Pointer

(* What a pointer leads to stays where no object is deleted.               *)
LEMMA TrackedKept ==
  ASSUME NEW obs, NEW new, \A p \in Objects : obs[p] # NULL => new[p] # NULL,
         NEW p \in Pointer, Tracked(p, obs)
  PROVE  Tracked(p, new)
  BY PointerKinds DEF Tracked

(* The fields of an object.                                                *)
LEMMA ObjectFields ==
  ASSUME NEW x \in SyncObject
  PROVE  /\ x.kind \in Kind \cup {"mutex"} /\ x.count \in Int
         /\ x.queue \in Seq(Thread) /\ x.owner \in Thread \cup {NULL}
         /\ x # NULL
  BY NullAssumption DEF SyncObject

(* Waking the first of the queue of o changes o only, and of o the count   *)
(* and the queue.                                                          *)
LEMMA WokenFields ==
  ASSUME NEW obs \in [Objects -> SyncObject \cup {NULL}], NEW o \in Objects,
         obs[o] # NULL, NEW n \in Int
  PROVE  /\ Woken(obs, o, n) \in [Objects -> SyncObject \cup {NULL}]
         /\ \A p \in Objects : p # o => Woken(obs, o, n)[p] = obs[p]
         /\ Woken(obs, o, n)[o] \in SyncObject
         /\ Woken(obs, o, n)[o].kind = obs[o].kind
         /\ Woken(obs, o, n)[o].count = n
         /\ Woken(obs, o, n)[o].queue
              = IF obs[o].queue = <<>> THEN obs[o].queue ELSE Tail(obs[o].queue)
  <1>1. obs[o] \in SyncObject
    OBVIOUS
  <1> DEFINE q == IF obs[o].queue = <<>> THEN obs[o].queue ELSE Tail(obs[o].queue)
  <1>2. q \in Seq(Thread)
    <2>1. obs[o].queue \in Seq(Thread)
      BY <1>1, ObjectFields
    <2>2. QED BY <2>1
  <1>3. Woken(obs, o, n) = [obs EXCEPT ![o] = [obs[o] EXCEPT !.count = n, !.queue = q]]
    BY DEF Woken
  <1> HIDE DEF q
  <1>4. /\ [obs[o] EXCEPT !.count = n, !.queue = q] \in SyncObject
        /\ [obs[o] EXCEPT !.count = n, !.queue = q].kind = obs[o].kind
        /\ [obs[o] EXCEPT !.count = n, !.queue = q].count = n
        /\ [obs[o] EXCEPT !.count = n, !.queue = q].queue = q
    BY <1>1, <1>2 DEF SyncObject
  <1>5. QED BY <1>3, <1>4 DEF q

(* Taking o changes o only, and of o the count and the owner.              *)
LEMMA TookFields ==
  ASSUME NEW obs \in [Objects -> SyncObject \cup {NULL}], NEW o \in Objects,
         obs[o] # NULL, NEW t \in Thread
  PROVE  /\ Took(obs, o, t) \in [Objects -> SyncObject \cup {NULL}]
         /\ \A p \in Objects : p # o => Took(obs, o, t)[p] = obs[p]
         /\ Took(obs, o, t)[o] \in SyncObject
         /\ Took(obs, o, t)[o].kind = obs[o].kind
         /\ Took(obs, o, t)[o].count = obs[o].count - 1
         /\ Took(obs, o, t)[o].queue = obs[o].queue
  <1>1. obs[o] \in SyncObject
    OBVIOUS
  <1>2. obs[o].count \in Int /\ obs[o].owner \in Thread \cup {NULL}
    BY <1>1, ObjectFields
  <1> DEFINE w == IF obs[o].kind = "lock" THEN t ELSE obs[o].owner
             n == obs[o].count - 1
  <1>3. w \in Thread \cup {NULL}
    BY <1>2
  <1>4. n \in Int
    BY <1>2
  <1>5. Took(obs, o, t) = [obs EXCEPT ![o] = [obs[o] EXCEPT !.count = n, !.owner = w]]
    BY DEF Took
  <1> HIDE DEF w, n
  <1>6. /\ [obs[o] EXCEPT !.count = n, !.owner = w] \in SyncObject
        /\ [obs[o] EXCEPT !.count = n, !.owner = w].kind = obs[o].kind
        /\ [obs[o] EXCEPT !.count = n, !.owner = w].count = n
        /\ [obs[o] EXCEPT !.count = n, !.owner = w].queue = obs[o].queue
    BY <1>1, <1>3, <1>4 DEF SyncObject
  <1>7. QED BY <1>5, <1>6 DEF n

(* Going to sleep in front of o changes o only, and of o the queue.        *)
LEMMA QueuedFields ==
  ASSUME NEW obs \in [Objects -> SyncObject \cup {NULL}], NEW o \in Objects,
         obs[o] # NULL, NEW t \in Thread
  PROVE  /\ Queued(obs, o, t) \in [Objects -> SyncObject \cup {NULL}]
         /\ \A p \in Objects : p # o => Queued(obs, o, t)[p] = obs[p]
         /\ Queued(obs, o, t)[o] \in SyncObject
         /\ Queued(obs, o, t)[o].kind = obs[o].kind
         /\ Queued(obs, o, t)[o].count = obs[o].count
         /\ Queued(obs, o, t)[o].queue = Append(obs[o].queue, t)
  <1>1. obs[o] \in SyncObject
    OBVIOUS
  <1> DEFINE q == Append(obs[o].queue, t)
  <1>2. q \in Seq(Thread)
    <2>1. obs[o].queue \in Seq(Thread)
      BY <1>1, ObjectFields
    <2>2. QED BY <2>1
  <1>3. Queued(obs, o, t) = [obs EXCEPT ![o] = [obs[o] EXCEPT !.queue = q]]
    BY DEF Queued
  <1> HIDE DEF q
  <1>4. /\ [obs[o] EXCEPT !.queue = q] \in SyncObject
        /\ [obs[o] EXCEPT !.queue = q].kind = obs[o].kind
        /\ [obs[o] EXCEPT !.queue = q].count = obs[o].count
        /\ [obs[o] EXCEPT !.queue = q].queue = q
    BY <1>1, <1>2 DEF SyncObject
  <1>5. QED BY <1>3, <1>4 DEF q

(* There are finitely many threads to count.                               *)
LEMMA HeadingFinite ==
  ASSUME NEW o, NEW calls, NEW sl, NEW run, run \subseteq Thread
  PROVE  /\ IsFiniteSet(Heading(o, calls, sl, run))
         /\ Cardinality(Heading(o, calls, sl, run)) \in Nat
  <1>1. Heading(o, calls, sl, run) \subseteq Thread
    BY DEF Heading
  <1>2. IsFiniteSet(Heading(o, calls, sl, run))
    BY <1>1, SyscallsAssumption, FS_Subset
  <1>3. QED BY <1>2, FS_CardinalityType

(* More threads heading for an object are not fewer in number.             *)
LEMMA HeadingGrows ==
  ASSUME NEW o, NEW calls, NEW new, NEW sl, NEW run, run \subseteq Thread,
         Heading(o, calls, sl, run) \subseteq Heading(o, new, sl, run)
  PROVE  Cardinality(Heading(o, calls, sl, run)) <= Cardinality(Heading(o, new, sl, run))
  BY HeadingFinite, FS_Subset

(***************************************************************************)
(* Giving an object readies the first sleeper, which is then heading for   *)
(* the unit that was given.                                                *)
(***************************************************************************)
LEMMA GiveKeeps ==
  ASSUME NEW obs, NEW calls, NEW sl, NEW run,
         InCalls(obs, calls, sl, run),
         NEW o \in Objects, obs[o] # NULL, NEW n \in Int, n = 1 \/ n = obs[o].count + 1
  PROVE  /\ InCalls(Woken(obs, o, n), calls, sl \ First(obs, o), run)
         /\ SameObjects(obs, Woken(obs, o, n))
  <1> DEFINE new == Woken(obs, o, n)
             up == First(obs, o)
  <1>1. obs \in [Objects -> SyncObject \cup {NULL}]
    BY DEF InCalls, CallsSound
  <1>2. obs[o] \in SyncObject /\ obs[o].queue \in Seq(Thread) /\ obs[o].count \in Int
    BY <1>1, ObjectFields
  <1>3. /\ new \in [Objects -> SyncObject \cup {NULL}]
        /\ \A p \in Objects : p # o => new[p] = obs[p]
        /\ new[o] # NULL
        /\ new[o].kind = obs[o].kind /\ new[o].count = n
        /\ new[o].queue = IF obs[o].queue = <<>> THEN obs[o].queue ELSE Tail(obs[o].queue)
    BY <1>1, WokenFields, ObjectFields
  <1> HIDE DEF new
  <1>4. SameObjects(obs, new)
    BY <1>3 DEF SameObjects
  <1>5. CallsSound(new, calls, sl \ up, run)
    <2>1. \A p \in Objects : obs[p] # NULL => new[p] # NULL
      BY <1>3
    <2>2. \A t \in Thread : \A i \in 1..Len(calls[t]) :
            calls[t][i] \in Pointer /\ Tracked(calls[t][i], obs)
      BY DEF InCalls, CallsSound
    <2>3. \A t \in Thread : \A i \in 1..Len(calls[t]) : Tracked(calls[t][i], new)
      BY <2>1, <2>2, TrackedKept
    <2>4. QED BY <1>3, <2>3 DEF InCalls, CallsSound
  <1>6. CASE obs[o].queue = <<>>
    <2>1. up = {} /\ sl \ up = sl /\ new[o].queue = obs[o].queue
      BY <1>3, <1>6 DEF First
    <2>2. QueuesSound(new, calls, sl)
      BY <1>3, <2>1 DEF InCalls, QueuesSound
    <2>3. CountsCovered(new, calls, sl, run)
      BY <1>3, <1>6, <2>1 DEF InCalls, CountsCovered
    <2>4. QED BY <1>4, <1>5, <2>1, <2>2, <2>3 DEF InCalls, new
  <1>7. CASE obs[o].queue # <<>>
    <2> DEFINE h == Head(obs[o].queue)
    <2>1. up = {h} /\ new[o].queue = Tail(obs[o].queue)
      BY <1>3, <1>7 DEF First
    <2>2. /\ h \in Thread /\ Listed(obs[o].queue, h)
          /\ Distinct(Tail(obs[o].queue))
          /\ \A u \in Thread : Listed(Tail(obs[o].queue), u) <=>
                                 (Listed(obs[o].queue, u) /\ u # h)
      BY <1>2, <1>7, RemoveListed DEF InCalls, QueuesSound
    <2>3. h \in sl /\ calls[h] # <<>> /\ calls[h][1] = o /\ h \in run
      BY <2>2 DEF InCalls, QueuesSound, CallsSound
    <2> HIDE DEF h
    <2>4. QueuesSound(new, calls, sl \ up)
      <3> SUFFICES ASSUME NEW p \in Objects, new[p] # NULL
                   PROVE  /\ Distinct(new[p].queue)
                          /\ \A t \in Thread : Listed(new[p].queue, t) <=>
                               (t \in sl \ up /\ calls[t] # <<>> /\ calls[t][1] = p)
        BY DEF QueuesSound
      <3>1. CASE p = o
        BY <2>1, <2>2, <3>1 DEF InCalls, QueuesSound
      <3>2. CASE p # o
        BY <1>3, <2>1, <2>3, <3>2 DEF InCalls, QueuesSound
      <3>3. QED BY <3>1, <3>2
    <2>5. CountsCovered(new, calls, sl \ up, run)
      <3> SUFFICES ASSUME NEW p \in Objects, new[p] # NULL, new[p].queue # <<>>
                   PROVE  0 <= new[p].count /\ new[p].count <= Cardinality(Heading(p, calls, sl \ up, run))
        BY DEF CountsCovered
      <3>1. CASE p # o
        <4>1. Heading(p, calls, sl \ up, run) = Heading(p, calls, sl, run)
          BY <2>1, <2>3, <3>1 DEF Heading
        <4>2. QED BY <1>3, <3>1, <4>1 DEF InCalls, CountsCovered
      <3>2. CASE p = o
        <4>1. /\ Heading(o, calls, sl \ up, run) = Heading(o, calls, sl, run) \cup {h}
              /\ h \notin Heading(o, calls, sl, run)
          BY <2>1, <2>3 DEF Heading
        <4>2. /\ IsFiniteSet(Heading(o, calls, sl, run))
              /\ Cardinality(Heading(o, calls, sl, run)) \in Nat
          BY HeadingFinite DEF InCalls, CallsSound
        <4>3. Cardinality(Heading(o, calls, sl \ up, run))
                = Cardinality(Heading(o, calls, sl, run)) + 1
          BY <4>1, <4>2, FS_AddElement
        <4>4. 0 <= obs[o].count /\ obs[o].count <= Cardinality(Heading(o, calls, sl, run))
          BY <1>7 DEF InCalls, CountsCovered
        <4>5. QED BY <1>2, <1>3, <3>2, <4>2, <4>3, <4>4
      <3>3. QED BY <3>1, <3>2
    <2>6. QED BY <1>4, <1>5, <2>4, <2>5 DEF InCalls, new
  <1>8. QED BY <1>6, <1>7

(* A thread outside of calls starts one.                                   *)
LEMMA EnterKeeps ==
  ASSUME NEW obs, NEW calls, NEW sl, NEW run,
         InCalls(obs, calls, sl, run),
         NEW t \in run \ sl, calls[t] = <<>>,
         NEW todo \in Seq(Pointer), Len(todo) <= 2, OnceEach(todo),
         \A i \in 1..Len(todo) : Tracked(todo[i], obs), todo # <<>>
  PROVE  InCalls(obs, [calls EXCEPT ![t] = todo], sl, run)
  <1> DEFINE new == [calls EXCEPT ![t] = todo]
  <1>1. /\ calls \in [Thread -> Seq(Pointer)] /\ t \in Thread
        /\ sl \subseteq run /\ run \subseteq Thread
    BY DEF InCalls, CallsSound
  <1>2. /\ new \in [Thread -> Seq(Pointer)] /\ new[t] = todo
        /\ \A u \in Thread : u # t => new[u] = calls[u]
    BY <1>1
  <1> HIDE DEF new
  <1>3. CallsSound(obs, new, sl, run)
    <2>1. ASSUME NEW u \in Thread
          PROVE  /\ Len(new[u]) <= 2
                 /\ \A i \in 1..Len(new[u]) : Tracked(new[u][i], obs)
                 /\ OnceEach(new[u])
      <3>1. CASE u = t
        BY <1>2, <3>1
      <3>2. CASE u # t
        BY <1>2, <3>2 DEF InCalls, CallsSound
      <3>3. QED BY <3>1, <3>2
    <2>2. \A u \in sl : new[u] # <<>>
      <3>1. \A u \in sl : u # t /\ u \in Thread
        BY <1>1
      <3>2. QED BY <1>2, <3>1 DEF InCalls, CallsSound
    <2>3. obs \in [Objects -> SyncObject \cup {NULL}]
      BY DEF InCalls, CallsSound
    <2>4. QED BY <1>1, <1>2, <2>1, <2>2, <2>3, Zenon DEF CallsSound
  <1>4. QueuesSound(obs, new, sl)
    <2> SUFFICES ASSUME NEW p \in Objects, obs[p] # NULL, NEW u \in Thread
                 PROVE  Listed(obs[p].queue, u) <=>
                          (u \in sl /\ new[u] # <<>> /\ new[u][1] = p)
      BY DEF InCalls, QueuesSound
    <2>1. CASE u = t
      BY <2>1 DEF InCalls, QueuesSound
    <2>2. CASE u # t
      BY <1>2, <2>2 DEF InCalls, QueuesSound
    <2>3. QED BY <2>1, <2>2
  <1>5. CountsCovered(obs, new, sl, run)
    <2> SUFFICES ASSUME NEW p \in Objects, obs[p] # NULL, obs[p].queue # <<>>
                 PROVE  0 <= obs[p].count /\ obs[p].count <= Cardinality(Heading(p, new, sl, run))
      BY DEF CountsCovered
    <2>1. 0 <= obs[p].count /\ obs[p].count <= Cardinality(Heading(p, calls, sl, run))
      BY DEF InCalls, CountsCovered
    <2>2. Heading(p, calls, sl, run) \subseteq Heading(p, new, sl, run)
      BY <1>1, <1>2 DEF Heading
    <2>3. Cardinality(Heading(p, calls, sl, run)) <= Cardinality(Heading(p, new, sl, run))
      BY <1>1, <2>2, HeadingGrows
    <2>4. /\ Cardinality(Heading(p, calls, sl, run)) \in Nat
          /\ Cardinality(Heading(p, new, sl, run)) \in Nat
          /\ obs[p].count \in Int
      BY <1>1, HeadingFinite, ObjectFields DEF InCalls, CallsSound
    <2>5. QED BY <2>1, <2>3, <2>4
  <1>6. QED BY <1>3, <1>4, <1>5 DEF InCalls, new

(* The rest of a call after its first object.                              *)
LEMMA RestOfCall ==
  ASSUME NEW todo \in Seq(Pointer), todo # <<>>, Len(todo) <= 2, OnceEach(todo),
         todo[1] \notin Freed
  PROVE  /\ todo[1] \in Objects /\ 1 \in 1..Len(todo)
         /\ Tail(todo) \in Seq(Pointer) /\ Len(Tail(todo)) <= 1
         /\ Len(Tail(todo)) = Len(todo) - 1
         /\ OnceEach(Tail(todo))
         /\ \A i \in 1..Len(Tail(todo)) : /\ i + 1 \in 1..Len(todo)
                                          /\ Tail(todo)[i] = todo[i + 1]
                                          /\ Tail(todo)[i] # todo[1]
         /\ Tail(todo) # <<>> => 1 \in 1..Len(Tail(todo))
  <1>1. /\ Len(todo) \in Nat \ {0} /\ todo[1] \in Pointer
        /\ Tail(todo) \in Seq(Pointer) /\ Len(Tail(todo)) = Len(todo) - 1
        /\ \A i \in 1..Len(todo) - 1 : Tail(todo)[i] = todo[i + 1]
    OBVIOUS
  <1>2. 1 \in 1..Len(todo) /\ Len(Tail(todo)) <= 1 /\ Len(Tail(todo)) \in Nat
    BY <1>1
  <1>7. Tail(todo) # <<>> => 1 \in 1..Len(Tail(todo))
    BY <1>1, <1>2, EmptySeq
  <1>3. \A i \in 1..Len(Tail(todo)) : i + 1 \in 1..Len(todo) /\ i + 1 # 1
    BY <1>1
  <1>4. \A i \in 1..Len(Tail(todo)) : /\ Tail(todo)[i] = todo[i + 1]
                                      /\ Tail(todo)[i] # todo[1]
    BY <1>1, <1>2, <1>3 DEF OnceEach
  <1>5. OnceEach(Tail(todo))
    BY <1>2 DEF OnceEach
  <1>8. todo[1] \in Objects
    BY <1>1, PointerKinds
  <1>6. QED BY <1>1, <1>2, <1>3, <1>4, <1>5, <1>7, <1>8

(***************************************************************************)
(* A thread takes the first object of its call: one unit less, and one     *)
(* thread less heading for it.                                             *)
(***************************************************************************)
LEMMA TakeKeeps ==
  ASSUME NEW obs, NEW calls, NEW sl, NEW run,
         InCalls(obs, calls, sl, run),
         NEW t \in run \ sl, calls[t] # <<>>, calls[t][1] \notin Freed,
         obs[calls[t][1]].count # 0
  PROVE  /\ InCalls(Took(obs, calls[t][1], t), [calls EXCEPT ![t] = Tail(@)], sl, run)
         /\ SameObjects(obs, Took(obs, calls[t][1], t))
  <1> DEFINE a == calls[t][1]
             new == Took(obs, a, t)
             rest == [calls EXCEPT ![t] = Tail(@)]
  <1>1. /\ calls \in [Thread -> Seq(Pointer)] /\ t \in Thread
        /\ sl \subseteq run /\ run \subseteq Thread
        /\ obs \in [Objects -> SyncObject \cup {NULL}]
    BY DEF InCalls, CallsSound
  <1>2. Len(calls[t]) <= 2 /\ OnceEach(calls[t]) /\ calls[t] \in Seq(Pointer)
    BY <1>1 DEF InCalls, CallsSound
  <1>3. /\ a \in Objects /\ 1 \in 1..Len(calls[t])
        /\ Tail(calls[t]) \in Seq(Pointer) /\ Len(Tail(calls[t])) <= 1
        /\ OnceEach(Tail(calls[t]))
        /\ \A i \in 1..Len(Tail(calls[t])) : /\ i + 1 \in 1..Len(calls[t])
                                             /\ Tail(calls[t])[i] = calls[t][i + 1]
                                             /\ Tail(calls[t])[i] # a
        /\ Tail(calls[t]) # <<>> => 1 \in 1..Len(Tail(calls[t]))
    BY <1>2, RestOfCall
  <1>4. obs[a] # NULL
    <2>1. Tracked(a, obs)
      BY <1>1, <1>3 DEF InCalls, CallsSound
    <2>2. QED BY <2>1 DEF Tracked
  <1>5. obs[a] \in SyncObject /\ obs[a].count \in Int
    BY <1>1, <1>3, <1>4, ObjectFields
  <1>6. /\ new \in [Objects -> SyncObject \cup {NULL}]
        /\ \A p \in Objects : p # a => new[p] = obs[p]
        /\ new[a] # NULL
        /\ new[a].kind = obs[a].kind /\ new[a].count = obs[a].count - 1
        /\ new[a].queue = obs[a].queue
    BY <1>1, <1>3, <1>4, TookFields, ObjectFields
  <1>7. /\ rest \in [Thread -> Seq(Pointer)] /\ rest[t] = Tail(calls[t])
        /\ \A u \in Thread : u # t => rest[u] = calls[u]
    BY <1>1, <1>3
  <1>8. rest[t] # <<>> => rest[t][1] # a
    BY <1>3, <1>7
  <1> HIDE DEF new, rest
  <1>9. SameObjects(obs, new)
    BY <1>4, <1>6 DEF SameObjects
  <1>10. CallsSound(new, rest, sl, run)
    <2>1. \A p \in Objects : obs[p] # NULL => new[p] # NULL
      BY <1>6
    <2>2. ASSUME NEW u \in Thread
          PROVE  /\ Len(rest[u]) <= 2 /\ OnceEach(rest[u])
                 /\ \A i \in 1..Len(rest[u]) : Tracked(rest[u][i], new)
      <3>1. CASE u = t
        <4>1. \A i \in 1..Len(calls[t]) : calls[t][i] \in Pointer /\ Tracked(calls[t][i], obs)
          BY <1>1, <1>2 DEF InCalls, CallsSound
        <4>2. Len(Tail(calls[t])) \in Nat
          BY <1>3
        <4>3. \A i \in 1..Len(Tail(calls[t])) : Tracked(Tail(calls[t])[i], new)
          BY <1>3, <2>1, <4>1, TrackedKept
        <4>4. Len(Tail(calls[t])) <= 2
          BY <1>3, <4>2
        <4>5. rest[u] = Tail(calls[t])
          BY <1>7, <3>1
        <4>6. QED BY <1>3, <4>3, <4>4, <4>5
      <3>2. CASE u # t
        <4>1. /\ Len(calls[u]) <= 2 /\ OnceEach(calls[u])
              /\ \A i \in 1..Len(calls[u]) : calls[u][i] \in Pointer /\ Tracked(calls[u][i], obs)
          BY <1>1 DEF InCalls, CallsSound
        <4>2. \A i \in 1..Len(calls[u]) : Tracked(calls[u][i], new)
          BY <2>1, <4>1, TrackedKept
        <4>3. QED BY <1>7, <3>2, <4>1, <4>2
      <3>3. QED BY <3>1, <3>2
    <2>3. \A u \in sl : rest[u] # <<>>
      BY <1>1, <1>7 DEF InCalls, CallsSound
    <2>4. QED BY <1>1, <1>6, <1>7, <2>2, <2>3 DEF CallsSound
  <1>11. QueuesSound(new, rest, sl)
    <2> SUFFICES ASSUME NEW p \in Objects, new[p] # NULL
                 PROVE  /\ Distinct(new[p].queue)
                        /\ \A u \in Thread : Listed(new[p].queue, u) <=>
                             (u \in sl /\ rest[u] # <<>> /\ rest[u][1] = p)
      BY DEF QueuesSound
    <2>1. obs[p] # NULL /\ new[p].queue = obs[p].queue
      BY <1>4, <1>6
    <2>2. \A u \in sl : rest[u] = calls[u]
      BY <1>1, <1>7
    <2>3. QED BY <2>1, <2>2 DEF InCalls, QueuesSound
  <1>12. CountsCovered(new, rest, sl, run)
    <2> SUFFICES ASSUME NEW p \in Objects, new[p] # NULL, new[p].queue # <<>>
                 PROVE  0 <= new[p].count /\ new[p].count <= Cardinality(Heading(p, rest, sl, run))
      BY DEF CountsCovered
    <2>1. obs[p] # NULL /\ new[p].queue = obs[p].queue
      BY <1>4, <1>6
    <2>2. 0 <= obs[p].count /\ obs[p].count <= Cardinality(Heading(p, calls, sl, run))
      BY <2>1 DEF InCalls, CountsCovered
    <2>3. /\ IsFiniteSet(Heading(p, calls, sl, run))
          /\ Cardinality(Heading(p, calls, sl, run)) \in Nat
          /\ Cardinality(Heading(p, rest, sl, run)) \in Nat
      BY <1>1, HeadingFinite
    <2>4. CASE p = a
      <3>1. /\ Heading(a, rest, sl, run) = Heading(a, calls, sl, run) \ {t}
            /\ t \in Heading(a, calls, sl, run)
        <4>1. \A u \in run \ sl : u # t => rest[u] = calls[u]
          BY <1>1, <1>7
        <4>2. QED BY <1>8, <4>1 DEF Heading
      <3>2. Cardinality(Heading(a, rest, sl, run)) = Cardinality(Heading(a, calls, sl, run)) - 1
        <4> DEFINE H == Heading(a, calls, sl, run)
        <4>1. IsFiniteSet(H) /\ t \in H /\ Heading(a, rest, sl, run) = H \ {t}
          BY <2>3, <2>4, <3>1
        <4> HIDE DEF H
        <4>2. Cardinality(H \ {t}) = Cardinality(H) - 1
          BY <4>1, FS_RemoveElement
        <4>3. QED BY <4>1, <4>2 DEF H
      <3>3. QED BY <1>5, <1>6, <2>2, <2>3, <2>4, <3>2
    <2>5. CASE p # a
      <3>1. Heading(p, calls, sl, run) \subseteq Heading(p, rest, sl, run)
        BY <1>1, <1>7, <2>5 DEF Heading
      <3>2. Cardinality(Heading(p, calls, sl, run)) <= Cardinality(Heading(p, rest, sl, run))
        BY <1>1, <3>1, HeadingGrows
      <3>3. new[p].count = obs[p].count /\ obs[p].count \in Int
        BY <1>1, <1>6, <2>1, <2>5, ObjectFields
      <3>4. QED BY <2>2, <2>3, <3>2, <3>3
    <2>6. QED BY <2>4, <2>5
  <1>13. QED BY <1>9, <1>10, <1>11, <1>12 DEF InCalls, new, rest

(* A thread goes to sleep in front of an object that cannot be taken.      *)
LEMMA BlockKeeps ==
  ASSUME NEW obs, NEW calls, NEW sl, NEW run,
         InCalls(obs, calls, sl, run),
         NEW t \in run \ sl, calls[t] # <<>>, calls[t][1] \notin Freed,
         obs[calls[t][1]].count = 0
  PROVE  /\ InCalls(Queued(obs, calls[t][1], t), calls, sl \cup {t}, run)
         /\ SameObjects(obs, Queued(obs, calls[t][1], t))
  <1> DEFINE a == calls[t][1]
             new == Queued(obs, a, t)
  <1>1. /\ calls \in [Thread -> Seq(Pointer)] /\ t \in Thread
        /\ sl \subseteq run /\ run \subseteq Thread
        /\ obs \in [Objects -> SyncObject \cup {NULL}]
    BY DEF InCalls, CallsSound
  <1>2. Len(calls[t]) <= 2 /\ OnceEach(calls[t]) /\ calls[t] \in Seq(Pointer)
    BY <1>1 DEF InCalls, CallsSound
  <1>3. a \in Objects /\ 1 \in 1..Len(calls[t])
    BY <1>2, RestOfCall
  <1>4. obs[a] # NULL
    <2>1. Tracked(a, obs)
      BY <1>1, <1>3 DEF InCalls, CallsSound
    <2>2. QED BY <2>1 DEF Tracked
  <1>5. obs[a] \in SyncObject /\ obs[a].queue \in Seq(Thread)
    BY <1>1, <1>3, <1>4, ObjectFields
  <1>6. /\ new \in [Objects -> SyncObject \cup {NULL}]
        /\ \A p \in Objects : p # a => new[p] = obs[p]
        /\ new[a] # NULL
        /\ new[a].kind = obs[a].kind /\ new[a].count = 0
        /\ new[a].queue = Append(obs[a].queue, t)
    <2>1. obs[a].count = 0
      OBVIOUS
    <2> HIDE DEF a
    <2>2. /\ new \in [Objects -> SyncObject \cup {NULL}]
          /\ \A p \in Objects : p # a => new[p] = obs[p]
          /\ new[a] \in SyncObject
          /\ new[a].kind = obs[a].kind /\ new[a].count = obs[a].count
          /\ new[a].queue = Append(obs[a].queue, t)
      BY <1>1, <1>3, <1>4, QueuedFields, Zenon
    <2>3. new[a] # NULL
      BY <2>2, ObjectFields
    <2>4. QED BY <2>1, <2>2, <2>3, Zenon
  <1> HIDE DEF new
  <1>7. SameObjects(obs, new)
    BY <1>4, <1>6 DEF SameObjects
  <1>8. CallsSound(new, calls, sl \cup {t}, run)
    <2>1. \A p \in Objects : obs[p] # NULL => new[p] # NULL
      BY <1>6
    <2>2. \A u \in Thread : \A i \in 1..Len(calls[u]) :
            calls[u][i] \in Pointer /\ Tracked(calls[u][i], obs)
      BY DEF InCalls, CallsSound
    <2>3. \A u \in Thread : \A i \in 1..Len(calls[u]) : Tracked(calls[u][i], new)
      BY <2>1, <2>2, TrackedKept
    <2>4. QED BY <1>1, <1>6, <2>3 DEF InCalls, CallsSound
  <1>9. QueuesSound(new, calls, sl \cup {t})
    <2> SUFFICES ASSUME NEW p \in Objects, new[p] # NULL
                 PROVE  /\ Distinct(new[p].queue)
                        /\ \A u \in Thread : Listed(new[p].queue, u) <=>
                             (u \in sl \cup {t} /\ calls[u] # <<>> /\ calls[u][1] = p)
      BY DEF QueuesSound
    <2>1. CASE p = a
      <3>1. ~ Listed(obs[a].queue, t) /\ Distinct(obs[a].queue)
        BY <1>1, <1>3, <1>4 DEF InCalls, QueuesSound
      <3>2. /\ Distinct(new[a].queue)
            /\ \A u \in Thread : Listed(new[a].queue, u) <=> (Listed(obs[a].queue, u) \/ u = t)
        <4>1. new[a].queue = Append(obs[a].queue, t) /\ obs[a].queue \in Seq(Thread)
          BY <1>5, <1>6
        <4> DEFINE q == obs[a].queue
        <4>2. q \in Seq(Thread) /\ Distinct(q) /\ ~ Listed(q, t) /\ t \in Thread
          BY <1>1, <3>1, <4>1
        <4> HIDE DEF q
        <4>3. /\ Distinct(Append(q, t))
              /\ \A u \in Thread : Listed(Append(q, t), u) <=> (Listed(q, u) \/ u = t)
          BY <4>2, AppendListed, Zenon
        <4>4. QED BY <4>1, <4>3, Zenon DEF q
      <3>3. \A u \in Thread : Listed(obs[a].queue, u) <=>
                                (u \in sl /\ calls[u] # <<>> /\ calls[u][1] = a)
        BY <1>3, <1>4 DEF InCalls, QueuesSound
      <3>4. QED BY <2>1, <3>2, <3>3
    <2>2. CASE p # a
      BY <1>6, <2>2 DEF InCalls, QueuesSound
    <2>3. QED BY <2>1, <2>2
  <1>10. CountsCovered(new, calls, sl \cup {t}, run)
    <2> SUFFICES ASSUME NEW p \in Objects, new[p] # NULL, new[p].queue # <<>>
                 PROVE  0 <= new[p].count /\ new[p].count <= Cardinality(Heading(p, calls, sl \cup {t}, run))
      BY DEF CountsCovered
    <2>1. CASE p = a
      <3>1. Cardinality(Heading(p, calls, sl \cup {t}, run)) \in Nat
        BY <1>1, HeadingFinite
      <3>2. new[p].count = 0
        BY <1>6, <2>1
      <3>3. QED BY <3>1, <3>2
    <2>2. CASE p # a
      <3>1. Heading(p, calls, sl \cup {t}, run) = Heading(p, calls, sl, run)
        BY <2>2 DEF Heading
      <3>2. QED BY <1>6, <2>2, <3>1 DEF InCalls, CountsCovered
    <2>3. QED BY <2>1, <2>2
  <1>11. QED BY <1>7, <1>8, <1>9, <1>10 DEF InCalls, new

-----------------------------------------------------------------------------
(***************************************************************************)
(* GoOn is made of these steps: thread t takes the objects of todo in      *)
(* turn, at most two, and blocks at the first that it cannot take.         *)
(***************************************************************************)
LEMMA GoOnKeeps ==
  ASSUME NEW obs, NEW sleeping, NEW todo, NEW t \in running \ sleeping,
         call \in [Thread -> Seq(Pointer)], todo # <<>>, todo[1] \notin Freed,
         Len(todo) = 2 /\ todo[2] \in Freed => obs[todo[1]].count = 0,
         InCalls(obs, [call EXCEPT ![t] = todo], sleeping, running),
         GoOn(t, todo, obs, sleeping)
  PROVE  /\ InCalls(object', call', asleep', running)
         /\ SameObjects(obs, object')
  <1> DEFINE calls == [call EXCEPT ![t] = todo]
             P(k) == /\ \A i \in 1..k : obs[todo[i]].count # 0
                     /\ k < Len(todo) => obs[todo[k + 1]].count = 0
             n == CHOOSE k \in 0..Len(todo) : P(k)
             rest == SubSeq(todo, n + 1, Len(todo))
             took(o) == [obs[o] EXCEPT !.count = @ - 1,
                                       !.owner = IF obs[o].kind = "lock" THEN t ELSE @]
             a == todo[1]
  <1>1. /\ object' = [o \in DOMAIN obs |->
                        CASE \E i \in 1..n : todo[i] = o -> took(o)
                          [] rest # <<>> /\ rest[1] = o -> [obs[o] EXCEPT !.queue = Append(@, t)]
                          [] OTHER -> obs[o]]
        /\ call' = [call EXCEPT ![t] = rest]
        /\ asleep' = IF rest = <<>> THEN sleeping ELSE sleeping \cup {t}
    BY DEF GoOn
  <1>2. /\ t \in Thread /\ obs \in [Objects -> SyncObject \cup {NULL}]
        /\ calls \in [Thread -> Seq(Pointer)]
    BY DEF InCalls, CallsSound
  <1>3. calls[t] = todo
    BY <1>2
  <1>4. todo \in Seq(Pointer)
    BY <1>2, <1>3
  <1>5. /\ Len(todo) <= 2 /\ OnceEach(todo)
        /\ \A i \in 1..Len(todo) : Tracked(todo[i], obs)
    <2>1. /\ Len(calls[t]) <= 2 /\ OnceEach(calls[t])
          /\ \A i \in 1..Len(calls[t]) : Tracked(calls[t][i], obs)
      BY <1>2 DEF InCalls, CallsSound
    <2>2. QED BY <1>3, <2>1
  <1>6. /\ a \in Objects /\ 1 \in 1..Len(todo)
        /\ Tail(todo) \in Seq(Pointer) /\ Len(Tail(todo)) = Len(todo) - 1
        /\ \A i \in 1..Len(Tail(todo)) : /\ i + 1 \in 1..Len(todo)
                                         /\ Tail(todo)[i] = todo[i + 1]
                                         /\ Tail(todo)[i] # a
        /\ Len(todo) \in 1..2
    <2>1. Len(todo) \in Nat
      BY <1>4
    <2>2. /\ a \in Objects /\ 1 \in 1..Len(todo)
          /\ Tail(todo) \in Seq(Pointer) /\ Len(Tail(todo)) = Len(todo) - 1
          /\ \A i \in 1..Len(Tail(todo)) : /\ i + 1 \in 1..Len(todo)
                                           /\ Tail(todo)[i] = todo[i + 1]
                                           /\ Tail(todo)[i] # a
      BY <1>4, <1>5, RestOfCall
    <2>3. Len(todo) \in 1..2
      BY <1>5, <2>1, <2>2
    <2>4. QED BY <2>2, <2>3
  <1>7. \A i \in 1..Len(todo) : todo[i] \notin Freed =>
          todo[i] \in Objects /\ obs[todo[i]] \in SyncObject /\ obs[todo[i]].count \in Int
    BY <1>2, <1>4, <1>5, PointerKinds, ObjectFields DEF Tracked
  <1>8. ASSUME NEW m \in 0..Len(todo), P(m), \A k \in 0..Len(todo) : P(k) => k = m
        PROVE  n = m
    BY <1>8
  <1> DEFINE calls1 == [calls EXCEPT ![t] = Tail(@)]
             obs1 == Took(obs, a, t)
  <1>9. calls1 = [call EXCEPT ![t] = Tail(todo)] /\ calls1[t] = Tail(todo)
    BY <1>2, <1>3
  <1>10. CASE obs[a].count = 0
    <2>1. n = 0
      BY <1>6, <1>8, <1>10
    <2>2. rest = todo
      <3> HIDE DEF n
      <3>1. n + 1 = 1
        BY <2>1
      <3>2. rest = SubSeq(todo, 1, Len(todo))
        BY <3>1
      <3>3. QED BY <1>4, <3>2, SubSeqFull
    <2>3. object' = Queued(obs, a, t)
      <3>1. object' = [o \in Objects |->
                         IF o = a THEN [obs[o] EXCEPT !.queue = Append(@, t)] ELSE obs[o]]
        <4> HIDE DEF n, rest, a
        <4>1. DOMAIN obs = Objects /\ 1..n = {} /\ rest # <<>> /\ rest[1] = a
          BY <1>2, <2>1, <2>2 DEF a
        <4>2. QED BY <1>1, <4>1
      <3>2. QED BY <1>2, <1>6, <3>1 DEF Queued
    <2>4. call' = calls /\ asleep' = sleeping \cup {t}
      BY <1>1, <2>2
    <2> HIDE DEF calls, n, rest
    <2>5. /\ InCalls(Queued(obs, calls[t][1], t), calls, sleeping \cup {t}, running)
          /\ SameObjects(obs, Queued(obs, calls[t][1], t))
      BY <1>3, <1>10, BlockKeeps DEF calls
    <2>6. QED BY <1>3, <2>3, <2>4, <2>5
  <1>11. ASSUME obs[a].count # 0
         PROVE  /\ InCalls(obs1, calls1, sleeping, running)
                /\ SameObjects(obs, obs1)
    <2> HIDE DEF calls
    <2>1. /\ InCalls(Took(obs, calls[t][1], t), calls1, sleeping, running)
          /\ SameObjects(obs, Took(obs, calls[t][1], t))
      BY <1>3, <1>11, TakeKeeps DEF calls
    <2>2. QED BY <1>3, <2>1
  <1>12. ASSUME obs[a].count # 0
         PROVE  /\ obs1 \in [Objects -> SyncObject \cup {NULL}]
                /\ obs1[a] = took(a)
                /\ \A o \in Objects : o # a => obs1[o] = obs[o]
    <2>1. \A o \in Objects : o # a => obs1[o] = obs[o]
      BY <1>2, <1>6 DEF Took
    <2>2. obs1[a] = took(a)
      BY <1>2, <1>6 DEF Took
    <2>3. QED BY <1>11, <1>12, <2>1, <2>2 DEF InCalls, CallsSound
  <1>13. CASE obs[a].count # 0 /\ Len(todo) = 1
    <2>1. n = 1
      <3>1. P(1)
        BY <1>13
      <3>2. ~ P(0)
        BY <1>13
      <3>3. QED BY <1>8, <1>13, <3>1, <3>2
    <2>2. rest = <<>> /\ Tail(todo) = <<>>
      <3> HIDE DEF n
      <3>1. n + 1 = 2
        BY <2>1
      <3>2. rest = SubSeq(todo, 2, 1)
        BY <1>13, <3>1
      <3>3. SubSeq(todo, 2, 1) = <<>>
        BY SubSeqEmpty
      <3>4. Len(Tail(todo)) = 0
        BY <1>6, <1>13
      <3>5. QED BY <1>6, <3>2, <3>3, <3>4, EmptySeq
    <2>3. object' = obs1
      <3>1. object' = [o \in Objects |-> IF o = a THEN took(o) ELSE obs[o]]
        <4> HIDE DEF n, rest, took
        <4>1. DOMAIN obs = Objects /\ \A o \in Objects : (\E i \in 1..n : todo[i] = o) <=> o = a
          BY <1>2, <2>1
        <4>2. QED BY <1>1, <2>2, <4>1
      <3>2. QED BY <1>2, <1>12, <1>13, <3>1
    <2>4. call' = calls1 /\ asleep' = sleeping
      BY <1>1, <1>9, <2>2
    <2>5. QED BY <1>11, <1>13, <2>3, <2>4
  <1>14. CASE obs[a].count # 0 /\ Len(todo) = 2
    <2> DEFINE b == todo[2]
    <2>1. /\ b \in Objects /\ b # a /\ Tail(todo)[1] = b /\ Tail(todo) # <<>>
          /\ obs[b].count \in Int /\ obs1[b] = obs[b] /\ calls1[t][1] = b
          /\ b \notin Freed
      <3>1. Len(Tail(todo)) = 1
        BY <1>6, <1>14
      <3>5. 1 \in 1..Len(Tail(todo)) /\ 2 \in 1..Len(todo) /\ 1 + 1 = 2
        <4>1. 1 \in 1..1 /\ 2 \in 1..2 /\ 1 + 1 = 2
          OBVIOUS
        <4>2. QED BY <1>14, <3>1, <4>1, Zenon
      <3>6. Tail(todo) # <<>>
        <4>1. Len(<<>>) # 1
          OBVIOUS
        <4>2. QED BY <3>1, <4>1, Zenon
      <3>2. Tail(todo)[1] = b /\ b # a
        BY <1>6, <3>5
      <3>3. b \in Objects /\ obs[b].count \in Int
        BY <1>7, <1>14, <3>5
      <3>7. b \notin Freed
        BY <1>14
      <3>4. QED BY <1>9, <1>12, <1>14, <3>2, <3>3, <3>6, <3>7
    <2>2. CASE obs[b].count = 0
      <3>1. n = 1
        <4>1. P(1)
          BY <1>14, <2>2
        <4>2. ~ P(0)
          BY <1>14
        <4>3. ~ P(2)
          BY <2>2
        <4>4. QED BY <1>8, <1>14, <4>1, <4>2, <4>3
      <3>2. rest = Tail(todo)
        <4> HIDE DEF n
        <4>1. n + 1 = 2
          BY <3>1
        <4>2. rest = SubSeq(todo, 2, Len(todo))
          BY <4>1
        <4>3. QED BY <1>4, <4>2, TailIsSubSeq
      <3>3. object' = Queued(obs1, b, t)
        <4>1. object' = [o \in Objects |->
                IF o = a THEN took(o)
                ELSE IF o = b THEN [obs[o] EXCEPT !.queue = Append(@, t)] ELSE obs[o]]
          <5> HIDE DEF n, rest, took, b
          <5>1. /\ DOMAIN obs = Objects
                /\ \A o \in Objects : (\E i \in 1..n : todo[i] = o) <=> o = a
                /\ rest # <<>> /\ rest[1] = b
            BY <1>2, <2>1, <3>1, <3>2
          <5>2. b # a
            BY <2>1
          <5>3. QED BY <1>1, <5>1, <5>2
        <4>2. Queued(obs1, b, t) =
                [o \in Objects |-> IF o = b THEN [obs1[b] EXCEPT !.queue = Append(@, t)]
                                   ELSE obs1[o]]
          BY <1>12, <1>14, <2>1 DEF Queued
        <4> HIDE DEF obs1, took, b
        <4>3. ASSUME NEW o \in Objects
              PROVE  (IF o = a THEN took(o)
                      ELSE IF o = b THEN [obs[o] EXCEPT !.queue = Append(@, t)] ELSE obs[o])
                       = IF o = b THEN [obs1[b] EXCEPT !.queue = Append(@, t)] ELSE obs1[o]
          BY <1>12, <1>14, <2>1
        <4>4. QED BY <4>1, <4>2, <4>3
      <3>4. call' = calls1 /\ asleep' = sleeping \cup {t}
        BY <1>1, <1>9, <2>1, <3>2
      <3> HIDE DEF calls1, obs1, n, rest, b
      <3>5. InCalls(obs1, calls1, sleeping, running) /\ SameObjects(obs, obs1)
        BY <1>11, <1>14
      <3>6. calls1[t] # <<>> /\ calls1[t][1] = b /\ obs1[b].count = 0 /\ b \notin Freed
        BY <1>9, <2>1, <2>2
      <3>7. /\ InCalls(Queued(obs1, calls1[t][1], t), calls1, sleeping \cup {t}, running)
            /\ SameObjects(obs1, Queued(obs1, calls1[t][1], t))
        BY <3>5, <3>6, BlockKeeps
      <3>8. QED BY <3>3, <3>4, <3>5, <3>6, <3>7 DEF SameObjects
    <2>3. CASE obs[b].count # 0
      <3>1. n = 2
        <4>1. P(2)
          BY <1>14, <2>3
        <4>2. ~ P(0)
          BY <1>14
        <4>3. ~ P(1)
          BY <1>14, <2>3
        <4>4. QED BY <1>8, <1>14, <4>1, <4>2, <4>3
      <3>2. rest = <<>>
        <4> HIDE DEF n
        <4>1. n + 1 = 3
          BY <3>1
        <4>2. rest = SubSeq(todo, 3, 2)
          BY <1>14, <4>1
        <4>3. SubSeq(todo, 3, 2) = <<>>
          BY SubSeqEmpty
        <4>4. QED BY <4>2, <4>3
      <3> DEFINE calls2 == [calls1 EXCEPT ![t] = Tail(@)]
      <3>3. calls2 = [call EXCEPT ![t] = <<>>]
        <4>1. Tail(Tail(todo)) = <<>>
          <5>1. Len(Tail(todo)) = 1
            BY <1>6, <1>14
          <5>2. /\ Tail(Tail(todo)) \in Seq(Pointer)
                /\ Len(Tail(Tail(todo))) = Len(Tail(todo)) - 1
            BY <1>6, <2>1, HeadTailProperties
          <5>3. Len(Tail(Tail(todo))) = 0
            BY <5>1, <5>2
          <5>4. QED BY <5>2, <5>3, EmptySeq
        <4>2. QED BY <1>2, <1>9, <4>1
      <3>4. object' = Took(obs1, b, t)
        <4>1. object' = [o \in Objects |-> IF o = a \/ o = b THEN took(o) ELSE obs[o]]
          <5> HIDE DEF n, rest, took, b
          <5>1. /\ DOMAIN obs = Objects
                /\ \A o \in Objects : (\E i \in 1..n : todo[i] = o) <=> (o = a \/ o = b)
            BY <1>2, <3>1 DEF b
          <5>2. QED BY <1>1, <3>2, <5>1
        <4>2. Took(obs1, b, t) =
                [o \in Objects |-> IF o = b THEN took(b) ELSE obs1[o]]
          BY <1>12, <1>14, <2>1 DEF Took
        <4> HIDE DEF obs1, took, b
        <4>3. ASSUME NEW o \in Objects
              PROVE  (IF o = a \/ o = b THEN took(o) ELSE obs[o])
                       = IF o = b THEN took(b) ELSE obs1[o]
          BY <1>12, <1>14, <2>1
        <4>4. QED BY <4>1, <4>2, <4>3
      <3>5. call' = calls2 /\ asleep' = sleeping
        BY <1>1, <3>2, <3>3
      <3> HIDE DEF calls1, calls2, obs1, n, rest, b
      <3>6. InCalls(obs1, calls1, sleeping, running) /\ SameObjects(obs, obs1)
        BY <1>11, <1>14
      <3>7. calls1[t] # <<>> /\ calls1[t][1] = b /\ obs1[b].count # 0 /\ b \notin Freed
        BY <1>9, <2>1, <2>3
      <3>8. /\ InCalls(Took(obs1, calls1[t][1], t), calls2, sleeping, running)
            /\ SameObjects(obs1, Took(obs1, calls1[t][1], t))
        BY <3>6, <3>7, TakeKeeps DEF calls2
      <3>9. QED BY <3>4, <3>5, <3>6, <3>7, <3>8 DEF SameObjects
    <2>4. QED BY <2>1, <2>2, <2>3
  <1>15. obs[a].count \in Int
    BY <1>6, <1>7
  <1>16. QED BY <1>6, <1>10, <1>13, <1>14, <1>15

-----------------------------------------------------------------------------
(* The tables.                                                             *)

(* The two halves of HandlesSound, over any tables and objects.            *)
ObjectIds(tab, obs) ==
  \A k \in Kind : \A i \in Id : tab[k][i] # NULL =>
    /\ obs[tab[k][i]] # NULL /\ obs[tab[k][i]].kind = k
    /\ \A j \in Id : tab[k][j] = tab[k][i] => i = j

FileIds(ft, hs) ==
  \A i \in Id : ft[i] # NULL =>
    /\ hs[ft[i]].state # "closed" /\ hs[ft[i]].id \in {i, givenUp}
    /\ \A j \in Id : ft[j] = ft[i] => i = j

(* HandlesSound speaks of the ids of objects and of those of files.        *)
LEMMA HandlesHalves == HandlesSound <=> ObjectIds(table, object) /\ FileIds(fileTable, host)
  BY DEF HandlesSound, ObjectIds, FileIds, IsOpened, Alive, IsClosed

(* The constants: ids, objects and descriptors are numbers, and NULL none. *)
LEMMA NumbersApart ==
  /\ Id \subseteq Nat /\ Object \subseteq Nat \ {0} /\ Fd \subseteq Nat
  /\ NULL \notin Object /\ NULL \notin Fd /\ console \notin Object
  /\ -1 \notin Id /\ console \in Objects
  BY SyscallsAssumption DEF Id, Object, Fd, console, Objects

(* BitMap::Find returns a free id, unless there is none.                   *)
LEMMA FindFree ==
  ASSUME NEW tab, Find(tab) # -1
  PROVE  Find(tab) \in Id /\ tab[Find(tab)] = NULL
  <1>1. FreeIds(tab) # {}
    BY DEF Find
  <1>2. FreeIds(tab) \subseteq Nat
    BY NumbersApart DEF FreeIds
  <1>3. \E i \in FreeIds(tab) : \A j \in FreeIds(tab) : i <= j
    BY <1>1, <1>2, LeastNatural
  <1>4. Find(tab) \in FreeIds(tab)
    BY <1>1, <1>3 DEF Find
  <1>5. QED BY <1>4 DEF FreeIds, IsOpened

(* A free id is given to an object that no id names.                       *)
LEMMA OpenedIds ==
  ASSUME NEW tab \in [Kind -> [Id -> Object \cup {NULL}]], NEW obs, NEW k \in Kind,
         NEW o \in Object, ObjectIds(tab, obs), obs[o] # NULL, obs[o].kind = k,
         \A m \in Kind, i \in Id : tab[m][i] # o
  PROVE  /\ [tab EXCEPT ![k] = Opened(@, o)] \in [Kind -> [Id -> Object \cup {NULL}]]
         /\ ObjectIds([tab EXCEPT ![k] = Opened(@, o)], obs)
  <1> DEFINE new == [tab EXCEPT ![k] = Opened(@, o)]
  <1>1. CASE Find(tab[k]) = -1
    <2>1. new = tab
      BY <1>1 DEF Opened
    <2>2. QED BY <2>1
  <1>2. CASE Find(tab[k]) # -1
    <2> DEFINE f == Find(tab[k])
    <2>1. f \in Id /\ tab[k][f] = NULL
      BY <1>2, FindFree
    <2>2. Opened(tab[k], o) = [tab[k] EXCEPT ![f] = o]
      BY <1>2 DEF Opened
    <2> HIDE DEF f
    <2>3. /\ new \in [Kind -> [Id -> Object \cup {NULL}]]
          /\ new[k][f] = o
          /\ \A m \in Kind, i \in Id : m # k \/ i # f => new[m][i] = tab[m][i]
      BY <2>1, <2>2
    <2> HIDE DEF new
    <2>4. ASSUME NEW m \in Kind, NEW i \in Id, new[m][i] # NULL
          PROVE  /\ obs[new[m][i]] # NULL /\ obs[new[m][i]].kind = m
                 /\ \A j \in Id : new[m][j] = new[m][i] => i = j
      <3>1. CASE m = k /\ i = f
        BY <2>3, <3>1
      <3>2. CASE m # k \/ i # f
        <4>1. new[m][i] = tab[m][i] /\ tab[m][i] # NULL /\ tab[m][i] # o
          BY <2>3, <2>4, <3>2
        <4>2. \A j \in Id : new[m][j] = tab[m][j] \/ new[m][j] = o
          BY <2>3
        <4>3. QED BY <4>1, <4>2 DEF ObjectIds
      <3>3. QED BY <3>1, <3>2
    <2>5. ObjectIds(new, obs)
      BY <2>4 DEF ObjectIds
    <2>6. QED BY <2>3, <2>5 DEF new
  <1>3. QED BY <1>1, <1>2

(* The same for the table of files: the descriptor was closed.             *)
LEMMA OpenedFile ==
  ASSUME NEW ft \in [Id -> Fd \cup {NULL}], NEW hs \in [Fd -> [state : HostState, id : Int]],
         FileIds(ft, hs), NEW f \in Fd, hs[f].state = "closed",
         NEW st \in HostState \ {"closed"}, NEW id \in {-1, Find(ft)}
  PROVE  /\ [hs EXCEPT ![f] = [state |-> st, id |-> id]] \in [Fd -> [state : HostState, id : Int]]
         /\ (IF id = -1 THEN ft ELSE Opened(ft, f)) \in [Id -> Fd \cup {NULL}]
         /\ FileIds(IF id = -1 THEN ft ELSE Opened(ft, f),
                    [hs EXCEPT ![f] = [state |-> st, id |-> id]])
  <1> DEFINE new == [hs EXCEPT ![f] = [state |-> st, id |-> id]]
  <1>1. id \in Int
    <2>1. CASE Find(ft) = -1
      BY <2>1
    <2>2. CASE Find(ft) # -1
      BY <2>2, FindFree, NumbersApart
    <2>3. QED BY <2>1, <2>2
  <1>2. /\ new \in [Fd -> [state : HostState, id : Int]]
        /\ new[f] = [state |-> st, id |-> id]
        /\ \A g \in Fd : g # f => new[g] = hs[g]
    BY <1>1
  <1>3. \A i \in Id : ft[i] # NULL => ft[i] \in Fd /\ ft[i] # f
    BY DEF FileIds
  <1> HIDE DEF new
  <1>4. FileIds(ft, new)
    BY <1>2, <1>3 DEF FileIds
  <1>5. CASE id = -1
    BY <1>2, <1>4, <1>5 DEF new
  <1>6. CASE id # -1
    <2>1. id = Find(ft) /\ id \in Id /\ ft[id] = NULL
      BY <1>6, FindFree
    <2>2. Opened(ft, f) = [ft EXCEPT ![id] = f]
      BY <1>6, <2>1 DEF Opened
    <2> DEFINE ft2 == [ft EXCEPT ![id] = f]
    <2>3. /\ ft2 \in [Id -> Fd \cup {NULL}] /\ ft2[id] = f
          /\ \A i \in Id : i # id => ft2[i] = ft[i]
      BY <2>1
    <2> HIDE DEF ft2
    <2>4. new[f].state # "closed" /\ new[f].id = id
      BY <1>2
    <2>5. FileIds(ft2, new)
      BY <1>4, <2>3, <2>4 DEF FileIds
    <2>6. QED BY <1>2, <1>6, <2>2, <2>3, <2>5 DEF new, ft2
  <1>7. QED BY <1>5, <1>6

-----------------------------------------------------------------------------
(* The invariant and its steps.                                            *)

(* A step that leaves the tables alone and lets every object live.         *)
LEMMA TablesKept ==
  ASSUME SysInv, SameObjects(object, object'),
         UNCHANGED <<table, fileTable, host>>
  PROVE  /\ TablesSound'
         /\ object'[console] # NULL
         /\ doing' = doing => DoingSound'
  <1>1. table \in [Kind -> [Id -> Object \cup {NULL}]]
    BY DEF SysInv, TablesSound
  <1>2. ObjectIds(table, object) /\ FileIds(fileTable, host)
    BY HandlesHalves DEF SysInv, TablesSound
  <1>3. ObjectIds(table, object')
    <2>1. \A k \in Kind, i \in Id : table[k][i] # NULL => table[k][i] \in Objects
      BY <1>1 DEF Objects
    <2>2. QED BY <1>2, <2>1 DEF ObjectIds, SameObjects
  <1>4. HandlesSound' <=> ObjectIds(table', object') /\ FileIds(fileTable', host')
    BY DEF HandlesSound, ObjectIds, FileIds, IsOpened, Alive, IsClosed
  <1>5. TablesSound'
    BY <1>2, <1>3, <1>4 DEF SysInv, TablesSound
  <1>6. object'[console] # NULL
    BY NumbersApart DEF SysInv, DoingSound, SameObjects
  <1>7. ASSUME doing' = doing PROVE DoingSound'
    <2>1. \A t \in Thread : doing[t] # NULL =>
            /\ doing[t][2] \in Pointer /\ Tracked(doing[t][2], object)
            /\ doing[t][3] \in Pointer /\ Tracked(doing[t][3], object)
      BY DEF SysInv, DoingSound, Doing
    <2>2. \A p \in Objects : object[p] # NULL => object'[p] # NULL
      BY DEF SameObjects
    <2>3. \A t \in Thread : doing[t] # NULL =>
            Tracked(doing[t][2], object') /\ Tracked(doing[t][3], object')
      BY <2>1, <2>2, TrackedKept
    <2>4. QED BY <1>6, <1>7, <2>3 DEF SysInv, DoingSound
  <1>8. QED BY <1>5, <1>6, <1>7

(* What an id names is an object that is alive, of the table's kind.       *)
LEMMA NamedObject ==
  ASSUME SysInv, NEW kind \in Kind, NEW o \in Names(kind)
  PROVE  o \in Object /\ o \in Objects /\ object[o] # NULL /\ object[o].kind = kind
  BY HandlesHalves DEF SysInv, TablesSound, Names, IsOpened, ObjectIds, Objects

(* The objects of a thread that is about to start a call.                  *)
LEMMA ReadyThread ==
  ASSUME SysInv, NEW t \in Thread, Ready(t)
  PROVE  /\ t \in running \ asleep /\ call[t] = <<>>
         /\ call \in [Thread -> Seq(Pointer)]
         /\ object \in [Objects -> SyncObject \cup {NULL}]
  BY DEF SysInv, InCalls, CallsSound, Ready, Awake

(* P, Acquire and Lock.                                                    *)
LEMMA TakeOne ==
  ASSUME SysInv, NEW t \in Thread, Ready(t), NEW o \in Objects, object[o] # NULL,
         GoOn(t, <<o>>, object, asleep), UNCHANGED running
  PROVE  /\ InCalls(object', call', asleep', running')
         /\ SameObjects(object, object')
  <1>1. /\ <<o>> \in Seq(Pointer) /\ Len(<<o>>) = 1 /\ Len(<<o>>) <= 2 /\ <<o>> # <<>>
        /\ OnceEach(<<o>>) /\ \A i \in 1..Len(<<o>>) : Tracked(<<o>>[i], object)
        /\ <<o>>[1] \notin Freed /\ Len(<<o>>) # 2
    BY FreedApart DEF OnceEach, Tracked
  <1>2. InCalls(object, [call EXCEPT ![t] = <<o>>], asleep, running)
    BY <1>1, ReadyThread, EnterKeeps DEF SysInv
  <1>3. QED BY <1>1, <1>2, ReadyThread, GoOnKeeps

(* V, Release, Unlock and Signal.                                          *)
LEMMA GiveOne ==
  ASSUME SysInv, NEW o \in Objects, object[o] # NULL, NEW n \in Int,
         n = 1 \/ n = object[o].count + 1, Give(o, n), UNCHANGED <<running, call>>
  PROVE  /\ InCalls(object', call', asleep', running')
         /\ SameObjects(object, object')
  <1>1. object' = Woken(object, o, n) /\ asleep' = asleep \ First(object, o)
    BY DEF Give, Given, Readied, Woken, First
  <1>2. QED BY <1>1, GiveKeeps DEF SysInv

(* A count is a number.                                                    *)
LEMMA CountType ==
  ASSUME SysInv, NEW o \in Objects, object[o] # NULL
  PROVE  object[o].count \in Int
  BY ObjectFields DEF SysInv, InCalls, CallsSound

-----------------------------------------------------------------------------
(* Step by step.                                                           *)

(* The kernel starts with the mutex and the descriptors of the console.    *)
LEMMA SysInvInit == SysInit => SysInv
  <1> SUFFICES ASSUME SysInit PROVE SysInv
    OBVIOUS
  <1>1. NewObject("mutex", 1) \in SyncObject /\ NewObject("mutex", 1).queue = <<>>
    BY DEF NewObject, SyncObject
  <1>2. /\ object \in [Objects -> SyncObject \cup {NULL}]
        /\ object[console] # NULL /\ object[console].queue = <<>>
        /\ \A o \in Objects : object[o] # NULL => object[o].queue = <<>>
    BY <1>1, ObjectFields, NumbersApart DEF SysInit, Objects
  <1>3. \A t : ~ Listed(<<>>, t)
    BY DEF Listed
  <1>4. Distinct(<<>>)
    BY DEF Distinct
  <1>5. CallsSound(object, call, asleep, running)
    <2>1. OnceEach(<<>>) /\ Len(<<>>) = 0
      BY DEF OnceEach
    <2>2. QED BY <1>2, <2>1 DEF SysInit, CallsSound
  <1>6. QueuesSound(object, call, asleep) /\ CountsCovered(object, call, asleep, running)
    BY <1>2, <1>3, <1>4 DEF SysInit, QueuesSound, CountsCovered
  <1>7. /\ table \in [Kind -> [Id -> Object \cup {NULL}]]
        /\ ObjectIds(table, object)
    BY DEF SysInit, ObjectIds
  <1>8. fileTable \in [Id -> Fd \cup {NULL}]
    <2>1. \A i \in Id : i < 3 => i \in Fd
      BY SyscallsAssumption DEF Id, Fd
    <2>2. QED BY <2>1 DEF SysInit
  <1>9. host \in [Fd -> [state : HostState, id : Int]]
    <2>1. ASSUME NEW f \in Fd, NEW kept
          PROVE  (CASE f < 3 -> [state |-> "console", id |-> f]
                    [] f \in kept -> [state |-> "disk", id |-> -1]
                    [] OTHER -> Closed) \in [state : HostState, id : Int]
      BY SyscallsAssumption DEF Fd, Closed, HostState
    <2>2. QED BY <2>1 DEF SysInit
  <1>10. FileIds(fileTable, host)
    <2> SUFFICES ASSUME NEW i \in Id, fileTable[i] # NULL
                 PROVE  /\ host[fileTable[i]].state # "closed"
                        /\ host[fileTable[i]].id \in {i, givenUp}
                        /\ \A j \in Id : fileTable[j] = fileTable[i] => i = j
      BY DEF FileIds
    <2>1. i < 3 /\ fileTable[i] = i /\ i \in Fd
      BY SyscallsAssumption DEF SysInit, Id, Fd
    <2>2. host[i] = [state |-> "console", id |-> i]
      <3>1. disk = 3
        BY DEF disk
      <3>2. i \notin {disk} /\ i \notin {}
        BY <2>1, <3>1, NumbersApart
      <3>3. QED BY <2>1, <3>2 DEF SysInit
    <2>3. \A j \in Id : fileTable[j] = i => i = j
      BY NumbersApart, SyscallsAssumption DEF SysInit, Id
    <2>4. QED BY <2>1, <2>2, <2>3
  <1>11. TablesSound
    BY <1>7, <1>8, <1>9, <1>10, HandlesHalves DEF TablesSound
  <1>12. DoingSound
    BY <1>2 DEF SysInit, DoingSound
  <1>13. QED BY <1>5, <1>6, <1>11, <1>12 DEF SysInv, InCalls

(* Create: nothing refers to the new object yet.                           *)
LEMMA CreateStep ==
  ASSUME SysInv, NEW t \in Thread, NEW kind \in Kind, NEW count \in Int,
         Create(t, kind, count)
  PROVE  SysInv'
  <1>1. PICK o \in Object :
               /\ object[o] = NULL
               /\ object' = [object EXCEPT ![o] = NewObject(kind, count)]
               /\ table' = [table EXCEPT ![kind] = Opened(@, o)]
    BY DEF Create
  <1>2. UNCHANGED <<running, call, asleep, doing, fileTable, host, halted>>
    BY DEF Create, fileVars
  <1>3. /\ NewObject(kind, count) \in SyncObject
        /\ NewObject(kind, count).queue = <<>> /\ NewObject(kind, count).kind = kind
    BY DEF NewObject, SyncObject
  <1>4. object \in [Objects -> SyncObject \cup {NULL}] /\ o \in Objects
    BY DEF SysInv, InCalls, CallsSound, Objects
  <1>5. /\ object' \in [Objects -> SyncObject \cup {NULL}]
        /\ object'[o] # NULL /\ object'[o].queue = <<>> /\ object'[o].kind = kind
        /\ \A p \in Objects : p # o => object'[p] = object[p]
    BY <1>1, <1>3, <1>4, ObjectFields
  <1>6. \A p \in Objects : object[p] # NULL => object'[p] # NULL /\ p # o
    BY <1>1, <1>5
  <1>7. CallsSound(object', call, asleep, running)
    <2>1. \A u \in Thread : \A i \in 1..Len(call[u]) :
            call[u][i] \in Pointer /\ Tracked(call[u][i], object)
      BY DEF SysInv, InCalls, CallsSound
    <2>2. \A u \in Thread : \A i \in 1..Len(call[u]) : Tracked(call[u][i], object')
      BY <1>6, <2>1, TrackedKept
    <2>3. QED BY <1>5, <2>2 DEF SysInv, InCalls, CallsSound
  <1>8. \A u \in Thread : call[u] # <<>> => call[u][1] # o
    <2> SUFFICES ASSUME NEW u \in Thread, call[u] # <<>> PROVE call[u][1] # o
      OBVIOUS
    <2>1. call[u] \in Seq(Pointer) /\ 1 \in 1..Len(call[u])
      BY EmptySeq DEF SysInv, InCalls, CallsSound
    <2>2. Tracked(call[u][1], object)
      BY <2>1 DEF SysInv, InCalls, CallsSound
    <2>3. QED BY <1>1, <1>4, <2>2, FreedApart DEF Tracked
  <1>9. QueuesSound(object', call, asleep)
    <2> SUFFICES ASSUME NEW p \in Objects, object'[p] # NULL
                 PROVE  /\ Distinct(object'[p].queue)
                        /\ \A u \in Thread : Listed(object'[p].queue, u) <=>
                             (u \in asleep /\ call[u] # <<>> /\ call[u][1] = p)
      BY DEF QueuesSound
    <2>1. CASE p = o
      BY <1>5, <1>8, <2>1 DEF Distinct, Listed
    <2>2. CASE p # o
      BY <1>5, <2>2 DEF SysInv, InCalls, QueuesSound
    <2>3. QED BY <2>1, <2>2
  <1>10. CountsCovered(object', call, asleep, running)
    BY <1>5 DEF SysInv, InCalls, CountsCovered
  <1>11. TablesSound'
    <2>1. /\ table \in [Kind -> [Id -> Object \cup {NULL}]] /\ ObjectIds(table, object)
          /\ FileIds(fileTable, host)
      BY HandlesHalves DEF SysInv, TablesSound
    <2>2. \A m \in Kind, i \in Id : table[m][i] # o
      BY <1>1, <2>1, NumbersApart DEF ObjectIds
    <2>3. \A m \in Kind, i \in Id : table[m][i] # NULL =>
            table[m][i] \in Objects /\ object'[table[m][i]] = object[table[m][i]]
      BY <1>5, <2>1, <2>2 DEF Objects
    <2>4. ObjectIds(table, object')
      BY <2>1, <2>3 DEF ObjectIds
    <2>5. table' \in [Kind -> [Id -> Object \cup {NULL}]] /\ ObjectIds(table', object')
      BY <1>1, <1>5, <2>1, <2>2, <2>4, OpenedIds
    <2>6. HandlesSound' <=> ObjectIds(table', object') /\ FileIds(fileTable', host')
      BY DEF HandlesSound, ObjectIds, FileIds, IsOpened, Alive, IsClosed
    <2>7. QED BY <1>2, <2>1, <2>5, <2>6 DEF SysInv, TablesSound
  <1>12. DoingSound'
    <2>1. \A u \in Thread : doing[u] # NULL =>
            /\ doing[u][2] \in Pointer /\ Tracked(doing[u][2], object)
            /\ doing[u][3] \in Pointer /\ Tracked(doing[u][3], object)
      BY DEF SysInv, DoingSound, Doing
    <2>2. \A u \in Thread : doing[u] # NULL =>
            Tracked(doing[u][2], object') /\ Tracked(doing[u][3], object')
      BY <1>6, <2>1, TrackedKept
    <2>3. QED BY <1>2, <1>6, <2>2, NumbersApart DEF SysInv, DoingSound
  <1>13. QED BY <1>2, <1>7, <1>9, <1>10, <1>11, <1>12 DEF SysInv, InCalls

(***************************************************************************)
(* Destroy: the pointers to the object become freed ones, and nothing else *)
(* changes; the queue of another object holds whom it held.                *)
(***************************************************************************)
LEMMA DestroyStep ==
  ASSUME SysInv, NEW t \in Thread, NEW kind \in Kind, NEW freed \in Freed,
         Destroy(t, kind, freed)
  PROVE  SysInv'
  <1>1. PICK id \in Id :
               /\ IsOpened(table[kind], id)
               /\ LET o == table[kind][id]
                  IN  /\ object' = [object EXCEPT ![o] = NULL]
                      /\ call' = [u \in Thread |->
                                    [i \in 1..Len(call[u]) |-> Left(call[u][i], o, freed)]]
                      /\ doing' = [u \in Thread |->
                                     IF doing[u] = NULL THEN NULL
                                     ELSE <<doing[u][1], Left(doing[u][2], o, freed),
                                            Left(doing[u][3], o, freed)>>]
               /\ table' = [table EXCEPT ![kind] = Erased(@, id)]
    BY DEF Destroy
  <1> DEFINE o == table[kind][id]
  <1>2. UNCHANGED <<running, asleep, fileTable, host, halted>>
    BY DEF Destroy, fileVars
  <1>3. /\ table \in [Kind -> [Id -> Object \cup {NULL}]] /\ ObjectIds(table, object)
        /\ FileIds(fileTable, host)
    BY HandlesHalves DEF SysInv, TablesSound
  <1>4. o \in Object /\ o \in Objects /\ object[o] # NULL /\ object[o].kind = kind
    BY <1>1, <1>3 DEF IsOpened, ObjectIds, Objects
  <1>5. /\ object' = [object EXCEPT ![o] = NULL]
        /\ call' = [u \in Thread |->
                      [i \in 1..Len(call[u]) |-> Left(call[u][i], o, freed)]]
        /\ doing' = [u \in Thread |->
                       IF doing[u] = NULL THEN NULL
                       ELSE <<doing[u][1], Left(doing[u][2], o, freed),
                              Left(doing[u][3], o, freed)>>]
        /\ table' = [table EXCEPT ![kind] = [@ EXCEPT ![id] = NULL]]
    BY <1>1 DEF Erased
  <1> HIDE DEF o
  <1>6. object \in [Objects -> SyncObject \cup {NULL}] /\ call \in [Thread -> Seq(Pointer)]
    BY DEF SysInv, InCalls, CallsSound
  <1>7. /\ object' \in [Objects -> SyncObject \cup {NULL}] /\ object'[o] = NULL
        /\ \A p \in Objects : p # o => object'[p] = object[p]
    BY <1>4, <1>5, <1>6
  <1>8. ASSUME NEW p \in Pointer, Tracked(p, object)
        PROVE  /\ Left(p, o, freed) \in Pointer /\ Tracked(Left(p, o, freed), object')
               /\ \A q \in Objects : q # o => (Left(p, o, freed) = q <=> p = q)
    <2>1. CASE p = o
      BY <2>1, FreedApart DEF Left, Tracked, Pointer
    <2>2. CASE p # o
      BY <1>7, <1>8, <2>2, PointerKinds DEF Left, Tracked
    <2>3. QED BY <2>1, <2>2
  <1>9. ASSUME NEW u \in Thread
        PROVE  /\ call[u] \in Seq(Pointer) /\ Len(call[u]) \in Nat
               /\ \A i \in 1..Len(call[u]) :
                    call[u][i] \in Pointer /\ Tracked(call[u][i], object)
               /\ Len(call[u]) <= 2 /\ OnceEach(call[u])
    BY <1>6 DEF SysInv, InCalls, CallsSound
  <1>10. ASSUME NEW u \in Thread
         PROVE  /\ call'[u] \in Seq(Pointer) /\ Len(call'[u]) = Len(call[u])
                /\ \A i \in 1..Len(call[u]) : call'[u][i] = Left(call[u][i], o, freed)
    <2> DEFINE new == [i \in 1..Len(call[u]) |-> Left(call[u][i], o, freed)]
    <2>1. call'[u] = new
      BY <1>5
    <2>2. \A i \in 1..Len(call[u]) : Left(call[u][i], o, freed) \in Pointer
      BY <1>8, <1>9
    <2>3. new \in Seq(Pointer) /\ Len(new) = Len(call[u])
      BY <1>9, <2>2
    <2>4. QED BY <2>1, <2>3
  <1>11. ASSUME NEW u \in Thread
         PROVE  /\ call'[u] = <<>> <=> call[u] = <<>>
                /\ \A q \in Objects : q # o =>
                     ((call'[u] # <<>> /\ call'[u][1] = q) <=> (call[u] # <<>> /\ call[u][1] = q))
    <2>1. call'[u] = <<>> <=> call[u] = <<>>
      BY <1>9, <1>10, EmptySeq
    <2>2. CASE call[u] = <<>>
      BY <2>1, <2>2
    <2>3. CASE call[u] # <<>>
      <3>1. 1 \in 1..Len(call[u])
        BY <1>9, <2>3, EmptySeq
      <3>2. QED BY <1>8, <1>9, <1>10, <2>1, <2>3, <3>1
    <2>4. QED BY <2>2, <2>3, <2>1
  <1>12. CallsSound(object', call', asleep, running)
    <2>1. ASSUME NEW u \in Thread
          PROVE  /\ Len(call'[u]) <= 2 /\ OnceEach(call'[u])
                 /\ \A i \in 1..Len(call'[u]) : Tracked(call'[u][i], object')
      <3>1. \A i \in 1..Len(call'[u]) : Tracked(call'[u][i], object')
        BY <1>8, <1>9, <1>10
      <3>2. \A i \in 1..Len(call[u]) : call'[u][i] \notin Freed => call'[u][i] = call[u][i]
        BY <1>10 DEF Left
      <3>3. OnceEach(call'[u])
        BY <1>9, <1>10, <3>2 DEF OnceEach
      <3>4. QED BY <1>9, <1>10, <3>1, <3>3
    <2>2. asleep \subseteq running /\ running \subseteq Thread /\ \A u \in asleep : call[u] # <<>>
      BY DEF SysInv, InCalls, CallsSound
    <2>3. \A u \in asleep : call'[u] # <<>>
      BY <1>11, <2>2
    <2>4. call' \in [Thread -> Seq(Pointer)]
      BY <1>5, <1>10
    <2>5. QED BY <1>7, <2>1, <2>2, <2>3, <2>4 DEF CallsSound
  <1>13. QueuesSound(object', call', asleep)
    <2> SUFFICES ASSUME NEW p \in Objects, object'[p] # NULL
                 PROVE  /\ Distinct(object'[p].queue)
                        /\ \A u \in Thread : Listed(object'[p].queue, u) <=>
                             (u \in asleep /\ call'[u] # <<>> /\ call'[u][1] = p)
      BY DEF QueuesSound
    <2>1. p # o /\ object'[p] = object[p]
      BY <1>7
    <2>2. QED BY <1>11, <2>1 DEF SysInv, InCalls, QueuesSound
  <1>14. CountsCovered(object', call', asleep, running)
    <2> SUFFICES ASSUME NEW p \in Objects, object'[p] # NULL, object'[p].queue # <<>>
                 PROVE  /\ 0 <= object'[p].count
                        /\ object'[p].count <= Cardinality(Heading(p, call', asleep, running))
      BY DEF CountsCovered
    <2>1. p # o /\ object'[p] = object[p]
      BY <1>7
    <2>2. running \subseteq Thread
      BY DEF SysInv, InCalls, CallsSound
    <2>3. Heading(p, call', asleep, running) = Heading(p, call, asleep, running)
      BY <1>11, <2>1, <2>2 DEF Heading
    <2>4. QED BY <2>1, <2>3 DEF SysInv, InCalls, CountsCovered
  <1>15. TablesSound'
    <2>1. /\ table' \in [Kind -> [Id -> Object \cup {NULL}]]
          /\ table'[kind][id] = NULL
          /\ \A m \in Kind, i \in Id : m # kind \/ i # id => table'[m][i] = table[m][i]
      BY <1>3, <1>5
    <2>2. ASSUME NEW m \in Kind, NEW i \in Id, table'[m][i] # NULL
          PROVE  /\ object'[table'[m][i]] # NULL /\ object'[table'[m][i]].kind = m
                 /\ \A j \in Id : table'[m][j] = table'[m][i] => i = j
      <3>1. (m # kind \/ i # id) /\ table'[m][i] = table[m][i] /\ table[m][i] # NULL
        BY <2>1, <2>2
      <3>2. /\ table[m][i] \in Objects /\ object[table[m][i]].kind = m
            /\ \A j \in Id : table[m][j] = table[m][i] => i = j
        BY <1>3, <3>1 DEF ObjectIds, Objects
      <3>3. table[m][i] # o
        BY <1>4, <3>1, <3>2 DEF o
      <3>4. object'[table[m][i]] = object[table[m][i]] /\ object[table[m][i]] # NULL
        BY <1>3, <1>7, <3>1, <3>2, <3>3 DEF ObjectIds
      <3>5. \A j \in Id : table'[m][j] = table[m][j] \/ table'[m][j] = NULL
        BY <2>1
      <3>6. QED BY <3>1, <3>2, <3>4, <3>5
    <2>3. ObjectIds(table', object')
      BY <2>2 DEF ObjectIds
    <2>4. HandlesSound' <=> ObjectIds(table', object') /\ FileIds(fileTable', host')
      BY DEF HandlesSound, ObjectIds, FileIds, IsOpened, Alive, IsClosed
    <2>5. QED BY <1>2, <1>3, <2>1, <2>3, <2>4 DEF SysInv, TablesSound
  <1>16. DoingSound'
    <2>1. object'[console] # NULL
      BY <1>4, <1>7, NumbersApart DEF SysInv, DoingSound
    <2>2. ASSUME NEW u \in Thread, doing[u] # NULL
          PROVE  /\ doing'[u] \in Doing
                 /\ Tracked(doing'[u][2], object') /\ Tracked(doing'[u][3], object')
      <3>1. /\ doing[u][1] \in {"Broadcast", "Read", "Write"}
            /\ doing[u][2] \in Pointer /\ Tracked(doing[u][2], object)
            /\ doing[u][3] \in Pointer /\ Tracked(doing[u][3], object)
        BY <2>2 DEF SysInv, DoingSound, Doing
      <3>2. doing'[u] = <<doing[u][1], Left(doing[u][2], o, freed), Left(doing[u][3], o, freed)>>
        BY <1>5, <2>2
      <3>3. /\ Left(doing[u][2], o, freed) \in Pointer
            /\ Tracked(Left(doing[u][2], o, freed), object')
            /\ Left(doing[u][3], o, freed) \in Pointer
            /\ Tracked(Left(doing[u][3], o, freed), object')
        BY <1>8, <3>1
      <3>4. QED BY <3>1, <3>2, <3>3 DEF Doing
    <2>3. \A u \in Thread : doing[u] = NULL => doing'[u] = NULL
      BY <1>5
    <2>4. doing' \in [Thread -> Doing \cup {NULL}]
      BY <1>5, <2>2, <2>3
    <2>5. QED BY <2>1, <2>2, <2>3, <2>4 DEF DoingSound
  <1>17. QED BY <1>2, <1>12, <1>13, <1>14, <1>15, <1>16 DEF SysInv, InCalls

(* Wait gives the lock back, if the thread has it, and goes on with the    *)
(* condition and then the lock.                                            *)
LEMMA CondWaitStep ==
  ASSUME SysInv, NEW t \in Thread, CondWait(t)
  PROVE  SysInv'
  <1>1. /\ Ready(t)
        /\ UNCHANGED <<running, table, doing, fileTable, host, halted>>
    BY DEF CondWait, fileVars
  <1>2. PICK c \in Names("cond"), l \in Names("lock") :
               IF Holding(t, l) THEN GoOn(t, <<c, l>>, Given(l, 1), asleep \ Readied(l))
                                ELSE GoOn(t, <<c, l>>, object, asleep)
    BY DEF CondWait
  <1>3. /\ c \in Objects /\ object[c] # NULL /\ l \in Objects /\ object[l] # NULL
        /\ c # l
    BY NamedObject DEF Kind
  <1>4. ASSUME NEW obs, NEW sl, InCalls(obs, call, sl, running), SameObjects(object, obs),
               t \notin sl, GoOn(t, <<c, l>>, obs, sl)
        PROVE  SysInv'
    <2>1. obs[c] # NULL /\ obs[l] # NULL
      BY <1>3, <1>4 DEF SameObjects
    <2>2. /\ <<c, l>> \in Seq(Pointer) /\ Len(<<c, l>>) = 2 /\ <<c, l>> # <<>>
          /\ <<c, l>>[1] = c /\ <<c, l>>[2] = l /\ c \notin Freed /\ l \notin Freed
      BY <1>3, FreedApart
    <2>3. /\ Len(<<c, l>>) <= 2 /\ OnceEach(<<c, l>>)
          /\ \A i \in 1..Len(<<c, l>>) : Tracked(<<c, l>>[i], obs)
      BY <1>3, <2>1, <2>2 DEF OnceEach, Tracked
    <2>4. t \in running \ sl /\ call[t] = <<>> /\ call \in [Thread -> Seq(Pointer)]
      BY <1>1, <1>4, ReadyThread
    <2>5. InCalls(obs, [call EXCEPT ![t] = <<c, l>>], sl, running)
      BY <1>4, <2>2, <2>3, <2>4, EnterKeeps
    <2>6. InCalls(object', call', asleep', running) /\ SameObjects(obs, object')
      BY <1>4, <2>2, <2>4, <2>5, GoOnKeeps
    <2>7. SameObjects(object, object')
      BY <1>4, <2>6 DEF SameObjects
    <2>8. QED BY <1>1, <2>6, <2>7, TablesKept DEF SysInv
  <1>5. CASE Holding(t, l)
    <2> DEFINE obs == Woken(object, l, 1)
               sl == asleep \ First(object, l)
    <2>1. Given(l, 1) = obs /\ asleep \ Readied(l) = sl
      BY DEF Given, Readied, Woken, First
    <2>2. InCalls(obs, call, sl, running) /\ SameObjects(object, obs)
      BY <1>3, GiveKeeps DEF SysInv
    <2>3. t \notin sl
      BY <1>1, ReadyThread
    <2>4. GoOn(t, <<c, l>>, obs, sl)
      BY <1>2, <1>5, <2>1
    <2> HIDE DEF obs, sl
    <2>5. QED BY <1>4, <2>2, <2>3, <2>4
  <1>6. CASE ~Holding(t, l)
    <2>1. InCalls(object, call, asleep, running) /\ SameObjects(object, object)
      BY DEF SysInv, SameObjects
    <2>2. t \notin asleep
      BY <1>1, ReadyThread
    <2>3. GoOn(t, <<c, l>>, object, asleep)
      BY <1>2, <1>6
    <2>4. QED BY <1>4, <2>1, <2>2, <2>3
  <1>7. QED BY <1>5, <1>6

(* Whatever call goes on with a sound object leaves the invariant.         *)
LEMMA SyncStep ==
  ASSUME SysInv, NEW t \in Thread,
         \/ SemWait(t) \/ SemSignal(t) \/ LockAcquire(t) \/ LockRelease(t)
         \/ CondSignal(t) \/ CondBroadcast(t) \/ BroadcastTurn(t) \/ Resume(t)
  PROVE  SysInv'
  <1>1. ASSUME InCalls(object', call', asleep', running'),
               SameObjects(object, object'), UNCHANGED <<table, fileTable, host, doing>>
        PROVE  SysInv'
    BY <1>1, TablesKept DEF SysInv
  <1>2. CASE SemWait(t)
    <2>1. PICK o \in Names("sem") : GoOn(t, <<o>>, object, asleep)
      BY <1>2 DEF SemWait
    <2>2. o \in Objects /\ object[o] # NULL
      BY NamedObject DEF Kind
    <2>3. Ready(t) /\ UNCHANGED <<running, table, doing, fileTable, host>>
      BY <1>2 DEF SemWait, fileVars
    <2>4. QED BY <1>1, <2>1, <2>2, <2>3, TakeOne
  <1>3. CASE SemSignal(t)
    <2>1. PICK o \in Names("sem") : Give(o, object[o].count + 1)
      BY <1>3 DEF SemSignal
    <2>2. o \in Objects /\ object[o] # NULL
      BY NamedObject DEF Kind
    <2>3. object[o].count \in Int
      BY <2>2, CountType
    <2>4. object[o].count + 1 \in Int
      BY <2>3
    <2>5. UNCHANGED <<running, table, call, doing, fileTable, host>>
      BY <1>3 DEF SemSignal, fileVars
    <2>6. QED BY <1>1, <2>1, <2>2, <2>4, <2>5, GiveOne
  <1>4. CASE LockAcquire(t)
    <2>1. PICK o \in Names("lock") : GoOn(t, <<o>>, object, asleep)
      BY <1>4 DEF LockAcquire
    <2>2. o \in Objects /\ object[o] # NULL
      BY NamedObject DEF Kind
    <2>3. Ready(t) /\ UNCHANGED <<running, table, doing, fileTable, host>>
      BY <1>4 DEF LockAcquire, fileVars
    <2>4. QED BY <1>1, <2>1, <2>2, <2>3, TakeOne
  <1>5. CASE LockRelease(t)
    <2>1. PICK o \in Names("lock") : Give(o, 1)
      BY <1>5 DEF LockRelease
    <2>2. o \in Objects /\ object[o] # NULL
      BY NamedObject DEF Kind
    <2>3. UNCHANGED <<running, table, call, doing, fileTable, host>>
      BY <1>5 DEF LockRelease, fileVars
    <2>4. QED BY <1>1, <2>1, <2>2, <2>3, GiveOne
  <1>6. CASE CondSignal(t)
    <2>1. PICK c \in Names("cond") : Give(c, 1)
      BY <1>6 DEF CondSignal
    <2>2. c \in Objects /\ object[c] # NULL
      BY NamedObject DEF Kind
    <2>3. UNCHANGED <<running, table, call, doing, fileTable, host>>
      BY <1>6 DEF CondSignal, fileVars
    <2>4. QED BY <1>1, <2>1, <2>2, <2>3, GiveOne
  <1>7. CASE CondBroadcast(t)
    <2>1. PICK c \in Names("cond"), l \in Names("lock") :
                 doing' = [doing EXCEPT ![t] = <<"Broadcast", c, l>>]
      BY <1>7 DEF CondBroadcast
    <2>2. c \in Objects /\ object[c] # NULL /\ l \in Objects /\ object[l] # NULL
      BY NamedObject DEF Kind
    <2>3. UNCHANGED <<running, table, object, call, asleep, fileTable, host>>
      BY <1>7 DEF CondBroadcast, fileVars
    <2>4. <<"Broadcast", c, l>> \in Doing
      BY <2>2, FreedApart DEF Doing
    <2>5. DoingSound'
      BY <2>1, <2>2, <2>3, <2>4 DEF SysInv, DoingSound, Tracked
    <2>6. SameObjects(object, object')
      BY <2>3 DEF SameObjects
    <2>7. QED BY <2>3, <2>5, <2>6, TablesKept DEF SysInv
  <1>8. CASE BroadcastTurn(t)
    <2>1. /\ doing[t] # NULL /\ doing[t][2] \notin Freed
          /\ UNCHANGED <<running, table, call, fileTable, host>>
      BY <1>8 DEF BroadcastTurn, fileVars
    <2>2. doing[t][2] \in Objects /\ object[doing[t][2]] # NULL
      BY <2>1, PointerKinds DEF SysInv, DoingSound, Doing, Tracked
    <2>3. CASE Give(doing[t][2], 1) /\ UNCHANGED doing
      BY <1>1, <2>1, <2>2, <2>3, GiveOne
    <2>4. CASE doing' = [doing EXCEPT ![t] = NULL] /\ UNCHANGED <<object, asleep>>
      <3>1. DoingSound'
        BY <2>4 DEF SysInv, DoingSound
      <3>2. SameObjects(object, object')
        BY <2>4 DEF SameObjects
      <3>3. QED BY <2>1, <2>4, <3>1, <3>2, TablesKept DEF SysInv
    <2>5. QED BY <1>8, <2>3, <2>4 DEF BroadcastTurn
  <1>9. CASE Resume(t)
    <2>1. /\ t \in running \ asleep /\ call[t] # <<>> /\ ~Dangles(call[t])
          /\ GoOn(t, call[t], object, asleep)
          /\ UNCHANGED <<running, table, doing, fileTable, host>>
      BY <1>9 DEF Resume, Awake, fileVars
    <2>2. call \in [Thread -> Seq(Pointer)] /\ [call EXCEPT ![t] = call[t]] = call
      BY DEF SysInv, InCalls, CallsSound
    <2>3. InCalls(object, [call EXCEPT ![t] = call[t]], asleep, running)
      BY <2>2 DEF SysInv
    <2>4. /\ call[t][1] \notin Freed
          /\ Len(call[t]) = 2 /\ call[t][2] \in Freed => object[call[t][1]].count = 0
      <3>1. call[t] \in Seq(Pointer) /\ 1 \in 1..Len(call[t])
        BY <2>1, <2>2, EmptySeq
      <3>2. call[t][1] \notin Freed
        BY <2>1, <3>1 DEF Dangles
      <3>3. ASSUME Len(call[t]) = 2, call[t][2] \in Freed PROVE object[call[t][1]].count = 0
        <4>1. 2 \in 1..Len(call[t]) /\ \A i \in 1..(2 - 1) : i = 1
          BY <3>3
        <4>2. QED BY <2>1, <3>2, <3>3, <4>1 DEF Dangles
      <3>4. QED BY <3>2, <3>3
    <2>5. /\ InCalls(object', call', asleep', running)
          /\ SameObjects(object, object')
      BY <2>1, <2>2, <2>3, <2>4, GoOnKeeps
    <2>6. QED BY <1>1, <2>1, <2>5
  <1>10. QED BY <1>2, <1>3, <1>4, <1>5, <1>6, <1>7, <1>8, <1>9

(* Read and Write, around the console's mutex.                             *)
LEMMA ConsoleStep ==
  ASSUME SysInv, NEW t \in Thread, NEW op \in {"Read", "Write"},
         BeginIO(t, op) \/ EndIO(t, op)
  PROVE  SysInv'
  <1>1. console \in Objects /\ object[console] # NULL
    BY NumbersApart DEF SysInv, DoingSound
  <1>2. CASE BeginIO(t, op)
    <2>1. /\ Ready(t) /\ doing' = [doing EXCEPT ![t] = <<op, console, console>>]
          /\ GoOn(t, <<console>>, object, asleep)
          /\ UNCHANGED <<running, table, fileTable, host>>
      BY <1>2 DEF BeginIO, fileVars
    <2>2. /\ InCalls(object', call', asleep', running')
          /\ SameObjects(object, object')
      BY <1>1, <2>1, TakeOne
    <2>3. TablesSound' /\ object'[console] # NULL
      BY <2>1, <2>2, TablesKept
    <2>4. <<op, console, console>> \in Doing
      BY <1>1, FreedApart DEF Doing
    <2>5. doing \in [Thread -> Doing \cup {NULL}]
      BY DEF SysInv, DoingSound
    <2>6. /\ doing' \in [Thread -> Doing \cup {NULL}]
          /\ doing'[t][2] = console /\ doing'[t][3] = console
          /\ \A u \in Thread : u # t => doing'[u] = doing[u]
      BY <2>1, <2>4, <2>5
    <2>7. \A u \in Thread : doing[u] # NULL =>
            Tracked(doing[u][2], object') /\ Tracked(doing[u][3], object')
      <3>1. \A p \in Objects : object[p] # NULL => object'[p] # NULL
        BY <2>2 DEF SameObjects
      <3>2. \A u \in Thread : doing[u] # NULL =>
              /\ doing[u][2] \in Pointer /\ Tracked(doing[u][2], object)
              /\ doing[u][3] \in Pointer /\ Tracked(doing[u][3], object)
        BY DEF SysInv, DoingSound, Doing
      <3>3. QED BY <3>1, <3>2, TrackedKept
    <2>8. \A u \in Thread : doing'[u] # NULL =>
            Tracked(doing'[u][2], object') /\ Tracked(doing'[u][3], object')
      BY <2>3, <2>6, <2>7 DEF Tracked
    <2>9. QED BY <2>2, <2>3, <2>6, <2>8 DEF SysInv, DoingSound
  <1>3. CASE EndIO(t, op)
    <2>1. /\ Give(console, 1) /\ doing' = [doing EXCEPT ![t] = NULL]
          /\ UNCHANGED <<running, table, call, fileTable, host>>
      BY <1>3 DEF EndIO, fileVars
    <2>2. /\ InCalls(object', call', asleep', running')
          /\ SameObjects(object, object')
      BY <1>1, <2>1, GiveOne
    <2>3. TablesSound' /\ object'[console] # NULL
      BY <2>1, <2>2, TablesKept
    <2>4. doing \in [Thread -> Doing \cup {NULL}]
      BY DEF SysInv, DoingSound
    <2>5. /\ doing' \in [Thread -> Doing \cup {NULL}]
          /\ \A u \in Thread : doing'[u] # NULL => doing'[u] = doing[u]
      BY <2>1, <2>4
    <2>6. \A u \in Thread : doing[u] # NULL =>
            Tracked(doing[u][2], object') /\ Tracked(doing[u][3], object')
      <3>1. \A p \in Objects : object[p] # NULL => object'[p] # NULL
        BY <2>2 DEF SameObjects
      <3>2. \A u \in Thread : doing[u] # NULL =>
              /\ doing[u][2] \in Pointer /\ Tracked(doing[u][2], object)
              /\ doing[u][3] \in Pointer /\ Tracked(doing[u][3], object)
        BY DEF SysInv, DoingSound, Doing
      <3>3. QED BY <3>1, <3>2, TrackedKept
    <2>7. \A u \in Thread : doing'[u] # NULL =>
            Tracked(doing'[u][2], object') /\ Tracked(doing'[u][3], object')
      BY <2>3, <2>5, <2>6 DEF Tracked
    <2>8. QED BY <2>2, <2>3, <2>5, <2>7 DEF SysInv, DoingSound
  <1>4. QED BY <1>2, <1>3

(***************************************************************************)
(* The calls on files and sockets: a descriptor leaves its id when it is   *)
(* closed, and the id leaves its descriptor.                               *)
(***************************************************************************)
LEMMA FileStep ==
  ASSUME SysInv, NEW t \in Thread,
         \/ CreateFile(t) \/ Open(t) \/ Close(t) \/ Socket(t) \/ Connect(t)
         \/ Bind(t) \/ Listen(t) \/ Accept(t) \/ Shutdown(t)
  PROVE  SysInv'
  <1>1. /\ fileTable \in [Id -> Fd \cup {NULL}]
        /\ host \in [Fd -> [state : HostState, id : Int]]
        /\ FileIds(fileTable, host)
    BY HandlesHalves DEF SysInv, TablesSound
  <1>2. UNCHANGED <<running, table, object, call, asleep, doing>>
    BY DEF CreateFile, Open, Close, Socket, Connect, Bind, Listen, Accept, Shutdown,
           SocketCall, FileCall
  <1>3. ASSUME fileTable' \in [Id -> Fd \cup {NULL}],
               host' \in [Fd -> [state : HostState, id : Int]],
               FileIds(fileTable', host')
        PROVE  SysInv'
    <2>1. HandlesSound' <=> ObjectIds(table', object') /\ FileIds(fileTable', host')
      BY DEF HandlesSound, ObjectIds, FileIds, IsOpened, Alive, IsClosed
    <2>2. TablesSound'
      BY <1>2, <1>3, <2>1, HandlesHalves DEF SysInv, TablesSound
    <2>3. QED BY <1>2, <2>2 DEF SysInv, DoingSound
  <1>4. ASSUME NEW st \in HostState \ {"closed"}, NEW id \in {-1, Find(fileTable)},
               HostOpen(st, id)
        PROVE  SysInv'
    <2>1. PICK f \in Fd : /\ host[f].state = "closed"
                          /\ host' = [host EXCEPT ![f] = [state |-> st, id |-> id]]
                          /\ fileTable' = IF id = -1 THEN fileTable ELSE Opened(fileTable, f)
      BY <1>4 DEF HostOpen, IsClosed
    <2>2. QED BY <1>1, <1>3, <2>1, OpenedFile
  <1>5. CASE CreateFile(t) \/ Open(t) \/ Socket(t) \/ Accept(t)
    BY <1>4, <1>5 DEF CreateFile, Open, Socket, Accept, HostState
  <1>6. ASSUME NEW from, NEW to \in HostState \ {"closed"}, SocketCall(t, from, to)
        PROVE  SysInv'
    <2>1. PICK id \in Id : /\ fileTable[id] # NULL
                           /\ host' = [host EXCEPT ![fileTable[id]].state = to]
      BY <1>6 DEF SocketCall, IsOpened
    <2>2. fileTable' = fileTable
      BY <1>6 DEF SocketCall
    <2> DEFINE f == fileTable[id]
    <2>3. f \in Fd /\ host[f] \in [state : HostState, id : Int]
      BY <1>1, <2>1
    <2> HIDE DEF f
    <2>4. host' = [host EXCEPT ![f] = [host[f] EXCEPT !.state = to]]
      BY <2>1 DEF f
    <2>5. /\ [host[f] EXCEPT !.state = to] \in [state : HostState, id : Int]
          /\ [host[f] EXCEPT !.state = to].state = to
          /\ [host[f] EXCEPT !.state = to].id = host[f].id
      BY <2>3
    <2>6. /\ host' \in [Fd -> [state : HostState, id : Int]]
          /\ host'[f].state = to /\ host'[f].id = host[f].id
          /\ \A g \in Fd : g # f => host'[g] = host[g]
      BY <1>1, <2>3, <2>4, <2>5
    <2>7. \A g \in Fd : /\ host[g].state # "closed" => host'[g].state # "closed"
                        /\ host'[g].id = host[g].id
      BY <2>6
    <2>8. FileIds(fileTable', host')
      BY <1>1, <2>2, <2>7 DEF FileIds
    <2>9. QED BY <1>1, <1>3, <2>2, <2>6, <2>8
  <1>7. CASE Connect(t) \/ Bind(t) \/ Listen(t)
    BY <1>6, <1>7 DEF Connect, Bind, Listen, HostState
  <1>8. CASE Close(t)
    <2>1. PICK id \in Id : /\ fileTable[id] # NULL
                           /\ host' = [host EXCEPT ![fileTable[id]] = Closed]
                           /\ fileTable' = [fileTable EXCEPT ![id] = NULL]
      BY <1>8 DEF Close, IsOpened, Erased
    <2>2. fileTable[id] \in Fd
      BY <1>1, <2>1
    <2>3. Closed \in [state : HostState, id : Int]
      BY DEF Closed, HostState
    <2>4. /\ host' \in [Fd -> [state : HostState, id : Int]]
          /\ \A g \in Fd : g # fileTable[id] => host'[g] = host[g]
      BY <1>1, <2>1, <2>2, <2>3
    <2>5. /\ fileTable' \in [Id -> Fd \cup {NULL}] /\ fileTable'[id] = NULL
          /\ \A i \in Id : i # id => fileTable'[i] = fileTable[i]
      BY <1>1, <2>1
    <2>6. \A i \in Id : fileTable'[i] # NULL =>
            /\ fileTable'[i] = fileTable[i] /\ fileTable[i] \in Fd
            /\ fileTable[i] # fileTable[id]
      BY <1>1, <2>2, <2>5 DEF FileIds
    <2>7. FileIds(fileTable', host')
      BY <1>1, <2>4, <2>6 DEF FileIds
    <2>8. QED BY <1>3, <2>4, <2>5, <2>7
  <1>9. CASE Shutdown(t)
    <2>1. PICK id \in Id :
                 /\ fileTable[id] # NULL
                 /\ host' = [host EXCEPT ![fileTable[id]].id = givenUp]
                 /\ \/ fileTable' = fileTable
                    \/ /\ fileTable[id] \in Id
                       /\ fileTable' = [fileTable EXCEPT ![fileTable[id]] = NULL]
      BY <1>9 DEF Shutdown, IsOpened, Erased
    <2> DEFINE f == fileTable[id]
    <2>2. f \in Fd /\ host[f] \in [state : HostState, id : Int]
      BY <1>1, <2>1
    <2>3. /\ fileTable' \in [Id -> Fd \cup {NULL}]
          /\ \A i \in Id : fileTable'[i] # NULL => fileTable'[i] = fileTable[i]
      BY <1>1, <2>1
    <2> HIDE DEF f
    <2>4. host' = [host EXCEPT ![f] = [host[f] EXCEPT !.id = givenUp]]
      BY <2>1 DEF f
    <2>5. /\ [host[f] EXCEPT !.id = givenUp] \in [state : HostState, id : Int]
          /\ [host[f] EXCEPT !.id = givenUp].state = host[f].state
          /\ [host[f] EXCEPT !.id = givenUp].id = givenUp
      BY <2>2 DEF givenUp
    <2>6. /\ host' \in [Fd -> [state : HostState, id : Int]]
          /\ \A g \in Fd : /\ host'[g].state = host[g].state
                           /\ host'[g].id \in {host[g].id, givenUp}
      BY <1>1, <2>2, <2>4, <2>5
    <2>7. FileIds(fileTable', host')
      BY <1>1, <2>3, <2>6 DEF FileIds
    <2>8. QED BY <1>3, <2>3, <2>6, <2>7
  <1>10. QED BY <1>5, <1>7, <1>8, <1>9

(* Exit, which only a thread outside of every call can reach.              *)
LEMMA ExitStep ==
  ASSUME SysInv, NEW t \in Thread, Exit(t)
  PROVE  SysInv'
  <1>1. /\ t \in running \ asleep /\ call[t] = <<>> /\ running' = running \ {t}
        /\ UNCHANGED <<object, call, asleep, doing, host>>
    BY ReadyThread DEF Exit
  <1>2. \A o \in Objects : Heading(o, call, asleep, running') = Heading(o, call, asleep, running)
    BY <1>1 DEF Heading
  <1>3. InCalls(object', call', asleep', running')
    <2>1. CallsSound(object', call', asleep', running')
      BY <1>1 DEF SysInv, InCalls, CallsSound
    <2>2. QueuesSound(object', call', asleep')
      BY <1>1 DEF SysInv, InCalls
    <2>3. CountsCovered(object', call', asleep', running')
      BY <1>1, <1>2 DEF SysInv, InCalls, CountsCovered
    <2>4. QED BY <2>1, <2>2, <2>3 DEF InCalls
  <1>4. TablesSound'
    <2>1. HandlesSound' <=> ObjectIds(table', object') /\ FileIds(fileTable', host')
      BY DEF HandlesSound, ObjectIds, FileIds, IsOpened, Alive, IsClosed
    <2>2. CASE running' = {}
      <3>1. /\ table' = [k \in Kind |-> [i \in Id |-> NULL]]
            /\ fileTable' = [i \in Id |-> NULL]
        BY <2>2 DEF Exit
      <3>2. ObjectIds(table', object') /\ FileIds(fileTable', host')
        BY <3>1 DEF ObjectIds, FileIds
      <3>3. QED BY <1>1, <2>1, <3>1, <3>2 DEF SysInv, TablesSound
    <2>3. CASE running' # {}
      <3>1. UNCHANGED <<table, fileTable>>
        BY <2>3 DEF Exit
      <3>2. QED BY <1>1, <2>1, <3>1, HandlesHalves DEF SysInv, TablesSound
    <2>4. QED BY <2>2, <2>3
  <1>5. QED BY <1>1, <1>3, <1>4 DEF SysInv, DoingSound

(* Every system call leaves the invariant.                                 *)
LEMMA SysInvStep == SysInv /\ [SysNext]_sysVars => SysInv'
  <1> SUFFICES ASSUME SysInv, [SysNext]_sysVars PROVE SysInv'
    OBVIOUS
  <1>1. ASSUME UNCHANGED <<running, table, object, call, asleep, doing, fileTable, host>>
        PROVE  SysInv'
    <2>1. SameObjects(object, object')
      BY <1>1 DEF SameObjects
    <2>2. QED BY <1>1, <2>1, TablesKept DEF SysInv
  <1>2. CASE UNCHANGED sysVars
    BY <1>1, <1>2 DEF sysVars
  <1>3. ASSUME NEW t \in Thread, BadId(t) \/ Halt(t) \/ UseFreed(t) PROVE SysInv'
    BY <1>1, <1>3 DEF BadId, Halt, UseFreed, fileVars
  <1>4. ASSUME NEW t \in Thread, SemCreate(t) \/ LockCreate(t) \/ CondCreate(t) PROVE SysInv'
    <2>1. CASE SemCreate(t)
      <3>1. PICK v \in (-MaxValue)..MaxValue : Create(t, "sem", v)
        BY <2>1 DEF SemCreate
      <3>2. v \in Int
        BY SyscallsAssumption
      <3>3. QED BY <3>1, <3>2, CreateStep DEF Kind
    <2>2. CASE LockCreate(t) \/ CondCreate(t)
      BY <2>2, CreateStep DEF LockCreate, CondCreate, Kind
    <2>3. QED BY <1>4, <2>1, <2>2
  <1>5. ASSUME NEW t \in Thread, SemDestroy(t) \/ LockDestroy(t) \/ CondDestroy(t) PROVE SysInv'
    BY <1>5, DestroyStep DEF SemDestroy, LockDestroy, CondDestroy, Kind, Freed
  <1>6. ASSUME NEW t \in Thread, Write(t) \/ Read(t) PROVE SysInv'
    BY <1>6, ConsoleStep DEF Write, Read
  <1>7. QED
    BY <1>2, <1>3, <1>4, <1>5, <1>6, SyncStep, CondWaitStep, FileStep, ExitStep DEF SysNext

-----------------------------------------------------------------------------
(* The number of threads in a queue without repetitions.                   *)
LEMMA QueueLength ==
  ASSUME NEW S, NEW list \in Seq(S), Distinct(list)
  PROVE  Cardinality({list[i] : i \in 1..Len(list)}) = Len(list)
  <1> DEFINE T == {list[i] : i \in 1..Len(list)}
             f == [i \in 1..Len(list) |-> list[i]]
  <1>1. Len(list) \in Nat
    OBVIOUS
  <1>2. f \in Bijection(1..Len(list), T)
    <2>1. f \in [1..Len(list) -> T]
      OBVIOUS
    <2>2. \A i, j \in 1..Len(list) : f[i] = f[j] => i = j
      BY DEF Distinct
    <2>3. \A x \in T : \E i \in 1..Len(list) : f[i] = x
      OBVIOUS
    <2> HIDE DEF f, T
    <2>4. f \in Injection(1..Len(list), T)
      BY <2>1, <2>2 DEF Injection, IsInjective
    <2>5. f \in Surjection(1..Len(list), T)
      BY <2>1, <2>3 DEF Surjection
    <2>6. QED BY <2>4, <2>5 DEF Bijection
  <1>3. ExistsBijection(1..Len(list), T)
    BY <1>2 DEF ExistsBijection
  <1>4. QED BY <1>1, <1>3, FS_CountingElements

(***************************************************************************)
(* While a table holds an id, it leads to one living object of its kind,   *)
(* or to one open descriptor that was opened under it, and no other id     *)
(* leads there, whatever was closed, deleted or shut down before.          *)
(***************************************************************************)
THEOREM SyscallsHandlesSound == SysSpec => []HandlesSound
  <1>1. SysInv => HandlesSound
    BY DEF SysInv, TablesSound
  <1>2. QED BY <1>1, SysInvInit, SysInvStep, PTL DEF SysSpec

(***************************************************************************)
(* A thread asleep in a call is in one queue, once, that of the object it  *)
(* is about to take, unless that very object was deleted under it; also in *)
(* programs that wait on a condition without its lock or delete what       *)
(* others use.                                                             *)
(***************************************************************************)
THEOREM SyscallsSleepersQueued == SysSpec => []SleepersQueued
  <1>1. ASSUME SysInv PROVE SleepersQueued
    <2>1. \A o \in LiveObjects : /\ o \in Objects /\ object[o] # NULL
                                 /\ object[o].queue \in Seq(Thread)
      BY <1>1, ObjectFields DEF LiveObjects, Alive, Objects, SysInv, InCalls, CallsSound
    <2>2. \A o \in LiveObjects : Cardinality(Waiting(o)) = Len(object[o].queue)
      <3> TAKE o \in LiveObjects
      <3>1. Distinct(object[o].queue)
        BY <1>1, <2>1 DEF SysInv, InCalls, QueuesSound
      <3>2. QED BY <2>1, <3>1, QueueLength DEF Waiting
    <2>3. \A o \in LiveObjects, t \in Thread : t \in Waiting(o) <=> Listed(object[o].queue, t)
      BY DEF Waiting, Listed
    <2>4. \A t \in Thread : call[t] # <<>> => /\ Head(call[t]) = call[t][1]
                                              /\ 1 \in 1..Len(call[t])
                                              /\ call[t][1] \in Pointer
      <3> TAKE t \in Thread
      <3>1. call[t] \in Seq(Pointer)
        BY <1>1 DEF SysInv, InCalls, CallsSound
      <3>2. QED BY <3>1, EmptySeq
    <2>5. \A t \in Thread, o \in LiveObjects :
            t \in Waiting(o) <=> t \in asleep /\ call[t] # <<>> /\ Head(call[t]) = o
      BY <1>1, <2>1, <2>3, <2>4 DEF SysInv, InCalls, QueuesSound
    <2>6. ASSUME NEW t \in asleep
          PROVE  /\ call[t] # <<>>
                 /\ Head(call[t]) \in Freed \/ \E o \in LiveObjects : t \in Waiting(o)
      <3>1. t \in Thread /\ call[t] # <<>>
        BY <1>1, <2>6 DEF SysInv, InCalls, CallsSound
      <3>2. Tracked(call[t][1], object)
        BY <1>1, <2>4, <3>1 DEF SysInv, InCalls, CallsSound
      <3>3. call[t][1] \in Freed \/ call[t][1] \in LiveObjects
        BY <2>4, <3>1, <3>2, PointerKinds DEF LiveObjects, Alive, Objects, Tracked
      <3>4. QED BY <2>4, <2>5, <3>1, <3>3
    <2>7. QED BY <2>2, <2>5, <2>6 DEF SleepersQueued
  <1>2. QED BY <1>1, SysInvInit, SysInvStep, PTL DEF SysSpec

(***************************************************************************)
(* Nobody sleeps in front of an object that can be taken while no readied  *)
(* thread is on its way to take it: no V, Release, Signal, Broadcast or    *)
(* Unlock is lost, whatever the other threads do between it and the moment *)
(* the readied thread runs.                                                *)
(***************************************************************************)
THEOREM SyscallsNoneOverlooked == SysSpec => []NoneOverlooked
  <1>1. ASSUME SysInv PROVE NoneOverlooked
    <2> SUFFICES ASSUME NEW o \in LiveObjects, object[o].count # 0, object[o].queue # <<>>
                 PROVE  \E t \in running \ asleep : call[t] # <<>> /\ Head(call[t]) = o
      BY DEF NoneOverlooked
    <2>1. o \in Objects /\ object[o] # NULL
      BY DEF LiveObjects, Alive, Objects
    <2>2. /\ 0 <= object[o].count
          /\ object[o].count <= Cardinality(Heading(o, call, asleep, running))
      BY <1>1, <2>1 DEF SysInv, InCalls, CountsCovered
    <2>3. object[o].count \in Int
      BY <1>1, <2>1, CountType
    <2>4. Heading(o, call, asleep, running) # {}
      <3>1. Cardinality({}) = 0
        BY FS_EmptySet
      <3>2. Cardinality(Heading(o, call, asleep, running)) # 0
        BY <2>2, <2>3
      <3>3. QED BY <3>1, <3>2, Zenon
    <2>5. PICK t \in running \ asleep : call[t] # <<>> /\ call[t][1] = o
      BY <2>4 DEF Heading
    <2>6. call[t] \in Seq(Pointer)
      BY <1>1 DEF SysInv, InCalls, CallsSound
    <2>7. Head(call[t]) = call[t][1]
      BY <2>5, <2>6
    <2>8. QED BY <2>5, <2>7
  <1>2. QED BY <1>1, SysInvInit, SysInvStep, PTL DEF SysSpec
=============================================================================
