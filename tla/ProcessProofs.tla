---------------------------- MODULE ProcessProofs ----------------------------
(***************************************************************************)
(* Proofs about Process, for any number of threads, frames and pages and   *)
(* any size of the control tables.                                         *)
(***************************************************************************)
EXTENDS Process, QueueLemmas, FiniteSetTheorems

LiveThreads == {t \in Thread : Live(t)}

(* The table names living threads only, each under one id.                 *)
TableNamesLiving ==
  /\ \A i \in Id : threadTable[i] # NULL => Live(threadTable[i])
  /\ \A i, j \in Id : threadTable[i] # NULL /\ threadTable[i] = threadTable[j] => i = j

(* The user count is the number of living threads.                         *)
UsersCounted ==
  /\ IsFiniteSet(LiveThreads)
  /\ users = Cardinality(LiveThreads)
  /\ deleted => LiveThreads = {}

(* The queue of a thread's join semaphore holds threads asleep in Join of  *)
(* that thread, and who has been woken waited for some thread.             *)
JoinersQueued ==
  /\ \A t \in Thread : \A i \in 1..Len(joinQueue[t]) :
       tstate[joinQueue[t][i]] = "joining" /\ joinTarget[joinQueue[t][i]] = t
  /\ \A t \in Thread : tstate[t] = "woken" => joinTarget[t] \in Thread

(* A thread has its space from the moment it starts to the end of Finish,  *)
(* and the counter of that space is what the constructor left in it.       *)
SpacesOfLiving ==
  \A t \in Thread :
    /\ HasSpace(t) <=> tstate[t] \in {"running", "exiting", "joining", "woken", "lost"}
    /\ HasSpace(t) => usage[t] \in {1, 2}

(* The pages a space took frames for: all of them when it was loaded, the  *)
(* stack when it was copied.                                               *)
OwnPages(t) == IF usage[t] = 1 THEN 1..NumPages ELSE StackPage

Owned(t) == IF HasSpace(t) THEN {pageTable[t][i] : i \in OwnPages(t)} ELSE {}

(* The marked frames are those the existing spaces took, each one once.    *)
OwnFrames ==
  /\ physicalPageMap = UNION {Owned(t) : t \in Thread}
  /\ \A t, u \in Thread : t # u => Owned(t) \cap Owned(u) = {}
  /\ \A t \in Thread : HasSpace(t) =>
       \A i, j \in OwnPages(t) : pageTable[t][i] = pageTable[t][j] => i = j

(* The history variable loader: the loader of a program has started, is    *)
(* the one whose counter is 1, and its code and data are those of every    *)
(* thread of the program.                                                  *)
LoadersSound ==
  /\ \A t \in Thread : HasSpace(t) =>
       /\ tstate[loader[t]] \notin {"absent", "forked"}
       /\ loader[loader[t]] = loader[t]
       /\ usage[t] = 1 <=> loader[t] = t
  /\ \A t, u \in Thread : HasSpace(t) /\ HasSpace(u) /\ loader[t] = loader[u] =>
       \A i \in GlobalPage : pageTable[t][i] = pageTable[u][i]

(* The inductive strengthening of the properties of Process.               *)
ProcIInv ==
  /\ ProcTypeOK
  /\ TableNamesLiving
  /\ UsersCounted
  /\ JoinersQueued
  /\ JoinAfterFinish
  /\ SpacesOfLiving
  /\ OwnFrames
  /\ LoadersSound

-----------------------------------------------------------------------------
(* Memory                                                                  *)

(* The pages of a space are its code and data and its stack.               *)
LEMMA PageNumbers ==
  /\ NumPages \in Nat \ {0}
  /\ GlobalPage \cup StackPage = 1..NumPages
  /\ StackPage \subseteq 1..NumPages
  BY AddrSpaceAssumption DEF NumPages, GlobalPage, StackPage

(* A page table that has been filled is not the empty one.                 *)
LEMMA FilledTable ==
  ASSUME NEW frames \in [1..NumPages -> Frame]
  PROVE  frames # <<>>
  <1>1. 1 \in DOMAIN frames
    BY PageNumbers
  <1>2. 1 \notin DOMAIN <<>>
    OBVIOUS
  <1>3. QED BY <1>1, <1>2

(* The constructors of AddrSpace give a thread without a space frames that *)
(* no other space has: all of them for a program (usage 1), those of the   *)
(* stack for a forked thread (usage 2).                                    *)
LEMMA SpaceTaken ==
  ASSUME SpaceTypeOK, OwnFrames, NEW t \in Thread, ~HasSpace(t),
         NEW frames \in [1..NumPages -> Frame], NEW n \in {1, 2},
         NEW pages, pages = IF n = 1 THEN 1..NumPages ELSE StackPage,
         Found(frames, pages),
         pageTable' = [pageTable EXCEPT ![t] = frames],
         usage' = [usage EXCEPT ![t] = n],
         loader' \in [Thread -> Thread]
  PROVE  /\ SpaceTypeOK' /\ OwnFrames'
         /\ HasSpace(t)' /\ usage'[t] = n
         /\ \A u \in Thread : u # t =>
              (HasSpace(u)' <=> HasSpace(u)) /\ usage'[u] = usage[u]
  <1> DEFINE new == {frames[i] : i \in pages}
  <1>1. /\ pageTable'[t] = frames /\ usage'[t] = n
        /\ \A u \in Thread : u # t => pageTable'[u] = pageTable[u] /\ usage'[u] = usage[u]
    BY DEF SpaceTypeOK
  <1>2. pages \subseteq 1..NumPages /\ new \subseteq Frame
    BY PageNumbers
  <1>3. HasSpace(t)' /\ OwnPages(t)' = pages /\ Owned(t)' = new
    BY <1>1, FilledTable DEF HasSpace, OwnPages, Owned
  <1>4. \A u \in Thread : u # t =>
          /\ HasSpace(u)' <=> HasSpace(u)
          /\ OwnPages(u)' = OwnPages(u) /\ Owned(u)' = Owned(u)
    BY <1>1 DEF HasSpace, OwnPages, Owned
  <1>5. Owned(t) = {}
    BY DEF Owned
  <1>6. new \cap physicalPageMap = {} /\ physicalPageMap' = physicalPageMap \cup new
    BY DEF Found
  <1>7. \A i, j \in pages : frames[i] = frames[j] => i = j
    <2>1. \A i \in pages : i \in Int /\ frames[i] \in Int
      BY <1>2 DEF Frame
    <2>2. \A i, j \in pages : i < j => frames[i] < frames[j]
      BY DEF Found
    <2>3. QED BY <2>1, <2>2
  <1>8. SpaceTypeOK'
    <2>1. physicalPageMap' \subseteq Frame
      BY <1>2, <1>6 DEF SpaceTypeOK
    <2>2. pageTable' \in [Thread -> {<<>>} \cup [1..NumPages -> Frame]]
      BY DEF SpaceTypeOK
    <2>3. usage' \in [Thread -> Int]
      BY DEF SpaceTypeOK
    <2>4. QED BY <2>1, <2>2, <2>3 DEF SpaceTypeOK
  <1> HIDE DEF new
  <1>9. physicalPageMap' = UNION {Owned(u)' : u \in Thread}
    <2>1. \A f : f \in physicalPageMap <=> \E u \in Thread : f \in Owned(u)
      BY DEF OwnFrames
    <2>2. \A f : f \in physicalPageMap' <=> \E u \in Thread : f \in Owned(u)'
      BY <1>3, <1>4, <1>5, <1>6, <2>1
    <2>3. QED BY <2>2
  <1>10. \A u, v \in Thread : u # v => Owned(u)' \cap Owned(v)' = {}
    <2>1. \A u \in Thread : Owned(u) \cap new = {}
      BY <1>6 DEF OwnFrames
    <2>2. QED BY <1>3, <1>4, <2>1 DEF OwnFrames
  <1>11. ASSUME NEW u \in Thread, HasSpace(u)', NEW i \in OwnPages(u)',
                NEW j \in OwnPages(u)', pageTable'[u][i] = pageTable'[u][j]
         PROVE  i = j
    <2>1. CASE u = t
      <3>1. i \in pages /\ j \in pages /\ frames[i] = frames[j]
        BY <1>1, <1>3, <1>11, <2>1
      <3>2. QED BY <1>7, <3>1
    <2>2. CASE u # t
      BY <1>1, <1>4, <1>11, <2>2 DEF OwnFrames
    <2>3. QED BY <2>1, <2>2
  <1>12. OwnFrames'
    BY <1>9, <1>10, <1>11 DEF OwnFrames
  <1>13. QED BY <1>1, <1>3, <1>4, <1>8, <1>12

(* The destructor gives back exactly the frames that the space took.       *)
LEMMA SpaceDeleted ==
  ASSUME SpaceTypeOK, OwnFrames, NEW t \in Thread, HasSpace(t),
         usage[t] \in {1, 2}, DeleteSpace(t)
  PROVE  /\ SpaceTypeOK' /\ OwnFrames' /\ ~HasSpace(t)'
         /\ \A u \in Thread : u # t =>
              (HasSpace(u)' <=> HasSpace(u)) /\ usage'[u] = usage[u]
  <1>1. /\ pageTable'[t] = <<>> /\ usage'[t] = usage[t] - 1
        /\ \A u \in Thread : u # t => pageTable'[u] = pageTable[u] /\ usage'[u] = usage[u]
    BY DEF SpaceTypeOK, DeleteSpace
  <1>2. physicalPageMap' = physicalPageMap \ Owned(t)
    <2> DEFINE global == {pageTable[t][i] : i \in GlobalPage}
               stack == {pageTable[t][i] : i \in StackPage}
    <2>1. CASE usage[t] = 1
      <3>1. Owned(t) = global \cup stack
        BY <2>1, PageNumbers DEF Owned, OwnPages
      <3>2. QED BY <1>1, <2>1, <3>1 DEF DeleteSpace
    <2>2. CASE usage[t] = 2
      <3>1. Owned(t) = stack
        BY <2>2 DEF Owned, OwnPages
      <3>2. QED BY <1>1, <2>2, <3>1 DEF DeleteSpace
    <2>3. QED BY <2>1, <2>2
  <1>3. ~HasSpace(t)' /\ Owned(t)' = {}
    BY <1>1 DEF HasSpace, Owned
  <1>4. \A u \in Thread : u # t =>
          /\ HasSpace(u)' <=> HasSpace(u)
          /\ OwnPages(u)' = OwnPages(u) /\ Owned(u)' = Owned(u)
    <2> SUFFICES ASSUME NEW u \in Thread, u # t
                 PROVE  /\ HasSpace(u)' <=> HasSpace(u)
                        /\ OwnPages(u)' = OwnPages(u) /\ Owned(u)' = Owned(u)
      OBVIOUS
    <2>1. pageTable'[u] = pageTable[u] /\ usage'[u] = usage[u]
      BY <1>1
    <2>2. QED BY <2>1 DEF HasSpace, OwnPages, Owned
  <1>5. SpaceTypeOK'
    BY <1>2 DEF SpaceTypeOK, DeleteSpace
  <1>6. physicalPageMap' = UNION {Owned(u)' : u \in Thread}
    <2>1. \A f : f \in physicalPageMap <=> \E u \in Thread : f \in Owned(u)
      BY DEF OwnFrames
    <2>2. \A u \in Thread : u # t => Owned(u) \cap Owned(t) = {}
      BY DEF OwnFrames
    <2>3. \A f : f \in physicalPageMap' <=> \E u \in Thread : f \in Owned(u)'
      BY <1>2, <1>3, <1>4, <2>1, <2>2
    <2>4. QED BY <2>3
  <1>7. \A u, v \in Thread : u # v => Owned(u)' \cap Owned(v)' = {}
    BY <1>3, <1>4 DEF OwnFrames
  <1>8. \A u \in Thread : HasSpace(u)' =>
          \A i, j \in OwnPages(u)' : pageTable'[u][i] = pageTable'[u][j] => i = j
    BY <1>1, <1>3, <1>4 DEF OwnFrames
  <1>9. OwnFrames'
    BY <1>6, <1>7, <1>8 DEF OwnFrames
  <1>10. QED BY <1>1, <1>3, <1>4, <1>5, <1>9

-----------------------------------------------------------------------------
(* The control table and the user count                                    *)

(* ControlTable::Open returns an id of the table or -1.                    *)
LEMMA OpenIdType == OpenId \in Id \cup {-1}
  <1> DEFINE clear == {id \in Id : threadTable[id] = NULL}
  <1>1. CASE clear = {}
    BY <1>1 DEF OpenId
  <1>2. CASE clear # {}
    <2>1. clear \subseteq Nat
      BY ProcessAssumption DEF Id
    <2>2. \E id \in clear : \A other \in clear : id <= other
      BY <1>2, <2>1, LeastNatural
    <2>3. OpenId \in clear
      BY <1>2, <2>2 DEF OpenId
    <2>4. QED BY <2>3
  <1>3. QED BY <1>1, <1>2

(* ControlTable::Open enters a new thread once; the others stay.           *)
LEMMA TableOpened ==
  ASSUME ProcTypeOK, TableNamesLiving, NEW u \in Thread, ~Live(u),
         threadTable' = Opened(u), \A v \in Thread : Live(v) \/ v = u => Live(v)'
  PROVE  TableNamesLiving' /\ threadTable' \in [Id -> Thread \cup {NULL}]
  <1>1. \A i \in Id : threadTable[i] # u
    BY ProcessAssumption DEF TableNamesLiving
  <1>2. \A i \in Id : threadTable'[i] = IF i = OpenId THEN u ELSE threadTable[i]
    BY DEF Opened
  <1>3. \A i \in Id : threadTable[i] \in Thread \cup {NULL}
    BY DEF ProcTypeOK
  <1>4. threadTable' \in [Id -> Thread \cup {NULL}]
    BY <1>3 DEF Opened
  <1>5. \A i \in Id : threadTable'[i] # NULL => Live(threadTable[i])'
    BY <1>2, <1>3 DEF TableNamesLiving
  <1>6. \A i, j \in Id : threadTable'[i] # NULL /\ threadTable'[i] = threadTable'[j] => i = j
    BY <1>1, <1>2 DEF TableNamesLiving
  <1>7. QED BY <1>4, <1>5, <1>6 DEF TableNamesLiving

(* A step after which the same threads live keeps what is counted of them. *)
LEMMA SameThreadsLive ==
  ASSUME ProcIInv, \A v \in Thread : Live(v)' <=> Live(v),
         UNCHANGED <<threadTable, users, deleted>>
  PROVE  TableNamesLiving' /\ UsersCounted'
  <1>1. LiveThreads' = LiveThreads
    BY DEF LiveThreads
  <1>2. UsersCounted'
    BY <1>1 DEF ProcIInv, UsersCounted
  <1>3. \A i \in Id : threadTable[i] # NULL => threadTable[i] \in Thread
    BY DEF ProcIInv, ProcTypeOK
  <1>4. TableNamesLiving'
    BY <1>3 DEF ProcIInv, TableNamesLiving
  <1>5. QED BY <1>2, <1>4

(* ShareResources counts the thread that has been created.                 *)
LEMMA OneMoreUser ==
  ASSUME UsersCounted, NEW u \in Thread, ~Live(u), NEW t \in Thread, Live(t),
         \A v \in Thread : Live(v)' <=> (Live(v) \/ v = u),
         users' = users + 1, UNCHANGED deleted
  PROVE  UsersCounted'
  <1>1. LiveThreads' = LiveThreads \cup {u} /\ u \notin LiveThreads
    BY DEF LiveThreads
  <1>2. IsFiniteSet(LiveThreads') /\ Cardinality(LiveThreads') = Cardinality(LiveThreads) + 1
    BY <1>1, FS_AddElement DEF UsersCounted
  <1>3. ~deleted
    BY DEF UsersCounted, LiveThreads
  <1>4. QED BY <1>2, <1>3 DEF UsersCounted

(* removeResources: the thread that finishes leaves the table and the      *)
(* count, and the last one deletes the tables.                             *)
LEMMA OneUserLess ==
  ASSUME ProcTypeOK, TableNamesLiving, UsersCounted, NEW t \in Thread, Live(t),
         \A v \in Thread : Live(v)' <=> (Live(v) /\ v # t),
         threadTable' = Closed(t), users' = users - 1, deleted' = (users' = 0)
  PROVE  /\ TableNamesLiving' /\ UsersCounted'
         /\ threadTable' \in [Id -> Thread \cup {NULL}]
  <1>1. LiveThreads' = LiveThreads \ {t} /\ t \in LiveThreads
    BY DEF LiveThreads
  <1>2. /\ IsFiniteSet(LiveThreads')
        /\ Cardinality(LiveThreads') = Cardinality(LiveThreads) - 1
    BY <1>1, FS_RemoveElement DEF UsersCounted
  <1>3. deleted' => LiveThreads' = {}
    BY <1>2, FS_EmptySet DEF UsersCounted
  <1>4. UsersCounted'
    BY <1>2, <1>3 DEF UsersCounted
  <1>5. /\ threadTable' \in [Id -> Thread \cup {NULL}]
        /\ \A i \in Id : threadTable'[i] = IF threadTable[i] = t THEN NULL ELSE threadTable[i]
    BY DEF Closed, ProcTypeOK
  <1>6. \A i \in Id : threadTable[i] \in Thread \cup {NULL}
    BY DEF ProcTypeOK
  <1>7. TableNamesLiving'
    BY <1>5, <1>6 DEF TableNamesLiving
  <1>8. QED BY <1>4, <1>5, <1>7

-----------------------------------------------------------------------------
(* The inductive invariant                                                 *)

(* StartProcess leaves a state that satisfies it.                          *)
LEMMA ProcInitIInv == Init => ProcIInv
  <1> SUFFICES ASSUME Init PROVE ProcIInv
    OBVIOUS
  <1>1. /\ main \in Thread /\ NULL \notin Thread /\ TableSize \in Nat \ {0}
        /\ NumPages <= NumPhysPages /\ NumPages \in Nat \ {0} /\ NumPhysPages \in Nat
    BY ProcessAssumption, AddrSpaceAssumption, PageNumbers
  <1> DEFINE first == [i \in 1..NumPages |-> i - 1]
  <1>2. /\ first \in [1..NumPages -> Frame] /\ first # <<>>
        /\ \A i, j \in 1..NumPages : first[i] = first[j] => i = j
    <2>1. first \in [1..NumPages -> Frame]
      BY <1>1 DEF Frame
    <2>2. first # <<>>
      BY <2>1, FilledTable
    <2>3. \A i, j \in 1..NumPages : first[i] = first[j] => i = j
      BY <1>1
    <2>4. QED BY <2>1, <2>2, <2>3
  <1>3. {first[i] : i \in 1..NumPages} = 0..(NumPages - 1)
    <2>1. \A f \in 0..(NumPages - 1) : f + 1 \in 1..NumPages /\ first[f + 1] = f
      BY <1>1
    <2>2. \A i \in 1..NumPages : first[i] \in 0..(NumPages - 1)
      BY <1>1
    <2> HIDE DEF first
    <2>3. QED BY <2>1, <2>2
  <1>4. /\ pageTable[main] = first /\ usage[main] = 1 /\ tstate[main] = "running"
        /\ \A t \in Thread : t # main => pageTable[t] = <<>> /\ tstate[t] = "absent"
    BY <1>1 DEF Init
  <1>5. ProcTypeOK
    <2>1. SpaceTypeOK
      BY <1>1, <1>2 DEF Init, SpaceTypeOK, Frame
    <2>2. /\ tstate \in [Thread -> ThreadState]
          /\ threadTable \in [Id -> Thread \cup {NULL}]
          /\ joinTarget \in [Thread -> Thread \cup {NULL}]
      BY <1>1 DEF Init, ThreadState
    <2>3. joinQueue \in [Thread -> Seq(Thread)] /\ result \in [Thread -> Id \cup {-1}]
      BY <1>1 DEF Init, Id
    <2>4. users \in Int
      BY DEF Init
    <2>5. deleted \in BOOLEAN /\ aborted \in BOOLEAN
      BY DEF Init
    <2>6. QED BY <2>1, <2>2, <2>3, <2>4, <2>5 DEF ProcTypeOK
  <1>6. TableNamesLiving
    BY <1>1, <1>4 DEF Init, TableNamesLiving, Live, Id
  <1>7. UsersCounted
    <2>1. LiveThreads = {main}
      BY <1>1, <1>4 DEF LiveThreads, Live
    <2>2. QED BY <2>1, FS_Singleton DEF Init, UsersCounted
  <1>8. JoinersQueued
    BY <1>4 DEF Init, JoinersQueued
  <1>9. JoinAfterFinish
    BY <1>4 DEF JoinAfterFinish
  <1> HIDE DEF first
  <1>10. SpacesOfLiving
    BY <1>2, <1>4 DEF SpacesOfLiving, HasSpace
  <1>11. OwnFrames
    <2>1. /\ Owned(main) = 0..(NumPages - 1) /\ OwnPages(main) = 1..NumPages
          /\ \A t \in Thread : t # main => Owned(t) = {} /\ ~HasSpace(t)
      BY <1>2, <1>3, <1>4 DEF Owned, OwnPages, HasSpace
    <2>2. physicalPageMap = UNION {Owned(t) : t \in Thread}
      BY <1>1, <2>1 DEF Init
    <2>3. \A t, u \in Thread : t # u => Owned(t) \cap Owned(u) = {}
      BY <2>1
    <2>4. \A t \in Thread : HasSpace(t) =>
            \A i, j \in OwnPages(t) : pageTable[t][i] = pageTable[t][j] => i = j
      BY <1>2, <1>4, <2>1
    <2>5. QED BY <2>2, <2>3, <2>4 DEF OwnFrames
  <1>12. LoadersSound
    <2>1. \A t \in Thread : HasSpace(t) <=> t = main
      BY <1>2, <1>4 DEF HasSpace
    <2>2. loader[main] = main
      BY <1>1 DEF Init
    <2>3. QED BY <1>1, <1>4, <2>1, <2>2 DEF LoadersSound
  <1>13. QED BY <1>5, <1>6, <1>7, <1>8, <1>9, <1>10, <1>11, <1>12 DEF ProcIInv

(* What is said of the loaders holds as long as no loader leaves the       *)
(* threads it counts for and no space is made.                             *)
LEMMA LoadersKept ==
  ASSUME LoadersSound, loader \in [Thread -> Thread], UNCHANGED loader,
         \A t \in Thread : HasSpace(t)' => /\ HasSpace(t) /\ usage'[t] = usage[t]
                                           /\ pageTable'[t] = pageTable[t],
         \A t \in Thread : tstate[t] \notin {"absent", "forked"} =>
                            tstate'[t] \notin {"absent", "forked"}
  PROVE  LoadersSound'
  <1>1. \A t \in Thread : loader[t] \in Thread
    OBVIOUS
  <1>2. \A t \in Thread : HasSpace(t)' =>
          /\ tstate'[loader[t]] \notin {"absent", "forked"}
          /\ loader[loader[t]] = loader[t]
          /\ usage'[t] = 1 <=> loader[t] = t
    BY <1>1 DEF LoadersSound
  <1>3. ASSUME NEW t \in Thread, NEW u \in Thread, HasSpace(t)', HasSpace(u)',
               loader[t] = loader[u], NEW i \in GlobalPage
        PROVE  pageTable'[t][i] = pageTable'[u][i]
    BY <1>3 DEF LoadersSound
  <1>4. QED BY <1>2, <1>3 DEF LoadersSound

(* A new space has itself for a loader or that of its father, whose code   *)
(* and data it maps.                                                       *)
LEMMA LoadersGrow ==
  ASSUME LoadersSound, loader \in [Thread -> Thread], NEW u \in Thread, NEW s \in Thread,
         tstate[u] \in {"absent", "forked"}, tstate'[u] \notin {"absent", "forked"},
         \A t \in Thread : t # u => /\ HasSpace(t)' <=> HasSpace(t)
                                    /\ usage'[t] = usage[t] /\ pageTable'[t] = pageTable[t]
                                    /\ tstate'[t] = tstate[t],
         loader' = [loader EXCEPT ![u] = s],
         \/ s = u /\ usage'[u] = 1
         \/ /\ usage'[u] # 1
            /\ \E father \in Thread :
                 /\ HasSpace(father) /\ father # u /\ s = loader[father]
                 /\ \A i \in GlobalPage : pageTable'[u][i] = pageTable[father][i]
  PROVE  LoadersSound'
  <1>1. /\ loader'[u] = s /\ \A t \in Thread : t # u => loader'[t] = loader[t]
        /\ \A t \in Thread : loader[t] \in Thread
    OBVIOUS
  <1>2. \A t \in Thread : HasSpace(t) => loader[t] # u
    BY DEF LoadersSound
  <1>3. s # u => /\ tstate[s] \notin {"absent", "forked"} /\ loader[s] = s
                 /\ usage'[u] # 1
    BY <1>1 DEF LoadersSound
  <1>4. \A t \in Thread : HasSpace(t)' =>
          /\ tstate'[loader'[t]] \notin {"absent", "forked"}
          /\ loader'[loader'[t]] = loader'[t]
          /\ usage'[t] = 1 <=> loader'[t] = t
    <2> TAKE t \in Thread
    <2> HAVE HasSpace(t)'
    <2>1. CASE t = u
      <3>1. CASE s = u
        BY <1>1, <1>2, <2>1, <3>1
      <3>2. CASE s # u
        BY <1>1, <1>3, <2>1, <3>2
      <3>3. QED BY <3>1, <3>2
    <2>2. CASE t # u
      <3>1. /\ HasSpace(t) /\ loader'[t] = loader[t] /\ loader[t] # u
            /\ loader[t] \in Thread
        BY <1>1, <1>2, <2>2
      <3>2. QED BY <1>1, <2>2, <3>1 DEF LoadersSound
    <2>3. QED BY <2>1, <2>2
  <1>5. ASSUME NEW t \in Thread, t # u, HasSpace(t)', loader'[t] = s, NEW i \in GlobalPage
        PROVE  pageTable'[t][i] = pageTable'[u][i]
    <2>1. HasSpace(t) /\ loader[t] = s /\ s # u /\ pageTable'[t] = pageTable[t]
      BY <1>1, <1>2, <1>5
    <2>2. PICK father \in Thread :
            /\ HasSpace(father) /\ s = loader[father]
            /\ \A j \in GlobalPage : pageTable'[u][j] = pageTable[father][j]
      BY <2>1
    <2>3. pageTable[t][i] = pageTable[father][i]
      BY <2>1, <2>2 DEF LoadersSound
    <2>4. QED BY <2>1, <2>2, <2>3
  <1>6. ASSUME NEW t \in Thread, NEW v \in Thread, HasSpace(t)', HasSpace(v)',
               loader'[t] = loader'[v], NEW i \in GlobalPage
        PROVE  pageTable'[t][i] = pageTable'[v][i]
    <2>1. CASE t # u /\ v # u
      BY <1>1, <1>6, <2>1 DEF LoadersSound
    <2>2. CASE t = u \/ v = u
      BY <1>1, <1>5, <1>6, <2>2
    <2>3. QED BY <2>1, <2>2
  <1>7. QED BY <1>4, <1>6 DEF LoadersSound

(* Steps that leave memory alone keep what is said of it.                  *)
LEMMA SpacesUnchanged ==
  ASSUME ProcIInv, UNCHANGED spaceVars
  PROVE  /\ SpaceTypeOK' /\ OwnFrames'
         /\ \A t \in Thread : (HasSpace(t)' <=> HasSpace(t)) /\ usage'[t] = usage[t]
  <1>1. UNCHANGED <<physicalPageMap, pageTable, usage, loader>>
    BY DEF spaceVars
  <1>2. SpaceTypeOK'
    BY <1>1 DEF ProcIInv, ProcTypeOK, SpaceTypeOK
  <1>3. \A t \in Thread : /\ HasSpace(t)' <=> HasSpace(t)
                          /\ OwnPages(t)' = OwnPages(t) /\ Owned(t)' = Owned(t)
    BY <1>1 DEF HasSpace, OwnPages, Owned
  <1>4. OwnFrames'
    <2>1. {Owned(t)' : t \in Thread} = {Owned(t) : t \in Thread}
      BY <1>3
    <2>2. QED BY <1>1, <1>3, <2>1 DEF ProcIInv, OwnFrames
  <1>5. QED BY <1>1, <1>2, <1>3, <1>4

(* A living thread goes from one state to another within its life, in a    *)
(* way that changes neither its membership in the queues nor its space.    *)
LEMMA ThreadMoves ==
  ASSUME ProcIInv, NEW t \in Thread, NEW s \in {"running", "exiting", "lost"},
         tstate[t] \in {"running", "woken"},
         tstate' = [tstate EXCEPT ![t] = s],
         result' \in [Thread -> Id \cup {-1}],
         UNCHANGED <<spaceVars, threadTable, users, deleted, joinQueue, joinTarget, aborted>>
  PROVE  ProcIInv'
  <1>1. /\ tstate \in [Thread -> ThreadState] /\ tstate'[t] = s
        /\ \A u \in Thread : u # t => tstate'[u] = tstate[u]
    BY DEF ProcIInv, ProcTypeOK
  <1>2. /\ SpaceTypeOK' /\ OwnFrames'
        /\ \A u \in Thread : (HasSpace(u)' <=> HasSpace(u)) /\ usage'[u] = usage[u]
    BY SpacesUnchanged
  <1>3. ProcTypeOK'
    BY <1>1, <1>2 DEF ProcIInv, ProcTypeOK, ThreadState
  <1>4. TableNamesLiving' /\ UsersCounted'
    <2>1. \A v \in Thread : Live(v)' <=> Live(v)
      BY <1>1 DEF Live
    <2>2. QED BY <2>1, SameThreadsLive
  <1>5. JoinersQueued'
    <2>1. \A u \in Thread : \A i \in 1..Len(joinQueue[u]) : joinQueue[u][i] \in Thread
      BY DEF ProcIInv, ProcTypeOK
    <2>2. QED BY <1>1, <2>1 DEF ProcIInv, JoinersQueued
  <1>6. JoinAfterFinish'
    <2>1. \A u \in Thread : tstate'[u] = "woken" => tstate[u] = "woken"
      BY <1>1
    <2>2. \A u \in Thread : tstate[u] = "woken" =>
            joinTarget[u] # t /\ joinTarget[u] \in Thread
      BY DEF ProcIInv, JoinersQueued, JoinAfterFinish
    <2>3. QED BY <1>1, <1>2, <2>1, <2>2 DEF ProcIInv, JoinAfterFinish
  <1>7. SpacesOfLiving'
    BY <1>1, <1>2 DEF ProcIInv, SpacesOfLiving
  <1>8. LoadersSound'
    BY <1>1, <1>2, LoadersKept DEF ProcIInv, ProcTypeOK, SpaceTypeOK, spaceVars
  <1>9. QED BY <1>2, <1>3, <1>4, <1>5, <1>6, <1>7, <1>8 DEF ProcIInv

(* Nachos ends, or a call fails: nothing but result and aborted changes.   *)
LEMMA NothingMoves ==
  ASSUME ProcIInv, result' \in [Thread -> Id \cup {-1}], aborted' \in BOOLEAN,
         UNCHANGED <<spaceVars, tstate, threadTable, users, deleted, joinQueue, joinTarget>>
  PROVE  ProcIInv'
  <1>1. /\ SpaceTypeOK' /\ OwnFrames'
        /\ \A u \in Thread : (HasSpace(u)' <=> HasSpace(u)) /\ usage'[u] = usage[u]
    BY SpacesUnchanged
  <1>2. ProcTypeOK'
    BY <1>1 DEF ProcIInv, ProcTypeOK
  <1>3. TableNamesLiving' /\ UsersCounted'
    <2>1. \A v \in Thread : Live(v)' <=> Live(v)
      BY DEF Live
    <2>2. QED BY <2>1, SameThreadsLive
  <1>4. JoinersQueued' /\ JoinAfterFinish'
    BY <1>1 DEF ProcIInv, JoinersQueued, JoinAfterFinish
  <1>5. SpacesOfLiving'
    BY <1>1 DEF ProcIInv, SpacesOfLiving
  <1>6. LoadersSound'
    BY <1>1, LoadersKept DEF ProcIInv, ProcTypeOK, SpaceTypeOK, spaceVars
  <1>7. QED BY <1>1, <1>2, <1>3, <1>4, <1>5, <1>6 DEF ProcIInv

(* A thread begins: Exec readies it without a space, execProcess loads its *)
(* program, Fork copies the space of its father.                           *)
LEMMA ThreadBegins ==
  ASSUME ProcIInv, NEW u \in Thread, tstate[u] \in {"absent", "forked"},
         NEW s \in {"forked", "running"}, tstate' = [tstate EXCEPT ![u] = s],
         SpaceTypeOK', OwnFrames', LoadersSound',
         HasSpace(u)' <=> s = "running", HasSpace(u)' => usage'[u] \in {1, 2},
         \A v \in Thread : v # u => (HasSpace(v)' <=> HasSpace(v)) /\ usage'[v] = usage[v],
         threadTable' \in [Id -> Thread \cup {NULL}], users' \in Int,
         TableNamesLiving', UsersCounted',
         result' \in [Thread -> Id \cup {-1}],
         UNCHANGED <<deleted, joinQueue, joinTarget, aborted>>
  PROVE  ProcIInv'
  <1>1. /\ tstate \in [Thread -> ThreadState] /\ tstate'[u] = s
        /\ \A v \in Thread : v # u => tstate'[v] = tstate[v]
    BY DEF ProcIInv, ProcTypeOK
  <1>2. ProcTypeOK'
    <2>1. tstate' \in [Thread -> ThreadState]
      BY <1>1 DEF ThreadState
    <2>2. QED BY <2>1 DEF ProcIInv, ProcTypeOK
  <1>3. JoinersQueued'
    <2>1. \A t \in Thread : \A i \in 1..Len(joinQueue[t]) : joinQueue[t][i] \in Thread
      BY DEF ProcIInv, ProcTypeOK
    <2>2. QED BY <1>1, <2>1 DEF ProcIInv, JoinersQueued
  <1>4. JoinAfterFinish'
    <2>1. \A t \in Thread : tstate'[t] = "woken" => tstate[t] = "woken"
      BY <1>1
    <2>2. \A t \in Thread : tstate[t] = "woken" =>
            joinTarget[t] # u /\ joinTarget[t] \in Thread
      BY DEF ProcIInv, JoinersQueued, JoinAfterFinish
    <2>3. QED BY <1>1, <2>1, <2>2 DEF ProcIInv, JoinAfterFinish
  <1>5. SpacesOfLiving'
    BY <1>1 DEF ProcIInv, SpacesOfLiving
  <1>6. QED BY <1>2, <1>3, <1>4, <1>5 DEF ProcIInv

(* NachOS_Exec of an existing program.                                     *)
LEMMA ExecStep ==
  ASSUME ProcIInv, NEW t \in Thread, NEW u \in Thread, Exec(t, u)
  PROVE  ProcIInv'
  <1>1. /\ tstate[t] = "running" /\ tstate[u] = "absent"
        /\ threadTable' = Opened(u) /\ users' = users + 1
        /\ tstate' = [tstate EXCEPT ![u] = "forked"]
        /\ UNCHANGED <<deleted, joinQueue, joinTarget, aborted>>
        /\ UNCHANGED spaceVars
    BY DEF Exec, Create, ShareResources
  <1>2. \A v \in Thread : Live(v)' <=> (Live(v) \/ v = u)
    BY <1>1 DEF ProcIInv, ProcTypeOK, Live
  <1>3. Live(t) /\ ~Live(u)
    BY <1>1 DEF Live
  <1>4. TableNamesLiving' /\ threadTable' \in [Id -> Thread \cup {NULL}]
    BY <1>1, <1>2, <1>3, TableOpened DEF ProcIInv
  <1>5. UsersCounted'
    BY <1>1, <1>2, <1>3, OneMoreUser DEF ProcIInv
  <1>6. result' \in [Thread -> Id \cup {-1}]
    BY OpenIdType DEF Exec, ProcIInv, ProcTypeOK
  <1>7. /\ SpaceTypeOK' /\ OwnFrames'
        /\ \A v \in Thread : (HasSpace(v)' <=> HasSpace(v)) /\ usage'[v] = usage[v]
    BY <1>1, SpacesUnchanged
  <1>8. ~HasSpace(u)
    BY <1>1 DEF ProcIInv, SpacesOfLiving
  <1>9. users' \in Int
    BY <1>1 DEF ProcIInv, ProcTypeOK
  <1>10. LoadersSound'
    <2>1. \A v \in Thread : HasSpace(v) => v # u
      BY <1>8
    <2>2. /\ LoadersSound /\ loader \in [Thread -> Thread]
          /\ UNCHANGED loader /\ UNCHANGED pageTable
          /\ tstate \in [Thread -> ThreadState]
      BY <1>1 DEF ProcIInv, ProcTypeOK, SpaceTypeOK, spaceVars
    <2>3. QED BY <1>1, <1>7, <2>1, <2>2, LoadersKept
  <1>11. QED BY <1>1, <1>4, <1>5, <1>6, <1>7, <1>8, <1>9, <1>10, ThreadBegins

(* NachOS_Fork.                                                            *)
LEMMA ForkStep ==
  ASSUME ProcIInv, NEW t \in Thread, NEW u \in Thread, Fork(t, u)
  PROVE  ProcIInv'
  <1>1. /\ tstate[t] = "running" /\ tstate[u] = "absent"
        /\ threadTable' = Opened(u) /\ users' = users + 1
        /\ tstate' = [tstate EXCEPT ![u] = "running"]
        /\ UNCHANGED <<deleted, joinQueue, joinTarget, aborted>>
        /\ UNCHANGED result /\ CopySpace(t, u)
    BY DEF Fork, Create, ShareResources
  <1>2. \A v \in Thread : Live(v)' <=> (Live(v) \/ v = u)
    BY <1>1 DEF ProcIInv, ProcTypeOK, Live
  <1>3. Live(t) /\ ~Live(u)
    BY <1>1 DEF Live
  <1>4. TableNamesLiving' /\ threadTable' \in [Id -> Thread \cup {NULL}]
    BY <1>1, <1>2, <1>3, TableOpened DEF ProcIInv
  <1>5. UsersCounted'
    BY <1>1, <1>2, <1>3, OneMoreUser DEF ProcIInv
  <1>6. ~HasSpace(u)
    BY <1>1 DEF ProcIInv, SpacesOfLiving
  <1>7. PICK frames \in [1..NumPages -> Frame] :
          /\ \A i \in GlobalPage : frames[i] = pageTable[t][i]
          /\ Found(frames, StackPage) /\ pageTable' = [pageTable EXCEPT ![u] = frames]
    BY <1>1 DEF CopySpace
  <1>8. /\ SpaceTypeOK' /\ OwnFrames' /\ HasSpace(u)' /\ usage'[u] = 2
        /\ \A v \in Thread : v # u => (HasSpace(v)' <=> HasSpace(v)) /\ usage'[v] = usage[v]
    <2>1. usage' = [usage EXCEPT ![u] = 2]
      BY <1>1 DEF CopySpace
    <2>2. SpaceTypeOK /\ OwnFrames
      BY DEF ProcIInv, ProcTypeOK
    <2>3. 2 \in {1, 2} /\ StackPage = IF 2 = 1 THEN 1..NumPages ELSE StackPage
      OBVIOUS
    <2>4. loader' \in [Thread -> Thread]
      BY <1>1 DEF CopySpace, ProcIInv, ProcTypeOK, SpaceTypeOK
    <2>5. QED BY <1>6, <1>7, <2>1, <2>2, <2>3, <2>4, SpaceTaken
  <1>9. users' \in Int /\ result' \in [Thread -> Id \cup {-1}]
    BY <1>1 DEF ProcIInv, ProcTypeOK
  <1>10. LoadersSound'
    <2>1. /\ LoadersSound /\ loader \in [Thread -> Thread]
          /\ tstate \in [Thread -> ThreadState]
          /\ pageTable \in [Thread -> {<<>>} \cup [1..NumPages -> Frame]]
      BY DEF ProcIInv, ProcTypeOK, SpaceTypeOK
    <2>2. loader' = [loader EXCEPT ![u] = loader[t]] /\ loader[t] \in Thread
      BY <1>1, <2>1 DEF CopySpace
    <2>3. HasSpace(t) /\ t # u
      BY <1>1 DEF ProcIInv, SpacesOfLiving
    <2>4. \A i \in GlobalPage : pageTable'[u][i] = pageTable[t][i]
      BY <1>7, <2>1
    <2>5. \A v \in Thread : v # u => pageTable'[v] = pageTable[v] /\ tstate'[v] = tstate[v]
      BY <1>1, <1>7, <2>1
    <2>6. tstate'[u] = "running"
      BY <1>1, <2>1
    <2>7. \E father \in Thread :
            /\ HasSpace(father) /\ father # u /\ loader[t] = loader[father]
            /\ \A i \in GlobalPage : pageTable'[u][i] = pageTable[father][i]
      BY <2>3, <2>4
    <2>8. usage'[u] # 1
      BY <1>8
    <2>9. QED BY <1>1, <1>8, <2>1, <2>2, <2>5, <2>6, <2>7, <2>8, LoadersGrow
  <1>11. QED BY <1>1, <1>4, <1>5, <1>8, <1>9, <1>10, ThreadBegins

(* execProcess loads the program of a thread that Exec created.            *)
LEMMA ExecStartStep ==
  ASSUME ProcIInv, NEW t \in Thread, ExecStart(t)
  PROVE  ProcIInv'
  <1>1. /\ tstate[t] = "forked" /\ LoadSpace(t)
        /\ tstate' = [tstate EXCEPT ![t] = "running"]
        /\ UNCHANGED <<threadTable, users, deleted, joinQueue, joinTarget, result, aborted>>
    BY DEF ExecStart
  <1>2. TableNamesLiving' /\ UsersCounted'
    <2>1. \A v \in Thread : Live(v)' <=> Live(v)
      BY <1>1 DEF ProcIInv, ProcTypeOK, Live
    <2>2. QED BY <1>1, <2>1, SameThreadsLive
  <1>3. ~HasSpace(t)
    BY <1>1 DEF ProcIInv, SpacesOfLiving
  <1>4. PICK frames \in [1..NumPages -> Frame] :
          Found(frames, 1..NumPages) /\ pageTable' = [pageTable EXCEPT ![t] = frames]
    BY <1>1 DEF LoadSpace
  <1>5. /\ SpaceTypeOK' /\ OwnFrames' /\ HasSpace(t)' /\ usage'[t] = 1
        /\ \A v \in Thread : v # t => (HasSpace(v)' <=> HasSpace(v)) /\ usage'[v] = usage[v]
    <2>1. usage' = [usage EXCEPT ![t] = 1]
      BY <1>1 DEF LoadSpace
    <2>2. loader' \in [Thread -> Thread]
      BY <1>1 DEF LoadSpace, ProcIInv, ProcTypeOK, SpaceTypeOK
    <2>3. QED BY <1>3, <1>4, <2>1, <2>2, SpaceTaken DEF ProcIInv, ProcTypeOK
  <1>6. /\ threadTable' \in [Id -> Thread \cup {NULL}] /\ users' \in Int
        /\ result' \in [Thread -> Id \cup {-1}]
    BY <1>1 DEF ProcIInv, ProcTypeOK
  <1>7. LoadersSound'
    <2>1. /\ LoadersSound /\ loader \in [Thread -> Thread]
          /\ tstate \in [Thread -> ThreadState]
          /\ pageTable \in [Thread -> {<<>>} \cup [1..NumPages -> Frame]]
      BY DEF ProcIInv, ProcTypeOK, SpaceTypeOK
    <2>2. loader' = [loader EXCEPT ![t] = t]
      BY <1>1 DEF LoadSpace
    <2>3. \A v \in Thread : v # t => pageTable'[v] = pageTable[v] /\ tstate'[v] = tstate[v]
      BY <1>1, <1>4, <2>1
    <2>4. tstate'[t] = "running"
      BY <1>1, <2>1
    <2>5. QED BY <1>1, <1>5, <2>1, <2>2, <2>3, <2>4, LoadersGrow
  <1>8. QED BY <1>1, <1>2, <1>5, <1>6, <1>7, ThreadBegins

(* NachOS_Join, up to its Sleep.                                           *)
LEMMA JoinStep ==
  ASSUME ProcIInv, NEW t \in Thread, NEW id \in Id, Join(t, id)
  PROVE  ProcIInv'
  <1> DEFINE target == threadTable[id]
  <1>1. /\ tstate[t] = "running" /\ target \in Thread /\ Live(target)
        /\ joinTarget' = [joinTarget EXCEPT ![t] = target]
        /\ joinQueue' = [joinQueue EXCEPT ![target] = Append(@, t)]
        /\ tstate' = [tstate EXCEPT ![t] = "joining"]
        /\ UNCHANGED <<spaceVars, threadTable, users, deleted, result, aborted>>
    BY DEF Join, ProcIInv, ProcTypeOK, TableNamesLiving
  <1> HIDE DEF target
  <1>2. /\ joinQueue \in [Thread -> Seq(Thread)]
        /\ joinTarget \in [Thread -> Thread \cup {NULL}]
        /\ tstate \in [Thread -> ThreadState]
    BY DEF ProcIInv, ProcTypeOK
  <1>3. /\ tstate'[t] = "joining" /\ joinTarget'[t] = target
        /\ \A u \in Thread : u # t => tstate'[u] = tstate[u] /\ joinTarget'[u] = joinTarget[u]
    BY <1>1, <1>2
  <1>4. /\ SpaceTypeOK' /\ OwnFrames'
        /\ \A u \in Thread : (HasSpace(u)' <=> HasSpace(u)) /\ usage'[u] = usage[u]
    BY <1>1, SpacesUnchanged
  <1>5. ProcTypeOK'
    <2>1. Append(joinQueue[target], t) \in Seq(Thread)
      BY <1>1, <1>2, AppendProperties
    <2>2. joinQueue' \in [Thread -> Seq(Thread)]
      BY <1>1, <1>2, <2>1
    <2>3. /\ joinTarget' \in [Thread -> Thread \cup {NULL}]
          /\ tstate' \in [Thread -> ThreadState]
      BY <1>1, <1>2 DEF ThreadState
    <2>4. QED BY <1>1, <1>4, <2>2, <2>3 DEF ProcIInv, ProcTypeOK
  <1>6. TableNamesLiving' /\ UsersCounted'
    <2>1. \A v \in Thread : Live(v)' <=> Live(v)
      BY <1>1, <1>3 DEF Live
    <2>2. QED BY <1>1, <2>1, SameThreadsLive
  <1>7. JoinersQueued'
    <2>1. ASSUME NEW u \in Thread, NEW i \in 1..Len(joinQueue'[u])
          PROVE  tstate'[joinQueue'[u][i]] = "joining" /\ joinTarget'[joinQueue'[u][i]] = u
      <3>1. \/ /\ i \in 1..Len(joinQueue[u]) /\ joinQueue'[u][i] = joinQueue[u][i]
               /\ joinQueue[u][i] \in Thread
            \/ u = target /\ joinQueue'[u][i] = t
        <4>1. CASE u = target
          <5>1. /\ Len(joinQueue[u]) \in Nat /\ joinQueue[u] \in Seq(Thread)
                /\ joinQueue'[u] = Append(joinQueue[u], t)
            BY <1>1, <1>2, <4>1
          <5>2. QED BY <4>1, <5>1, AppendProperties
        <4>2. CASE u # target
          BY <1>1, <1>2, <4>2
        <4>3. QED BY <4>1, <4>2
      <3>2. CASE i \in 1..Len(joinQueue[u]) /\ joinQueue'[u][i] = joinQueue[u][i]
        <4>1. tstate[joinQueue[u][i]] = "joining" /\ joinTarget[joinQueue[u][i]] = u
          BY <3>2 DEF ProcIInv, JoinersQueued
        <4>2. joinQueue[u][i] \in Thread \ {t}
          BY <1>1, <1>2, <3>2, <4>1
        <4>3. QED BY <1>3, <3>2, <4>1, <4>2
      <3>3. CASE u = target /\ joinQueue'[u][i] = t
        BY <1>3, <3>3
      <3>4. QED BY <3>1, <3>2, <3>3
    <2>2. \A u \in Thread : tstate'[u] = "woken" => joinTarget'[u] \in Thread
      BY <1>3 DEF ProcIInv, JoinersQueued
    <2>3. QED BY <2>1, <2>2 DEF JoinersQueued
  <1>8. JoinAfterFinish'
    <2>1. \A u \in Thread : tstate'[u] = "woken" => u # t /\ tstate[u] = "woken"
      BY <1>3
    <2>2. \A u \in Thread : tstate[u] = "woken" =>
            joinTarget[u] # t /\ joinTarget[u] \in Thread
      BY <1>1 DEF ProcIInv, JoinersQueued, JoinAfterFinish
    <2>3. QED BY <1>3, <1>4, <2>1, <2>2 DEF ProcIInv, JoinAfterFinish
  <1>9. SpacesOfLiving'
    BY <1>1, <1>3, <1>4 DEF ProcIInv, SpacesOfLiving
  <1>10. LoadersSound'
    BY <1>1, <1>3, <1>4, LoadersKept DEF ProcIInv, ProcTypeOK, SpaceTypeOK, spaceVars
  <1>11. QED BY <1>4, <1>5, <1>6, <1>7, <1>8, <1>9, <1>10 DEF ProcIInv

(* Thread::Finish with removeResources.                                    *)
LEMMA FinishStep ==
  ASSUME ProcIInv, NEW t \in Thread, Finish(t)
  PROVE  ProcIInv'
  <1> DEFINE queue == joinQueue[t]
  <1>1. /\ tstate[t] = "exiting" /\ threadTable' = Closed(t)
        /\ users' = users - 1 /\ deleted' = (users' = 0) /\ DeleteSpace(t)
        /\ tstate' = [u \in Thread |->
                        IF u = t THEN "finished"
                        ELSE IF queue # <<>> /\ u = Head(queue) THEN "woken"
                        ELSE tstate[u]]
        /\ joinQueue' = [joinQueue EXCEPT ![t] = <<>>]
        /\ UNCHANGED <<joinTarget, result, aborted>>
    BY DEF Finish, RemoveResources
  <1>2. /\ joinQueue \in [Thread -> Seq(Thread)] /\ queue \in Seq(Thread)
        /\ tstate \in [Thread -> ThreadState]
        /\ \A i \in 1..Len(queue) : tstate[queue[i]] = "joining" /\ joinTarget[queue[i]] = t
    BY DEF ProcIInv, ProcTypeOK, JoinersQueued
  <1> HIDE DEF queue
  <1>3. queue # <<>> => /\ Head(queue) \in Thread \ {t}
                        /\ tstate[Head(queue)] = "joining" /\ joinTarget[Head(queue)] = t
    <2> SUFFICES ASSUME queue # <<>>
                 PROVE  /\ Head(queue) \in Thread \ {t}
                        /\ tstate[Head(queue)] = "joining" /\ joinTarget[Head(queue)] = t
      OBVIOUS
    <2>1. Head(queue) \in Thread /\ Head(queue) = queue[1] /\ 1 \in 1..Len(queue)
      BY <1>2
    <2>2. QED BY <1>1, <1>2, <2>1
  <1>4. /\ tstate'[t] = "finished"
        /\ \A u \in Thread : u # t => \/ tstate'[u] = tstate[u]
                                      \/ /\ tstate[u] = "joining" /\ joinTarget[u] = t
                                         /\ tstate'[u] = "woken"
                                         /\ queue # <<>> /\ u = Head(queue)
    BY <1>1, <1>3
  <1>5. HasSpace(t) /\ usage[t] \in {1, 2}
    BY <1>1 DEF ProcIInv, SpacesOfLiving
  <1>6. /\ SpaceTypeOK' /\ OwnFrames' /\ ~HasSpace(t)'
        /\ \A u \in Thread : u # t => (HasSpace(u)' <=> HasSpace(u)) /\ usage'[u] = usage[u]
    <2>1. SpaceTypeOK /\ OwnFrames /\ DeleteSpace(t)
      BY <1>1 DEF ProcIInv, ProcTypeOK
    <2>2. QED BY <1>5, <2>1, SpaceDeleted
  <1>7. /\ TableNamesLiving' /\ UsersCounted'
        /\ threadTable' \in [Id -> Thread \cup {NULL}]
    <2>1. \A v \in Thread : Live(v)' <=> (Live(v) /\ v # t)
      BY <1>4 DEF Live
    <2>2. Live(t)
      BY <1>1 DEF Live
    <2>3. QED BY <1>1, <2>1, <2>2, OneUserLess DEF ProcIInv
  <1>8. ProcTypeOK'
    <2>1. tstate' \in [Thread -> ThreadState]
      BY <1>1, <1>2 DEF ThreadState
    <2>2. joinQueue' \in [Thread -> Seq(Thread)]
      BY <1>1, <1>2
    <2>3. users' \in Int
      BY <1>1 DEF ProcIInv, ProcTypeOK
    <2>4. deleted' \in BOOLEAN
      BY <1>1
    <2>5. QED BY <1>1, <1>6, <1>7, <2>1, <2>2, <2>3, <2>4 DEF ProcIInv, ProcTypeOK
  <1>9. JoinersQueued'
    <2>1. ASSUME NEW u \in Thread, NEW i \in 1..Len(joinQueue'[u])
          PROVE  tstate'[joinQueue'[u][i]] = "joining" /\ joinTarget'[joinQueue'[u][i]] = u
      <3>1. u # t /\ joinQueue'[u] = joinQueue[u]
        BY <1>1, <1>2, <2>1
      <3>2. /\ joinQueue[u][i] \in Thread
            /\ tstate[joinQueue[u][i]] = "joining" /\ joinTarget[joinQueue[u][i]] = u
        BY <1>2, <3>1 DEF ProcIInv, JoinersQueued
      <3>3. tstate'[joinQueue[u][i]] = "joining"
        BY <1>1, <1>3, <1>4, <3>1, <3>2
      <3>4. QED BY <1>1, <3>1, <3>2, <3>3
    <2>2. \A u \in Thread : tstate'[u] = "woken" => joinTarget'[u] \in Thread
      BY <1>1, <1>4 DEF ProcIInv, JoinersQueued
    <2>3. QED BY <2>1, <2>2 DEF JoinersQueued
  <1>10. JoinAfterFinish'
    <2>1. ASSUME NEW u \in Thread, tstate'[u] = "woken"
          PROVE  tstate'[joinTarget[u]] = "finished" /\ pageTable'[joinTarget[u]] = <<>>
      <3>1. CASE joinTarget[u] = t
        BY <1>4, <1>6, <3>1 DEF HasSpace
      <3>2. CASE joinTarget[u] # t
        <4>1. tstate[u] = "woken"
          BY <1>4, <2>1, <3>2
        <4>2. /\ joinTarget[u] \in Thread /\ tstate[joinTarget[u]] = "finished"
              /\ ~HasSpace(joinTarget[u])
          BY <4>1 DEF ProcIInv, JoinersQueued, JoinAfterFinish
        <4>3. QED BY <1>4, <1>6, <3>2, <4>2 DEF HasSpace
      <3>3. QED BY <3>1, <3>2
    <2>2. QED BY <1>1, <2>1 DEF JoinAfterFinish, HasSpace
  <1>11. SpacesOfLiving'
    BY <1>4, <1>6 DEF ProcIInv, SpacesOfLiving
  <1>12. LoadersSound'
    <2>1. /\ LoadersSound /\ loader \in [Thread -> Thread] /\ UNCHANGED loader
          /\ \A u \in Thread : u # t => pageTable'[u] = pageTable[u]
      BY <1>1 DEF ProcIInv, ProcTypeOK, SpaceTypeOK, DeleteSpace
    <2>2. QED BY <1>4, <1>6, <2>1, LoadersKept
  <1>13. QED BY <1>6, <1>7, <1>8, <1>9, <1>10, <1>11, <1>12 DEF ProcIInv

(* Every system call of Process preserves the inductive invariant.         *)
LEMMA ProcNextIInv == ProcIInv /\ [Next]_vars => ProcIInv'
  <1> SUFFICES ASSUME ProcIInv, [Next]_vars PROVE ProcIInv'
    OBVIOUS
  <1>a. result \in [Thread -> Id \cup {-1}] /\ aborted \in BOOLEAN
    BY DEF ProcIInv, ProcTypeOK
  <1>1. ASSUME NEW t \in Thread, NEW u \in Thread, Exec(t, u) \/ Fork(t, u) PROVE ProcIInv'
    BY <1>1, ExecStep, ForkStep
  <1>2. ASSUME NEW t \in Thread, ExecFails(t) \/ \E id \in Id : JoinUnknown(t, id)
        PROVE  ProcIInv'
    <2>1. result' \in [Thread -> Id \cup {-1}]
      BY <1>2, <1>a DEF ExecFails, JoinUnknown
    <2>2. QED BY <1>2, <1>a, <2>1, NothingMoves DEF ExecFails, JoinUnknown
  <1>3. ASSUME NEW t \in Thread, ExecStart(t) PROVE ProcIInv'
    BY <1>3, ExecStartStep
  <1>4. ASSUME NEW t \in Thread, JoinResume(t) \/ Exit(t) PROVE ProcIInv'
    <2>1. result' \in [Thread -> Id \cup {-1}]
      BY <1>4, <1>a DEF JoinResume, Exit
    <2>2. QED BY <1>4, <2>1, ThreadMoves DEF JoinResume, Exit
  <1>5. ASSUME NEW t \in Thread, Finish(t) PROVE ProcIInv'
    BY <1>5, FinishStep
  <1>6. ASSUME NEW t \in Thread, NEW id \in Id, Join(t, id) PROVE ProcIInv'
    BY <1>6, JoinStep
  <1>7. ASSUME Abort \/ \E t \in Thread : FinishUnlisted(t) PROVE ProcIInv'
    BY <1>7, <1>a, NothingMoves DEF Abort, FinishUnlisted
  <1>8. CASE UNCHANGED vars
    BY <1>8, <1>a, NothingMoves DEF vars, procVars
  <1>9. QED BY <1>1, <1>2, <1>3, <1>4, <1>5, <1>6, <1>7, <1>8 DEF Next

(* The inductive invariant holds in every reachable state.                 *)
LEMMA ProcIInvariant == Spec => []ProcIInv
  BY ProcInitIInv, ProcNextIInv, PTL DEF Spec

(* The variables of processes and address spaces keep their types.         *)
THEOREM ProcessTypeOK == Spec => []ProcTypeOK
  <1>1. ProcIInv => ProcTypeOK
    BY DEF ProcIInv
  <1>2. QED BY <1>1, ProcIInvariant, PTL

(* An id of the table of threads reaches one living thread or nobody,      *)
(* whatever the order of Exec, Fork and Exit and also when the table fills.*)
THEOREM ProcessTableSound == Spec => []TableSound
  <1>1. ProcIInv => TableSound
    <2> SUFFICES ASSUME ProcIInv, NEW t \in Thread
                 PROVE  Cardinality(IdsOf(t)) <= IF Live(t) THEN 1 ELSE 0
      BY DEF TableSound
    <2>1. t # NULL
      BY ProcessAssumption
    <2>2. CASE IdsOf(t) = {}
      BY <2>2, FS_EmptySet
    <2>3. CASE IdsOf(t) # {}
      <3>1. PICK id \in Id : threadTable[id] = t
        BY <2>3 DEF IdsOf
      <3>2. Live(t) /\ IdsOf(t) = {id}
        BY <2>1, <3>1 DEF ProcIInv, TableNamesLiving, IdsOf
      <3>3. QED BY <3>2, FS_Singleton
    <2>4. QED BY <2>2, <2>3
  <1>2. QED BY <1>1, ProcIInvariant, PTL

(* The control tables are counted as used by exactly the living threads    *)
(* and are not deleted while one is left.                                  *)
THEOREM ProcessTablesOutliveThreads == Spec => []TablesOutliveThreads
  <1>1. ProcIInv => TablesOutliveThreads
    BY DEF ProcIInv, UsersCounted, LiveThreads, TablesOutliveThreads
  <1>2. QED BY <1>1, ProcIInvariant, PTL

(* Join returns only after the thread it waits for has left the table and  *)
(* its memory.                                                             *)
THEOREM ProcessJoinAfterFinish == Spec => []JoinAfterFinish
  <1>1. ProcIInv => JoinAfterFinish
    BY DEF ProcIInv
  <1>2. QED BY <1>1, ProcIInvariant, PTL

(* No frame is leaked and none is under the kept pages of two programs,    *)
(* for any sizes of memory and of programs and any order of Exec, Fork and *)
(* Exit; code and data of a program stay kept while its loader lives.      *)
THEOREM ProcessFramesExact == Spec => []FramesExact
  <1>1. ASSUME ProcIInv PROVE FramesExact
    <2>1. /\ pageTable \in [Thread -> {<<>>} \cup [1..NumPages -> Frame]]
          /\ loader \in [Thread -> Thread]
      BY <1>1 DEF ProcIInv, ProcTypeOK, SpaceTypeOK
    <2>2. /\ GlobalPage \cup StackPage = 1..NumPages /\ GlobalPage \cap StackPage = {}
      BY AddrSpaceAssumption, PageNumbers DEF GlobalPage, StackPage, NumPages
    <2>3. OwnFrames /\ LoadersSound
      BY <1>1 DEF ProcIInv
    (* A kept page of t is one that t took a frame for, or one of code and *)
    (* data, which the loader took.                                        *)
    <2>4. ASSUME NEW t \in Thread, HasSpace(t), NEW i \in Kept(t)
          PROVE  \/ i \in OwnPages(t)
                 \/ /\ i \in GlobalPage /\ HasSpace(loader[t])
                    /\ i \in OwnPages(loader[t])
                    /\ pageTable[loader[t]][i] = pageTable[t][i]
      <3>1. i \in 1..NumPages /\ loader[t] \in Thread
        BY <2>1, <2>2, <2>4 DEF Kept
      <3>2. CASE i \in StackPage
        BY <3>1, <3>2 DEF OwnPages
      <3>3. CASE i \in GlobalPage
        <4>1. HasSpace(loader[t]) /\ loader[loader[t]] = loader[t]
          BY <2>2, <2>3, <2>4, <3>3 DEF Kept, LoadersSound
        <4>2. usage[loader[t]] = 1 /\ pageTable[loader[t]][i] = pageTable[t][i]
          BY <2>3, <2>4, <3>1, <3>3, <4>1 DEF LoadersSound
        <4>3. QED BY <3>1, <3>3, <4>1, <4>2 DEF OwnPages
      <3>4. QED BY <2>2, <3>1, <3>2, <3>3
    <2>5. ASSUME NEW t \in Thread, HasSpace(t) PROVE OwnPages(t) \subseteq Kept(t)
      BY <2>2, <2>3, <2>5 DEF OwnPages, Kept, LoadersSound
    <2>6. \A f : (\E t \in Thread : f \in KeptFrames(t)) <=> \E t \in Thread : f \in Owned(t)
      <3>1. ASSUME NEW f, NEW t \in Thread, f \in KeptFrames(t)
            PROVE  \E u \in Thread : f \in Owned(u)
        <4>1. HasSpace(t)
          BY <3>1 DEF KeptFrames
        <4>2. PICK i \in Kept(t) : f = pageTable[t][i]
          BY <3>1, <4>1 DEF KeptFrames
        <4>3. f \in Owned(t) \/ f \in Owned(loader[t])
          BY <2>4, <4>1, <4>2 DEF Owned
        <4>4. QED BY <2>1, <4>3
      <3>2. ASSUME NEW f, NEW t \in Thread, f \in Owned(t) PROVE f \in KeptFrames(t)
        BY <2>5, <3>2 DEF Owned, KeptFrames
      <3>3. QED BY <3>1, <3>2
    <2>7. physicalPageMap = UNION {KeptFrames(t) : t \in Thread}
      <3>1. \A f : f \in physicalPageMap <=> \E t \in Thread : f \in Owned(t)
        BY <2>3 DEF OwnFrames
      <3>2. QED BY <2>6, <3>1
    (* Equal frames that spaces took are under the same page of one space. *)
    <2>8. ASSUME NEW t \in Thread, NEW u \in Thread, HasSpace(t), HasSpace(u),
                 NEW i \in OwnPages(t), NEW j \in OwnPages(u),
                 pageTable[t][i] = pageTable[u][j]
          PROVE  t = u /\ i = j
      <3>1. pageTable[t][i] \in Owned(t) /\ pageTable[t][i] \in Owned(u)
        BY <2>8 DEF Owned
      <3>2. t = u
        BY <2>3, <3>1 DEF OwnFrames
      <3>3. QED BY <2>3, <2>8, <3>2 DEF OwnFrames
    <2>9. ASSUME NEW t \in Thread, NEW u \in Thread, HasSpace(t), HasSpace(u),
                 NEW i \in Kept(t), NEW j \in Kept(u), pageTable[t][i] = pageTable[u][j]
          PROVE  i = j /\ (t = u \/ (i \in GlobalPage /\ loader[t] = loader[u]))
      <3> DEFINE Took(v, w, k) ==
                   /\ w \in Thread /\ HasSpace(w) /\ k \in OwnPages(w)
                   /\ pageTable[w][k] = pageTable[v][k]
                   /\ w = v \/ (w = loader[v] /\ k \in GlobalPage)
      <3>1. PICK v : Took(t, v, i)
        BY <2>1, <2>4, <2>9
      <3>2. PICK w : Took(u, w, j)
        BY <2>1, <2>4, <2>9
      <3>3. v = w /\ i = j
        BY <2>8, <2>9, <3>1, <3>2
      <3>4. \A x \in Thread : HasSpace(x) => loader[loader[x]] = loader[x]
        BY <2>3 DEF LoadersSound
      <3>5. QED BY <2>9, <3>1, <3>2, <3>3, <3>4
    <2>10. QED BY <2>3, <2>7, <2>9 DEF FramesExact, LoadersSound
  <1>2. QED BY <1>1, ProcIInvariant, PTL
=============================================================================
