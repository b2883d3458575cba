-------------------------------- MODULE Pager --------------------------------
(***************************************************************************)
(* Demand paging of the build with virtual memory: userprog/addrspaceVM.cc *)
(* and vm/BackingStore.cpp, driven by the TLB of machine/translate.cc.     *)
(*                                                                         *)
(* The kernel runs a page fault and a context switch without giving up the *)
(* processor, so each is one action; user instructions come between them.  *)
(* No page is read-only: both branches of the constructor say so.  A page  *)
(* is known by its thread and number; a thread that exits and comes again  *)
(* stands for a new one whose page table was allocated at the old address. *)
(***************************************************************************)
EXTENDS Integers, Sequences, FiniteSets

CONSTANTS
  Thread,        \* the user threads, one space each
  NULL,          \* no thread
  Pages,         \* virtual pages of a space
  NumPhysPages,  \* frames of the machine
  TLBSize,       \* slots of the TLB
  MaxStored      \* bound: buffers in the backing store, which has no limit

ASSUME PagerAssumption ==
  /\ NULL \notin Thread
  /\ Pages \in Nat \ {0}
  /\ NumPhysPages \in Nat \ {0}
  /\ TLBSize \in Nat \ {0}
  /\ MaxStored \in Nat

VPage == 0..(Pages - 1)
Frame == 0..(NumPhysPages - 1)
Slot == 0..(TLBSize - 1)
NoFrame == -1

VARIABLES
  pageTable,      \* thread -> page -> its TranslationEntry
  invertedTable,  \* the keys of invertedTable, in order
  tlb,            \* machine->tlb
  tlbIndex,       \* hand of secondChance on the TLB
  physicalIndex,  \* hand of secondChance on memory
  marked,         \* physicalPageMap
  memory,         \* what each frame holds: a page number and its version
  backingStore,   \* keys and buffers, in order
  current,        \* the running thread, NULL when none is left on the CPU
  last,           \* history: the version of each page its thread wrote last
  evicted,        \* history: a page has had to leave memory
  crashed         \* a wild pointer was followed, or an index beyond its table

vars == <<pageTable, invertedTable, tlb, tlbIndex, physicalIndex, marked,
          memory, backingStore, current, last, evicted, crashed>>

\* Version 0 is what the executable or a zeroed page holds, 1 what the thread
\* has written.
Content == [page : VPage, version : {0, 1}]
Blank == [page |-> 0, version |-> 0]
Fresh(v) == [page |-> v, version |-> 0]

Entry == [phys : Frame \cup {NoFrame}, valid : BOOLEAN, use : BOOLEAN, dirty : BOOLEAN]
NewEntry == [phys |-> NoFrame, valid |-> FALSE, use |-> FALSE, dirty |-> FALSE]
TlbEntry == [page : VPage, phys : Frame, valid : BOOLEAN, use : BOOLEAN, dirty : BOOLEAN]

Spaces == {invertedTable[i] : i \in 1..Len(invertedTable)}

PagerTypeOK ==
  /\ pageTable \in [Thread -> [VPage -> Entry]]
  /\ invertedTable \in Seq(Thread)
  /\ tlb \in [Slot -> TlbEntry]
  /\ tlbIndex \in Slot
  /\ physicalIndex \in Frame
  /\ marked \subseteq Frame
  /\ memory \in [Frame -> Content]
  /\ backingStore \in Seq([key : Thread \X VPage, buffer : Content])
  /\ current \in Thread \cup {NULL}
  /\ last \in [Thread -> [VPage -> {0, 1}]]
  /\ evicted \in BOOLEAN
  /\ crashed \in BOOLEAN

\* StartProcess has made the first thread's space; nothing is in memory.  Of a
\* TLB slot Machine sets valid only: the frame and the dirty bit that
\* updataPageTables reads there are what the allocator left behind.
Init ==
  /\ pageTable = [t \in Thread |-> [v \in VPage |-> NewEntry]]
  /\ current \in Thread
  /\ invertedTable = <<current>>
  /\ tlb \in [Slot -> [page : {0}, phys : Frame, valid : {FALSE}, use : {FALSE},
                       dirty : BOOLEAN]]
  /\ tlbIndex = 0
  /\ physicalIndex = 0
  /\ marked = {}
  /\ memory = [f \in Frame |-> Blank]
  /\ backingStore = <<>>
  /\ last = [t \in Thread |-> [v \in VPage |-> 0]]
  /\ evicted = FALSE
  /\ crashed = FALSE

-----------------------------------------------------------------------------
(* The kernel's routines.                                                  *)

\* updataPageTables: every resident page gets the bits of the last TLB slot
\* that names its frame, valid or not.
UpdatedPageTables ==
  LET slots(e) == {s \in Slot : tlb[s].phys = e.phys}
      latest(e) == CHOOSE s \in slots(e) : \A r \in slots(e) : r <= s
      copied(e) == IF slots(e) = {} THEN e
                   ELSE [e EXCEPT !.dirty = tlb[latest(e)].dirty,
                                  !.valid = tlb[latest(e)].valid]
  IN  [t \in Thread |->
         IF t \in Spaces THEN [v \in VPage |-> copied(pageTable[t][v])]
         ELSE pageTable[t]]

\* How far secondChance moves its hand over n places from start, when busy are
\* the places with use and valid bits set: to the first of the others, or round
\* to start.
Steps(busy, n, start) ==
  LET idle == {d \in 0..(n - 1) : (start + d) % n \notin busy}
  IN  IF idle = {} THEN n ELSE CHOOSE d \in idle : \A c \in idle : d <= c

\* secondChance on the TLB: the slot to fill, and the slots that lose their
\* use bit on the way.
TlbBusy(s) == tlb[s].use /\ tlb[s].valid
TlbSteps == Steps({s \in Slot : TlbBusy(s)}, TLBSize, tlbIndex)
TlbVictim == (tlbIndex + TlbSteps) % TLBSize
TlbPassed == {(tlbIndex + d) % TLBSize : d \in 0..(TlbSteps - 1)}

\* The end of PageFaultException: entry e of page v goes into the TLB.
FillTlb(v, e) ==
  /\ tlb' = [s \in Slot |->
               IF s = TlbVictim
               THEN [page |-> v, phys |-> e.phys, valid |-> TRUE, use |-> TRUE,
                     dirty |-> e.dirty]
               ELSE IF s \in TlbPassed THEN [tlb[s] EXCEPT !.use = FALSE]
               ELSE tlb[s]]
  /\ tlbIndex' = (TlbVictim + 1) % TLBSize

\* getPhysicalPageTable: the resident pages of a space, and those of all spaces,
\* space by space.
PagesOf(pt, t) ==
  LET found[j \in 0..Pages] ==
        IF j = 0 THEN <<>>
        ELSE IF pt[t][j - 1].phys # NoFrame THEN Append(found[j - 1], <<t, j - 1>>)
        ELSE found[j - 1]
  IN  found[Pages]

ResidentPages(pt) ==
  LET found[i \in 0..Len(invertedTable)] ==
        IF i = 0 THEN <<>> ELSE found[i - 1] \o PagesOf(pt, invertedTable[i])
  IN  found[Len(invertedTable)]

\* secondChance on memory, over the table of resident pages r.  The table has
\* room for NumPhysPages entries, of which only the first Len(r) are set.
MemBusy(pt, r, i) ==
  i < Len(r) => pt[r[i + 1][1]][r[i + 1][2]].use /\ pt[r[i + 1][1]][r[i + 1][2]].valid
MemSteps(pt, r) ==
  Steps({i \in Frame : MemBusy(pt, r, i)}, NumPhysPages, physicalIndex)
MemHand(pt, r) == (physicalIndex + MemSteps(pt, r)) % NumPhysPages
MemPassed(pt, r) ==
  {r[((physicalIndex + d) % NumPhysPages) + 1] : d \in 0..(MemSteps(pt, r) - 1)}

\* The hand never reaches an entry of the table that is not set.
HandStaysInside(pt, r) ==
  \A d \in 0..MemSteps(pt, r) : (physicalIndex + d) % NumPhysPages < Len(r)

\* The page that has to leave memory.
MemVictim(pt, r) == r[MemHand(pt, r) + 1]

\* pt after page p has left memory and the pages in passed their use bits.
\* p keeps its dirty bit and gets the other two.
Evicted(pt, p, passed) ==
  [t \in Thread |-> [v \in VPage |->
     IF <<t, v>> = p
     THEN [pt[t][v] EXCEPT !.phys = NoFrame, !.use = TRUE, !.valid = TRUE]
     ELSE IF <<t, v>> \in passed THEN [pt[t][v] EXCEPT !.use = FALSE]
     ELSE pt[t][v]]]

\* pt after page v of the running thread has been given frame f.
Resident(pt, v, f) ==
  [pt EXCEPT ![current][v].phys = f, ![current][v].valid = TRUE,
             ![current][v].use = TRUE]

\* Map::operator[] and Map::remove: the first entry with the key.
Stored(store, p) == \E i \in 1..Len(store) : store[i].key = p
IndexOf(store, p) ==
  CHOOSE i \in 1..Len(store) :
    store[i].key = p /\ \A j \in 1..(i - 1) : store[j].key # p
Without(s, i) == SubSeq(s, 1, i - 1) \o SubSeq(s, i + 1, Len(s))
Unstored(store, p) == Without(store, IndexOf(store, p))

-----------------------------------------------------------------------------
(* User instructions.                                                      *)

Hits(v) == {s \in Slot : tlb[s].valid /\ tlb[s].page = v}
Hit(v) == CHOOSE s \in Hits(v) : \A r \in Hits(v) : s <= r

Running == ~crashed /\ current # NULL

\* Machine::Translate finds the page in the TLB, for a read.
Read(v) ==
  /\ Running /\ Hits(v) # {}
  /\ tlb' = [tlb EXCEPT ![Hit(v)].use = TRUE]
  /\ UNCHANGED <<pageTable, invertedTable, tlbIndex, physicalIndex, marked,
                 memory, backingStore, current, last, evicted, crashed>>

\* The same for a write, and the write.
Write(v) ==
  /\ Running /\ Hits(v) # {}
  /\ tlb' = [tlb EXCEPT ![Hit(v)].use = TRUE, ![Hit(v)].dirty = TRUE]
  /\ memory' = [memory EXCEPT ![tlb[Hit(v)].phys] = [page |-> v, version |-> 1]]
  /\ last' = [last EXCEPT ![current][v] = 1]
  /\ UNCHANGED <<pageTable, invertedTable, tlbIndex, physicalIndex, marked,
                 backingStore, current, evicted, crashed>>

-----------------------------------------------------------------------------
(* PageFaultException, by the branch it takes.                             *)

Fault(v) == Running /\ Hits(v) = {}

\* The page is in memory: only the TLB is filled.
FaultResident(v) ==
  LET pt == UpdatedPageTables
  IN  /\ Fault(v)
      /\ pt[current][v].phys # NoFrame
      /\ pageTable' = Resident(pt, v, pt[current][v].phys)
      /\ FillTlb(v, pt[current][v])
      /\ UNCHANGED <<invertedTable, physicalIndex, marked, memory,
                     backingStore, current, last, evicted, crashed>>

\* The branch of PageFaultException that looks in the backing store.
SwappedOut(e) == e.phys = NoFrame /\ e.valid /\ e.dirty

\* Mutant: the page that leaves is not saved.
FaultSwapInUnsaved(v) ==
  LET pt == UpdatedPageTables
      r == ResidentPages(pt)
      out == MemVictim(pt, r)
      f == pt[out[1]][out[2]].phys
  IN  /\ Fault(v) /\ SwappedOut(pt[current][v])
      /\ HandStaysInside(pt, r) /\ Stored(backingStore, <<current, v>>)
      /\ physicalIndex' = MemHand(pt, r)
      /\ pageTable' = Resident(Evicted(pt, out, MemPassed(pt, r)), v, f)
      /\ memory' = [memory EXCEPT
           ![f] = backingStore[IndexOf(backingStore, <<current, v>>)].buffer]
      /\ backingStore' = Unstored(backingStore, <<current, v>>)
      /\ FillTlb(v, pageTable'[current][v])
      /\ UNCHANGED <<invertedTable, marked, current, last, evicted, crashed>>

\* The page is in the backing store: BackingStore::pageIn exchanges it with a
\* resident one.
FaultSwapIn(v) ==
  LET pt == UpdatedPageTables
      r == ResidentPages(pt)
      out == MemVictim(pt, r)
      f == pt[out[1]][out[2]].phys
      store == Append(backingStore, [key |-> out, buffer |-> memory[f]])
  IN  /\ Fault(v) /\ SwappedOut(pt[current][v])
      /\ HandStaysInside(pt, r) /\ Stored(store, <<current, v>>)
      /\ physicalIndex' = MemHand(pt, r)
      /\ pageTable' = Resident(Evicted(pt, out, MemPassed(pt, r)), v, f)
      /\ memory' = [memory EXCEPT ![f] = store[IndexOf(store, <<current, v>>)].buffer]
      /\ backingStore' = Unstored(store, <<current, v>>)
      /\ FillTlb(v, pageTable'[current][v])
      /\ UNCHANGED <<invertedTable, marked, current, last, evicted, crashed>>

\* Mutant: the free frame is taken without marking it.
FaultLoadUnmarked(v) ==
  LET pt == UpdatedPageTables
      clear == Frame \ marked
      f == CHOOSE f \in clear : \A g \in clear : f <= g
  IN  /\ Fault(v)
      /\ pt[current][v].phys = NoFrame /\ ~SwappedOut(pt[current][v])
      /\ clear # {}
      /\ pageTable' = Resident(pt, v, f)
      /\ memory' = [memory EXCEPT ![f] = Fresh(v)]
      /\ FillTlb(v, pageTable'[current][v])
      /\ UNCHANGED <<invertedTable, physicalIndex, marked, backingStore, current,
                     last, evicted, crashed>>

\* FindPage finds a clear frame: the page is read from the executable.
FaultLoad(v) ==
  LET pt == UpdatedPageTables
      clear == Frame \ marked
      f == CHOOSE f \in clear : \A g \in clear : f <= g
  IN  /\ Fault(v)
      /\ pt[current][v].phys = NoFrame /\ ~SwappedOut(pt[current][v])
      /\ clear # {}
      /\ marked' = marked \cup {f}
      /\ pageTable' = Resident(pt, v, f)
      /\ memory' = [memory EXCEPT ![f] = Fresh(v)]
      /\ FillTlb(v, pageTable'[current][v])
      /\ UNCHANGED <<invertedTable, physicalIndex, backingStore, current, last,
                     evicted, crashed>>

\* FindPage finds none: BackingStore::pageOut saves a resident page and clears
\* its frame's bit, and the page takes the frame.
FaultEvict(v) ==
  LET pt == UpdatedPageTables
      r == ResidentPages(pt)
      out == MemVictim(pt, r)
      f == pt[out[1]][out[2]].phys
  IN  /\ Fault(v)
      /\ pt[current][v].phys = NoFrame /\ ~SwappedOut(pt[current][v])
      /\ Frame \subseteq marked
      /\ HandStaysInside(pt, r)
      /\ Len(backingStore) < MaxStored
      /\ physicalIndex' = MemHand(pt, r)
      /\ marked' = marked \ {f}
      /\ backingStore' = Append(backingStore, [key |-> out, buffer |-> memory[f]])
      /\ pageTable' = Resident(Evicted(pt, out, MemPassed(pt, r)), v, f)
      /\ memory' = [memory EXCEPT ![f] = Fresh(v)]
      /\ FillTlb(v, pageTable'[current][v])
      /\ evicted' = TRUE
      /\ UNCHANGED <<invertedTable, current, last, crashed>>

\* A page has to leave memory and the hand of secondChance is on an entry of
\* the table of resident pages that was never set, or there were more of them
\* than the table holds.
FaultWild(v) ==
  LET pt == UpdatedPageTables
      r == ResidentPages(pt)
  IN  /\ Fault(v)
      /\ pt[current][v].phys = NoFrame
      /\ SwappedOut(pt[current][v]) \/ Frame \subseteq marked
      /\ ~HandStaysInside(pt, r) \/ Len(r) > NumPhysPages
      /\ crashed' = TRUE
      /\ UNCHANGED <<pageTable, invertedTable, tlb, tlbIndex, physicalIndex,
                     marked, memory, backingStore, current, last, evicted>>

\* The faulting address is beyond the space, which Translate does not tell from
\* a page that is not in the TLB.  pageTable[vpn] is indexed without a check: what
\* is read and then written there belongs to some other object, after which
\* nothing can be said of the run.
FaultBeyond ==
  /\ Running
  /\ crashed' = TRUE
  /\ UNCHANGED <<pageTable, invertedTable, tlb, tlbIndex, physicalIndex,
                 marked, memory, backingStore, current, last, evicted>>

-----------------------------------------------------------------------------
(* Context switches, new and deleted spaces.                               *)

\* RestoreState
InvalidTlb == [s \in Slot |-> [tlb[s] EXCEPT !.valid = FALSE]]

\* SaveState of the thread that leaves the processor, if it has a space.
SavedTables == IF current = NULL THEN pageTable ELSE UpdatedPageTables

\* Mutant: the TLB survives a context switch.
SwitchKeepsTlb(t) ==
  /\ ~crashed
  /\ t \in Spaces /\ t # current
  /\ pageTable' = SavedTables
  /\ current' = t
  /\ UNCHANGED <<tlb, invertedTable, tlbIndex, physicalIndex, marked, memory,
                 backingStore, last, evicted, crashed>>

\* Scheduler::Run of another thread with a space.
Switch(t) ==
  /\ ~crashed
  /\ t \in Spaces /\ t # current
  /\ pageTable' = SavedTables
  /\ tlb' = InvalidTlb
  /\ current' = t
  /\ UNCHANGED <<invertedTable, tlbIndex, physicalIndex, marked, memory,
                 backingStore, last, evicted, crashed>>

\* AddrSpace::AddrSpace(father, thread), in NachOS_Fork: nothing is copied.
ForkSpace(t) ==
  /\ Running
  /\ t \notin Spaces
  /\ pageTable' = [pageTable EXCEPT ![t] = [v \in VPage |-> NewEntry]]
  /\ invertedTable' = Append(invertedTable, t)
  /\ UNCHANGED <<tlb, tlbIndex, physicalIndex, marked, memory, backingStore,
                 current, last, evicted, crashed>>

\* AddrSpace::AddrSpace(executable, programName), in execProcess when the new
\* thread is first dispatched, and the RestoreState after it.
ExecSpace(t) ==
  /\ ~crashed
  /\ t \notin Spaces
  /\ pageTable' = [SavedTables EXCEPT ![t] = [v \in VPage |-> NewEntry]]
  /\ invertedTable' = Append(invertedTable, t)
  /\ tlb' = InvalidTlb
  /\ current' = t
  /\ UNCHANGED <<tlbIndex, physicalIndex, marked, memory, backingStore, last,
                 evicted, crashed>>

\* The backing store after the destructor has removed t's saved dirty pages.
Purged(t) ==
  LET store[j \in 0..Pages] ==
        IF j = 0 THEN backingStore
        ELSE IF SwappedOut(pageTable[t][j - 1]) THEN Unstored(store[j - 1], <<t, j - 1>>)
        ELSE store[j - 1]
  IN  store[Pages]

\* AddrSpace::~AddrSpace, in Thread::Finish: frames are cleared, saved dirty
\* pages removed from the backing store.  The TLB is left alone.
Exit ==
  LET held == {pageTable[current][v].phys : v \in VPage} \ {NoFrame}
      place == CHOOSE i \in 1..Len(invertedTable) : invertedTable[i] = current
  IN  /\ Running
      /\ marked' = marked \ held
      /\ memory' = [f \in Frame |-> IF f \in held THEN Blank ELSE memory[f]]
      /\ backingStore' = Purged(current)
      /\ invertedTable' = Without(invertedTable, place)
      /\ pageTable' = [pageTable EXCEPT ![current] = [v \in VPage |-> NewEntry]]
      /\ last' = [last EXCEPT ![current] = [v \in VPage |-> 0]]
      /\ current' = NULL
      /\ UNCHANGED <<tlb, tlbIndex, physicalIndex, evicted, crashed>>

Next ==
  \/ \E v \in VPage :
       \/ Read(v) \/ Write(v)
       \/ FaultResident(v) \/ FaultSwapIn(v) \/ FaultLoad(v) \/ FaultEvict(v)
       \/ FaultWild(v)
  \/ FaultBeyond
  \/ \E t \in Thread : Switch(t) \/ ForkSpace(t) \/ ExecSpace(t)
  \/ Exit

Spec == Init /\ [][Next]_vars

-----------------------------------------------------------------------------
(* Properties.                                                             *)

\* The pages that hold a frame.
Holders(f) == {p \in Spaces \X VPage : pageTable[p[1]][p[2]].phys = f}

\* Until memory runs out for the first time, a frame is marked exactly while a
\* page holds it, and no two pages hold it: whatever order faults, forks, execs
\* and exits come in, FindPage hands out no frame twice and none is leaked.
FrameHeldOnce ==
  ~evicted =>
    \A f \in Frame : Cardinality(Holders(f)) = IF f \in marked THEN 1 ELSE 0

\* "pageOut(): Mueve una pagina de la memoria al BackingStore", "pageIn():
\* Intercambia una pagina en memoria con una en la estructura" (vm/Readme.MD):
\* a page is moved, not lost, so whatever the running thread can read without
\* a fault is what it last wrote there, or what the program was loaded with.
Coherent ==
  current # NULL =>
    \A s \in Slot : tlb[s].valid =>
      memory[tlb[s].phys] =
        [page |-> tlb[s].page, version |-> last[current][tlb[s].page]]

\* Until memory runs out for the first time, the TLB leads every thread to its
\* own data, however the threads share the TLB and whatever its stale slots
\* wrote into the page tables.
ReadsLastWrite == ~evicted => Coherent

\* PageFaultException never looks in the backing store for a page that is not
\* there (Map::operator[] would return the entry after the last).
BackedUp ==
  \A t \in Spaces : \A v \in VPage :
    SwappedOut(pageTable[t][v]) => Stored(backingStore, <<t, v>>)

\* What makes the three inductive.  The running thread has a space, a thread
\* without one has nothing in memory, no thread is listed twice.
SpacesSound ==
  /\ current \in Spaces \cup {NULL}
  /\ \A i, j \in 1..Len(invertedTable) : invertedTable[i] = invertedTable[j] => i = j
  /\ \A t \in Thread \ Spaces : \A v \in VPage : pageTable[t][v].phys = NoFrame

\* Until memory runs out for the first time: what the table says of one page.
PageExact(t, v) ==
  LET e == pageTable[t][v]
  IN  IF e.phys = NoFrame THEN ~e.valid /\ last[t][v] = 0
      ELSE e.phys \in marked /\ memory[e.phys] = [page |-> v, version |-> last[t][v]]

\* The same for memory as a whole: pages are exact and hold different frames,
\* and every marked frame is held.
TablesExact ==
  /\ \A t \in Thread, v \in VPage : PageExact(t, v)
  /\ \A t, u \in Thread : \A v, w \in VPage :
       /\ pageTable[t][v].phys # NoFrame
       /\ pageTable[t][v].phys = pageTable[u][w].phys
       => t = u /\ v = w
  /\ \A f \in marked : \E t \in Thread, v \in VPage : pageTable[t][v].phys = f

\* The TLB agrees with the running thread's table.
TlbExact ==
  current # NULL =>
    \A s \in Slot : tlb[s].valid => tlb[s].phys = pageTable[current][tlb[s].page].phys

\* The inductive strengthening.
PagerInv ==
  /\ PagerTypeOK /\ SpacesSound /\ BackedUp
  /\ ~evicted => TablesExact /\ TlbExact
=============================================================================
