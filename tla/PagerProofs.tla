---------------------------- MODULE PagerProofs ----------------------------
(***************************************************************************)
(* Proofs about Pager for any number of threads, pages, frames and TLB     *)
(* slots.  Its three invariants are preserved together: that no frame is   *)
(* shared and that the TLB leads to the last write rest on what every      *)
(* entry of every page table says (PageExact), and that a page sought in   *)
(* the backing store is there rests on the loops that build the table of   *)
(* resident pages and empty the store.                                     *)
(***************************************************************************)
EXTENDS Pager, QueueLemmas, FiniteSetTheorems

(* The remainder that moves a hand of secondChance stays inside its table. *)
LEMMA HandInRange ==
  ASSUME NEW a \in Nat, NEW n \in Nat \ {0}
  PROVE  a % n \in 0..(n - 1)
  OBVIOUS

(* The frames, slots and pages are counted from 0, and none is NoFrame.    *)
LEMMA Ranges ==
  /\ Frame \subseteq Nat /\ Slot \subseteq Nat /\ VPage \subseteq Nat
  /\ NoFrame \notin Frame /\ 0 \in Frame /\ 0 \in Slot /\ 0 \in VPage
  /\ NumPhysPages \in Nat \ {0} /\ TLBSize \in Nat \ {0} /\ Pages \in Nat
  BY PagerAssumption DEF Frame, Slot, VPage, NoFrame

(* secondChance goes round its table at most once.                         *)
LEMMA StepsInRange ==
  ASSUME NEW busy, NEW n \in Nat \ {0}, NEW start \in Nat
  PROVE  Steps(busy, n, start) \in 0..n
  <1> DEFINE idle == {d \in 0..(n - 1) : (start + d) % n \notin busy}
  <1>1. CASE idle = {}
    BY <1>1 DEF Steps
  <1>2. CASE idle # {}
    <2>1. idle \subseteq Nat
      OBVIOUS
    <2>2. PICK k \in idle : \A c \in idle : k <= c
      BY <1>2, <2>1, LeastNatural
    <2>3. Steps(busy, n, start) \in idle
      <3>1. Steps(busy, n, start) = CHOOSE d \in idle : \A c \in idle : d <= c
        BY <1>2 DEF Steps
      <3> HIDE DEF idle
      <3>2. QED BY <2>2, <3>1
    <2>4. idle \subseteq 0..n
      OBVIOUS
    <2> HIDE DEF idle
    <2>5. QED BY <2>3, <2>4
  <1>3. QED BY <1>1, <1>2

(* The slots that name a frame have a last one, whose bits updataPageTables *)
(* leaves in the page table.                                               *)
LEMMA GreatestSlot ==
  ASSUME NEW T, T \subseteq Slot, T # {}
  PROVE  \E x \in T : \A y \in T : y <= x
  <1> DEFINE U == {TLBSize - x : x \in T}
  <1>1. U \subseteq Nat /\ U # {}
    <2>1. \A x \in T : TLBSize - x \in Nat
      BY PagerAssumption DEF Slot
    <2>2. QED BY <2>1
  <1>2. PICK z \in U : \A y \in U : z <= y
    BY <1>1, LeastNatural
  <1>3. PICK x \in T : z = TLBSize - x
    BY <1>2
  <1>4. ASSUME NEW y \in T PROVE y <= x
    <2>1. TLBSize - y \in U /\ x \in Nat /\ y \in Nat /\ TLBSize \in Nat
      BY PagerAssumption DEF Slot
    <2> HIDE DEF U
    <2>2. QED BY <1>2, <1>3, <2>1
  <1>5. QED BY <1>4

(* updataPageTables changes only the dirty and valid bits of pages that    *)
(* are in memory.                                                          *)
LEMMA UpdatedKeeps ==
  ASSUME PagerTypeOK
  PROVE  /\ UpdatedPageTables \in [Thread -> [VPage -> Entry]]
         /\ \A t \in Thread, v \in VPage :
              /\ UpdatedPageTables[t][v].phys = pageTable[t][v].phys
              /\ pageTable[t][v].phys = NoFrame =>
                   UpdatedPageTables[t][v] = pageTable[t][v]
         /\ \A t \in Thread \ Spaces : UpdatedPageTables[t] = pageTable[t]
  <1> DEFINE slots(e) == {s \in Slot : tlb[s].phys = e.phys}
             latest(e) == CHOOSE s \in slots(e) : \A r \in slots(e) : r <= s
             copied(e) == IF slots(e) = {} THEN e
                          ELSE [e EXCEPT !.dirty = tlb[latest(e)].dirty,
                                         !.valid = tlb[latest(e)].valid]
  <1>1. ASSUME NEW e \in Entry
        PROVE  /\ copied(e) \in Entry /\ copied(e).phys = e.phys
               /\ e.phys = NoFrame => copied(e) = e
    <2>1. CASE slots(e) = {}
      BY <2>1
    <2>2. CASE slots(e) # {}
      <3>1. slots(e) \subseteq Slot
        OBVIOUS
      <3>2. latest(e) \in slots(e)
        <4>1. \E x \in slots(e) : \A y \in slots(e) : y <= x
          BY <2>2, <3>1, GreatestSlot
        <4> HIDE DEF slots
        <4>2. QED BY <4>1
      <3>3. latest(e) \in Slot /\ tlb[latest(e)].phys = e.phys
        BY <3>2
      <3> HIDE DEF latest
      <3>4. tlb[latest(e)] \in TlbEntry
        BY <3>3 DEF PagerTypeOK
      <3>5. e.phys # NoFrame
        BY <3>3, <3>4, Ranges DEF TlbEntry
      <3>6. copied(e) = [e EXCEPT !.dirty = tlb[latest(e)].dirty,
                                  !.valid = tlb[latest(e)].valid]
        BY <2>2
      <3> HIDE DEF copied
      <3>7. QED BY <3>4, <3>5, <3>6 DEF Entry, TlbEntry
    <2>3. QED BY <2>1, <2>2
  <1>2. UpdatedPageTables =
          [t \in Thread |-> IF t \in Spaces THEN [v \in VPage |-> copied(pageTable[t][v])]
                            ELSE pageTable[t]]
    BY DEF UpdatedPageTables
  <1> HIDE DEF copied
  <1>3. \A t \in Thread : \A v \in VPage : pageTable[t][v] \in Entry
    BY DEF PagerTypeOK
  <1>4. ASSUME NEW t \in Thread
        PROVE  /\ UpdatedPageTables[t] \in [VPage -> Entry]
               /\ \A v \in VPage :
                    /\ UpdatedPageTables[t][v].phys = pageTable[t][v].phys
                    /\ pageTable[t][v].phys = NoFrame =>
                         UpdatedPageTables[t][v] = pageTable[t][v]
    <2>1. CASE t \in Spaces
      BY <1>1, <1>2, <1>3, <2>1
    <2>2. CASE t \notin Spaces
      <3>1. UpdatedPageTables[t] = pageTable[t]
        BY <1>2, <2>2
      <3>2. QED BY <3>1 DEF PagerTypeOK
    <2>3. QED BY <2>1, <2>2
  <1>5. UpdatedPageTables \in [Thread -> [VPage -> Entry]]
    <2>1. UpdatedPageTables = [t \in Thread |-> UpdatedPageTables[t]]
      BY <1>2
    <2> HIDE DEF UpdatedPageTables
    <2>2. QED BY <1>4, <2>1
  <1>6. \A t \in Thread \ Spaces : UpdatedPageTables[t] = pageTable[t]
    BY <1>2
  <1>7. QED BY <1>4, <1>5, <1>6

(* The end of a page fault: one slot gets the page, the others keep page,  *)
(* frame and valid bit.                                                    *)
LEMMA FillTlbKeeps ==
  ASSUME PagerTypeOK, NEW v \in VPage, NEW e \in Entry, e.phys # NoFrame, FillTlb(v, e)
  PROVE  /\ tlb' \in [Slot -> TlbEntry] /\ tlbIndex' \in Slot
         /\ \A s \in Slot :
              \/ tlb'[s].page = v /\ tlb'[s].phys = e.phys
              \/ /\ tlb'[s].page = tlb[s].page /\ tlb'[s].phys = tlb[s].phys
                 /\ tlb'[s].valid = tlb[s].valid
  <1>1. tlb \in [Slot -> TlbEntry] /\ tlbIndex \in Nat /\ TLBSize \in Nat \ {0}
    BY Ranges DEF PagerTypeOK
  <1>2. TlbSteps \in Nat
    BY <1>1, StepsInRange DEF TlbSteps
  <1>3. TlbVictim \in Nat /\ (TlbVictim + 1) % TLBSize \in Slot
    <2>1. TlbVictim \in Nat
      BY <1>1, <1>2, HandInRange DEF TlbVictim
    <2>2. QED BY <1>1, <2>1, HandInRange DEF Slot
  <1>4. e.phys \in Frame /\ e.dirty \in BOOLEAN
    BY DEF Entry
  <1>5. ASSUME NEW s \in Slot
        PROVE  /\ tlb'[s] \in TlbEntry
               /\ \/ tlb'[s].page = v /\ tlb'[s].phys = e.phys
                  \/ /\ tlb'[s].page = tlb[s].page /\ tlb'[s].phys = tlb[s].phys
                     /\ tlb'[s].valid = tlb[s].valid
    <2>1. tlb[s] \in TlbEntry
      BY <1>1
    <2>2. CASE s = TlbVictim
      BY <1>4, <2>1, <2>2 DEF FillTlb, TlbEntry
    <2>3. CASE s # TlbVictim /\ s \in TlbPassed
      BY <2>1, <2>3 DEF FillTlb, TlbEntry
    <2>4. CASE s # TlbVictim /\ s \notin TlbPassed
      BY <2>1, <2>4 DEF FillTlb, TlbEntry
    <2>5. QED BY <2>2, <2>3, <2>4
  <1>6. tlb' = [s \in Slot |-> tlb'[s]]
    BY DEF FillTlb
  <1>7. QED BY <1>3, <1>5, <1>6 DEF FillTlb

-----------------------------------------------------------------------------
(* The loops of the kernel.                                                *)

(* The pages of Spaces that are in memory according to the tables pt.      *)
InMemory(pt) == {p \in Spaces \X VPage : pt[p[1]][p[2]].phys # NoFrame}

(* The inner loop of getPhysicalPageTable lists only resident pages.       *)
LEMMA PagesOfResident ==
  ASSUME NEW pt, NEW t \in Spaces
  PROVE  PagesOf(pt, t) \in Seq(InMemory(pt))
  <1> DEFINE X == Seq(InMemory(pt))
             Turn(j, r) == IF pt[t][j - 1].phys # NoFrame THEN Append(r, <<t, j - 1>>) ELSE r
             turn == [q \in (1..Pages) \X X |-> Turn(q[1], q[2])]
             Loop(g) == [j \in 0..Pages |-> IF j = 0 THEN <<>>
                           ELSE IF pt[t][j - 1].phys # NoFrame
                                THEN Append(g[j - 1], <<t, j - 1>>) ELSE g[j - 1]]
             found == CHOOSE g : g = Loop(g)
  <1>1. Pages \in Nat
    BY Ranges
  <1>2. ASSUME NEW j \in 1..Pages, NEW r \in X PROVE Turn(j, r) \in X
    <2>1. j - 1 \in VPage
      BY <1>1 DEF VPage
    <2>2. pt[t][j - 1].phys # NoFrame => <<t, j - 1>> \in InMemory(pt)
      BY <2>1 DEF InMemory
    <2> HIDE DEF InMemory
    <2>3. QED BY <2>2
  <1>3. turn \in [(1..Pages) \X X -> X]
    BY <1>2
  <1>4. <<>> \in X
    OBVIOUS
  <1>5. PICK g \in [0..Pages -> X] :
          \A j \in 0..Pages : g[j] = IF j = 0 THEN <<>> ELSE turn[<<j, g[j - 1]>>]
    <2> HIDE DEF X, turn
    <2>1. HasRun(Pages, X, <<>>, turn)
      BY <1>1, <1>3, <1>4, Iteration
    <2>2. QED BY <2>1 DEF HasRun
  <1>6. g = Loop(g)
    <2>1. ASSUME NEW j \in 0..Pages, j # 0
          PROVE  turn[<<j, g[j - 1]>>] = Turn(j, g[j - 1])
      <3>1. j \in 1..Pages /\ j - 1 \in 0..Pages
        BY <1>1, <2>1
      <3>2. g[j - 1] \in X
        BY <3>1
      <3> HIDE DEF X
      <3>3. QED BY <3>1, <3>2
    <2> HIDE DEF X, turn
    <2>2. \A j \in 0..Pages : g[j] = Loop(g)[j]
      BY <1>5, <2>1
    <2>3. QED BY <2>2
  <1>7. PICK f : /\ PagesOf(pt, t) = f[Pages]
                 /\ \A j \in 0..Pages :
                      f[j] = IF j = 0 THEN <<>> ELSE Turn(j, f[j - 1])
    <2>1. PagesOf(pt, t) = found[Pages]
      BY DEF PagesOf
    <2>2. found = Loop(found)
      <3> HIDE DEF Loop
      <3>1. QED BY <1>6
    <2> HIDE DEF found
    <2>3. \A j \in 0..Pages : found[j] = IF j = 0 THEN <<>> ELSE Turn(j, found[j - 1])
      BY <2>2
    <2> HIDE DEF Turn
    <2>4. QED BY <2>1, <2>3
  <1> DEFINE Good == {j \in 0..Pages : f[j] \in X}
  <1> HIDE DEF Turn, X
  <1>8. 0..Pages \subseteq Good
    <2>1. 0 \in Good
      BY <1>1, <1>4, <1>7
    <2>2. ASSUME NEW j \in 1..Pages, j - 1 \in Good PROVE j \in Good
      BY <1>1, <1>2, <1>7, <2>2
    <2> HIDE DEF Good
    <2>3. QED BY <1>1, <2>1, <2>2, LoopInvariant
  <1>9. f[Pages] \in X
    BY <1>1, <1>8
  <1>10. QED BY <1>7, <1>9 DEF X

(* So does the outer loop.                                                 *)
LEMMA ResidentPagesResident ==
  ASSUME NEW pt, PagerTypeOK
  PROVE  ResidentPages(pt) \in Seq(InMemory(pt))
  <1> DEFINE n == Len(invertedTable)
             X == Seq(InMemory(pt))
             Turn(i, r) == r \o PagesOf(pt, invertedTable[i])
             turn == [q \in (1..n) \X X |-> Turn(q[1], q[2])]
             Loop(g) == [i \in 0..n |-> IF i = 0 THEN <<>>
                           ELSE g[i - 1] \o PagesOf(pt, invertedTable[i])]
             found == CHOOSE g : g = Loop(g)
  <1>1. n \in Nat
    BY DEF PagerTypeOK
  <1>2. ASSUME NEW i \in 1..n, NEW r \in X PROVE Turn(i, r) \in X
    <2>1. invertedTable[i] \in Spaces
      BY DEF Spaces
    <2>2. PagesOf(pt, invertedTable[i]) \in X
      BY <2>1, PagesOfResident
    <2> HIDE DEF InMemory
    <2>3. QED BY <2>2
  <1>3. turn \in [(1..n) \X X -> X]
    BY <1>2
  <1>4. <<>> \in X
    OBVIOUS
  <1>5. PICK g \in [0..n -> X] :
          \A i \in 0..n : g[i] = IF i = 0 THEN <<>> ELSE turn[<<i, g[i - 1]>>]
    <2> HIDE DEF X, turn, n
    <2>1. HasRun(n, X, <<>>, turn)
      BY <1>1, <1>3, <1>4, Iteration
    <2>2. QED BY <2>1 DEF HasRun
  <1>6. g = Loop(g)
    <2> HIDE DEF n
    <2>1. ASSUME NEW i \in 0..n, i # 0
          PROVE  turn[<<i, g[i - 1]>>] = Turn(i, g[i - 1])
      <3>1. i \in 1..n /\ i - 1 \in 0..n
        BY <1>1, <2>1
      <3>2. g[i - 1] \in X
        BY <3>1
      <3> HIDE DEF X
      <3>3. QED BY <3>1, <3>2
    <2> HIDE DEF X, turn
    <2>2. \A i \in 0..n : g[i] = Loop(g)[i]
      BY <1>5, <2>1
    <2>3. QED BY <2>2
  <1>7. PICK f : /\ ResidentPages(pt) = f[n]
                 /\ \A i \in 0..n : f[i] = IF i = 0 THEN <<>> ELSE Turn(i, f[i - 1])
    <2>1. ResidentPages(pt) = found[n]
      BY DEF ResidentPages
    <2>2. found = Loop(found)
      <3> HIDE DEF Loop
      <3>1. QED BY <1>6
    <2> HIDE DEF found, n
    <2>3. \A i \in 0..n : found[i] = IF i = 0 THEN <<>> ELSE Turn(i, found[i - 1])
      BY <2>2
    <2> HIDE DEF Turn
    <2>4. QED BY <2>1, <2>3
  <1> DEFINE Good == {i \in 0..n : f[i] \in X}
  <1> HIDE DEF Turn, X, n
  <1>8. 0..n \subseteq Good
    <2>1. 0 \in Good
      BY <1>1, <1>4, <1>7
    <2>2. ASSUME NEW i \in 1..n, i - 1 \in Good PROVE i \in Good
      BY <1>1, <1>2, <1>7, <2>2
    <2> HIDE DEF Good
    <2>3. QED BY <1>1, <2>1, <2>2, LoopInvariant
  <1>9. f[n] \in X
    BY <1>1, <1>8
  <1>10. QED BY <1>7, <1>9 DEF X

(* The page secondChance chooses to leave memory is in memory.             *)
LEMMA VictimResident ==
  ASSUME PagerTypeOK, NEW pt, HandStaysInside(pt, ResidentPages(pt))
  PROVE  /\ MemHand(pt, ResidentPages(pt)) \in Frame
         /\ MemVictim(pt, ResidentPages(pt)) \in InMemory(pt)
  <1> DEFINE r == ResidentPages(pt)
             h == MemHand(pt, r)
  <1>1. r \in Seq(InMemory(pt))
    BY ResidentPagesResident
  <1>2. physicalIndex \in Nat /\ NumPhysPages \in Nat \ {0}
    BY Ranges DEF PagerTypeOK
  <1>3. MemSteps(pt, r) \in 0..NumPhysPages
    BY <1>2, StepsInRange DEF MemSteps
  <1>4. h \in Frame
    <2>1. physicalIndex + MemSteps(pt, r) \in Nat
      BY <1>2, <1>3
    <2>2. QED BY <1>2, <2>1, HandInRange DEF MemHand, Frame
  <1>5. h < Len(r)
    <2>1. MemSteps(pt, r) \in 0..MemSteps(pt, r)
      BY <1>2, <1>3
    <2>2. QED BY <2>1 DEF HandStaysInside, MemHand
  <1> HIDE DEF h, r
  <1>6. h + 1 \in 1..Len(r)
    BY <1>1, <1>4, <1>5, Ranges
  <1>7. r[h + 1] \in InMemory(pt)
    BY <1>1, <1>6
  <1>8. QED BY <1>4, <1>7 DEF MemVictim, h, r

-----------------------------------------------------------------------------
(* The backing store.                                                      *)

(* The type of the backing store.                                          *)
Store == Seq([key : Thread \X VPage, buffer : Content])

(* Map::remove closes the gap it leaves.                                   *)
LEMMA WithoutKeeps ==
  ASSUME NEW S, NEW s \in Seq(S), NEW i \in 1..Len(s)
  PROVE  /\ Without(s, i) \in Seq(S) /\ Len(Without(s, i)) = Len(s) - 1
         /\ \A k \in 1..(Len(s) - 1) :
              Without(s, i)[k] = IF k < i THEN s[k] ELSE s[k + 1]
  <1> DEFINE a == SubSeq(s, 1, i - 1)
             b == SubSeq(s, i + 1, Len(s))
  <1>1. Len(s) \in Nat
    OBVIOUS
  <1>2. /\ a \in Seq(S) /\ Len(a) = i - 1
        /\ \A k \in 1..(i - 1) : a[k] = s[k]
    BY <1>1
  <1>3. /\ b \in Seq(S) /\ Len(b) = Len(s) - i
        /\ \A k \in 1..(Len(s) - i) : b[k] = s[i + k]
    BY <1>1
  <1> HIDE DEF a, b
  <1>4. /\ a \o b \in Seq(S) /\ Len(a \o b) = Len(s) - 1
        /\ \A k \in 1..(Len(s) - 1) : (a \o b)[k] = IF k <= i - 1 THEN a[k] ELSE b[k - (i - 1)]
    <2>1. a \o b \in Seq(S) /\ Len(a \o b) = Len(a) + Len(b)
      BY <1>2, <1>3, ConcatProperties
    <2>2. \A k \in 1..(Len(a) + Len(b)) :
            (a \o b)[k] = IF k <= Len(a) THEN a[k] ELSE b[k - Len(a)]
      BY <1>2, <1>3, ConcatProperties
    <2>3. Len(a) = i - 1 /\ Len(a) + Len(b) = Len(s) - 1
      BY <1>1, <1>2, <1>3
    <2>4. QED BY <2>1, <2>2, <2>3
  <1>5. ASSUME NEW k \in 1..(Len(s) - 1)
        PROVE  (a \o b)[k] = IF k < i THEN s[k] ELSE s[k + 1]
    <2>1. CASE k < i
      BY <1>1, <1>2, <1>4, <2>1
    <2>2. CASE ~ (k < i)
      <3>1. k - (i - 1) \in 1..(Len(s) - i)
        BY <1>1, <2>2
      <3>2. b[k - (i - 1)] = s[i + (k - (i - 1))]
        BY <1>3, <3>1
      <3>3. i + (k - (i - 1)) = k + 1 /\ ~(k <= i - 1)
        BY <2>2
      <3>4. QED BY <1>4, <2>2, <3>2, <3>3
    <2>3. QED BY <2>1, <2>2
  <1>6. QED BY <1>4, <1>5 DEF Without, a, b

(* BackingStore::remove and pageIn take out one buffer of the page they    *)
(* look for and leave every other page's.                                  *)
LEMMA UnstoredKeeps ==
  ASSUME NEW store \in Store, NEW p, Stored(store, p)
  PROVE  /\ IndexOf(store, p) \in 1..Len(store)
         /\ Unstored(store, p) \in Store
         /\ \A q : q # p /\ Stored(store, q) => Stored(Unstored(store, p), q)
  <1> DEFINE at == {i \in 1..Len(store) : store[i].key = p}
  <1>1. Len(store) \in Nat
    BY DEF Store
  <1>2. at \subseteq Nat /\ at # {}
    BY DEF Stored
  <1>3. PICK x \in at : \A y \in at : x <= y
    BY <1>2, LeastNatural
  <1>4. /\ IndexOf(store, p) \in 1..Len(store)
        /\ store[IndexOf(store, p)].key = p
    <2>1. x \in 1..Len(store) /\ store[x].key = p
      OBVIOUS
    <2>2. \A j \in 1..(x - 1) : store[j].key # p
      <3> SUFFICES ASSUME NEW j \in 1..(x - 1), store[j].key = p PROVE FALSE
        OBVIOUS
      <3>1. j \in at /\ j < x
        BY <1>1, <2>1
      <3>2. QED BY <1>3, <3>1
    <2>3. QED BY <2>1, <2>2 DEF IndexOf
  <1> DEFINE i == IndexOf(store, p)
  <1> HIDE DEF i
  <1>5. /\ Without(store, i) \in Store /\ Len(Without(store, i)) = Len(store) - 1
        /\ \A k \in 1..(Len(store) - 1) :
             Without(store, i)[k] = IF k < i THEN store[k] ELSE store[k + 1]
    BY <1>4, WithoutKeeps DEF Store, i
  <1>6. ASSUME NEW q, q # p, Stored(store, q) PROVE Stored(Without(store, i), q)
    <2>1. PICK k \in 1..Len(store) : store[k].key = q
      BY <1>6 DEF Stored
    <2>2. k # i /\ i \in 1..Len(store)
      BY <1>4, <1>6, <2>1 DEF i
    <2>3. CASE k < i
      <3>1. k \in 1..(Len(store) - 1) /\ Without(store, i)[k] = store[k]
        BY <1>1, <1>5, <2>2, <2>3
      <3>2. QED BY <1>5, <2>1, <3>1 DEF Stored
    <2>4. CASE k > i
      <3>1. /\ k - 1 \in 1..(Len(store) - 1) /\ ~ (k - 1 < i)
            /\ (k - 1) + 1 = k
        BY <1>1, <2>2, <2>4
      <3>2. Without(store, i)[k - 1] = store[k]
        BY <1>5, <3>1
      <3>3. QED BY <1>5, <2>1, <3>1, <3>2 DEF Stored
    <2>5. QED BY <1>1, <2>2, <2>3, <2>4
  <1>7. QED BY <1>4, <1>5, <1>6 DEF Unstored, i

(* BackingStore::pageOut adds a buffer.                                    *)
LEMMA AppendStored ==
  ASSUME NEW store \in Store, NEW p \in Thread \X VPage, NEW c \in Content
  PROVE  /\ Append(store, [key |-> p, buffer |-> c]) \in Store
         /\ Stored(Append(store, [key |-> p, buffer |-> c]), p)
         /\ \A q : Stored(store, q) => Stored(Append(store, [key |-> p, buffer |-> c]), q)
  <1> DEFINE e == [key |-> p, buffer |-> c]
             new == Append(store, e)
  <1>1. e \in [key : Thread \X VPage, buffer : Content] /\ e.key = p
    OBVIOUS
  <1> HIDE DEF e
  <1>2. /\ new \in Store /\ Len(new) = Len(store) + 1 /\ Len(store) \in Nat
        /\ \A i \in 1..Len(store) : new[i] = store[i]
        /\ new[Len(store) + 1] = e
    BY <1>1 DEF Store
  <1> HIDE DEF new
  <1>3. Len(store) + 1 \in 1..Len(new)
    BY <1>2
  <1>4. Stored(new, p)
    BY <1>1, <1>2, <1>3 DEF Stored
  <1>5. ASSUME NEW q, Stored(store, q) PROVE Stored(new, q)
    <2>1. PICK i \in 1..Len(store) : store[i].key = q
      BY <1>5 DEF Stored
    <2>2. i \in 1..Len(new) /\ new[i].key = q
      BY <1>2, <2>1
    <2>3. QED BY <2>2 DEF Stored
  <1>6. QED BY <1>2, <1>4, <1>5 DEF new, e

(* The destructor's loop finds every page it looks for and takes out only  *)
(* pages of its own space.                                                 *)
LEMMA PurgedKeeps ==
  ASSUME PagerTypeOK, BackedUp, NEW t \in Spaces
  PROVE  /\ Purged(t) \in Store
         /\ \A u, v : u # t /\ Stored(backingStore, <<u, v>>) => Stored(Purged(t), <<u, v>>)
  <1> DEFINE Out(j) == SwappedOut(pageTable[t][j - 1])
             Turn(j, r) == IF Out(j) /\ Stored(r, <<t, j - 1>>)
                           THEN Unstored(r, <<t, j - 1>>) ELSE r
             turn == [q \in (1..Pages) \X Store |-> Turn(q[1], q[2])]
             Loop(g) == [j \in 0..Pages |-> IF j = 0 THEN backingStore
                           ELSE IF SwappedOut(pageTable[t][j - 1])
                                THEN Unstored(g[j - 1], <<t, j - 1>>) ELSE g[j - 1]]
             result == CHOOSE g : g = Loop(g)
             Kept(j, r) ==
               /\ r \in Store
               /\ \A u, v : u # t /\ Stored(backingStore, <<u, v>>) => Stored(r, <<u, v>>)
               /\ \A k \in (j + 1)..Pages : Out(k) => Stored(r, <<t, k - 1>>)
  <1>1. Pages \in Nat /\ backingStore \in Store
    BY Ranges DEF PagerTypeOK, Store
  <1>2. Kept(0, backingStore)
    <2>1. \A k \in 1..Pages : k - 1 \in VPage
      BY <1>1 DEF VPage
    <2>2. QED BY <1>1, <2>1 DEF BackedUp
  <1> HIDE DEF Out
  <1>3. ASSUME NEW j \in 1..Pages, NEW r, Kept(j - 1, r), NEW w,
               IF Out(j) THEN w = Unstored(r, <<t, j - 1>>) ELSE w = r
        PROVE  Kept(j, w)
    <2>1. /\ r \in Store /\ Out(j) => Stored(r, <<t, j - 1>>)
          /\ \A k \in (j + 1)..Pages : k \in j..Pages /\ k \in Nat
          /\ (j - 1) + 1 = j
      BY <1>1, <1>3
    <2>2. CASE ~ Out(j)
      BY <1>3, <2>1, <2>2
    <2>3. CASE Out(j)
      <3>1. /\ w \in Store
            /\ \A q : q # <<t, j - 1>> /\ Stored(r, q) => Stored(w, q)
        BY <1>3, <2>1, <2>3, UnstoredKeeps
      <3>2. ASSUME NEW u, NEW v, u # t, Stored(backingStore, <<u, v>>)
            PROVE  Stored(w, <<u, v>>)
        <4>1. <<u, v>> # <<t, j - 1>> /\ Stored(r, <<u, v>>)
          BY <1>3, <3>2
        <4>2. QED BY <3>1, <4>1
      <3>3. ASSUME NEW k \in (j + 1)..Pages, Out(k) PROVE Stored(w, <<t, k - 1>>)
        <4>1. k \in j..Pages /\ k - 1 # j - 1
          BY <1>1
        <4>2. <<t, k - 1>> # <<t, j - 1>> /\ Stored(r, <<t, k - 1>>)
          BY <1>3, <2>1, <3>3, <4>1
        <4>3. QED BY <3>1, <4>2
      <3>4. QED BY <3>1, <3>2, <3>3
    <2>4. QED BY <2>2, <2>3
  <1>4. turn \in [(1..Pages) \X Store -> Store]
    <2>1. \A j \in 1..Pages, r \in Store : Turn(j, r) \in Store
      BY UnstoredKeeps
    <2> HIDE DEF Turn
    <2>2. QED BY <2>1
  <1>5. PICK g \in [0..Pages -> Store] :
          \A j \in 0..Pages : g[j] = IF j = 0 THEN backingStore ELSE turn[<<j, g[j - 1]>>]
    <2> HIDE DEF turn
    <2>1. HasRun(Pages, Store, backingStore, turn)
      BY <1>1, <1>4, Iteration
    <2>2. QED BY <2>1 DEF HasRun
  <1> HIDE DEF Turn
  <1>6. ASSUME NEW j \in 1..Pages
        PROVE  j \in 0..Pages /\ j # 0 /\ j - 1 \in 0..Pages /\ g[j] = Turn(j, g[j - 1])
    <2>1. j \in 0..Pages /\ j # 0 /\ j - 1 \in 0..Pages
      BY <1>1
    <2>2. g[j - 1] \in Store /\ g[j] = turn[<<j, g[j - 1]>>]
      BY <1>5, <2>1
    <2>3. QED BY <2>1, <2>2
  <1> HIDE DEF Kept, turn
  <1>7. \A j \in 0..Pages : Kept(j, g[j])
    <2> DEFINE Good == {j \in 0..Pages : Kept(j, g[j])}
    <2>1. 0 \in Good
      <3>1. 0 \in 0..Pages
        BY <1>1
      <3>2. g[0] = backingStore
        BY <1>5, <3>1
      <3>3. QED BY <1>2, <3>1, <3>2
    <2>2. ASSUME NEW j \in 1..Pages, j - 1 \in Good PROVE j \in Good
      <3>1. Kept(j - 1, g[j - 1]) /\ j \in 0..Pages
        BY <1>6, <2>2
      <3>2. Out(j) => Stored(g[j - 1], <<t, j - 1>>)
        <4>1. j \in ((j - 1) + 1)..Pages
          BY <1>1
        <4>2. QED BY <3>1, <4>1 DEF Kept
      <3>3. IF Out(j) THEN g[j] = Unstored(g[j - 1], <<t, j - 1>>) ELSE g[j] = g[j - 1]
        BY <1>6, <3>2 DEF Turn
      <3>4. QED BY <1>3, <3>1, <3>3
    <2> HIDE DEF Good
    <2>3. 0..Pages \subseteq Good
      BY <1>1, <2>1, <2>2, LoopInvariant
    <2>4. QED BY <2>3 DEF Good
  <1>8. g = Loop(g)
    <2>1. ASSUME NEW j \in 0..Pages PROVE g[j] = Loop(g)[j]
      <3>1. CASE j = 0
        BY <1>5, <3>1
      <3>2. CASE j # 0
        <4>1. j \in 1..Pages
          BY <1>1, <3>2
        <4>2. Out(j) => Stored(g[j - 1], <<t, j - 1>>)
          <5>1. j \in ((j - 1) + 1)..Pages /\ j - 1 \in 0..Pages
            BY <1>1, <4>1
          <5>2. QED BY <1>7, <5>1 DEF Kept
        <4>3. QED BY <1>6, <3>2, <4>1, <4>2 DEF Out, Turn
      <3>3. QED BY <3>1, <3>2
    <2>2. QED BY <2>1
  <1>9. PICK f : /\ Purged(t) = f[Pages] /\ f[0] = backingStore
                 /\ \A j \in 1..Pages :
                      IF Out(j) THEN f[j] = Unstored(f[j - 1], <<t, j - 1>>)
                                ELSE f[j] = f[j - 1]
    <2>1. Purged(t) = result[Pages]
      BY DEF Purged
    <2>2. result = Loop(result)
      <3> HIDE DEF Loop
      <3>1. QED BY <1>8
    <2> HIDE DEF result
    <2>3. result[0] = backingStore
      <3>1. 0 \in 0..Pages
        BY <1>1
      <3>2. QED BY <2>2, <3>1
    <2>4. ASSUME NEW j \in 1..Pages
          PROVE  IF Out(j) THEN result[j] = Unstored(result[j - 1], <<t, j - 1>>)
                           ELSE result[j] = result[j - 1]
      <3>1. j \in 0..Pages /\ j # 0
        BY <1>1
      <3>2. QED BY <2>2, <3>1 DEF Out
    <2>5. QED BY <2>1, <2>3, <2>4
  <1>10. Kept(Pages, f[Pages])
    <2> DEFINE Good == {j \in 0..Pages : Kept(j, f[j])}
    <2>1. 0 \in Good
      BY <1>1, <1>2, <1>9
    <2>2. ASSUME NEW j \in 1..Pages, j - 1 \in Good PROVE j \in Good
      <3>1. Kept(j - 1, f[j - 1]) /\ j \in 0..Pages
        BY <1>6, <2>2
      <3>2. QED BY <1>3, <1>9, <3>1
    <2> HIDE DEF Good
    <2>3. 0..Pages \subseteq Good
      BY <1>1, <2>1, <2>2, LoopInvariant
    <2>4. QED BY <1>1, <2>3 DEF Good
  <1>11. QED BY <1>9, <1>10 DEF Kept

-----------------------------------------------------------------------------
(* The steps.                                                              *)

(* The tables after the running thread's page v has been given frame f.    *)
LEMMA ResidentValue ==
  ASSUME NEW pt \in [Thread -> [VPage -> Entry]], NEW v \in VPage, NEW f \in Frame,
         current \in Thread
  PROVE  /\ Resident(pt, v, f) \in [Thread -> [VPage -> Entry]]
         /\ Resident(pt, v, f)[current][v].phys = f
         /\ \A t \in Thread, w \in VPage :
              t # current \/ w # v => Resident(pt, v, f)[t][w] = pt[t][w]
  <1> DEFINE e == [pt[current][v] EXCEPT !.phys = f, !.valid = TRUE, !.use = TRUE]
  <1>1. Resident(pt, v, f) = [pt EXCEPT ![current] = [@ EXCEPT ![v] = e]]
    BY DEF Resident
  <1>2. e \in Entry /\ e.phys = f
    <2>1. pt[current][v] \in Entry
      OBVIOUS
    <2>2. QED BY <2>1 DEF Entry
  <1> HIDE DEF e
  <1>3. QED BY <1>1, <1>2

(* The tables after page p has left memory.                                *)
LEMMA EvictedValue ==
  ASSUME NEW pt \in [Thread -> [VPage -> Entry]], NEW p, NEW passed
  PROVE  /\ Evicted(pt, p, passed) \in [Thread -> [VPage -> Entry]]
         /\ \A t \in Thread, v \in VPage : <<t, v>> # p =>
              /\ Evicted(pt, p, passed)[t][v].phys = pt[t][v].phys
              /\ Evicted(pt, p, passed)[t][v].valid = pt[t][v].valid
              /\ Evicted(pt, p, passed)[t][v].dirty = pt[t][v].dirty
  <1> DEFINE New(t, v) ==
        IF <<t, v>> = p
        THEN [pt[t][v] EXCEPT !.phys = NoFrame, !.use = TRUE, !.valid = TRUE]
        ELSE IF <<t, v>> \in passed THEN [pt[t][v] EXCEPT !.use = FALSE]
        ELSE pt[t][v]
  <1>1. Evicted(pt, p, passed) = [t \in Thread |-> [v \in VPage |-> New(t, v)]]
    BY DEF Evicted
  <1>2. ASSUME NEW t \in Thread, NEW v \in VPage
        PROVE  /\ New(t, v) \in Entry
               /\ <<t, v>> # p => /\ New(t, v).phys = pt[t][v].phys
                                 /\ New(t, v).valid = pt[t][v].valid
                                 /\ New(t, v).dirty = pt[t][v].dirty
    <2>1. pt[t][v] \in Entry
      OBVIOUS
    <2>2. QED BY <2>1 DEF Entry
  <1> HIDE DEF New
  <1>3. QED BY <1>1, <1>2

(* Nothing is in memory or saved at first.                                 *)
LEMMA InitPagerInv == Init => PagerInv
  <1> SUFFICES ASSUME Init PROVE PagerInv
    OBVIOUS
  <1> USE Ranges
  <1>1. \A t \in Thread, v \in VPage :
          /\ pageTable[t][v] = NewEntry /\ last[t][v] = 0
          /\ NewEntry.phys = NoFrame /\ ~ NewEntry.valid
    BY DEF Init, NewEntry
  <1>2. PagerTypeOK
    <2>1. pageTable \in [Thread -> [VPage -> Entry]]
      BY DEF Init, NewEntry, Entry
    <2>2. tlb \in [Slot -> TlbEntry]
      BY DEF Init, TlbEntry
    <2>3. memory \in [Frame -> Content] /\ last \in [Thread -> [VPage -> {0, 1}]]
      BY DEF Init, Content, Blank
    <2>4. invertedTable \in Seq(Thread) /\ backingStore \in Seq([key : Thread \X VPage, buffer : Content])
      BY DEF Init
    <2>5. QED BY <2>1, <2>2, <2>3, <2>4 DEF Init, PagerTypeOK
  <1>3. SpacesSound
    <2>1. Len(invertedTable) = 1 /\ invertedTable[1] = current
      BY DEF Init
    <2>2. 1 \in 1..Len(invertedTable)
      BY <2>1
    <2>3. current \in Spaces
      BY <2>1, <2>2 DEF Spaces
    <2>4. \A i, j \in 1..Len(invertedTable) : i = j
      BY <2>1
    <2>5. QED BY <1>1, <2>3, <2>4 DEF SpacesSound
  <1>4. BackedUp
    <2>1. Spaces \subseteq Thread
      BY DEF Init, Spaces
    <2>2. QED BY <1>1, <2>1 DEF BackedUp, SwappedOut
  <1>5. TablesExact
    BY <1>1 DEF TablesExact, PageExact, Init
  <1>6. TlbExact
    <2>1. \A s \in Slot : ~ tlb[s].valid
      BY DEF Init
    <2>2. QED BY <2>1 DEF TlbExact
  <1>7. QED BY <1>2, <1>3, <1>4, <1>5, <1>6 DEF PagerInv

(* The listed threads are threads.                                         *)
LEMMA SpacesAreThreads ==
  ASSUME PagerTypeOK
  PROVE  Spaces \subseteq Thread
  BY DEF PagerTypeOK, Spaces

(* A step that only changes bits of pages in memory keeps what is said of  *)
(* the spaces, the backing store and the tables.                           *)
LEMMA BitsOnly ==
  ASSUME PagerInv,
         \A t \in Thread, v \in VPage :
           /\ pageTable'[t][v].phys = pageTable[t][v].phys
           /\ pageTable[t][v].phys = NoFrame => pageTable'[t][v] = pageTable[t][v],
         current' \in Spaces \cup {NULL},
         UNCHANGED <<invertedTable, marked, memory, backingStore, last>>
  PROVE  SpacesSound' /\ BackedUp' /\ (TablesExact => TablesExact')
  <1>1. Spaces' = Spaces /\ Spaces \subseteq Thread
    BY SpacesAreThreads DEF Spaces, PagerInv
  <1>2. SpacesSound'
    <2>1. \A t \in Thread \ Spaces, v \in VPage : pageTable'[t][v].phys = NoFrame
      BY DEF PagerInv, SpacesSound
    <2>2. QED BY <1>1, <2>1 DEF PagerInv, SpacesSound
  <1>3. BackedUp'
    <2>1. ASSUME NEW t \in Spaces, NEW v \in VPage, SwappedOut(pageTable'[t][v])
          PROVE  Stored(backingStore, <<t, v>>)
      <3>1. pageTable'[t][v] = pageTable[t][v]
        BY <1>1, <2>1 DEF SwappedOut
      <3>2. QED BY <2>1, <3>1 DEF PagerInv, BackedUp
    <2>2. QED BY <1>1, <2>1 DEF BackedUp, SwappedOut
  <1>4. ASSUME TablesExact PROVE TablesExact'
    <2>1. ASSUME NEW t \in Thread, NEW v \in VPage PROVE PageExact(t, v)'
      <3>1. PageExact(t, v)
        BY <1>4 DEF TablesExact
      <3>2. QED BY <3>1 DEF PageExact
    <2>2. QED BY <1>4, <2>1 DEF TablesExact
  <1>5. QED BY <1>2, <1>3, <1>4

(* The TLB slot of a hit.                                                  *)
LEMMA HitFound ==
  ASSUME NEW v, Hits(v) # {}
  PROVE  Hit(v) \in Slot /\ tlb[Hit(v)].valid /\ tlb[Hit(v)].page = v
  <1>1. Hits(v) \subseteq Nat
    BY Ranges DEF Hits
  <1>2. PICK s \in Hits(v) : \A r \in Hits(v) : s <= r
    BY <1>1, LeastNatural
  <1>3. Hit(v) \in Hits(v)
    BY <1>2 DEF Hit
  <1>4. QED BY <1>3 DEF Hits

(* A read sets a use bit of the TLB.                                       *)
LEMMA ReadKeeps ==
  ASSUME PagerInv, NEW v \in VPage, Read(v)
  PROVE  PagerInv'
  <1>1. PagerTypeOK /\ Hit(v) \in Slot
    BY HitFound DEF PagerInv, Read
  <1>2. ASSUME NEW s \in Slot
        PROVE  /\ tlb'[s] \in TlbEntry /\ tlb'[s].page = tlb[s].page
               /\ tlb'[s].phys = tlb[s].phys /\ tlb'[s].valid = tlb[s].valid
    <2>1. tlb[s] \in TlbEntry
      BY <1>1 DEF PagerTypeOK
    <2>2. QED BY <1>1, <2>1 DEF Read, PagerTypeOK, TlbEntry
  <1>3. tlb' \in [Slot -> TlbEntry]
    <2>1. tlb' = [s \in Slot |-> tlb'[s]]
      BY <1>1 DEF Read, PagerTypeOK
    <2>2. QED BY <1>2, <2>1
  <1>4. PagerTypeOK'
    BY <1>1, <1>3 DEF Read, PagerTypeOK
  <1>5. SpacesSound' /\ BackedUp' /\ (TablesExact => TablesExact')
    BY BitsOnly DEF Read, PagerInv, SpacesSound
  <1>6. TlbExact => TlbExact'
    BY <1>2 DEF TlbExact, Read
  <1>7. QED BY <1>4, <1>5, <1>6 DEF PagerInv, Read

(* A write reaches the frame of the page that is written and of no other.  *)
LEMMA WriteKeeps ==
  ASSUME PagerInv, NEW v \in VPage, Write(v)
  PROVE  PagerInv'
  <1> DEFINE s0 == Hit(v)
             f == tlb[s0].phys
  <1>1. /\ PagerTypeOK /\ s0 \in Slot /\ tlb[s0].valid /\ tlb[s0].page = v
        /\ current \in Thread /\ current # NULL
    BY HitFound DEF PagerInv, Write, PagerTypeOK, Running
  <1>2. /\ tlb' = [tlb EXCEPT ![s0].use = TRUE, ![s0].dirty = TRUE]
        /\ memory' = [memory EXCEPT ![f] = [page |-> v, version |-> 1]]
        /\ last' = [last EXCEPT ![current][v] = 1]
        /\ UNCHANGED <<pageTable, invertedTable, tlbIndex, physicalIndex, marked,
                       backingStore, current, evicted, crashed>>
    BY DEF Write
  <1> HIDE DEF s0
  <1>3. f \in Frame
    BY <1>1 DEF PagerTypeOK, TlbEntry
  <1>4. ASSUME NEW s \in Slot
        PROVE  /\ tlb'[s] \in TlbEntry /\ tlb'[s].page = tlb[s].page
               /\ tlb'[s].phys = tlb[s].phys /\ tlb'[s].valid = tlb[s].valid
    <2>1. tlb[s] \in TlbEntry
      BY <1>1 DEF PagerTypeOK
    <2>2. QED BY <1>1, <1>2, <2>1 DEF PagerTypeOK, TlbEntry
  <1>5. tlb' \in [Slot -> TlbEntry]
    <2>1. tlb' = [s \in Slot |-> tlb'[s]]
      BY <1>1, <1>2 DEF PagerTypeOK
    <2>2. QED BY <1>4, <2>1
  <1>6. PagerTypeOK'
    <2>1. memory' \in [Frame -> Content]
      BY <1>1, <1>2, <1>3 DEF PagerTypeOK, Content
    <2>2. last' \in [Thread -> [VPage -> {0, 1}]]
      BY <1>1, <1>2 DEF PagerTypeOK
    <2>3. QED BY <1>1, <1>2, <1>5, <2>1, <2>2 DEF PagerTypeOK
  <1>7. Spaces' = Spaces /\ Spaces \subseteq Thread /\ current \in Spaces
    BY <1>1, <1>2, SpacesAreThreads DEF Spaces, PagerInv, SpacesSound
  <1>8. SpacesSound'
    BY <1>2, <1>7 DEF PagerInv, SpacesSound
  <1>9. BackedUp'
    BY <1>2, <1>7 DEF PagerInv, BackedUp, SwappedOut
  <1>10. TlbExact => TlbExact'
    BY <1>2, <1>4 DEF TlbExact
  <1>11. ASSUME TablesExact, TlbExact PROVE TablesExact'
    <2>1. f = pageTable[current][v].phys
      BY <1>1, <1>11 DEF TlbExact
    <2>2. f # NoFrame
      BY <1>3, Ranges
    <2>3. ASSUME NEW t \in Thread, NEW w \in VPage PROVE PageExact(t, w)'
      <3>0. PageExact(t, w)
        BY <1>11 DEF TablesExact
      <3>1. CASE t = current /\ w = v
        <4>1. last'[t][w] = 1 /\ memory'[f] = [page |-> v, version |-> 1]
          BY <1>1, <1>2, <1>3, <3>1 DEF PagerTypeOK
        <4>2. QED BY <1>2, <2>1, <2>2, <3>0, <3>1, <4>1 DEF PageExact
      <3>2. CASE ~ (t = current /\ w = v)
        <4>1. last'[t][w] = last[t][w]
          BY <1>1, <1>2, <3>2 DEF PagerTypeOK
        <4>2. pageTable[t][w].phys # f
          BY <1>1, <1>11, <2>1, <2>2, <3>2 DEF TablesExact
        <4>3. pageTable[t][w].phys # NoFrame => pageTable[t][w].phys \in Frame
          BY <1>1 DEF PagerTypeOK, Entry
        <4>4. pageTable[t][w].phys # NoFrame =>
                memory'[pageTable[t][w].phys] = memory[pageTable[t][w].phys]
          BY <1>1, <1>2, <4>2, <4>3 DEF PagerTypeOK
        <4>5. QED BY <1>2, <3>0, <4>1, <4>4 DEF PageExact
      <3>3. QED BY <3>1, <3>2
    <2>4. QED BY <1>2, <1>11, <2>3 DEF TablesExact
  <1>12. QED BY <1>2, <1>6, <1>8, <1>9, <1>10, <1>11 DEF PagerInv

(* A fault on a page in memory changes bits and fills a slot of the TLB.   *)
LEMMA FaultResidentKeeps ==
  ASSUME PagerInv, NEW v \in VPage, FaultResident(v)
  PROVE  PagerInv'
  <1> DEFINE pt == UpdatedPageTables
             e == pt[current][v]
  <1>1. /\ PagerTypeOK /\ current \in Thread /\ current # NULL /\ current \in Spaces
    BY DEF PagerInv, FaultResident, Fault, Running, PagerTypeOK, SpacesSound
  <1>2. /\ pt \in [Thread -> [VPage -> Entry]]
        /\ \A t \in Thread, w \in VPage :
             /\ pt[t][w].phys = pageTable[t][w].phys
             /\ pageTable[t][w].phys = NoFrame => pt[t][w] = pageTable[t][w]
    BY <1>1, UpdatedKeeps
  <1>3. /\ e.phys # NoFrame /\ pageTable' = Resident(pt, v, e.phys) /\ FillTlb(v, e)
        /\ UNCHANGED <<invertedTable, physicalIndex, marked, memory,
                       backingStore, current, last, evicted, crashed>>
    BY DEF FaultResident
  <1> HIDE DEF pt
  <1>4. e \in Entry /\ e.phys \in Frame
    BY <1>1, <1>2, <1>3 DEF Entry
  <1>5. /\ pageTable' \in [Thread -> [VPage -> Entry]]
        /\ pageTable'[current][v].phys = e.phys
        /\ \A t \in Thread, w \in VPage :
             t # current \/ w # v => pageTable'[t][w] = pt[t][w]
    BY <1>1, <1>2, <1>3, <1>4, ResidentValue
  <1>6. \A t \in Thread, w \in VPage :
          /\ pageTable'[t][w].phys = pageTable[t][w].phys
          /\ pageTable[t][w].phys = NoFrame => pageTable'[t][w] = pageTable[t][w]
    <2>1. pageTable[current][v].phys = e.phys
      BY <1>1, <1>2
    <2> HIDE DEF e
    <2>2. QED BY <1>2, <1>3, <1>5, <2>1
  <1>7. /\ tlb' \in [Slot -> TlbEntry] /\ tlbIndex' \in Slot
        /\ \A s \in Slot :
             \/ tlb'[s].page = v /\ tlb'[s].phys = e.phys
             \/ /\ tlb'[s].page = tlb[s].page /\ tlb'[s].phys = tlb[s].phys
                /\ tlb'[s].valid = tlb[s].valid
    BY <1>1, <1>3, <1>4, FillTlbKeeps
  <1>8. PagerTypeOK'
    BY <1>1, <1>3, <1>5, <1>7 DEF PagerTypeOK
  <1>9. SpacesSound' /\ BackedUp' /\ (TablesExact => TablesExact')
    BY <1>1, <1>3, <1>6, BitsOnly
  <1>10. ASSUME TlbExact PROVE TlbExact'
    <2>1. ASSUME NEW s \in Slot, tlb'[s].valid
          PROVE  tlb'[s].phys = pageTable'[current][tlb'[s].page].phys
      <3>1. CASE tlb'[s].page = v /\ tlb'[s].phys = e.phys
        BY <1>5, <3>1
      <3>2. CASE /\ tlb'[s].page = tlb[s].page /\ tlb'[s].phys = tlb[s].phys
                 /\ tlb'[s].valid = tlb[s].valid
        <4>1. tlb[s].page \in VPage
          BY <1>1 DEF PagerTypeOK, TlbEntry
        <4>2. tlb[s].phys = pageTable[current][tlb[s].page].phys
          BY <1>1, <1>10, <2>1, <3>2 DEF TlbExact
        <4>3. QED BY <1>1, <1>6, <3>2, <4>1, <4>2
      <3>3. QED BY <1>7, <3>1, <3>2
    <2>2. QED BY <1>3, <2>1 DEF TlbExact
  <1>11. QED BY <1>3, <1>8, <1>9, <1>10 DEF PagerInv

(* A fault that finds a clear frame marks it, loads the page there and     *)
(* fills a slot of the TLB.                                                *)
LEMMA FaultLoadKeeps ==
  ASSUME PagerInv, NEW v \in VPage, FaultLoad(v)
  PROVE  PagerInv'
  <1> DEFINE pt == UpdatedPageTables
             clear == Frame \ marked
             f == CHOOSE x \in clear : \A g \in clear : x <= g
  <1>1. /\ PagerTypeOK /\ current \in Thread /\ current # NULL /\ current \in Spaces
    BY DEF PagerInv, FaultLoad, Fault, Running, PagerTypeOK, SpacesSound
  <1>2. /\ pt \in [Thread -> [VPage -> Entry]]
        /\ \A t \in Thread, w \in VPage :
             /\ pt[t][w].phys = pageTable[t][w].phys
             /\ pageTable[t][w].phys = NoFrame => pt[t][w] = pageTable[t][w]
    BY <1>1, UpdatedKeeps
  <1>3. /\ clear # {} /\ pt[current][v].phys = NoFrame
        /\ marked' = marked \cup {f}
        /\ pageTable' = Resident(pt, v, f)
        /\ memory' = [memory EXCEPT ![f] = Fresh(v)]
        /\ FillTlb(v, pageTable'[current][v])
        /\ UNCHANGED <<invertedTable, physicalIndex, backingStore, current, last,
                       evicted, crashed>>
    BY DEF FaultLoad
  <1>4. f \in Frame /\ f \notin marked /\ f # NoFrame
    <2>1. clear \subseteq Nat
      BY Ranges
    <2>2. \E x \in clear : \A g \in clear : x <= g
      BY <1>3, <2>1, LeastNatural
    <2> HIDE DEF clear
    <2>3. f \in clear
      BY <2>2
    <2>4. QED BY <2>3, Ranges DEF clear
  <1> HIDE DEF pt, f
  <1>5. /\ pageTable' \in [Thread -> [VPage -> Entry]]
        /\ pageTable'[current][v].phys = f
        /\ \A t \in Thread, w \in VPage :
             t # current \/ w # v => pageTable'[t][w] = pt[t][w]
    BY <1>1, <1>2, <1>3, <1>4, ResidentValue
  <1>6. PICK e \in Entry : e = pageTable'[current][v]
    BY <1>1, <1>5
  <1>7. e.phys = f /\ FillTlb(v, e)
    BY <1>3, <1>5, <1>6
  <1>8. /\ tlb' \in [Slot -> TlbEntry] /\ tlbIndex' \in Slot
        /\ \A s \in Slot :
             \/ tlb'[s].page = v /\ tlb'[s].phys = f
             \/ /\ tlb'[s].page = tlb[s].page /\ tlb'[s].phys = tlb[s].phys
                /\ tlb'[s].valid = tlb[s].valid
    BY <1>1, <1>4, <1>7, FillTlbKeeps
  <1>9. memory' \in [Frame -> Content] /\ memory'[f] = [page |-> v, version |-> 0]
    BY <1>1, <1>3, <1>4 DEF PagerTypeOK, Content, Fresh
  <1>10. PagerTypeOK'
    BY <1>1, <1>3, <1>4, <1>5, <1>8, <1>9 DEF PagerTypeOK
  <1>11. Spaces' = Spaces /\ Spaces \subseteq Thread
    BY <1>1, <1>3, SpacesAreThreads DEF Spaces
  <1>12. SpacesSound'
    <2>1. \A t \in Thread \ Spaces, w \in VPage : pageTable'[t][w].phys = NoFrame
      BY <1>1, <1>2, <1>5 DEF PagerInv, SpacesSound
    <2>2. QED BY <1>1, <1>3, <1>11, <2>1 DEF PagerInv, SpacesSound
  <1>13. BackedUp'
    <2>1. ASSUME NEW t \in Spaces, NEW w \in VPage, SwappedOut(pageTable'[t][w])
          PROVE  Stored(backingStore, <<t, w>>)
      <3>1. t \in Thread /\ (t # current \/ w # v)
        BY <1>4, <1>5, <1>11, <2>1 DEF SwappedOut
      <3>2. pageTable'[t][w] = pageTable[t][w]
        BY <1>2, <1>5, <2>1, <3>1 DEF SwappedOut
      <3>3. QED BY <2>1, <3>2 DEF PagerInv, BackedUp
    <2>2. QED BY <1>3, <1>11, <2>1 DEF BackedUp, SwappedOut
  <1>14. ASSUME TablesExact PROVE TablesExact'
    <2>1. pageTable[current][v].phys = NoFrame /\ last[current][v] = 0
      <3>1. pageTable[current][v].phys = NoFrame
        BY <1>1, <1>2, <1>3
      <3>2. PageExact(current, v)
        BY <1>1, <1>14 DEF TablesExact
      <3>3. QED BY <3>1, <3>2 DEF PageExact
    <2>2. ASSUME NEW t \in Thread, NEW w \in VPage
          PROVE  /\ PageExact(t, w)
                 /\ t # current \/ w # v =>
                      /\ pageTable'[t][w].phys = pageTable[t][w].phys
                      /\ pageTable'[t][w].phys # f
                      /\ pageTable[t][w].phys = NoFrame =>
                           pageTable'[t][w] = pageTable[t][w]
      <3>1. PageExact(t, w)
        BY <1>14 DEF TablesExact
      <3>2. QED BY <1>2, <1>4, <1>5, <3>1 DEF PageExact
    <2>3. ASSUME NEW t \in Thread, NEW w \in VPage PROVE PageExact(t, w)'
      <3>1. CASE t = current /\ w = v
        BY <1>3, <1>4, <1>5, <1>9, <2>1, <3>1 DEF PageExact
      <3>2. CASE t # current \/ w # v
        <4>1. pageTable[t][w].phys # NoFrame => pageTable[t][w].phys \in Frame
          BY <1>1 DEF PagerTypeOK, Entry
        <4>2. pageTable[t][w].phys # NoFrame =>
                memory'[pageTable[t][w].phys] = memory[pageTable[t][w].phys]
          <5>1. pageTable[t][w].phys # f
            BY <2>2, <3>2
          <5>2. memory \in [Frame -> Content]
            BY <1>1 DEF PagerTypeOK
          <5>3. QED BY <1>3, <4>1, <5>1, <5>2
        <4>3. QED BY <1>3, <2>2, <3>2, <4>2 DEF PageExact
      <3>3. QED BY <3>1, <3>2
    <2>4. ASSUME NEW t \in Thread, NEW u \in Thread, NEW w \in VPage, NEW x \in VPage,
                 pageTable'[t][w].phys # NoFrame, pageTable'[t][w].phys = pageTable'[u][x].phys
          PROVE  t = u /\ w = x
      <3>1. CASE t = current /\ w = v
        BY <1>5, <2>2, <2>4, <3>1
      <3>2. CASE u = current /\ x = v
        BY <1>5, <2>2, <2>4, <3>2
      <3>3. CASE (t # current \/ w # v) /\ (u # current \/ x # v)
        <4>1. pageTable[t][w].phys # NoFrame /\ pageTable[t][w].phys = pageTable[u][x].phys
          BY <2>2, <2>4, <3>3
        <4>2. QED BY <1>14, <4>1 DEF TablesExact
      <3>4. QED BY <3>1, <3>2, <3>3
    <2>5. ASSUME NEW g \in marked'
          PROVE  \E t \in Thread, w \in VPage : pageTable'[t][w].phys = g
      <3>1. CASE g = f
        BY <1>1, <1>5, <3>1
      <3>2. CASE g \in marked
        <4>1. PICK t \in Thread, w \in VPage : pageTable[t][w].phys = g
          BY <1>14, <3>2 DEF TablesExact
        <4>2. t # current \/ w # v
          BY <1>1, <2>1, <3>2, <4>1, Ranges DEF PagerTypeOK
        <4>3. QED BY <2>2, <4>1, <4>2
      <3>3. QED BY <1>3, <3>1, <3>2
    <2>6. QED BY <2>3, <2>4, <2>5 DEF TablesExact
  <1>15. ASSUME TlbExact PROVE TlbExact'
    <2>1. ASSUME NEW s \in Slot, tlb'[s].valid
          PROVE  tlb'[s].phys = pageTable'[current][tlb'[s].page].phys
      <3>1. CASE tlb'[s].page = v /\ tlb'[s].phys = f
        BY <1>5, <3>1
      <3>2. CASE /\ tlb'[s].page = tlb[s].page /\ tlb'[s].phys = tlb[s].phys
                 /\ tlb'[s].valid = tlb[s].valid
        <4>1. tlb[s].page \in VPage /\ tlb[s].phys # NoFrame
          BY <1>1, Ranges DEF PagerTypeOK, TlbEntry
        <4>2. tlb[s].phys = pageTable[current][tlb[s].page].phys
          BY <1>1, <1>15, <2>1, <3>2 DEF TlbExact
        <4>3. tlb[s].page # v
          BY <1>1, <1>2, <1>3, <4>1, <4>2
        <4>4. QED BY <1>1, <1>2, <1>5, <3>2, <4>1, <4>2, <4>3
      <3>3. QED BY <1>8, <3>1, <3>2
    <2>2. QED BY <1>3, <2>1 DEF TlbExact
  <1>16. QED BY <1>3, <1>10, <1>12, <1>13, <1>14, <1>15 DEF PagerInv

(* What both ways of exchanging a page have in common: the page out leaves *)
(* frame f for page v, which was not in memory; pt are the tables before,  *)
(* r the table of resident pages.                                          *)
Exchange(v, pt, r, out, f) ==
  /\ Fault(v) /\ pt = UpdatedPageTables /\ pt[current][v].phys = NoFrame
  /\ r = ResidentPages(pt) /\ HandStaysInside(pt, r)
  /\ out = MemVictim(pt, r) /\ f = pt[out[1]][out[2]].phys
  /\ physicalIndex' = MemHand(pt, r)
  /\ pageTable' = Resident(Evicted(pt, out, MemPassed(pt, r)), v, f)
  /\ FillTlb(v, pageTable'[current][v])
  /\ UNCHANGED <<invertedTable, current, last, crashed>>

(* An exchange keeps the spaces and leaves out of memory only the page it  *)
(* chose and the pages that were out already.                              *)
LEMMA Exchanged ==
  ASSUME PagerInv, NEW v \in VPage, NEW pt, NEW r, NEW out, NEW f,
         Exchange(v, pt, r, out, f)
  PROVE  /\ pageTable' \in [Thread -> [VPage -> Entry]] /\ physicalIndex' \in Frame
         /\ tlb' \in [Slot -> TlbEntry] /\ tlbIndex' \in Slot
         /\ f \in Frame /\ out \in Thread \X VPage /\ out # <<current, v>>
         /\ SpacesSound'
         /\ Spaces' = Spaces
         /\ \A t \in Spaces, w \in VPage : SwappedOut(pageTable'[t][w]) =>
              /\ <<t, w>> # <<current, v>>
              /\ <<t, w>> = out \/ Stored(backingStore, <<t, w>>)
  <1> DEFINE q == Evicted(pt, out, MemPassed(pt, r))
  <1>1. /\ PagerTypeOK /\ current \in Thread /\ current # NULL /\ current \in Spaces
    BY DEF PagerInv, Exchange, Fault, Running, PagerTypeOK, SpacesSound
  <1>2. /\ pt \in [Thread -> [VPage -> Entry]]
        /\ \A t \in Thread, w \in VPage :
             /\ pt[t][w].phys = pageTable[t][w].phys
             /\ pageTable[t][w].phys = NoFrame => pt[t][w] = pageTable[t][w]
    BY <1>1, UpdatedKeeps DEF Exchange
  <1>3. physicalIndex' \in Frame /\ out \in InMemory(pt)
    BY <1>1, VictimResident DEF Exchange
  <1>4. Spaces' = Spaces /\ Spaces \subseteq Thread
    BY <1>1, SpacesAreThreads DEF Spaces, Exchange
  <1>5. /\ out \in Spaces \X VPage /\ out \in Thread \X VPage
        /\ out = <<out[1], out[2]>>
        /\ out[1] \in Thread /\ out[2] \in VPage
        /\ pt[out[1]][out[2]].phys # NoFrame
    BY <1>3, <1>4 DEF InMemory
  <1>6. f \in Frame /\ out # <<current, v>>
    <2>1. pt[out[1]][out[2]] \in Entry
      BY <1>2, <1>5
    <2>2. f = pt[out[1]][out[2]].phys /\ pt[current][v].phys = NoFrame
      BY DEF Exchange
    <2>3. QED BY <1>5, <2>1, <2>2 DEF Entry
  <1>7. /\ q \in [Thread -> [VPage -> Entry]]
        /\ \A t \in Thread, w \in VPage : <<t, w>> # out =>
             /\ q[t][w].phys = pt[t][w].phys
             /\ q[t][w].valid = pt[t][w].valid
             /\ q[t][w].dirty = pt[t][w].dirty
    BY <1>2, EvictedValue
  <1>8. pageTable' = Resident(q, v, f) /\ FillTlb(v, pageTable'[current][v])
    BY DEF Exchange
  <1> HIDE DEF q
  <1>9. /\ pageTable' \in [Thread -> [VPage -> Entry]]
        /\ pageTable'[current][v].phys = f
        /\ \A t \in Thread, w \in VPage :
             t # current \/ w # v => pageTable'[t][w] = q[t][w]
    BY <1>1, <1>6, <1>7, <1>8, ResidentValue
  <1>10. tlb' \in [Slot -> TlbEntry] /\ tlbIndex' \in Slot
    <2>1. PICK e \in Entry : e = pageTable'[current][v]
      BY <1>1, <1>9
    <2>2. e.phys # NoFrame /\ FillTlb(v, e)
      BY <1>6, <1>8, <1>9, <2>1, Ranges
    <2>3. QED BY <1>1, <2>2, FillTlbKeeps
  <1>11. SpacesSound'
    <2>1. ASSUME NEW t \in Thread \ Spaces, NEW w \in VPage
          PROVE  pageTable'[t][w].phys = NoFrame
      <3>1. <<t, w>> # out /\ t # current
        BY <1>1, <1>5
      <3>2. pageTable'[t][w].phys = pt[t][w].phys
        BY <1>7, <1>9, <3>1
      <3>3. QED BY <1>2, <3>2 DEF PagerInv, SpacesSound
    <2>2. invertedTable' = invertedTable /\ current' = current
      BY DEF Exchange
    <2>3. QED BY <1>1, <1>4, <2>1, <2>2 DEF PagerInv, SpacesSound
  <1>12. ASSUME NEW t \in Spaces, NEW w \in VPage, SwappedOut(pageTable'[t][w])
         PROVE  /\ <<t, w>> # <<current, v>>
                /\ <<t, w>> = out \/ Stored(backingStore, <<t, w>>)
    <2>0. pageTable'[t][w].phys = NoFrame /\ t \in Thread
      BY <1>4, <1>12 DEF SwappedOut
    <2>1. t # current \/ w # v
      BY <1>6, <1>9, <2>0, Ranges
    <2>2. SUFFICES ASSUME <<t, w>> # out PROVE Stored(backingStore, <<t, w>>)
      BY <2>1
    <2>3. pageTable'[t][w] = q[t][w]
      BY <1>9, <2>0, <2>1
    <2>4. SwappedOut(pt[t][w])
      BY <1>7, <1>12, <2>0, <2>2, <2>3 DEF SwappedOut
    <2>5. pt[t][w] = pageTable[t][w]
      BY <1>2, <2>0, <2>4 DEF SwappedOut
    <2>6. QED BY <2>4, <2>5 DEF PagerInv, BackedUp
  <1>13. QED BY <1>3, <1>4, <1>5, <1>6, <1>9, <1>10, <1>11, <1>12

(* pageIn exchanges a saved page with a resident one.                      *)
LEMMA FaultSwapInKeeps ==
  ASSUME PagerInv, NEW v \in VPage, FaultSwapIn(v)
  PROVE  PagerInv'
  <1> DEFINE pt == UpdatedPageTables
             r == ResidentPages(pt)
             out == MemVictim(pt, r)
             f == pt[out[1]][out[2]].phys
             p == <<current, v>>
             store == Append(backingStore, [key |-> out, buffer |-> memory[f]])
  <1>1. /\ Fault(v) /\ SwappedOut(pt[current][v]) /\ HandStaysInside(pt, r)
        /\ Stored(store, p) /\ physicalIndex' = MemHand(pt, r)
        /\ pageTable' = Resident(Evicted(pt, out, MemPassed(pt, r)), v, f)
        /\ memory' = [memory EXCEPT ![f] = store[IndexOf(store, p)].buffer]
        /\ backingStore' = Unstored(store, p)
        /\ FillTlb(v, pageTable'[current][v])
        /\ UNCHANGED <<invertedTable, marked, current, last, evicted, crashed>>
    BY DEF FaultSwapIn
  <1>2. PagerTypeOK /\ pt[current][v].phys = NoFrame
    BY <1>1 DEF PagerInv, SwappedOut
  <1>3. /\ pageTable' \in [Thread -> [VPage -> Entry]] /\ physicalIndex' \in Frame
        /\ tlb' \in [Slot -> TlbEntry] /\ tlbIndex' \in Slot
        /\ f \in Frame /\ out \in Thread \X VPage /\ out # p
        /\ SpacesSound'
        /\ Spaces' = Spaces
        /\ \A t \in Spaces, w \in VPage : SwappedOut(pageTable'[t][w]) =>
             /\ <<t, w>> # p
             /\ <<t, w>> = out \/ Stored(backingStore, <<t, w>>)
    <2>1. Exchange(v, pt, r, out, f)
      BY <1>1, <1>2 DEF Exchange
    <2> HIDE DEF pt, r, out, f
    <2>2. QED BY <2>1, Exchanged DEF p
  <1> HIDE DEF pt, r, out, f
  <1>4. /\ store \in Store /\ Stored(store, out)
        /\ \A x : Stored(backingStore, x) => Stored(store, x)
    <2>1. backingStore \in Store /\ memory[f] \in Content
      BY <1>2, <1>3 DEF PagerTypeOK, Store
    <2>2. QED BY <1>3, <2>1, AppendStored
  <1> HIDE DEF store, p
  <1>5. /\ IndexOf(store, p) \in 1..Len(store)
        /\ backingStore' \in Store
        /\ \A x : x # p /\ Stored(store, x) => Stored(backingStore', x)
    BY <1>1, <1>4, UnstoredKeeps
  <1>6. memory' \in [Frame -> Content]
    <2>1. store[IndexOf(store, p)] \in [key : Thread \X VPage, buffer : Content]
      <3> DEFINE i == IndexOf(store, p)
      <3> HIDE DEF i
      <3>1. i \in 1..Len(store)
        BY <1>5 DEF i
      <3>2. store[i] \in [key : Thread \X VPage, buffer : Content]
        BY <1>4, <3>1, ElementOfSeq DEF Store
      <3>3. QED BY <3>2 DEF i
    <2>2. store[IndexOf(store, p)].buffer \in Content
      BY <2>1
    <2>3. QED BY <1>1, <1>2, <1>3, <2>2 DEF PagerTypeOK
  <1>7. PagerTypeOK'
    BY <1>1, <1>2, <1>3, <1>5, <1>6 DEF PagerTypeOK, Store
  <1>8. BackedUp'
    <2>1. ASSUME NEW t \in Spaces, NEW w \in VPage, SwappedOut(pageTable'[t][w])
          PROVE  Stored(backingStore', <<t, w>>)
      BY <1>3, <1>4, <1>5, <2>1
    <2>2. QED BY <1>3, <2>1 DEF BackedUp, SwappedOut, Stored
  <1>9. evicted
    <2>1. SUFFICES ASSUME TablesExact PROVE FALSE
      BY DEF PagerInv
    <2>2. current \in Thread
      BY <1>1, <1>2 DEF Fault, Running, PagerTypeOK
    <2>3. pt[current][v] = pageTable[current][v]
      BY <1>2, <2>2, UpdatedKeeps DEF pt
    <2>4. PageExact(current, v)
      BY <2>1, <2>2 DEF TablesExact
    <2>5. QED BY <1>1, <2>3, <2>4 DEF PageExact, SwappedOut
  <1>10. QED BY <1>1, <1>3, <1>7, <1>8, <1>9 DEF PagerInv

(* pageOut saves a resident page and loads another in its place.           *)
LEMMA FaultEvictKeeps ==
  ASSUME PagerInv, NEW v \in VPage, FaultEvict(v)
  PROVE  PagerInv'
  <1> DEFINE pt == UpdatedPageTables
             r == ResidentPages(pt)
             out == MemVictim(pt, r)
             f == pt[out[1]][out[2]].phys
             p == <<current, v>>
             store == Append(backingStore, [key |-> out, buffer |-> memory[f]])
  <1>1. /\ Fault(v) /\ pt[current][v].phys = NoFrame /\ HandStaysInside(pt, r)
        /\ physicalIndex' = MemHand(pt, r) /\ marked' = marked \ {f}
        /\ pageTable' = Resident(Evicted(pt, out, MemPassed(pt, r)), v, f)
        /\ memory' = [memory EXCEPT ![f] = Fresh(v)]
        /\ backingStore' = store /\ evicted' = TRUE
        /\ FillTlb(v, pageTable'[current][v])
        /\ UNCHANGED <<invertedTable, current, last, crashed>>
    BY DEF FaultEvict
  <1>2. PagerTypeOK
    BY DEF PagerInv
  <1>3. /\ pageTable' \in [Thread -> [VPage -> Entry]] /\ physicalIndex' \in Frame
        /\ tlb' \in [Slot -> TlbEntry] /\ tlbIndex' \in Slot
        /\ f \in Frame /\ out \in Thread \X VPage /\ out # p
        /\ SpacesSound'
        /\ Spaces' = Spaces
        /\ \A t \in Spaces, w \in VPage : SwappedOut(pageTable'[t][w]) =>
             /\ <<t, w>> # p
             /\ <<t, w>> = out \/ Stored(backingStore, <<t, w>>)
    <2>1. Exchange(v, pt, r, out, f)
      BY <1>1, <1>2 DEF Exchange
    <2> HIDE DEF pt, r, out, f
    <2>2. QED BY <2>1, Exchanged DEF p
  <1> HIDE DEF pt, r, out, f
  <1>4. /\ store \in Store /\ Stored(store, out)
        /\ \A x : Stored(backingStore, x) => Stored(store, x)
    <2>1. backingStore \in Store /\ memory[f] \in Content
      BY <1>2, <1>3 DEF PagerTypeOK, Store
    <2>2. QED BY <1>3, <2>1, AppendStored
  <1> HIDE DEF store, p
  <1>5. memory' \in [Frame -> Content]
    BY <1>1, <1>2, <1>3 DEF PagerTypeOK, Content, Fresh
  <1>6. PagerTypeOK'
    BY <1>1, <1>2, <1>3, <1>4, <1>5 DEF PagerTypeOK, Store
  <1>7. BackedUp'
    <2>1. ASSUME NEW t \in Spaces, NEW w \in VPage, SwappedOut(pageTable'[t][w])
          PROVE  Stored(backingStore', <<t, w>>)
      BY <1>1, <1>3, <1>4, <2>1
    <2>2. QED BY <1>3, <2>1 DEF BackedUp, SwappedOut, Stored
  <1>8. QED BY <1>1, <1>3, <1>6, <1>7 DEF PagerInv

(* A wild pointer, or an index beyond the page table, ends everything.     *)
LEMMA CrashKeeps ==
  ASSUME PagerInv, FaultBeyond \/ \E v \in VPage : FaultWild(v)
  PROVE  PagerInv'
  <1>1. /\ crashed' = TRUE
        /\ UNCHANGED <<pageTable, invertedTable, tlb, tlbIndex, physicalIndex,
                       marked, memory, backingStore, current, last, evicted>>
    BY DEF FaultWild, FaultBeyond
  <1>2. PagerTypeOK'
    BY <1>1 DEF PagerInv, PagerTypeOK
  <1>3. SpacesSound' /\ BackedUp' /\ (TablesExact => TablesExact')
    BY <1>1, BitsOnly DEF PagerInv, SpacesSound
  <1>4. TlbExact => TlbExact'
    BY <1>1 DEF TlbExact
  <1>5. QED BY <1>1, <1>2, <1>3, <1>4 DEF PagerInv

(* The tables that SaveState leaves, and the TLB after RestoreState.       *)
LEMMA SavedKeeps ==
  ASSUME PagerTypeOK
  PROVE  /\ SavedTables \in [Thread -> [VPage -> Entry]]
         /\ \A t \in Thread, v \in VPage :
              /\ SavedTables[t][v].phys = pageTable[t][v].phys
              /\ pageTable[t][v].phys = NoFrame => SavedTables[t][v] = pageTable[t][v]
         /\ InvalidTlb \in [Slot -> TlbEntry]
         /\ \A s \in Slot : ~ InvalidTlb[s].valid
  <1>1. /\ SavedTables \in [Thread -> [VPage -> Entry]]
        /\ \A t \in Thread, v \in VPage :
             /\ SavedTables[t][v].phys = pageTable[t][v].phys
             /\ pageTable[t][v].phys = NoFrame => SavedTables[t][v] = pageTable[t][v]
    <2>1. CASE current = NULL
      BY <2>1 DEF SavedTables, PagerTypeOK
    <2>2. CASE current # NULL
      BY <2>2, UpdatedKeeps DEF SavedTables
    <2>3. QED BY <2>1, <2>2
  <1>2. ASSUME NEW s \in Slot
        PROVE  [tlb[s] EXCEPT !.valid = FALSE] \in TlbEntry
               /\ ~ [tlb[s] EXCEPT !.valid = FALSE].valid
    <2>1. tlb[s] \in TlbEntry
      BY DEF PagerTypeOK
    <2>2. QED BY <2>1 DEF TlbEntry
  <1>3. QED BY <1>1, <1>2 DEF InvalidTlb

(* A context switch saves bits and invalidates the TLB.                    *)
LEMMA SwitchKeeps ==
  ASSUME PagerInv, NEW t \in Thread, Switch(t)
  PROVE  PagerInv'
  <1>1. /\ t \in Spaces /\ pageTable' = SavedTables /\ tlb' = InvalidTlb /\ current' = t
        /\ UNCHANGED <<invertedTable, tlbIndex, physicalIndex, marked, memory,
                       backingStore, last, evicted, crashed>>
        /\ PagerTypeOK
    BY DEF Switch, PagerInv
  <1>2. /\ pageTable' \in [Thread -> [VPage -> Entry]]
        /\ \A u \in Thread, v \in VPage :
             /\ pageTable'[u][v].phys = pageTable[u][v].phys
             /\ pageTable[u][v].phys = NoFrame => pageTable'[u][v] = pageTable[u][v]
        /\ tlb' \in [Slot -> TlbEntry]
        /\ \A s \in Slot : ~ tlb'[s].valid
    BY <1>1, SavedKeeps
  <1>3. PagerTypeOK'
    BY <1>1, <1>2 DEF PagerTypeOK
  <1>4. SpacesSound' /\ BackedUp' /\ (TablesExact => TablesExact')
    BY <1>1, <1>2, BitsOnly
  <1>5. TlbExact'
    BY <1>2 DEF TlbExact
  <1>6. QED BY <1>1, <1>3, <1>4, <1>5 DEF PagerInv

(* A new space: its thread t was not listed, is listed last, and has       *)
(* nothing in memory.  The bits of the other tables may be saved with it.  *)
NewSpace(t) ==
  /\ t \notin Spaces
  /\ invertedTable' = Append(invertedTable, t)
  /\ pageTable' \in [Thread -> [VPage -> Entry]]
  /\ \A v \in VPage : pageTable'[t][v] = NewEntry
  /\ \A u \in Thread \ {t}, v \in VPage :
       /\ pageTable'[u][v].phys = pageTable[u][v].phys
       /\ pageTable[u][v].phys = NoFrame => pageTable'[u][v] = pageTable[u][v]
  /\ UNCHANGED <<marked, memory, backingStore, last, evicted>>

(* A new space keeps what is said of the others.                           *)
LEMMA NewSpaceKeeps ==
  ASSUME PagerInv, NEW t \in Thread, NewSpace(t), current' \in Spaces \cup {t}
  PROVE  /\ invertedTable' \in Seq(Thread) /\ SpacesSound' /\ BackedUp'
         /\ TablesExact => TablesExact'
  <1>1. PagerTypeOK /\ Spaces \subseteq Thread /\ invertedTable \in Seq(Thread)
    BY SpacesAreThreads DEF PagerInv, PagerTypeOK
  <1>2. /\ Spaces = {u \in Thread : Listed(invertedTable, u)}
        /\ Distinct(invertedTable)
    BY <1>1 DEF Spaces, Listed, Distinct, PagerInv, SpacesSound
  <1>3. /\ Append(invertedTable, t) \in Seq(Thread)
        /\ \A u \in Thread : Listed(Append(invertedTable, t), u)
                             <=> (Listed(invertedTable, u) \/ u = t)
        /\ Distinct(Append(invertedTable, t))
    BY <1>1, <1>2, AppendListed DEF NewSpace
  <1>4. invertedTable' \in Seq(Thread) /\ Distinct(invertedTable') /\ Spaces' = Spaces \cup {t}
    <2>1. invertedTable' = Append(invertedTable, t)
      BY DEF NewSpace
    <2>2. Spaces' = {u \in Thread : Listed(invertedTable', u)}
      BY <1>3, <2>1 DEF Spaces, Listed
    <2>3. QED BY <1>2, <1>3, <2>1, <2>2
  <1>5. pageTable[t] \in [VPage -> Entry] /\ \A v \in VPage : pageTable[t][v].phys = NoFrame
    BY <1>1 DEF PagerInv, PagerTypeOK, SpacesSound, NewSpace
  <1>6. NewEntry.phys = NoFrame /\ ~ NewEntry.valid
    BY DEF NewEntry
  <1>7. \A u \in Thread, v \in VPage : pageTable'[u][v].phys = pageTable[u][v].phys
    BY <1>5, <1>6 DEF NewSpace
  <1>8. SpacesSound'
    <2>1. \A u \in Thread \ Spaces', v \in VPage : pageTable'[u][v].phys = NoFrame
      BY <1>4, <1>7 DEF PagerInv, SpacesSound
    <2>2. QED BY <1>4, <2>1 DEF SpacesSound, Distinct
  <1>9. BackedUp'
    <2>1. ASSUME NEW u \in Spaces', NEW v \in VPage, SwappedOut(pageTable'[u][v])
          PROVE  Stored(backingStore, <<u, v>>)
      <3>1. u # t
        BY <1>6, <2>1 DEF NewSpace, SwappedOut
      <3>2. u \in Spaces /\ u \in Thread
        BY <1>1, <1>4, <2>1, <3>1
      <3>3. pageTable'[u][v] = pageTable[u][v]
        BY <1>7, <2>1, <3>1, <3>2 DEF NewSpace, SwappedOut
      <3>4. QED BY <2>1, <3>2, <3>3 DEF PagerInv, BackedUp
    <2>2. backingStore' = backingStore
      BY DEF NewSpace
    <2>3. QED BY <2>1, <2>2 DEF BackedUp, SwappedOut
  <1>10. ASSUME TablesExact PROVE TablesExact'
    <2>1. ASSUME NEW u \in Thread, NEW v \in VPage PROVE PageExact(u, v)'
      <3>1. PageExact(u, v)
        BY <1>10 DEF TablesExact
      <3>2. CASE u = t
        BY <1>5, <1>6, <3>1, <3>2 DEF PageExact, NewSpace
      <3>3. CASE u # t
        BY <3>1, <3>3 DEF PageExact, NewSpace
      <3>4. QED BY <3>2, <3>3
    <2>2. marked' = marked
      BY DEF NewSpace
    <2>3. QED BY <1>7, <1>10, <2>1, <2>2 DEF TablesExact
  <1>11. QED BY <1>4, <1>8, <1>9, <1>10

(* The space of a forked thread.                                           *)
LEMMA ForkSpaceKeeps ==
  ASSUME PagerInv, NEW t \in Thread, ForkSpace(t)
  PROVE  PagerInv'
  <1>1. /\ t \notin Spaces /\ invertedTable' = Append(invertedTable, t)
        /\ pageTable' = [pageTable EXCEPT ![t] = [v \in VPage |-> NewEntry]]
        /\ UNCHANGED <<tlb, tlbIndex, physicalIndex, marked, memory, backingStore,
                       current, last, evicted, crashed>>
        /\ current # NULL /\ PagerTypeOK
    BY DEF ForkSpace, PagerInv, Running
  <1>2. NewEntry \in Entry
    BY DEF NewEntry, Entry
  <1>3. NewSpace(t)
    <2>1. pageTable' \in [Thread -> [VPage -> Entry]]
      BY <1>1, <1>2 DEF PagerTypeOK
    <2>2. \A v \in VPage : pageTable'[t][v] = NewEntry
      BY <1>1 DEF PagerTypeOK
    <2>3. \A u \in Thread \ {t} : pageTable'[u] = pageTable[u]
      BY <1>1 DEF PagerTypeOK
    <2>4. QED BY <1>1, <2>1, <2>2, <2>3 DEF NewSpace
  <1>4. current \in Spaces /\ current \in Thread
    BY <1>1 DEF PagerInv, SpacesSound, PagerTypeOK
  <1>5. /\ invertedTable' \in Seq(Thread) /\ SpacesSound' /\ BackedUp'
        /\ TablesExact => TablesExact'
    BY <1>1, <1>3, <1>4, NewSpaceKeeps
  <1>6. PagerTypeOK'
    BY <1>1, <1>3, <1>5 DEF PagerTypeOK, NewSpace
  <1>7. TlbExact => TlbExact'
    <2>1. \A v \in VPage : pageTable'[current][v] = pageTable[current][v]
      BY <1>1, <1>4 DEF PagerTypeOK
    <2>2. \A s \in Slot : tlb[s].page \in VPage
      BY <1>1 DEF PagerTypeOK, TlbEntry
    <2>3. QED BY <1>1, <2>1, <2>2 DEF TlbExact
  <1>8. QED BY <1>1, <1>5, <1>6, <1>7 DEF PagerInv

(* The space of a program started by Exec.                                 *)
LEMMA ExecSpaceKeeps ==
  ASSUME PagerInv, NEW t \in Thread, ExecSpace(t)
  PROVE  PagerInv'
  <1>1. /\ t \notin Spaces /\ invertedTable' = Append(invertedTable, t)
        /\ pageTable' = [SavedTables EXCEPT ![t] = [v \in VPage |-> NewEntry]]
        /\ tlb' = InvalidTlb /\ current' = t
        /\ UNCHANGED <<tlbIndex, physicalIndex, marked, memory, backingStore, last,
                       evicted, crashed>>
        /\ PagerTypeOK
    BY DEF ExecSpace, PagerInv
  <1>2. NewEntry \in Entry
    BY DEF NewEntry, Entry
  <1>3. /\ SavedTables \in [Thread -> [VPage -> Entry]]
        /\ \A u \in Thread, v \in VPage :
             /\ SavedTables[u][v].phys = pageTable[u][v].phys
             /\ pageTable[u][v].phys = NoFrame => SavedTables[u][v] = pageTable[u][v]
        /\ tlb' \in [Slot -> TlbEntry] /\ \A s \in Slot : ~ tlb'[s].valid
    BY <1>1, SavedKeeps
  <1>4. NewSpace(t)
    <2>1. pageTable' \in [Thread -> [VPage -> Entry]]
      BY <1>1, <1>2, <1>3
    <2>2. \A v \in VPage : pageTable'[t][v] = NewEntry
      BY <1>1, <1>3
    <2>3. \A u \in Thread \ {t} : pageTable'[u] = SavedTables[u]
      BY <1>1, <1>3
    <2>4. QED BY <1>1, <1>3, <2>1, <2>2, <2>3 DEF NewSpace
  <1>5. /\ invertedTable' \in Seq(Thread) /\ SpacesSound' /\ BackedUp'
        /\ TablesExact => TablesExact'
    BY <1>1, <1>4, NewSpaceKeeps
  <1>6. PagerTypeOK'
    BY <1>1, <1>3, <1>4, <1>5 DEF PagerTypeOK, NewSpace
  <1>7. TlbExact'
    BY <1>3 DEF TlbExact
  <1>8. QED BY <1>1, <1>5, <1>6, <1>7 DEF PagerInv

(* The destructor takes the running thread, and no other, off the list of  *)
(* spaces.                                                                 *)
LEMMA ExitSpaces ==
  ASSUME PagerInv, Exit
  PROVE  /\ current \in Spaces /\ current \in Thread
         /\ invertedTable' \in Seq(Thread) /\ Spaces' = Spaces \ {current}
         /\ \A i, j \in 1..Len(invertedTable') : invertedTable'[i] = invertedTable'[j] => i = j
  <1> DEFINE s == invertedTable
             n == Len(invertedTable)
             k == CHOOSE i \in 1..Len(invertedTable) : invertedTable[i] = current
  <1>1. /\ s \in Seq(Thread) /\ current \in Thread /\ current \in Spaces /\ n \in Nat
        /\ \A i, j \in 1..n : s[i] = s[j] => i = j
    BY DEF PagerInv, PagerTypeOK, SpacesSound, Exit, Running
  <1>2. k \in 1..n /\ s[k] = current
    <2>1. \E i \in 1..n : s[i] = current
      BY <1>1 DEF Spaces
    <2>2. QED BY <2>1
  <1>3. invertedTable' = Without(s, k)
    BY DEF Exit
  <1>4. Spaces = {s[i] : i \in 1..n}
    BY DEF Spaces
  <1> HIDE DEF k
  <1>5. /\ invertedTable' \in Seq(Thread) /\ Len(invertedTable') = n - 1
        /\ \A i \in 1..(n - 1) : invertedTable'[i] = IF i < k THEN s[i] ELSE s[i + 1]
    BY <1>1, <1>2, <1>3, WithoutKeeps
  <1> HIDE DEF s, n
  <1>6. ASSUME NEW i \in 1..(n - 1)
        PROVE  \E j \in 1..n : /\ j = (IF i < k THEN i ELSE i + 1) /\ j # k
                               /\ invertedTable'[i] = s[j]
    BY <1>1, <1>2, <1>5
  <1>7. Spaces' = {invertedTable'[i] : i \in 1..(n - 1)}
    BY <1>5 DEF Spaces
  <1>8. ASSUME NEW t \in Spaces' PROVE t \in Spaces \ {current}
    <2>1. PICK i \in 1..(n - 1) : t = invertedTable'[i]
      BY <1>7
    <2>2. PICK j \in 1..n : j # k /\ t = s[j]
      BY <1>6, <2>1
    <2>3. t # current
      BY <1>1, <1>2, <2>2
    <2>4. QED BY <1>4, <2>2, <2>3
  <1>9. ASSUME NEW t \in Spaces \ {current} PROVE t \in Spaces'
    <2>1. PICK j \in 1..n : t = s[j]
      BY <1>4
    <2>2. j # k
      BY <1>2, <2>1
    <2>3. CASE j < k
      <3>1. j \in 1..(n - 1) /\ invertedTable'[j] = t
        BY <1>1, <1>2, <1>5, <2>1, <2>3
      <3>2. QED BY <1>7, <3>1
    <2>4. CASE j > k
      <3>1. j - 1 \in 1..(n - 1) /\ ~ (j - 1 < k) /\ (j - 1) + 1 = j
        BY <1>1, <1>2, <2>4
      <3>2. invertedTable'[j - 1] = t
        BY <1>5, <2>1, <3>1
      <3>3. QED BY <1>7, <3>1, <3>2
    <2>5. QED BY <1>1, <1>2, <2>2, <2>3, <2>4
  <1>10. ASSUME NEW i \in 1..(n - 1), NEW j \in 1..(n - 1),
                invertedTable'[i] = invertedTable'[j]
         PROVE  i = j
    <2>1. PICK a \in 1..n : /\ a = (IF i < k THEN i ELSE i + 1)
                            /\ invertedTable'[i] = s[a]
      BY <1>6
    <2>2. PICK b \in 1..n : /\ b = (IF j < k THEN j ELSE j + 1)
                            /\ invertedTable'[j] = s[b]
      BY <1>6
    <2>3. a = b
      BY <1>1, <1>10, <2>1, <2>2
    <2>4. QED BY <1>1, <1>2, <2>1, <2>2, <2>3
  <1>11. QED BY <1>1, <1>5, <1>8, <1>9, <1>10

(* A thread that finishes gives back its frames and its saved pages.       *)
LEMMA ExitKeeps ==
  ASSUME PagerInv, Exit
  PROVE  PagerInv'
  <1> DEFINE held == {pageTable[current][v].phys : v \in VPage} \ {NoFrame}
  <1>1. /\ marked' = marked \ held
        /\ memory' = [f \in Frame |-> IF f \in held THEN Blank ELSE memory[f]]
        /\ backingStore' = Purged(current)
        /\ pageTable' = [pageTable EXCEPT ![current] = [v \in VPage |-> NewEntry]]
        /\ last' = [last EXCEPT ![current] = [v \in VPage |-> 0]]
        /\ current' = NULL
        /\ UNCHANGED <<tlb, tlbIndex, physicalIndex, evicted, crashed>>
    BY DEF Exit
  <1>2. PagerTypeOK /\ BackedUp
    BY DEF PagerInv
  <1>3. /\ current \in Spaces /\ current \in Thread
        /\ invertedTable' \in Seq(Thread) /\ Spaces' = Spaces \ {current}
        /\ \A i, j \in 1..Len(invertedTable') : invertedTable'[i] = invertedTable'[j] => i = j
    BY ExitSpaces
  <1>4. /\ backingStore' \in Store
        /\ \A u, v : u # current /\ Stored(backingStore, <<u, v>>)
                       => Stored(backingStore', <<u, v>>)
    BY <1>1, <1>2, <1>3, PurgedKeeps
  <1>5. NewEntry \in Entry /\ NewEntry.phys = NoFrame /\ ~ NewEntry.valid
    BY DEF NewEntry, Entry
  <1>6. /\ pageTable' \in [Thread -> [VPage -> Entry]]
        /\ last' \in [Thread -> [VPage -> {0, 1}]]
        /\ \A v \in VPage : pageTable'[current][v] = NewEntry /\ last'[current][v] = 0
        /\ \A t \in Thread \ {current} : pageTable'[t] = pageTable[t] /\ last'[t] = last[t]
    BY <1>1, <1>2, <1>3, <1>5 DEF PagerTypeOK
  <1>7. \A v \in VPage : pageTable[current][v].phys # NoFrame =>
          pageTable[current][v].phys \in held
    OBVIOUS
  <1>8. \A f \in held : f # NoFrame /\ \E v \in VPage : pageTable[current][v].phys = f
    OBVIOUS
  <1> HIDE DEF held
  <1>9. memory' \in [Frame -> Content]
    BY <1>1, <1>2, Ranges DEF PagerTypeOK, Content, Blank
  <1>10. PagerTypeOK'
    BY <1>1, <1>2, <1>3, <1>4, <1>6, <1>9 DEF PagerTypeOK, Store
  <1>11. SpacesSound'
    <2>1. \A t \in Thread \ Spaces', v \in VPage : pageTable'[t][v].phys = NoFrame
      BY <1>3, <1>5, <1>6 DEF PagerInv, SpacesSound
    <2>2. QED BY <1>1, <1>3, <2>1 DEF SpacesSound
  <1>12. BackedUp'
    <2>1. ASSUME NEW t \in Spaces', NEW v \in VPage, SwappedOut(pageTable'[t][v])
          PROVE  Stored(backingStore', <<t, v>>)
      <3>1. t \in Spaces /\ t # current /\ t \in Thread
        BY <1>2, <1>3, <2>1, SpacesAreThreads
      <3>2. Stored(backingStore, <<t, v>>)
        BY <1>2, <1>6, <2>1, <3>1 DEF BackedUp
      <3>3. QED BY <1>4, <3>1, <3>2
    <2>2. QED BY <2>1 DEF BackedUp, SwappedOut, Stored
  <1>13. ASSUME TablesExact PROVE TablesExact'
    <2>1. ASSUME NEW t \in Thread \ {current}, NEW v \in VPage,
                 pageTable[t][v].phys # NoFrame
          PROVE  pageTable[t][v].phys \notin held /\ pageTable[t][v].phys \in Frame
      <3>1. pageTable[t][v].phys \notin held
        BY <1>3, <1>8, <1>13, <2>1 DEF TablesExact
      <3>2. pageTable[t][v] \in Entry
        BY <1>2 DEF PagerTypeOK
      <3>3. QED BY <2>1, <3>1, <3>2 DEF Entry
    <2>2. ASSUME NEW t \in Thread, NEW v \in VPage PROVE PageExact(t, v)'
      <3>1. CASE t = current
        BY <1>5, <1>6, <3>1 DEF PageExact
      <3>2. CASE t # current
        <4>1. PageExact(t, v)
          BY <1>13 DEF TablesExact
        <4>2. pageTable'[t][v] = pageTable[t][v] /\ last'[t][v] = last[t][v]
          BY <1>6, <3>2
        <4>3. CASE pageTable[t][v].phys = NoFrame
          BY <4>1, <4>2, <4>3 DEF PageExact
        <4>4. CASE pageTable[t][v].phys # NoFrame
          <5>1. pageTable[t][v].phys \notin held /\ pageTable[t][v].phys \in Frame
            BY <2>1, <3>2, <4>4
          <5>2. memory'[pageTable[t][v].phys] = memory[pageTable[t][v].phys]
            BY <1>1, <5>1
          <5>3. QED BY <1>1, <4>1, <4>2, <4>4, <5>1, <5>2 DEF PageExact
        <4>5. QED BY <4>3, <4>4
      <3>3. QED BY <3>1, <3>2
    <2>3. ASSUME NEW t \in Thread, NEW u \in Thread, NEW v \in VPage, NEW w \in VPage,
                 pageTable'[t][v].phys # NoFrame, pageTable'[t][v].phys = pageTable'[u][w].phys
          PROVE  t = u /\ v = w
      <3>1. t # current /\ u # current
        BY <1>5, <1>6, <2>3
      <3>2. /\ pageTable[t][v].phys # NoFrame
            /\ pageTable[t][v].phys = pageTable[u][w].phys
        BY <1>6, <2>3, <3>1
      <3>3. QED BY <1>13, <3>2 DEF TablesExact
    <2>4. ASSUME NEW g \in marked'
          PROVE  \E t \in Thread, v \in VPage : pageTable'[t][v].phys = g
      <3>1. g \in marked /\ g \notin held
        BY <1>1
      <3>2. PICK t \in Thread, v \in VPage : pageTable[t][v].phys = g
        BY <1>13, <3>1 DEF TablesExact
      <3>3. g # NoFrame
        BY <1>2, <3>1, Ranges DEF PagerTypeOK
      <3>4. t # current
        BY <1>7, <3>1, <3>2, <3>3
      <3>5. QED BY <1>6, <3>2, <3>4
    <2>5. QED BY <2>2, <2>3, <2>4 DEF TablesExact
  <1>14. TlbExact'
    BY <1>1 DEF TlbExact
  <1>15. QED BY <1>1, <1>10, <1>11, <1>12, <1>13, <1>14 DEF PagerInv

(* Every step keeps the inductive invariant.                               *)
LEMMA NextPagerInv == PagerInv /\ [Next]_vars => PagerInv'
  <1> SUFFICES ASSUME PagerInv, [Next]_vars PROVE PagerInv'
    OBVIOUS
  <1>1. ASSUME NEW v \in VPage,
               \/ Read(v) \/ Write(v) \/ FaultResident(v) \/ FaultSwapIn(v)
               \/ FaultLoad(v) \/ FaultEvict(v) \/ FaultWild(v)
        PROVE  PagerInv'
    BY <1>1, ReadKeeps, WriteKeeps, FaultResidentKeeps, FaultSwapInKeeps,
       FaultLoadKeeps, FaultEvictKeeps, CrashKeeps
  <1>2. ASSUME NEW t \in Thread, Switch(t) \/ ForkSpace(t) \/ ExecSpace(t)
        PROVE  PagerInv'
    BY <1>2, SwitchKeeps, ForkSpaceKeeps, ExecSpaceKeeps
  <1>3. CASE Exit \/ FaultBeyond
    BY <1>3, ExitKeeps, CrashKeeps
  <1>4. CASE UNCHANGED vars
    <2>1. UNCHANGED <<pageTable, invertedTable, tlb, tlbIndex, physicalIndex, marked,
                      memory, backingStore, current, last, evicted, crashed>>
      BY <1>4 DEF vars
    <2>2. PagerTypeOK'
      BY <2>1 DEF PagerInv, PagerTypeOK
    <2>3. SpacesSound' /\ BackedUp' /\ (TablesExact => TablesExact')
      BY <2>1, BitsOnly DEF PagerInv, SpacesSound
    <2>4. TlbExact => TlbExact'
      BY <2>1 DEF TlbExact
    <2>5. QED BY <2>1, <2>2, <2>3, <2>4 DEF PagerInv
  <1>5. QED BY <1>1, <1>2, <1>3, <1>4 DEF Next

-----------------------------------------------------------------------------
(* The types of page tables, TLB, memory and backing store hold: the TLB   *)
(* only ever names frames of the machine, also after pages have left it,   *)
(* and secondChance keeps both hands inside their tables.                  *)
THEOREM PagerTypes == Spec => []PagerTypeOK
  <1>1. PagerInv => PagerTypeOK
    BY DEF PagerInv
  <1>2. QED BY <1>1, InitPagerInv, NextPagerInv, PTL DEF Spec

(* FindPage hands out no frame twice and none is leaked until memory runs  *)
(* out, for any number of threads and frames and any order of faults,      *)
(* forks, execs and exits.                                                 *)
THEOREM PagerFrameHeldOnce == Spec => []FrameHeldOnce
  <1>1. ASSUME PagerInv PROVE FrameHeldOnce
    <2> SUFFICES ASSUME ~ evicted, NEW f \in Frame
                 PROVE  Cardinality(Holders(f)) = IF f \in marked THEN 1 ELSE 0
      BY DEF FrameHeldOnce
    <2>1. TablesExact /\ SpacesSound /\ Spaces \subseteq Thread /\ f # NoFrame
      BY <1>1, SpacesAreThreads, Ranges DEF PagerInv
    <2>2. \A p \in Holders(f) : /\ p = <<p[1], p[2]>> /\ p[1] \in Thread /\ p[2] \in VPage
                                 /\ pageTable[p[1]][p[2]].phys = f
      BY <2>1 DEF Holders
    <2>3. CASE f \in marked
      <3>1. PICK t \in Thread, v \in VPage : pageTable[t][v].phys = f
        BY <2>1, <2>3 DEF TablesExact
      <3>2. t \in Spaces
        BY <2>1, <3>1 DEF SpacesSound
      <3>3. <<t, v>> \in Holders(f)
        BY <3>1, <3>2 DEF Holders
      <3>4. ASSUME NEW p \in Holders(f) PROVE p = <<t, v>>
        <4>1. p[1] = t /\ p[2] = v
          BY <2>1, <2>2, <3>1 DEF TablesExact
        <4>2. QED BY <2>2, <4>1
      <3>5. Holders(f) = {<<t, v>>}
        BY <3>3, <3>4
      <3>6. QED BY <2>3, <3>5, FS_Singleton
    <2>4. CASE f \notin marked
      <3>1. ASSUME NEW p \in Holders(f) PROVE FALSE
        <4>1. PageExact(p[1], p[2])
          BY <2>1, <2>2 DEF TablesExact
        <4>2. QED BY <2>1, <2>2, <2>4, <4>1 DEF PageExact
      <3>2. Holders(f) = {}
        BY <3>1
      <3>3. QED BY <2>4, <3>2, FS_EmptySet
    <2>5. QED BY <2>3, <2>4
  <1>2. QED BY <1>1, InitPagerInv, NextPagerInv, PTL DEF Spec

(* Until memory runs out, what the running thread reads through the TLB is *)
(* what it last wrote there, whatever updataPageTables copied from stale   *)
(* slots.                                                                  *)
THEOREM PagerReadsLastWrite == Spec => []ReadsLastWrite
  <1>1. ASSUME PagerInv PROVE ReadsLastWrite
    <2> SUFFICES ASSUME ~ evicted, current # NULL, NEW s \in Slot, tlb[s].valid
                 PROVE  memory[tlb[s].phys] =
                          [page |-> tlb[s].page, version |-> last[current][tlb[s].page]]
      BY DEF ReadsLastWrite, Coherent
    <2>1. PagerTypeOK /\ TablesExact /\ TlbExact
      BY <1>1 DEF PagerInv
    <2>2. tlb[s] \in TlbEntry /\ current \in Thread
      BY <2>1 DEF PagerTypeOK
    <2>3. tlb[s].page \in VPage /\ tlb[s].phys # NoFrame
      BY <2>2, Ranges DEF TlbEntry
    <2>4. tlb[s].phys = pageTable[current][tlb[s].page].phys
      BY <2>1 DEF TlbExact
    <2>5. PageExact(current, tlb[s].page)
      BY <2>1, <2>2, <2>3 DEF TablesExact
    <2>6. QED BY <2>3, <2>4, <2>5 DEF PageExact
  <1>2. QED BY <1>1, InitPagerInv, NextPagerInv, PTL DEF Spec

(* A page that PageFaultException or the destructor looks for in the       *)
(* backing store is there, also after pages have been exchanged.           *)
THEOREM PagerBackedUp == Spec => []BackedUp
  <1>1. PagerInv => BackedUp
    BY DEF PagerInv
  <1>2. QED BY <1>1, InitPagerInv, NextPagerInv, PTL DEF Spec
=============================================================================
