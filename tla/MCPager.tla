------------------------------- MODULE MCPager -------------------------------
(* A small instance of Pager for TLC.                                      *)
EXTENDS Pager, TLC

\* All threads play the same role.
Symmetry == Permutations(Thread)

\* What the properties and the later steps can tell apart: nothing reads the
\* page and use bit of an invalid slot; no guard reads the contents of pages,
\* which only matter while no page has left memory; a crash ends everything,
\* and changes nothing the properties look at.
SlotView == [s \in Slot |->
  IF tlb[s].valid THEN tlb[s] ELSE [tlb[s] EXCEPT !.page = 0, !.use = FALSE]]
DataView == IF evicted THEN <<>> ELSE <<memory, last>>
KeyView == [i \in 1..Len(backingStore) |-> backingStore[i].key]
View ==
  IF crashed THEN <<>>
  ELSE <<pageTable, invertedTable, SlotView, tlbIndex, physicalIndex, marked,
         DataView, KeyView, current, evicted>>
=============================================================================
