------------------------------ MODULE AddrSpace ------------------------------
(***************************************************************************)
(* Physical memory of the build without virtual memory:                    *)
(* userprog/addrspace.cc and the BitMap physicalPageMap.                   *)
(*                                                                         *)
(* Every space has GlobalPages pages of code and data followed by          *)
(* StackPages of stack.  Operations are actions on the variables below,    *)
(* composed with the system calls that perform them in module Process.     *)
(***************************************************************************)
EXTENDS Integers, Sequences, FiniteSets

CONSTANTS
  Thread,         \* every Thread object; a thread has at most one space
  NumPhysPages,   \* frames of the machine
  GlobalPages,    \* pages of code and data of a program
  StackPages      \* divRoundUp(UserStackSize, PageSize)

ASSUME AddrSpaceAssumption ==
  /\ NumPhysPages \in Nat
  /\ GlobalPages \in Nat
  /\ StackPages \in Nat \ {0}

VARIABLES
  physicalPageMap,  \* the marked frames
  pageTable,        \* thread -> frame of each page, <<>> without a space
  usage,            \* AddrSpace::usage
  loader            \* history: the thread that loaded the program a thread runs

spaceVars == <<physicalPageMap, pageTable, usage, loader>>

Frame == 0..(NumPhysPages - 1)
NumPages == GlobalPages + StackPages
GlobalPage == 1..GlobalPages
StackPage == (GlobalPages + 1)..NumPages

SpaceTypeOK ==
  /\ physicalPageMap \subseteq Frame
  /\ pageTable \in [Thread -> {<<>>} \cup [1..NumPages -> Frame]]
  /\ usage \in [Thread -> Int]
  /\ loader \in [Thread -> Thread]

\* BitMap::NumClear
NumClear == Cardinality(Frame \ physicalPageMap)

\* A run of BitMap::Find, one for each of the given pages: the lowest clear
\* frames in increasing order, each marked.
Found(frames, pages) ==
  /\ \A i, j \in pages : i < j => frames[i] < frames[j]
  /\ \A i \in pages : frames[i] \notin physicalPageMap
  /\ \A f \in Frame \ physicalPageMap :
       (\A i \in pages : frames[i] # f) => \A i \in pages : frames[i] < f
  /\ physicalPageMap' = physicalPageMap \cup {frames[i] : i \in pages}

\* AddrSpace::AddrSpace(executable): a frame for every page.
LoadSpace(t) ==
  /\ NumPages <= NumClear
  /\ \E frames \in [1..NumPages -> Frame] :
       /\ Found(frames, 1..NumPages)
       /\ pageTable' = [pageTable EXCEPT ![t] = frames]
  /\ usage' = [usage EXCEPT ![t] = 1]
  /\ loader' = [loader EXCEPT ![t] = t]

\* AddrSpace::AddrSpace(father): the father's frames for code and data, new
\* ones for the stack.  The counter incremented is the new object's own.
CopySpace(father, t) ==
  /\ StackPages <= NumClear
  /\ \E frames \in [1..NumPages -> Frame] :
       /\ \A i \in GlobalPage : frames[i] = pageTable[father][i]
       /\ Found(frames, StackPage)
       /\ pageTable' = [pageTable EXCEPT ![t] = frames]
  /\ usage' = [usage EXCEPT ![t] = 2]
  /\ loader' = [loader EXCEPT ![t] = loader[father]]

\* Mutant: the stack is left behind by the last user.
DeleteSpaceKeepsStack(t) ==
  /\ usage' = [usage EXCEPT ![t] = usage[t] - 1]
  /\ physicalPageMap' =
       physicalPageMap \
         (IF usage'[t] = 0 THEN {pageTable[t][i] : i \in GlobalPage} ELSE {})
  /\ pageTable' = [pageTable EXCEPT ![t] = <<>>]
  /\ UNCHANGED loader

\* AddrSpace::~AddrSpace
DeleteSpace(t) ==
  /\ usage' = [usage EXCEPT ![t] = usage[t] - 1]
  /\ physicalPageMap' =
       physicalPageMap \
         ((IF usage'[t] = 0 THEN {pageTable[t][i] : i \in GlobalPage} ELSE {})
           \cup {pageTable[t][i] : i \in StackPage})
  /\ pageTable' = [pageTable EXCEPT ![t] = <<>>]
  /\ UNCHANGED loader

-----------------------------------------------------------------------------
(* Properties.                                                             *)

HasSpace(t) == pageTable[t] # <<>>

\* The mapped pages of t whose frames nobody has given back: the destructor of
\* the space that loaded the program clears code and data, also under the
\* threads it forked, which keep their stacks only.
Kept(t) == IF HasSpace(loader[t]) THEN 1..NumPages ELSE StackPage

KeptFrames(t) == IF HasSpace(t) THEN {pageTable[t][i] : i \in Kept(t)} ELSE {}

\* In whatever order fathers and forked threads come and go: no frame is leaked,
\* the marked ones are those of the pages that are kept; none is under two pages
\* that are kept, except code and data under the threads of one program; and the
\* threads of a program map the same code and data.  What a forked thread
\* maps after its program's loader has ended is not kept: see MappedFramesTaken.
FramesExact ==
  /\ physicalPageMap = UNION {KeptFrames(t) : t \in Thread}
  /\ \A t, u \in Thread : HasSpace(t) /\ HasSpace(u) =>
       /\ \A i \in Kept(t), j \in Kept(u) : pageTable[t][i] = pageTable[u][j] =>
            i = j /\ (t = u \/ (i \in GlobalPage /\ loader[t] = loader[u]))
       /\ loader[t] = loader[u] =>
            \A i \in GlobalPage : pageTable[t][i] = pageTable[u][i]

\* usage is commented as the number of users of the address space, and the
\* destructor of the last user is to free code and data: every page that a
\* living thread maps is in a marked frame, which no other program can be given.
\* The copy constructor counts the new user in the new object only.
MappedFramesTaken ==
  \A t \in Thread : HasSpace(t) =>
    \A i \in 1..NumPages : pageTable[t][i] \in physicalPageMap
=============================================================================
