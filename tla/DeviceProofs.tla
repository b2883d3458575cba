---------------------------- MODULE DeviceProofs ----------------------------
(***************************************************************************)
(* Proofs about the devices and what the kernel builds on them: the disk   *)
(* and the file system on it, for any number of threads, sectors and       *)
(* files, and the network under PostOffice, for any number of messages.    *)
(***************************************************************************)
EXTENDS FileSystem, PostOffice, QueueLemmas, FiniteSetTheorems

-----------------------------------------------------------------------------
(* The disk                                                                *)

(* OneRequest with the types it needs to be kept: an active request and an *)
(* interrupt to be consumed exclude each other, and either holds the lock. *)
DiskInv ==
  /\ active \in BOOLEAN
  /\ semaphore \in {0, 1}
  /\ active => semaphore = 0
  /\ active \/ semaphore = 1 => lock # NoThread

(* A step that leaves the disk alone keeps what is said of it.             *)
LEMMA DiskLeftAlone ==
  ASSUME DiskInv, UNCHANGED <<active, lock, semaphore>>
  PROVE  DiskInv'
  BY DEF DiskInv

(* Every step of every thread, and a crash, keep it.                       *)
LEMMA DiskStep ==
  ASSUME DiskInv, [Next]_vars
  PROVE  DiskInv'
  <1>1. CASE \E t \in Threads : Access(t)
    <2>1. PICK t \in Threads : Access(t)
      BY <1>1
    <2>2. /\ lock = NoThread /\ lock' = t /\ active' = TRUE /\ semaphore' = semaphore
      BY <2>1 DEF Access, ReadSector, WriteSector
    <2>3. t # NoThread
      BY DiskConstants
    <2>4. QED BY <2>2, <2>3 DEF DiskInv
  <1>2. CASE Interrupted
    <2>1. active /\ active' = FALSE /\ semaphore' = semaphore + 1 /\ lock' = lock
      BY <1>2 DEF Interrupted, RequestDone
    <2>2. semaphore = 0 /\ semaphore' = 1
      BY <2>1 DEF DiskInv
    <2>3. QED BY <2>1, <2>2 DEF DiskInv
  <1>3. CASE \E t \in Threads : Returned(t)
    <2>1. semaphore > 0 /\ semaphore' = semaphore - 1 /\ active' = active
      BY <1>3 DEF Returned, Return
    <2>2. semaphore \in {0, 1} /\ active \in BOOLEAN
      BY Zenon DEF DiskInv
    <2>3. semaphore # 0 /\ semaphore' = 0 /\ 0 # 1
      BY <2>1, <2>2
    <2>4. ~ active /\ ~ active' /\ active' \in BOOLEAN
      BY <2>1, <2>2, <2>3, Zenon DEF DiskInv
    <2>5. QED BY <2>3, <2>4, Zenon DEF DiskInv
  <1>4. CASE Crash
    <2>1. active' = FALSE /\ semaphore' = 0
      BY <1>4 DEF Crash, DiskReset
    <2>2. 0 # 1
      OBVIOUS
    <2>3. QED BY <2>1, <2>2, Zenon DEF DiskInv
  <1>5. CASE Boot \/ StartFormat \/ FormatSector
    BY <1>5, DiskLeftAlone DEF Boot, StartFormat, FormatSector, diskVars
  <1>6. CASE \E t \in Threads : \/ LookedUp(t) \/ Decide(t) \/ Flushed(t)
                               \/ Opened(t) \/ WriteAll(t) \/ Transferred(t)
    <2>1. UNCHANGED diskVars
      BY <1>6 DEF LookedUp, Decide, Flushed, Opened, WriteAll, Transferred
    <2>2. QED BY <2>1, DiskLeftAlone DEF diskVars
  <1>7. CASE \E t \in Creators, n \in Names :
               Remove(t, n) \/ \E s \in Sizes : Create(t, n, s)
    BY <1>7, DiskLeftAlone DEF Remove, Create, Call, diskVars
  <1>8. CASE \E t \in Users :
               \/ \E n \in Names : Open(t, n)
               \/ Close(t)
               \/ \E p \in Positions : Seek(t, p)
               \/ \E k \in Requests : Read(t, k) \/ \E v \in Values : Write(t, k, v)
    <2>1. UNCHANGED diskVars
      BY <1>8 DEF Open, Call, Close, Seek, Read, Write
    <2>2. QED BY <2>1, DiskLeftAlone DEF diskVars
  <1>9. CASE UNCHANGED vars
    BY <1>9, DiskLeftAlone DEF vars, diskVars
  <1>10. QED BY <1>1, <1>2, <1>3, <1>4, <1>5, <1>6, <1>7, <1>8, <1>9 DEF Next

(* The assertions of Disk::ReadRequest and WriteRequest never fail: the    *)
(* lock of SynchDisk is free only while the disk is idle and no interrupt  *)
(* waits to be consumed, whatever the threads do and whenever the machine  *)
(* stops.                                                                  *)
THEOREM DiskOneRequest == Spec => []OneRequest
  <1>1. Init => DiskInv
    <2>1. Init => active = FALSE /\ lock = NoThread /\ semaphore = 0
      BY DEF Init, DiskInit
    <2>2. 0 # 1
      OBVIOUS
    <2>3. QED BY <2>1, <2>2, Zenon DEF DiskInv
  <1>2. DiskInv /\ [Next]_vars => DiskInv'
    BY DiskStep
  <1>3. DiskInv => OneRequest
    <2> SUFFICES ASSUME DiskInv PROVE OneRequest
      OBVIOUS
    <2>1. semaphore \in {0, 1} /\ semaphore <= 1
      BY DEF DiskInv
    <2>2. QED BY <2>1, Zenon DEF DiskInv, OneRequest
  <1>4. QED BY <1>1, <1>2, <1>3, PTL DEF Spec

-----------------------------------------------------------------------------
(* The file system                                                         *)

(* What a file header on the disk holds: sectors of the file, enough for   *)
(* its bytes.                                                              *)
HeaderSound(h) ==
  /\ h.kind = "header" /\ h.numBytes \in Nat
  /\ h.dataSectors \in Seq(Sectors \ System)
  /\ h.numBytes <= Len(h.dataSectors) * SectorSize

(* Extent, on a given disk.                                                *)
Owned(disk, s) == {s} \cup Marked(disk[s].dataSectors)

Tables == [Entries -> [inUse : BOOLEAN, sector : Sectors, name : Names \cup {NoName}]]

Used(table) == {i \in Entries : table[i].inUse}

(* SpaceExact of a directory, a free map and the headers on a disk, with   *)
(* what makes it inductive: no file lies in a sector of the system, and    *)
(* none of its data in its header.                                         *)
Sound(table, map, disk) ==
  /\ table \in Tables
  /\ \A i \in Used(table) :
       /\ table[i].sector \notin System
       /\ HeaderSound(disk[table[i].sector])
       /\ table[i].sector \notin Marked(disk[table[i].sector].dataSectors)
  /\ \A i, j \in Used(table) : i # j =>
       /\ Owned(disk, table[i].sector) \cap Owned(disk, table[j].sector) = {}
       /\ table[i].name # table[j].name
  /\ map = System \cup UNION {Owned(disk, table[i].sector) : i \in Used(table)}

(* Every open file is in the directory, with the header its handle holds.  *)
HandlesSound(table, disk, handles) ==
  \A u \in Threads : handles[u] # Closed =>
    \E i \in Used(table) : /\ table[i].name = handles[u].name
                           /\ disk[table[i].sector] = handles[u].hdr

SoundFor(table, map, disk, handles) ==
  Sound(table, map, disk) /\ HandlesSound(table, disk, handles)

DiskSound == SoundFor(DiskTable, content[MapData].bits, content, handle)

(* A thread's copy of a sector is what the disk holds.                     *)
Has(t, s) == s \in DOMAIN thread[t].got /\ thread[t].got[s] = content[s]

HasDirectory(t) == Has(t, DirData1) /\ Has(t, DirData2)

HasAll(t) == HasDirectory(t) /\ Has(t, MapData)

(* The sector of the header of the file t has looked up.                   *)
FoundSector(t) == Table(t)[Lowest(FindIndex(Table(t), thread[t].name))].sector

OldMap(t) == thread[t].got[MapData].bits

(* What Create has decided on.                                             *)
NewSector(t) == Lowest(Sectors \ OldMap(t))

NewHeader(t) ==
  Header(thread[t].size,
         FindAll(OldMap(t) \cup {NewSector(t)}, DivRoundUp(thread[t].size, SectorSize)))

GrownTable(t) == Add(Table(t), thread[t].name, NewSector(t))

GrownMap(t) == OldMap(t) \cup {NewSector(t)} \cup Marked(NewHeader(t).dataSectors)

GrownDisk(t) == [content EXCEPT ![NewSector(t)] = NewHeader(t)]

(* What Remove has decided on.                                             *)
ShrunkTable(t) == RemoveEntry(Table(t), thread[t].name)

ShrunkMap(t) == Freed(OldMap(t), FoundSector(t), thread[t].got[FoundSector(t)])

(* A thread in Create, Open or Remove before it writes: what it has read   *)
(* is what the disk holds.                                                 *)
Looks(t) ==
  /\ thread[t].step = "lookup"
  /\ \/ thread[t].todo = <<R(DirData1), R(DirData2)>>
     \/ thread[t].todo = <<R(DirData2)>> /\ Has(t, DirData1)
     \/ thread[t].todo = << >> /\ HasDirectory(t)

Opens(t) ==
  /\ thread[t].op = "open" /\ thread[t].step = "header" /\ HasDirectory(t)
  /\ FindIndex(Table(t), thread[t].name) # {}
  /\ \/ thread[t].todo = <<R(FoundSector(t))>>
     \/ thread[t].todo = << >> /\ Has(t, FoundSector(t))

Creates(t) ==
  /\ thread[t].op = "create" /\ thread[t].step = "space" /\ HasDirectory(t)
  /\ FindIndex(Table(t), thread[t].name) = {}
  /\ \/ thread[t].todo = <<R(MapData)>>
     \/ thread[t].todo = << >> /\ Has(t, MapData)

Removes(t) ==
  /\ thread[t].op = "remove" /\ thread[t].step = "space" /\ HasDirectory(t)
  /\ FindIndex(Table(t), thread[t].name) # {}
  /\ \/ thread[t].todo = <<R(FoundSector(t)), R(MapData)>>
     \/ thread[t].todo = <<R(MapData)>> /\ Has(t, FoundSector(t))
     \/ thread[t].todo = << >> /\ Has(t, FoundSector(t)) /\ Has(t, MapData)

(* Create writes the header, then directory and map: the disk is sound     *)
(* with the old ones until the first of them is written, and with the new  *)
(* ones from the last on.                                                  *)
CreateWrites(t) ==
  LET header == W(NewSector(t), NewHeader(t))
      dir1 == W(DirData1, FirstHalf(GrownTable(t)))
      dir2 == W(DirData2, SecondHalf(GrownTable(t)))
      map == W(MapData, FreeMap(GrownMap(t)))
      placed == content[NewSector(t)] = NewHeader(t)
      new1 == content[DirData1] = dir1.data
      new2 == content[DirData2] = dir2.data
      newMap == content[MapData] = map.data
  IN  /\ thread[t].op = "create" /\ thread[t].step = "flush"
      /\ {DirData1, DirData2, MapData} \subseteq DOMAIN thread[t].got
      /\ NewSector(t) \in Sectors \ OldMap(t)
      /\ SoundFor(Table(t), OldMap(t), content, handle)
      /\ SoundFor(GrownTable(t), GrownMap(t), GrownDisk(t), handle)
      /\ \/ thread[t].todo = <<header, R(DirData2), dir1, dir2, map>> /\ HasAll(t)
         \/ thread[t].todo = <<R(DirData2), dir1, dir2, map>> /\ HasAll(t) /\ placed
         \/ thread[t].todo = <<dir1, dir2, map>> /\ HasAll(t) /\ placed
         \/ thread[t].todo = <<dir2, map>> /\ placed /\ new1
         \/ thread[t].todo = <<map>> /\ placed /\ new1 /\ new2
         \/ thread[t].todo = << >> /\ placed /\ new1 /\ new2 /\ newMap

(* Remove writes the map, then the directory.                              *)
RemoveWrites(t) ==
  LET dir1 == W(DirData1, FirstHalf(ShrunkTable(t)))
      dir2 == W(DirData2, SecondHalf(ShrunkTable(t)))
      map == W(MapData, FreeMap(ShrunkMap(t)))
      new1 == content[DirData1] = dir1.data
      new2 == content[DirData2] = dir2.data
      newMap == content[MapData] = map.data
  IN  /\ thread[t].op = "remove" /\ thread[t].step = "flush"
      /\ {DirData1, DirData2, MapData, FoundSector(t)} \subseteq DOMAIN thread[t].got
      /\ SoundFor(Table(t), OldMap(t), content, handle)
      /\ SoundFor(ShrunkTable(t), ShrunkMap(t), content, handle)
      /\ \/ thread[t].todo = <<map, R(DirData2), dir1, dir2>> /\ HasAll(t)
         \/ thread[t].todo = <<R(DirData2), dir1, dir2>> /\ HasDirectory(t) /\ newMap
         \/ thread[t].todo = <<dir1, dir2>> /\ HasDirectory(t) /\ newMap
         \/ thread[t].todo = <<dir2>> /\ newMap /\ new1
         \/ thread[t].todo = << >> /\ newMap /\ new1 /\ new2

(* A thread in Read or Write: it has the file open, and writes only where  *)
(* the file's data are.                                                    *)
Transfers(t) ==
  /\ thread[t].op \in {"read", "write"} /\ thread[t].step \in {"data", "flush"}
  /\ handle[t] # Closed
  /\ thread[t].size \in Nat \ {0}
  /\ handle[t].seekPosition + thread[t].size <= handle[t].hdr.numBytes
  /\ thread[t].todo \in Seq(Marked(thread[t].todo))
  /\ \A i \in 1..Len(thread[t].todo) :
       /\ thread[t].todo[i].writes \in BOOLEAN
       /\ thread[t].todo[i].writes =>
            /\ thread[t].op = "write"
            /\ thread[t].todo[i].sector \in Marked(handle[t].hdr.dataSectors)

Fields(t) ==
  /\ {"op", "step", "todo"} \subseteq DOMAIN thread[t]
  /\ thread[t].op # "none" => {"got", "size"} \subseteq DOMAIN thread[t]
  /\ thread[t].op \in Directing =>
       /\ "name" \in DOMAIN thread[t]
       /\ thread[t].name \in Names /\ thread[t].size \in Nat
       /\ thread[t].op = "remove" =>
            \A u \in Threads : handle[u] # Closed => handle[u].name # thread[t].name
       /\ thread[t].op = "open" => handle[t] = Closed
  /\ handle[t] # Closed =>
       /\ {"name", "hdr", "seekPosition"} \subseteq DOMAIN handle[t]
       /\ handle[t].seekPosition \in Nat

DirectorySound(t) ==
  \/ thread[t].op \in Directing /\ Looks(t)
  \/ Opens(t) \/ Creates(t) \/ Removes(t) \/ CreateWrites(t) \/ RemoveWrites(t)

(* A thread is in no operation, or in one that its record describes.       *)
CallSound(t) == thread[t] = Quiet \/ DirectorySound(t) \/ Transfers(t)

(* t is writing back directory and map.                                    *)
Flushing(t) == thread[t].op \in {"create", "remove"} /\ thread[t].step = "flush"

FileInv ==
  /\ content = [s \in Sectors |-> content[s]]
  /\ thread = [t \in Threads |-> thread[t]]
  /\ handle = [t \in Threads |-> handle[t]]
  /\ up \in BOOLEAN /\ torn \in BOOLEAN /\ (up => ~ torn)
  /\ ~ up => \A t \in Threads : thread[t] = Quiet /\ handle[t] = Closed
  /\ \A t, u \in Threads :
       thread[t].op \in Directing /\ thread[u].op \in Directing => t = u
  /\ \A t \in Threads : Fields(t) /\ CallSound(t)
  /\ (~ torn /\ \A t \in Threads : ~ Flushing(t)) => DiskSound

(* What an access leaves of the record of the thread that makes it.        *)
LEMMA AccessFields ==
  ASSUME FileInv, NEW t \in Threads, Access(t), thread[t].op # "none"
  PROVE  /\ thread' = [u \in Threads |-> thread'[u]]
         /\ \A u \in Threads : u # t => thread'[u] = thread[u]
         /\ DOMAIN thread'[t] = DOMAIN thread[t]
         /\ thread'[t].op = thread[t].op /\ thread'[t].step = thread[t].step
         /\ thread'[t].size = thread[t].size
         /\ thread[t].op \in Directing => thread'[t].name = thread[t].name
         /\ thread'[t].todo = Tail(thread[t].todo)
         /\ LET a == Head(thread[t].todo)
            IN  thread'[t].got = IF a.writes THEN thread[t].got
                                 ELSE Noted(thread[t].got, a.sector, content[a.sector])
  <1> DEFINE a == Head(thread[t].todo)
             d == Tail(thread[t].todo)
             g == IF a.writes THEN thread[t].got
                  ELSE Noted(thread[t].got, a.sector, content[a.sector])
  <1>1. /\ thread = [u \in Threads |-> thread[u]]
        /\ {"op", "step", "todo", "got", "size"} \subseteq DOMAIN thread[t]
        /\ thread[t].op \in Directing => "name" \in DOMAIN thread[t]
    BY DEF FileInv, Fields
  <1>2. thread' = [thread EXCEPT ![t].todo = d, ![t].got = g]
    BY DEF Access
  <1> HIDE DEF a, d, g
  <1>3. /\ thread' = [u \in Threads |-> thread'[u]]
        /\ \A u \in Threads : u # t => thread'[u] = thread[u]
        /\ thread'[t] = [thread[t] EXCEPT !.todo = d, !.got = g]
    BY <1>1, <1>2
  <1>4. /\ DOMAIN thread'[t] = DOMAIN thread[t]
        /\ thread'[t].todo = d /\ thread'[t].got = g
    BY <1>1, <1>3
  <1>5. /\ thread'[t].op = thread[t].op /\ thread'[t].step = thread[t].step
        /\ thread'[t].size = thread[t].size
        /\ thread[t].op \in Directing => thread'[t].name = thread[t].name
    BY <1>1, <1>3
  <1>6. QED BY <1>3, <1>4, <1>5 DEF a, d, g

(* A disk is as sound as another that has the same file headers.           *)
LEMMA SoundFrame ==
  ASSUME NEW table, NEW map, NEW disk, NEW other, NEW handles, NEW later,
         SoundFor(table, map, disk, handles),
         \A i \in Used(table) : other[table[i].sector] = disk[table[i].sector],
         \A u \in Threads : later[u] # Closed =>
           /\ handles[u] # Closed /\ later[u].name = handles[u].name
           /\ later[u].hdr = handles[u].hdr
  PROVE  SoundFor(table, map, other, later)
  <1>1. Sound(table, map, disk) /\ HandlesSound(table, disk, handles)
    BY DEF SoundFor
  <1>2. \A i \in Used(table) : Owned(other, table[i].sector) = Owned(disk, table[i].sector)
    BY DEF Owned
  <1>3. UNION {Owned(other, table[i].sector) : i \in Used(table)}
          = UNION {Owned(disk, table[i].sector) : i \in Used(table)}
    BY <1>2
  <1>4. Sound(table, map, other)
    <2>1. \A i \in Used(table) :
            /\ table[i].sector \notin System
            /\ HeaderSound(other[table[i].sector])
            /\ table[i].sector \notin Marked(other[table[i].sector].dataSectors)
      BY <1>1 DEF Sound
    <2>2. \A i, j \in Used(table) : i # j =>
            /\ Owned(other, table[i].sector) \cap Owned(other, table[j].sector) = {}
            /\ table[i].name # table[j].name
      BY <1>1, <1>2 DEF Sound
    <2>3. map = System \cup UNION {Owned(other, table[i].sector) : i \in Used(table)}
      BY <1>1, <1>3 DEF Sound
    <2>4. QED BY <1>1, <2>1, <2>2, <2>3 DEF Sound
  <1>5. HandlesSound(table, other, later)
    BY <1>1 DEF HandlesSound
  <1>6. QED BY <1>4, <1>5 DEF SoundFor

(* Where an open file has its data, nothing else lies.                     *)
LEMMA DataSector ==
  ASSUME NEW table, NEW map, NEW disk, NEW handles, SoundFor(table, map, disk, handles),
         NEW u \in Threads, handles[u] # Closed,
         NEW x \in Marked(handles[u].hdr.dataSectors)
  PROVE  /\ x \in Sectors \ System /\ x \in map
         /\ \A i \in Used(table) : table[i].sector # x
  <1>1. Sound(table, map, disk) /\ HandlesSound(table, disk, handles)
    BY DEF SoundFor
  <1>2. PICK i \in Used(table) : disk[table[i].sector] = handles[u].hdr
    BY <1>1 DEF HandlesSound
  <1>3. x \in Owned(disk, table[i].sector)
    BY <1>2 DEF Owned
  <1>4. x \in map
    BY <1>1, <1>3 DEF Sound
  <1>5. x \in Sectors \ System
    <2>1. handles[u].hdr.dataSectors \in Seq(Sectors \ System)
      BY <1>1, <1>2 DEF Sound, HeaderSound
    <2>2. QED BY <2>1 DEF Marked
  <1>6. ASSUME NEW j \in Used(table) PROVE table[j].sector # x
    <2>1. CASE j = i
      BY <1>1, <1>2, <2>1 DEF Sound
    <2>2. CASE j # i
      <3>1. Owned(disk, table[i].sector) \cap Owned(disk, table[j].sector) = {}
        BY <1>1, <2>2 DEF Sound
      <3>2. table[j].sector \in Owned(disk, table[j].sector)
        BY DEF Owned
      <3>3. QED BY <1>3, <3>1, <3>2
    <2>3. QED BY <2>1, <2>2
  <1>7. QED BY <1>4, <1>5, <1>6

(* What is left of the accesses of an operation after the first.           *)
LEMMA Tails ==
  ASSUME NEW a, NEW b, NEW c, NEW d, NEW e
  PROVE  /\ Head(<<a>>) = a /\ Tail(<<a>>) = << >>
         /\ Head(<<a, b>>) = a /\ Tail(<<a, b>>) = <<b>>
         /\ Head(<<a, b, c>>) = a /\ Tail(<<a, b, c>>) = <<b, c>>
         /\ Head(<<a, b, c, d>>) = a /\ Tail(<<a, b, c, d>>) = <<b, c, d>>
         /\ Head(<<a, b, c, d, e>>) = a /\ Tail(<<a, b, c, d, e>>) = <<b, c, d, e>>
  OBVIOUS

(* FirstHalf and SecondHalf keep every field of every entry, also of the   *)
(* one that lies across the two sectors.                                   *)
LEMMA TableWritten ==
  ASSUME NEW table \in Tables
  PROVE  TableOf(FirstHalf(table), SecondHalf(table)) = table
  <1> DEFINE f == FirstHalf(table)
             s == SecondHalf(table)
             back == TableOf(f, s)
  <1>1. NumDirEntries \in Nat /\ Split \in 0..(NumDirEntries - 1)
    BY FileConstants
  <1>2. ASSUME NEW i \in Entries PROVE back[i] = table[i]
    <2>1. table[i] \in [inUse : BOOLEAN, sector : Sectors, name : Names \cup {NoName}]
      BY DEF Tables
    <2>2. table[i] = [inUse |-> table[i].inUse, sector |-> table[i].sector,
                      name |-> table[i].name]
      BY <2>1
    <2>3. i \in Int /\ (i <= Split => i \in 0..Split)
          /\ (~ (i <= Split) => i \in (Split + 1)..(NumDirEntries - 1))
          /\ (i < Split => i \in 0..(Split - 1))
          /\ (~ (i < Split) => i \in Split..(NumDirEntries - 1))
      BY <1>1 DEF Entries
    <2> DEFINE place == IF i <= Split THEN f.place[i] ELSE s.place[i]
               name == IF i < Split THEN f.name[i] ELSE s.name[i]
    <2>4. place = <<table[i].inUse, table[i].sector>>
      BY <2>3 DEF FirstHalf, SecondHalf
    <2>5. name = table[i].name
      BY <2>3 DEF FirstHalf, SecondHalf
    <2>6. back[i] = [inUse |-> place[1], sector |-> place[2], name |-> name]
      BY DEF TableOf
    <2> HIDE DEF place, name, back
    <2>7. place[1] = table[i].inUse /\ place[2] = table[i].sector
      BY <2>4
    <2>8. QED BY <2>2, <2>5, <2>6, <2>7, Zenon
  <1>3. back = [i \in Entries |-> back[i]]
    BY DEF TableOf
  <1>4. table = [i \in Entries |-> table[i]]
    BY DEF Tables
  <1> HIDE DEF back
  <1>5. back = table
    BY <1>2, <1>3, <1>4
  <1>6. QED BY <1>5 DEF back, f, s

(* Lowest is a lowest element.                                             *)
LEMMA LowestIn ==
  ASSUME NEW S, S \subseteq Nat, S # {}
  PROVE  Lowest(S) \in S
  <1>1. PICK x \in S : \A y \in S : x <= y
    BY LeastNatural
  <1>2. QED BY <1>1 DEF Lowest

(* A finite set of numbers has an element with any number of lower ones,   *)
(* up to its size: the bits that successive calls of Find return exist.    *)
LEMMA CountedBelow ==
  ASSUME NEW A, A \subseteq Nat, IsFiniteSet(A), NEW k \in Nat, k < Cardinality(A)
  PROVE  \E s \in A : Cardinality({r \in A : r < s}) = k
  <1> DEFINE Below(s) == {r \in A : r < s}
             Good == {n \in 0..k : \E s \in A : Cardinality(Below(s)) = n}
  <1>1. Cardinality(A) \in Nat
    BY FS_CardinalityType
  <1>2. 0 \in Good
    <2>1. A # {}
      BY FS_EmptySet
    <2>2. PICK s \in A : \A r \in A : s <= r
      BY <2>1, LeastNatural
    <2>3. Below(s) = {}
      <3>1. \A r \in A : ~ (r < s)
        BY <2>2
      <3>2. QED BY <3>1, Zenon
    <2>4. Cardinality(Below(s)) = 0
      BY <2>3, FS_EmptySet
    <2>5. 0 \in 0..k
      OBVIOUS
    <2> HIDE DEF Below
    <2>6. QED BY <2>4, <2>5
  <1>3. ASSUME NEW n \in 1..k, n - 1 \in Good PROVE n \in Good
    <2>1. PICK s \in A : Cardinality(Below(s)) = n - 1
      BY <1>3
    <2>2. IsFiniteSet(Below(s)) /\ s \notin Below(s)
      BY FS_Subset
    <2> DEFINE Above == {r \in A : s < r}
               upto == Below(s) \cup {s}
    <2>3. Cardinality(upto) = n
      <3> HIDE DEF Below
      <3>1. Cardinality(upto) = Cardinality(Below(s)) + 1
        BY <2>2, FS_AddElement
      <3>2. QED BY <2>1, <3>1
    <2>4. Above # {}
      <3>1. SUFFICES ASSUME Above = {} PROVE FALSE
        OBVIOUS
      <3>2. A = upto
        <4>1. ASSUME NEW r \in A PROVE r \in Below(s) \/ r = s
          <5>1. r \in Int /\ s \in Int /\ ~ (s < r)
            BY <3>1
          <5>2. r < s \/ r = s
            BY <5>1
          <5>3. QED BY <5>2
        <4>2. upto \subseteq A
          OBVIOUS
        <4>3. QED BY <4>1, <4>2
      <3> HIDE DEF upto
      <3>3. QED BY <1>1, <2>3, <3>2
    <2>5. PICK next \in Above : \A r \in Above : next <= r
      <3>1. Above \subseteq Nat
        OBVIOUS
      <3> HIDE DEF Above
      <3>2. QED BY <2>4, <3>1, LeastNatural
    <2>6. Below(next) = upto
      <3>1. next \in Int /\ s \in Int /\ s < next
        OBVIOUS
      <3>2. ASSUME NEW r \in A PROVE r < next <=> (r < s \/ r = s)
        <4>1. r \in Int /\ (s < r => next <= r)
          BY <2>5
        <4>2. QED BY <3>1, <4>1
      <3>3. QED BY <3>2, Zenon
    <2>7. next \in A /\ n \in 0..k
      OBVIOUS
    <2> HIDE DEF Below, upto
    <2>8. QED BY <2>3, <2>6, <2>7
  <1> HIDE DEF Good
  <1>4. 0..k \subseteq Good
    BY <1>2, <1>3, LoopInvariant
  <1>5. k \in Good
    BY <1>4
  <1>6. QED BY <1>5 DEF Good

(* The sectors Find returns are clear bits of the map.                     *)
LEMMA FoundClear ==
  ASSUME NEW map, NEW k \in Nat, ~ (NumClear(map) < k)
  PROVE  FindAll(map, k) \in [1..k -> Sectors \ map]
  <1> DEFINE A == Sectors \ map
  <1>1. A \subseteq Nat /\ IsFiniteSet(A)
    <2>1. IsFiniteSet(Sectors) /\ Sectors \subseteq Nat
      <3>1. 0 \in Int /\ NumSectors - 1 \in Int
        BY DiskConstants
      <3>2. IsFiniteSet(0..(NumSectors - 1))
        BY <3>1, FS_Interval
      <3>3. QED BY <3>2 DEF Sectors
    <2>2. QED BY <2>1, FS_Subset
  <1>2. Cardinality(A) \in Nat /\ k <= Cardinality(A)
    <2>1. Cardinality(A) \in Nat
      BY <1>1, FS_CardinalityType
    <2>2. QED BY <2>1 DEF NumClear
  <1> HIDE DEF A
  <1>3. ASSUME NEW i \in 1..k
        PROVE  (CHOOSE s \in A : Cardinality({r \in A : r < s}) = i - 1) \in A
    <2>1. i - 1 \in Nat /\ i - 1 < Cardinality(A)
      BY <1>2
    <2>2. \E s \in A : Cardinality({r \in A : r < s}) = i - 1
      BY <1>1, <2>1, CountedBelow
    <2>3. QED BY <2>2
  <1>4. FindAll(map, k)
          = [i \in 1..k |-> CHOOSE s \in A : Cardinality({r \in A : r < s}) = i - 1]
    BY DEF FindAll, A
  <1>5. QED BY <1>3, <1>4 DEF A

(* FileHeader::Allocate gives a file as many sectors as its bytes need.    *)
LEMMA RoundedUp ==
  ASSUME NEW n \in Nat
  PROVE  /\ DivRoundUp(n, SectorSize) \in Nat
         /\ n <= DivRoundUp(n, SectorSize) * SectorSize
  <1>1. SectorSize \in Nat \ {0}
    BY FileConstants
  <1>2. ASSUME NEW s \in Nat \ {0}
        PROVE  (n + s - 1) \div s \in Nat /\ n <= ((n + s - 1) \div s) * s
    OBVIOUS
  <1>3. QED BY <1>1, <1>2 DEF DivRoundUp

(* Create: a name that is not in the directory, a free entry, and sectors  *)
(* that are not in the map.                                                *)
LEMMA Grown ==
  ASSUME NEW table, NEW map, NEW disk, NEW handles, SoundFor(table, map, disk, handles),
         disk = [x \in Sectors |-> disk[x]],
         NEW n \in Names, FindIndex(table, n) = {}, FreeEntries(table) # {},
         NEW s \in Sectors, s \notin map, NEW h, h.kind = "header", h.numBytes \in Nat,
         h.dataSectors \in Seq(Sectors \ (map \cup {s})),
         h.numBytes <= Len(h.dataSectors) * SectorSize
  PROVE  SoundFor(Add(table, n, s), map \cup {s} \cup Marked(h.dataSectors),
                  [disk EXCEPT ![s] = h], handles)
  <1> DEFINE e == Lowest(FreeEntries(table))
             grown == Add(table, n, s)
             other == [disk EXCEPT ![s] = h]
             Own(i) == Owned(disk, table[i].sector)
             new == {s} \cup Marked(h.dataSectors)
  <1>1. /\ table \in Tables
        /\ \A i \in Used(table) :
             /\ table[i].sector \notin System
             /\ HeaderSound(disk[table[i].sector])
             /\ table[i].sector \notin Marked(disk[table[i].sector].dataSectors)
        /\ \A i, j \in Used(table) : i # j =>
             Own(i) \cap Own(j) = {} /\ table[i].name # table[j].name
        /\ map = System \cup UNION {Own(i) : i \in Used(table)}
        /\ HandlesSound(table, disk, handles)
    BY DEF SoundFor, Sound
  <1>2. e \in Entries /\ ~ table[e].inUse
    <2>1. FreeEntries(table) \subseteq Nat
      BY FileConstants DEF FreeEntries, Entries
    <2>2. e \in FreeEntries(table)
      BY <2>1, LowestIn
    <2>3. QED BY <2>2 DEF FreeEntries
  <1>3. grown = [table EXCEPT ![e] = [inUse |-> TRUE, sector |-> s, name |-> n]]
    BY DEF Add
  <1> HIDE DEF e, grown
  <1>4. /\ grown \in Tables
        /\ grown[e].inUse /\ grown[e].sector = s /\ grown[e].name = n
        /\ \A i \in Entries : i # e => grown[i] = table[i]
    BY <1>1, <1>2, <1>3 DEF Tables
  <1>5. e \notin Used(table) /\ Used(grown) = Used(table) \cup {e}
    BY <1>2, <1>4, Zenon DEF Used
  <1>6. /\ other[s] = h
        /\ \A x \in Sectors : x # s => other[x] = disk[x]
    OBVIOUS
  <1> HIDE DEF other
  <1>7. ASSUME NEW i \in Used(table)
        PROVE  /\ grown[i] = table[i] /\ other[table[i].sector] = disk[table[i].sector]
               /\ Own(i) \subseteq map /\ table[i].sector # s
    <2>1. grown[i] = table[i]
      BY <1>4, <1>5 DEF Used
    <2>2. Own(i) \subseteq map
      BY <1>1
    <2>3. table[i].sector \in Own(i)
      BY DEF Owned
    <2>4. table[i].sector \in Sectors
      BY <1>1 DEF Tables, Used
    <2>5. QED BY <1>6, <2>1, <2>2, <2>3, <2>4
  <1>8. /\ \A i \in Used(table) : Owned(other, grown[i].sector) = Own(i)
        /\ Owned(other, grown[e].sector) = new
    BY <1>4, <1>6, <1>7 DEF Owned
  <1>9. /\ System \subseteq map /\ new \cap map = {} /\ s \notin Marked(h.dataSectors)
    BY <1>1 DEF Marked
  <1>10. HeaderSound(h)
    <2>1. Sectors \ (map \cup {s}) \subseteq Sectors \ System
      BY <1>9
    <2>2. h.dataSectors \in Seq(Sectors \ System)
      BY <2>1
    <2>3. QED BY <2>2 DEF HeaderSound
  <1> HIDE DEF Own, new
  <1>11. ASSUME NEW i \in Used(grown)
         PROVE  /\ grown[i].sector \notin System
                /\ HeaderSound(other[grown[i].sector])
                /\ grown[i].sector \notin Marked(other[grown[i].sector].dataSectors)
    <2>1. CASE i = e
      BY <1>4, <1>6, <1>9, <1>10, <2>1
    <2>2. CASE i \in Used(table)
      BY <1>1, <1>7, <2>2
    <2>3. QED BY <1>5, <2>1, <2>2
  <1>12. ASSUME NEW i \in Used(table)
         PROVE  grown[i].name # grown[e].name /\ Own(i) \cap new = {}
    <2>1. table[i].name # n
      BY DEF FindIndex, Used
    <2>2. QED BY <1>4, <1>7, <1>9, <2>1
  <1>13. ASSUME NEW i \in Used(grown), NEW j \in Used(grown), i # j
         PROVE  /\ Owned(other, grown[i].sector) \cap Owned(other, grown[j].sector) = {}
                /\ grown[i].name # grown[j].name
    <2>1. CASE i = e
      <3>1. j \in Used(table)
        BY <1>5, <1>13, <2>1
      <3>2. QED BY <1>8, <1>12, <2>1, <3>1
    <2>2. CASE j = e
      <3>1. i \in Used(table)
        BY <1>5, <1>13, <2>2
      <3>2. QED BY <1>8, <1>12, <2>2, <3>1
    <2>3. CASE i \in Used(table) /\ j \in Used(table)
      BY <1>1, <1>7, <1>8, <1>13, <2>3
    <2>4. QED BY <1>5, <2>1, <2>2, <2>3
  <1>14. map \cup {s} \cup Marked(h.dataSectors)
           = System \cup UNION {Owned(other, grown[i].sector) : i \in Used(grown)}
    <2> DEFINE O(i) == Owned(other, grown[i].sector)
               all == UNION {O(i) : i \in Used(grown)}
               old == UNION {Own(i) : i \in Used(table)}
    <2>1. \A i \in Used(table) : O(i) = Own(i)
      BY <1>8
    <2>2. O(e) = new
      BY <1>8
    <2> HIDE DEF O
    <2>3. ASSUME NEW x PROVE x \in all <=> x \in old \/ x \in new
      <3>1. x \in all <=> \E i \in Used(grown) : x \in O(i)
        OBVIOUS
      <3>2. x \in old <=> \E i \in Used(table) : x \in Own(i)
        OBVIOUS
      <3> HIDE DEF all, old
      <3>3. QED BY <1>5, <2>1, <2>2, <3>1, <3>2, Zenon
    <2>4. all = old \cup new
      <3> HIDE DEF all, old
      <3>1. QED BY <2>3
    <2>5. map = System \cup old
      BY <1>1
    <2> HIDE DEF all, old
    <2>6. map \cup new = System \cup all
      BY <2>4, <2>5
    <2>7. QED BY <2>6 DEF all, O, new
  <1>15. Sound(grown, map \cup {s} \cup Marked(h.dataSectors), other)
    BY <1>4, <1>11, <1>13, <1>14 DEF Sound
  <1>16. HandlesSound(grown, other, handles)
    <2> SUFFICES ASSUME NEW u \in Threads, handles[u] # Closed
                 PROVE  \E i \in Used(grown) : /\ grown[i].name = handles[u].name
                                               /\ other[grown[i].sector] = handles[u].hdr
      BY DEF HandlesSound
    <2>1. PICK i \in Used(table) : /\ table[i].name = handles[u].name
                                   /\ disk[table[i].sector] = handles[u].hdr
      BY <1>1 DEF HandlesSound
    <2>2. i \in Used(grown) /\ grown[i].name = handles[u].name
          /\ other[grown[i].sector] = handles[u].hdr
      BY <1>5, <1>7, <2>1
    <2>3. QED BY <2>2
  <1>17. QED BY <1>15, <1>16 DEF SoundFor, grown, other

(* Remove: a name in the directory that nobody has open.                   *)
LEMMA Shrunk ==
  ASSUME NEW table, NEW map, NEW disk, NEW handles, SoundFor(table, map, disk, handles),
         NEW n, FindIndex(table, n) # {},
         \A u \in Threads : handles[u] # Closed => handles[u].name # n,
         NEW s, s = table[Lowest(FindIndex(table, n))].sector
  PROVE  SoundFor(RemoveEntry(table, n), Freed(map, s, disk[s]), disk, handles)
  <1> DEFINE e == Lowest(FindIndex(table, n))
             shrunk == RemoveEntry(table, n)
             Own(i) == Owned(disk, table[i].sector)
  <1>1. /\ table \in Tables
        /\ \A i \in Used(table) :
             /\ table[i].sector \notin System
             /\ HeaderSound(disk[table[i].sector])
             /\ table[i].sector \notin Marked(disk[table[i].sector].dataSectors)
        /\ \A i, j \in Used(table) : i # j =>
             Own(i) \cap Own(j) = {} /\ table[i].name # table[j].name
        /\ map = System \cup UNION {Own(i) : i \in Used(table)}
        /\ HandlesSound(table, disk, handles)
    BY DEF SoundFor, Sound
  <1>2. e \in Used(table) /\ e \in Entries /\ table[e].name = n
    <2>1. FindIndex(table, n) \subseteq Nat
      BY FileConstants DEF FindIndex, Entries
    <2>2. e \in FindIndex(table, n)
      BY <2>1, LowestIn
    <2>3. QED BY <2>2 DEF FindIndex, Used
  <1>3. shrunk = [table EXCEPT ![e].inUse = FALSE]
    BY DEF RemoveEntry
  <1>4. s = table[e].sector
    OBVIOUS
  <1> HIDE DEF e, shrunk
  <1>5. /\ shrunk \in Tables
        /\ ~ shrunk[e].inUse /\ \A i \in Entries : i # e => shrunk[i] = table[i]
    BY <1>1, <1>2, <1>3 DEF Tables
  <1>6. Used(shrunk) = Used(table) \ {e}
    BY <1>2, <1>5, Zenon DEF Used
  <1>7. \A i \in Used(shrunk) : i \in Used(table) /\ i # e /\ shrunk[i] = table[i]
    BY <1>5, <1>6 DEF Used
  <1>8. Own(e) \cap System = {}
    <2>1. disk[table[e].sector].dataSectors \in Seq(Sectors \ System)
      BY <1>1, <1>2 DEF HeaderSound
    <2>2. Marked(disk[table[e].sector].dataSectors) \subseteq Sectors \ System
      BY <2>1 DEF Marked
    <2>3. QED BY <1>1, <1>2, <2>2 DEF Owned
  <1>9. Freed(map, s, disk[s]) = map \ Own(e)
    BY <1>4 DEF Freed, Deallocate, Owned
  <1> HIDE DEF Own
  <1>10. map \ Own(e) = System \cup UNION {Own(i) : i \in Used(shrunk)}
    BY <1>1, <1>2, <1>6, <1>8
  <1>11. {Own(i) : i \in Used(shrunk)} = {Owned(disk, shrunk[i].sector) : i \in Used(shrunk)}
    BY <1>7 DEF Own
  <1>12. Sound(shrunk, map \ Own(e), disk)
    <2>1. \A i \in Used(shrunk) :
            /\ shrunk[i].sector \notin System
            /\ HeaderSound(disk[shrunk[i].sector])
            /\ shrunk[i].sector \notin Marked(disk[shrunk[i].sector].dataSectors)
      BY <1>1, <1>7
    <2>2. \A i, j \in Used(shrunk) : i # j =>
            /\ Owned(disk, shrunk[i].sector) \cap Owned(disk, shrunk[j].sector) = {}
            /\ shrunk[i].name # shrunk[j].name
      BY <1>1, <1>7 DEF Own
    <2>3. QED BY <1>5, <1>10, <1>11, <2>1, <2>2 DEF Sound
  <1>13. HandlesSound(shrunk, disk, handles)
    <2> SUFFICES ASSUME NEW u \in Threads, handles[u] # Closed
                 PROVE  \E i \in Used(shrunk) : /\ shrunk[i].name = handles[u].name
                                                /\ disk[shrunk[i].sector] = handles[u].hdr
      BY DEF HandlesSound
    <2>1. PICK i \in Used(table) : /\ table[i].name = handles[u].name
                                   /\ disk[table[i].sector] = handles[u].hdr
      BY <1>1 DEF HandlesSound
    <2>2. i # e
      BY <1>2, <2>1
    <2>3. i \in Used(shrunk)
      BY <1>6, <2>2
    <2>4. QED BY <1>7, <2>1, <2>3
  <1>14. QED BY <1>9, <1>12, <1>13 DEF SoundFor, shrunk

(* A step changes no sector but where open files have their data.          *)
OnlyData ==
  \A s \in Sectors : content'[s] # content[s] =>
    \E u \in Threads : handle[u] # Closed /\ s \in Marked(handle[u].hdr.dataSectors)

(* A step opens no file.                                                   *)
NoneOpened ==
  \A u \in Threads : handle'[u] # Closed =>
    /\ handle[u] # Closed /\ handle'[u].name = handle[u].name
    /\ handle'[u].hdr = handle[u].hdr

(* The sectors of the system are on the disk.                              *)
LEMMA SystemSectors == System \subseteq Sectors /\ Metadata \subseteq System
  BY DiskConstants, FileConstants DEF System, Sectors, Metadata, MapData, DirData1, DirData2

(* Such a step changes neither directory nor map, nor a header, nor a free *)
(* sector.                                                                 *)
LEMMA HeadersKept ==
  ASSUME NEW table, NEW map, NEW disk, SoundFor(table, map, disk, handle), OnlyData
  PROVE  /\ \A s \in Metadata : content'[s] = content[s]
         /\ \A i \in Used(table) : content'[table[i].sector] = content[table[i].sector]
         /\ \A s \in Sectors \ map : content'[s] = content[s]
  <1>1. ASSUME NEW s \in Sectors, content'[s] # content[s]
        PROVE  s \notin System /\ s \in map /\ \A i \in Used(table) : table[i].sector # s
    <2>1. PICK u \in Threads : handle[u] # Closed /\ s \in Marked(handle[u].hdr.dataSectors)
      BY <1>1 DEF OnlyData
    <2>2. QED BY <2>1, DataSector
  <1>2. \A i \in Used(table) : table[i].sector \in Sectors
    BY DEF SoundFor, Sound, Tables, Used
  <1>3. QED BY <1>1, <1>2, SystemSectors

(* A thread in Create, Open or Remove while others read, write and close.  *)
LEMMA DirectoryKept ==
  ASSUME FileInv, NEW t \in Threads, DirectorySound(t), thread'[t] = thread[t],
         ~ Flushing(t) => DiskSound, OnlyData, NoneOpened,
         content' = [s \in Sectors |-> content'[s]]
  PROVE  DirectorySound(t)'
  <1>1. Table(t)' = Table(t) /\ OldMap(t)' = OldMap(t)
    BY DEF Table, OldMap
  <1>2. /\ FoundSector(t)' = FoundSector(t) /\ NewSector(t)' = NewSector(t)
    BY <1>1 DEF FoundSector, NewSector
  <1>3. CASE ~ Flushing(t)
    <2>1. SoundFor(DiskTable, content[MapData].bits, content, handle)
      BY <1>3 DEF DiskSound
    <2>2. /\ \A s \in Metadata : content'[s] = content[s]
          /\ \A i \in Used(DiskTable) :
               content'[DiskTable[i].sector] = content[DiskTable[i].sector]
      BY <2>1, HeadersKept
    <2>3. \A s \in Metadata : Has(t, s) => Has(t, s)'
      BY <2>2 DEF Has
    <2>4. HasDirectory(t) => HasDirectory(t)'
      BY <2>3 DEF HasDirectory, Metadata
    <2>5. ASSUME HasDirectory(t), FindIndex(Table(t), thread[t].name) # {}
          PROVE  Has(t, FoundSector(t)) => Has(t, FoundSector(t))'
      <3>1. Table(t) = DiskTable
        BY <2>5 DEF HasDirectory, Has, Table, DiskTable
      <3>2. Lowest(FindIndex(Table(t), thread[t].name)) \in Used(DiskTable)
        <4>1. FindIndex(Table(t), thread[t].name) \subseteq Nat
          BY FileConstants DEF FindIndex, Entries
        <4>2. Lowest(FindIndex(Table(t), thread[t].name)) \in FindIndex(Table(t), thread[t].name)
          BY <2>5, <4>1, LowestIn
        <4>3. QED BY <3>1, <4>2 DEF FindIndex, Used
      <3>3. content'[FoundSector(t)] = content[FoundSector(t)]
        BY <2>2, <3>1, <3>2 DEF FoundSector
      <3>4. QED BY <1>2, <3>3 DEF Has
    <2>6. CASE thread[t].op \in Directing /\ Looks(t)
      <3>1. Looks(t)'
        BY <2>3, <2>4, <2>6 DEF Looks, Metadata
      <3>2. QED BY <2>6, <3>1 DEF DirectorySound
    <2>7. CASE Opens(t)
      <3>1. Opens(t)'
        BY <1>1, <1>2, <2>4, <2>5, <2>7 DEF Opens
      <3>2. QED BY <3>1 DEF DirectorySound
    <2>8. CASE Creates(t)
      <3>1. Creates(t)'
        BY <1>1, <1>2, <2>3, <2>4, <2>8 DEF Creates, Metadata
      <3>2. QED BY <3>1 DEF DirectorySound
    <2>9. CASE Removes(t)
      <3>1. Removes(t)'
        BY <1>1, <1>2, <2>3, <2>4, <2>5, <2>9 DEF Removes, Metadata
      <3>2. QED BY <3>1 DEF DirectorySound
    <2>10. QED
      BY <1>3, <2>6, <2>7, <2>8, <2>9
         DEF DirectorySound, CreateWrites, RemoveWrites, Flushing
  <1>4. CASE CreateWrites(t)
    <2>1. /\ NewSector(t) \in Sectors \ OldMap(t)
          /\ SoundFor(Table(t), OldMap(t), content, handle)
          /\ SoundFor(GrownTable(t), GrownMap(t), GrownDisk(t), handle)
      BY <1>4 DEF CreateWrites
    <2>2. /\ \A s \in Metadata : content'[s] = content[s]
          /\ \A i \in Used(Table(t)) :
               content'[Table(t)[i].sector] = content[Table(t)[i].sector]
          /\ content'[NewSector(t)] = content[NewSector(t)]
      BY <2>1, HeadersKept
    <2>3. \A s \in Metadata : Has(t, s) => Has(t, s)'
      BY <2>2 DEF Has
    <2>4. HasAll(t) => HasAll(t)'
      BY <2>3 DEF HasAll, HasDirectory, Metadata
    <2>5. /\ NewHeader(t)' = NewHeader(t)
          /\ GrownTable(t)' = GrownTable(t) /\ GrownMap(t)' = GrownMap(t)
      BY <1>1, <1>2 DEF NewHeader, GrownTable, GrownMap
    <2>6. SoundFor(Table(t), OldMap(t), content', handle')
      BY <2>1, <2>2, SoundFrame DEF NoneOpened
    <2>7. SoundFor(GrownTable(t), GrownMap(t), GrownDisk(t)', handle')
      <3>1. ASSUME NEW i \in Used(GrownTable(t))
            PROVE  GrownDisk(t)'[GrownTable(t)[i].sector] = GrownDisk(t)[GrownTable(t)[i].sector]
        <4> DEFINE y == GrownTable(t)[i].sector
        <4>1. content'[y] = content[y] /\ y \in Sectors
          BY <2>1, HeadersKept DEF SoundFor, Sound, Tables, Used
        <4>2. GrownDisk(t)' = [content' EXCEPT ![NewSector(t)] = NewHeader(t)]
          BY <1>2, <2>5 DEF GrownDisk
        <4>3. content = [s \in Sectors |-> content[s]]
          BY DEF FileInv
        <4> HIDE DEF y
        <4>4. GrownDisk(t)'[y] = GrownDisk(t)[y]
          BY <2>1, <4>1, <4>2, <4>3 DEF GrownDisk
        <4>5. QED BY <4>4 DEF y
      <3>2. QED BY <2>1, <3>1, SoundFrame DEF NoneOpened
    <2>8. CreateWrites(t)'
      BY <1>1, <1>2, <1>4, <2>1, <2>2, <2>4, <2>5, <2>6, <2>7 DEF CreateWrites, Metadata
    <2>9. QED BY <2>8 DEF DirectorySound
  <1>5. CASE RemoveWrites(t)
    <2>1. /\ SoundFor(Table(t), OldMap(t), content, handle)
          /\ SoundFor(ShrunkTable(t), ShrunkMap(t), content, handle)
      BY <1>5 DEF RemoveWrites
    <2>2. /\ \A s \in Metadata : content'[s] = content[s]
          /\ \A i \in Used(Table(t)) :
               content'[Table(t)[i].sector] = content[Table(t)[i].sector]
      BY <2>1, HeadersKept
    <2>3. \A i \in Used(ShrunkTable(t)) :
            content'[ShrunkTable(t)[i].sector] = content[ShrunkTable(t)[i].sector]
      BY <2>1, HeadersKept
    <2>4. \A s \in Metadata : Has(t, s) => Has(t, s)'
      BY <2>2 DEF Has
    <2>5. (HasAll(t) => HasAll(t)') /\ (HasDirectory(t) => HasDirectory(t)')
      BY <2>4 DEF HasAll, HasDirectory, Metadata
    <2>6. ShrunkTable(t)' = ShrunkTable(t) /\ ShrunkMap(t)' = ShrunkMap(t)
      BY <1>1, <1>2 DEF ShrunkTable, ShrunkMap
    <2>7. SoundFor(Table(t), OldMap(t), content', handle')
      BY <2>1, <2>2, SoundFrame DEF NoneOpened
    <2>8. SoundFor(ShrunkTable(t), ShrunkMap(t), content', handle')
      BY <2>1, <2>3, SoundFrame DEF NoneOpened
    <2>9. RemoveWrites(t)'
      BY <1>1, <1>2, <1>5, <2>2, <2>5, <2>6, <2>7, <2>8 DEF RemoveWrites, Metadata
    <2>10. QED BY <2>9 DEF DirectorySound
  <1>6. QED
    BY <1>3, <1>4, <1>5 DEF DirectorySound, Looks, Opens, Creates, Removes, Flushing

(* The disk outside of write backs, while others read, write and close.    *)
LEMMA DiskKept ==
  ASSUME DiskSound, OnlyData, NoneOpened
  PROVE  DiskSound'
  <1>1. SoundFor(DiskTable, content[MapData].bits, content, handle)
    BY DEF DiskSound
  <1>2. /\ \A s \in Metadata : content'[s] = content[s]
        /\ \A i \in Used(DiskTable) :
             content'[DiskTable[i].sector] = content[DiskTable[i].sector]
    BY <1>1, HeadersKept
  <1>3. DiskTable' = DiskTable /\ content'[MapData].bits = content[MapData].bits
    BY <1>2 DEF DiskTable, Metadata
  <1>4. SoundFor(DiskTable, content[MapData].bits, content', handle')
    BY <1>1, <1>2, SoundFrame DEF NoneOpened
  <1>5. QED BY <1>3, <1>4 DEF DiskSound

(* An operation is in one of its steps.                                    *)
LEMMA Operations ==
  ASSUME NEW t, CallSound(t)
  PROVE  /\ thread[t] = Quiet => thread[t].op = "none" /\ thread[t].todo = << >>
         /\ DirectorySound(t) => thread[t].op \in Directing
         /\ Transfers(t) => thread[t].op \in {"read", "write"}
         /\ thread[t].op \in Directing => DirectorySound(t)
         /\ thread[t].op \in {"read", "write"} => Transfers(t)
         /\ thread[t].op = "none" => thread[t] = Quiet
  <1>1. thread[t] = Quiet => thread[t].op = "none" /\ thread[t].todo = << >>
    BY DEF Quiet
  <1>2. DirectorySound(t) => thread[t].op \in Directing
    BY DEF DirectorySound, Opens, Creates, Removes, CreateWrites, RemoveWrites, Directing
  <1>3. Transfers(t) => thread[t].op \in {"read", "write"}
    BY DEF Transfers
  <1>4. QED BY <1>1, <1>2, <1>3 DEF CallSound, Directing

(* A step of one thread: the others are where they were.                   *)
LEMMA OneMoves ==
  ASSUME FileInv, NEW t \in Threads, up, UNCHANGED <<up, torn>>,
         content' = [s \in Sectors |-> content'[s]],
         thread' = [u \in Threads |-> thread'[u]],
         handle' = [u \in Threads |-> handle'[u]],
         \A u \in Threads : u # t => thread'[u] = thread[u] /\ handle'[u] = handle[u],
         thread[t].op \in Directing \/ (OnlyData /\ NoneOpened),
         thread'[t].op \in Directing =>
           \A u \in Threads : u # t => thread[u].op \notin Directing,
         Flushing(t)' \/ DiskSound' \/ (~ Flushing(t) /\ OnlyData /\ NoneOpened),
         Fields(t)', CallSound(t)'
  PROVE  FileInv'
  <1>1. /\ \A u, v \in Threads :
             thread[u].op \in Directing /\ thread[v].op \in Directing => u = v
        /\ \A u \in Threads : Fields(u) /\ CallSound(u)
        /\ (~ torn /\ \A u \in Threads : ~ Flushing(u)) => DiskSound
        /\ ~ torn /\ torn \in BOOLEAN
    BY DEF FileInv
  <1>2. ASSUME NEW u \in Threads, Flushing(u) PROVE thread[u].op \in Directing
    BY <1>2 DEF Flushing, Directing
  <1>3. ASSUME NEW u \in Threads, u # t PROVE Fields(u)' /\ CallSound(u)'
    <2>1. Fields(u) /\ CallSound(u) /\ thread'[u] = thread[u] /\ handle'[u] = handle[u]
      BY <1>1, <1>3
    <2>2. CASE thread[u].op \in Directing
      <3>1. thread[t].op \notin Directing
        BY <1>1, <1>3, <2>2
      <3>2. OnlyData /\ NoneOpened
        BY <3>1
      <3>3. DirectorySound(u)
        BY <2>1, <2>2, Operations
      <3>4. ~ Flushing(u) => DiskSound
        BY <1>1, <1>2, <2>2
      <3>5. DirectorySound(u)'
        BY <2>1, <3>2, <3>3, <3>4, DirectoryKept
      <3>6. Fields(u)'
        BY <2>1, <3>2 DEF Fields, NoneOpened
      <3>7. QED BY <3>5, <3>6 DEF CallSound
    <2>3. CASE thread[u].op \notin Directing
      <3>1. thread[u] = Quiet \/ Transfers(u)
        BY <2>1, <2>3, Operations DEF CallSound
      <3>2. thread'[u] = Quiet \/ Transfers(u)'
        BY <2>1, <3>1 DEF Transfers
      <3>3. Fields(u)'
        BY <2>1, <2>3 DEF Fields
      <3>4. QED BY <3>2, <3>3 DEF CallSound
    <2>4. QED BY <2>2, <2>3
  <1>4. \A u \in Threads : Fields(u)' /\ CallSound(u)'
    BY <1>3
  <1>5. \A u, v \in Threads :
          thread'[u].op \in Directing /\ thread'[v].op \in Directing => u = v
    BY <1>1
  <1>6. (\A u \in Threads : ~ Flushing(u)') => DiskSound'
    <2> SUFFICES ASSUME \A u \in Threads : ~ Flushing(u)' PROVE DiskSound'
      OBVIOUS
    <2>1. CASE ~ Flushing(t) /\ OnlyData /\ NoneOpened
      <3>1. ASSUME NEW u \in Threads PROVE ~ Flushing(u)
        BY <2>1 DEF Flushing
      <3>2. DiskSound
        BY <1>1, <3>1
      <3>3. QED BY <2>1, <3>2, DiskKept
    <2>2. QED BY <2>1
  <1>7. /\ up' \in BOOLEAN /\ torn' \in BOOLEAN /\ (up' => ~ torn') /\ up'
    BY DEF FileInv
  <1>8. QED BY <1>4, <1>5, <1>6, <1>7, Zenon DEF FileInv

(* Only a machine that is up has threads in operations or open files.      *)
LEMMA Runs ==
  ASSUME FileInv, NEW t \in Threads, thread[t].op # "none" \/ handle[t] # Closed
  PROVE  up
  <1>1. ~ up => thread[t] = Quiet /\ handle[t] = Closed
    BY DEF FileInv
  <1>2. Quiet.op = "none"
    BY DEF Quiet
  <1>3. up \in BOOLEAN
    BY DEF FileInv
  <1>4. QED BY <1>1, <1>2, <1>3

(* A step that leaves the disk or the open files alone.                    *)
LEMMA Unchanged ==
  /\ UNCHANGED content => OnlyData
  /\ UNCHANGED handle => NoneOpened
  BY DEF OnlyData, NoneOpened

(* While nobody writes directory and map back, the disk is sound; a thread *)
(* in another step of Create, Open or Remove is the only one in these.     *)
LEMMA DiskSoundFor ==
  ASSUME FileInv, NEW t \in Threads, thread[t].op \in Directing, ~ Flushing(t)
  PROVE  DiskSound
  <1>1. up
    BY Runs DEF Directing
  <1>2. ~ torn
    BY <1>1 DEF FileInv
  <1>3. ASSUME NEW u \in Threads PROVE ~ Flushing(u)
    <2>1. Flushing(u) => thread[u].op \in Directing
      BY DEF Flushing, Directing
    <2>2. thread[u].op \in Directing => u = t
      BY DEF FileInv
    <2>3. QED BY <2>1, <2>2
  <1>4. QED BY <1>2, <1>3 DEF FileInv

(* An operation returns; when it has written directory and map back, the   *)
(* disk must be sound.                                                     *)
LEMMA FinishStep ==
  ASSUME FileInv, NEW t \in Threads, thread[t].op # "none", Finish(t),
         UNCHANGED <<content, handle, up, torn>>, Flushing(t) => DiskSound
  PROVE  FileInv'
  <1>1. /\ thread = [u \in Threads |-> thread[u]]
        /\ content = [s \in Sectors |-> content[s]]
        /\ handle = [u \in Threads |-> handle[u]]
    BY DEF FileInv
  <1>2. /\ thread' = [u \in Threads |-> thread'[u]] /\ thread'[t] = Quiet
        /\ \A u \in Threads : u # t => thread'[u] = thread[u]
    BY <1>1 DEF Finish
  <1>3. DOMAIN Quiet = {"op", "step", "todo"} /\ Quiet.op = "none"
    BY DEF Quiet
  <1>4. Fields(t)' /\ CallSound(t)'
    <2>1. Fields(t)
      BY DEF FileInv
    <2>2. QED BY <1>2, <1>3, <2>1 DEF Fields, CallSound, Directing
  <1>5. OnlyData /\ NoneOpened
    BY Unchanged
  <1>6. DiskSound => DiskSound'
    BY <1>5, DiskKept
  <1>7. thread'[t].op \notin Directing
    BY <1>2, <1>3 DEF Directing
  <1>8. up
    BY Runs
  <1>9. QED BY <1>1, <1>2, <1>4, <1>5, <1>6, <1>7, <1>8, OneMoves

(* What Goto leaves of the record of a thread.                             *)
LEMMA GotoFields ==
  ASSUME FileInv, NEW t \in Threads, thread[t].op # "none",
         NEW step, NEW todo, Goto(t, step, todo)
  PROVE  /\ thread' = [u \in Threads |-> thread'[u]]
         /\ \A u \in Threads : u # t => thread'[u] = thread[u]
         /\ DOMAIN thread'[t] = DOMAIN thread[t]
         /\ thread'[t].op = thread[t].op /\ thread'[t].got = thread[t].got
         /\ thread'[t].size = thread[t].size
         /\ thread[t].op \in Directing => thread'[t].name = thread[t].name
         /\ thread'[t].todo = todo /\ thread'[t].step = step
  <1>1. /\ thread = [u \in Threads |-> thread[u]]
        /\ {"op", "step", "todo", "got", "size"} \subseteq DOMAIN thread[t]
        /\ thread[t].op \in Directing => "name" \in DOMAIN thread[t]
    BY DEF FileInv, Fields
  <1>2. /\ thread' = [u \in Threads |-> thread'[u]]
        /\ \A u \in Threads : u # t => thread'[u] = thread[u]
        /\ thread'[t] = [thread[t] EXCEPT !.step = step, !.todo = todo]
    BY <1>1 DEF Goto
  <1>3. QED BY <1>1, <1>2

(* A thread in Create, Open or Remove goes to its next step.               *)
LEMMA GotoStep ==
  ASSUME FileInv, NEW t \in Threads, thread[t].op \in Directing, ~ Flushing(t),
         NEW step, NEW todo, Goto(t, step, todo), UNCHANGED <<content, handle, up, torn>>,
         DirectorySound(t)'
  PROVE  FileInv'
  <1>1. thread[t].op # "none"
    BY DEF Directing
  <1>2. /\ thread' = [u \in Threads |-> thread'[u]]
        /\ \A u \in Threads : u # t => thread'[u] = thread[u]
        /\ DOMAIN thread'[t] = DOMAIN thread[t]
        /\ thread'[t].op = thread[t].op /\ thread'[t].size = thread[t].size
        /\ thread'[t].name = thread[t].name
    BY <1>1, GotoFields
  <1>3. Fields(t)'
    <2>1. Fields(t)
      BY DEF FileInv
    <2>2. QED BY <1>2, <2>1 DEF Fields
  <1>4. CallSound(t)'
    BY DEF CallSound
  <1>5. OnlyData /\ NoneOpened
    BY Unchanged
  <1>6. \A u \in Threads : u # t => thread[u].op \notin Directing
    BY DEF FileInv
  <1>7. up
    BY <1>1, Runs
  <1>8. content = [s \in Sectors |-> content[s]] /\ handle = [u \in Threads |-> handle[u]]
    BY DEF FileInv
  <1>9. QED BY <1>2, <1>3, <1>4, <1>5, <1>6, <1>7, <1>8, OneMoves

(* What a thread that has looked a name up knows of it.                    *)
LEMMA FoundUsed ==
  ASSUME NEW t \in Threads, FindIndex(Table(t), thread[t].name) # {}
  PROVE  /\ Lowest(FindIndex(Table(t), thread[t].name)) \in Used(Table(t))
         /\ Table(t)[Lowest(FindIndex(Table(t), thread[t].name))].name = thread[t].name
  <1>1. FindIndex(Table(t), thread[t].name) \subseteq Nat
    BY FileConstants DEF FindIndex, Entries
  <1>2. Lowest(FindIndex(Table(t), thread[t].name)) \in FindIndex(Table(t), thread[t].name)
    BY <1>1, LowestIn
  <1>3. QED BY <1>2 DEF FindIndex, Used

(* The step an operation at the end of a step is in.                       *)
LEMMA AtLookup ==
  ASSUME FileInv, NEW t \in Threads, NEW op \in Directing, At(t, op, "lookup")
  PROVE  thread[t].op = op /\ ~ Flushing(t) /\ HasDirectory(t)
  <1>1. thread[t].op = op /\ thread[t].step = "lookup" /\ thread[t].todo = << >>
    BY DEF At
  <1>2. DirectorySound(t)
    BY <1>1, Operations DEF FileInv
  <1>3. Looks(t)
    BY <1>1, <1>2 DEF DirectorySound, Opens, Creates, Removes, CreateWrites, RemoveWrites
  <1>4. HasDirectory(t)
    BY <1>1, <1>3 DEF Looks
  <1>5. QED BY <1>1, <1>4 DEF Flushing

(* The directory has been fetched and the name looked up.                  *)
LEMMA LookedUpStep ==
  ASSUME FileInv, NEW t \in Threads, LookedUp(t)
  PROVE  FileInv'
  <1> DEFINE at == FindIndex(Table(t), thread[t].name)
             sector == Table(t)[Lowest(at)].sector
  <1>1. UNCHANGED <<content, handle, up, torn>>
    BY DEF LookedUp, diskVars
  <1>2. ASSUME NEW op \in Directing, At(t, op, "lookup"), Finish(t) PROVE FileInv'
    <2>1. thread[t].op = op /\ ~ Flushing(t) /\ thread[t].op # "none"
      BY <1>2, AtLookup DEF Directing
    <2>2. QED BY <1>1, <1>2, <2>1, FinishStep
  <1>3. ASSUME NEW op \in Directing, At(t, op, "lookup"), NEW step, NEW todo,
               Goto(t, step, todo), DirectorySound(t)'
        PROVE  FileInv'
    <2>1. thread[t].op = op /\ ~ Flushing(t)
      BY <1>3, AtLookup
    <2>2. QED BY <1>1, <1>3, <2>1, GotoStep
  <1>4. ASSUME NEW op \in Directing, At(t, op, "lookup"), NEW step, NEW todo,
               Goto(t, step, todo)
        PROVE  /\ thread'[t].op = op /\ thread'[t].step = step /\ thread'[t].todo = todo
               /\ HasDirectory(t)' /\ Table(t)' = Table(t)
               /\ FoundSector(t)' = sector
               /\ FindIndex(Table(t), thread[t].name)' = at
    <2>1. thread[t].op = op /\ HasDirectory(t) /\ thread[t].op # "none"
      BY <1>4, AtLookup DEF Directing
    <2>2. /\ thread'[t].op = thread[t].op /\ thread'[t].got = thread[t].got
          /\ thread'[t].name = thread[t].name
          /\ thread'[t].todo = todo /\ thread'[t].step = step
      BY <1>4, <2>1, GotoFields
    <2>3. HasDirectory(t)' /\ Table(t)' = Table(t)
      BY <1>1, <2>1, <2>2 DEF HasDirectory, Has, Table
    <2>4. FindIndex(Table(t), thread[t].name)' = at
      BY <2>2, <2>3 DEF FindIndex
    <2>5. QED BY <2>1, <2>2, <2>3, <2>4 DEF FoundSector
  <1>5. CASE At(t, "create", "lookup")
             /\ IF at # {} THEN Finish(t) ELSE Goto(t, "space", <<R(MapData)>>)
    <2>1. "create" \in Directing
      BY DEF Directing
    <2>2. CASE at # {}
      BY <1>2, <1>5, <2>1, <2>2
    <2>3. CASE at = {}
      <3>1. Goto(t, "space", <<R(MapData)>>)
        BY <1>5, <2>3
      <3>2. Creates(t)'
        BY <1>4, <1>5, <2>1, <2>3, <3>1 DEF Creates
      <3>3. QED BY <1>3, <1>5, <2>1, <3>1, <3>2 DEF DirectorySound
    <2>4. QED BY <2>2, <2>3
  <1>6. CASE At(t, "open", "lookup")
             /\ IF at = {} THEN Finish(t) ELSE Goto(t, "header", <<R(sector)>>)
    <2>1. "open" \in Directing
      BY DEF Directing
    <2>2. CASE at = {}
      BY <1>2, <1>6, <2>1, <2>2
    <2>3. CASE at # {}
      <3>1. Goto(t, "header", <<R(sector)>>)
        BY <1>6, <2>3
      <3>2. Opens(t)'
        BY <1>4, <1>6, <2>1, <2>3, <3>1 DEF Opens
      <3>3. QED BY <1>3, <1>6, <2>1, <3>1, <3>2 DEF DirectorySound
    <2>4. QED BY <2>2, <2>3
  <1>7. CASE At(t, "remove", "lookup")
             /\ IF at = {} THEN Finish(t)
                ELSE Goto(t, "space", <<R(sector), R(MapData)>>)
    <2>1. "remove" \in Directing
      BY DEF Directing
    <2>2. CASE at = {}
      BY <1>2, <1>7, <2>1, <2>2
    <2>3. CASE at # {}
      <3>1. Goto(t, "space", <<R(sector), R(MapData)>>)
        BY <1>7, <2>3
      <3>2. Removes(t)'
        BY <1>4, <1>7, <2>1, <2>3, <3>1 DEF Removes
      <3>3. QED BY <1>3, <1>7, <2>1, <3>1, <3>2 DEF DirectorySound
    <2>4. QED BY <2>2, <2>3
  <1>8. QED BY <1>5, <1>6, <1>7 DEF LookedUp

(* The map marks sectors of the disk.                                      *)
LEMMA MapOnDisk ==
  ASSUME NEW table, NEW map, NEW disk, Sound(table, map, disk)
  PROVE  map \subseteq Sectors
  <1>1. ASSUME NEW i \in Used(table) PROVE Owned(disk, table[i].sector) \subseteq Sectors
    <2>1. table[i].sector \in Sectors
      BY DEF Sound, Tables, Used
    <2>2. disk[table[i].sector].dataSectors \in Seq(Sectors \ System)
      BY DEF Sound, HeaderSound
    <2>3. Marked(disk[table[i].sector].dataSectors) \subseteq Sectors
      BY <2>2 DEF Marked
    <2>4. QED BY <2>1, <2>3 DEF Owned
  <1>2. map = System \cup UNION {Owned(disk, table[i].sector) : i \in Used(table)}
    BY DEF Sound
  <1>3. QED BY <1>1, <1>2, SystemSectors

(* A thread that has read directory and map knows what the disk holds.     *)
LEMMA AllRead ==
  ASSUME FileInv, NEW t \in Threads, thread[t].op \in Directing, ~ Flushing(t), HasAll(t)
  PROVE  SoundFor(Table(t), OldMap(t), content, handle)
  <1>1. DiskSound
    BY DiskSoundFor
  <1>2. Table(t) = DiskTable /\ OldMap(t) = content[MapData].bits
    BY DEF HasAll, HasDirectory, Has, Table, DiskTable, OldMap
  <1>3. QED BY <1>1, <1>2 DEF DiskSound

(* What the decision of an operation does not change.                      *)
LEMMA DecidedOn ==
  ASSUME FileInv, NEW t \in Threads, thread[t].op \in Directing, NEW step, NEW todo,
         Goto(t, step, todo), UNCHANGED <<content, handle>>
  PROVE  /\ thread'[t].op = thread[t].op /\ thread'[t].got = thread[t].got
         /\ thread'[t].step = step /\ thread'[t].todo = todo
         /\ Table(t)' = Table(t) /\ OldMap(t)' = OldMap(t)
         /\ NewSector(t)' = NewSector(t) /\ NewHeader(t)' = NewHeader(t)
         /\ GrownTable(t)' = GrownTable(t) /\ GrownMap(t)' = GrownMap(t)
         /\ GrownDisk(t)' = GrownDisk(t)
         /\ FoundSector(t)' = FoundSector(t)
         /\ ShrunkTable(t)' = ShrunkTable(t) /\ ShrunkMap(t)' = ShrunkMap(t)
         /\ HasAll(t) => HasAll(t)'
  <1>1. /\ thread'[t].op = thread[t].op /\ thread'[t].got = thread[t].got
        /\ thread'[t].size = thread[t].size /\ thread'[t].name = thread[t].name
        /\ thread'[t].step = step /\ thread'[t].todo = todo
    <2>1. thread[t].op # "none"
      BY DEF Directing
    <2>2. QED BY <2>1, GotoFields
  <1>2. Table(t)' = Table(t) /\ OldMap(t)' = OldMap(t)
    BY <1>1 DEF Table, OldMap
  <1>3. NewSector(t)' = NewSector(t) /\ FoundSector(t)' = FoundSector(t)
    BY <1>1, <1>2 DEF NewSector, FoundSector
  <1>4. NewHeader(t)' = NewHeader(t)
    BY <1>1, <1>2, <1>3 DEF NewHeader
  <1>5. /\ GrownTable(t)' = GrownTable(t) /\ GrownMap(t)' = GrownMap(t)
        /\ GrownDisk(t)' = GrownDisk(t)
    BY <1>1, <1>2, <1>3, <1>4 DEF GrownTable, GrownMap, GrownDisk
  <1>6. ShrunkTable(t)' = ShrunkTable(t) /\ ShrunkMap(t)' = ShrunkMap(t)
    BY <1>1, <1>2, <1>3 DEF ShrunkTable, ShrunkMap
  <1>7. HasAll(t) => HasAll(t)'
    BY <1>1 DEF HasAll, HasDirectory, Has
  <1>8. QED BY <1>1, <1>2, <1>3, <1>4, <1>5, <1>6, <1>7

(* The plans of Create and Remove, access by access.                       *)
LEMMA Plans ==
  ASSUME NEW a, NEW b, NEW c, NEW d, NEW e
  PROVE  /\ <<a>> \o <<b, c, d>> \o <<e>> = <<a, b, c, d, e>>
         /\ <<a>> \o <<b, c, d>> = <<a, b, c, d>>
  <1> DEFINE S == {a, b, c, d, e}
             four == <<a, b, c, d>>
  <1>1. four \in Seq(S) /\ four # << >> /\ Head(four) = a /\ Tail(four) = <<b, c, d>>
    OBVIOUS
  <1>2. e \in S /\ Append(four, e) = <<a, b, c, d, e>>
    <2> DEFINE more == Append(four, e)
               five == <<a, b, c, d, e>>
    <2>1. more \in Seq(S) /\ Len(more) = 5
      OBVIOUS
    <2>2. five \in Seq(S) /\ Len(five) = 5
      OBVIOUS
    <2>3. /\ more[1] = five[1] /\ more[2] = five[2] /\ more[3] = five[3]
          /\ more[4] = five[4] /\ more[5] = five[5]
      OBVIOUS
    <2> HIDE DEF more, five, S
    <2>4. \A i \in 1..Len(more) : more[i] = five[i]
      BY <2>1, <2>3
    <2>5. more = five
      BY <2>1, <2>2, <2>4, SeqEqual
    <2>6. QED BY <2>5 DEF more, five, S
  <1> HIDE DEF S, four
  <1>3. <<a>> \o <<b, c, d>> = four
    BY <1>1, HeadThenTail
  <1>4. four \o <<e>> = Append(four, e)
    BY <1>1, <1>2, AppendIsConcat
  <1>5. (<<a>> \o <<b, c, d>>) \o <<e>> = <<a, b, c, d, e>>
    BY <1>2, <1>3, <1>4, Zenon
  <1>6. QED BY <1>3, <1>5 DEF four

(* Create finds a free entry and enough free sectors.                      *)
LEMMA CreateGrows ==
  ASSUME FileInv, NEW t \in Threads, thread[t].op = "create", Creates(t), HasAll(t),
         OldMap(t) # Sectors, FreeEntries(Table(t)) # {},
         ~ (NumClear(OldMap(t) \cup {NewSector(t)}) < DivRoundUp(thread[t].size, SectorSize))
  PROVE  /\ NewSector(t) \in Sectors \ OldMap(t)
         /\ SoundFor(Table(t), OldMap(t), content, handle)
         /\ SoundFor(GrownTable(t), GrownMap(t), GrownDisk(t), handle)
  <1>1. thread[t].op \in Directing /\ ~ Flushing(t)
    BY DEF Directing, Creates, Flushing
  <1>2. SoundFor(Table(t), OldMap(t), content, handle)
    BY <1>1, AllRead
  <1>3. NewSector(t) \in Sectors \ OldMap(t)
    <2>1. OldMap(t) \subseteq Sectors
      BY <1>2, MapOnDisk DEF SoundFor
    <2>2. Sectors \ OldMap(t) # {}
      BY <2>1
    <2>3. Sectors \ OldMap(t) \subseteq Nat
      BY DEF Sectors
    <2>4. QED BY <2>2, <2>3, LowestIn DEF NewSector
  <1> DEFINE n == thread[t].size
             k == DivRoundUp(n, SectorSize)
             map == OldMap(t) \cup {NewSector(t)}
             found == FindAll(map, k)
             h == NewHeader(t)
  <1>4. n \in Nat /\ thread[t].name \in Names
    BY <1>1 DEF FileInv, Fields
  <1>5. k \in Nat /\ n <= k * SectorSize
    BY <1>4, RoundedUp
  <1>6. found \in [1..k -> Sectors \ map]
    BY <1>5, FoundClear
  <1>7. h.kind = "header" /\ h.numBytes = n /\ h.dataSectors = found
    BY DEF NewHeader, Header
  <1> HIDE DEF k, found, map, h, n
  <1>8. found \in Seq(Sectors \ map) /\ Len(found) = k
    BY <1>5, <1>6
  <1>9. FindIndex(Table(t), thread[t].name) = {}
    BY DEF Creates
  <1>10. content = [s \in Sectors |-> content[s]]
    BY DEF FileInv
  <1>11. h.kind = "header" /\ h.numBytes \in Nat
         /\ h.dataSectors \in Seq(Sectors \ (OldMap(t) \cup {NewSector(t)}))
         /\ h.numBytes <= Len(h.dataSectors) * SectorSize
    BY <1>4, <1>5, <1>7, <1>8 DEF map
  <1>12. SoundFor(Add(Table(t), thread[t].name, NewSector(t)),
                  OldMap(t) \cup {NewSector(t)} \cup Marked(h.dataSectors),
                  [content EXCEPT ![NewSector(t)] = h], handle)
    BY <1>2, <1>3, <1>4, <1>9, <1>10, <1>11, Grown
  <1>13. QED BY <1>2, <1>3, <1>12 DEF GrownTable, GrownMap, GrownDisk, h

(* Create has what it needs, gives up or decides what to write back.       *)
LEMMA CreateDecides ==
  ASSUME FileInv, NEW t \in Threads, At(t, "create", "space"), CreateWith(t, OldMap(t)),
         UNCHANGED <<content, handle, up, torn>>
  PROVE  FileInv'
  <1>1. /\ thread[t].op = "create" /\ thread[t].step = "space" /\ thread[t].todo = << >>
        /\ thread[t].op \in Directing /\ thread[t].op # "none" /\ ~ Flushing(t)
    BY DEF At, Directing, Flushing
  <1>2. Creates(t) /\ HasAll(t)
    <2>1. DirectorySound(t)
      BY <1>1, Operations DEF FileInv
    <2>2. Creates(t)
      BY <1>1, <2>1 DEF DirectorySound, Looks, Opens, Removes, CreateWrites, RemoveWrites
    <2>3. QED BY <1>1, <2>2 DEF Creates, HasAll
  <1>3. CASE Finish(t)
    BY <1>1, <1>3, FinishStep
  <1>4. CASE ~ Finish(t)
    <2> DEFINE map == OldMap(t)
               hdrs == Allocate(map \cup {NewSector(t)}, thread[t].size)
               hdr == CHOOSE h \in hdrs : TRUE
               marks == map \cup {NewSector(t)} \cup Marked(hdr.dataSectors)
               header == W(NewSector(t), NewHeader(t))
               dir1 == W(DirData1, FirstHalf(GrownTable(t)))
               dir2 == W(DirData2, SecondHalf(GrownTable(t)))
               last == W(MapData, FreeMap(GrownMap(t)))
               plan == <<header, R(DirData2), dir1, dir2, last>>
    <2>1. /\ map # Sectors /\ FreeEntries(Table(t)) # {} /\ hdrs # {}
          /\ Goto(t, "flush",
               <<W(NewSector(t), hdr)>>
               \o WriteBackDirectory(Add(Table(t), thread[t].name, NewSector(t)))
               \o <<W(MapData, FreeMap(marks))>>)
      BY <1>4 DEF CreateWith, NewSector
    <2>2. /\ ~ (NumClear(map \cup {NewSector(t)}) < DivRoundUp(thread[t].size, SectorSize))
          /\ hdrs = {NewHeader(t)}
      BY <2>1 DEF Allocate, NewHeader
    <2>3. hdr = NewHeader(t) /\ marks = GrownMap(t)
      <3> HIDE DEF hdrs
      <3>1. hdr = NewHeader(t)
        BY <2>2
      <3>2. QED BY <3>1 DEF GrownMap
    <2>4. <<W(NewSector(t), hdr)>>
          \o WriteBackDirectory(Add(Table(t), thread[t].name, NewSector(t)))
          \o <<W(MapData, FreeMap(marks))>> = plan
      <3>1. WriteBackDirectory(Add(Table(t), thread[t].name, NewSector(t)))
              = <<R(DirData2), dir1, dir2>>
        BY DEF WriteBackDirectory, GrownTable
      <3> HIDE DEF hdr, marks, header, dir1, dir2, last
      <3>2. W(NewSector(t), hdr) = header /\ W(MapData, FreeMap(marks)) = last
        BY <2>3 DEF header, last
      <3>3. QED BY <3>1, <3>2, Plans
    <2>5. Goto(t, "flush", plan)
      <3> HIDE DEF plan, hdr, marks
      <3>1. QED BY <2>1, <2>4
    <2>6. /\ NewSector(t) \in Sectors \ OldMap(t)
          /\ SoundFor(Table(t), OldMap(t), content, handle)
          /\ SoundFor(GrownTable(t), GrownMap(t), GrownDisk(t), handle)
      BY <1>1, <1>2, <2>1, <2>2, CreateGrows
    <2>7. /\ thread'[t].op = thread[t].op /\ thread'[t].got = thread[t].got
          /\ thread'[t].step = "flush" /\ thread'[t].todo = plan
          /\ Table(t)' = Table(t) /\ OldMap(t)' = OldMap(t)
          /\ NewSector(t)' = NewSector(t) /\ NewHeader(t)' = NewHeader(t)
          /\ GrownTable(t)' = GrownTable(t) /\ GrownMap(t)' = GrownMap(t)
          /\ GrownDisk(t)' = GrownDisk(t) /\ HasAll(t)'
      <3> HIDE DEF plan
      <3>1. QED BY <1>1, <1>2, <2>5, DecidedOn
    <2>8. {DirData1, DirData2, MapData} \subseteq DOMAIN thread[t].got
      BY <1>2 DEF HasAll, HasDirectory, Has
    <2>9. CreateWrites(t)'
      BY <1>1, <2>6, <2>7, <2>8 DEF CreateWrites
    <2>10. DirectorySound(t)'
      BY <2>9 DEF DirectorySound
    <2> HIDE DEF plan
    <2>11. QED BY <1>1, <2>5, <2>10, GotoStep
  <1>5. QED BY <1>3, <1>4

(* Remove decides what to write back.                                      *)
LEMMA RemoveDecides ==
  ASSUME FileInv, NEW t \in Threads, At(t, "remove", "space"), RemoveWith(t, OldMap(t)),
         UNCHANGED <<content, handle, up, torn>>
  PROVE  FileInv'
  <1>1. /\ thread[t].op = "remove" /\ thread[t].step = "space" /\ thread[t].todo = << >>
        /\ thread[t].op \in Directing /\ thread[t].op # "none" /\ ~ Flushing(t)
    BY DEF At, Directing, Flushing
  <1>2. Removes(t) /\ HasAll(t) /\ Has(t, FoundSector(t))
    <2>1. DirectorySound(t)
      BY <1>1, Operations DEF FileInv
    <2>2. Removes(t)
      BY <1>1, <2>1 DEF DirectorySound, Looks, Opens, Creates, CreateWrites, RemoveWrites
    <2>3. QED BY <1>1, <2>2 DEF Removes, HasAll
  <1> DEFINE map == W(MapData, FreeMap(ShrunkMap(t)))
             dir1 == W(DirData1, FirstHalf(ShrunkTable(t)))
             dir2 == W(DirData2, SecondHalf(ShrunkTable(t)))
             plan == <<map, R(DirData2), dir1, dir2>>
  <1>3. Goto(t, "flush", plan)
    <2>1. Goto(t, "flush", <<map>> \o WriteBackDirectory(ShrunkTable(t)))
      BY DEF RemoveWith, FoundSector, ShrunkMap, ShrunkTable
    <2>2. WriteBackDirectory(ShrunkTable(t)) = <<R(DirData2), dir1, dir2>>
      BY DEF WriteBackDirectory
    <2> HIDE DEF map, dir1, dir2
    <2>3. QED BY <2>1, <2>2, Plans
  <1>4. /\ SoundFor(Table(t), OldMap(t), content, handle)
        /\ SoundFor(ShrunkTable(t), ShrunkMap(t), content, handle)
    <2>1. SoundFor(Table(t), OldMap(t), content, handle)
      BY <1>1, <1>2, AllRead
    <2>2. FindIndex(Table(t), thread[t].name) # {}
      BY <1>2 DEF Removes
    <2>3. \A u \in Threads : handle[u] # Closed => handle[u].name # thread[t].name
      BY <1>1 DEF FileInv, Fields
    <2>4. SoundFor(RemoveEntry(Table(t), thread[t].name),
                   Freed(OldMap(t), FoundSector(t), content[FoundSector(t)]), content, handle)
      BY <2>1, <2>2, <2>3, Shrunk DEF FoundSector
    <2>5. QED BY <1>2, <2>1, <2>4 DEF ShrunkTable, ShrunkMap, Has
  <1>5. /\ thread'[t].op = thread[t].op /\ thread'[t].got = thread[t].got
        /\ thread'[t].step = "flush" /\ thread'[t].todo = plan
        /\ Table(t)' = Table(t) /\ OldMap(t)' = OldMap(t)
        /\ FoundSector(t)' = FoundSector(t)
        /\ ShrunkTable(t)' = ShrunkTable(t) /\ ShrunkMap(t)' = ShrunkMap(t) /\ HasAll(t)'
    <2> HIDE DEF plan
    <2>1. QED BY <1>1, <1>2, <1>3, DecidedOn
  <1>6. {DirData1, DirData2, MapData, FoundSector(t)} \subseteq DOMAIN thread[t].got
    BY <1>2 DEF HasAll, HasDirectory, Has
  <1>7. RemoveWrites(t)'
    BY <1>1, <1>4, <1>5, <1>6 DEF RemoveWrites
  <1>8. DirectorySound(t)'
    BY <1>7 DEF DirectorySound
  <1> HIDE DEF plan
  <1>9. QED BY <1>1, <1>3, <1>8, GotoStep

(* Either of the two.                                                      *)
LEMMA DecideStep ==
  ASSUME FileInv, NEW t \in Threads, Decide(t)
  PROVE  FileInv'
  <1>1. UNCHANGED <<content, handle, up, torn>>
    BY DEF Decide, diskVars
  <1>2. CASE At(t, "create", "space") /\ CreateWith(t, OldMap(t))
    BY <1>1, <1>2, CreateDecides
  <1>3. CASE At(t, "remove", "space") /\ RemoveWith(t, OldMap(t))
    BY <1>1, <1>3, RemoveDecides
  <1>4. QED BY <1>2, <1>3 DEF Decide, OldMap

(* The disk while what Create or Remove has read is still on it.           *)
LEMMA OldOnDisk ==
  ASSUME NEW t \in Threads, SoundFor(Table(t), OldMap(t), content, handle), HasAll(t)
  PROVE  DiskSound
  BY DEF HasAll, HasDirectory, Has, Table, DiskTable, OldMap, DiskSound

(* The disk once both halves of a directory and a map are written to it.   *)
LEMMA NewOnDisk ==
  ASSUME NEW table, NEW map, SoundFor(table, map, content, handle),
         content[DirData1] = FirstHalf(table), content[DirData2] = SecondHalf(table),
         content[MapData] = FreeMap(map)
  PROVE  DiskSound
  <1>1. table \in Tables
    BY DEF SoundFor, Sound
  <1>2. DiskTable = table
    BY <1>1, TableWritten DEF DiskTable
  <1>3. content[MapData].bits = map
    BY DEF FreeMap
  <1>4. QED BY <1>2, <1>3 DEF DiskSound

(* The disk once Create or Remove has written everything.                  *)
LEMMA WrittenBack ==
  ASSUME FileInv, NEW t \in Threads, Flushing(t), thread[t].todo = << >>
  PROVE  DiskSound
  <1>1. CreateWrites(t) \/ RemoveWrites(t)
    <2>1. thread[t].op \in Directing /\ thread[t].step = "flush"
      BY DEF Flushing, Directing
    <2>2. DirectorySound(t)
      BY <2>1, Operations DEF FileInv
    <2>3. QED BY <2>1, <2>2 DEF DirectorySound, Looks, Opens, Creates, Removes
  <1>2. CASE CreateWrites(t)
    <2>1. /\ SoundFor(GrownTable(t), GrownMap(t), GrownDisk(t), handle)
          /\ content[NewSector(t)] = NewHeader(t)
          /\ content[DirData1] = FirstHalf(GrownTable(t))
          /\ content[DirData2] = SecondHalf(GrownTable(t))
          /\ content[MapData] = FreeMap(GrownMap(t))
      BY <1>2 DEF CreateWrites, W
    <2>2. content = [s \in Sectors |-> content[s]]
      BY DEF FileInv
    <2>3. GrownDisk(t) = content
      BY <2>1, <2>2 DEF GrownDisk
    <2>4. QED BY <2>1, <2>3, NewOnDisk
  <1>3. CASE RemoveWrites(t)
    <2>1. /\ SoundFor(ShrunkTable(t), ShrunkMap(t), content, handle)
          /\ content[DirData1] = FirstHalf(ShrunkTable(t))
          /\ content[DirData2] = SecondHalf(ShrunkTable(t))
          /\ content[MapData] = FreeMap(ShrunkMap(t))
      BY <1>3 DEF RemoveWrites, W
    <2>2. QED BY <2>1, NewOnDisk
  <1>4. QED BY <1>1, <1>2, <1>3

(* Create or Remove returns after its write back.                          *)
LEMMA FlushedStep ==
  ASSUME FileInv, NEW t \in Threads, Flushed(t)
  PROVE  FileInv'
  <1>1. /\ UNCHANGED <<content, handle, up, torn>> /\ Finish(t)
        /\ thread[t].op # "none" /\ thread[t].todo = << >>
    BY DEF Flushed, At, diskVars
  <1>2. Flushing(t) => DiskSound
    BY <1>1, WrittenBack
  <1>3. QED BY <1>1, <1>2, FinishStep

(* What Finish leaves of a thread.                                         *)
LEMMA FinishFields ==
  ASSUME FileInv, NEW t \in Threads, Finish(t)
  PROVE  /\ thread' = [u \in Threads |-> thread'[u]] /\ thread'[t] = Quiet
         /\ \A u \in Threads : u # t => thread'[u] = thread[u]
         /\ CallSound(t)' /\ thread'[t].op \notin Directing
         /\ DOMAIN thread'[t] = {"op", "step", "todo"} /\ thread'[t].op = "none"
  <1>1. thread = [u \in Threads |-> thread[u]]
    BY DEF FileInv
  <1>2. /\ thread' = [u \in Threads |-> thread'[u]] /\ thread'[t] = Quiet
        /\ \A u \in Threads : u # t => thread'[u] = thread[u]
    BY <1>1 DEF Finish
  <1>3. DOMAIN Quiet = {"op", "step", "todo"} /\ Quiet.op = "none"
    BY DEF Quiet
  <1>4. QED BY <1>2, <1>3 DEF CallSound, Directing

(* Open returns with the header of the file it found.                      *)
LEMMA OpenedStep ==
  ASSUME FileInv, NEW t \in Threads, Opened(t)
  PROVE  FileInv'
  <1> DEFINE h == [name |-> thread[t].name, hdr |-> thread[t].got[FoundSector(t)],
                   seekPosition |-> 0]
  <1>1. /\ thread[t].op = "open" /\ thread[t].step = "header" /\ thread[t].todo = << >>
        /\ Finish(t) /\ UNCHANGED <<content, up, torn>>
        /\ handle' = [handle EXCEPT ![t] = h]
    BY DEF Opened, At, diskVars, FoundSector
  <1>2. thread[t].op \in Directing /\ thread[t].op # "none" /\ ~ Flushing(t)
    BY <1>1 DEF Directing, Flushing
  <1>3. /\ HasDirectory(t) /\ FindIndex(Table(t), thread[t].name) # {}
        /\ Has(t, FoundSector(t))
    <2>1. DirectorySound(t)
      BY <1>2, Operations DEF FileInv
    <2>2. Opens(t)
      BY <1>1, <2>1 DEF DirectorySound, Looks, Creates, Removes, CreateWrites, RemoveWrites
    <2>3. QED BY <1>1, <2>2 DEF Opens
  <1>4. /\ handle = [u \in Threads |-> handle[u]] /\ handle[t] = Closed
        /\ content = [s \in Sectors |-> content[s]]
    BY <1>1, <1>2 DEF FileInv, Fields
  <1>5. /\ h.name = thread[t].name /\ h.hdr = content[FoundSector(t)] /\ h.seekPosition = 0
        /\ DOMAIN h = {"name", "hdr", "seekPosition"}
    BY <1>3 DEF Has
  <1> HIDE DEF h
  <1>6. /\ handle' = [u \in Threads |-> handle'[u]] /\ handle'[t] = h
        /\ \A u \in Threads : u # t => handle'[u] = handle[u]
    BY <1>1, <1>4
  <1>7. Fields(t)'
    BY <1>1, <1>5, <1>6, FinishFields DEF Fields, Directing
  <1>8. DiskSound'
    <2>1. DiskSound
      BY <1>2, DiskSoundFor
    <2>2. Table(t) = DiskTable
      BY <1>3 DEF HasDirectory, Has, Table, DiskTable
    <2>3. PICK i \in Used(DiskTable) :
            DiskTable[i].name = h.name /\ content[DiskTable[i].sector] = h.hdr
      BY <1>3, <1>5, <2>2, FoundUsed DEF FoundSector
    <2>4. HandlesSound(DiskTable, content, handle')
      BY <1>6, <2>1, <2>3 DEF DiskSound, SoundFor, HandlesSound
    <2>5. SoundFor(DiskTable, content[MapData].bits, content, handle')
      BY <2>1, <2>4 DEF DiskSound, SoundFor
    <2>6. DiskTable' = DiskTable
      BY <1>1 DEF DiskTable
    <2>7. QED BY <1>1, <2>5, <2>6 DEF DiskSound
  <1>9. up
    BY <1>2, Runs
  <1>10. content' = [s \in Sectors |-> content'[s]]
    BY <1>1, <1>4
  <1>11. /\ thread' = [u \in Threads |-> thread'[u]] /\ CallSound(t)'
         /\ thread'[t].op \notin Directing
         /\ \A u \in Threads : u # t => thread'[u] = thread[u] /\ handle'[u] = handle[u]
    BY <1>1, <1>6, FinishFields
  <1>12. UNCHANGED <<up, torn>>
    BY <1>1
  <1>13. Flushing(t)' \/ DiskSound' \/ (~ Flushing(t) /\ OnlyData /\ NoneOpened)
    BY <1>8, Zenon
  <1>14. handle' = [u \in Threads |-> handle'[u]] /\ thread[t].op \in Directing
    BY <1>2, <1>6
  <1>15. QED BY <1>7, <1>9, <1>10, <1>11, <1>12, <1>13, <1>14, OneMoves

(* A step of a thread in no operation of the directory that leaves the     *)
(* disk alone and keeps the header of its file.                            *)
LEMMA HandleStep ==
  ASSUME FileInv, NEW t \in Threads, up, thread[t].op \notin Directing,
         UNCHANGED <<content, up, torn>>,
         thread' = [u \in Threads |-> thread'[u]],
         handle' = [u \in Threads |-> handle'[u]],
         \A u \in Threads : u # t => thread'[u] = thread[u] /\ handle'[u] = handle[u],
         handle'[t] # Closed =>
           /\ handle[t] # Closed /\ handle'[t].name = handle[t].name
           /\ handle'[t].hdr = handle[t].hdr,
         thread'[t].op \in Directing =>
           \A u \in Threads : u # t => thread[u].op \notin Directing,
         Fields(t)', CallSound(t)'
  PROVE  FileInv'
  <1>1. content' = [s \in Sectors |-> content'[s]]
    BY DEF FileInv
  <1>2. OnlyData
    BY Unchanged
  <1>3. NoneOpened
    BY DEF NoneOpened
  <1>4. ~ Flushing(t)
    BY DEF Flushing, Directing
  <1>5. QED BY <1>1, <1>2, <1>3, <1>4, OneMoves

(* A file is closed.                                                       *)
LEMMA CloseStep ==
  ASSUME FileInv, NEW t \in Threads, Close(t)
  PROVE  FileInv'
  <1>1. /\ up /\ thread[t] = Quiet /\ handle' = [handle EXCEPT ![t] = Closed]
        /\ UNCHANGED <<content, thread, up, torn>>
    BY DEF Close, diskVars
  <1>2. /\ thread = [u \in Threads |-> thread[u]] /\ handle = [u \in Threads |-> handle[u]]
        /\ Fields(t) /\ CallSound(t)
    BY DEF FileInv
  <1>3. /\ handle' = [u \in Threads |-> handle'[u]] /\ handle'[t] = Closed
        /\ \A u \in Threads : u # t => handle'[u] = handle[u]
    BY <1>1, <1>2
  <1>4. thread[t].op = "none" /\ thread[t].op \notin Directing
    BY <1>1 DEF Quiet, Directing
  <1>5. Fields(t)'
    BY <1>1, <1>2, <1>3, <1>4 DEF Fields
  <1>6. CallSound(t)'
    BY <1>1 DEF CallSound
  <1>7. QED BY <1>1, <1>2, <1>3, <1>4, <1>5, <1>6, HandleStep

(* seekPosition moves.                                                     *)
LEMMA Moved ==
  ASSUME FileInv, NEW t \in Threads, handle[t] # Closed, NEW p \in Nat,
         handle' = [handle EXCEPT ![t].seekPosition = p]
  PROVE  /\ handle' = [u \in Threads |-> handle'[u]]
         /\ \A u \in Threads : u # t => handle'[u] = handle[u]
         /\ handle'[t].name = handle[t].name /\ handle'[t].hdr = handle[t].hdr
         /\ handle'[t].seekPosition = p
         /\ {"name", "hdr", "seekPosition"} \subseteq DOMAIN handle'[t]
  <1>1. /\ handle = [u \in Threads |-> handle[u]]
        /\ {"name", "hdr", "seekPosition"} \subseteq DOMAIN handle[t]
    BY DEF FileInv, Fields
  <1>2. /\ handle' = [u \in Threads |-> handle'[u]]
        /\ \A u \in Threads : u # t => handle'[u] = handle[u]
        /\ handle'[t] = [handle[t] EXCEPT !.seekPosition = p]
    BY <1>1
  <1>3. QED BY <1>1, <1>2

(* Seek.                                                                   *)
LEMMA SeekStep ==
  ASSUME FileInv, NEW t \in Threads, NEW p \in Positions, Seek(t, p)
  PROVE  FileInv'
  <1>1. /\ up /\ thread[t] = Quiet /\ handle[t] # Closed
        /\ handle' = [handle EXCEPT ![t].seekPosition = p]
        /\ UNCHANGED <<content, thread, up, torn>> /\ p \in Nat
    BY FileConstants DEF Seek, diskVars
  <1>2. thread = [u \in Threads |-> thread[u]] /\ Fields(t)
    BY DEF FileInv
  <1>3. thread[t].op = "none" /\ thread[t].op \notin Directing
    BY <1>1 DEF Quiet, Directing
  <1>4. Fields(t)'
    BY <1>1, <1>2, <1>3, Moved DEF Fields
  <1>5. CallSound(t)'
    BY <1>1 DEF CallSound
  <1>6. QED BY <1>1, <1>2, <1>3, <1>4, <1>5, Moved, HandleStep

(* Read or Write returns.                                                  *)
LEMMA TransferredStep ==
  ASSUME FileInv, NEW t \in Threads, Transferred(t)
  PROVE  FileInv'
  <1> DEFINE p == handle[t].seekPosition + thread[t].size
  <1>1. /\ thread[t].op \in {"read", "write"} /\ Finish(t)
        /\ handle' = [handle EXCEPT ![t].seekPosition = p]
        /\ UNCHANGED <<content, up, torn>>
    <2>1. handle' = [handle EXCEPT ![t].seekPosition = @ + thread[t].size]
      BY DEF Transferred
    <2>2. handle = [u \in Threads |-> handle[u]]
      BY DEF FileInv
    <2>3. handle' = [handle EXCEPT ![t].seekPosition = p]
      BY <2>1, <2>2
    <2>4. QED BY <2>3 DEF Transferred, At, diskVars
  <1>2. Transfers(t) /\ Fields(t)
    BY <1>1, Operations DEF FileInv
  <1>3. handle[t] # Closed /\ p \in Nat
    BY <1>2 DEF Transfers, Fields
  <1> HIDE DEF p
  <1>4. thread[t].op # "none" /\ thread[t].op \notin Directing /\ up
    BY <1>1, Runs DEF Directing
  <1>5. Fields(t)'
    BY <1>1, <1>3, Moved, FinishFields DEF Fields, Directing
  <1>6. /\ thread' = [u \in Threads |-> thread'[u]] /\ CallSound(t)'
        /\ thread'[t].op \notin Directing
        /\ handle' = [u \in Threads |-> handle'[u]]
        /\ \A u \in Threads : u # t => thread'[u] = thread[u] /\ handle'[u] = handle[u]
    BY <1>1, <1>3, Moved, FinishFields
  <1>7. handle'[t].name = handle[t].name /\ handle'[t].hdr = handle[t].hdr
    BY <1>1, <1>3, Moved
  <1>8. UNCHANGED <<content, up, torn>>
    BY <1>1
  <1>9. QED BY <1>3, <1>4, <1>5, <1>6, <1>7, <1>8, HandleStep

(* The header of an open file is sound, also while directory and map are   *)
(* being written back.                                                     *)
LEMMA OpenHeader ==
  ASSUME FileInv, NEW t \in Threads, handle[t] # Closed
  PROVE  HeaderSound(handle[t].hdr)
  <1>1. ASSUME NEW table, NEW map, SoundFor(table, map, content, handle)
        PROVE  HeaderSound(handle[t].hdr)
    BY <1>1 DEF SoundFor, Sound, HandlesSound
  <1>2. CASE \E u \in Threads : Flushing(u)
    <2>1. PICK u \in Threads : Flushing(u)
      BY <1>2
    <2>2. thread[u].op \in Directing /\ thread[u].step = "flush"
      BY <2>1 DEF Flushing, Directing
    <2>3. DirectorySound(u)
      BY <2>2, Operations DEF FileInv
    <2>4. CreateWrites(u) \/ RemoveWrites(u)
      BY <2>2, <2>3 DEF DirectorySound, Looks, Opens, Creates, Removes
    <2>5. SoundFor(Table(u), OldMap(u), content, handle)
      BY <2>4 DEF CreateWrites, RemoveWrites
    <2>6. QED BY <1>1, <2>5
  <1>3. CASE \A u \in Threads : ~ Flushing(u)
    <2>1. up
      BY Runs
    <2>2. DiskSound
      BY <1>3, <2>1 DEF FileInv
    <2>3. QED BY <1>1, <2>2 DEF DiskSound
  <1>4. QED BY <1>2, <1>3

(* ReadAt and WriteAt cut a request to what the file holds.                *)
LEMMA CutInside ==
  ASSUME NEW hdr, hdr.numBytes \in Nat, NEW k \in Nat, NEW p \in Nat,
         Cut(hdr, k, p) > 0
  PROVE  Cut(hdr, k, p) \in Nat \ {0} /\ p + Cut(hdr, k, p) <= hdr.numBytes
  BY DEF Cut

(* A function on 1..m is a sequence of its values.                         *)
LEMMA Listing ==
  ASSUME NEW m \in Nat, NEW f, f = [k \in 1..m |-> f[k]]
  PROVE  f \in Seq(Marked(f)) /\ Len(f) = m /\ DOMAIN f = 1..m
  <1>1. DOMAIN f = 1..m
    OBVIOUS
  <1>2. \A k \in 1..m : f[k] \in Marked(f)
    BY <1>1 DEF Marked
  <1>3. f \in [1..m -> Marked(f)]
    BY <1>2
  <1>4. f \in Seq(Marked(f)) /\ Len(f) = m
    BY <1>3
  <1>5. QED BY <1>1, <1>4

(* Reads plans nothing but reads.                                          *)
LEMMA ReadsPlan ==
  ASSUME NEW hdr, NEW S, NEW f \in Seq(S)
  PROVE  /\ Reads(hdr, f) \in Seq(Marked(Reads(hdr, f)))
         /\ \A i \in 1..Len(Reads(hdr, f)) : Reads(hdr, f)[i].writes = FALSE
  <1> DEFINE m == Len(f)
             g == Reads(hdr, f)
             E(k) == R(ByteToSector(hdr, f[k] * SectorSize))
  <1>1. DOMAIN f = 1..m /\ m \in Nat
    OBVIOUS
  <1>2. g = [k \in 1..m |-> E(k)]
    BY <1>1 DEF Reads
  <1>3. \A k \in 1..m : E(k).writes = FALSE
    BY DEF R
  <1> HIDE DEF g, E, m
  <1>4. g = [k \in 1..m |-> g[k]] /\ \A k \in 1..m : g[k] = E(k)
    BY <1>2
  <1>5. g \in Seq(Marked(g)) /\ Len(g) = m
    BY <1>1, <1>4, Listing
  <1>6. QED BY <1>3, <1>4, <1>5 DEF g

(* The sectors a transfer spans, by their index in the file.               *)
LEMMA SpanInside ==
  ASSUME NEW p \in Nat, NEW n \in Nat \ {0}, NEW l \in Nat, p + n <= l * SectorSize
  PROVE  LET span == Span(p, n)
             m == 1 + LastSector(p, n) - FirstSector(p)
         IN  /\ m \in Nat /\ span = [k \in 1..m |-> span[k]]
             /\ \A k \in 1..m : span[k] \in 0..(l - 1)
             /\ span \in Seq(Nat)
  <1>1. SectorSize \in Nat \ {0}
    BY FileConstants
  <1>2. ASSUME NEW s \in Nat \ {0}, p + n <= l * s
        PROVE  /\ p \div s \in Nat /\ (p + n - 1) \div s \in Nat
               /\ p \div s <= (p + n - 1) \div s /\ (p + n - 1) \div s < l
    <2>1. p \div s \in Nat
      OBVIOUS
    <2>2. p + n - 1 \in Nat /\ p <= p + n - 1 /\ p + n - 1 < l * s
      BY <1>2
    <2>3. ASSUME NEW x \in Nat, NEW y \in Nat, x <= y PROVE x \div s <= y \div s
      BY <2>3
    <2>4. ASSUME NEW x \in Nat, x < l * s PROVE x \div s \in Nat /\ x \div s < l
      BY <2>4
    <2>5. QED BY <2>1, <2>2, <2>3, <2>4
  <1>3. /\ FirstSector(p) \in Nat /\ LastSector(p, n) \in Nat
        /\ FirstSector(p) <= LastSector(p, n) /\ LastSector(p, n) < l
    BY <1>1, <1>2 DEF FirstSector, LastSector
  <1> DEFINE a == FirstSector(p)
             b == LastSector(p, n)
             m == 1 + b - a
             span == Span(p, n)
  <1>4. span = [k \in 1..m |-> a + k - 1]
    BY DEF Span
  <1> HIDE DEF a, b, span
  <1>5. m \in Nat
    BY <1>3 DEF a, b
  <1>6. ASSUME NEW k \in 1..m PROVE span[k] \in 0..(l - 1)
    BY <1>3, <1>4, <1>5, <1>6 DEF a, b
  <1>7. span = [k \in 1..m |-> span[k]]
    BY <1>4
  <1>8. span \in Seq(Nat)
    <2>1. span \in [1..m -> Nat]
      BY <1>3, <1>4 DEF a, b
    <2>2. QED BY <1>5, <2>1
  <1>9. QED BY <1>5, <1>6, <1>7, <1>8 DEF a, b, span

(* What WriteAt reads first.                                               *)
LEMMA ReadFirstListed ==
  ASSUME NEW p, NEW n
  PROVE  ReadFirst(p, n) \in Seq({FirstSector(p), LastSector(p, n)})
  <1> DEFINE first == FirstSector(p)
             last == LastSector(p, n)
             firstAligned == p = first * SectorSize
             lastAligned == p + n = (last + 1) * SectorSize
             S == {first, last}
             x == IF ~ firstAligned THEN <<first>> ELSE << >>
             y == IF ~ lastAligned /\ (first # last \/ firstAligned) THEN <<last>> ELSE << >>
  <1>1. ReadFirst(p, n) = x \o y
    BY DEF ReadFirst
  <1>2. <<first>> \in Seq(S) /\ <<last>> \in Seq(S) /\ << >> \in Seq(S)
    <2> HIDE DEF first, last
    <2>1. QED OBVIOUS
  <1>3. x \in {<<first>>, << >>} /\ y \in {<<last>>, << >>}
    <2> HIDE DEF first, last, firstAligned, lastAligned
    <2>1. QED BY Zenon
  <1>4. x \in Seq(S) /\ y \in Seq(S)
    <2> HIDE DEF x, y, S
    <2>1. QED BY <1>2, <1>3
  <1> DEFINE z == x \o y
  <1> HIDE DEF x, y, S
  <1>5. z \in Seq(S)
    BY <1>4, ConcatProperties
  <1>6. QED BY <1>1, <1>5 DEF S

(* A thread that starts or goes on reading or writing its open file.       *)
LEMMA TransferStep ==
  ASSUME FileInv, NEW t \in Threads, up, handle[t] # Closed,
         thread[t].op \notin Directing, UNCHANGED <<content, handle, up, torn>>,
         thread' = [u \in Threads |-> thread'[u]],
         \A u \in Threads : u # t => thread'[u] = thread[u],
         {"op", "step", "todo", "got", "size"} \subseteq DOMAIN thread'[t],
         Transfers(t)'
  PROVE  FileInv'
  <1>1. thread'[t].op \in {"read", "write"}
    BY DEF Transfers
  <1>2. thread'[t].op \notin Directing
    BY <1>1 DEF Directing
  <1>3. Fields(t) /\ handle = [u \in Threads |-> handle[u]]
    BY DEF FileInv
  <1>4. Fields(t)'
    BY <1>2, <1>3 DEF Fields
  <1>5. CallSound(t)'
    BY DEF CallSound
  <1>6. handle' = [u \in Threads |-> handle'[u]]
    BY <1>3
  <1>7. QED BY <1>2, <1>4, <1>5, <1>6, HandleStep

(* Read starts.                                                            *)
LEMMA ReadStep ==
  ASSUME FileInv, NEW t \in Threads, NEW k \in Requests, Read(t, k)
  PROVE  FileInv'
  <1> DEFINE h == handle[t]
             n == Cut(h.hdr, k, h.seekPosition)
             plan == Reads(h.hdr, Span(h.seekPosition, n))
             call == [op |-> "read", step |-> "data", got |-> << >>, size |-> n,
                      todo |-> plan]
  <1>1. /\ up /\ thread[t] = Quiet /\ handle[t] # Closed /\ n > 0
        /\ thread' = [thread EXCEPT ![t] = call]
        /\ UNCHANGED <<content, handle, up, torn>>
    BY DEF Read, diskVars
  <1>2. /\ h.seekPosition \in Nat /\ k \in Nat /\ thread = [u \in Threads |-> thread[u]]
    BY <1>1, FileConstants DEF FileInv, Fields
  <1>3. HeaderSound(h.hdr)
    BY <1>1, OpenHeader
  <1>4. h.hdr.numBytes \in Nat /\ Len(h.hdr.dataSectors) \in Nat
        /\ h.hdr.numBytes <= Len(h.hdr.dataSectors) * SectorSize
    BY <1>3 DEF HeaderSound
  <1>5. n \in Nat \ {0} /\ h.seekPosition + n <= h.hdr.numBytes
    BY <1>1, <1>2, <1>4, CutInside
  <1>6. /\ plan \in Seq(Marked(plan))
        /\ \A i \in 1..Len(plan) : plan[i].writes = FALSE
    <2>1. SectorSize \in Nat
      BY FileConstants
    <2> DEFINE l == Len(h.hdr.dataSectors)
               p == h.seekPosition
               b == h.hdr.numBytes
    <2> HIDE DEF n, l, p, b
    <2>2. p \in Nat /\ l \in Nat /\ b \in Nat /\ b <= l * SectorSize /\ p + n <= b
      BY <1>2, <1>4, <1>5 DEF l, p, b
    <2>3. p + n <= l * SectorSize
      BY <1>5, <2>1, <2>2
    <2>4. Span(p, n) \in Seq(Nat)
      BY <1>5, <2>2, <2>3, SpanInside
    <2>5. QED BY <2>4, ReadsPlan DEF p
  <1> HIDE DEF plan, n
  <1>7. /\ call.op = "read" /\ call.step = "data" /\ call.size = n /\ call.todo = plan
        /\ DOMAIN call = {"op", "step", "todo", "got", "size"}
    OBVIOUS
  <1> HIDE DEF call
  <1>8. /\ thread' = [u \in Threads |-> thread'[u]] /\ thread'[t] = call
        /\ \A u \in Threads : u # t => thread'[u] = thread[u]
    BY <1>1, <1>2
  <1>9. Transfers(t)'
    BY <1>1, <1>5, <1>6, <1>7, <1>8 DEF Transfers
  <1>10. thread[t].op \notin Directing
    BY <1>1 DEF Quiet, Directing
  <1>11. QED BY <1>1, <1>7, <1>8, <1>9, <1>10, TransferStep

(* Write starts by reading the sectors it changes in part.                 *)
LEMMA WriteStep ==
  ASSUME FileInv, NEW t \in Threads, NEW k \in Requests, NEW v \in Values, Write(t, k, v)
  PROVE  FileInv'
  <1> DEFINE h == handle[t]
             n == Cut(h.hdr, k, h.seekPosition)
             plan == Reads(h.hdr, ReadFirst(h.seekPosition, n))
             call == [op |-> "write", step |-> "data", got |-> << >>, size |-> n,
                      value |-> v, todo |-> plan]
  <1>1. /\ up /\ thread[t] = Quiet /\ handle[t] # Closed /\ n > 0
        /\ thread' = [thread EXCEPT ![t] = call]
        /\ UNCHANGED <<content, handle, up, torn>>
    BY DEF Write, diskVars
  <1>2. /\ h.seekPosition \in Nat /\ k \in Nat /\ thread = [u \in Threads |-> thread[u]]
    BY <1>1, FileConstants DEF FileInv, Fields
  <1>3. HeaderSound(h.hdr)
    BY <1>1, OpenHeader
  <1>4. h.hdr.numBytes \in Nat
    BY <1>3 DEF HeaderSound
  <1>5. n \in Nat \ {0} /\ h.seekPosition + n <= h.hdr.numBytes
    BY <1>1, <1>2, <1>4, CutInside
  <1>6. /\ plan \in Seq(Marked(plan))
        /\ \A i \in 1..Len(plan) : plan[i].writes = FALSE
    <2> HIDE DEF n
    <2>1. ReadFirst(h.seekPosition, n)
            \in Seq({FirstSector(h.seekPosition), LastSector(h.seekPosition, n)})
      BY ReadFirstListed
    <2>2. QED BY <2>1, ReadsPlan
  <1> HIDE DEF plan, n
  <1>7. /\ call.op = "write" /\ call.step = "data" /\ call.size = n /\ call.todo = plan
        /\ {"op", "step", "todo", "got", "size"} \subseteq DOMAIN call
    OBVIOUS
  <1> HIDE DEF call
  <1>8. /\ thread' = [u \in Threads |-> thread'[u]] /\ thread'[t] = call
        /\ \A u \in Threads : u # t => thread'[u] = thread[u]
    BY <1>1, <1>2
  <1>9. Transfers(t)'
    BY <1>1, <1>5, <1>6, <1>7, <1>8 DEF Transfers
  <1>10. thread[t].op \notin Directing
    BY <1>1 DEF Quiet, Directing
  <1>11. QED BY <1>1, <1>7, <1>8, <1>9, <1>10, TransferStep

(* Write has read what it needs and goes on to write, inside of the file.  *)
LEMMA WriteAllStep ==
  ASSUME FileInv, NEW t \in Threads, WriteAll(t)
  PROVE  FileInv'
  <1> DEFINE h == handle[t]
             n == thread[t].size
             p == h.seekPosition
             span == Span(p, n)
             plan == [k \in DOMAIN span |->
                        W(ByteToSector(h.hdr, span[k] * SectorSize), Buffer(t, span[k]))]
  <1>1. /\ thread[t].op = "write" /\ Goto(t, "flush", plan)
        /\ UNCHANGED <<content, handle, up, torn>>
    BY DEF WriteAll, At, diskVars
  <1>2. Transfers(t) /\ Fields(t)
    BY <1>1, Operations DEF FileInv
  <1>3. handle[t] # Closed /\ n \in Nat \ {0} /\ p \in Nat /\ p + n <= h.hdr.numBytes
    BY <1>2 DEF Transfers, Fields
  <1>4. HeaderSound(h.hdr)
    BY <1>3, OpenHeader
  <1> DEFINE ds == h.hdr.dataSectors
             l == Len(ds)
             b == h.hdr.numBytes
  <1>5. ds \in Seq(Sectors \ System) /\ l \in Nat /\ b \in Nat /\ b <= l * SectorSize
    BY <1>4 DEF HeaderSound
  <1>6. PICK m \in Nat : /\ span = [k \in 1..m |-> span[k]]
                         /\ \A k \in 1..m : span[k] \in 0..(l - 1)
    <2>1. SectorSize \in Nat
      BY FileConstants
    <2> HIDE DEF n, l, p, b
    <2>2. p + n <= l * SectorSize
      BY <1>3, <1>5, <2>1 DEF b
    <2>3. QED BY <1>3, <1>5, <2>2, SpanInside
  <1> HIDE DEF span, n, p
  <1> DEFINE E(k) == W(ByteToSector(h.hdr, span[k] * SectorSize), Buffer(t, span[k]))
  <1>7. plan = [k \in 1..m |-> E(k)]
    <2>1. DOMAIN span = 1..m
      BY <1>6
    <2>2. QED BY <2>1
  <1>8. ASSUME NEW k \in 1..m
        PROVE  E(k).writes = TRUE /\ E(k).sector \in Marked(ds)
    <2>1. span[k] \in 0..(l - 1)
      BY <1>6
    <2>2. SectorSize \in Nat \ {0}
      BY FileConstants
    <2>3. ASSUME NEW i \in Nat, NEW s \in Nat \ {0} PROVE (i * s) \div s = i
      OBVIOUS
    <2>4. (span[k] * SectorSize) \div SectorSize = span[k]
      BY <2>1, <2>2, <2>3
    <2>5. E(k).sector = ds[span[k] + 1] /\ E(k).writes = TRUE
      BY <2>4 DEF W, ByteToSector
    <2>6. span[k] + 1 \in 1..l
      BY <1>5, <2>1
    <2>7. ds[span[k] + 1] \in Marked(ds)
      BY <1>5, <2>6 DEF Marked
    <2>8. QED BY <2>5, <2>7
  <1> HIDE DEF plan, E, ds, l, b
  <1>9. plan \in Seq(Marked(plan)) /\ Len(plan) = m /\ \A k \in 1..m : plan[k] = E(k)
    BY <1>7, Listing
  <1>10. /\ thread' = [u \in Threads |-> thread'[u]]
         /\ \A u \in Threads : u # t => thread'[u] = thread[u]
         /\ DOMAIN thread'[t] = DOMAIN thread[t]
         /\ thread'[t].op = "write" /\ thread'[t].size = n
         /\ thread'[t].todo = plan /\ thread'[t].step = "flush"
    <2>1. thread[t].op # "none"
      BY <1>1
    <2>2. QED BY <1>1, <2>1, GotoFields DEF n
  <1>11. Transfers(t)'
    BY <1>1, <1>3, <1>8, <1>9, <1>10 DEF Transfers, ds, p
  <1>12. {"op", "step", "todo", "got", "size"} \subseteq DOMAIN thread'[t]
    BY <1>1, <1>2, <1>10 DEF Fields
  <1>13. thread[t].op \notin Directing /\ up
    BY <1>1, <1>3, Runs DEF Directing
  <1>14. QED BY <1>1, <1>3, <1>10, <1>11, <1>12, <1>13, TransferStep

(* Create, Open and Remove start by fetching the directory.                *)
LEMMA CallStep ==
  ASSUME FileInv, NEW t \in Threads, NEW op \in Directing, NEW n \in Names, NEW size \in Nat,
         Call(t, op, n, size), op = "open" => handle[t] = Closed,
         op = "remove" => \A u \in Threads : handle[u].name # n
  PROVE  FileInv'
  <1> DEFINE call == [op |-> op, step |-> "lookup", todo |-> FetchDirectory,
                      got |-> << >>, name |-> n, size |-> size]
  <1>1. /\ up /\ thread[t] = Quiet /\ \A u \in Threads : thread[u].op \notin Directing
        /\ thread' = [thread EXCEPT ![t] = call]
        /\ UNCHANGED <<content, handle, up, torn>>
    BY DEF Call, diskVars
  <1>2. /\ thread = [u \in Threads |-> thread[u]] /\ handle = [u \in Threads |-> handle[u]]
        /\ Fields(t)
    BY DEF FileInv
  <1>3. /\ call.op = op /\ call.step = "lookup" /\ call.name = n /\ call.size = size
        /\ call.todo = <<R(DirData1), R(DirData2)>>
        /\ DOMAIN call = {"op", "step", "todo", "got", "name", "size"}
    BY DEF FetchDirectory
  <1> HIDE DEF call
  <1>4. /\ thread' = [u \in Threads |-> thread'[u]] /\ thread'[t] = call
        /\ \A u \in Threads : u # t => thread'[u] = thread[u]
    BY <1>1, <1>2
  <1>5. Fields(t)'
    BY <1>1, <1>2, <1>3, <1>4 DEF Fields
  <1>6. CallSound(t)'
    <2>1. Looks(t)' /\ thread'[t].op \in Directing
      BY <1>3, <1>4 DEF Looks
    <2>2. QED BY <2>1 DEF CallSound, DirectorySound
  <1>7. handle' = [u \in Threads |-> handle'[u]]
    BY <1>1, <1>2
  <1>8. QED BY <1>1, <1>4, <1>5, <1>6, <1>7, HandleStep

(* An access that reads.                                                   *)
LEMMA ReadOne ==
  ASSUME FileInv, NEW t \in Threads, Access(t), thread[t].op \in Directing,
         NEW s, Head(thread[t].todo) = R(s)
  PROVE  /\ content' = content /\ Has(t, s)'
         /\ \A x : Has(t, x) => Has(t, x)'
         /\ \A x \in DOMAIN thread[t].got :
              /\ x \in DOMAIN thread'[t].got
              /\ x # s \/ Has(t, x) => thread'[t].got[x] = thread[t].got[x]
  <1> DEFINE got == thread[t].got
  <1>1. R(s).writes = FALSE /\ R(s).sector = s
    BY DEF R
  <1>2. content' = content
    BY <1>1 DEF Access, ReadSector
  <1>3. thread'[t].got = Noted(got, s, content[s])
    BY <1>1, AccessFields DEF Directing
  <1> HIDE DEF got
  <1>4. /\ DOMAIN Noted(got, s, content[s]) = DOMAIN got \cup {s}
        /\ Noted(got, s, content[s])[s] = content[s]
        /\ \A x \in DOMAIN got : x # s => Noted(got, s, content[s])[x] = got[x]
    BY DEF Noted
  <1>5. Has(t, s)'
    BY <1>2, <1>3, <1>4 DEF Has
  <1>6. ASSUME NEW x \in DOMAIN got
        PROVE  /\ x \in DOMAIN thread'[t].got
               /\ x # s \/ Has(t, x) => thread'[t].got[x] = got[x]
    BY <1>3, <1>4 DEF Has, got
  <1>7. ASSUME NEW x, Has(t, x) PROVE Has(t, x)'
    BY <1>2, <1>6, <1>7 DEF Has, got
  <1>8. QED BY <1>2, <1>5, <1>6, <1>7 DEF got

(* An access that writes.                                                  *)
LEMMA WriteOne ==
  ASSUME FileInv, NEW t \in Threads, Access(t), thread[t].op # "none",
         NEW s, NEW data, Head(thread[t].todo) = W(s, data)
  PROVE  /\ thread'[t].got = thread[t].got
         /\ content' = [content EXCEPT ![s] = data]
         /\ content' = [x \in Sectors |-> content'[x]]
         /\ \A x \in Sectors : x # s => content'[x] = content[x]
         /\ s \in Sectors => content'[s] = data
  <1>1. W(s, data).writes = TRUE /\ W(s, data).sector = s /\ W(s, data).data = data
    BY DEF W
  <1>2. thread'[t].got = thread[t].got
    BY <1>1, AccessFields
  <1>3. content' = [content EXCEPT ![s] = data]
    BY <1>1 DEF Access, WriteSector
  <1>4. content = [x \in Sectors |-> content[x]]
    BY DEF FileInv
  <1>5. QED BY <1>2, <1>3, <1>4

(* An access of Create, Open or Remove.                                    *)
LEMMA DirectoryAccess ==
  ASSUME FileInv, NEW t \in Threads, Access(t), thread[t].op \in Directing,
         content' = [s \in Sectors |-> content'[s]],
         Flushing(t) \/ content' = content, DirectorySound(t)'
  PROVE  FileInv'
  <1>1. up /\ UNCHANGED <<handle, up, torn>>
    BY DEF Access
  <1>2. thread[t].op # "none"
    BY DEF Directing
  <1>3. /\ thread' = [u \in Threads |-> thread'[u]]
        /\ \A u \in Threads : u # t => thread'[u] = thread[u]
        /\ DOMAIN thread'[t] = DOMAIN thread[t]
        /\ thread'[t].op = thread[t].op /\ thread'[t].step = thread[t].step
        /\ thread'[t].size = thread[t].size /\ thread'[t].name = thread[t].name
    BY <1>2, AccessFields
  <1>4. Fields(t)'
    <2>1. Fields(t)
      BY DEF FileInv
    <2>2. QED BY <1>1, <1>3, <2>1 DEF Fields
  <1>5. CallSound(t)'
    BY DEF CallSound
  <1>6. Flushing(t)' \/ DiskSound' \/ (~ Flushing(t) /\ OnlyData /\ NoneOpened)
    <2>1. CASE Flushing(t)
      BY <1>3, <2>1 DEF Flushing
    <2>2. CASE ~ Flushing(t)
      <3>1. OnlyData /\ NoneOpened
        BY <1>1, <2>2, Unchanged
      <3>2. QED BY <2>2, <3>1, Zenon
    <2>3. QED BY <2>1, <2>2
  <1>7. handle' = [u \in Threads |-> handle'[u]]
    BY <1>1 DEF FileInv
  <1>8. \A u \in Threads : u # t => thread[u].op \notin Directing
    BY DEF FileInv
  <1>9. QED BY <1>1, <1>3, <1>4, <1>5, <1>6, <1>7, <1>8, OneMoves

(* An access of Read or Write.                                             *)
LEMMA DataAccess ==
  ASSUME FileInv, NEW t \in Threads, Access(t), Transfers(t)
  PROVE  FileInv'
  <1> DEFINE todo == thread[t].todo
             a == Head(todo)
  <1>1. /\ up /\ todo # << >> /\ UNCHANGED <<handle, up, torn>>
        /\ IF a.writes THEN WriteSector(t, a.sector, a.data) ELSE ReadSector(t)
    BY DEF Access
  <1>2. /\ thread[t].op \in {"read", "write"} /\ handle[t] # Closed
        /\ todo \in Seq(Marked(todo))
        /\ \A i \in 1..Len(todo) :
             /\ todo[i].writes \in BOOLEAN
             /\ todo[i].writes =>
                  thread[t].op = "write" /\ todo[i].sector \in Marked(handle[t].hdr.dataSectors)
    BY DEF Transfers
  <1>3. thread[t].op # "none" /\ thread[t].op \notin Directing /\ ~ Flushing(t)
    BY <1>2 DEF Directing, Flushing
  <1>4. /\ thread' = [u \in Threads |-> thread'[u]]
        /\ \A u \in Threads : u # t => thread'[u] = thread[u]
        /\ DOMAIN thread'[t] = DOMAIN thread[t]
        /\ thread'[t].op = thread[t].op /\ thread'[t].step = thread[t].step
        /\ thread'[t].size = thread[t].size /\ thread'[t].todo = Tail(todo)
    BY <1>3, AccessFields
  <1> HIDE DEF todo
  <1>5. a = todo[1] /\ 1 \in 1..Len(todo)
    BY <1>1, <1>2
  <1>6. /\ content' = [s \in Sectors |-> content'[s]] /\ OnlyData
    <2>1. content = [s \in Sectors |-> content[s]]
      BY DEF FileInv
    <2>2. CASE a.writes = TRUE
      <3>1. content' = [content EXCEPT ![a.sector] = a.data]
        BY <1>1, <2>2 DEF WriteSector
      <3>2. a.sector \in Marked(handle[t].hdr.dataSectors)
        BY <1>2, <1>5, <2>2
      <3> HIDE DEF a
      <3>3. QED BY <1>2, <2>1, <3>1, <3>2 DEF OnlyData
    <2>3. CASE a.writes = FALSE
      <3>1. content' = content
        BY <1>1, <2>3 DEF ReadSector
      <3>2. QED BY <2>1, <3>1, Unchanged
    <2>4. a.writes \in BOOLEAN
      BY <1>2, <1>5
    <2>5. QED BY <2>2, <2>3, <2>4
  <1>7. NoneOpened
    BY <1>1, Unchanged
  <1>8. Transfers(t)'
    <2> DEFINE left == Tail(todo)
    <2>1. /\ left \in Seq(Marked(todo)) /\ Len(left) = Len(todo) - 1 /\ Len(todo) \in Nat
          /\ \A i \in 1..Len(left) : left[i] = todo[i + 1] /\ i + 1 \in 1..Len(todo)
      BY <1>1, <1>2
    <2> HIDE DEF left
    <2>2. Len(left) \in Nat /\ left = [i \in 1..Len(left) |-> left[i]]
      BY <2>1
    <2>3. left \in Seq(Marked(left))
      BY <2>2, Listing
    <2>4. \A i \in 1..Len(left) :
            /\ left[i].writes \in BOOLEAN
            /\ left[i].writes =>
                 thread[t].op = "write" /\ left[i].sector \in Marked(handle[t].hdr.dataSectors)
      BY <1>2, <2>1
    <2>5. thread'[t].todo = left
      BY <1>4 DEF left
    <2>6. QED BY <1>1, <1>4, <2>3, <2>4, <2>5 DEF Transfers
  <1>9. Fields(t)'
    <2>1. Fields(t)
      BY DEF FileInv
    <2>2. QED BY <1>1, <1>3, <1>4, <2>1 DEF Fields
  <1>10. CallSound(t)' /\ handle' = [u \in Threads |-> handle'[u]]
    BY <1>1, <1>8 DEF CallSound, FileInv
  <1>11. thread'[t].op \notin Directing /\ UNCHANGED <<up, torn>>
         /\ \A u \in Threads : u # t => thread'[u] = thread[u] /\ handle'[u] = handle[u]
    BY <1>1, <1>3, <1>4
  <1>12. Flushing(t)' \/ DiskSound' \/ (~ Flushing(t) /\ OnlyData /\ NoneOpened)
    BY <1>3, <1>6, <1>7, Zenon
  <1>13. QED BY <1>1, <1>4, <1>6, <1>7, <1>9, <1>10, <1>11, <1>12, OneMoves

(* A thread that has read the directory keeps it.                          *)
LEMMA TableKept ==
  ASSUME FileInv, NEW t \in Threads, Access(t), thread[t].op \in Directing, HasDirectory(t),
         NEW s, Head(thread[t].todo) = R(s)
  PROVE  /\ HasDirectory(t)' /\ Table(t)' = Table(t) /\ thread'[t].name = thread[t].name
         /\ FoundSector(t)' = FoundSector(t)
         /\ FindIndex(Table(t), thread[t].name)' = FindIndex(Table(t), thread[t].name)
  <1>1. HasDirectory(t)'
    BY ReadOne DEF HasDirectory
  <1>2. /\ DirData1 \in DOMAIN thread[t].got /\ DirData2 \in DOMAIN thread[t].got
        /\ Has(t, DirData1) /\ Has(t, DirData2)
    BY DEF HasDirectory, Has
  <1>3. /\ thread'[t].got[DirData1] = thread[t].got[DirData1]
        /\ thread'[t].got[DirData2] = thread[t].got[DirData2]
    BY <1>2, ReadOne
  <1>4. Table(t)' = Table(t)
    BY <1>3 DEF Table
  <1>5. thread'[t].name = thread[t].name
    BY AccessFields DEF Directing
  <1>6. FindIndex(Table(t), thread[t].name)' = FindIndex(Table(t), thread[t].name)
    BY <1>4, <1>5 DEF FindIndex
  <1>7. FoundSector(t)' = FoundSector(t)
    BY <1>4, <1>6 DEF FoundSector
  <1>8. QED BY <1>1, <1>4, <1>5, <1>6, <1>7

(* What an access leaves of the plan of an operation of the directory.     *)
LEMMA AccessPlan ==
  ASSUME FileInv, NEW t \in Threads, Access(t), thread[t].op \in Directing
  PROVE  /\ thread'[t].op = thread[t].op /\ thread'[t].step = thread[t].step
         /\ thread'[t].name = thread[t].name /\ thread'[t].size = thread[t].size
         /\ thread'[t].todo = Tail(thread[t].todo) /\ thread[t].todo # << >>
  <1>1. thread[t].op # "none"
    BY DEF Directing
  <1>2. QED BY <1>1, AccessFields DEF Access

(* An access of a step that only reads.                                    *)
LEMMA ReadingAccess ==
  ASSUME FileInv, NEW t \in Threads, Access(t), thread[t].op \in Directing, ~ Flushing(t)
  PROVE  FileInv'
  <1>1. /\ thread'[t].op = thread[t].op /\ thread'[t].step = thread[t].step
        /\ thread'[t].todo = Tail(thread[t].todo) /\ thread[t].todo # << >>
    BY AccessPlan
  <1>2. DirectorySound(t)
    BY Operations DEF FileInv
  <1>3. ASSUME NEW s, Head(thread[t].todo) = R(s), DirectorySound(t)'
        PROVE  FileInv'
    <2>1. content' = content /\ content = [x \in Sectors |-> content[x]]
      BY <1>3, ReadOne DEF FileInv
    <2>2. content' = [x \in Sectors |-> content'[x]]
      BY <2>1
    <2>3. QED BY <1>3, <2>1, <2>2, DirectoryAccess
  <1>4. CASE Looks(t)
    <2>1. CASE thread[t].todo = <<R(DirData1), R(DirData2)>>
      <3>1. Head(thread[t].todo) = R(DirData1) /\ thread'[t].todo = <<R(DirData2)>>
        BY <1>1, <2>1, Tails
      <3>2. Has(t, DirData1)'
        BY <3>1, ReadOne
      <3>3. Looks(t)'
        BY <1>1, <1>4, <3>1, <3>2 DEF Looks
      <3>4. QED BY <1>1, <1>3, <3>1, <3>3 DEF DirectorySound
    <2>2. CASE thread[t].todo = <<R(DirData2)>> /\ Has(t, DirData1)
      <3>1. Head(thread[t].todo) = R(DirData2) /\ thread'[t].todo = << >>
        BY <1>1, <2>2, Tails
      <3>2. HasDirectory(t)'
        BY <2>2, <3>1, ReadOne DEF HasDirectory
      <3>3. Looks(t)'
        BY <1>1, <1>4, <3>1, <3>2 DEF Looks
      <3>4. QED BY <1>1, <1>3, <3>1, <3>3 DEF DirectorySound
    <2>3. QED BY <1>1, <1>4, <2>1, <2>2 DEF Looks
  <1>5. CASE Opens(t)
    <2>1. thread[t].todo = <<R(FoundSector(t))>>
      BY <1>1, <1>5 DEF Opens
    <2>2. Head(thread[t].todo) = R(FoundSector(t)) /\ thread'[t].todo = << >>
      BY <1>1, <2>1, Tails
    <2>3. /\ HasDirectory(t)' /\ FoundSector(t)' = FoundSector(t)
          /\ FindIndex(Table(t), thread[t].name)' = FindIndex(Table(t), thread[t].name)
      BY <1>5, <2>2, TableKept DEF Opens
    <2>4. Has(t, FoundSector(t))'
      <3>1. ASSUME NEW s, s = FoundSector(t) PROVE Has(t, s)'
        BY <2>2, <3>1, ReadOne
      <3>2. QED BY <2>3, <3>1 DEF Has
    <2>5. Opens(t)'
      BY <1>1, <1>5, <2>2, <2>3, <2>4 DEF Opens
    <2>6. QED BY <1>3, <2>2, <2>5 DEF DirectorySound
  <1>6. CASE Creates(t)
    <2>1. thread[t].todo = <<R(MapData)>>
      BY <1>1, <1>6 DEF Creates
    <2>2. Head(thread[t].todo) = R(MapData) /\ thread'[t].todo = << >>
      BY <1>1, <2>1, Tails
    <2>3. /\ HasDirectory(t)'
          /\ FindIndex(Table(t), thread[t].name)' = FindIndex(Table(t), thread[t].name)
      BY <1>6, <2>2, TableKept DEF Creates
    <2>4. Has(t, MapData)'
      BY <2>2, ReadOne
    <2>5. Creates(t)'
      BY <1>1, <1>6, <2>2, <2>3, <2>4 DEF Creates
    <2>6. QED BY <1>3, <2>2, <2>5 DEF DirectorySound
  <1>7. CASE Removes(t)
    <2>1. ASSUME NEW s, Head(thread[t].todo) = R(s)
          PROVE  /\ HasDirectory(t)' /\ FoundSector(t)' = FoundSector(t)
                 /\ FindIndex(Table(t), thread[t].name)' = FindIndex(Table(t), thread[t].name)
                 /\ Has(t, FoundSector(t)) => Has(t, FoundSector(t))'
                 /\ s = FoundSector(t) => Has(t, FoundSector(t))'
      <3>1. /\ HasDirectory(t)' /\ FoundSector(t)' = FoundSector(t)
            /\ FindIndex(Table(t), thread[t].name)' = FindIndex(Table(t), thread[t].name)
        BY <1>7, <2>1, TableKept DEF Removes
      <3>2. ASSUME NEW x, x = FoundSector(t), x = s \/ Has(t, x) PROVE Has(t, x)'
        BY <2>1, <3>2, ReadOne
      <3>3. Has(t, FoundSector(t)) \/ s = FoundSector(t) => Has(t, FoundSector(t))'
        BY <3>1, <3>2 DEF Has
      <3>4. QED BY <3>1, <3>3
    <2>2. CASE thread[t].todo = <<R(FoundSector(t)), R(MapData)>>
      <3>1. Head(thread[t].todo) = R(FoundSector(t)) /\ thread'[t].todo = <<R(MapData)>>
        BY <1>1, <2>2, Tails
      <3>2. Removes(t)'
        BY <1>1, <1>7, <2>1, <3>1 DEF Removes
      <3>3. QED BY <1>3, <3>1, <3>2 DEF DirectorySound
    <2>3. CASE thread[t].todo = <<R(MapData)>> /\ Has(t, FoundSector(t))
      <3>1. Head(thread[t].todo) = R(MapData) /\ thread'[t].todo = << >>
        BY <1>1, <2>3, Tails
      <3>2. Has(t, MapData)'
        BY <3>1, ReadOne
      <3>3. Removes(t)'
        BY <1>1, <1>7, <2>1, <2>3, <3>1, <3>2 DEF Removes
      <3>4. QED BY <1>3, <3>1, <3>3 DEF DirectorySound
    <2>4. QED BY <1>1, <1>7, <2>2, <2>3 DEF Removes
  <1>8. QED
    BY <1>2, <1>4, <1>5, <1>6, <1>7 DEF DirectorySound, CreateWrites, RemoveWrites, Flushing

(* What a write back has read stays what it was.                           *)
LEMMA PlanKept ==
  ASSUME NEW t \in Threads, \A x \in Metadata : thread'[t].got[x] = thread[t].got[x],
         thread'[t].name = thread[t].name, thread'[t].size = thread[t].size
  PROVE  /\ Table(t)' = Table(t) /\ OldMap(t)' = OldMap(t)
         /\ NewSector(t)' = NewSector(t) /\ NewHeader(t)' = NewHeader(t)
         /\ GrownTable(t)' = GrownTable(t) /\ GrownMap(t)' = GrownMap(t)
         /\ FoundSector(t)' = FoundSector(t) /\ ShrunkTable(t)' = ShrunkTable(t)
  <1>1. Table(t)' = Table(t) /\ OldMap(t)' = OldMap(t)
    BY DEF Table, OldMap, Metadata
  <1>2. NewSector(t)' = NewSector(t) /\ FoundSector(t)' = FoundSector(t)
    BY <1>1 DEF NewSector, FoundSector
  <1>3. NewHeader(t)' = NewHeader(t)
    BY <1>1, <1>2 DEF NewHeader
  <1>4. GrownTable(t)' = GrownTable(t) /\ GrownMap(t)' = GrownMap(t)
    BY <1>1, <1>2, <1>3 DEF GrownTable, GrownMap
  <1>5. ShrunkTable(t)' = ShrunkTable(t)
    BY <1>1 DEF ShrunkTable
  <1>6. QED BY <1>1, <1>2, <1>3, <1>4, <1>5

(* The files of a sound disk lie outside of the system's sectors and are   *)
(* marked in the map.                                                      *)
LEMMA HeaderPlaces ==
  ASSUME NEW table, NEW map, NEW disk, NEW handles, SoundFor(table, map, disk, handles)
  PROVE  /\ System \subseteq map
         /\ \A i \in Used(table) : table[i].sector \in Sectors \ System /\ table[i].sector \in map
  <1>1. Sound(table, map, disk)
    BY DEF SoundFor
  <1>2. map = System \cup UNION {Owned(disk, table[i].sector) : i \in Used(table)}
    BY <1>1 DEF Sound
  <1>3. ASSUME NEW i \in Used(table)
        PROVE  table[i].sector \in Sectors \ System /\ table[i].sector \in map
    <2>1. table[i].sector \in Sectors \ System
      BY <1>1 DEF Sound, Tables, Used
    <2>2. table[i].sector \in Owned(disk, table[i].sector)
      BY DEF Owned
    <2>3. QED BY <1>2, <2>1, <2>2
  <1>4. QED BY <1>2, <1>3

(* The sectors that Create and Remove write back are three.                *)
LEMMA MetadataSectors ==
  /\ Metadata = {MapData, DirData1, DirData2} /\ Metadata \subseteq Sectors
  /\ MapData # DirData1 /\ MapData # DirData2 /\ DirData1 # DirData2
  BY SystemSectors DEF Metadata, MapData, DirData1, DirData2

(* An access of Create as it writes back: the header, or metadata, or the  *)
(* second half of the directory that it reads again.                       *)
LEMMA CreateKept ==
  ASSUME FileInv, NEW t \in Threads, Access(t), CreateWrites(t),
         \A x \in Metadata : /\ x \in DOMAIN thread'[t].got
                             /\ thread'[t].got[x] = thread[t].got[x],
         content' = [x \in Sectors |-> content'[x]],
         \A x \in Sectors \ System : x # NewSector(t) => content'[x] = content[x]
  PROVE  /\ thread'[t].op = "create" /\ thread'[t].step = "flush"
         /\ {DirData1, DirData2, MapData} \subseteq DOMAIN thread'[t].got
         /\ NewSector(t)' = NewSector(t) /\ NewHeader(t)' = NewHeader(t)
         /\ GrownTable(t)' = GrownTable(t) /\ GrownMap(t)' = GrownMap(t)
         /\ OldMap(t)' = OldMap(t)
         /\ SoundFor(Table(t), OldMap(t), content, handle)'
         /\ SoundFor(GrownTable(t), GrownMap(t), GrownDisk(t), handle)'
  <1> DEFINE ns == NewSector(t)
  <1>1. /\ thread[t].op = "create" /\ thread[t].step = "flush"
        /\ ns \in Sectors \ OldMap(t)
        /\ SoundFor(Table(t), OldMap(t), content, handle)
        /\ SoundFor(GrownTable(t), GrownMap(t), GrownDisk(t), handle)
    BY DEF CreateWrites
  <1>2. thread[t].op \in Directing
    BY <1>1 DEF Directing
  <1>3. /\ thread'[t].op = thread[t].op /\ thread'[t].step = thread[t].step
        /\ thread'[t].name = thread[t].name /\ thread'[t].size = thread[t].size
    BY <1>2, AccessPlan
  <1>4. /\ Table(t)' = Table(t) /\ OldMap(t)' = OldMap(t)
        /\ NewSector(t)' = NewSector(t) /\ NewHeader(t)' = NewHeader(t)
        /\ GrownTable(t)' = GrownTable(t) /\ GrownMap(t)' = GrownMap(t)
    BY <1>3, PlanKept
  <1>5. handle' = handle
    BY DEF Access
  <1>6. SoundFor(Table(t), OldMap(t), content', handle)
    <2>1. \A i \in Used(Table(t)) : content'[Table(t)[i].sector] = content[Table(t)[i].sector]
      BY <1>1, HeaderPlaces
    <2>2. QED BY <1>1, <2>1, SoundFrame
  <1>7. SoundFor(GrownTable(t), GrownMap(t), GrownDisk(t)', handle)
    <2>1. ASSUME NEW x \in Sectors \ System PROVE GrownDisk(t)'[x] = GrownDisk(t)[x]
      <3>1. GrownDisk(t)' = [content' EXCEPT ![ns] = NewHeader(t)]
        BY <1>4 DEF GrownDisk
      <3>2. GrownDisk(t) = [content EXCEPT ![ns] = NewHeader(t)]
        BY DEF GrownDisk
      <3>3. content = [y \in Sectors |-> content[y]]
        BY DEF FileInv
      <3> HIDE DEF ns
      <3>4. CASE x = ns
        BY <3>1, <3>2, <3>3, <3>4
      <3>5. CASE x # ns
        <4>1. content'[x] = content[x]
          BY <3>5 DEF ns
        <4>2. QED BY <3>1, <3>2, <3>3, <3>5, <4>1
      <3>6. QED BY <3>4, <3>5
    <2>2. \A i \in Used(GrownTable(t)) :
            GrownDisk(t)'[GrownTable(t)[i].sector] = GrownDisk(t)[GrownTable(t)[i].sector]
      BY <1>1, <2>1, HeaderPlaces
    <2>3. QED BY <1>1, <2>2, SoundFrame
  <1>8. SoundFor(Table(t), OldMap(t), content, handle)'
    BY <1>4, <1>5, <1>6
  <1>9. SoundFor(GrownTable(t), GrownMap(t), GrownDisk(t), handle)'
    BY <1>4, <1>5, <1>7
  <1>10. QED BY <1>1, <1>3, <1>4, <1>8, <1>9 DEF Metadata

(* One access of the write back of Create.                                 *)
LEMMA CreateAccess ==
  ASSUME FileInv, NEW t \in Threads, Access(t), CreateWrites(t)
  PROVE  FileInv'
  <1> DEFINE ns == NewSector(t)
             header == W(ns, NewHeader(t))
             dir1 == W(DirData1, FirstHalf(GrownTable(t)))
             dir2 == W(DirData2, SecondHalf(GrownTable(t)))
             map == W(MapData, FreeMap(GrownMap(t)))
             todo == thread[t].todo
  <1>1. /\ thread[t].op = "create" /\ thread[t].step = "flush"
        /\ {DirData1, DirData2, MapData} \subseteq DOMAIN thread[t].got
        /\ ns \in Sectors \ OldMap(t)
        /\ SoundFor(Table(t), OldMap(t), content, handle)
    BY DEF CreateWrites
  <1>2. thread[t].op \in Directing /\ thread[t].op # "none" /\ Flushing(t)
    BY <1>1 DEF Directing, Flushing
  <1>3. thread'[t].todo = Tail(todo) /\ todo # << >>
    BY <1>2, AccessPlan
  <1>4. ns \in Sectors \ System /\ \A x \in Metadata : x \in Sectors /\ x # ns
    BY <1>1, HeaderPlaces, SystemSectors
  <1>5. content = [x \in Sectors |-> content[x]]
    BY DEF FileInv
  <1>6. ASSUME content' = [x \in Sectors |-> content'[x]],
               \A x \in Metadata : /\ x \in DOMAIN thread'[t].got
                                   /\ thread'[t].got[x] = thread[t].got[x],
               \A x \in Sectors \ System : x # ns => content'[x] = content[x],
               LET placed == content'[ns] = NewHeader(t)
                   new1 == content'[DirData1] = dir1.data
                   new2 == content'[DirData2] = dir2.data
                   newMap == content'[MapData] = map.data
                   todo2 == thread'[t].todo
               IN  \/ todo2 = <<header, R(DirData2), dir1, dir2, map>> /\ HasAll(t)'
                   \/ todo2 = <<R(DirData2), dir1, dir2, map>> /\ HasAll(t)' /\ placed
                   \/ todo2 = <<dir1, dir2, map>> /\ HasAll(t)' /\ placed
                   \/ todo2 = <<dir2, map>> /\ placed /\ new1
                   \/ todo2 = <<map>> /\ placed /\ new1 /\ new2
                   \/ todo2 = << >> /\ placed /\ new1 /\ new2 /\ newMap
        PROVE  FileInv'
    <2>1. /\ thread'[t].op = "create" /\ thread'[t].step = "flush"
          /\ {DirData1, DirData2, MapData} \subseteq DOMAIN thread'[t].got
          /\ NewSector(t)' = ns /\ NewHeader(t)' = NewHeader(t)
          /\ GrownTable(t)' = GrownTable(t) /\ GrownMap(t)' = GrownMap(t)
          /\ OldMap(t)' = OldMap(t)
          /\ SoundFor(Table(t), OldMap(t), content, handle)'
          /\ SoundFor(GrownTable(t), GrownMap(t), GrownDisk(t), handle)'
      BY <1>6, CreateKept
    <2>2. CreateWrites(t)'
      BY <1>1, <1>6, <2>1 DEF CreateWrites
    <2>3. QED BY <1>2, <1>6, <2>2, DirectoryAccess DEF DirectorySound
  <1>7. ASSUME NEW s, NEW data, Head(todo) = W(s, data), s \in Metadata \cup {ns}
        PROVE  /\ content' = [x \in Sectors |-> content'[x]]
               /\ \A x \in Metadata : /\ x \in DOMAIN thread'[t].got
                                      /\ thread'[t].got[x] = thread[t].got[x]
               /\ \A x \in Sectors : x # s => content'[x] = content[x]
               /\ \A x \in Sectors \ System : x # ns => content'[x] = content[x]
               /\ content'[s] = data
               /\ thread'[t].got = thread[t].got
    <2>1. /\ thread'[t].got = thread[t].got
          /\ content' = [x \in Sectors |-> content'[x]]
          /\ \A x \in Sectors : x # s => content'[x] = content[x]
          /\ s \in Sectors => content'[s] = data
      BY <1>2, <1>7, WriteOne
    <2>2. s \in Sectors /\ (s = ns \/ s \in System)
      BY <1>4, <1>7, SystemSectors
    <2>3. QED BY <1>1, <2>1, <2>2 DEF Metadata
  <1>8. /\ W(ns, NewHeader(t)).data = NewHeader(t)
        /\ dir1.data = FirstHalf(GrownTable(t)) /\ dir2.data = SecondHalf(GrownTable(t))
        /\ map.data = FreeMap(GrownMap(t))
    BY DEF W
  <1> DEFINE placed == content[ns] = NewHeader(t)
             new1 == content[DirData1] = dir1.data
             new2 == content[DirData2] = dir2.data
  <1>9. CASE todo = <<header, R(DirData2), dir1, dir2, map>> /\ HasAll(t)
    <2>1. Head(todo) = W(ns, NewHeader(t)) /\ thread'[t].todo = <<R(DirData2), dir1, dir2, map>>
      BY <1>3, <1>9, Tails
    <2>2. HasAll(t)'
      <3>1. \A x \in Metadata : content'[x] = content[x]
        BY <1>4, <1>7, <2>1
      <3>2. thread'[t].got = thread[t].got
        BY <1>7, <2>1
      <3>3. QED BY <1>9, <3>1, <3>2 DEF HasAll, HasDirectory, Has, Metadata
    <2>3. content'[ns] = NewHeader(t)
      BY <1>7, <2>1
    <2>4. /\ content' = [x \in Sectors |-> content'[x]]
          /\ \A x \in Metadata : /\ x \in DOMAIN thread'[t].got
                                 /\ thread'[t].got[x] = thread[t].got[x]
          /\ \A x \in Sectors \ System : x # ns => content'[x] = content[x]
      BY <1>7, <2>1
    <2> HIDE DEF dir1, dir2, map, header
    <2>5. QED BY <1>6, <2>1, <2>2, <2>3, <2>4
  <1>10. CASE todo = <<R(DirData2), dir1, dir2, map>> /\ HasAll(t) /\ placed
    <2>1. Head(todo) = R(DirData2) /\ thread'[t].todo = <<dir1, dir2, map>>
      BY <1>3, <1>10, Tails
    <2>2. content' = content /\ \A x : Has(t, x) => Has(t, x)'
      BY <1>2, <2>1, ReadOne
    <2>3. HasAll(t)'
      BY <1>10, <2>2 DEF HasAll, HasDirectory
    <2>4. \A x \in Metadata : /\ x \in DOMAIN thread'[t].got
                              /\ thread'[t].got[x] = thread[t].got[x]
      <3>1. \A x \in Metadata : x \in DOMAIN thread[t].got /\ Has(t, x)
        BY <1>10 DEF HasAll, HasDirectory, Has, Metadata
      <3>2. QED BY <1>2, <2>1, <3>1, ReadOne
    <2>5. /\ content' = [x \in Sectors |-> content'[x]] /\ content'[ns] = NewHeader(t)
          /\ \A x \in Sectors \ System : x # ns => content'[x] = content[x]
      BY <1>5, <1>10, <2>2
    <2> HIDE DEF dir1, dir2, map, header
    <2>6. QED BY <1>6, <2>1, <2>3, <2>4, <2>5
  <1>11. CASE todo = <<dir1, dir2, map>> /\ HasAll(t) /\ placed
    <2>1. /\ Head(todo) = W(DirData1, FirstHalf(GrownTable(t)))
          /\ thread'[t].todo = <<dir2, map>> /\ DirData1 \in Metadata
      BY <1>3, <1>11, Tails, MetadataSectors
    <2>2. content'[DirData1] = dir1.data /\ content'[ns] = NewHeader(t)
      BY <1>4, <1>7, <1>8, <1>11, <2>1
    <2>3. /\ content' = [x \in Sectors |-> content'[x]]
          /\ \A x \in Metadata : /\ x \in DOMAIN thread'[t].got
                                 /\ thread'[t].got[x] = thread[t].got[x]
          /\ \A x \in Sectors \ System : x # ns => content'[x] = content[x]
      BY <1>7, <2>1
    <2> HIDE DEF dir1, dir2, map, header
    <2>4. QED BY <1>6, <2>1, <2>2, <2>3
  <1>12. CASE todo = <<dir2, map>> /\ placed /\ new1
    <2>1. /\ Head(todo) = W(DirData2, SecondHalf(GrownTable(t)))
          /\ thread'[t].todo = <<map>> /\ DirData2 \in Metadata
      BY <1>3, <1>12, Tails, MetadataSectors
    <2>2. /\ content'[DirData2] = dir2.data /\ content'[ns] = NewHeader(t)
          /\ content'[DirData1] = dir1.data
      BY <1>4, <1>7, <1>8, <1>12, <2>1, MetadataSectors
    <2>3. /\ content' = [x \in Sectors |-> content'[x]]
          /\ \A x \in Metadata : /\ x \in DOMAIN thread'[t].got
                                 /\ thread'[t].got[x] = thread[t].got[x]
          /\ \A x \in Sectors \ System : x # ns => content'[x] = content[x]
      BY <1>7, <2>1
    <2> HIDE DEF dir1, dir2, map, header
    <2>4. QED BY <1>6, <2>1, <2>2, <2>3
  <1>13. CASE todo = <<map>> /\ placed /\ new1 /\ new2
    <2>1. /\ Head(todo) = W(MapData, FreeMap(GrownMap(t)))
          /\ thread'[t].todo = << >> /\ MapData \in Metadata
      BY <1>3, <1>13, Tails, MetadataSectors
    <2>2. /\ content'[DirData2] = dir2.data /\ content'[ns] = NewHeader(t)
          /\ content'[DirData1] = dir1.data /\ content'[MapData] = map.data
      BY <1>4, <1>7, <1>8, <1>13, <2>1, MetadataSectors
    <2>3. /\ content' = [x \in Sectors |-> content'[x]]
          /\ \A x \in Metadata : /\ x \in DOMAIN thread'[t].got
                                 /\ thread'[t].got[x] = thread[t].got[x]
          /\ \A x \in Sectors \ System : x # ns => content'[x] = content[x]
      BY <1>7, <2>1
    <2> HIDE DEF dir1, dir2, map, header
    <2>4. QED BY <1>6, <2>1, <2>2, <2>3
  <1>14. QED BY <1>3, <1>9, <1>10, <1>11, <1>12, <1>13 DEF CreateWrites

(* An access of Remove as it writes back.                                  *)
LEMMA RemoveKept ==
  ASSUME FileInv, NEW t \in Threads, Access(t), RemoveWrites(t),
         \A x \in Metadata \cup {FoundSector(t)} :
           x \in DOMAIN thread'[t].got /\ thread'[t].got[x] = thread[t].got[x],
         \A x \in Sectors \ System : content'[x] = content[x]
  PROVE  /\ thread'[t].op = "remove" /\ thread'[t].step = "flush"
         /\ {DirData1, DirData2, MapData, FoundSector(t)'} \subseteq DOMAIN thread'[t].got
         /\ ShrunkTable(t)' = ShrunkTable(t) /\ ShrunkMap(t)' = ShrunkMap(t)
         /\ SoundFor(Table(t), OldMap(t), content, handle)'
         /\ SoundFor(ShrunkTable(t), ShrunkMap(t), content, handle)'
  <1>1. /\ thread[t].op = "remove" /\ thread[t].step = "flush"
        /\ SoundFor(Table(t), OldMap(t), content, handle)
        /\ SoundFor(ShrunkTable(t), ShrunkMap(t), content, handle)
    BY DEF RemoveWrites
  <1>2. thread[t].op \in Directing
    BY <1>1 DEF Directing
  <1>3. /\ thread'[t].op = thread[t].op /\ thread'[t].step = thread[t].step
        /\ thread'[t].name = thread[t].name /\ thread'[t].size = thread[t].size
    BY <1>2, AccessPlan
  <1>4. /\ Table(t)' = Table(t) /\ OldMap(t)' = OldMap(t)
        /\ FoundSector(t)' = FoundSector(t) /\ ShrunkTable(t)' = ShrunkTable(t)
    BY <1>3, PlanKept
  <1>5. ShrunkMap(t)' = ShrunkMap(t)
    BY <1>4 DEF ShrunkMap
  <1>6. handle' = handle
    BY DEF Access
  <1>7. SoundFor(Table(t), OldMap(t), content', handle)
    <2>1. \A i \in Used(Table(t)) : content'[Table(t)[i].sector] = content[Table(t)[i].sector]
      BY <1>1, HeaderPlaces
    <2>2. QED BY <1>1, <2>1, SoundFrame
  <1>8. SoundFor(ShrunkTable(t), ShrunkMap(t), content', handle)
    <2>1. \A i \in Used(ShrunkTable(t)) :
            content'[ShrunkTable(t)[i].sector] = content[ShrunkTable(t)[i].sector]
      BY <1>1, HeaderPlaces
    <2>2. QED BY <1>1, <2>1, SoundFrame
  <1>9. /\ SoundFor(Table(t), OldMap(t), content, handle)'
        /\ SoundFor(ShrunkTable(t), ShrunkMap(t), content, handle)'
    BY <1>4, <1>5, <1>6, <1>7, <1>8
  <1>10. QED BY <1>1, <1>3, <1>4, <1>5, <1>9 DEF Metadata

(* One access of the write back of Remove.                                 *)
LEMMA RemoveAccess ==
  ASSUME FileInv, NEW t \in Threads, Access(t), RemoveWrites(t)
  PROVE  FileInv'
  <1> DEFINE dir1 == W(DirData1, FirstHalf(ShrunkTable(t)))
             dir2 == W(DirData2, SecondHalf(ShrunkTable(t)))
             map == W(MapData, FreeMap(ShrunkMap(t)))
             todo == thread[t].todo
             Kept == \A x \in Metadata \cup {FoundSector(t)} :
                       x \in DOMAIN thread'[t].got /\ thread'[t].got[x] = thread[t].got[x]
  <1>1. /\ thread[t].op = "remove" /\ thread[t].step = "flush"
        /\ {DirData1, DirData2, MapData, FoundSector(t)} \subseteq DOMAIN thread[t].got
    BY DEF RemoveWrites
  <1>2. thread[t].op \in Directing /\ thread[t].op # "none" /\ Flushing(t)
    BY <1>1 DEF Directing, Flushing
  <1>3. thread'[t].todo = Tail(todo) /\ todo # << >>
    BY <1>2, AccessPlan
  <1>4. content = [x \in Sectors |-> content[x]]
    BY DEF FileInv
  <1>5. ASSUME content' = [x \in Sectors |-> content'[x]], Kept,
               \A x \in Sectors \ System : content'[x] = content[x],
               LET new1 == content'[DirData1] = dir1.data
                   new2 == content'[DirData2] = dir2.data
                   newMap == content'[MapData] = map.data
                   todo2 == thread'[t].todo
               IN  \/ todo2 = <<map, R(DirData2), dir1, dir2>> /\ HasAll(t)'
                   \/ todo2 = <<R(DirData2), dir1, dir2>> /\ HasDirectory(t)' /\ newMap
                   \/ todo2 = <<dir1, dir2>> /\ HasDirectory(t)' /\ newMap
                   \/ todo2 = <<dir2>> /\ newMap /\ new1
                   \/ todo2 = << >> /\ newMap /\ new1 /\ new2
        PROVE  FileInv'
    <2>1. /\ thread'[t].op = "remove" /\ thread'[t].step = "flush"
          /\ {DirData1, DirData2, MapData, FoundSector(t)'} \subseteq DOMAIN thread'[t].got
          /\ ShrunkTable(t)' = ShrunkTable(t) /\ ShrunkMap(t)' = ShrunkMap(t)
          /\ SoundFor(Table(t), OldMap(t), content, handle)'
          /\ SoundFor(ShrunkTable(t), ShrunkMap(t), content, handle)'
      BY <1>5, RemoveKept
    <2>2. RemoveWrites(t)'
      BY <1>5, <2>1 DEF RemoveWrites
    <2>3. QED BY <1>2, <1>5, <2>2, DirectoryAccess DEF DirectorySound
  <1>6. ASSUME NEW s \in Metadata, NEW data, Head(todo) = W(s, data)
        PROVE  /\ content' = [x \in Sectors |-> content'[x]] /\ Kept
               /\ \A x \in Sectors : x # s => content'[x] = content[x]
               /\ \A x \in Sectors \ System : content'[x] = content[x]
               /\ content'[s] = data
               /\ thread'[t].got = thread[t].got
    <2>1. /\ thread'[t].got = thread[t].got
          /\ content' = [x \in Sectors |-> content'[x]]
          /\ \A x \in Sectors : x # s => content'[x] = content[x]
          /\ s \in Sectors => content'[s] = data
      BY <1>2, <1>6, WriteOne
    <2>2. s \in Sectors /\ s \in System
      BY SystemSectors
    <2>3. QED BY <1>1, <2>1, <2>2 DEF Metadata
  <1>7. /\ dir1.data = FirstHalf(ShrunkTable(t)) /\ dir2.data = SecondHalf(ShrunkTable(t))
        /\ map.data = FreeMap(ShrunkMap(t))
    BY DEF W
  <1> DEFINE new1 == content[DirData1] = dir1.data
             newMap == content[MapData] = map.data
  <1>8. CASE todo = <<map, R(DirData2), dir1, dir2>> /\ HasAll(t)
    <2>1. /\ Head(todo) = W(MapData, FreeMap(ShrunkMap(t))) /\ MapData \in Metadata
          /\ thread'[t].todo = <<R(DirData2), dir1, dir2>>
      BY <1>3, <1>8, Tails, MetadataSectors
    <2>2. HasDirectory(t)'
      <3>1. content'[DirData1] = content[DirData1] /\ content'[DirData2] = content[DirData2]
        BY <1>6, <2>1, MetadataSectors
      <3>2. thread'[t].got = thread[t].got
        BY <1>6, <2>1
      <3>3. QED BY <1>8, <3>1, <3>2 DEF HasAll, HasDirectory, Has
    <2>3. content'[MapData] = map.data
      BY <1>6, <1>7, <2>1
    <2>4. /\ content' = [x \in Sectors |-> content'[x]] /\ Kept
          /\ \A x \in Sectors \ System : content'[x] = content[x]
      BY <1>6, <2>1
    <2> HIDE DEF dir1, dir2, map, Kept
    <2>5. QED BY <1>5, <2>1, <2>2, <2>3, <2>4
  <1>9. CASE todo = <<R(DirData2), dir1, dir2>> /\ HasDirectory(t) /\ newMap
    <2>1. Head(todo) = R(DirData2) /\ thread'[t].todo = <<dir1, dir2>>
      BY <1>3, <1>9, Tails
    <2>2. content' = content /\ \A x : Has(t, x) => Has(t, x)'
      BY <1>2, <2>1, ReadOne
    <2>3. HasDirectory(t)'
      BY <1>9, <2>2 DEF HasDirectory
    <2>4. Kept
      <3>1. \A x \in Metadata \cup {FoundSector(t)} :
              x \in DOMAIN thread[t].got /\ (x # DirData2 \/ Has(t, x))
        BY <1>1, <1>9 DEF HasDirectory, Metadata
      <3>2. QED BY <1>2, <2>1, <3>1, ReadOne
    <2>5. /\ content' = [x \in Sectors |-> content'[x]] /\ content'[MapData] = map.data
          /\ \A x \in Sectors \ System : content'[x] = content[x]
      BY <1>4, <1>9, <2>2
    <2> HIDE DEF dir1, dir2, map, Kept
    <2>6. QED BY <1>5, <2>1, <2>3, <2>4, <2>5
  <1>10. CASE todo = <<dir1, dir2>> /\ HasDirectory(t) /\ newMap
    <2>1. /\ Head(todo) = W(DirData1, FirstHalf(ShrunkTable(t)))
          /\ thread'[t].todo = <<dir2>> /\ DirData1 \in Metadata
      BY <1>3, <1>10, Tails, MetadataSectors
    <2>2. content'[DirData1] = dir1.data /\ content'[MapData] = map.data
      BY <1>6, <1>7, <1>10, <2>1, MetadataSectors
    <2>3. /\ content' = [x \in Sectors |-> content'[x]] /\ Kept
          /\ \A x \in Sectors \ System : content'[x] = content[x]
      BY <1>6, <2>1
    <2> HIDE DEF dir1, dir2, map, Kept
    <2>4. QED BY <1>5, <2>1, <2>2, <2>3
  <1>11. CASE todo = <<dir2>> /\ newMap /\ new1
    <2>1. /\ Head(todo) = W(DirData2, SecondHalf(ShrunkTable(t)))
          /\ thread'[t].todo = << >> /\ DirData2 \in Metadata
      BY <1>3, <1>11, Tails, MetadataSectors
    <2>2. /\ content'[DirData2] = dir2.data /\ content'[MapData] = map.data
          /\ content'[DirData1] = dir1.data
      BY <1>6, <1>7, <1>11, <2>1, MetadataSectors
    <2>3. /\ content' = [x \in Sectors |-> content'[x]] /\ Kept
          /\ \A x \in Sectors \ System : content'[x] = content[x]
      BY <1>6, <2>1
    <2> HIDE DEF dir1, dir2, map, Kept
    <2>4. QED BY <1>5, <2>1, <2>2, <2>3
  <1>12. QED BY <1>3, <1>8, <1>9, <1>10, <1>11 DEF RemoveWrites

(* One access of any operation.                                            *)
LEMMA AccessStep ==
  ASSUME FileInv, NEW t \in Threads, Access(t)
  PROVE  FileInv'
  <1>1. thread[t].todo # << >> /\ CallSound(t)
    BY DEF Access, FileInv
  <1>2. CASE Transfers(t)
    BY <1>2, DataAccess
  <1>3. CASE DirectorySound(t)
    <2>1. thread[t].op \in Directing
      BY <1>1, <1>3, Operations
    <2>2. CASE ~ Flushing(t)
      BY <2>1, <2>2, ReadingAccess
    <2>3. CASE Flushing(t)
      <3>1. CreateWrites(t) \/ RemoveWrites(t)
        BY <1>3, <2>3 DEF DirectorySound, Looks, Opens, Creates, Removes, Flushing
      <3>2. QED BY <3>1, CreateAccess, RemoveAccess
    <2>4. QED BY <2>2, <2>3
  <1>4. QED BY <1>1, <1>2, <1>3, Operations DEF CallSound

(* The steps that leave files and threads alone.                           *)
LEMMA FilesKept ==
  ASSUME FileInv, UNCHANGED <<content, thread, handle, up, torn>>
  PROVE  FileInv'
  <1>1. content' = content /\ thread' = thread /\ handle' = handle /\ up' = up /\ torn' = torn
    OBVIOUS
  <1>2. OnlyData /\ NoneOpened
    BY <1>1, Unchanged
  <1>3. ASSUME NEW t \in Threads PROVE Fields(t)' /\ CallSound(t)' /\ (Flushing(t)' => Flushing(t))
    <2>1. Fields(t) /\ CallSound(t) /\ content = [s \in Sectors |-> content[s]]
      BY DEF FileInv
    <2> /\ thread'[t] = thread[t]
        /\ \A u \in Threads : handle'[u] = handle[u]
      OBVIOUS
    <2>2. Fields(t)'
      BY <2>1 DEF Fields
    <2>3. CallSound(t)'
      <3>1. CASE thread[t] = Quiet
        BY <3>1 DEF CallSound
      <3>2. CASE Transfers(t)
        <4>1. Transfers(t)'
          BY <3>2 DEF Transfers
        <4>2. QED BY <4>1 DEF CallSound
      <3>3. CASE DirectorySound(t)
        <4>1. thread[t].op \in Directing
          BY <2>1, <3>3, Operations
        <4>2. ~ Flushing(t) => DiskSound
          BY <4>1, DiskSoundFor
        <4>3. content' = [s \in Sectors |-> content'[s]]
          BY <1>1, <2>1
        <4>4. DirectorySound(t)'
          BY <1>2, <3>3, <4>2, <4>3, DirectoryKept
        <4>5. QED BY <4>4 DEF CallSound
      <3>4. QED BY <2>1, <3>1, <3>2, <3>3 DEF CallSound
    <2>4. QED BY <2>2, <2>3 DEF Flushing
  <1>4. (~ torn' /\ \A t \in Threads : ~ Flushing(t)') => DiskSound'
    <2> SUFFICES ASSUME ~ torn', \A t \in Threads : ~ Flushing(t)' PROVE DiskSound'
      OBVIOUS
    <2>1. \A t \in Threads : ~ Flushing(t)
      BY <1>1 DEF Flushing
    <2>2. DiskSound
      BY <1>1, <2>1 DEF FileInv
    <2>3. QED BY <1>2, <2>2, DiskKept
  <1>5. /\ content' = [s \in Sectors |-> content'[s]]
        /\ thread' = [t \in Threads |-> thread'[t]]
        /\ handle' = [t \in Threads |-> handle'[t]]
        /\ up' \in BOOLEAN /\ torn' \in BOOLEAN /\ (up' => ~ torn')
        /\ ~ up' => \A t \in Threads : thread'[t] = Quiet /\ handle'[t] = Closed
        /\ \A t, u \in Threads :
             thread'[t].op \in Directing /\ thread'[u].op \in Directing => t = u
    BY <1>1 DEF FileInv
  <1>6. \A t \in Threads : Fields(t)' /\ CallSound(t)'
    BY <1>3
  <1>7. QED BY <1>4, <1>5, <1>6, Zenon DEF FileInv

(* A machine on which no thread is in an operation and no file is open.    *)
LEMMA AllQuiet ==
  ASSUME content' = [s \in Sectors |-> content'[s]],
         thread' = [t \in Threads |-> Quiet], handle' = [t \in Threads |-> Closed],
         up' \in BOOLEAN, torn' \in BOOLEAN, up' => ~ torn', ~ torn' => DiskSound'
  PROVE  FileInv'
  <1>1. ASSUME NEW t \in Threads
        PROVE  /\ thread'[t] = Quiet /\ handle'[t] = Closed
               /\ Fields(t)' /\ CallSound(t)' /\ thread'[t].op \notin Directing
    <2>1. thread'[t] = Quiet /\ handle'[t] = Closed
      OBVIOUS
    <2>2. DOMAIN Quiet = {"op", "step", "todo"} /\ Quiet.op = "none"
      BY DEF Quiet
    <2>3. QED BY <2>1, <2>2 DEF Fields, CallSound, Directing
  <1>2. /\ thread' = [t \in Threads |-> thread'[t]]
        /\ handle' = [t \in Threads |-> handle'[t]]
    OBVIOUS
  <1>3. \A t, u \in Threads :
          thread'[t].op \in Directing /\ thread'[u].op \in Directing => t = u
    BY <1>1
  <1>4. \A t \in Threads : Fields(t)' /\ CallSound(t)' /\ thread'[t] = Quiet /\ handle'[t] = Closed
    BY <1>1
  <1>5. QED BY <1>2, <1>3, <1>4, Zenon DEF FileInv

(* A disk is only being formatted while the machine is down, and sectors   *)
(* are written in order.                                                   *)
FormatInv ==
  /\ formatting \in 0 .. FormatEnd
  /\ formatting # FormatEnd =>
       ~ up /\ torn /\ \A s \in System : s < formatting => content[s] = Layout[s]

(* A disk that has just been formatted.                                    *)
LEMMA FormattedSound ==
  ASSUME \A s \in System : content'[s] = Layout[s], handle' = [t \in Threads |-> Closed]
  PROVE  DiskSound'
  <1> DEFINE empty == [i \in Entries |-> [inUse |-> FALSE, sector |-> 0, name |-> NoName]]
  <1>1. empty \in Tables /\ Used(empty) = {}
    BY SystemSectors DEF Tables, Used, System
  <1>2. /\ content'[MapData] = FreeMap(System)
        /\ content'[DirData1] = FirstHalf(empty) /\ content'[DirData2] = SecondHalf(empty)
    <2>1. /\ MapData \in System /\ DirData1 \in System /\ DirData2 \in System
          /\ MapData = 2 /\ DirData1 = 3 /\ DirData2 = 4
      BY DEF MapData, DirData1, DirData2, System
    <2> HIDE DEF empty
    <2>2. Layout[MapData] = FreeMap(System)
      BY <2>1 DEF Layout, FreeMapSector, DirectorySector
    <2>3. Layout[DirData1] = FirstHalf(empty)
      BY <2>1 DEF Layout, FreeMapSector, DirectorySector, empty
    <2>4. Layout[DirData2] = SecondHalf(empty)
      BY <2>1 DEF Layout, FreeMapSector, DirectorySector, empty
    <2>5. QED BY <2>1, <2>2, <2>3, <2>4
  <1> HIDE DEF empty
  <1>3. DiskTable' = empty
    BY <1>1, <1>2, TableWritten DEF DiskTable
  <1>4. content'[MapData].bits = System
    BY <1>2 DEF FreeMap
  <1>5. Sound(empty, System, content') /\ HandlesSound(empty, content', handle')
    BY <1>1 DEF Sound, HandlesSound
  <1>6. QED BY <1>3, <1>4, <1>5 DEF DiskSound, SoundFor

(* Nobody is in an operation on a machine that is down.                    *)
LEMMA Down ==
  ASSUME FileInv, ~ up, UNCHANGED <<thread, handle>>
  PROVE  /\ content = [s \in Sectors |-> content[s]] /\ torn \in BOOLEAN
         /\ thread' = [t \in Threads |-> Quiet] /\ handle' = [t \in Threads |-> Closed]
         /\ ~ torn => DiskSound
  <1>1. /\ content = [s \in Sectors |-> content[s]]
        /\ thread = [t \in Threads |-> thread[t]] /\ handle = [t \in Threads |-> handle[t]]
        /\ \A t \in Threads : thread[t] = Quiet /\ handle[t] = Closed
        /\ torn \in BOOLEAN
    BY DEF FileInv
  <1>2. \A t \in Threads : ~ Flushing(t)
    BY <1>1 DEF Flushing, Quiet
  <1>3. ~ torn => DiskSound
    BY <1>2 DEF FileInv
  <1>4. QED BY <1>1, <1>3

(* The machine starts with a sound disk.                                   *)
LEMMA BootStep ==
  ASSUME FileInv, Boot
  PROVE  FileInv'
  <1>1. /\ ~ up /\ ~ torn /\ up' = TRUE /\ torn' = torn
        /\ content' = content /\ UNCHANGED <<thread, handle>>
    BY DEF Boot, diskVars
  <1>2. /\ content' = [s \in Sectors |-> content'[s]] /\ torn \in BOOLEAN /\ DiskSound
        /\ thread' = [t \in Threads |-> Quiet] /\ handle' = [t \in Threads |-> Closed]
    BY <1>1, Down
  <1>3. OnlyData /\ NoneOpened
    BY <1>1, Unchanged
  <1>4. DiskSound'
    BY <1>2, <1>3, DiskKept
  <1>5. QED BY <1>1, <1>2, <1>4, AllQuiet

(* Its disk is going to be formatted.                                      *)
LEMMA StartFormatStep ==
  ASSUME FileInv, StartFormat
  PROVE  FileInv'
  <1>1. /\ ~ up /\ up' = up /\ torn' = TRUE
        /\ content' = content /\ UNCHANGED <<thread, handle>>
    BY DEF StartFormat, diskVars
  <1>2. /\ content' = [s \in Sectors |-> content'[s]] /\ up \in BOOLEAN
        /\ thread' = [t \in Threads |-> Quiet] /\ handle' = [t \in Threads |-> Closed]
    BY <1>1, Down DEF FileInv
  <1>3. QED BY <1>1, <1>2, AllQuiet

(* A sector is formatted; with the last one the disk is sound.             *)
LEMMA FormatSectorStep ==
  ASSUME FileInv, FormatInv, FormatSector
  PROVE  FileInv' /\ FormatInv'
  <1>1. /\ formatting # FormatEnd /\ formatting' = formatting + 1
        /\ content' = [content EXCEPT ![formatting] = Layout[formatting]]
        /\ up' = (formatting' = FormatEnd) /\ torn' = (formatting' # FormatEnd)
        /\ UNCHANGED <<thread, handle>>
    BY DEF FormatSector
  <1>2. /\ ~ up /\ formatting \in System /\ System = 0 .. 4 /\ FormatEnd = 5
        /\ \A s \in System : s < formatting => content[s] = Layout[s]
    BY <1>1 DEF FormatInv, FormatEnd, System
  <1>3. /\ content = [s \in Sectors |-> content[s]]
        /\ thread' = [t \in Threads |-> Quiet] /\ handle' = [t \in Threads |-> Closed]
    BY <1>1, <1>2, Down
  <1>4. content' = [s \in Sectors |-> content'[s]]
    BY <1>1, <1>3
  <1>5. \A s \in System : s < formatting' => content'[s] = Layout[s]
    BY <1>1, <1>2, <1>3, SystemSectors
  <1>6. up' \in BOOLEAN /\ torn' \in BOOLEAN /\ (up' => ~ torn') /\ (~ up' => torn')
    BY <1>1
  <1>7. formatting' \in 0 .. FormatEnd
    BY <1>1, <1>2
  <1>8. ~ torn' => \A s \in System : content'[s] = Layout[s]
    <2>1. ~ torn' => formatting' = FormatEnd
      BY <1>1
    <2>2. \A s \in System : s < FormatEnd
      BY <1>2
    <2>3. QED BY <1>5, <2>1, <2>2
  <1>9. ~ torn' => DiskSound'
    BY <1>3, <1>8, FormattedSound
  <1>10. FileInv'
    BY <1>3, <1>4, <1>6, <1>9, AllQuiet
  <1>11. formatting' # FormatEnd => ~ up' /\ torn'
    BY <1>1
  <1>12. QED BY <1>5, <1>7, <1>10, <1>11 DEF FormatInv

(* The other steps neither format nor take place while somebody does.      *)
LEMMA FormatStep ==
  ASSUME FormatInv, [Next]_vars, ~ FormatSector
  PROVE  FormatInv'
  <1>1. CASE Boot \/ StartFormat \/ Crash
    BY <1>1 DEF Boot, StartFormat, Crash, FormatInv, FormatEnd, System
  <1>2. CASE UNCHANGED <<up, torn, formatting>> /\ (up \/ UNCHANGED content)
    BY <1>2 DEF FormatInv
  <1>3. CASE Interrupted \/ \E t \in Threads : Returned(t)
    BY <1>2, <1>3 DEF Interrupted, RequestDone, Returned, Return
  <1>4. CASE \E t \in Threads :
               \/ Access(t) \/ LookedUp(t) \/ Decide(t) \/ Flushed(t)
               \/ Opened(t) \/ WriteAll(t) \/ Transferred(t)
    BY <1>2, <1>4 DEF Access, LookedUp, Decide, Flushed, Opened, WriteAll, Transferred, diskVars
  <1>5. CASE \E t \in Creators, n \in Names :
               Remove(t, n) \/ \E s \in Sizes : Create(t, n, s)
    BY <1>2, <1>5 DEF Remove, Create, Call
  <1>6. CASE \E t \in Users :
               \/ \E n \in Names : Open(t, n)
               \/ Close(t)
               \/ \E p \in Positions : Seek(t, p)
               \/ \E k \in Requests : Read(t, k) \/ \E v \in Values : Write(t, k, v)
    BY <1>2, <1>6 DEF Open, Call, Close, Seek, Read, Write
  <1>7. CASE UNCHANGED vars
    BY <1>2, <1>7 DEF vars, diskVars
  <1>8. QED BY <1>1, <1>3, <1>4, <1>5, <1>6, <1>7 DEF Next

(* Whenever no Create or Remove is between its two write backs, the disk   *)
(* is sound.                                                               *)
LEMMA NoWindow ==
  ASSUME FileInv, ~ torn, \A t \in Threads : ~ Window(t)
  PROVE  DiskSound
  <1>1. CASE \A t \in Threads : ~ Flushing(t)
    BY <1>1 DEF FileInv
  <1>2. ASSUME NEW t \in Threads, Flushing(t) PROVE DiskSound
    <2> DEFINE todo == thread[t].todo
    <2>1. thread[t].op \in Directing /\ thread[t].step = "flush"
      BY <1>2 DEF Flushing, Directing
    <2>2. CreateWrites(t) \/ RemoveWrites(t)
      <3>1. DirectorySound(t)
        BY <2>1, Operations DEF FileInv
      <3>2. QED BY <2>1, <3>1 DEF DirectorySound, Looks, Opens, Creates, Removes
    <2>3. CASE todo = << >>
      BY <1>2, <2>3, WrittenBack
    <2>4. CASE HasAll(t)
      BY <2>2, <2>4, OldOnDisk DEF CreateWrites, RemoveWrites
    <2>5. ASSUME NEW s1, NEW d1, NEW s2, NEW d2,
                 \/ todo = <<W(s1, d1)>> /\ s1 \in Metadata
                 \/ todo = <<W(s1, d1), W(s2, d2)>> /\ {s1, s2} \subseteq Metadata
                 \/ todo = <<R(DirData2), W(s1, d1), W(s2, d2)>> /\ {s1, s2} \subseteq Metadata
          PROVE  FALSE
      <3>1. ToWrite(t) \in {{s1}, {s1, s2}}
        <4> DEFINE J == {j \in DOMAIN todo : todo[j].writes}
                   A == {todo[i] : i \in J}
        <4>1. /\ W(s1, d1).writes = TRUE /\ W(s1, d1).sector = s1
              /\ W(s2, d2).writes = TRUE /\ W(s2, d2).sector = s2
              /\ R(DirData2).writes = FALSE
          BY DEF W, R
        <4>2. ToWrite(t) = {a.sector : a \in A}
          BY DEF ToWrite
        <4>3. CASE todo = <<W(s1, d1)>>
          <5>1. DOMAIN todo = {1} /\ todo[1] = W(s1, d1)
            BY <4>3
          <5>2. J = {1}
            BY <4>1, <5>1
          <5>3. A = {W(s1, d1)}
            BY <5>1, <5>2
          <5>4. QED BY <4>1, <4>2, <5>3
        <4>4. CASE todo = <<W(s1, d1), W(s2, d2)>>
          <5>1. DOMAIN todo = {1, 2} /\ todo[1] = W(s1, d1) /\ todo[2] = W(s2, d2)
            BY <4>4
          <5>2. J = {1, 2}
            BY <4>1, <5>1
          <5>3. A = {W(s1, d1), W(s2, d2)}
            BY <5>1, <5>2
          <5>4. QED BY <4>1, <4>2, <5>3
        <4>5. CASE todo = <<R(DirData2), W(s1, d1), W(s2, d2)>>
          <5>1. /\ DOMAIN todo = {1, 2, 3} /\ todo[1] = R(DirData2)
                /\ todo[2] = W(s1, d1) /\ todo[3] = W(s2, d2)
            BY <4>5
          <5>2. J = {2, 3}
            BY <4>1, <5>1
          <5>3. A = {W(s1, d1), W(s2, d2)}
            BY <5>1, <5>2
          <5>4. QED BY <4>1, <4>2, <5>3
        <4>6. QED BY <2>5, <4>3, <4>4, <4>5
      <3>2. ToWrite(t) \cap Metadata # {} /\ ToWrite(t) \cap Metadata # Metadata
        BY <2>5, <3>1, MetadataSectors
      <3>3. QED BY <2>1, <3>2 DEF Window
    <2>6. CASE CreateWrites(t)
      <3> DEFINE d2 == SecondHalf(GrownTable(t))
                 m == FreeMap(GrownMap(t))
      <3>1. \/ todo = << >> \/ HasAll(t)
            \/ todo = <<W(DirData2, d2), W(MapData, m)>> \/ todo = <<W(MapData, m)>>
        BY <2>6 DEF CreateWrites
      <3> HIDE DEF d2, m
      <3>2. QED BY <2>3, <2>4, <2>5, <3>1, MetadataSectors
    <2>7. CASE RemoveWrites(t)
      <3> DEFINE d1 == FirstHalf(ShrunkTable(t))
                 d2 == SecondHalf(ShrunkTable(t))
      <3>1. \/ todo = << >> \/ HasAll(t)
            \/ todo = <<R(DirData2), W(DirData1, d1), W(DirData2, d2)>>
            \/ todo = <<W(DirData1, d1), W(DirData2, d2)>> \/ todo = <<W(DirData2, d2)>>
        BY <2>7 DEF RemoveWrites
      <3> HIDE DEF d1, d2
      <3>2. QED BY <2>3, <2>4, <2>5, <3>1, MetadataSectors
    <2>8. QED BY <2>2, <2>6, <2>7
  <1>3. QED BY <1>1, <1>2

(* The machine stops.                                                      *)
LEMMA CrashStep ==
  ASSUME FileInv, Crash
  PROVE  FileInv'
  <1>1. /\ up' = FALSE /\ (torn' <=> torn \/ \E t \in Threads : Window(t)) /\ torn' \in BOOLEAN
        /\ content' = content
        /\ thread' = [t \in Threads |-> Quiet] /\ handle' = [t \in Threads |-> Closed]
    BY DEF Crash
  <1>2. content = [s \in Sectors |-> content[s]]
    BY DEF FileInv
  <1>3. ASSUME ~ torn' PROVE DiskSound'
    <2>1. DiskSound
      BY <1>1, <1>3, NoWindow
    <2>2. OnlyData /\ NoneOpened
      BY <1>1, Unchanged DEF NoneOpened
    <2>3. QED BY <2>1, <2>2, DiskKept
  <1>4. content' = [s \in Sectors |-> content'[s]] /\ up' \in BOOLEAN /\ ~ up'
    BY <1>1, <1>2
  <1>5. QED BY <1>1, <1>3, <1>4, AllQuiet

(* A sound disk is what SpaceExact asks for.                               *)
LEMMA SoundIsExact ==
  ASSUME FileInv
  PROVE  SpaceExact
  <1> DEFINE table == DiskTable
             used == {i \in Entries : table[i].inUse}
             owns == [i \in used |-> Extent(table[i].sector)]
  <1> SUFFICES ASSUME ~ torn, \A t \in Threads : ~ Window(t)
               PROVE  /\ \A i \in used : content[table[i].sector].kind = "header"
                      /\ \A i, j \in used : i # j =>
                           owns[i] \cap owns[j] = {} /\ table[i].name # table[j].name
                      /\ content[MapData].bits = System \cup UNION {owns[i] : i \in used}
    BY DEF SpaceExact
  <1>1. Sound(table, content[MapData].bits, content)
    BY NoWindow DEF DiskSound, SoundFor
  <1> HIDE DEF table
  <1>2. used = Used(table)
    BY DEF Used
  <1>3. \A i \in used : owns[i] = Owned(content, table[i].sector)
    BY DEF Extent, Owned
  <1> HIDE DEF used, owns
  <1>4. {owns[i] : i \in used} = {Owned(content, table[i].sector) : i \in Used(table)}
    BY <1>2, <1>3
  <1>5. QED BY <1>1, <1>2, <1>3, <1>4 DEF Sound, HeaderSound

(* The machine is off and its disk not formatted.                          *)
LEMMA FileInit ==
  ASSUME Init
  PROVE  FileInv
  <1>1. /\ content = [s \in Sectors |-> Blank]
        /\ thread = [t \in Threads |-> Quiet] /\ handle = [t \in Threads |-> Closed]
        /\ up = FALSE /\ torn = TRUE
    BY DEF Init
  <1>2. ASSUME NEW t \in Threads
        PROVE  /\ thread[t] = Quiet /\ handle[t] = Closed
               /\ Fields(t) /\ CallSound(t) /\ thread[t].op \notin Directing
    <2>1. thread[t] = Quiet /\ handle[t] = Closed
      BY <1>1
    <2>2. DOMAIN Quiet = {"op", "step", "todo"} /\ Quiet.op = "none"
      BY DEF Quiet
    <2>3. QED BY <2>1, <2>2 DEF Fields, CallSound, Directing
  <1>3. /\ content = [s \in Sectors |-> content[s]]
        /\ thread = [t \in Threads |-> thread[t]] /\ handle = [t \in Threads |-> handle[t]]
    BY <1>1
  <1>4. QED BY <1>1, <1>2, <1>3 DEF FileInv

(* Every step preserves the invariant.                                     *)
LEMMA FileStep ==
  ASSUME FileInv, FormatInv, [Next]_vars
  PROVE  FileInv'
  <1>1. CASE UNCHANGED vars
    BY <1>1, FilesKept DEF vars, diskVars
  <1>2. CASE Boot \/ StartFormat \/ FormatSector
    BY <1>2, BootStep, StartFormatStep, FormatSectorStep
  <1>3. CASE Crash
    BY <1>3, CrashStep
  <1>4. CASE Interrupted
    BY <1>4, FilesKept DEF Interrupted, RequestDone
  <1>5. ASSUME NEW t \in Threads, Returned(t) PROVE FileInv'
    BY <1>5, FilesKept DEF Returned, Return
  <1>6. ASSUME NEW t \in Threads,
               \/ Access(t) \/ LookedUp(t) \/ Decide(t) \/ Flushed(t) \/ Opened(t)
               \/ WriteAll(t) \/ Transferred(t)
        PROVE  FileInv'
    BY <1>6, AccessStep, LookedUpStep, DecideStep, FlushedStep, OpenedStep, WriteAllStep,
       TransferredStep
  <1>7. Creators \subseteq Threads /\ Users \subseteq Threads /\ Sizes \subseteq Nat
        /\ {"create", "open", "remove"} \subseteq Directing
    BY FileConstants DEF Directing
  <1>8. ASSUME NEW t \in Creators, NEW n \in Names, Remove(t, n) PROVE FileInv'
    BY <1>7, <1>8, CallStep DEF Remove
  <1>9. ASSUME NEW t \in Creators, NEW n \in Names, NEW s \in Sizes, Create(t, n, s)
        PROVE  FileInv'
    BY <1>7, <1>9, CallStep DEF Create
  <1>10. ASSUME NEW t \in Users, NEW n \in Names, Open(t, n) PROVE FileInv'
    BY <1>7, <1>10, CallStep DEF Open
  <1>11. ASSUME NEW t \in Users, Close(t) PROVE FileInv'
    BY <1>7, <1>11, CloseStep
  <1>12. ASSUME NEW t \in Users, NEW p \in Positions, Seek(t, p) PROVE FileInv'
    BY <1>7, <1>12, SeekStep
  <1>13. ASSUME NEW t \in Users, NEW k \in Requests, Read(t, k) PROVE FileInv'
    BY <1>7, <1>13, ReadStep
  <1>14. ASSUME NEW t \in Users, NEW k \in Requests, NEW v \in Values, Write(t, k, v)
         PROVE  FileInv'
    BY <1>7, <1>14, WriteStep
  <1>15. QED
    BY <1>1, <1>2, <1>3, <1>4, <1>5, <1>6, <1>8, <1>9, <1>10, <1>11, <1>12, <1>13, <1>14
       DEF Next

(* Whenever no Create or Remove is between its two write backs, and so at  *)
(* every other moment at which the machine may stop, map and directory     *)
(* agree: for any disk, directory, files and threads, and any interleaving *)
(* of their sector accesses with crashes and restarts.                     *)
THEOREM FilesSpaceExact == Spec => []SpaceExact
  <1>1. Init => FileInv /\ FormatInv
    <2>1. Init => formatting = FormatEnd
      BY DEF Init
    <2>2. FormatEnd \in 0 .. FormatEnd
      BY DEF FormatEnd
    <2>3. QED BY FileInit, <2>1, <2>2 DEF FormatInv
  <1>2. FileInv /\ FormatInv /\ [Next]_vars => FileInv' /\ FormatInv'
    BY FileStep, FormatStep, FormatSectorStep
  <1>3. FileInv => SpaceExact
    BY SoundIsExact
  <1>4. QED BY <1>1, <1>2, <1>3, PTL DEF Spec

-----------------------------------------------------------------------------
(* The post office                                                         *)

Bodies == {"Hello there!", "Got it!"} \cup {<<"chat", k>> : k \in Nat}

Packets == [from : Machines, to : Machines, box : Boxes, reply : Boxes, body : Bodies]

MailTypes ==
  /\ wire \in [Machines -> Seq(Packets)]
  /\ inbox \in [Machines -> Seq(Packets)]
  /\ posted \in [Machines -> Seq(Packets)]
  /\ sendLock \in [Machines -> {"free", "main", "chat"}]
  /\ available \in [Machines -> Nat]
  /\ worker \in [Machines -> [at : {"waiting", "woken", "carrying"}, mail : Seq(Packets)]]
  /\ boxes \in [Machines -> [Boxes -> Seq(Packets)]]
  /\ taken \in [Machines -> [Boxes -> Seq(Packets)]]
  /\ pc \in [Machines -> {"hello", "await", "ack", "awaitAck", "halt", "halted"}]
  /\ chats \in [Machines -> Nat]

(* The loop of ForBox runs, so that the function it defines exists.        *)
LEMMA ForBoxRuns ==
  ASSUME NEW S, NEW s \in Seq(S), NEW b
  PROVE  /\ ForBox(s, b) \in [0..Len(s) -> Seq(S)]
         /\ ForBox(s, b)[0] = << >>
         /\ \A n \in 1..Len(s) :
              ForBox(s, b)[n] = IF s[n].box = b
                                THEN Append(ForBox(s, b)[n - 1], s[n])
                                ELSE ForBox(s, b)[n - 1]
  <1> DEFINE N == Len(s)
             Turn(n, r) == IF s[n].box = b THEN Append(r, s[n]) ELSE r
             Loop(f) == [n \in 0..N |-> IF n = 0 THEN << >> ELSE Turn(n, f[n - 1])]
             mail == CHOOSE f : f = Loop(f)
             turn == [x \in (1..N) \X Seq(S) |-> Turn(x[1], x[2])]
  <1>1. N \in Nat
    OBVIOUS
  <1>2. ASSUME NEW n \in 1..N, NEW r \in Seq(S) PROVE Turn(n, r) \in Seq(S)
    OBVIOUS
  <1>3. turn \in [(1..N) \X Seq(S) -> Seq(S)]
    BY <1>2
  <1>4. << >> \in Seq(S)
    OBVIOUS
  <1>5. PICK g \in [0..N -> Seq(S)] :
          \A n \in 0..N : g[n] = IF n = 0 THEN << >> ELSE turn[<<n, g[n - 1]>>]
    <2> HIDE DEF N, turn
    <2>1. HasRun(N, Seq(S), << >>, turn)
      BY <1>1, <1>3, <1>4, Iteration
    <2>2. QED BY <2>1 DEF HasRun
  <1> HIDE DEF N
  <1>6. g = Loop(g)
    <2>1. ASSUME NEW n \in 0..N, n # 0
          PROVE  turn[<<n, g[n - 1]>>] = Turn(n, g[n - 1])
      <3>1. n \in 1..N /\ n - 1 \in 0..N
        BY <1>1, <2>1
      <3>2. g[n - 1] \in Seq(S)
        BY <3>1
      <3>3. QED BY <3>1, <3>2
    <2> HIDE DEF turn
    <2>2. \A n \in 0..N : g[n] = Loop(g)[n]
      BY <1>5, <2>1
    <2>3. QED BY <2>2
  <1>7. ForBox(s, b) = mail
    BY DEF ForBox, N
  <1>8. mail = Loop(mail)
    <2> HIDE DEF Loop
    <2>1. QED BY <1>6
  <1> HIDE DEF mail, turn
  <1>9. /\ mail[0] = << >>
        /\ \A n \in 1..N : n \in 0..N /\ n - 1 \in 0..N /\ mail[n] = Turn(n, mail[n - 1])
    <2>1. 0 \in 0..N /\ \A n \in 1..N : n \in 0..N /\ n - 1 \in 0..N /\ n # 0
      BY <1>1
    <2> HIDE DEF Turn
    <2>2. \A n \in 0..N : mail[n] = IF n = 0 THEN << >> ELSE Turn(n, mail[n - 1])
      BY <1>8
    <2>3. QED BY <2>1, <2>2
  <1>10. \A n \in 0..N : mail[n] \in Seq(S)
    <2> DEFINE Good == {n \in 0..N : mail[n] \in Seq(S)}
    <2>1. 0 \in Good
      <3>1. 0 \in 0..N
        BY <1>1
      <3>2. mail[0] \in Seq(S)
        BY <1>4, <1>9
      <3>3. QED BY <3>1, <3>2
    <2>2. ASSUME NEW n \in 1..N, n - 1 \in Good PROVE n \in Good
      <3> HIDE DEF Turn
      <3>1. QED BY <1>2, <1>9, <2>2
    <2> HIDE DEF Good
    <2>3. 0..N \subseteq Good
      BY <1>1, <2>1, <2>2, LoopInvariant
    <2>4. QED BY <2>3 DEF Good
  <1>11. mail \in [0..N -> Seq(S)]
    <2>1. mail = [n \in 0..N |-> mail[n]]
      BY <1>8
    <2>2. QED BY <1>10, <2>1
  <1>12. QED BY <1>7, <1>9, <1>11 DEF N

(* A packet put on the wire changes nothing for those before it.           *)
LEMMA ForBoxPrefix ==
  ASSUME NEW S, NEW s \in Seq(S), NEW x \in S, NEW b
  PROVE  \A n \in 0..Len(s) : ForBox(Append(s, x), b)[n] = ForBox(s, b)[n]
  <1> DEFINE l == Append(s, x)
             N == Len(s)
             f == ForBox(s, b)
             g == ForBox(l, b)
             Good == {n \in 0..N : g[n] = f[n]}
  <1>1. /\ l \in Seq(S) /\ N \in Nat /\ Len(l) = N + 1
        /\ \A n \in 1..N : l[n] = s[n]
    OBVIOUS
  <1>2. /\ f[0] = << >>
        /\ \A n \in 1..N : f[n] = IF s[n].box = b THEN Append(f[n - 1], s[n]) ELSE f[n - 1]
    BY ForBoxRuns
  <1>3. /\ g[0] = << >>
        /\ \A n \in 1..Len(l) :
             g[n] = IF l[n].box = b THEN Append(g[n - 1], l[n]) ELSE g[n - 1]
    <2> HIDE DEF l
    <2>1. QED BY <1>1, ForBoxRuns
  <1> HIDE DEF l, N, f, g
  <1>4. 0 \in Good
    <2>1. 0 \in 0..N
      BY <1>1
    <2>2. QED BY <1>2, <1>3, <2>1
  <1>5. ASSUME NEW n \in 1..N, n - 1 \in Good PROVE n \in Good
    <2>1. n \in 1..Len(l) /\ n \in 0..N
      BY <1>1
    <2>2. g[n - 1] = f[n - 1] /\ l[n] = s[n]
      BY <1>1, <1>5
    <2>3. g[n] = f[n]
      BY <1>2, <1>3, <2>1, <2>2
    <2>4. QED BY <2>1, <2>3
  <1> HIDE DEF Good
  <1>6. 0..N \subseteq Good
    BY <1>1, <1>4, <1>5, LoopInvariant
  <1>7. QED BY <1>6 DEF Good, l, N, f, g

(* What is sorted into a mailbox are packets for it that were on the wire. *)
LEMMA ForBoxHolds ==
  ASSUME NEW S, NEW s \in Seq(S), NEW b, NEW n \in 0..Len(s),
         NEW i \in 1..Len(ForBox(s, b)[n])
  PROVE  \E j \in 1..Len(s) : s[j].box = b /\ ForBox(s, b)[n][i] = s[j]
  <1> DEFINE N == Len(s)
             f == ForBox(s, b)
             From(r) == \A k \in 1..Len(r) :
                          \E j \in 1..N : s[j].box = b /\ r[k] = s[j]
             Good == {m \in 0..N : From(f[m])}
  <1>1. /\ N \in Nat /\ f \in [0..N -> Seq(S)] /\ f[0] = << >>
        /\ \A m \in 1..N : f[m] = IF s[m].box = b THEN Append(f[m - 1], s[m]) ELSE f[m - 1]
    BY ForBoxRuns
  <1>a. \A m \in 1..N : s[m] \in S
    OBVIOUS
  <1> HIDE DEF N, f
  <1>2. 0 \in Good
    <2>1. 0 \in 0..N
      BY <1>1
    <2>2. QED BY <1>1, <2>1
  <1>3. ASSUME NEW m \in 1..N, m - 1 \in Good PROVE m \in Good
    <2>1. m \in 0..N /\ From(f[m - 1]) /\ f[m - 1] \in Seq(S)
      BY <1>1, <1>3
    <2>2. CASE s[m].box = b
      <3>1. f[m] = Append(f[m - 1], s[m])
        BY <1>1, <2>2
      <3>2. ASSUME NEW k \in 1..Len(f[m])
            PROVE  \E j \in 1..N : s[j].box = b /\ f[m][k] = s[j]
        <4>1. CASE k \in 1..Len(f[m - 1])
          <5>1. f[m][k] = f[m - 1][k]
            BY <1>a, <2>1, <3>1, <4>1
          <5>2. QED BY <2>1, <4>1, <5>1
        <4>2. CASE k = Len(f[m - 1]) + 1
          <5>1. f[m][k] = s[m]
            BY <1>a, <2>1, <3>1, <4>2
          <5>2. QED BY <2>2, <5>1
        <4>3. k \in 1..(Len(f[m - 1]) + 1) /\ Len(f[m - 1]) \in Nat
          BY <1>a, <2>1, <3>1, <3>2
        <4>4. k \in 1..Len(f[m - 1]) \/ k = Len(f[m - 1]) + 1
          BY <4>3
        <4>5. QED BY <4>1, <4>2, <4>4
      <3>3. From(f[m])
        BY <3>2
      <3> HIDE DEF From
      <3>4. QED BY <2>1, <3>3
    <2>3. CASE s[m].box # b
      <3>1. f[m] = f[m - 1]
        BY <1>1, <2>3
      <3> HIDE DEF From
      <3>2. QED BY <2>1, <3>1
    <2>4. QED BY <2>2, <2>3
  <1> HIDE DEF Good
  <1>4. 0..N \subseteq Good
    BY <1>1, <1>2, <1>3, LoopInvariant
  <1>5. From(f[n])
    BY <1>4 DEF Good, N
  <1>6. QED BY <1>5 DEF f, N

(* DeliveredInOrder for one machine, of the packets that come, those put   *)
(* on the wire, those taken and those in the mailboxes.                    *)
InOrder(coming, wired, got, held) ==
  /\ Len(coming) <= Len(wired)
  /\ \A i \in 1..Len(coming) : coming[i] = wired[Len(wired) - Len(coming) + i]
  /\ \A b \in Boxes : got[b] \o held[b] = ForBox(wired, b)[Len(wired) - Len(coming)]

(* A packet put on the wire comes last.                                    *)
LEMMA InOrderPosted ==
  ASSUME NEW S, NEW coming \in Seq(S), NEW wired \in Seq(S), NEW x \in S,
         NEW got, NEW held, InOrder(coming, wired, got, held)
  PROVE  InOrder(Append(coming, x), Append(wired, x), got, held)
  <1> DEFINE c == Append(coming, x)
             w == Append(wired, x)
             k == Len(wired) - Len(coming)
  <1>1. /\ Len(c) = Len(coming) + 1 /\ Len(w) = Len(wired) + 1
        /\ Len(coming) \in Nat /\ Len(wired) \in Nat /\ Len(coming) <= Len(wired)
        /\ \A i \in 1..Len(coming) : c[i] = coming[i]
        /\ c[Len(coming) + 1] = x
        /\ \A i \in 1..Len(wired) : w[i] = wired[i]
        /\ w[Len(wired) + 1] = x
    BY DEF InOrder
  <1>2. k \in 0..Len(wired) /\ Len(w) - Len(c) = k
    BY <1>1
  <1>3. ASSUME NEW b \in Boxes PROVE got[b] \o held[b] = ForBox(w, b)[k]
    <2>1. got[b] \o held[b] = ForBox(wired, b)[k]
      BY DEF InOrder
    <2> HIDE DEF k
    <2>2. ForBox(w, b)[k] = ForBox(wired, b)[k]
      BY <1>2, ForBoxPrefix
    <2>3. QED BY <2>1, <2>2
  <1>4. ASSUME NEW i \in 1..Len(c) PROVE c[i] = w[k + i]
    <2>1. CASE i \in 1..Len(coming)
      <3>1. k + i \in 1..Len(wired)
        BY <1>1, <2>1
      <3>2. coming[i] = wired[k + i]
        BY <2>1 DEF InOrder
      <3>3. QED BY <1>1, <2>1, <3>1, <3>2
    <2>2. CASE i = Len(coming) + 1
      BY <1>1, <2>2
    <2>3. QED BY <1>1, <2>1, <2>2
  <1>5. Len(c) <= Len(w)
    BY <1>1
  <1> HIDE DEF c, w, k
  <1>6. InOrder(c, w, got, held)
    BY <1>2, <1>3, <1>4, <1>5 DEF InOrder
  <1>7. QED BY <1>6 DEF c, w

(* The first packet that comes goes to the end of its mailbox.             *)
LEMMA InOrderPut ==
  ASSUME NEW S, NEW coming \in Seq(S), NEW wired \in Seq(S), coming # << >>,
         NEW got \in [Boxes -> Seq(S)], NEW held \in [Boxes -> Seq(S)],
         Head(coming).box \in Boxes, InOrder(coming, wired, got, held)
  PROVE  InOrder(Tail(coming), wired, got,
                 [held EXCEPT ![Head(coming).box] = Append(@, Head(coming))])
  <1> DEFINE x == Head(coming)
             h == [held EXCEPT ![x.box] = Append(@, x)]
             c == Tail(coming)
             k == Len(wired) - Len(coming)
  <1>1. /\ Len(coming) \in Nat \ {0} /\ Len(wired) \in Nat /\ Len(coming) <= Len(wired)
        /\ Len(c) = Len(coming) - 1 /\ x = coming[1] /\ x \in S
        /\ \A i \in 1..Len(c) : c[i] = coming[i + 1]
    BY DEF InOrder
  <1>2. k + 1 \in 1..Len(wired) /\ Len(wired) - Len(c) = k + 1 /\ (k + 1) - 1 = k
    BY <1>1
  <1>3. wired[k + 1] = x
    BY <1>1 DEF InOrder
  <1>4. \A i \in 1..Len(c) : c[i] = wired[k + 1 + i]
    <2> SUFFICES ASSUME NEW i \in 1..Len(c) PROVE c[i] = wired[k + 1 + i]
      OBVIOUS
    <2>1. i + 1 \in 1..Len(coming) /\ k + (i + 1) = k + 1 + i
      BY <1>1
    <2>2. QED BY <1>1, <2>1 DEF InOrder
  <1>5. ASSUME NEW b \in Boxes PROVE got[b] \o h[b] = ForBox(wired, b)[k + 1]
    <2>0. /\ got[b] \o held[b] = ForBox(wired, b)[k]
          /\ got[b] \in Seq(S) /\ held[b] \in Seq(S)
      BY DEF InOrder
    <2>1. ForBox(wired, b)[k + 1] = IF wired[k + 1].box = b
                                    THEN Append(ForBox(wired, b)[k], wired[k + 1])
                                    ELSE ForBox(wired, b)[k]
      <3> HIDE DEF k
      <3>1. PICK n \in 1..Len(wired) : n = k + 1
        BY <1>2
      <3>2. n - 1 = k
        BY <1>2, <3>1
      <3>3. ForBox(wired, b)[n] = IF wired[n].box = b
                                  THEN Append(ForBox(wired, b)[n - 1], wired[n])
                                  ELSE ForBox(wired, b)[n - 1]
        BY ForBoxRuns
      <3>4. QED BY <3>1, <3>2, <3>3
    <2>2. CASE x.box = b
      <3>1. h[b] = Append(held[b], x)
        BY <2>2
      <3>2. got[b] \o Append(held[b], x) = Append(got[b] \o held[b], x)
        <4>1. \A y \in S : got[b] \o Append(held[b], y) = Append(got[b] \o held[b], y)
          <5>1. ASSUME NEW y \in S, NEW u \in Seq(S), NEW v \in Seq(S)
                PROVE  u \o Append(v, y) = Append(u \o v, y)
            BY ConcatAppend, SMTT(10)
          <5>2. QED BY <2>0, <5>1, Zenon
        <4>2. x \in S
          BY <1>1
        <4> HIDE DEF x
        <4>3. QED BY <4>1, <4>2
      <3> HIDE DEF x, h, k
      <3>3. QED BY <1>3, <2>0, <2>1, <2>2, <3>1, <3>2
    <2>3. CASE x.box # b
      <3>1. h[b] = held[b]
        BY <2>3
      <3>2. QED BY <1>3, <2>0, <2>1, <2>3, <3>1
    <2>4. QED BY <2>2, <2>3
  <1> HIDE DEF h, c
  <1>6. InOrder(c, wired, got, h)
    BY <1>1, <1>2, <1>4, <1>5 DEF InOrder
  <1>7. QED BY <1>6 DEF h, c

(* Taking the first message of a mailbox.                                  *)
LEMMA InOrderTaken ==
  ASSUME NEW S, NEW coming, NEW wired, NEW b \in Boxes,
         NEW got \in [Boxes -> Seq(S)], NEW held \in [Boxes -> Seq(S)],
         held[b] # << >>, InOrder(coming, wired, got, held)
  PROVE  InOrder(coming, wired, [got EXCEPT ![b] = Append(@, Head(held[b]))],
                 [held EXCEPT ![b] = Tail(@)])
  <1> DEFINE g == [got EXCEPT ![b] = Append(@, Head(held[b]))]
             h == [held EXCEPT ![b] = Tail(@)]
  <1>1. ASSUME NEW d \in Boxes PROVE g[d] \o h[d] = got[d] \o held[d]
    <2>1. CASE d = b
      <3>1. g[b] = Append(got[b], Head(held[b])) /\ h[b] = Tail(held[b])
        OBVIOUS
      <3>2. QED BY <2>1, <3>1, MoveHead
    <2>2. CASE d # b
      BY <2>2
    <2>3. QED BY <2>1, <2>2
  <1> HIDE DEF g, h
  <1>2. InOrder(coming, wired, g, h)
    BY <1>1 DEF InOrder
  <1>3. QED BY <1>2 DEF g, h

(* The one-packet buffer: messageAvailable and the woken worker between    *)
(* them account for the packet in it, so that it is full exactly when the  *)
(* worker is to come for it.                                               *)
BufferSound(m) ==
  /\ Len(worker[m].mail) = IF worker[m].at = "carrying" THEN 1 ELSE 0
  /\ Len(inbox[m]) <= 1
  /\ Len(inbox[m]) = available[m] + IF worker[m].at = "woken" THEN 1 ELSE 0

(* The main thread of m has handed its acknowledgement to the network.     *)
AckSent(m) ==
  \/ pc[m] \in {"awaitAck", "halt", "halted"}
  \/ pc[m] = "ack" /\ sendLock[m] = "main"

(* What a thread of m holds and has received agrees with where the main    *)
(* thread is in MailTest.                                                  *)
PlaceSound(m) ==
  /\ sendLock[m] = "main" => pc[m] \in {"hello", "ack"}
  /\ pc[m] \in {"ack", "awaitAck", "halt", "halted"} => taken[m][0] # << >>
  /\ pc[m] \in {"halt", "halted"} => taken[m][1] # << >>

(* What is put on the wire to m tells where its peer is in MailTest.       *)
HeardSound(m) ==
  \A i \in 1..Len(posted[m]) :
    /\ posted[m][i].box = 0 => posted[m][i].from = Peer(m) /\ posted[m][i].reply = 1
    /\ posted[m][i].box = 1 => AckSent(Peer(m))

TestSound(m) == PlaceSound(m) /\ HeardSound(m)

(* What the network and the post office see to.                            *)
Delivery ==
  /\ MailTypes
  /\ \A m \in Machines :
       BufferSound(m) /\ InOrder(Coming(m), posted[m], taken[m], boxes[m])

(* The inductive invariant of the post office.                             *)
MailInv == Delivery /\ \A m \in Machines : TestSound(m)

(* The two machines are each other's peers.                                *)
LEMMA Peers ==
  ASSUME NEW m \in Machines
  PROVE  /\ Peer(m) \in Machines /\ Peer(m) # m /\ Peer(Peer(m)) = m
         /\ \A q \in Machines : q = m \/ q = Peer(m)
  <1>1. ASSUME NEW q \in Machines
        PROVE  Peer(q) \in Machines /\ Peer(q) # q
    BY <1>1, PostConstants DEF Peer
  <1>2. PICK p \in Machines : Machines = {m, p} /\ p # m
    BY PostConstants
  <1>3. QED BY <1>1, <1>2

(* What the threads send are packets.                                      *)
LEMMA PacketTypes ==
  ASSUME NEW m \in Machines
  PROVE  /\ Packet(m, Peer(m), 0, 1, "Hello there!") \in Packets
         /\ Packet(m, Peer(m), 1, 1, "Got it!") \in Packets
         /\ \A k \in Nat : Packet(m, m, 2, 2, <<"chat", k>>) \in Packets
  <1>1. "Hello there!" \in Bodies /\ "Got it!" \in Bodies
    BY Zenon DEF Bodies
  <1>2. \A k \in Nat : <<"chat", k>> \in Bodies
    BY Zenon DEF Bodies
  <1>3. Peer(m) \in Machines /\ 0 \in Boxes /\ 1 \in Boxes /\ 2 \in Boxes
    BY Peers DEF Boxes
  <1>4. \A to \in Machines, b, r \in Boxes, x \in Bodies : Packet(m, to, b, r, x) \in Packets
    BY DEF Packet, Packets
  <1>5. QED BY <1>1, <1>2, <1>3, <1>4

(* What has been taken from a mailbox was on the wire for it.              *)
LEMMA TakenWasPosted ==
  ASSUME MailInv, NEW m \in Machines, NEW b \in Boxes, taken[m][b] # << >>
  PROVE  \E j \in 1..Len(posted[m]) : posted[m][j].box = b /\ taken[m][b][1] = posted[m][j]
  <1> DEFINE n == Len(posted[m]) - Len(Coming(m))
             r == ForBox(posted[m], b)[n]
  <1>1. /\ posted[m] \in Seq(Packets) /\ Coming(m) \in Seq(Packets)
        /\ taken[m][b] \in Seq(Packets) /\ boxes[m][b] \in Seq(Packets)
    BY DEF MailInv, Delivery, MailTypes, Coming
  <1>2. InOrder(Coming(m), posted[m], taken[m], boxes[m])
    BY DEF MailInv, Delivery
  <1>3. n \in 0..Len(posted[m])
    <2>1. Len(posted[m]) \in Nat /\ Len(Coming(m)) \in Nat
      BY <1>1
    <2>2. Len(Coming(m)) <= Len(posted[m])
      BY <1>2 DEF InOrder
    <2>3. QED BY <2>1, <2>2
  <1>4. taken[m][b] \o boxes[m][b] = r
    BY <1>2 DEF InOrder
  <1> HIDE DEF n
  <1>5. \A s, t \in Seq(Packets) : s # << >> => 1 \in 1..Len(s \o t) /\ (s \o t)[1] = s[1]
    OBVIOUS
  <1>6. 1 \in 1..Len(r) /\ r[1] = taken[m][b][1]
    BY <1>1, <1>4, <1>5, Zenon
  <1> HIDE DEF r
  <1>7. \E j \in 1..Len(posted[m]) : posted[m][j].box = b /\ r[1] = posted[m][j]
    <2>1. ASSUME NEW s \in Seq(Packets), NEW k \in 0..Len(s),
                 NEW i \in 1..Len(ForBox(s, b)[k])
          PROVE  \E j \in 1..Len(s) : s[j].box = b /\ ForBox(s, b)[k][i] = s[j]
      BY ForBoxHolds
    <2>2. 1 \in 1..Len(ForBox(posted[m], b)[n])
      BY <1>6 DEF r
    <2>3. \E j \in 1..Len(posted[m]) :
             posted[m][j].box = b /\ ForBox(posted[m], b)[n][1] = posted[m][j]
      BY <1>1, <1>3, <2>1, <2>2, Zenon
    <2>4. QED BY <2>3 DEF r
  <1>8. QED BY <1>6, <1>7

(* The parts of a machine's state, with their types.                       *)
LEMMA MachineTypes ==
  ASSUME MailTypes, NEW m \in Machines
  PROVE  /\ wire[m] \in Seq(Packets) /\ inbox[m] \in Seq(Packets)
         /\ posted[m] \in Seq(Packets) /\ worker[m].mail \in Seq(Packets)
         /\ Coming(m) \in Seq(Packets) /\ available[m] \in Nat
         /\ taken[m] \in [Boxes -> Seq(Packets)] /\ boxes[m] \in [Boxes -> Seq(Packets)]
  BY DEF MailTypes, Coming

(* A machine that a step leaves alone.                                     *)
LEMMA MachineLeftAlone ==
  ASSUME NEW m \in Machines, Delivery,
         worker'[m] = worker[m], inbox'[m] = inbox[m], wire'[m] = wire[m],
         posted'[m] = posted[m], available'[m] = available[m],
         taken'[m] = taken[m], boxes'[m] = boxes[m]
  PROVE  BufferSound(m)' /\ InOrder(Coming(m)', posted'[m], taken'[m], boxes'[m])
  <1>1. Coming(m)' = Coming(m)
    BY DEF Coming
  <1>2. BufferSound(m) /\ InOrder(Coming(m), posted[m], taken[m], boxes[m])
    BY DEF Delivery
  <1>3. InOrder(Coming(m)', posted'[m], taken'[m], boxes'[m])
    BY <1>1, <1>2
  <1>4. QED BY <1>2, <1>3 DEF BufferSound

(* Network::Send, by either thread of a machine.                           *)
LEMMA SendDelivery ==
  ASSUME Delivery, NEW m \in Machines, NEW th \in {"main", "chat"}, NEW pkt \in Packets,
         Send(m, th, pkt), UNCHANGED <<pc, chats>>
  PROVE  Delivery'
  <1>1. /\ MailTypes /\ pkt.to \in Machines
        /\ sendLock' = [sendLock EXCEPT ![m] = th]
        /\ UNCHANGED <<inbox, available, worker, boxes, taken, pc, chats>>
    BY DEF Delivery, Send, Packets
  <1>2. CASE /\ wire' = [wire EXCEPT ![pkt.to] = Append(@, pkt)]
             /\ posted' = [posted EXCEPT ![pkt.to] = Append(@, pkt)]
    <2> DEFINE q == pkt.to
    <2>1. /\ wire'[q] = Append(wire[q], pkt) /\ posted'[q] = Append(posted[q], pkt)
          /\ \A k \in Machines : k # q => wire'[k] = wire[k] /\ posted'[k] = posted[k]
          /\ wire' \in [Machines -> Seq(Packets)] /\ posted' \in [Machines -> Seq(Packets)]
      <3>1. wire \in [Machines -> Seq(Packets)] /\ posted \in [Machines -> Seq(Packets)]
        BY <1>1 DEF MailTypes
      <3>2. Append(wire[q], pkt) \in Seq(Packets) /\ Append(posted[q], pkt) \in Seq(Packets)
        BY <1>1, <3>1
      <3>3. QED BY <1>1, <1>2, <3>1, <3>2
    <2>2. MailTypes'
      BY <1>1, <2>1 DEF MailTypes
    <2> HIDE DEF q
    <2>3. Coming(q)' = Append(Coming(q), pkt)
      <3>1. /\ worker[q].mail \o inbox[q] \in Seq(Packets) /\ wire[q] \in Seq(Packets)
        BY <1>1, MachineTypes DEF q
      <3>2. \A u, v \in Seq(Packets) : u \o Append(v, pkt) = Append(u \o v, pkt)
        BY ConcatAppend, SMTT(10)
      <3>3. Coming(q)' = (worker[q].mail \o inbox[q]) \o Append(wire[q], pkt)
        BY <1>1, <2>1 DEF Coming
      <3>4. QED BY <3>1, <3>2, <3>3, Zenon DEF Coming
    <2>4. BufferSound(q)' /\ InOrder(Coming(q)', posted'[q], taken'[q], boxes'[q])
      <3>1. BufferSound(q) /\ InOrder(Coming(q), posted[q], taken[q], boxes[q])
        BY <1>1 DEF Delivery, q
      <3>2. Coming(q) \in Seq(Packets) /\ posted[q] \in Seq(Packets)
        BY <1>1, MachineTypes DEF q
      <3>3. InOrder(Append(Coming(q), pkt), Append(posted[q], pkt), taken[q], boxes[q])
        BY <3>1, <3>2, InOrderPosted
      <3>4. InOrder(Coming(q)', posted'[q], taken'[q], boxes'[q])
        BY <1>1, <2>1, <2>3, <3>3
      <3>5. QED BY <1>1, <3>1, <3>4 DEF BufferSound
    <2>5. ASSUME NEW k \in Machines, k # q
          PROVE  BufferSound(k)' /\ InOrder(Coming(k)', posted'[k], taken'[k], boxes'[k])
      BY <1>1, <2>1, <2>5, MachineLeftAlone
    <2>6. QED BY <2>2, <2>4, <2>5 DEF Delivery
  <1>3. CASE UNCHANGED <<wire, posted>>
    <2>1. MailTypes'
      BY <1>1, <1>3 DEF MailTypes
    <2>2. QED BY <1>1, <1>3, <2>1, MachineLeftAlone DEF Delivery
  <1>4. QED BY <1>2, <1>3 DEF Send, Transmit

(* The steps that move no packet: SendDone, SendReturns, and the steps of  *)
(* the main thread that only change where it is.                           *)
LEMMA QuietDelivery ==
  ASSUME Delivery,
         UNCHANGED <<wire, inbox, available, worker, boxes, taken, posted>>,
         sendLock' \in [Machines -> {"free", "main", "chat"}],
         pc' \in [Machines -> {"hello", "await", "ack", "awaitAck", "halt", "halted"}],
         chats' \in [Machines -> Nat]
  PROVE  Delivery'
  <1>1. MailTypes'
    BY DEF Delivery, MailTypes
  <1>2. QED BY <1>1, MachineLeftAlone DEF Delivery

(* Network::CheckPktAvail fills the empty buffer.                          *)
LEMMA ArrivalDelivery ==
  ASSUME Delivery, NEW m \in Machines, CheckPktAvail(m)
  PROVE  Delivery'
  <1>1. /\ MailTypes /\ inbox[m] = << >> /\ wire[m] # << >>
        /\ inbox' = [inbox EXCEPT ![m] = <<Head(wire[m])>>]
        /\ wire' = [wire EXCEPT ![m] = Tail(@)]
        /\ available' = [available EXCEPT ![m] = @ + 1]
        /\ UNCHANGED <<worker, boxes, taken, posted, sendLock, pc, chats>>
    BY DEF Delivery, CheckPktAvail, IncomingPacket
  <1>2. /\ wire \in [Machines -> Seq(Packets)] /\ inbox \in [Machines -> Seq(Packets)]
        /\ available \in [Machines -> Nat] /\ worker[m].mail \in Seq(Packets)
    BY <1>1, MachineTypes DEF MailTypes
  <1>3. /\ Head(wire[m]) \in Packets /\ Tail(wire[m]) \in Seq(Packets)
        /\ <<Head(wire[m])>> \in Seq(Packets)
    BY <1>1, <1>2
  <1>4. /\ inbox'[m] = <<Head(wire[m])>> /\ wire'[m] = Tail(wire[m])
        /\ available'[m] = available[m] + 1
        /\ \A k \in Machines : k # m => /\ inbox'[k] = inbox[k] /\ wire'[k] = wire[k]
                                        /\ available'[k] = available[k]
        /\ wire' \in [Machines -> Seq(Packets)] /\ inbox' \in [Machines -> Seq(Packets)]
        /\ available' \in [Machines -> Nat]
    BY <1>1, <1>2, <1>3
  <1>5. MailTypes'
    BY <1>1, <1>4 DEF MailTypes
  <1>6. Coming(m)' = Coming(m)
    <2>1. \A u, v \in Seq(Packets) :
             v # << >> => (u \o <<Head(v)>>) \o Tail(v) = (u \o << >>) \o v
      <3>1. ASSUME NEW u \in Seq(Packets), NEW v \in Seq(Packets), v # << >>
            PROVE  (u \o <<Head(v)>>) \o Tail(v) = (u \o << >>) \o v
        <4>1. <<Head(v)>> \in Seq(Packets) /\ Tail(v) \in Seq(Packets)
              /\ <<Head(v)>> \o Tail(v) = v
          BY <3>1, HeadThenTail
        <4>2. (u \o <<Head(v)>>) \o Tail(v) = u \o (<<Head(v)>> \o Tail(v))
          BY <4>1, ConcatAssociative
        <4>3. u \o << >> = u
          BY ConcatEmptySeq
        <4>4. QED BY <4>1, <4>2, <4>3
      <3>2. QED BY <3>1
    <2>2. Coming(m)' = (worker[m].mail \o <<Head(wire[m])>>) \o Tail(wire[m])
      BY <1>1, <1>4 DEF Coming
    <2>3. Coming(m) = (worker[m].mail \o << >>) \o wire[m]
      BY <1>1 DEF Coming
    <2>4. wire[m] \in Seq(Packets)
      BY <1>2
    <2>5. QED BY <1>1, <1>2, <2>1, <2>2, <2>3, <2>4, Zenon
  <1>7. BufferSound(m)' /\ InOrder(Coming(m)', posted'[m], taken'[m], boxes'[m])
    <2>1. BufferSound(m) /\ InOrder(Coming(m), posted[m], taken[m], boxes[m])
      BY DEF Delivery
    <2>2. /\ available[m] \in Nat /\ Len(inbox[m]) = 0 /\ Len(inbox'[m]) = 1
      BY <1>1, <1>2, <1>4
    <2>3. available[m] = 0 /\ worker[m].at # "woken"
      BY <2>1, <2>2 DEF BufferSound
    <2>4. BufferSound(m)'
      BY <1>1, <1>4, <2>1, <2>2, <2>3 DEF BufferSound
    <2>5. QED BY <1>1, <1>6, <2>1, <2>4
  <1>8. ASSUME NEW k \in Machines, k # m
        PROVE  BufferSound(k)' /\ InOrder(Coming(k)', posted'[k], taken'[k], boxes'[k])
    BY <1>1, <1>4, <1>8, MachineLeftAlone
  <1>9. QED BY <1>5, <1>7, <1>8 DEF Delivery

(* The postal worker consumes messageAvailable.                            *)
LEMMA WakeDelivery ==
  ASSUME Delivery, NEW m \in Machines, WorkerWakes(m)
  PROVE  Delivery'
  <1>1. /\ MailTypes /\ worker[m].at = "waiting" /\ available[m] > 0
        /\ available' = [available EXCEPT ![m] = @ - 1]
        /\ worker' = [worker EXCEPT ![m].at = "woken"]
        /\ UNCHANGED <<wire, inbox, boxes, taken, posted, sendLock, pc, chats>>
    BY DEF Delivery, WorkerWakes, net
  <1>2. /\ available \in [Machines -> Nat]
        /\ worker \in [Machines -> [at : {"waiting", "woken", "carrying"}, mail : Seq(Packets)]]
    BY <1>1 DEF MailTypes
  <1>3. /\ available'[m] = available[m] - 1
        /\ worker'[m].at = "woken" /\ worker'[m].mail = worker[m].mail
        /\ \A k \in Machines : k # m => worker'[k] = worker[k] /\ available'[k] = available[k]
        /\ available' \in [Machines -> Nat]
        /\ worker' \in [Machines -> [at : {"waiting", "woken", "carrying"}, mail : Seq(Packets)]]
    BY <1>1, <1>2
  <1>4. MailTypes'
    BY <1>1, <1>3 DEF MailTypes
  <1>5. BufferSound(m)' /\ InOrder(Coming(m)', posted'[m], taken'[m], boxes'[m])
    <2>1. BufferSound(m) /\ InOrder(Coming(m), posted[m], taken[m], boxes[m])
      BY DEF Delivery
    <2>2. Coming(m)' = Coming(m)
      BY <1>1, <1>3 DEF Coming
    <2>3. available[m] \in Nat
      BY <1>2
    <2>4. BufferSound(m)'
      BY <1>1, <1>3, <2>1, <2>3 DEF BufferSound
    <2>5. QED BY <1>1, <2>1, <2>2, <2>4
  <1>6. ASSUME NEW k \in Machines, k # m
        PROVE  BufferSound(k)' /\ InOrder(Coming(k)', posted'[k], taken'[k], boxes'[k])
    BY <1>1, <1>3, <1>6, MachineLeftAlone
  <1>7. QED BY <1>4, <1>5, <1>6 DEF Delivery

(* Network::Receive: the woken worker finds a packet and leaves the buffer *)
(* empty.                                                                  *)
LEMMA CollectDelivery ==
  ASSUME Delivery, NEW m \in Machines, Collect(m)
  PROVE  Delivery'
  <1>1. /\ MailTypes /\ worker[m].at = "woken"
        /\ worker' = [worker EXCEPT ![m] = [at |-> "carrying", mail |-> inbox[m]]]
        /\ inbox' = [inbox EXCEPT ![m] = << >>]
        /\ UNCHANGED <<wire, available, boxes, taken, posted, sendLock, pc, chats>>
    BY DEF Delivery, Collect
  <1>2. /\ inbox \in [Machines -> Seq(Packets)] /\ inbox[m] \in Seq(Packets)
        /\ worker \in [Machines -> [at : {"waiting", "woken", "carrying"}, mail : Seq(Packets)]]
    BY <1>1 DEF MailTypes
  <1>3. /\ worker'[m].at = "carrying" /\ worker'[m].mail = inbox[m] /\ inbox'[m] = << >>
        /\ \A k \in Machines : k # m => worker'[k] = worker[k] /\ inbox'[k] = inbox[k]
        /\ inbox' \in [Machines -> Seq(Packets)]
        /\ worker' \in [Machines -> [at : {"waiting", "woken", "carrying"}, mail : Seq(Packets)]]
    BY <1>1, <1>2
  <1>4. MailTypes'
    BY <1>1, <1>3 DEF MailTypes
  <1>5. BufferSound(m)' /\ InOrder(Coming(m)', posted'[m], taken'[m], boxes'[m])
    <2>1. BufferSound(m) /\ InOrder(Coming(m), posted[m], taken[m], boxes[m])
      BY DEF Delivery
    <2>2. /\ worker[m].mail \in Seq(Packets) /\ available[m] \in Nat
      BY <1>1, MachineTypes
    <2>3. /\ Len(worker[m].mail) = 0 /\ Len(inbox[m]) = 1 /\ available[m] = 0
          /\ Len(inbox'[m]) = 0
      BY <1>1, <1>2, <1>3, <2>1, <2>2 DEF BufferSound
    <2>4. BufferSound(m)'
      BY <1>1, <1>3, <2>3 DEF BufferSound
    <2>5. Coming(m)' = Coming(m)
      <3>1. worker[m].mail = << >>
        BY <2>2, <2>3
      <3>2. inbox[m] \o << >> = << >> \o inbox[m]
        BY <1>2, ConcatEmptySeq
      <3>3. Coming(m)' = (inbox[m] \o << >>) \o wire[m]
        BY <1>1, <1>3 DEF Coming
      <3>4. QED BY <3>1, <3>2, <3>3 DEF Coming
    <2>6. QED BY <1>1, <2>1, <2>4, <2>5
  <1>6. ASSUME NEW k \in Machines, k # m
        PROVE  BufferSound(k)' /\ InOrder(Coming(k)', posted'[k], taken'[k], boxes'[k])
    BY <1>1, <1>3, <1>6, MachineLeftAlone
  <1>7. QED BY <1>4, <1>5, <1>6 DEF Delivery

(* The packet the worker carries is the first of those that come.          *)
LEMMA FirstComing ==
  ASSUME NEW S, NEW y \in S, NEW b \in Seq(S), NEW c \in Seq(S)
  PROVE  /\ (<<y>> \o b) \o c # << >> /\ Head((<<y>> \o b) \o c) = y
         /\ Tail((<<y>> \o b) \o c) = (<< >> \o b) \o c
  <1>1. ASSUME NEW a \in Seq(S) PROVE (a \o b) \o c = a \o (b \o c)
    BY ConcatAssociative
  <1>2. <<y>> \in Seq(S) /\ b \o c \in Seq(S)
    OBVIOUS
  <1>3. (<<y>> \o b) \o c = <<y>> \o (b \o c)
    BY <1>1, <1>2, Zenon
  <1>4. << >> \o b = b
    BY ConcatEmptySeq
  <1>5. ASSUME NEW s \in Seq(S)
        PROVE  <<y>> \o s # << >> /\ Head(<<y>> \o s) = y /\ Tail(<<y>> \o s) = s
    OBVIOUS
  <1>6. QED BY <1>2, <1>3, <1>4, <1>5, Zenon

(* MailBox::Put takes the first of the packets that come to its mailbox.   *)
LEMMA PutDelivery ==
  ASSUME Delivery, NEW m \in Machines, Put(m)
  PROVE  Delivery'
  <1> DEFINE x == worker[m].mail[1]
  <1>1. /\ MailTypes /\ worker[m].at = "carrying"
        /\ boxes' = [boxes EXCEPT ![m][x.box] = Append(@, x)]
        /\ worker' = [worker EXCEPT ![m] = [at |-> "waiting", mail |-> << >>]]
        /\ UNCHANGED <<wire, inbox, available, taken, posted, sendLock, pc, chats>>
    BY DEF Delivery, Put, net
  <1>2. /\ boxes \in [Machines -> [Boxes -> Seq(Packets)]]
        /\ boxes[m] \in [Boxes -> Seq(Packets)] /\ taken[m] \in [Boxes -> Seq(Packets)]
        /\ worker \in [Machines -> [at : {"waiting", "woken", "carrying"}, mail : Seq(Packets)]]
        /\ worker[m].mail \in Seq(Packets) /\ inbox[m] \in Seq(Packets)
        /\ wire[m] \in Seq(Packets) /\ posted[m] \in Seq(Packets)
    BY <1>1 DEF MailTypes
  <1>3. BufferSound(m) /\ InOrder(Coming(m), posted[m], taken[m], boxes[m])
    BY DEF Delivery
  <1>4. Len(worker[m].mail) = 1 /\ x \in Packets /\ x.box \in Boxes
    <2>1. Len(worker[m].mail) = 1
      BY <1>1, <1>3 DEF BufferSound
    <2>2. x \in Packets
      BY <1>2, <2>1
    <2>3. QED BY <2>1, <2>2 DEF Packets
  <1>5. /\ Coming(m) \in Seq(Packets) /\ Coming(m) # << >> /\ Head(Coming(m)) = x
        /\ Tail(Coming(m)) = (<< >> \o inbox[m]) \o wire[m]
    <2>1. Coming(m) \in Seq(Packets)
      BY <1>2 DEF Coming
    <2>2. worker[m].mail = <<x>>
      BY <1>2, <1>4
    <2> HIDE DEF x
    <2>3. ASSUME NEW y \in Packets, NEW u \in Seq(Packets), NEW v \in Seq(Packets)
          PROVE  /\ (<<y>> \o u) \o v # << >> /\ Head((<<y>> \o u) \o v) = y
                 /\ Tail((<<y>> \o u) \o v) = (<< >> \o u) \o v
      BY FirstComing
    <2>4. x \in Packets /\ inbox[m] \in Seq(Packets) /\ wire[m] \in Seq(Packets)
      BY <1>2, <1>4
    <2>5. Coming(m) = (<<x>> \o inbox[m]) \o wire[m]
      BY <2>2 DEF Coming
    <2> DEFINE s == (<<x>> \o inbox[m]) \o wire[m]
    <2>6. s # << >> /\ Head(s) = x /\ Tail(s) = (<< >> \o inbox[m]) \o wire[m]
      BY <2>3, <2>4, Zenon
    <2>7. Coming(m) = s
      BY <2>5
    <2> HIDE DEF s
    <2>8. QED BY <2>1, <2>6, <2>7, Zenon
  <1> DEFINE h == [boxes[m] EXCEPT ![x.box] = Append(@, x)]
  <1>6. /\ h \in [Boxes -> Seq(Packets)]
        /\ boxes'[m] = h /\ worker'[m].at = "waiting" /\ worker'[m].mail = << >>
        /\ \A k \in Machines : k # m => worker'[k] = worker[k] /\ boxes'[k] = boxes[k]
        /\ boxes' \in [Machines -> [Boxes -> Seq(Packets)]]
        /\ worker' \in [Machines -> [at : {"waiting", "woken", "carrying"}, mail : Seq(Packets)]]
    <2> HIDE DEF x
    <2>1. boxes[m][x.box] \in Seq(Packets) /\ Append(boxes[m][x.box], x) \in Seq(Packets)
      BY <1>2, <1>4
    <2>2. h \in [Boxes -> Seq(Packets)]
      BY <1>2, <2>1
    <2>3. boxes' = [boxes EXCEPT ![m] = h]
      BY <1>1, <1>2
    <2> HIDE DEF h
    <2>4. /\ boxes'[m] = h /\ \A k \in Machines : k # m => boxes'[k] = boxes[k]
          /\ boxes' \in [Machines -> [Boxes -> Seq(Packets)]]
      BY <1>2, <2>2, <2>3
    <2>5. /\ worker'[m].at = "waiting" /\ worker'[m].mail = << >>
          /\ \A k \in Machines : k # m => worker'[k] = worker[k]
      BY <1>1, <1>2
    <2>6. worker' \in [Machines -> [at : {"waiting", "woken", "carrying"}, mail : Seq(Packets)]]
      BY <1>1, <1>2
    <2>7. QED BY <2>2, <2>4, <2>5, <2>6, Zenon
  <1>7. MailTypes'
    BY <1>1, <1>6 DEF MailTypes
  <1>8. BufferSound(m)' /\ InOrder(Coming(m)', posted'[m], taken'[m], boxes'[m])
    <2>1. Coming(m)' = Tail(Coming(m))
      BY <1>1, <1>5, <1>6 DEF Coming
    <2>2. InOrder(Tail(Coming(m)), posted[m], taken[m], h)
      BY <1>2, <1>3, <1>4, <1>5, InOrderPut
    <2>3. BufferSound(m)'
      BY <1>1, <1>3, <1>6 DEF BufferSound
    <2> HIDE DEF h
    <2>4. QED BY <1>1, <1>6, <2>1, <2>2, <2>3
  <1> HIDE DEF h, x
  <1>9. ASSUME NEW k \in Machines, k # m
        PROVE  BufferSound(k)' /\ InOrder(Coming(k)', posted'[k], taken'[k], boxes'[k])
    BY <1>1, <1>6, <1>9, MachineLeftAlone
  <1>10. QED BY <1>7, <1>8, <1>9 DEF Delivery

(* MailBox::Get moves the first message of the mailbox to those received.  *)
LEMMA ReceiveDelivery ==
  ASSUME Delivery, NEW m \in Machines, NEW box \in Boxes, Receive(m, box),
         pc' \in [Machines -> {"hello", "await", "ack", "awaitAck", "halt", "halted"}],
         UNCHANGED chats
  PROVE  Delivery'
  <1> DEFINE g == [taken[m] EXCEPT ![box] = Append(@, Head(boxes[m][box]))]
             h == [boxes[m] EXCEPT ![box] = Tail(@)]
  <1>1. /\ MailTypes /\ boxes[m][box] # << >>
        /\ boxes' = [boxes EXCEPT ![m][box] = Tail(@)]
        /\ taken' = [taken EXCEPT ![m][box] = Append(@, Head(boxes[m][box]))]
        /\ UNCHANGED <<wire, inbox, available, worker, posted, sendLock>>
    BY DEF Delivery, Receive, net
  <1>2. /\ boxes \in [Machines -> [Boxes -> Seq(Packets)]]
        /\ taken \in [Machines -> [Boxes -> Seq(Packets)]]
        /\ boxes[m] \in [Boxes -> Seq(Packets)] /\ taken[m] \in [Boxes -> Seq(Packets)]
    BY <1>1 DEF MailTypes
  <1>3. InOrder(Coming(m), posted[m], taken[m], boxes[m]) /\ BufferSound(m)
    BY DEF Delivery
  <1>4. boxes' = [boxes EXCEPT ![m] = h] /\ taken' = [taken EXCEPT ![m] = g]
    BY <1>1, <1>2
  <1>5. g \in [Boxes -> Seq(Packets)] /\ h \in [Boxes -> Seq(Packets)]
    <2>1. boxes[m][box] \in Seq(Packets) /\ taken[m][box] \in Seq(Packets)
      BY <1>2
    <2>2. Head(boxes[m][box]) \in Packets /\ Tail(boxes[m][box]) \in Seq(Packets)
      BY <1>1, <2>1
    <2>3. Append(taken[m][box], Head(boxes[m][box])) \in Seq(Packets)
      BY <2>1, <2>2
    <2>4. QED BY <1>2, <2>2, <2>3
  <1>6. InOrder(Coming(m), posted[m], g, h)
    BY <1>1, <1>2, <1>3, InOrderTaken
  <1> HIDE DEF g, h
  <1>7. /\ boxes'[m] = h /\ taken'[m] = g
        /\ \A k \in Machines : k # m => boxes'[k] = boxes[k] /\ taken'[k] = taken[k]
        /\ boxes' \in [Machines -> [Boxes -> Seq(Packets)]]
        /\ taken' \in [Machines -> [Boxes -> Seq(Packets)]]
    BY <1>2, <1>4, <1>5
  <1>8. MailTypes'
    BY <1>1, <1>7 DEF MailTypes
  <1>9. BufferSound(m)' /\ InOrder(Coming(m)', posted'[m], taken'[m], boxes'[m])
    <2>1. Coming(m)' = Coming(m)
      BY <1>1 DEF Coming
    <2>2. BufferSound(m)'
      BY <1>1, <1>3 DEF BufferSound
    <2>3. QED BY <1>1, <1>6, <1>7, <2>1, <2>2
  <1>10. ASSUME NEW k \in Machines, k # m
         PROVE  BufferSound(k)' /\ InOrder(Coming(k)', posted'[k], taken'[k], boxes'[k])
    BY <1>1, <1>7, <1>10, MachineLeftAlone
  <1>11. QED BY <1>8, <1>9, <1>10 DEF Delivery

(* Where MailTest goes from each of its calls.                             *)
LEMMA Afterwards ==
  /\ After["hello"] = "await" /\ After["await"] = "ack"
  /\ After["ack"] = "awaitAck" /\ After["awaitAck"] = "halt"
  BY DEF After

(* What the main thread sends is the greeting, or the acknowledgement of   *)
(* the greeting of its peer, for the mailbox that asks for.                *)
LEMMA MailOfTest ==
  ASSUME MailInv, NEW m \in Machines, pc[m] \in {"hello", "ack"}
  PROVE  MailOf(m) = IF pc[m] = "hello" THEN Packet(m, Peer(m), 0, 1, "Hello there!")
                     ELSE Packet(m, Peer(m), 1, 1, "Got it!")
  <1>1. CASE pc[m] = "hello"
    BY <1>1 DEF MailOf
  <1>2. CASE pc[m] = "ack"
    <2>1. TestSound(m) /\ 0 \in Boxes
      BY DEF MailInv, Boxes
    <2>2. taken[m][0] # << >>
      BY <1>2, <2>1 DEF TestSound, PlaceSound
    <2>3. PICK j \in 1..Len(posted[m]) :
             posted[m][j].box = 0 /\ taken[m][0][1] = posted[m][j]
      BY <2>1, <2>2, TakenWasPosted
    <2>4. Answered(m).from = Peer(m) /\ Answered(m).reply = 1
      BY <2>1, <2>3 DEF TestSound, HeardSound, Answered
    <2>5. QED BY <1>2, <2>4 DEF MailOf
  <1>3. QED BY <1>1, <1>2

(* Every step keeps what the network and the post office see to.           *)
LEMMA DeliveryStep ==
  ASSUME MailInv, [MailNext]_mailVars
  PROVE  Delivery'
  <1>1. /\ Delivery /\ MailTypes
        /\ sendLock \in [Machines -> {"free", "main", "chat"}]
        /\ pc \in [Machines -> {"hello", "await", "ack", "awaitAck", "halt", "halted"}]
        /\ chats \in [Machines -> Nat]
    BY DEF MailInv, Delivery, MailTypes
  <1>2. ASSUME NEW m \in Machines, SendDone(m) PROVE Delivery'
    BY <1>1, <1>2, QuietDelivery DEF SendDone
  <1>3. ASSUME NEW m \in Machines, MainSends(m) PROVE Delivery'
    <2>1. MailOf(m) \in Packets
      BY <1>3, MailOfTest, PacketTypes DEF MainSends
    <2>2. QED BY <1>1, <1>3, <2>1, SendDelivery DEF MainSends
  <1>4. ASSUME NEW m \in Machines, MainSent(m) PROVE Delivery'
    <2>1. pc[m] \in {"hello", "ack"}
      BY <1>4 DEF MainSent, SendReturns, MailInv, TestSound, PlaceSound
    <2>2. /\ UNCHANGED <<wire, inbox, available, worker, boxes, taken, posted, chats>>
          /\ sendLock' = [sendLock EXCEPT ![m] = "free"]
          /\ pc' = [pc EXCEPT ![m] = After[pc[m]]]
      BY <1>4 DEF MainSent, SendReturns, net
    <2>3. /\ pc' \in [Machines -> {"hello", "await", "ack", "awaitAck", "halt", "halted"}]
          /\ sendLock' \in [Machines -> {"free", "main", "chat"}]
      BY <1>1, <2>1, <2>2, Afterwards
    <2>4. QED BY <1>1, <2>2, <2>3, QuietDelivery
  <1>5. ASSUME NEW m \in Machines, MainReceives(m) PROVE Delivery'
    <2>1. /\ pc[m] \in {"await", "awaitAck"} /\ UNCHANGED chats
          /\ pc' = [pc EXCEPT ![m] = After[pc[m]]]
          /\ Receive(m, 0) \/ Receive(m, 1)
      BY <1>5 DEF MainReceives
    <2>2. pc' \in [Machines -> {"hello", "await", "ack", "awaitAck", "halt", "halted"}]
      BY <1>1, <2>1, Afterwards
    <2>3. 0 \in Boxes /\ 1 \in Boxes
      BY DEF Boxes
    <2>4. QED BY <1>1, <2>1, <2>2, <2>3, ReceiveDelivery
  <1>6. ASSUME NEW m \in Machines, HaltAfterTest(m) PROVE Delivery'
    <2>1. /\ UNCHANGED <<wire, inbox, available, worker, boxes, taken, posted, sendLock, chats>>
          /\ pc' = [pc EXCEPT ![m] = "halted"]
      BY <1>6 DEF HaltAfterTest, net, post
    <2>2. QED BY <1>1, <2>1, QuietDelivery
  <1>7. ASSUME NEW m \in Machines, ChatSends(m) PROVE Delivery'
    <2>1. Packet(m, m, 2, 2, <<"chat", chats[m]>>) \in Packets
      BY <1>1, PacketTypes
    <2>2. QED BY <1>1, <1>7, <2>1, SendDelivery DEF ChatSends
  <1>8. ASSUME NEW m \in Machines, ChatSent(m) PROVE Delivery'
    <2>1. /\ UNCHANGED <<wire, inbox, available, worker, boxes, taken, posted, pc>>
          /\ sendLock' = [sendLock EXCEPT ![m] = "free"]
          /\ chats' = [chats EXCEPT ![m] = @ + 1]
      BY <1>8 DEF ChatSent, SendReturns, net
    <2>2. QED BY <1>1, <2>1, QuietDelivery
  <1>9. ASSUME NEW m \in Machines, WorkerSteps(m) PROVE Delivery'
    BY <1>1, <1>9, WakeDelivery, CollectDelivery, PutDelivery DEF WorkerSteps
  <1>10. ASSUME UNCHANGED mailVars PROVE Delivery'
    BY <1>1, <1>10, QuietDelivery DEF mailVars, net, post
  <1>11. QED
    BY <1>1, <1>2, <1>3, <1>4, <1>5, <1>6, <1>7, <1>8, <1>9, <1>10, ArrivalDelivery
       DEF MailNext, MainSteps, Polls, AllHalted

(* What is on the wire to a machine stays sound while its peer goes on.    *)
LEMMA HeardKept ==
  ASSUME NEW m \in Machines, HeardSound(m), posted'[m] = posted[m],
         AckSent(Peer(m)) => AckSent(Peer(m))'
  PROVE  HeardSound(m)'
  BY DEF HeardSound

(* One more packet on the wire.                                            *)
LEMMA HeardPosted ==
  ASSUME NEW m \in Machines, NEW pkt \in Packets, MailTypes, HeardSound(m),
         posted'[m] = Append(posted[m], pkt), AckSent(Peer(m)) => AckSent(Peer(m))',
         pkt.box = 0 => pkt.from = Peer(m) /\ pkt.reply = 1,
         pkt.box = 1 => AckSent(Peer(m))'
  PROVE  HeardSound(m)'
  <1>1. posted[m] \in Seq(Packets)
    BY MachineTypes
  <1> SUFFICES ASSUME NEW i \in 1..Len(posted'[m])
               PROVE  /\ posted'[m][i].box = 0 => /\ posted'[m][i].from = Peer(m)
                                                  /\ posted'[m][i].reply = 1
                      /\ posted'[m][i].box = 1 => AckSent(Peer(m))'
    BY DEF HeardSound
  <1>2. CASE i \in 1..Len(posted[m])
    <2>1. posted'[m][i] = posted[m][i]
      BY <1>1, <1>2
    <2>2. QED BY <1>2, <2>1 DEF HeardSound
  <1>3. CASE i = Len(posted[m]) + 1
    <2>1. posted'[m][i] = pkt
      BY <1>1, <1>3
    <2>2. QED BY <2>1
  <1>4. i \in 1..Len(posted[m]) \/ i = Len(posted[m]) + 1
    BY <1>1
  <1>5. QED BY <1>2, <1>3, <1>4

(* A step that puts no packet on the wire.                                 *)
LEMMA QuietTest ==
  ASSUME MailInv, UNCHANGED posted,
         \A k \in Machines : PlaceSound(k)' /\ (AckSent(k) => AckSent(k)')
  PROVE  \A k \in Machines : TestSound(k)'
  <1> SUFFICES ASSUME NEW k \in Machines PROVE TestSound(k)'
    OBVIOUS
  <1>1. HeardSound(k) /\ Peer(k) \in Machines
    BY Peers DEF MailInv, TestSound
  <1>2. HeardSound(k)'
    BY <1>1, HeardKept
  <1>3. QED BY <1>2 DEF TestSound

(* A thread that has taken sendLock sends a packet that the receiver may   *)
(* rely on.                                                                *)
LEMMA SendTest ==
  ASSUME MailInv, NEW m \in Machines, NEW th \in {"main", "chat"}, NEW pkt \in Packets,
         Send(m, th, pkt), UNCHANGED <<pc, chats>>,
         th = "main" => pc[m] \in {"hello", "ack"},
         pkt.box = 0 => pkt.from = Peer(pkt.to) /\ pkt.reply = 1,
         pkt.box = 1 => AckSent(Peer(pkt.to))'
  PROVE  \A k \in Machines : TestSound(k)'
  <1>1. /\ MailTypes /\ sendLock \in [Machines -> {"free", "main", "chat"}]
        /\ \A k \in Machines : PlaceSound(k) /\ HeardSound(k)
    BY DEF MailInv, Delivery, MailTypes, TestSound
  <1>2. /\ sendLock[m] = "free" /\ sendLock'[m] = th /\ UNCHANGED <<pc, taken>>
        /\ \A k \in Machines : k # m => sendLock'[k] = sendLock[k]
    BY <1>1 DEF Send
  <1>3. ASSUME NEW k \in Machines
        PROVE  PlaceSound(k)' /\ (AckSent(k) => AckSent(k)')
    <2>1. CASE k = m
      <3>1. sendLock[k] # "main"
        BY <1>2, <2>1
      <3>2. QED BY <1>1, <1>2, <2>1, <3>1 DEF PlaceSound, AckSent
    <2>2. CASE k # m
      BY <1>1, <1>2, <2>2 DEF PlaceSound, AckSent
    <2>3. QED BY <2>1, <2>2
  <1>4. CASE UNCHANGED posted
    BY <1>3, <1>4, QuietTest
  <1>5. CASE posted' = [posted EXCEPT ![pkt.to] = Append(@, pkt)]
    <2>1. /\ posted \in [Machines -> Seq(Packets)] /\ pkt.to \in Machines
      BY <1>1 DEF MailTypes, Packets
    <2>2. ASSUME NEW k \in Machines PROVE HeardSound(k)'
      <3>1. Peer(k) \in Machines /\ HeardSound(k)
        BY <1>1, Peers
      <3>2. AckSent(Peer(k)) => AckSent(Peer(k))'
        BY <1>3, <3>1
      <3>3. CASE k = pkt.to
        <4>1. posted'[k] = Append(posted[k], pkt)
          BY <1>5, <2>1, <3>3
        <4>2. QED BY <1>1, <3>1, <3>2, <3>3, <4>1, HeardPosted
      <3>4. CASE k # pkt.to
        <4>1. posted'[k] = posted[k]
          BY <1>5, <2>1, <3>4
        <4>2. QED BY <3>1, <3>2, <4>1, HeardKept
      <3>5. QED BY <3>3, <3>4
    <2>3. QED BY <1>3, <2>2 DEF TestSound
  <1>6. QED BY <1>4, <1>5 DEF Send, Transmit

(* The main thread goes on after a call; the other machine does not move.  *)
LEMMA MainGoesOn ==
  ASSUME MailInv, NEW m \in Machines, UNCHANGED posted,
         PlaceSound(m)', AckSent(m) => AckSent(m)',
         \A k \in Machines : k # m => /\ pc'[k] = pc[k] /\ sendLock'[k] = sendLock[k]
                                      /\ taken'[k] = taken[k]
  PROVE  \A k \in Machines : TestSound(k)'
  <1>1. ASSUME NEW k \in Machines
        PROVE  PlaceSound(k)' /\ (AckSent(k) => AckSent(k)')
    <2>1. CASE k = m
      BY <2>1
    <2>2. CASE k # m
      <3>1. PlaceSound(k)
        BY DEF MailInv, TestSound
      <3>2. QED BY <2>2, <3>1 DEF PlaceSound, AckSent
    <2>3. QED BY <2>1, <2>2
  <1>2. QED BY <1>1, QuietTest

(* Every step keeps what the two machines know of each other.              *)
LEMMA TestStep ==
  ASSUME MailInv, [MailNext]_mailVars
  PROVE  \A k \in Machines : TestSound(k)'
  <1>1. /\ sendLock \in [Machines -> {"free", "main", "chat"}]
        /\ pc \in [Machines -> {"hello", "await", "ack", "awaitAck", "halt", "halted"}]
        /\ chats \in [Machines -> Nat]
        /\ taken \in [Machines -> [Boxes -> Seq(Packets)]]
        /\ \A k \in Machines : PlaceSound(k)
    BY DEF MailInv, Delivery, MailTypes, TestSound
  <1>2. ASSUME UNCHANGED <<pc, sendLock, posted, taken>>
        PROVE  \A k \in Machines : TestSound(k)'
    BY <1>1, <1>2, QuietTest DEF PlaceSound, AckSent
  <1>3. ASSUME NEW m \in Machines, MainSends(m) PROVE \A k \in Machines : TestSound(k)'
    <2>1. /\ pc[m] \in {"hello", "ack"} /\ Send(m, "main", MailOf(m))
          /\ UNCHANGED <<pc, chats>>
      BY <1>3 DEF MainSends
    <2>2. /\ MailOf(m) \in Packets /\ MailOf(m).to = Peer(m) /\ MailOf(m).from = m
          /\ MailOf(m).reply = 1 /\ (MailOf(m).box = 1 => pc[m] = "ack")
      <3>0. ASSUME NEW b, NEW body, MailOf(m) = Packet(m, Peer(m), b, 1, body)
            PROVE  /\ MailOf(m).to = Peer(m) /\ MailOf(m).from = m /\ MailOf(m).reply = 1
                   /\ MailOf(m).box = b
        BY <3>0 DEF Packet
      <3>1. CASE pc[m] = "hello"
        <4>1. MailOf(m) = Packet(m, Peer(m), 0, 1, "Hello there!")
          BY <2>1, <3>1, MailOfTest
        <4>2. MailOf(m) \in Packets
          BY <4>1, PacketTypes
        <4>3. /\ MailOf(m).to = Peer(m) /\ MailOf(m).from = m /\ MailOf(m).reply = 1
              /\ MailOf(m).box = 0
          BY <3>0, <4>1, Zenon
        <4>4. QED BY <3>1, <4>2, <4>3
      <3>2. CASE pc[m] = "ack"
        <4>1. MailOf(m) = Packet(m, Peer(m), 1, 1, "Got it!")
          BY <2>1, <3>2, MailOfTest
        <4>2. MailOf(m) \in Packets
          BY <4>1, PacketTypes
        <4>3. /\ MailOf(m).to = Peer(m) /\ MailOf(m).from = m /\ MailOf(m).reply = 1
              /\ MailOf(m).box = 1
          BY <3>0, <4>1, Zenon
        <4>4. QED BY <3>2, <4>2, <4>3
      <3>3. QED BY <2>1, <3>1, <3>2
    <2>3. Peer(Peer(m)) = m /\ sendLock'[m] = "main"
      BY <1>1, <2>1, Peers DEF Send
    <2>4. MailOf(m).box = 1 => AckSent(m)'
      BY <2>1, <2>2, <2>3 DEF AckSent
    <2>5. QED BY <2>1, <2>2, <2>3, <2>4, SendTest
  <1>4. ASSUME NEW m \in Machines, MainSent(m) PROVE \A k \in Machines : TestSound(k)'
    <2>1. /\ sendLock[m] = "main" /\ sendLock' = [sendLock EXCEPT ![m] = "free"]
          /\ pc' = [pc EXCEPT ![m] = After[pc[m]]] /\ UNCHANGED <<posted, taken>>
      BY <1>4 DEF MainSent, SendReturns
    <2>2. PlaceSound(m) /\ pc[m] \in {"hello", "ack"}
      BY <1>1, <2>1 DEF PlaceSound
    <2>3. /\ sendLock'[m] = "free" /\ pc'[m] = IF pc[m] = "hello" THEN "await" ELSE "awaitAck"
          /\ \A k \in Machines : k # m => pc'[k] = pc[k] /\ sendLock'[k] = sendLock[k]
      BY <1>1, <2>1, <2>2, Afterwards
    <2>4. PlaceSound(m)' /\ (AckSent(m) => AckSent(m)')
      BY <2>1, <2>2, <2>3 DEF PlaceSound, AckSent
    <2>5. QED BY <2>1, <2>3, <2>4, MainGoesOn
  <1>5. ASSUME NEW m \in Machines, MainReceives(m) PROVE \A k \in Machines : TestSound(k)'
    <2>1. /\ pc' = [pc EXCEPT ![m] = After[pc[m]]] /\ UNCHANGED <<posted, sendLock>>
          /\ pc[m] \in {"await", "awaitAck"}
      BY <1>5 DEF MainReceives, Receive
    <2>2. PICK box \in {0, 1} :
            /\ box = IF pc[m] = "await" THEN 0 ELSE 1
            /\ boxes[m][box] # << >>
            /\ taken' = [taken EXCEPT ![m][box] = Append(@, Head(boxes[m][box]))]
      BY <1>5 DEF MainReceives, Receive
    <2>3. /\ PlaceSound(m) /\ sendLock[m] # "main"
      BY <1>1, <2>1 DEF PlaceSound
    <2>4. /\ pc'[m] = IF pc[m] = "await" THEN "ack" ELSE "halt"
          /\ \A k \in Machines : k # m => pc'[k] = pc[k]
      BY <1>1, <2>1, Afterwards
    <2>5. /\ taken'[m][box] # << >>
          /\ \A b \in Boxes : b # box => taken'[m][b] = taken[m][b]
          /\ \A k \in Machines : k # m => taken'[k] = taken[k]
      <3>1. box \in Boxes
        BY DEF Boxes
      <3>2. \A s \in Seq(Packets), y \in Packets : Append(s, y) # << >>
        BY AppendProperties
      <3>3. taken[m][box] \in Seq(Packets)
        BY <1>1, <3>1
      <3>4. /\ taken'[m][box] = Append(taken[m][box], Head(boxes[m][box]))
            /\ \A b \in Boxes : b # box => taken'[m][b] = taken[m][b]
            /\ \A k \in Machines : k # m => taken'[k] = taken[k]
        BY <1>1, <2>2, <3>1
      <3>5. Head(boxes[m][box]) \in Packets
        <4>1. boxes[m][box] \in Seq(Packets)
          BY <3>1, MachineTypes DEF MailInv, Delivery
        <4>2. \A s \in Seq(Packets) : s # << >> => Head(s) \in Packets
          OBVIOUS
        <4>3. QED BY <2>2, <4>1, <4>2, Zenon
      <3>6. QED BY <3>2, <3>3, <3>4, <3>5
    <2>6. 0 \in Boxes /\ 1 \in Boxes
      BY DEF Boxes
    <2>7. PlaceSound(m)' /\ (AckSent(m) => AckSent(m)')
      BY <2>1, <2>2, <2>3, <2>4, <2>5, <2>6 DEF PlaceSound, AckSent
    <2>8. QED BY <2>1, <2>4, <2>5, <2>7, MainGoesOn
  <1>6. ASSUME NEW m \in Machines, HaltAfterTest(m) PROVE \A k \in Machines : TestSound(k)'
    <2>1. /\ pc[m] = "halt" /\ pc' = [pc EXCEPT ![m] = "halted"]
          /\ UNCHANGED <<posted, taken, sendLock>>
      BY <1>6 DEF HaltAfterTest, post
    <2>2. pc'[m] = "halted" /\ \A k \in Machines : k # m => pc'[k] = pc[k]
      BY <1>1, <2>1
    <2>3. PlaceSound(m)' /\ (AckSent(m) => AckSent(m)')
      BY <1>1, <2>1, <2>2 DEF PlaceSound, AckSent
    <2>4. QED BY <2>1, <2>2, <2>3, MainGoesOn
  <1>7. ASSUME NEW m \in Machines, ChatSends(m) PROVE \A k \in Machines : TestSound(k)'
    <2> DEFINE pkt == Packet(m, m, 2, 2, <<"chat", chats[m]>>)
    <2>1. pkt \in Packets /\ pkt.box = 2
      BY <1>1, PacketTypes DEF Packet
    <2>2. Send(m, "chat", pkt) /\ UNCHANGED <<pc, chats>>
      BY <1>7 DEF ChatSends
    <2> HIDE DEF pkt
    <2>3. QED BY <2>1, <2>2, SendTest
  <1>8. ASSUME NEW m \in Machines, ChatSent(m) PROVE \A k \in Machines : TestSound(k)'
    <2>1. /\ sendLock[m] = "chat" /\ sendLock' = [sendLock EXCEPT ![m] = "free"]
          /\ UNCHANGED <<posted, taken, pc>>
      BY <1>8 DEF ChatSent, SendReturns
    <2>2. sendLock'[m] = "free" /\ \A k \in Machines : k # m => sendLock'[k] = sendLock[k]
      BY <1>1, <2>1
    <2>3. PlaceSound(m)' /\ (AckSent(m) => AckSent(m)')
      BY <1>1, <2>1, <2>2 DEF PlaceSound, AckSent
    <2>4. QED BY <2>1, <2>2, <2>3, MainGoesOn
  <1>9. ASSUME NEW m \in Machines,
               SendDone(m) \/ CheckPktAvail(m) \/ WorkerSteps(m)
        PROVE  UNCHANGED <<pc, sendLock, posted, taken>>
    BY <1>9 DEF SendDone, CheckPktAvail, WorkerSteps, WorkerWakes, Collect, Put
  <1>10. ASSUME UNCHANGED mailVars PROVE UNCHANGED <<pc, sendLock, posted, taken>>
    BY <1>10 DEF mailVars, post
  <1>11. QED
    BY <1>2, <1>3, <1>4, <1>5, <1>6, <1>7, <1>8, <1>9, <1>10
       DEF MailNext, MainSteps, Polls, AllHalted

(* The post offices of two machines that boot satisfy the invariant.       *)
LEMMA MailStart ==
  ASSUME MailInit
  PROVE  MailInv
  <1>1. MailTypes
    <2>1. << >> \in Seq(Packets) /\ 0 \in Nat
      OBVIOUS
    <2>2. [at |-> "waiting", mail |-> << >>]
            \in [at : {"waiting", "woken", "carrying"}, mail : Seq(Packets)]
      BY <2>1
    <2>3. QED BY <2>1, <2>2 DEF MailInit, MailTypes
  <1>2. ASSUME NEW m \in Machines
        PROVE  /\ wire[m] = << >> /\ inbox[m] = << >> /\ posted[m] = << >>
               /\ worker[m].at = "waiting" /\ worker[m].mail = << >> /\ available[m] = 0
               /\ pc[m] = "hello" /\ sendLock[m] = "free"
               /\ \A b \in Boxes : taken[m][b] = << >> /\ boxes[m][b] = << >>
    BY DEF MailInit
  <1>3. ASSUME NEW m \in Machines PROVE BufferSound(m)
    BY <1>2 DEF BufferSound
  <1>4. ASSUME NEW m \in Machines PROVE InOrder(Coming(m), posted[m], taken[m], boxes[m])
    <2>1. Coming(m) = << >>
      BY <1>2 DEF Coming
    <2>2. << >> \in Seq(Packets)
      OBVIOUS
    <2>3. \A b \in Boxes : ForBox(<< >>, b)[0] = << >>
      <3>1. ASSUME NEW s \in Seq(Packets), NEW b PROVE ForBox(s, b)[0] = << >>
        BY ForBoxRuns
      <3>2. QED BY <2>2, <3>1, Zenon
    <2>4. Len(posted[m]) = 0 /\ Len(Coming(m)) = 0
      BY <1>2, <2>1
    <2>5. Len(Coming(m)) <= Len(posted[m]) /\ Len(posted[m]) - Len(Coming(m)) = 0
          /\ 1..Len(Coming(m)) = {}
      BY <2>4
    <2>6. \A b \in Boxes : taken[m][b] \o boxes[m][b] = << >>
      BY <1>2
    <2>7. \A b \in Boxes :
             taken[m][b] \o boxes[m][b]
               = ForBox(posted[m], b)[Len(posted[m]) - Len(Coming(m))]
      <3>1. posted[m] = << >>
        BY <1>2
      <3>2. \A b \in Boxes : ForBox(posted[m], b)[0] = << >>
        BY <2>3, <3>1, Zenon
      <3>3. QED BY <2>5, <2>6, <3>2, Zenon
    <2>8. QED BY <2>5, <2>7 DEF InOrder
  <1>5. ASSUME NEW m \in Machines PROVE TestSound(m)
    BY <1>2 DEF TestSound, PlaceSound, HeardSound
  <1>6. QED BY <1>1, <1>3, <1>4, <1>5 DEF MailInv, Delivery

(* The invariant of the post office, kept by every step.                   *)
LEMMA MailInvariant == MailSpec => []MailInv
  <1>1. MailInit => MailInv
    BY MailStart
  <1>2. MailInv /\ [MailNext]_mailVars => MailInv'
    BY DeliveryStep, TestStep DEF MailInv
  <1>3. QED BY <1>1, <1>2, PTL DEF MailSpec

(* Whatever packets the network drops and however the two senders, the     *)
(* interrupts and the postal worker interleave, the packets the network    *)
(* accepted reach their mailbox in order, once, without loss.              *)
THEOREM PostDeliveredInOrder == MailSpec => []DeliveredInOrder
  <1>1. MailInv => DeliveredInOrder
    <2> SUFFICES ASSUME MailInv PROVE DeliveredInOrder
      OBVIOUS
    <2>1. ASSUME NEW m \in Machines
          PROVE  /\ InOrder(Coming(m), posted[m], taken[m], boxes[m])
                 /\ Len(posted[m]) \in Nat /\ Len(Coming(m)) \in Nat
                 /\ Len(posted[m]) - Len(Coming(m)) >= 0
      <3>1. MailTypes /\ InOrder(Coming(m), posted[m], taken[m], boxes[m])
        BY DEF MailInv, Delivery
      <3>2. Len(posted[m]) \in Nat /\ Len(Coming(m)) \in Nat
        BY <3>1, MachineTypes
      <3>3. Len(Coming(m)) <= Len(posted[m])
        BY <3>1 DEF InOrder
      <3>4. Len(posted[m]) - Len(Coming(m)) >= 0
        BY <3>2, <3>3
      <3>5. QED BY <3>1, <3>2, <3>4, Zenon
    <2>2. QED BY <2>1 DEF DeliveredInOrder, InOrder
  <1>2. QED BY <1>1, MailInvariant, PTL

(* A machine that has halted has the acknowledgement of its peer, which    *)
(* therefore has nothing left to send to it.                               *)
THEOREM PostNoMailToHalted == MailSpec => []NoMailToHalted
  <1>1. MailInv => NoMailToHalted
    <2> SUFFICES ASSUME MailInv, NEW m \in Machines, pc[m] = "halted"
                 PROVE  \/ pc[Peer(m)] \notin {"hello", "await", "ack"}
                        \/ sendLock[Peer(m)] = "main"
      BY DEF NoMailToHalted, Powered
    <2>1. TestSound(m) /\ 1 \in Boxes
      BY DEF MailInv, Boxes
    <2>2. taken[m][1] # << >>
      BY <2>1 DEF TestSound, PlaceSound
    <2>3. PICK j \in 1..Len(posted[m]) : posted[m][j].box = 1
      BY <2>1, <2>2, TakenWasPosted
    <2>4. AckSent(Peer(m))
      BY <2>1, <2>3 DEF TestSound, HeardSound
    <2>5. QED BY <2>4 DEF AckSent
  <1>2. QED BY <1>1, MailInvariant, PTL
=============================================================================
