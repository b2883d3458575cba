----------------------------- MODULE FileSystem -----------------------------
(***************************************************************************)
(* filesys/: the directory, the free map, file headers and open files over *)
(* the synchronous disk.  An operation of FileSystem or OpenFile is run by *)
(* a thread as the sequence of its sector accesses, so that other threads  *)
(* and a crash of the machine fall between any two of them.                *)
(*                                                                         *)
(* Sectors hold headers, the free map, halves of the directory and data.   *)
(* The directory takes two sectors: DirectoryEntry is 20 bytes long, so    *)
(* that one entry (Split) has its inUse and sector fields in the first     *)
(* sector and its name in the second.                                      *)
(*                                                                         *)
(* Assumed of the threads: only one of them is in Create, Open or Remove   *)
(* at a time (the comment of FileSystem::Create), a file is written by one *)
(* thread at a time, and it is closed before it is removed.                *)
(***************************************************************************)
EXTENDS Disk, Sequences

CONSTANTS SectorSize,     \* bytes of a sector
          NumDirEntries,  \* entries of the directory
          Split,          \* the entry that lies across the two sectors
          Names,          \* file names, distinct in their first nine characters
          Sizes,          \* sizes passed to Create, none above MaxFileSize
          Creators,       \* the threads that create and remove files
          Users,          \* the threads that open, read and write files
          Requests,       \* numbers of bytes passed to Read and Write
          Positions,      \* positions passed to Seek
          Values          \* values of bytes written; Junk is any other

ASSUME FileConstants ==
    /\ Creators \union Users = Threads
    /\ SectorSize \in Nat \ {0}
    /\ NumDirEntries \in Nat /\ Split \in 0 .. NumDirEntries - 1
    /\ Sizes \union Requests \union Positions \subseteq Nat
    /\ Values \subseteq Nat \ {0} /\ NumSectors > 5

VARIABLES thread,   \* the operation each thread is in
          handle,   \* the OpenFile each thread has, or Closed
          up,       \* the machine runs
          torn,     \* the disk is not formatted, or a crash cut in two the
                    \* write back of directory and map
          formatting  \* the next sector FileSystem(true) writes, or FormatEnd

vars == <<diskVars, thread, handle, up, torn, formatting>>

-----------------------------------------------------------------------------
(* Bitmaps are the sets of their marked bits. *)

NumClear(map) == Cardinality(Sectors \ map)

Lowest(S) == CHOOSE i \in S : \A j \in S : i <= j

(* The sectors that k calls of Find return: the lowest clear ones, in order. *)
FindAll(map, k) ==
    [i \in 1 .. k |-> CHOOSE s \in Sectors \ map :
                        Cardinality({r \in Sectors \ map : r < s}) = i - 1]

Marked(s) == {s[i] : i \in DOMAIN s}

DivRoundUp(n, s) == (n + s - 1) \div s

(* FileHeader *)
Header(size, sectors) == [kind |-> "header", numBytes |-> size, dataSectors |-> sectors]

ByteToSector(hdr, offset) == hdr.dataSectors[(offset \div SectorSize) + 1]

Allocate(map, size) ==
    LET numSectors == DivRoundUp(size, SectorSize)
    IN  IF NumClear(map) < numSectors THEN {}
        ELSE {Header(size, FindAll(map, numSectors))}

Deallocate(map, hdr) == map \ Marked(hdr.dataSectors)

(* Directory.  A table maps an entry to [inUse, sector, name]. *)
Entries == 0 .. NumDirEntries - 1

FindIndex(table, n) == {i \in Entries : table[i].inUse /\ table[i].name = n}

FreeEntries(table) == {i \in Entries : ~ table[i].inUse}

Add(table, n, s) ==
    [table EXCEPT ![Lowest(FreeEntries(table))] =
        [inUse |-> TRUE, sector |-> s, name |-> n]]

RemoveEntry(table, n) == [table EXCEPT ![Lowest(FindIndex(table, n))].inUse = FALSE]

-----------------------------------------------------------------------------
(* The layout FileSystem(true) gives a disk. *)

FreeMapSector   == 0
DirectorySector == 1
MapData  == 2
DirData1 == 3
DirData2 == 4
System   == 0 .. 4

(* The two sectors of a directory, and the directory they hold. *)
FirstHalf(table) ==
    [kind |-> "directory",
     place |-> [i \in 0 .. Split |-> <<table[i].inUse, table[i].sector>>],
     name |-> [i \in 0 .. Split - 1 |-> table[i].name]]

SecondHalf(table) ==
    [kind |-> "directory",
     place |-> [i \in Split + 1 .. NumDirEntries - 1 |-> <<table[i].inUse, table[i].sector>>],
     name |-> [i \in Split .. NumDirEntries - 1 |-> table[i].name]]

TableOf(half1, half2) ==
    LET Place(i) == IF i <= Split THEN half1.place[i] ELSE half2.place[i]
        Name(i) == IF i < Split THEN half1.name[i] ELSE half2.name[i]
    IN  [i \in Entries |->
            [inUse |-> Place(i)[1], sector |-> Place(i)[2], name |-> Name(i)]]

FreeMap(map) == [kind |-> "map", bits |-> map]

Junk == 0

NoName == "none"

Data(bytes) == [kind |-> "data", bytes |-> bytes]

(* What a sector that is read as data holds at an offset. *)
ByteAt(data, i) == IF data.kind = "data" THEN data.bytes[i] ELSE Junk

Blank == Data([i \in 0 .. SectorSize - 1 |-> Junk])

(* What FileSystem(true) writes, in the order of the sectors: the headers of
   map and directory, the map and an empty directory. *)
Layout ==
    LET empty == [i \in Entries |-> [inUse |-> FALSE, sector |-> 0, name |-> NoName]]
    IN  [s \in System |->
            CASE s = FreeMapSector   -> Header(SectorSize, <<MapData>>)
              [] s = DirectorySector -> Header(2 * SectorSize, <<DirData1, DirData2>>)
              [] s = MapData         -> FreeMap(System)
              [] s = DirData1        -> FirstHalf(empty)
              [] s = DirData2        -> SecondHalf(empty)]

FormatEnd == 5

-----------------------------------------------------------------------------
(***************************************************************************)
(* A thread: the operation, the file name and its parameters, the step it  *)
(* is at, the accesses of that step still to be made, and what it has read *)
(* so far (sector -> data).                                                *)
(***************************************************************************)
Quiet == [op |-> "none", step |-> "none", todo |-> << >>]

Closed == [name |-> NoName]

R(s) == [sector |-> s, writes |-> FALSE]
W(s, data) == [sector |-> s, writes |-> TRUE, data |-> data]

FetchDirectory == <<R(DirData1), R(DirData2)>>

(* WriteAt of the whole table: its last sector is partly written, and is
   read first. *)
WriteBackDirectory(table) ==
    <<R(DirData2), W(DirData1, FirstHalf(table)), W(DirData2, SecondHalf(table))>>

Metadata == {MapData, DirData1, DirData2}

(* The metadata t has still to write, when it is writing. *)
ToWrite(t) == {a.sector : a \in {thread[t].todo[i] : i \in
                  {j \in DOMAIN thread[t].todo : thread[t].todo[j].writes}}}

(* t has written part of the directory and the map, and not the rest. *)
Window(t) ==
    /\ thread[t].step = "flush"
    /\ ToWrite(t) \intersect Metadata \notin {{}, Metadata}

-----------------------------------------------------------------------------
Init ==
    /\ content = [s \in Sectors |-> Blank] /\ DiskInit
    /\ thread = [t \in Threads |-> Quiet] /\ handle = [t \in Threads |-> Closed]
    /\ up = FALSE /\ torn = TRUE /\ formatting = FormatEnd

(* FileSystem::FileSystem(false), on a disk that is not torn: nobody starts
   from a torn one without formatting it. *)
Boot ==
    /\ ~ up /\ ~ torn
    /\ up' = TRUE
    /\ UNCHANGED <<diskVars, thread, handle, torn, formatting>>

(* FileSystem::FileSystem(true) begins.  From here on the old files are lost. *)
StartFormat ==
    /\ ~ up /\ formatting = FormatEnd
    /\ torn' = TRUE /\ formatting' = 0
    /\ UNCHANGED <<diskVars, thread, handle, up>>

(* It writes its next sector, no other thread being there to use the disk; after
   the last one the machine is up. *)
FormatSector ==
    /\ formatting # FormatEnd
    /\ content' = [content EXCEPT ![formatting] = Layout[formatting]]
    /\ formatting' = formatting + 1
    /\ up' = (formatting' = FormatEnd) /\ torn' = (formatting' # FormatEnd)
    /\ UNCHANGED <<active, lock, semaphore, thread, handle>>

(* The machine stops; the host file keeps what was transferred to it. *)
Crash ==
    /\ up \/ formatting # FormatEnd
    /\ up' = FALSE /\ torn' = (torn \/ \E t \in Threads : Window(t))
    /\ formatting' = FormatEnd
    /\ DiskReset /\ UNCHANGED content
    /\ thread' = [t \in Threads |-> Quiet] /\ handle' = [t \in Threads |-> Closed]

(* What has been read, with one more sector. *)
Noted(got, s, data) ==
    [x \in DOMAIN got \union {s} |-> IF x = s THEN data ELSE got[x]]

(* The next sector access of t's step. *)
Access(t) ==
    /\ up /\ thread[t].todo # << >>
    /\ LET a == Head(thread[t].todo)
       IN  /\ IF a.writes THEN WriteSector(t, a.sector, a.data) ELSE ReadSector(t)
           /\ thread' = [thread EXCEPT
                 ![t].todo = Tail(@),
                 ![t].got = IF a.writes THEN @ ELSE Noted(@, a.sector, content[a.sector])]
    /\ UNCHANGED <<handle, up, torn, formatting>>

Interrupted == RequestDone /\ UNCHANGED <<thread, handle, up, torn, formatting>>

Returned(t) == Return(t) /\ UNCHANGED <<thread, handle, up, torn, formatting>>

(* t's current step is over: its accesses have all returned. *)
At(t, op, step) ==
    /\ thread[t].op = op /\ thread[t].step = step
    /\ thread[t].todo = << >> /\ lock # t

Goto(t, step, todo) ==
    thread' = [thread EXCEPT ![t].step = step, ![t].todo = todo]

Table(t) == TableOf(thread[t].got[DirData1], thread[t].got[DirData2])

-----------------------------------------------------------------------------
(* Create, Open and Remove. *)

Directing == {"create", "open", "remove"}

Call(t, op, n, size) ==
    /\ up /\ thread[t] = Quiet
    /\ \A u \in Threads : thread[u].op \notin Directing
    /\ thread' = [thread EXCEPT ![t] =
          [op |-> op, step |-> "lookup", todo |-> FetchDirectory,
           got |-> << >>, name |-> n, size |-> size]]
    /\ UNCHANGED <<diskVars, handle, up, torn, formatting>>

Create(t, n, size) == Call(t, "create", n, size)

Open(t, n) == handle[t] = Closed /\ Call(t, "open", n, 0)

Remove(t, n) ==
    /\ \A u \in Threads : handle[u].name # n
    /\ Call(t, "remove", n, 0)

Finish(t) == thread' = [thread EXCEPT ![t] = Quiet]

(* The name has been looked up. *)
LookedUp(t) ==
    LET at == FindIndex(Table(t), thread[t].name)
        sector == Table(t)[Lowest(at)].sector
    IN  /\ \/ /\ At(t, "create", "lookup")
              /\ IF at # {} THEN Finish(t) ELSE Goto(t, "space", <<R(MapData)>>)
           \/ /\ At(t, "open", "lookup")
              /\ IF at = {} THEN Finish(t) ELSE Goto(t, "header", <<R(sector)>>)
           \/ /\ At(t, "remove", "lookup")
              /\ IF at = {} THEN Finish(t)
                            ELSE Goto(t, "space", <<R(sector), R(MapData)>>)
        /\ UNCHANGED <<diskVars, handle, up, torn, formatting>>

CreateWith(t, map) ==
    IF map = Sectors \/ FreeEntries(Table(t)) = {} THEN Finish(t)
    ELSE LET sector == Lowest(Sectors \ map)
             hdrs == Allocate(map \union {sector}, thread[t].size)
         IN  IF hdrs = {} THEN Finish(t)
             ELSE LET hdr == CHOOSE h \in hdrs : TRUE
                      taken == map \union {sector} \union Marked(hdr.dataSectors)
                  IN  Goto(t, "flush",
                         <<W(sector, hdr)>>
                         \o WriteBackDirectory(Add(Table(t), thread[t].name, sector))
                         \o <<W(MapData, FreeMap(taken))>>)

(* Only the data blocks are given back. *)
FreedData(map, sector, hdr) == Deallocate(map, hdr)

(* The bitmap that Remove writes back. *)
Freed(map, sector, hdr) == Deallocate(map, hdr) \ {sector}

RemoveWith(t, map) ==
    LET sector == Table(t)[Lowest(FindIndex(Table(t), thread[t].name))].sector
        hdr == thread[t].got[sector]
    IN  /\ Marked(hdr.dataSectors) \subseteq map       \* ASSERT of Deallocate
        /\ Goto(t, "flush",
              <<W(MapData, FreeMap(Freed(map, sector, hdr)))>>
              \o WriteBackDirectory(RemoveEntry(Table(t), thread[t].name)))

(* Directory, header and free map are in memory: the operation decides. *)
Decide(t) ==
    LET map == thread[t].got[MapData].bits
    IN  /\ \/ At(t, "create", "space") /\ CreateWith(t, map)
           \/ At(t, "remove", "space") /\ RemoveWith(t, map)
        /\ UNCHANGED <<diskVars, handle, up, torn, formatting>>

Flushed(t) ==
    /\ At(t, "create", "flush") \/ At(t, "remove", "flush")
    /\ Finish(t) /\ UNCHANGED <<diskVars, handle, up, torn, formatting>>

(* OpenFile::OpenFile *)
Opened(t) ==
    /\ At(t, "open", "header")
    /\ LET sector == Table(t)[Lowest(FindIndex(Table(t), thread[t].name))].sector
       IN  handle' = [handle EXCEPT ![t] =
              [name |-> thread[t].name, hdr |-> thread[t].got[sector], seekPosition |-> 0]]
    /\ Finish(t) /\ UNCHANGED <<diskVars, up, torn, formatting>>

-----------------------------------------------------------------------------
(* OpenFile *)

Close(t) ==
    /\ up /\ thread[t] = Quiet /\ handle[t] # Closed
    /\ handle' = [handle EXCEPT ![t] = Closed]
    /\ UNCHANGED <<diskVars, thread, up, torn, formatting>>

Seek(t, position) ==
    /\ up /\ thread[t] = Quiet /\ handle[t] # Closed
    /\ handle' = [handle EXCEPT ![t].seekPosition = position]
    /\ UNCHANGED <<diskVars, thread, up, torn, formatting>>

(* The bytes a request for numBytes at position is cut to, 0 when refused. *)
Cut(hdr, numBytes, position) ==
    IF numBytes <= 0 \/ position >= hdr.numBytes THEN 0
    ELSE IF position + numBytes > hdr.numBytes THEN hdr.numBytes - position
    ELSE numBytes

FirstSector(position) == position \div SectorSize

LastSector(position, numBytes) == (position + numBytes - 1) \div SectorSize

(* The last sector is not read when the first one is. *)
ReadFirstOnce(position, numBytes) ==
    LET first == FirstSector(position)
        last == LastSector(position, numBytes)
        firstAligned == position = first * SectorSize
        lastAligned == position + numBytes = (last + 1) * SectorSize
    IN  IF ~ firstAligned THEN <<first>>
        ELSE IF ~ lastAligned THEN <<last>> ELSE << >>

(* The sectors (as indices into the file) that WriteAt reads first: the ones
   it changes only in part. *)
ReadFirst(position, numBytes) ==
    LET first == FirstSector(position)
        last == LastSector(position, numBytes)
        firstAligned == position = first * SectorSize
        lastAligned == position + numBytes = (last + 1) * SectorSize
    IN  (IF ~ firstAligned THEN <<first>> ELSE << >>)
        \o (IF ~ lastAligned /\ (first # last \/ firstAligned) THEN <<last>> ELSE << >>)

Reads(hdr, indices) ==
    [k \in DOMAIN indices |-> R(ByteToSector(hdr, indices[k] * SectorSize))]

Span(position, numBytes) ==
    [k \in 1 .. 1 + LastSector(position, numBytes) - FirstSector(position) |->
        FirstSector(position) + k - 1]

Read(t, numBytes) ==
    LET h == handle[t]
        n == Cut(h.hdr, numBytes, h.seekPosition)
    IN  /\ up /\ thread[t] = Quiet /\ h # Closed
        /\ n > 0
        /\ thread' = [thread EXCEPT ![t] =
              [op |-> "read", step |-> "data", got |-> << >>, size |-> n,
               todo |-> Reads(h.hdr, Span(h.seekPosition, n))]]
        /\ UNCHANGED <<diskVars, handle, up, torn, formatting>>

Write(t, numBytes, value) ==
    LET h == handle[t]
        n == Cut(h.hdr, numBytes, h.seekPosition)
    IN  /\ up /\ thread[t] = Quiet /\ h # Closed
        /\ \A u \in Threads : thread[u].op = "write" => handle[u].name # h.name
        /\ n > 0
        /\ thread' = [thread EXCEPT ![t] =
              [op |-> "write", step |-> "data", got |-> << >>, size |-> n, value |-> value,
               todo |-> Reads(h.hdr, ReadFirst(h.seekPosition, n))]]
        /\ UNCHANGED <<diskVars, handle, up, torn, formatting>>

(* The buffer of WriteAt for the i-th sector of the file.  ReadAt filled it up
   to the end of the file, where the sector was read. *)
Buffer(t, i) ==
    LET h == handle[t]
        s == ByteToSector(h.hdr, i * SectorSize)
        Offset(k) == i * SectorSize + k
    IN  Data([k \in 0 .. SectorSize - 1 |->
          IF Offset(k) \in h.seekPosition .. h.seekPosition + thread[t].size - 1
          THEN thread[t].value
          ELSE IF s \in DOMAIN thread[t].got /\ Offset(k) < h.hdr.numBytes
          THEN ByteAt(thread[t].got[s], k)
          ELSE Junk])

WriteAll(t) ==
    LET h == handle[t]
        span == Span(h.seekPosition, thread[t].size)
    IN  /\ At(t, "write", "data")
        /\ Goto(t, "flush",
              [k \in DOMAIN span |-> W(ByteToSector(h.hdr, span[k] * SectorSize),
                                       Buffer(t, span[k]))])
        /\ UNCHANGED <<diskVars, handle, up, torn, formatting>>

(* seekPosition moves past what was transferred. *)
Transferred(t) ==
    /\ At(t, "read", "data") \/ At(t, "write", "flush")
    /\ handle' = [handle EXCEPT ![t].seekPosition = @ + thread[t].size]
    /\ Finish(t) /\ UNCHANGED <<diskVars, up, torn, formatting>>

-----------------------------------------------------------------------------
Next ==
    \/ Boot \/ StartFormat \/ FormatSector
    \/ Crash
    \/ Interrupted
    \/ \E t \in Threads :
          \/ Access(t) \/ Returned(t) \/ LookedUp(t) \/ Decide(t) \/ Flushed(t)
          \/ Opened(t) \/ WriteAll(t) \/ Transferred(t)
    \/ \E t \in Creators, n \in Names :
          Remove(t, n) \/ \E s \in Sizes : Create(t, n, s)
    \/ \E t \in Users :
          \/ \E n \in Names : Open(t, n)
          \/ Close(t)
          \/ \E p \in Positions : Seek(t, p)
          \/ \E k \in Requests : Read(t, k) \/ \E v \in Values : Write(t, k, v)

Spec == Init /\ [][Next]_vars

-----------------------------------------------------------------------------
DiskTable == TableOf(content[DirData1], content[DirData2])

(* All the sectors of the file whose header is in the given one. *)
Extent(sector) == {sector} \union Marked(content[sector].dataSectors)

(***************************************************************************)
(* Whenever no Create or Remove is between its two write backs, so at      *)
(* every other moment at which the machine may stop, the disk is sound:    *)
(* every name leads to a file header, no sector belongs to two files, and  *)
(* the free map marks exactly the sectors of the system and of the files.  *)
(* Every failed Create leaves it so.                                       *)
(***************************************************************************)
SpaceExact ==
    (~ torn /\ \A t \in Threads : ~ Window(t)) =>
        LET table == DiskTable
            used == {i \in Entries : table[i].inUse}
            owns == [i \in used |-> Extent(table[i].sector)]
        IN  /\ \A i \in used : content[table[i].sector].kind = "header"
            /\ \A i, j \in used : i # j =>
                  owns[i] \intersect owns[j] = {} /\ table[i].name # table[j].name
            /\ content[MapData].bits = System \union UNION {owns[i] : i \in used}

(***************************************************************************)
(* Disk::ReadRequest and WriteRequest assert that no request is active:    *)
(* the lock is free only when the disk is idle and no interrupt is still   *)
(* to be consumed, and an interrupt is never left for the next caller.     *)
(***************************************************************************)
OneRequest ==
    /\ lock = NoThread => ~ active /\ semaphore = 0
    /\ semaphore <= 1 /\ (active => semaphore = 0)

(***************************************************************************)
(* Create and Remove take effect at their last write, a write at each of   *)
(* its sectors: until then the files are those of the directory it read.   *)
(***************************************************************************)
VisibleTable ==
    IF \E t \in Threads : Window(t)
    THEN Table(CHOOSE t \in Threads : Window(t))
    ELSE DiskTable

FilesOn ==
    LET table == IF torn THEN << >> ELSE VisibleTable
        used == {i \in DOMAIN table : table[i].inUse}
        HeaderOf(n) == content[table[Lowest({i \in used : table[i].name = n})].sector]
        BytesOf(hdr) == [o \in 0 .. hdr.numBytes - 1 |->
                            ByteAt(content[ByteToSector(hdr, o)], o % SectorSize)]
    IN  [n \in {table[i].name : i \in used} |-> BytesOf(HeaderOf(n))]
=============================================================================
