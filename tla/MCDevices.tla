----------------------------- MODULE MCDevices -----------------------------
(***************************************************************************)
(* The instances of FileSystem and PostOffice that TLC checks, one of      *)
(* which is chosen at the start: the kernel's use of the disk, or that of  *)
(* the network.                                                            *)
(***************************************************************************)
EXTENDS FileSystem, PostOffice, TLC

CONSTANT Horizon    \* ticks for which the latencies are compared

VARIABLES subject,  \* the module that runs; the other stays at its start
          files     \* FilesOn, computed once for each state

MCVars == <<subject, vars, files, mailVars>>

MCInit ==
    /\ Init /\ files = FilesOn /\ MailInit
    /\ subject \in {"files", "post"}

FileStep ==
    subject = "files" /\ Next /\ files' = FilesOn' /\ UNCHANGED <<subject, mailVars>>

MailStep ==
    subject = "post" /\ MailNext /\ UNCHANGED <<subject, vars, files>>

(* With the fairness of PostOffice. *)
MCSpec ==
    /\ MCInit /\ [][FileStep \/ MailStep]_MCVars
    /\ subject = "post" => Fairness

(* PostOffice.MailTestEnds: both machines finish the test of nettest.cc unless
   the network drops a packet of it. *)
MailTestOver == subject = "post" => MailTestEnds

Store == INSTANCE FileStore WITH
    Bytes <- Values \union {Junk},
    running <- up,
    updating <- \E t \in Threads : Window(t)

(***************************************************************************)
(* The file system keeps every file: what filesys/ does to the disk, with  *)
(* crashes between any two sectors, is what FileStore allows.  Files go    *)
(* when the disk is formatted, at a restart, and when the machine stops    *)
(* between the two write backs of a Create or Remove; at no other moment.  *)
(***************************************************************************)
ImplementsFileStore == Store!Spec

(* No name occurs in a state of the post office, so that the liveness of its
   test is not affected. *)
Symmetry == Permutations(Names)

(***************************************************************************)
(* What no operation and no property tells apart is left out of the        *)
(* fingerprint: a disk that will be formatted, the bytes of free sectors   *)
(* (those of a new file are unspecified), the fields of free directory     *)
(* entries, and a thread's copies of what is on the disk.                  *)
(***************************************************************************)
DiskView ==
    [sector |-> [s \in content[MapData].bits \ Metadata |-> content[s]],
     table  |-> [i \in Entries |->
                    IF DiskTable[i].inUse THEN DiskTable[i] ELSE [inUse |-> FALSE]]]

View == <<subject, mailVars, up, torn, formatting, IF torn THEN << >> ELSE DiskView, active, lock, semaphore, handle,
          [t \in Threads |->
             [field \in DOMAIN thread[t] \ {"got"} |->
                 IF field = "todo" THEN Len(thread[t].todo) ELSE thread[t][field]]]>>

(* The latency of every request the disk of this instance can get; it is the
   same in every state and asked in one. *)
LatencyExact ==
    (subject = "files" /\ content = [s \in Sectors |-> Blank]) => LatencyExactUpTo(Horizon)
=============================================================================
