-------------------------------- MODULE Disk --------------------------------
(***************************************************************************)
(* machine/disk.cc with filesys/synchdisk.cc: the simulated disk, which    *)
(* moves the data of a request at once and interrupts later, and the       *)
(* synchronous interface over it, whose lock admits one request at a time  *)
(* and whose semaphore holds the caller until the interrupt.  The lock and *)
(* the semaphore are those of modules Monitor and Semaphore; here a lock   *)
(* is its holder and a semaphore its value.  One access is                 *)
(*      Access      lock->Acquire, Disk::ReadRequest or WriteRequest       *)
(*      RequestDone the interrupt: active is reset, semaphore->V           *)
(*      Return      semaphore->P falls through, lock->Release              *)
(* The module also holds the arithmetic of a request's latency.            *)
(***************************************************************************)
EXTENDS Integers, FiniteSets

CONSTANTS Threads,          \* the kernel threads that use the disk
          NoThread,         \* no thread: the lock is free
          NumSectors,       \* sectors of the disk
          SectorsPerTrack,  \* sectors of a track
          SeekTime,         \* ticks of a seek over one track
          RotationTime      \* ticks a sector takes to pass under the head

ASSUME DiskConstants ==
    /\ NoThread \notin Threads
    /\ {NumSectors, SectorsPerTrack, SeekTime, RotationTime} \subseteq Nat \ {0}
    /\ NumSectors % SectorsPerTrack = 0

VARIABLES content,    \* the sectors of the host file
          active,     \* Disk::active, a request has not been interrupted for
          lock,       \* the holder of SynchDisk::lock, or NoThread
          semaphore   \* the value of SynchDisk::semaphore

diskVars == <<content, active, lock, semaphore>>

Sectors == 0 .. NumSectors - 1

-----------------------------------------------------------------------------
(* The constructors of Disk and SynchDisk. *)
DiskInit == active = FALSE /\ lock = NoThread /\ semaphore = 0

DiskReset == active' = FALSE /\ lock' = NoThread /\ semaphore' = 0

(* ReadRequest leaves the sectors alone, WriteRequest replaces one. *)
ReadSector(t) ==
    /\ lock = NoThread
    /\ lock' = t /\ active' = TRUE
    /\ UNCHANGED <<content, semaphore>>

(* The lock is taken only around the transfer, not until the interrupt. *)
WriteSectorUnlocked(t, s, data) ==
    /\ lock \in {NoThread} \union Threads
    /\ lock' = t /\ active' = TRUE
    /\ content' = [content EXCEPT ![s] = data]
    /\ UNCHANGED semaphore

WriteSector(t, s, data) ==
    /\ lock = NoThread
    /\ lock' = t /\ active' = TRUE
    /\ content' = [content EXCEPT ![s] = data]
    /\ UNCHANGED semaphore

RequestDone ==
    /\ active
    /\ active' = FALSE /\ semaphore' = semaphore + 1
    /\ UNCHANGED <<content, lock>>

Return(t) ==
    /\ lock = t /\ semaphore > 0
    /\ semaphore' = semaphore - 1 /\ lock' = NoThread
    /\ UNCHANGED <<content, active>>

-----------------------------------------------------------------------------
(* Latency.  last and bufferInit are the fields of Disk, now is totalTicks. *)

Track(s) == s \div SectorsPerTrack

Distance(a, b) == IF a < b THEN b - a ELSE a - b

TimeToSeek(last, new) == Distance(Track(last), Track(new)) * SeekTime

(* Until the next sector boundary after the seek. *)
Rotation(now, seek) ==
    LET over == (now + seek) % RotationTime
    IN  IF over > 0 THEN RotationTime - over ELSE 0

(* The delay is counted from the target back to the head. *)
ModuloDiffBack(to, from) ==
    (((from % SectorsPerTrack) - (to % SectorsPerTrack)) + SectorsPerTrack)
        % SectorsPerTrack

ModuloDiff(to, from) ==
    (((to % SectorsPerTrack) - (from % SectorsPerTrack)) + SectorsPerTrack)
        % SectorsPerTrack

Buffered(now, last, bufferInit, new) ==
    LET seek == TimeToSeek(last, new)
        timeAfter == now + seek + Rotation(now, seek)
    IN  /\ seek = 0
        /\ (timeAfter - bufferInit) \div RotationTime
              > ModuloDiff(new, bufferInit \div RotationTime)

ComputeLatency(now, last, bufferInit, new, writing) ==
    LET seek == TimeToSeek(last, new)
        rotation == Rotation(now, seek)
        timeAfter == now + seek + rotation
    IN  IF ~writing /\ Buffered(now, last, bufferInit, new)
        THEN RotationTime
        ELSE seek + rotation + RotationTime
                + ModuloDiff(new, timeAfter \div RotationTime) * RotationTime

(* UpdateLast: the buffer starts again when the head reaches the track. *)
UpdateLast(now, last, bufferInit, new) ==
    LET seek == TimeToSeek(last, new)
    IN  [last |-> new,
         bufferInit |-> IF seek = 0 THEN bufferInit
                                    ELSE now + seek + Rotation(now, seek)]

-----------------------------------------------------------------------------
(***************************************************************************)
(* The track turns so that during ticks [k*RotationTime, (k+1)*RotationTime)*)
(* the sector of offset k % SectorsPerTrack is under the head.             *)
(***************************************************************************)
PassesAt(s, k) == k % SectorsPerTrack = s % SectorsPerTrack

(* The sector s is under the head, whole, within the ticks from .. to. *)
Passed(s, from, to) ==
    \E k \in 0 .. to \div RotationTime :
        /\ PassesAt(s, k)
        /\ from <= k * RotationTime /\ (k + 1) * RotationTime <= to

(***************************************************************************)
(* The latency the disk charges is the physical one: a request that does   *)
(* not come from the track buffer ends when its sector has just passed for *)
(* the first time since the end of the seek, a read comes from the buffer  *)
(* exactly when the sector passed whole since the head reached the track,  *)
(* and the next request finds the buffer described by UpdateLast.  The     *)
(* claim covers requests one after another from a fresh disk, up to        *)
(* horizon ticks.                                                          *)
(***************************************************************************)
LatencyExactUpTo(horizon) ==
    \A now \in 0 .. horizon, last, new \in Sectors, arrived \in 0 .. horizon :
        LET bufferInit == arrived * RotationTime
            seek == TimeToSeek(last, new)
            Ends(w) == now + ComputeLatency(now, last, bufferInit, new, w)
            after == UpdateLast(now, last, bufferInit, new)
        IN  bufferInit <= now =>
              /\ Passed(new, now + seek, Ends(TRUE))
              /\ ~ Passed(new, now + seek, Ends(TRUE) - 1)
              /\ Ends(FALSE) =
                    IF seek = 0 /\ Passed(new, bufferInit, now + Rotation(now, 0))
                    THEN now + RotationTime ELSE Ends(TRUE)
              /\ after.bufferInit % RotationTime = 0
=============================================================================
