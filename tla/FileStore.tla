------------------------------ MODULE FileStore ------------------------------
(***************************************************************************)
(* What filesys/ promises: named files of fixed size.  A file is there from *)
(* its creation to its removal, its size never changes, a write changes    *)
(* only the bytes it names in the file it names, and a restart changes     *)
(* nothing unless the disk is formatted or the machine had stopped in the  *)
(* middle of an update of the directory.                                   *)
(***************************************************************************)
EXTENDS Integers

CONSTANTS Names,      \* file names
          Sizes,      \* sizes in bytes
          Bytes       \* values of a byte

VARIABLES files,      \* name -> its bytes, for the files there are
          running,    \* the machine runs
          updating    \* a Create or Remove has begun to write

vars == <<files, running, updating>>

NoFiles == [n \in {} |-> {}]

Init == files = NoFiles /\ ~ running /\ ~ updating

(* old and new agree on the files named in S. *)
Keep(old, new, S) == \A n \in S : new[n] = old[n]

(* A new file holds whatever its sectors held. *)
Create(old, new) ==
    \E n \in Names \ DOMAIN old :
        /\ DOMAIN new = DOMAIN old \union {n}
        /\ Keep(old, new, DOMAIN old)
        /\ \E size \in Sizes : new[n] \in [0 .. size - 1 -> Bytes]

Remove(old, new) ==
    \E n \in DOMAIN old :
        /\ DOMAIN new = DOMAIN old \ {n}
        /\ Keep(old, new, DOMAIN new)

Begin ==
    /\ running /\ ~ updating
    /\ updating' = TRUE /\ UNCHANGED <<files, running>>

Commit ==
    /\ running /\ updating
    /\ Create(files, files') \/ Remove(files, files')
    /\ updating' = FALSE /\ UNCHANGED running

(* Consecutive bytes of one file take one value. *)
Write ==
    /\ running
    /\ DOMAIN files' = DOMAIN files
    /\ \E n \in DOMAIN files :
          /\ Keep(files, files', DOMAIN files \ {n})
          /\ DOMAIN files'[n] = DOMAIN files[n]
          /\ \E first, last \in DOMAIN files[n], b \in Bytes :
                files'[n] = [i \in DOMAIN files[n] |->
                               IF i \in first .. last THEN b ELSE files[n][i]]
    /\ UNCHANGED <<running, updating>>

(* The disk does not survive an update cut in two. *)
Stop ==
    /\ running
    /\ running' = FALSE /\ updating' = FALSE
    /\ files' = IF updating THEN NoFiles ELSE files

Format ==
    /\ ~ running
    /\ files' = NoFiles /\ UNCHANGED <<running, updating>>

Start ==
    /\ ~ running
    /\ running' = TRUE /\ UNCHANGED <<files, updating>>

Next == Begin \/ Commit \/ Write \/ Stop \/ Format \/ Start

Spec == Init /\ [][Next]_vars
=============================================================================
