----------------------------- MODULE MCSyscalls -----------------------------
(* Small instances of Syscalls for TLC.                                    *)
EXTENDS Syscalls, TLC

\* Synchronization objects, the file table and the console mutex share nothing
\* but the threads.
ApartUses == {{"sync"}, {"files"}, {"console"}}

\* All threads play the same role.
Symmetry == Permutations(Thread)

\* Nothing happens after the end of the simulation.
View == IF halted THEN <<"halted">> ELSE sysVars
=============================================================================
