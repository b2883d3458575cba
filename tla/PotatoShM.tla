------------------------------ MODULE PotatoShM ------------------------------
(***************************************************************************)
(* TP1/ShM: a process for each player, the potato in shared memory and one *)
(* host semaphore for each player and for the main process.  The winner    *)
(* leaves a negative potato, which the players that are out pass on as     *)
(* they stop; the main process then removes the semaphores.                *)
(*                                                                         *)
(* The constructor calls semctl(id, 0, SETVAL) without its fourth argument,*)
(* so the value of semaphore 0 is whatever the call finds: one of Leftover *)
(* (0 where the host refuses the value or the set is new).  The            *)
(* adjustment that SEM_UNDO makes when a player exits is to a semaphore    *)
(* only that player waits for, and is left out.                            *)
(***************************************************************************)
EXTENDS PotatoRing

CONSTANT Leftover    \* values semaphore 0 may start with

VARIABLES sem,       \* the semaphores
          removed,   \* they have been removed: Wait and Signal fail at once
          papa,      \* the potato
          live,      \* ply_data.live
          pc,        \* where each process is
          winners    \* the processes announced as winners

shmVars == <<sem, removed, papa, live, pc, winners>>

Main == NumPlayers

Init ==
    /\ \E v \in Leftover : sem = [p \in 0 .. Main |-> IF p = 0 THEN v ELSE 0]
    /\ removed = FALSE
    /\ papa = Papa(NumPlayers, FirstValue)
    /\ live = [p \in Players |-> TRUE]
    /\ pc = [p \in 0 .. Main |-> IF p = Main THEN "start" ELSE "wait"]
    /\ winners = {}

Signal(p) == sem' = IF removed THEN sem ELSE [sem EXCEPT ![p] = @ + 1]

Signal2(p, q) ==
    sem' = IF removed THEN sem
           ELSE [r \in 0 .. Main |-> sem[r] + (IF r = p THEN 1 ELSE 0)
                                            + (IF r = q THEN 1 ELSE 0)]

Wait(p) ==
    /\ pc[p] = "wait" /\ (removed \/ sem[p] > 0)
    /\ sem' = IF removed THEN sem ELSE [sem EXCEPT ![p] = @ - 1]
    /\ pc' = [pc EXCEPT ![p] = IF p = Main THEN "exit" ELSE "turn"]
    /\ UNCHANGED <<removed, papa, live, winners>>

TurnWins(p) ==
    /\ pc[p] = "turn" /\ live[p] /\ papa.players = 1
    /\ winners' = winners \union {p}
    /\ papa' = [papa EXCEPT !.value = -1]
    /\ Signal(NextProcess(p))
    /\ pc' = [pc EXCEPT ![p] = "end"]
    /\ UNCHANGED <<removed, live>>

TurnPlays(p) ==
    /\ pc[p] = "turn" /\ live[p] /\ papa.players # 1
    /\ LET value == Collatz(papa.value)
       IN  IF value # 1
           THEN papa' = [papa EXCEPT !.value = value] /\ UNCHANGED live
           ELSE /\ live' = [live EXCEPT ![p] = FALSE]
                /\ \E v \in ResetValues : papa' = Papa(papa.players - 1, v)
    /\ Signal(NextProcess(p))
    /\ pc' = [pc EXCEPT ![p] = "wait"]
    /\ UNCHANGED <<removed, winners>>

(* A player that is out stops when it sees that the game is over. *)
TurnOut(p) ==
    /\ pc[p] = "turn" /\ ~ live[p]
    /\ IF papa.value < 0
       THEN Signal2(p, NextProcess(p)) /\ pc' = [pc EXCEPT ![p] = "end"]
       ELSE Signal(NextProcess(p)) /\ pc' = [pc EXCEPT ![p] = "wait"]
    /\ UNCHANGED <<removed, papa, live, winners>>

(* main after persona: the winner wakes the main process. *)
End(p) ==
    /\ pc[p] = "end"
    /\ IF live[p] THEN Signal(Main) ELSE UNCHANGED sem
    /\ pc' = [pc EXCEPT ![p] = "gone"]
    /\ UNCHANGED <<removed, papa, live, winners>>

Start ==
    /\ pc[Main] = "start"
    /\ \E first \in Players : Signal(first)
    /\ pc' = [pc EXCEPT ![Main] = "wait"]
    /\ UNCHANGED <<removed, papa, live, winners>>

(* The destructors, in the process that created semaphores and memory. *)
Destroy ==
    /\ pc[Main] = "exit"
    /\ removed' = TRUE /\ pc' = [pc EXCEPT ![Main] = "gone"]
    /\ UNCHANGED <<sem, papa, live, winners>>

Process(p) == Wait(p) \/ TurnWins(p) \/ TurnPlays(p) \/ TurnOut(p) \/ End(p)

Next == Start \/ Wait(Main) \/ Destroy \/ \E p \in Players : Process(p)
=============================================================================
