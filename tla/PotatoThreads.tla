---------------------------- MODULE PotatoThreads ----------------------------
(***************************************************************************)
(* TP1/PThreads: a thread for each player, the potato in memory, and a     *)
(* mutex for each player that main locks before the thread starts, that    *)
(* the thread locks for its turn and that whoever passes the potato        *)
(* unlocks (a normal mutex of the host allows it).  A player that goes out *)
(* takes itself out of the ring.                                           *)
(***************************************************************************)
EXTENDS PotatoRing

VARIABLES locked,     \* the mutexes
          papa,       \* the potato
          siguiente,  \* the ring
          anterior,
          pc,         \* where each thread is
          joined,     \* threads main has joined with
          winners     \* the threads announced as winners

threadVars == <<locked, papa, siguiente, anterior, pc, joined, winners>>

Main == NumPlayers

Init ==
    /\ locked = [p \in Players |-> TRUE]
    /\ papa = Papa(NumPlayers, FirstValue)
    /\ siguiente = [p \in Players |-> Step(p, Rotation)]
    /\ anterior = [p \in Players |-> Step(p, -Rotation)]
    /\ pc = [p \in 0 .. Main |-> IF p = Main THEN "start" ELSE "wait"]
    /\ joined = 0 /\ winners = {}

Wait(p) ==
    /\ pc[p] = "wait" /\ ~ locked[p]
    /\ locked' = [locked EXCEPT ![p] = TRUE]
    /\ pc' = [pc EXCEPT ![p] = "turn"]
    /\ UNCHANGED <<papa, siguiente, anterior, joined, winners>>

Signal(p) == locked' = [locked EXCEPT ![p] = FALSE]

(* cambiarPapa *)
CambiarPapa(value) == Collatz(value)

(* The potato does not burst: it goes to the next player. *)
Pass(p) ==
    /\ pc[p] = "turn" /\ papa.players # 1 /\ CambiarPapa(papa.value) # 1
    /\ papa' = [papa EXCEPT !.value = CambiarPapa(@)]
    /\ Signal(siguiente[p]) /\ pc' = [pc EXCEPT ![p] = "wait"]
    /\ UNCHANGED <<siguiente, anterior, joined, winners>>

(* It bursts, or p is the last player. *)
Leave(p) ==
    /\ pc[p] = "turn" /\ (papa.players = 1 \/ CambiarPapa(papa.value) = 1)
    /\ LET left == papa.players - 1
           value == IF papa.players = 1 THEN papa.value ELSE 1
       IN  \/ /\ left = 1
              /\ papa' = Papa(left, value) /\ Signal(siguiente[p])
              /\ UNCHANGED <<siguiente, anterior, winners>>
           \/ /\ left = 0
              /\ papa' = Papa(left, value) /\ winners' = winners \union {p}
              /\ UNCHANGED <<locked, siguiente, anterior>>
           \/ /\ left > 1
              /\ \E v \in ResetValues : papa' = Papa(left, v)
              /\ siguiente' = [siguiente EXCEPT ![anterior[p]] = siguiente[p]]
              /\ anterior' = [anterior EXCEPT ![siguiente[p]] = anterior[p]]
              /\ Signal(siguiente[p]) /\ UNCHANGED winners
    /\ pc' = [pc EXCEPT ![p] = "gone"]
    /\ UNCHANGED joined

Start ==
    /\ pc[Main] = "start"
    /\ \E first \in Players : Signal(first)
    /\ pc' = [pc EXCEPT ![Main] = "join"]
    /\ UNCHANGED <<papa, siguiente, anterior, joined, winners>>

Join ==
    /\ pc[Main] = "join"
    /\ \/ /\ joined < NumPlayers /\ pc[joined] = "gone"
          /\ Signal(joined) /\ joined' = joined + 1 /\ UNCHANGED pc
       \/ /\ joined = NumPlayers
          /\ pc' = [pc EXCEPT ![Main] = "gone"] /\ UNCHANGED <<locked, joined>>
    /\ UNCHANGED <<papa, siguiente, anterior, winners>>

Process(p) == Wait(p) \/ Pass(p) \/ Leave(p)

Next == Start \/ Join \/ \E p \in Players : Process(p)
=============================================================================
