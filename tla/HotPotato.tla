------------------------------ MODULE HotPotato ------------------------------
(***************************************************************************)
(* The game of TareasProgramadas/TP1 as its three programs promise it: the *)
(* players leave one at a time while there are at least two, and the one   *)
(* that is left wins, once.                                                *)
(***************************************************************************)
EXTENDS Integers, FiniteSets

CONSTANT Players

VARIABLES playing,   \* the players that have not gone out
          winners    \* the players announced as winners

Init == playing = Players /\ winners = {}

GoOut == \E p \in playing :
            /\ Cardinality(playing) > 1
            /\ playing' = playing \ {p} /\ UNCHANGED winners

Win == /\ Cardinality(playing) = 1 /\ winners = {}
       /\ winners' = playing /\ UNCHANGED playing

Spec == Init /\ [][GoOut \/ Win]_<<playing, winners>>
=============================================================================
