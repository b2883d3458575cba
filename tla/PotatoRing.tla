----------------------------- MODULE PotatoRing -----------------------------
(* What the three programs of the hot potato share: the ring and the potato. *)
EXTENDS Integers

CONSTANTS NumPlayers,    \* papa.players, papa.miembros
          Rotation,      \* papa.rotacion: -1 or 1
          FirstValue,    \* papa.value when the game starts
          ResetValues    \* what rand_r(&seed) % MAXRANDOM gives the players

ASSUME RingConstants ==
    /\ NumPlayers \in Nat \ {0} /\ Rotation \in {-1, 1}
    /\ FirstValue \in Nat \ {0} /\ ResetValues \subseteq Nat \ {0}

Players == 0 .. NumPlayers - 1

(* The remainder of C, which keeps the sign, and the repair of -1. *)
Step(p, d) == IF p + d = -1 THEN NumPlayers - 1 ELSE (p + d) % NumPlayers

NextProcess(p) == Step(p, Rotation)

Collatz(value) == IF value % 2 = 1 THEN 3 * value + 1 ELSE value \div 2

Papa(players, value) == [players |-> players, value |-> value]
=============================================================================
