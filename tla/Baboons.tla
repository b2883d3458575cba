------------------------------ MODULE Baboons ------------------------------
(***************************************************************************)
(* CorrecionExamen1/Babuinos: baboons gather at N ropes; the one that      *)
(* makes them B lets everybody on the fullest rope cross.                  *)
(*                                                                         *)
(* Babuino::run holds the mutex from its first line to the wait, or to its *)
(* end, so that is one step; a notified baboon has only to get the mutex   *)
(* back.  The waits are in no loop, so that one that returns by itself, as *)
(* the language allows, lets its baboon cross early.  The counters keep it *)
(* until its rope is let go.                                               *)
(***************************************************************************)
EXTENDS Integers, FiniteSets

CONSTANTS Babuinos,   \* the threads (500 in main)
          N, B        \* ropes, and baboons that must gather

VARIABLES count,          \* SharedData
          countBabuinos,
          rope,           \* the rope a baboon came to
          pc              \* coming, waiting, notified, early, gone

baboonVars == <<count, countBabuinos, rope, pc>>

Ropes == 0 .. N - 1

Init ==
    /\ count = [r \in Ropes |-> 0] /\ countBabuinos = 0
    /\ rope = [b \in Babuinos |-> 0]
    /\ pc = [b \in Babuinos |-> "coming"]

(* The baboons in count[r]: came to r after it was last let go. *)
Counted(r) == {b \in Babuinos : pc[b] \in {"waiting", "early"} /\ rope[b] = r}

(* notify_all wakes those of them that still wait. *)
Notified(b) == IF pc[b] = "waiting" THEN "notified" ELSE "gone"

(* The first of the fullest ropes. *)
Mayor(c) ==
    CHOOSE r \in Ropes : /\ \A s \in Ropes : c[s] <= c[r]
                         /\ \A s \in Ropes : s < r => c[s] < c[r]

(* The rope is let go and keeps its count. *)
ReleaseUnreset(b, c, mayor) ==
    /\ count' = c
    /\ countBabuinos' = countBabuinos + 1 - c[mayor]
    /\ pc' = [a \in Babuinos |->
                CASE a = b -> IF mayor = rope'[b] THEN "gone" ELSE "waiting"
                  [] a # b /\ a \in Counted(mayor) -> Notified(a)
                  [] OTHER -> pc[a]]

(* b is the B-th: rope mayor is notified, and b waits unless it is its own. *)
Release(b, c, mayor) ==
    /\ count' = [c EXCEPT ![mayor] = 0]
    /\ countBabuinos' = countBabuinos + 1 - c[mayor]
    /\ pc' = [a \in Babuinos |->
                CASE a = b -> IF mayor = rope'[b] THEN "gone" ELSE "waiting"
                  [] a # b /\ a \in Counted(mayor) -> Notified(a)
                  [] OTHER -> pc[a]]

Run(b, cuerda) ==
    /\ pc[b] = "coming"
    /\ rope' = [rope EXCEPT ![b] = cuerda]
    /\ LET c == [count EXCEPT ![cuerda] = @ + 1]
       IN  \/ /\ countBabuinos + 1 = B
              /\ Release(b, c, Mayor(c))
           \/ /\ countBabuinos + 1 # B
              /\ count' = c /\ countBabuinos' = countBabuinos + 1
              /\ pc' = [pc EXCEPT ![b] = "waiting"]

(* wait returns with the mutex, notified or by itself, and run ends. *)
Cross(b) ==
    /\ \/ pc[b] = "notified" /\ pc' = [pc EXCEPT ![b] = "gone"]
       \/ pc[b] = "waiting" /\ pc' = [pc EXCEPT ![b] = "early"]
    /\ UNCHANGED <<count, countBabuinos, rope>>

Next == \E b \in Babuinos : Cross(b) \/ \E r \in Ropes : Run(b, r)

Done == \A b \in Babuinos : pc[b] \in {"waiting", "early", "gone"}

-----------------------------------------------------------------------------
(***************************************************************************)
(* Whoever's wait returns when: the counters are those of the baboons that *)
(* came to a rope after it was last let go, on each rope and in all, and   *)
(* they are fewer than B: a rope is let go exactly when B have gathered,   *)
(* and nobody stays behind on it.  A baboon that crossed early still       *)
(* counts, so the B need not all be there.                                 *)
(***************************************************************************)
RopeCounts ==
    /\ \A r \in Ropes : count[r] = Cardinality(Counted(r))
    /\ countBabuinos = Cardinality(UNION {Counted(r) : r \in Ropes})
    /\ countBabuinos < B
=============================================================================
