------------------------------- MODULE Dining -------------------------------
(***************************************************************************)
(* threads/diningph.cc, driven by the philosophers of threadtest.cc: a     *)
(* monitor with one lock (dp) and one condition for each philosopher.      *)
(*                                                                         *)
(* state and the conditions are touched only by the holder of dp, so what  *)
(* a method does from Acquire to Release, or to the sleep in               *)
(* Condition::Wait, is one step; a waiter comes back in a step of its own, *)
(* once it has dp again.                                                   *)
(*                                                                         *)
(* A thread that ends, main after ThreadTest or a philosopher after its    *)
(* rounds, calls Thread::Finish.  removeResources then follows the table   *)
(* of threads, which only StartProcess makes: for these threads it is      *)
(* NULL, and Nachos crashes.                                               *)
(***************************************************************************)
EXTENDS Integers

CONSTANT Rounds     \* times each philosopher eats (10 in Philo)

VARIABLES state,    \* DiningPh::state
          isBusy,   \* Condition::isBusy of self[i]
          pc,       \* thinking, waiting or signalled in Wait, eating
          meals,    \* rounds a philosopher has finished
          crashed   \* Nachos is gone

diningVars == <<state, isBusy, pc, meals, crashed>>

Philosophers == 0 .. 4

Left(i) == (i + 4) % 5
Right(i) == (i + 1) % 5

(* The constructor, and ThreadTest. *)
Init ==
    /\ state = [i \in Philosophers |-> "Thinking"]
    /\ isBusy = [i \in Philosophers |-> TRUE]
    /\ pc = [i \in Philosophers |-> "thinking"]
    /\ meals = [i \in Philosophers |-> 0]
    /\ crashed = FALSE

Monitor == [state |-> state, isBusy |-> isBusy, pc |-> pc]

(* self[i]->Signal(dp): at most philosopher i waits there. *)
Signal(m, i) ==
    IF m.pc[i] # "waiting" THEN m
    ELSE [m EXCEPT !.pc[i] = "signalled", !.isBusy[i] = FALSE]

(* test(i) *)
Test(m, i) ==
    IF /\ m.state[Left(i)] # "Eating"
       /\ m.state[i] = "Hungry"
       /\ m.state[Right(i)] # "Eating"
    THEN Signal([m EXCEPT !.state[i] = "Eating"], i)
    ELSE m

Becomes(m) == state' = m.state /\ isBusy' = m.isBusy /\ pc' = m.pc

(* pickup(i), up to its end or to the sleep in self[i]->Wait(dp). *)
PickUp(i) ==
    /\ pc[i] = "thinking" /\ meals[i] < Rounds
    /\ LET m == Test([Monitor EXCEPT !.state[i] = "Hungry"], i)
           waits == m.state[i] = "Hungry"
       IN  Becomes([m EXCEPT
                      !.pc[i] = IF waits /\ isBusy[i] THEN "waiting" ELSE "eating",
                      !.isBusy[i] = IF waits THEN TRUE ELSE @])
    /\ UNCHANGED meals

(* The rest of Wait, whose loop may sleep again, and of pickup. *)
WaitReturns(i) ==
    /\ pc[i] = "signalled"
    /\ Becomes([Monitor EXCEPT !.isBusy[i] = TRUE,
                               !.pc[i] = IF isBusy[i] THEN "waiting" ELSE "eating"])
    /\ UNCHANGED meals

(* Only the neighbour on the right is tested. *)
PutDownRight(i) ==
    /\ pc[i] = "eating"
    /\ Becomes([Test([Monitor EXCEPT !.state[i] = "Thinking"], Right(i))
                   EXCEPT !.pc[i] = "thinking"])
    /\ meals' = [meals EXCEPT ![i] = @ + 1]

(* putdown(i) *)
PutDown(i) ==
    /\ pc[i] = "eating"
    /\ LET thinking == [Monitor EXCEPT !.state[i] = "Thinking"]
           tested == Test(Test(thinking, Left(i)), Right(i))
       IN  Becomes([tested EXCEPT !.pc[i] = "thinking"])
    /\ meals' = [meals EXCEPT ![i] = @ + 1]

Eaten(i) == meals[i] = Rounds /\ pc[i] = "thinking"

(* currentThread->Finish() at the end of main, or that of ThreadRoot. *)
MainFinish == crashed' = TRUE /\ UNCHANGED <<state, isBusy, pc, meals>>
Finish(i) == Eaten(i) /\ crashed' = TRUE /\ UNCHANGED <<state, isBusy, pc, meals>>

Next ==
    /\ ~crashed
    /\ \/ MainFinish
       \/ \E i \in Philosophers : Finish(i)
       \/ /\ \E i \in Philosophers : PickUp(i) \/ WaitReturns(i) \/ PutDown(i)
          /\ UNCHANGED crashed

Done == crashed

-----------------------------------------------------------------------------
(***************************************************************************)
(* Who has returned from pickup is Eating, though Wait is called once and  *)
(* not in a loop, and no neighbour is; and nobody is left Hungry who could *)
(* eat: a Hungry philosopher waits, and a neighbour is Eating.             *)
(***************************************************************************)
ForksRight ==
    \A i \in Philosophers :
        /\ pc[i] = "eating" => state[i] = "Eating"
        /\ state[i] = "Eating" => state[Right(i)] # "Eating"
        /\ state[i] = "Hungry" =>
              pc[i] = "waiting" /\ "Eating" \in {state[Left(i)], state[Right(i)]}

(***************************************************************************)
(* The comment at the end of main says that finishing the main thread      *)
(* switches to the other threads: the program does not end before every    *)
(* philosopher has eaten its rounds.                                       *)
(***************************************************************************)
OthersGoOn == crashed => \A i \in Philosophers : Eaten(i)
=============================================================================
