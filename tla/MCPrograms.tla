----------------------------- MODULE MCPrograms -----------------------------
(***************************************************************************)
(* The programs that stand alone, one of which is chosen at the start: the *)
(* three hot potatoes, the dining philosophers, the baboons and the test   *)
(* of the console.                                                         *)
(***************************************************************************)
EXTENDS PotatoRing, FiniteSets, Sequences

CONSTANTS Leftover, Rounds, Babuinos, N, B, Typed, Quit

ASSUME ProgramConstants ==
    /\ Leftover \subseteq Nat /\ Rounds \in Nat \ {0}
    /\ IsFiniteSet(Babuinos) /\ N \in Nat \ {0} /\ B \in Nat \ {0}
    /\ Typed \in Seq({Typed[i] : i \in DOMAIN Typed})
    /\ \E i \in DOMAIN Typed : Typed[i] = Quit

Left == -1                              \* values for the configuration
AbQa == <<"a", "b", "a", "q", "b">>

VARIABLES
    program,                                    \* the one that runs
    pc,                                         \* of every program
    queue, sem, locked, removed, papa, live,    \* hot potato
    siguiente, anterior, joined, winners,
    state, isBusy, meals, crashed,              \* Dining
    count, countBabuinos, rope,                 \* Baboons
    keyboard, incoming, putBusy, readAvail, writeDone, display, ch   \* Console

Mail    == INSTANCE PotatoMail
ShM     == INSTANCE PotatoShM
Threads == INSTANCE PotatoThreads
Table   == INSTANCE Dining
Forest  == INSTANCE Baboons
Echo    == INSTANCE Console

potato  == <<queue, sem, locked, removed, papa, live, siguiente, anterior, joined>>
dining  == <<state, isBusy, meals, crashed>>
baboons == <<count, countBabuinos, rope>>
console == <<keyboard, incoming, putBusy, readAvail, writeDone, display, ch>>
vars    == <<program, pc, potato, winners, dining, baboons, console>>

Init ==
    /\ \/ /\ program = "mail" /\ Mail!Init
          /\ sem = "unused" /\ locked = "unused"
          /\ siguiente = "unused" /\ anterior = "unused" /\ joined = "unused"
       \/ /\ program = "shm" /\ ShM!Init
          /\ queue = "unused" /\ locked = "unused"
          /\ siguiente = "unused" /\ anterior = "unused" /\ joined = "unused"
       \/ /\ program = "threads" /\ Threads!Init
          /\ queue = "unused" /\ sem = "unused" /\ removed = "unused" /\ live = "unused"
       \/ /\ program \in {"dining", "baboons", "console"} /\ winners = {}
          /\ queue = "unused" /\ sem = "unused" /\ locked = "unused"
          /\ removed = "unused" /\ papa = "unused" /\ live = "unused"
          /\ siguiente = "unused" /\ anterior = "unused" /\ joined = "unused"
    /\ \/ program = "dining" /\ Table!Init
       \/ /\ program # "dining"
          /\ state = "unused" /\ isBusy = "unused" /\ meals = "unused" /\ crashed = "unused"
    /\ \/ program = "baboons" /\ Forest!Init
       \/ program # "baboons" /\ count = "unused" /\ countBabuinos = "unused" /\ rope = "unused"
    /\ \/ program = "console" /\ Echo!Init
       \/ /\ program # "console"
          /\ keyboard = "unused" /\ incoming = "unused" /\ putBusy = "unused"
          /\ readAvail = "unused" /\ writeDone = "unused" /\ display = "unused" /\ ch = "unused"

Potato ==
    /\ \/ /\ program = "mail" /\ Mail!Next
          /\ UNCHANGED <<sem, locked, siguiente, anterior, joined>>
       \/ /\ program = "shm" /\ ShM!Next
          /\ UNCHANGED <<queue, locked, siguiente, anterior, joined>>
       \/ /\ program = "threads" /\ Threads!Next
          /\ UNCHANGED <<queue, sem, removed, live>>
    /\ UNCHANGED <<dining, baboons, console>>

Philosophers ==
    program = "dining" /\ Table!Next /\ UNCHANGED <<potato, winners, baboons, console>>

Monkeys ==
    program = "baboons" /\ Forest!Next /\ UNCHANGED <<potato, winners, dining, console>>

Keyboard ==
    program = "console" /\ Echo!Next /\ UNCHANGED <<potato, winners, dining, baboons>>

Run == UNCHANGED program /\ (Potato \/ Philosophers \/ Monkeys \/ Keyboard)

Ended ==
    CASE program = "dining" -> Table!Done
      [] program = "baboons" -> Forest!Done
      [] program = "console" -> Echo!Done
      [] OTHER -> winners # {} /\ \A p \in DOMAIN pc : pc[p] = "gone"

Over == Ended /\ UNCHANGED vars

Next == Run \/ Over

(* At any time some process, thread or device that can go on does. *)
Spec == Init /\ [][Next]_vars /\ WF_vars(Run)

-----------------------------------------------------------------------------
Playing ==
    CASE program = "threads" -> {p \in Players : pc[p] # "gone"} \union winners
      [] program \in {"mail", "shm"} -> {p \in Players : live[p]}
      [] OTHER -> Players

Game == INSTANCE HotPotato WITH playing <- Playing

(***************************************************************************)
(* Each program of the hot potato plays the game: a player goes out only   *)
(* while another is left, and the only one left is announced as the        *)
(* winner, once.                                                           *)
(***************************************************************************)
ImplementsHotPotato == Game!Spec

(***************************************************************************)
(* Every program ends.  Somebody wins the game and every process of it     *)
(* stops, also the players that wait for a potato that will not come and   *)
(* the main process; every baboon that comes gets across or waits for more *)
(* to come; the console test reads its Quit; and the test of the           *)
(* philosophers ends in the crash of the first Thread::Finish.             *)
(***************************************************************************)
ProgramsEnd == <>Ended

(* Dining.ForksRight: the philosophers and their forks, diningph.cc. *)
PhilosophersSafe == program = "dining" => Table!ForksRight

(* Dining.OthersGoOn: the threads that main leaves behind, main.cc. *)
MainLeavesOthers == program = "dining" => Table!OthersGoOn

(* Baboons.RopeCounts: the counters of Babuino::run and who waits. *)
BaboonsCounted == program = "baboons" => Forest!RopeCounts

(* Console.EchoesInput: the device console.cc under ConsoleTest. *)
ConsoleEchoes == program = "console" => Echo!EchoesInput
=============================================================================
