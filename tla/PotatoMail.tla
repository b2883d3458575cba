----------------------------- MODULE PotatoMail -----------------------------
(***************************************************************************)
(* TP1/MailBox: a process for each player and one host message queue, in   *)
(* which the message type is the receiver.  The potato travels in the      *)
(* message.  Players that are out pass it on.  The destructor of every     *)
(* MailBox removes the queue, and that is how the others learn that the    *)
(* game is over: their msgrcv and msgsnd fail from then on.                *)
(***************************************************************************)
EXTENDS PotatoRing, Sequences

VARIABLES queue,     \* the messages for each player and for the main process
          removed,   \* the queue has been removed
          papa,      \* each player's copy of the potato
          live,      \* ply_data.live
          pc,        \* where each process is
          winners    \* the processes announced as winners

mailVars == <<queue, removed, papa, live, pc, winners>>

Main == NumPlayers

Init ==
    /\ queue = [p \in 0 .. Main |-> << >>] /\ removed = FALSE
    /\ papa = [p \in Players |-> Papa(NumPlayers, FirstValue)]
    /\ live = [p \in Players |-> TRUE]
    /\ pc = [p \in 0 .. Main |-> IF p = Main THEN "start" ELSE "recv"]
    /\ winners = {}

(* MailBox::send: nothing happens when the queue is gone. *)
Sent(to, msg) == IF removed THEN queue ELSE [queue EXCEPT ![to] = Append(@, msg)]

(* MailBox::recv: the buffer is zeroed when the queue is gone. *)
Recv(p) ==
    /\ pc[p] = "recv" /\ (removed \/ queue[p] # << >>)
    /\ papa' = [papa EXCEPT ![p] = IF removed THEN Papa(0, 0) ELSE Head(queue[p])]
    /\ queue' = IF removed THEN queue ELSE [queue EXCEPT ![p] = Tail(@)]
    /\ pc' = [pc EXCEPT ![p] = "turn"]
    /\ UNCHANGED <<removed, live, winners>>

(* The count is compared before the other player has gone out. *)
TurnWinsEarly(p) ==
    /\ pc[p] = "turn" /\ live[p] /\ papa[p].players <= 2
    /\ winners' = winners \union {p}
    /\ papa' = [papa EXCEPT ![p].value = -1]
    /\ queue' = Sent(NextProcess(p), papa'[p])
    /\ pc' = [pc EXCEPT ![p] = "end"]
    /\ UNCHANGED <<removed, live>>

(* persona, after recv: the last player wins. *)
TurnWins(p) ==
    /\ pc[p] = "turn" /\ live[p] /\ papa[p].players = 1
    /\ winners' = winners \union {p}
    /\ papa' = [papa EXCEPT ![p].value = -1]
    /\ queue' = Sent(NextProcess(p), papa'[p])
    /\ pc' = [pc EXCEPT ![p] = "end"]
    /\ UNCHANGED <<removed, live>>

(* The potato changes and may burst. *)
TurnPlays(p) ==
    /\ pc[p] = "turn" /\ live[p] /\ papa[p].players # 1
    /\ LET value == Collatz(papa[p].value)
       IN  IF value # 1
           THEN papa' = [papa EXCEPT ![p].value = value] /\ UNCHANGED live
           ELSE /\ live' = [live EXCEPT ![p] = FALSE]
                /\ \E v \in ResetValues :
                      papa' = [papa EXCEPT ![p] = Papa(papa[p].players - 1, v)]
    /\ queue' = Sent(NextProcess(p), papa'[p])
    /\ pc' = [pc EXCEPT ![p] = "recv"]
    /\ UNCHANGED <<removed, winners>>

(* The result of send is not looked at. *)
TurnOutDeaf(p) ==
    /\ pc[p] = "turn" /\ ~ live[p]
    /\ queue' = Sent(NextProcess(p), papa[p])
    /\ pc' = [pc EXCEPT ![p] = "recv"]
    /\ UNCHANGED <<removed, papa, live, winners>>

(* A player that is out passes the potato on, or finds the queue gone. *)
TurnOut(p) ==
    /\ pc[p] = "turn" /\ ~ live[p]
    /\ queue' = Sent(NextProcess(p), papa[p])
    /\ pc' = [pc EXCEPT ![p] = IF removed THEN "end" ELSE "recv"]
    /\ UNCHANGED <<removed, papa, live, winners>>

(* main after persona: a live player writes to the main process. *)
End(p) ==
    /\ pc[p] = "end"
    /\ queue' = IF live[p] THEN Sent(Main, papa[p]) ELSE queue
    /\ pc' = [pc EXCEPT ![p] = "exit"]
    /\ UNCHANGED <<removed, papa, live, winners>>

(* MailBox::~MailBox, in every process. *)
Exit(p) ==
    /\ pc[p] = "exit"
    /\ removed' = TRUE /\ pc' = [pc EXCEPT ![p] = "gone"]
    /\ UNCHANGED <<queue, papa, live, winners>>

(* The main process, which chooses the first player by chance. *)
Start ==
    /\ pc[Main] = "start"
    /\ \E first \in Players : queue' = Sent(first, Papa(NumPlayers, FirstValue))
    /\ pc' = [pc EXCEPT ![Main] = "wait"]
    /\ UNCHANGED <<removed, papa, live, winners>>

MainRecv ==
    /\ pc[Main] = "wait" /\ (removed \/ queue[Main] # << >>)
    /\ pc' = [pc EXCEPT ![Main] = "exit"]
    /\ UNCHANGED <<queue, removed, papa, live, winners>>

Process(p) == Recv(p) \/ TurnWins(p) \/ TurnPlays(p) \/ TurnOut(p) \/ End(p)

Next == Start \/ MainRecv \/ (\E p \in Players : Process(p)) \/ \E p \in 0 .. Main : Exit(p)
=============================================================================
