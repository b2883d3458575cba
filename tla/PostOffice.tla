----------------------------- MODULE PostOffice -----------------------------
(***************************************************************************)
(* network/post.cc over machine/network.cc: every machine has a post       *)
(* office with mailboxes, a lock that admits one packet at a time to the   *)
(* network, and a postal worker that moves each packet from the network's  *)
(* one-packet buffer to its mailbox.  The network may drop a packet as it  *)
(* is sent; host sockets keep the order of the others.                     *)
(*                                                                         *)
(* The main thread of each machine runs MailTest (network/nettest.cc)      *)
(* against its peer, from the moment both sockets are bound; the threads   *)
(* of Chatty send MaxChats messages each to mailbox 2 of their own machine,*)
(* which share lock, socket, buffer and worker with the test.  A mailbox   *)
(* is the synchronized list of module SynchList, here a FIFO queue.        *)
(***************************************************************************)
EXTENDS Integers, Sequences

CONSTANTS Machines,   \* the two machines
          Chatty,     \* those with a second sending thread
          MaxChats    \* messages of that thread

ASSUME PostConstants ==
    /\ \A m \in Machines : \E p \in Machines : Machines = {m, p} /\ p # m
    /\ Chatty \subseteq Machines /\ MaxChats \in Nat

VARIABLES wire,       \* packets in a machine's socket
          inbox,      \* Network::inHdr and inbox: at most one packet
          sending,    \* NetworkSendInt interrupts scheduled and not yet taken
          sendLock,   \* the thread that holds PostOffice::sendLock, or "free"
          sent,       \* the value of messageSent
          available,  \* the value of messageAvailable
          worker,     \* the postal worker: waiting, woken, or with a packet
          boxes,      \* the mailboxes of a machine
          pc,         \* where the main thread is in MailTest
          chats,      \* messages the second thread has sent
          posted,     \* every packet put on the wire to a machine
          taken,      \* every message received from a mailbox
          lost        \* the network has dropped a packet of MailTest

net  == <<wire, inbox, sending>>
post == <<sendLock, sent, available, worker, boxes>>
mailVars == <<net, post, pc, chats, posted, taken, lost>>

Boxes == 0 .. 2

Peer(m) == CHOOSE p \in Machines : p # m

Packet(from, to, box, reply, body) ==
    [from |-> from, to |-> to, box |-> box, reply |-> reply, body |-> body]

Powered(m) == pc[m] # "halted"

MailInit ==
    /\ wire = [m \in Machines |-> << >>] /\ inbox = wire /\ posted = wire
    /\ sendLock = [m \in Machines |-> "free"]
    /\ sent = [m \in Machines |-> 0] /\ available = sent
    /\ chats = sent /\ sending = sent
    /\ worker = [m \in Machines |-> [at |-> "waiting", mail |-> << >>]]
    /\ boxes = [m \in Machines |-> [b \in Boxes |-> << >>]] /\ taken = boxes
    /\ pc = [m \in Machines |-> "hello"]
    /\ lost = FALSE

-----------------------------------------------------------------------------
(* Network *)

(* Network::Send: the packet is lost, or goes to the socket of its machine.
   Its ASSERT(sendBusy == false) cannot fail: nothing ever sets it, so it
   is sendLock alone that keeps a second packet from being sent meanwhile. *)
Transmit(m, pkt) ==
    /\ sending' = [sending EXCEPT ![m] = @ + 1]
    /\ \/ /\ wire' = [wire EXCEPT ![pkt.to] = Append(@, pkt)]
          /\ posted' = [posted EXCEPT ![pkt.to] = Append(@, pkt)]
          /\ UNCHANGED lost
       \/ /\ lost' = (lost \/ pkt.box # 2)
          /\ UNCHANGED <<wire, posted>>

(* PostOffice::PacketSent and IncomingPacket, called by the two interrupts. *)
PacketSent(m) == sent' = [sent EXCEPT ![m] = @ + 1]
IncomingPacket(m) == available' = [available EXCEPT ![m] = @ + 1]

(* Network::SendDone *)
SendDone(m) ==
    /\ Powered(m) /\ sending[m] > 0
    /\ sending' = [sending EXCEPT ![m] = @ - 1]
    /\ PacketSent(m)
    /\ UNCHANGED <<wire, inbox, sendLock, available, worker, boxes,
                   pc, chats, posted, taken, lost>>

(* The poll does not look whether a packet is already buffered. *)
CheckPktAvailAnyway(m) ==
    /\ Powered(m) /\ wire[m] # << >>
    /\ inbox' = [inbox EXCEPT ![m] = <<Head(wire[m])>>]
    /\ wire' = [wire EXCEPT ![m] = Tail(@)]
    /\ IncomingPacket(m)
    /\ UNCHANGED <<sending, sendLock, sent, worker, boxes,
                   pc, chats, posted, taken, lost>>

(* Network::CheckPktAvail *)
CheckPktAvail(m) ==
    /\ Powered(m) /\ inbox[m] = << >> /\ wire[m] # << >>
    /\ inbox' = [inbox EXCEPT ![m] = <<Head(wire[m])>>]
    /\ wire' = [wire EXCEPT ![m] = Tail(@)]
    /\ IncomingPacket(m)
    /\ UNCHANGED <<sending, sendLock, sent, worker, boxes,
                   pc, chats, posted, taken, lost>>

-----------------------------------------------------------------------------
(* PostOffice *)

(* Send up to the wait for messageSent, and from there. *)
Send(m, thread, pkt) ==
    /\ Powered(m) /\ sendLock[m] = "free"
    /\ sendLock' = [sendLock EXCEPT ![m] = thread]
    /\ Transmit(m, pkt)
    /\ UNCHANGED <<inbox, sent, available, worker, boxes, taken>>

SendReturns(m, thread) ==
    /\ Powered(m) /\ sendLock[m] = thread /\ sent[m] > 0
    /\ sent' = [sent EXCEPT ![m] = @ - 1]
    /\ sendLock' = [sendLock EXCEPT ![m] = "free"]
    /\ UNCHANGED <<net, available, worker, boxes, posted, taken, lost>>

(* PostalDelivery: P, Network::Receive, MailBox::Put. *)
WorkerWakes(m) ==
    /\ Powered(m) /\ worker[m].at = "waiting" /\ available[m] > 0
    /\ available' = [available EXCEPT ![m] = @ - 1]
    /\ worker' = [worker EXCEPT ![m].at = "woken"]
    /\ UNCHANGED <<net, sendLock, sent, boxes, pc, chats, posted, taken, lost>>

Collect(m) ==
    /\ Powered(m) /\ worker[m].at = "woken"
    /\ worker' = [worker EXCEPT ![m] = [at |-> "carrying", mail |-> inbox[m]]]
    /\ inbox' = [inbox EXCEPT ![m] = << >>]
    /\ UNCHANGED <<wire, sending, sendLock, sent, available, boxes,
                   pc, chats, posted, taken, lost>>

Put(m) ==
    /\ Powered(m) /\ worker[m].at = "carrying"
    /\ LET mail == worker[m].mail[1]
       IN  boxes' = [boxes EXCEPT ![m][mail.box] = Append(@, mail)]
    /\ worker' = [worker EXCEPT ![m] = [at |-> "waiting", mail |-> << >>]]
    /\ UNCHANGED <<net, sendLock, sent, available, pc, chats, posted, taken, lost>>

(* Receive, with MailBox::Get: the thread waits while the box is empty. *)
Receive(m, box) ==
    /\ Powered(m) /\ boxes[m][box] # << >>
    /\ boxes' = [boxes EXCEPT ![m][box] = Tail(@)]
    /\ taken' = [taken EXCEPT ![m][box] = Append(@, Head(boxes[m][box]))]
    /\ UNCHANGED <<net, sendLock, sent, available, worker, posted, lost>>

-----------------------------------------------------------------------------
(* nettest.cc *)

(* The mail the main thread answers: the first it received in box 0. *)
Answered(m) == taken[m][0][1]

(* The acknowledgement goes to box 0 whatever the mail asks for. *)
MailOfBoxZero(m) ==
    IF pc[m] = "hello" THEN Packet(m, Peer(m), 0, 1, "Hello there!")
    ELSE Packet(m, Answered(m).from, 0, 1, "Got it!")

(* What the main thread sends at its point of the test. *)
MailOf(m) ==
    IF pc[m] = "hello" THEN Packet(m, Peer(m), 0, 1, "Hello there!")
    ELSE Packet(m, Answered(m).from, Answered(m).reply, 1, "Got it!")

MainSends(m) ==
    /\ pc[m] \in {"hello", "ack"} /\ sendLock[m] # "main"
    /\ Send(m, "main", MailOf(m)) /\ UNCHANGED <<pc, chats>>

(* The test does not wait for the acknowledgement. *)
AfterNoWait == [hello |-> "await", await |-> "ack", ack |-> "halt", awaitAck |-> "halt"]

(* Where MailTest goes after each of its calls. *)
After == [hello |-> "await", await |-> "ack", ack |-> "awaitAck", awaitAck |-> "halt"]

MainSent(m) ==
    /\ SendReturns(m, "main")
    /\ pc' = [pc EXCEPT ![m] = After[@]] /\ UNCHANGED chats

MainReceives(m) ==
    /\ \/ pc[m] = "await" /\ Receive(m, 0)
       \/ pc[m] = "awaitAck" /\ Receive(m, 1)
    /\ pc' = [pc EXCEPT ![m] = After[@]] /\ UNCHANGED chats

(* interrupt->Halt(): the machine stops, with all its threads. *)
HaltAfterTest(m) ==
    /\ pc[m] = "halt"
    /\ pc' = [pc EXCEPT ![m] = "halted"]
    /\ UNCHANGED <<net, post, chats, posted, taken, lost>>

ChatSends(m) ==
    /\ m \in Chatty /\ chats[m] < MaxChats /\ sendLock[m] # "chat"
    /\ Send(m, "chat", Packet(m, m, 2, 2, <<"chat", chats[m]>>))
    /\ UNCHANGED <<pc, chats>>

ChatSent(m) ==
    /\ SendReturns(m, "chat")
    /\ chats' = [chats EXCEPT ![m] = @ + 1] /\ UNCHANGED pc

-----------------------------------------------------------------------------
(* A machine that waits for mail goes on polling: it never stops by itself. *)
Polls(m) == Powered(m) /\ (inbox[m] # << >> \/ wire[m] = << >>) /\ UNCHANGED mailVars

MainSteps(m) == MainSends(m) \/ MainSent(m) \/ MainReceives(m) \/ HaltAfterTest(m)

WorkerSteps(m) == WorkerWakes(m) \/ Collect(m) \/ Put(m)

AllHalted == (\A m \in Machines : ~ Powered(m)) /\ UNCHANGED mailVars

MailNext ==
    \/ \E m \in Machines :
          \/ SendDone(m) \/ CheckPktAvail(m) \/ Polls(m)
          \/ WorkerSteps(m) \/ MainSteps(m) \/ ChatSends(m) \/ ChatSent(m)
    \/ AllHalted

(***************************************************************************)
(* Interrupts come when their time does, and the scheduler's queue is      *)
(* FIFO, so that every thread that can go on does.  sendLock favours       *)
(* nobody, but the second thread has only MaxChats messages to send.       *)
(***************************************************************************)
Fairness ==
    \A m \in Machines :
        /\ WF_mailVars(SendDone(m)) /\ WF_mailVars(CheckPktAvail(m))
        /\ WF_mailVars(WorkerSteps(m)) /\ WF_mailVars(ChatSent(m))
        /\ WF_mailVars(MainSteps(m))

MailSpec == MailInit /\ [][MailNext]_mailVars /\ Fairness

-----------------------------------------------------------------------------
(* The packets on their way to a machine, the first to arrive first: with
   the worker, in the buffer, in the socket. *)
Coming(m) == worker[m].mail \o inbox[m] \o wire[m]

(* The packets for mailbox b among the first n of s, in their order. *)
ForBox(s, b) ==
    LET mail[n \in 0 .. Len(s)] ==
            IF n = 0 THEN << >>
            ELSE IF s[n].box = b THEN Append(mail[n - 1], s[n]) ELSE mail[n - 1]
    IN  mail

(***************************************************************************)
(* What the network accepted arrives in order, once, in the right mailbox: *)
(* the packets on their way to a machine are the last ones put on the wire *)
(* for it, and what was taken from a mailbox and what it holds are exactly *)
(* the packets for it among those before.  The one-packet buffer is never  *)
(* overwritten before the worker empties it, and the worker never finds it *)
(* empty.                                                                  *)
(***************************************************************************)
DeliveredInOrder ==
    \A m \in Machines :
        LET arrived == Len(posted[m]) - Len(Coming(m))
        IN  /\ arrived >= 0
            /\ \A i \in 1 .. Len(Coming(m)) : Coming(m)[i] = posted[m][arrived + i]
            /\ \A b \in Boxes :
                  taken[m][b] \o boxes[m][b] = ForBox(posted[m], b)[arrived]

(***************************************************************************)
(* MailTest never sends to a machine that has halted (the host socket is   *)
(* gone and SendToSocket would abort): who halts has received everything   *)
(* its peer had to send.                                                   *)
(***************************************************************************)
NoMailToHalted ==
    \A m \in Machines : ~ Powered(m) => pc[Peer(m)] \notin {"hello", "await", "ack"}
                                   \/ sendLock[Peer(m)] = "main"

(***************************************************************************)
(* Both machines finish MailTest unless the network loses a packet of it,  *)
(* for which nobody waits with a timeout and which nobody sends again.     *)
(***************************************************************************)
MailTestEnds == <>(lost \/ \A m \in Machines : ~ Powered(m))
=============================================================================
