------------------------------ MODULE Console ------------------------------
(***************************************************************************)
(* machine/console.cc with ConsoleTest of userprog/progtest.cc: a device   *)
(* with a one-character input buffer that is polled, a busy display, and a *)
(* thread that echoes what is typed until it reads Quit.  The two          *)
(* semaphores of the test are their values.                                *)
(*                                                                         *)
(* A character is assumed to differ from EOF as a char, that is from the   *)
(* byte 0xFF, which stands for an empty buffer.                            *)
(***************************************************************************)
EXTENDS Integers, Sequences

CONSTANTS Typed,      \* the characters that are typed
          Quit        \* 'q'

VARIABLES keyboard,   \* what is still to be read from the host file
          incoming,   \* Console::incoming: << >> for EOF, or one character
          putBusy,    \* Console::putBusy
          readAvail,  \* the value of readAvail
          writeDone,  \* the value of writeDone
          display,    \* what has been written to the host file
          ch,         \* the character that is echoed
          pc          \* where ConsoleTest is

EOF == "EOF"

consoleVars == <<keyboard, incoming, putBusy, readAvail, writeDone, display, ch, pc>>

Init ==
    /\ keyboard = Typed /\ incoming = << >> /\ display = << >>
    /\ putBusy = FALSE /\ readAvail = 0 /\ writeDone = 0
    /\ ch = Quit /\ pc = "read"

(* The poll does not look whether a character is buffered. *)
CheckCharAvailAnyway ==
    /\ keyboard # << >>
    /\ incoming' = <<Head(keyboard)>> /\ keyboard' = Tail(keyboard)
    /\ readAvail' = readAvail + 1
    /\ UNCHANGED <<putBusy, writeDone, display, ch, pc>>

(* Console::CheckCharAvail when it finds a character, with ReadAvail. *)
CheckCharAvail ==
    /\ incoming = << >> /\ keyboard # << >>
    /\ incoming' = <<Head(keyboard)>> /\ keyboard' = Tail(keyboard)
    /\ readAvail' = readAvail + 1
    /\ UNCHANGED <<putBusy, writeDone, display, ch, pc>>

(* Console::WriteDone, with the handler of the test. *)
WriteDone ==
    /\ putBusy
    /\ putBusy' = FALSE /\ writeDone' = writeDone + 1
    /\ UNCHANGED <<keyboard, incoming, readAvail, display, ch, pc>>

(* ConsoleTest: readAvail->P() *)
WaitRead ==
    /\ pc = "read" /\ readAvail > 0
    /\ readAvail' = readAvail - 1 /\ pc' = "get"
    /\ UNCHANGED <<keyboard, incoming, putBusy, writeDone, display, ch>>

GetChar ==
    /\ pc = "get"
    /\ ch' = (IF incoming = << >> THEN EOF ELSE Head(incoming))
    /\ incoming' = << >> /\ pc' = "put"
    /\ UNCHANGED <<keyboard, putBusy, readAvail, writeDone, display>>

PutChar ==
    /\ pc = "put" /\ ~ putBusy
    /\ display' = Append(display, ch) /\ putBusy' = TRUE /\ pc' = "write"
    /\ UNCHANGED <<keyboard, incoming, readAvail, writeDone, ch>>

(* writeDone->P() *)
WaitWrite ==
    /\ pc = "write" /\ writeDone > 0
    /\ writeDone' = writeDone - 1
    /\ pc' = IF ch = Quit THEN "gone" ELSE "read"
    /\ UNCHANGED <<keyboard, incoming, putBusy, readAvail, display, ch>>

ConsoleTest == WaitRead \/ GetChar \/ PutChar \/ WaitWrite

Next == CheckCharAvail \/ WriteDone \/ ConsoleTest

Done == pc = "gone"

-----------------------------------------------------------------------------
(***************************************************************************)
(* What is displayed is what was typed: the display, the character in      *)
(* hand, the buffer and the keyboard are always the whole input, in order. *)
(* The assertion of PutChar holds, and GetChar never finds the buffer      *)
(* empty.                                                                  *)
(***************************************************************************)
EchoesInput ==
    /\ display \o (IF pc = "put" THEN <<ch>> ELSE << >>) \o incoming \o keyboard = Typed
    /\ pc = "put" => ~ putBusy
    /\ pc = "get" => incoming # << >>
=============================================================================
