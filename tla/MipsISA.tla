------------------------------ MODULE MipsISA ------------------------------
(***************************************************************************)
(* The processor as a user program that fills every load-delay slot        *)
(* properly may think of it: a load writes its register at once and there  *)
(* are no page faults.  Branches keep their delay slot.                    *)
(***************************************************************************)
EXTENDS MipsInstr

CONSTANTS
  Program,  \* the instruction words that programs are made of
  Result    \* what system calls return

VARIABLES regs, hi, lo, pc, npc, mem, last, alive

isaVars == <<regs, hi, lo, pc, npc, mem, last, alive>>

State == [regs |-> regs, hi |-> hi, lo |-> lo, npc |-> npc, mem |-> mem]

\* The instruction takes effect and the program counters advance.
Execute(raw) ==
  LET i == Decode(raw)
      e == Effect(i, State, Contents(regs, i.rt))
  IN  /\ Outcome(i, regs) = "ok"
      /\ regs' = KeepZero([e.regs EXCEPT ![e.load.reg] = e.load.value])
      /\ hi' = e.hi
      /\ lo' = e.lo
      /\ mem' = e.mem
      /\ pc' = npc
      /\ npc' = e.pcAfter
      /\ UNCHANGED alive

\* The kernel serves the call and goes on behind it.
SystemCall(raw) ==
  /\ Outcome(Decode(raw), regs) = "Syscall"
  /\ \E r \in Result \cup {regs[2]} : regs' = [regs EXCEPT ![2] = r]
  /\ pc' = npc
  /\ npc' = ToWord(npc + 4)
  /\ UNCHANGED <<hi, lo, mem, alive>>

\* Any other exception ends the simulation.
Die(raw) ==
  /\ Outcome(Decode(raw), regs) \notin {"ok", "Syscall"}
  /\ alive' = FALSE
  /\ UNCHANGED <<regs, hi, lo, pc, npc, mem>>

ISANext ==
  /\ alive
  /\ \E raw \in Program :
       /\ last' = raw
       /\ Execute(raw) \/ SystemCall(raw) \/ Die(raw)

ISASpec == [][ISANext]_isaVars
=============================================================================
