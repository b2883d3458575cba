-------------------------------- MODULE Mips --------------------------------
(***************************************************************************)
(* The simulated processor of machine/mipssim.cc, machine.cc and           *)
(* translate.cc, executing a user program: delayed loads, branch delay     *)
(* slots, page faults at the fetch or at the data access of any            *)
(* instruction, system calls.  The words of the program are chosen as they *)
(* are fetched, which covers every program made of Program's words.        *)
(***************************************************************************)
EXTENDS MipsInstr

CONSTANTS
  Program,   \* the instruction words that programs are made of
  Operand,   \* what registers 1 and 2 hold at first
  Result,    \* what system calls return
  MaxSteps   \* bound: instructions executed

VARIABLES
  regs,      \* the general registers
  hi, lo,    \* HiReg, LoReg
  load,      \* LoadReg and LoadValueReg: the load in progress
  pc, npc,   \* PCReg, NextPCReg
  mem,       \* the program's memory, a function from addresses to bytes
  fetched,   \* << >>, or the word at pc once it has been fetched and faulted
  last,      \* history: the last word executed
  alive,     \* the simulation goes on
  steps      \* instructions executed

mipsVars == <<regs, hi, lo, load, pc, npc, mem, fetched, last, alive, steps>>

NoLoad == [reg |-> 0, value |-> 0]
NoWord == <<>>

MipsInit ==
  /\ \E a, b \in Operand :
       regs = [r \in Reg |-> CASE r = 1 -> a [] r = 2 -> b [] OTHER -> 0]
  /\ hi = 0
  /\ lo = 0
  /\ load = NoLoad
  /\ pc = 0
  /\ npc = 4
  /\ mem = [n \in 0..(MemSize - 1) |-> (n + 2) % Byte]
  /\ fetched = NoWord
  /\ last = NoWord
  /\ alive = TRUE
  /\ steps = 0

-----------------------------------------------------------------------------
\* The registers once Machine::DelayedLoad has finished the load in progress.
DelayedLoad(r) == KeepZero([r EXCEPT ![load.reg] = load.value])

\* The registers an instruction reads early, and those it writes itself.
Reads(i) ==
  (IF i.op \in {"J", "JAL", "SYSCALL", "RES", "UNIMP", "LUI", "MFHI", "MFLO"}
   THEN {} ELSE {i.rs})
  \cup (IF i.op \in {"BEQ", "BNE"} \cup Stores \cup HiLoOps \cup (AluOps \ ImmediateOps)
        THEN {i.rt} ELSE {})
Writes(i) ==
  CASE i.op \in AluOps -> {Dest(i)}
    [] i.op \in {"MFHI", "MFLO", "JALR"} -> {i.rd}
    [] i.op \in {"JAL", "BGEZAL", "BLTZAL"} -> {31}
    [] OTHER -> {}

\* What assemblers guarantee: the instruction after a load leaves the loaded
\* register alone, unless it loads it again (LWL and LWR come in pairs).
FillsLoadDelay(i) == load.reg = 0 \/ load.reg \notin Reads(i) \cup Writes(i)

\* The words ReadMem may bring from pc.
Fetch ==
  IF fetched = NoWord THEN {raw \in Program : FillsLoadDelay(Decode(raw))}
  ELSE {fetched}

State == [regs |-> regs, hi |-> hi, lo |-> lo, npc |-> npc, mem |-> mem]

\* Mutant: LWL and LWR look at the register only.
MergedRegister(i) == Contents(regs, i.rt)

\* What a LWL or LWR merges with: the load in progress, if it is to rt.
Merged(i) == IF load.reg = i.rt THEN load.value ELSE Contents(regs, i.rt)

\* The successful end of OneInstruction.
Execute(raw) ==
  LET i == Decode(raw)
      e == Effect(i, State, Merged(i))
  IN  /\ Outcome(i, regs) = "ok"
      /\ regs' = DelayedLoad(e.regs)
      /\ load' = e.load
      /\ hi' = e.hi
      /\ lo' = e.lo
      /\ mem' = e.mem
      /\ pc' = npc
      /\ npc' = e.pcAfter
      /\ fetched' = NoWord
      /\ last' = raw
      /\ steps' = steps + 1
      /\ UNCHANGED alive

\* Machine::RaiseException: the load in progress is finished first.
RaiseException == load' = NoLoad

\* getNextInstruction
GetNextInstruction == pc' = npc /\ npc' = ToWord(npc + 4)

\* A page fault while the instruction is fetched: the handler loads the page
\* and Run starts the instruction again.
FetchFault ==
  /\ fetched = NoWord
  /\ RaiseException
  /\ regs' = DelayedLoad(regs)
  /\ UNCHANGED <<hi, lo, pc, npc, mem, fetched, last, alive, steps>>

\* A page fault at the data access of a load or a store.
DataFault(raw) ==
  /\ Decode(raw).op \in Loads \cup Stores
  /\ Outcome(Decode(raw), regs) = "ok"
  /\ RaiseException
  /\ regs' = DelayedLoad(regs)
  /\ fetched' = raw
  /\ UNCHANGED <<hi, lo, pc, npc, mem, last, alive, steps>>

\* ExceptionHandler(SyscallException): the call leaves its result in r2, if it
\* has one.
SystemCall(raw) ==
  /\ Outcome(Decode(raw), regs) = "Syscall"
  /\ RaiseException
  /\ LET settled == DelayedLoad(regs)
     IN  \E r \in Result \cup {settled[2]} : regs' = [settled EXCEPT ![2] = r]
  /\ GetNextInstruction
  /\ last' = raw
  /\ steps' = steps + 1
  /\ UNCHANGED <<hi, lo, mem, fetched, alive>>

\* Every other exception fails an assertion of ExceptionHandler, and so do the
\* assertions of OneInstruction and a trap of the host: the simulator stops.
\* With a TLB an address out of range is a page fault instead, which the handler
\* looks up behind the end of the page table: the run ends here as well.
Die(raw) ==
  /\ Outcome(Decode(raw), regs) \notin {"ok", "Syscall"}
  /\ RaiseException
  /\ regs' = DelayedLoad(regs)
  /\ alive' = FALSE
  /\ last' = raw
  /\ UNCHANGED <<hi, lo, pc, npc, mem, fetched, steps>>

MipsNext ==
  /\ alive
  /\ steps < MaxSteps
  /\ \/ FetchFault
     \/ \E raw \in Fetch :
          Execute(raw) \/ DataFault(raw) \/ SystemCall(raw) \/ Die(raw)

MipsSpec == MipsInit /\ [][MipsNext]_mipsVars

-----------------------------------------------------------------------------
(* Properties.                                                             *)

\* Page faults and the delay of loads are invisible to the program: whatever
\* instruction faults, in or out of a load or branch delay slot, execution is
\* that of a machine without either, with the load in progress applied.
ISA == INSTANCE MipsISA WITH regs <- DelayedLoad(regs)
ImplementsISA == ISA!ISASpec

\* The loop of Mult against multiplication, for every two words.
ProductsExact ==
  \A a, b \in Word :
    LET double(p) == p[1] * 2 ^ W + p[2]
    IN  /\ double(Mult(a, b, FALSE)) = a * b
        /\ double(Mult(a, b, TRUE)) = (Signed(a) * Signed(b)) % 2 ^ (2 * W)

\* The tests of ADD and SUB against the range of a word, for every two words.
OverflowsExact ==
  LET fits(n) == n \in -SIGN_BIT..(SIGN_BIT - 1)
  IN  \A a, b \in Word :
        /\ AddOverflows(a, b) <=> ~fits(Signed(a) + Signed(b))
        /\ SubOverflows(a, b) <=> ~fits(Signed(a) - Signed(b))

\* Arithmetic is exact for all pairs of words, the smallest negative one with
\* itself and with -1 included: the loop of Mult computes their double-length
\* product, signed and unsigned, by shifts and adds with a carry between two
\* words, and ADD and SUB trap exactly when the signed result does not fit a
\* word, though the code looks at sign bits only.  It is the same in every
\* state, so it is asked in one, that of a machine just started with all its
\* registers 0.
ArithExact ==
  last = NoWord /\ fetched = NoWord /\ (\A r \in Reg : regs[r] = 0) =>
    ProductsExact /\ OverflowsExact
=============================================================================
