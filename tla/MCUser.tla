------------------------------- MODULE MCUser -------------------------------
(***************************************************************************)
(* Small instances of Process and of Mips for TLC, one of which is chosen  *)
(* at the start: the threads of user programs with their address spaces,   *)
(* or the processor that executes a program.                               *)
(***************************************************************************)
EXTENDS Process, Mips, TLC

VARIABLE subject   \* the module that runs; the other stays at its start

MCVars == <<subject, vars, mipsVars>>

MCInit ==
  /\ Init /\ MipsInit
  /\ \/ subject = "processor"
     \/ subject = "process" /\ regs[1] = 1 /\ regs[2] = 1   \* whatever they hold

ProcessStep == subject = "process" /\ Next /\ UNCHANGED <<subject, mipsVars>>

ProcessorStep == subject = "processor" /\ MipsNext /\ UNCHANGED <<subject, vars>>

MCSpec == MCInit /\ [][ProcessStep \/ ProcessorStep]_MCVars

\* The threads other than the first play the same role.
Symmetry == Permutations(Thread \ {main})

\* An instruction word by its fields.
Raw(major, funct, rs, rt, rd, imm) ==
  [major |-> major, funct |-> funct, rs |-> rs, rt |-> rt, rd |-> rd,
   shamt |-> 1, imm |-> imm, target |-> 1]

\* Every major opcode, with base register 1 and register 2 as rt; every funct;
\* every condition; loads and stores of both registers; calls by way of 31.
MCProgram ==
  {Raw(m, 0, 1, 2, 1, 0) : m \in 2..63}
    \cup {Raw(0, f, 1, 2, 1, 0) : f \in 0..63}
    \cup {Raw(1, 0, 1, c, 1, 1) : c \in {0, 1, 2, 16, 17}}
    \cup {Raw(m, 0, 0, 1, 1, i) : m \in {9, 35, 38, 42}, i \in {0, 4}}
    \cup {Raw(0, 8, 31, 0, 0, 0), Raw(0, 33, 0, 31, 2, 0), Raw(35, 0, 0, 0, 0, 0)}
=============================================================================
