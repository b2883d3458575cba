----------------------------- MODULE MipsInstr -----------------------------
(***************************************************************************)
(* What one MIPS instruction computes, as machine/mipssim.cc executes it.  *)
(*                                                                         *)
(* A word has W bits instead of 32: a byte is W/4 bits, an immediate half  *)
(* a word, so that every mask of the code keeps its shape.  The word of an *)
(* instruction is kept as its fields.  Integers are words, 0..2^W-1; the   *)
(* signed reading is Signed.                                               *)
(***************************************************************************)
EXTENDS Integers, Sequences, Bitwise, TLC

CONSTANTS
  W,        \* bits of a word, a power of two that is at least 4
  Reg,      \* the general registers that programs use
  MemSize   \* bytes of a program's memory

ASSUME MipsAssumption ==
  /\ W \in {4, 8, 16}
  /\ {0, 2, 31} \subseteq Reg /\ Reg \subseteq 0..31
  /\ MemSize \in 4..(2 ^ (W - 1)) /\ MemSize % 4 = 0

Word == 0..(2 ^ W - 1)
Byte == 2 ^ (W \div 4)
Half == 2 ^ (W \div 2)
SIGN_BIT == 2 ^ (W - 1)

ToWord(n) == n % 2 ^ W
Negative(x) == x >= SIGN_BIT
Signed(x) == IF Negative(x) THEN x - 2 ^ W ELSE x

\* x, of n bits, extended with its sign to a word.
SignExtend(x, size) == IF x >= size \div 2 THEN ToWord(x - size) ELSE x

-----------------------------------------------------------------------------
(* Decoding.                                                               *)

\* opTable: the operation of each major opcode, by its number plus one.
OpTable ==
  <<"SPECIAL", "BCOND", "J", "JAL", "BEQ", "BNE", "BLEZ", "BGTZ",
    "ADDI", "ADDIU", "SLTI", "SLTIU", "ANDI", "ORI", "XORI", "LUI">>
  \o [i \in 1..4 |-> "UNIMP"] \o [i \in 1..12 |-> "RES"]
  \o <<"LB", "LH", "LWL", "LW", "LBU", "LHU", "LWR", "RES",
       "SB", "SH", "SWL", "SW", "RES", "RES", "SWR", "RES">>
  \o [i \in 1..4 |-> "UNIMP"] \o [i \in 1..4 |-> "RES"]
  \o [i \in 1..4 |-> "UNIMP"] \o [i \in 1..4 |-> "RES"]

\* specialTable: the operation of each funct field.
SpecialTable ==
  <<"SLL", "RES", "SRL", "SRA", "SLLV", "RES", "SRLV", "SRAV",
    "JR", "JALR", "RES", "RES", "SYSCALL", "UNIMP", "RES", "RES",
    "MFHI", "MTHI", "MFLO", "MTLO", "RES", "RES", "RES", "RES",
    "MULT", "MULTU", "DIV", "DIVU", "RES", "RES", "RES", "RES",
    "ADD", "ADDU", "SUB", "SUBU", "AND", "OR", "XOR", "NOR",
    "RES", "RES", "SLT", "SLTU", "RES", "RES", "RES", "RES">>
  \o [i \in 1..16 |-> "RES"]

\* Instruction::Decode.  raw has the fields major, rs, rt, rd, funct, shamt,
\* imm (IFMT) and target (JFMT).
Decode(raw) ==
  LET major == OpTable[raw.major + 1]
      bcond == [i \in {0, 1, 16, 17} |->
                  CASE i = 0 -> "BLTZ" [] i = 1 -> "BGEZ"
                    [] i = 16 -> "BLTZAL" [] i = 17 -> "BGEZAL"]
  IN  [op |-> CASE major = "SPECIAL" -> SpecialTable[raw.funct + 1]
                [] major = "BCOND" ->
                     IF raw.rt \in DOMAIN bcond THEN bcond[raw.rt] ELSE "UNIMP"
                [] OTHER -> major,
       rs |-> raw.rs, rt |-> raw.rt, rd |-> raw.rd,
       extra |-> CASE major = "SPECIAL" -> raw.shamt
                   [] major \in {"J", "JAL"} -> raw.target
                   [] OTHER -> SignExtend(raw.imm, Half)]

-----------------------------------------------------------------------------
(* Results of the instructions that write a register.  a and b are the     *)
(* contents of rs and rt, x is extra.                                      *)

\* The signs of the operands agree and differ from that of the sum.
AddOverflows(a, b) ==
  Negative(a) = Negative(b) /\ Negative(a) # Negative(ToWord(a + b))

SubOverflows(a, b) ==
  Negative(a) # Negative(b) /\ Negative(a) # Negative(ToWord(a - b))

AddAnd(a, b, x) ==
  [ADD |-> ToWord(a + b), ADDI |-> ToWord(a + x), ADDIU |-> ToWord(a + x),
   ADDU |-> ToWord(a + b), AND |-> a & b, ANDI |-> a & (x % Half)]

\* OR combines rs with itself.
NorOr(a, b, x) ==
  [NOR |-> 2 ^ W - 1 - (a | b), OR |-> a | a, ORI |-> a | (x % Half)]

\* SRL and SRLV shift a signed int.
ShiftCompare(a, b, x) ==
  LET left(n) == ToWord(b * 2 ^ n)
      right(n) == ToWord(Signed(b) \div 2 ^ n)
      bit(p) == IF p THEN 1 ELSE 0
  IN  [SLL |-> left(x % W), SLLV |-> left(a % W),
       SLT |-> bit(Signed(a) < Signed(b)), SLTI |-> bit(Signed(a) < Signed(x)),
       SLTIU |-> bit(a < x), SLTU |-> bit(a < b),
       SRA |-> right(x % W), SRAV |-> right(a % W),
       SRL |-> right(x % W), SRLV |-> right(a % W)]

Subtract(a, b) == [SUB |-> ToWord(a - b), SUBU |-> ToWord(a - b)]

Xors(a, b, x) == [XOR |-> a ^^ b, XORI |-> a ^^ (x % Half)]

Upper(x) == ToWord(x * Half)

Alu(op, a, b, x) ==
  CASE op \in {"ADD", "ADDI", "ADDIU", "ADDU", "AND", "ANDI"} -> AddAnd(a, b, x)[op]
    [] op \in {"NOR", "OR", "ORI"} -> NorOr(a, b, x)[op]
    [] op \in {"SUB", "SUBU"} -> Subtract(a, b)[op]
    [] op \in {"XOR", "XORI"} -> Xors(a, b, x)[op]
    [] op = "LUI" -> Upper(x)
    [] OTHER -> ShiftCompare(a, b, x)[op]

-----------------------------------------------------------------------------
(* Multiplication and division.                                            *)

\* Mutant: the carry out of the low word is lost.
AddShiftedNoCarry(s, bit) ==
  [s EXCEPT !.lo = IF bit = 1 THEN ToWord(s.lo + s.bLo) ELSE s.lo,
            !.hi = IF bit = 1 THEN ToWord(s.hi + s.bHi) ELSE s.hi,
            !.bHi = ToWord(2 * s.bHi + s.bLo \div SIGN_BIT),
            !.bLo = ToWord(2 * s.bLo)]

\* One turn of Mult's loop: add b, shifted so far, if this bit of a is set.
AddShifted(s, bit) ==
  LET lo == IF bit = 1 THEN ToWord(s.lo + s.bLo) ELSE s.lo
      carry == IF bit = 1 /\ lo < s.bLo THEN 1 ELSE 0
  IN  [lo |-> lo,
       hi |-> IF bit = 1 THEN ToWord(s.hi + carry + s.bHi) ELSE s.hi,
       bHi |-> ToWord(2 * s.bHi + s.bLo \div SIGN_BIT),
       bLo |-> ToWord(2 * s.bLo)]

\* Mult: the double-length product <<hi, lo>>.
Mult(a, b, signedArith) ==
  LET abs(v) == IF signedArith /\ Negative(v) THEN ToWord(-v) ELSE v
      negative == signedArith /\ Negative(a) # Negative(b)
      loop[i \in 0..W] ==
        IF i = 0 THEN [lo |-> 0, hi |-> 0, bLo |-> abs(b), bHi |-> 0]
        ELSE AddShifted(loop[i - 1], (abs(a) \div 2 ^ (i - 1)) % 2)
      lo == ToWord(-loop[W].lo)
      hi == ToWord(2 ^ W - 1 - loop[W].hi + (IF lo = 0 THEN 1 ELSE 0))
  IN  IF a = 0 \/ b = 0 THEN <<0, 0>>
      ELSE IF negative THEN <<hi, lo>> ELSE <<loop[W].hi, loop[W].lo>>

\* DIV and DIVU: <<hi, lo>>, remainder and quotient, truncated towards zero.
Divide(a, b, signedArith) ==
  LET val(v) == IF signedArith THEN Signed(v) ELSE v
      abs(v) == IF val(v) < 0 THEN -val(v) ELSE val(v)
      quot == abs(a) \div abs(b)
      rem == abs(a) % abs(b)
  IN  IF b = 0 THEN <<0, 0>>
      ELSE <<ToWord(IF val(a) < 0 THEN -rem ELSE rem),
             ToWord(IF (val(a) < 0) # (val(b) < 0) THEN -quot ELSE quot)>>

\* The quotient of the smallest int by -1 is undefined in C and traps on x86.
DivTraps(op, a, b) == op = "DIV" /\ a = SIGN_BIT /\ b = 2 ^ W - 1

\* <<hi, lo>> after the instructions that write them.
HiLo(op, a, b, hi, lo) ==
  CASE op = "MULT" -> Mult(a, b, TRUE)
    [] op = "MULTU" -> Mult(a, b, FALSE)
    [] op = "DIV" /\ ~DivTraps(op, a, b) -> Divide(a, b, TRUE)
    [] op = "DIVU" -> Divide(a, b, FALSE)
    [] op = "MTHI" -> <<a, lo>>
    [] op = "MTLO" -> <<hi, a>>
    [] OTHER -> <<hi, lo>>

-----------------------------------------------------------------------------
(* Control transfer.                                                       *)

BranchTaken(op, a, b) ==
  \/ op = "BEQ" /\ a = b
  \/ op = "BNE" /\ a # b
  \/ op \in {"BGEZ", "BGEZAL"} /\ ~Negative(a)
  \/ op \in {"BLTZ", "BLTZAL"} /\ Negative(a)
  \/ op = "BGTZ" /\ Signed(a) > 0
  \/ op = "BLEZ" /\ Signed(a) <= 0

\* pcAfter.  A jump stays in the region of the instruction after its slot.
PcAfter(i, a, b, npc) ==
  CASE BranchTaken(i.op, a, b) -> ToWord(npc + 4 * i.extra)
    [] i.op \in {"J", "JAL"} ->
         LET next == ToWord(npc + 4)
         IN  (next - (next % SIGN_BIT)) + ((4 * i.extra) % SIGN_BIT)
    [] i.op \in {"JR", "JALR"} -> a
    [] OTHER -> ToWord(npc + 4)

\* The return address is stored before rs is read.
Link(i, regs, npc) ==
  CASE i.op \in {"BGEZAL", "BLTZAL", "JAL"} -> [regs EXCEPT ![31] = ToWord(npc + 4)]
    [] i.op = "JALR" -> [regs EXCEPT ![i.rd] = ToWord(npc + 4)]
    [] OTHER -> regs

-----------------------------------------------------------------------------
(* Loads and stores.                                                       *)

Size == [LB |-> 1, LBU |-> 1, SB |-> 1, LH |-> 2, LHU |-> 2, SH |-> 2,
         LW |-> 4, LWL |-> 4, LWR |-> 4, SW |-> 4, SWL |-> 4, SWR |-> 4]
Loads == {"LB", "LBU", "LH", "LHU", "LW", "LWL", "LWR"}
Stores == {"SB", "SH", "SW", "SWL", "SWR"}

\* The size bytes at addr as a number, the first the least significant.
ReadMem(mem, addr, size) ==
  LET part(k) == mem[addr + k] * Byte ^ k
  IN  part(0) + (IF size > 1 THEN part(1) ELSE 0)
        + (IF size > 2 THEN part(2) + part(3) ELSE 0)

WriteMem(mem, addr, size, value) ==
  [n \in DOMAIN mem |->
     IF n \in addr..(addr + size - 1) THEN (value \div Byte ^ (n - addr)) % Byte
     ELSE mem[n]]

\* The value of a load; old is what rt holds, a load in progress included.
LoadValue(op, value, old) ==
  CASE op = "LB" -> SignExtend(value, Byte)
    [] op = "LH" -> SignExtend(value, Half)
    [] op = "LWR" -> (old - (old % Byte)) + (value \div Byte ^ 3)
    [] OTHER -> value

\* The memory after a store of b.
StoreMem(mem, op, addr, b) ==
  CASE op = "SWR" ->
         WriteMem(mem, addr, 4, (ReadMem(mem, addr, 4) % Byte ^ 3) + (b % Byte) * Byte ^ 3)
    [] op \in Stores \ {"SWR"} -> WriteMem(mem, addr, Size[op], b)
    [] OTHER -> mem

\* What Translate or the instruction itself says of the access, pages apart.
\* "OutOfRange" is AddressErrorException with a page table and
\* PageFaultException with a TLB.
AccessCheck(op, addr) ==
  CASE op \in {"LWL", "LWR", "SWL", "SWR"} /\ addr % 4 # 0 -> "assert"
    [] addr % Size[op] # 0 -> "AddressError"
    [] addr >= MemSize -> "OutOfRange"
    [] OTHER -> "ok"

-----------------------------------------------------------------------------
(* One instruction.                                                        *)

ImmediateOps == {"ADDI", "ADDIU", "ANDI", "ORI", "XORI", "SLTI", "SLTIU", "LUI"}
AluOps ==
  ImmediateOps \cup DOMAIN ShiftCompare(0, 0, 0)
    \cup {"ADD", "ADDU", "AND", "NOR", "OR", "SUB", "SUBU", "XOR"}
BranchOps == {"BEQ", "BNE", "BGEZ", "BGEZAL", "BLTZ", "BLTZAL", "BGTZ", "BLEZ"}
JumpOps == {"J", "JAL", "JR", "JALR"}
HiLoOps == {"MULT", "MULTU", "DIV", "DIVU", "MTHI", "MTLO", "MFHI", "MFLO"}

\* The register an arithmetic instruction writes.
Dest(i) == IF i.op \in ImmediateOps THEN i.rt ELSE i.rd

\* rt is part of the opcode of the BCOND instructions.
Contents(regs, r) == IF r \in Reg THEN regs[r] ELSE 0

\* How the switch leaves: ok, an exception, a failed assertion, a host trap.
Outcome(i, regs) ==
  LET a == regs[i.rs]
      b == Contents(regs, i.rt)
  IN  CASE i.op = "SYSCALL" -> "Syscall"
        [] i.op \in {"RES", "UNIMP"} -> "IllegalInstr"
        [] \/ i.op = "ADD" /\ AddOverflows(a, b)
           \/ i.op = "ADDI" /\ AddOverflows(a, i.extra)
           \/ i.op = "SUB" /\ SubOverflows(a, b) -> "Overflow"
        [] DivTraps(i.op, a, b) -> "trap"
        [] i.op \in Loads \cup Stores -> AccessCheck(i.op, ToWord(a + i.extra))
        [] i.op \in AluOps \cup BranchOps \cup JumpOps \cup HiLoOps -> "ok"
        [] OTHER -> "default"

\* The effect of an instruction whose outcome is ok, on the state s.  The load
\* it starts is load; old is what rt holds for LWL and LWR.
Effect(i, s, old) ==
  LET regs == Link(i, s.regs, s.npc)
      a == regs[i.rs]
      b == Contents(regs, i.rt)
      addr == ToWord(a + i.extra)
      hilo == HiLo(i.op, a, b, s.hi, s.lo)
  IN  [regs |-> CASE i.op \in AluOps -> [regs EXCEPT ![Dest(i)] = Alu(i.op, a, b, i.extra)]
                  [] i.op = "MFHI" -> [regs EXCEPT ![i.rd] = s.hi]
                  [] i.op = "MFLO" -> [regs EXCEPT ![i.rd] = s.lo]
                  [] OTHER -> regs,
       hi |-> hilo[1],
       lo |-> hilo[2],
       pcAfter |-> PcAfter(i, a, b, s.npc),
       load |-> IF i.op \in Loads
                THEN [reg |-> i.rt,
                      value |-> LoadValue(i.op, ReadMem(s.mem, addr, Size[i.op]), old)]
                ELSE [reg |-> 0, value |-> 0],
       mem |-> StoreMem(s.mem, i.op, addr, b)]

\* registers[0] = 0 at the end of DelayedLoad.
KeepZero(regs) == [regs EXCEPT ![0] = 0]
=============================================================================
