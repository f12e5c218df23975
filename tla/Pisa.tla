-------------------------------- MODULE Pisa --------------------------------
(***************************************************************************)
(* The part of the PISA instruction set that the pipelines decode, as      *)
(* Project1/part1/machine.def defines it: the operands and flags of each   *)
(* DEFINST, and the effect of each _IMPL on registers, memory and program  *)
(* counter.  sim-fast executes these effects one instruction at a time     *)
(* (module SimFast); the pipelines must agree with them.                   *)
(*                                                                         *)
(* An instruction is the predecoded md_inst_t: op is the opcode            *)
(* enumeration the loader stores in field a, and rs, rt, rd and imm are      *)
(* the fields of b.  Words are signed integers of 2 * ImmBits bits (32 in  *)
(* PISA, where the immediate has 16).                                      *)
(***************************************************************************)
EXTENDS Integers, FiniteSetsExt

CONSTANTS
    ImmBits,        \* width of the immediate field; a word is twice as wide
    GPRs            \* the general purpose registers the programs use

DNA == -1           \* no dependence
DHI == 64           \* regs_C.hi lies at regs_R[64] in struct regs_t
DLO == 65           \* and regs_C.lo at regs_R[65]
ZERO == 0           \* MD_REG_ZERO
V0 == 2             \* result register of a system call
A3 == 7             \* error flag register of a system call
SYS_exit == 1       \* SS_SYS_exit, in $2
InstSize == 8       \* sizeof(md_inst_t)

ASSUME PisaAssumption ==
    /\ ImmBits \in Nat \ {0}
    /\ \A n \in 0..(2 * ImmBits) : 2^n \in Nat \ {0}
    /\ 2^(2 * ImmBits) >= 4
    /\ GPRs \subseteq 0..31 /\ {ZERO, V0, A3} \subseteq GPRs

Regs == GPRs \cup {DHI, DLO}

\* Two's complement wrap-around of a word, and the immediate field's views.
WordMod == 2^(2 * ImmBits)
Wrap(x) == LET u == x % WordMod IN IF 2 * u >= WordMod THEN u - WordMod ELSE u
Unsigned(x) == x % WordMod
UIMM(inst) == inst.imm
IMM(inst) == IF 2 * inst.imm >= 2^ImmBits THEN inst.imm - 2^ImmBits ELSE inst.imm

\* The overflow test of the ISA, as pisa.h writes it.
MAXINT_VAL == WordMod \div 2 - 1
OVER(x, y) ==
    \/ x > 0 /\ y > 0 /\ MAXINT_VAL - x < y
    \/ x < 0 /\ y < 0 /\ -MAXINT_VAL - x > y

BitAnd(x, y) ==
    Wrap(MapThenSumSet(LAMBDA i : ((x \div 2^i) % 2) * ((y \div 2^i) % 2) * 2^i,
                       0..(2 * ImmBits - 1)))

\* The product that the shift-and-add loop of MULTU leaves in HI and LO.
MultuLo(x, y) == Wrap(Unsigned(x) * Unsigned(y))
MultuHi(x, y) == Wrap((Unsigned(x) * Unsigned(y)) \div WordMod)

Inst(op, rs, rt, rd, imm) ==
    [op |-> op, rs |-> rs, rt |-> rt, rd |-> rd, imm |-> imm]

\* Memory never written holds zeros, and a zero word is no opcode (OP_NA).
NAInst == Inst("NA", 0, 0, 0, 0)

\* MD_FETCH_INST from the program text p.
Fetch(p, pc) == IF pc \in DOMAIN p THEN p[pc] ELSE NAInst

Branches == {"BEQ", "BNE"}
RType == {"ADD", "ADDU"}
IType == {"ADDI", "ADDIU", "ANDI", "SLTI"}

\* The flags of a DEFINST that the pipelines test.
Flags(op) ==
    CASE op = "LW" -> {"F_LOAD", "F_DISP"}
      [] op = "SW" -> {"F_STORE", "F_DISP"}
      [] op \in IType -> {"F_IMM"}
      [] OTHER -> {}

\* The output and input dependences O1, I1 and I2 of a DEFINST.
Oprand(inst) ==
    LET dep(out, a, b) == [out1 |-> out, in1 |-> a, in2 |-> b] IN
    CASE inst.op \in Branches -> dep(DNA, inst.rs, inst.rt)
      [] inst.op \in RType -> dep(inst.rd, inst.rs, inst.rt)
      [] inst.op \in IType -> dep(inst.rt, inst.rs, DNA)
      [] inst.op = "LW" -> dep(inst.rt, DNA, inst.rs)
      [] inst.op = "SW" -> dep(DNA, inst.rt, inst.rs)
      [] inst.op = "SLL" -> dep(inst.rd, inst.rt, DNA)
      [] inst.op = "LUI" -> dep(inst.rt, DNA, DNA)
      [] inst.op = "MULTU" -> dep(DHI, inst.rt, inst.rs)
      [] inst.op = "MFLO" -> dep(inst.rd, DLO, DNA)
      [] OTHER -> dep(DNA, DNA, DNA)
-----------------------------------------------------------------------------
\* Data memory: a sparse function from addresses to words, zero elsewhere.
ReadWord(m, a) == IF a \in DOMAIN m THEN m[a] ELSE 0
WriteWord(m, a, w) == [x \in DOMAIN m \cup {a} |-> IF x = a THEN w ELSE m[x]]

\* The value each _IMPL stores in its destination register.
ImplValue(inst, R, m) ==
    LET a == R[inst.rs]
        b == R[inst.rt]
    IN  CASE inst.op \in {"ADD", "ADDU"} -> Wrap(a + b)
          [] inst.op \in {"ADDI", "ADDIU"} -> Wrap(a + IMM(inst))
          [] inst.op = "ANDI" -> BitAnd(a, UIMM(inst))
          [] inst.op = "SLTI" -> IF a < IMM(inst) THEN 1 ELSE 0
          [] inst.op = "SLL" -> Wrap(b * 2^UIMM(inst))
          [] inst.op = "LUI" -> Wrap(UIMM(inst) * 2^ImmBits)
          [] inst.op = "LW" -> ReadWord(m, Wrap(a + IMM(inst)))
          [] inst.op = "MFLO" -> R[DLO]
          [] inst.op = "MULTU" -> MultuHi(a, b)

\* An addition that overflows declares a fault and writes nothing.
Faults(inst, R) ==
    \/ inst.op = "ADD" /\ OVER(R[inst.rs], R[inst.rt])
    \/ inst.op = "ADDI" /\ OVER(R[inst.rs], IMM(inst))

\* The registers after the instruction.
ImplRegs(inst, R, m) ==
    LET dst == Oprand(inst).out1
    IN  IF dst = DNA \/ Faults(inst, R) THEN R
        ELSE IF inst.op = "MULTU"
        THEN [R EXCEPT ![DHI] = ImplValue(inst, R, m),
                       ![DLO] = MultuLo(R[inst.rs], R[inst.rt])]
        ELSE [R EXCEPT ![dst] = ImplValue(inst, R, m)]

\* The memory after the instruction.
ImplMem(inst, R, m) ==
    IF inst.op = "SW" THEN WriteWord(m, Wrap(R[inst.rs] + IMM(inst)), R[inst.rt]) ELSE m

\* The program counter after the instruction (SET_NPC or the default).
ImplNPC(inst, R, pc) ==
    LET taken == \/ inst.op = "BEQ" /\ R[inst.rs] = R[inst.rt]
                 \/ inst.op = "BNE" /\ R[inst.rs] # R[inst.rt]
    IN  CASE inst.op = "JUMP" -> 4 * UIMM(inst)
          [] taken -> pc + InstSize + 4 * IMM(inst)
          [] OTHER -> pc + InstSize

\* A system call that returns leaves its result, or the error number, in $2
\* and the error flag in $7.
SysReturn(R, r) == [R EXCEPT ![V0] = r.v0, ![A3] = r.a3]

\* The state of sim-fast with a program loaded.
ArchAt(regs, data, pc) == [R |-> regs, mem |-> data, PC |-> pc, sim_num_insn |-> 0]

\* One iteration of the loop of sim-fast on state s of program p: $r0 is
\* cleared, the instruction is counted and executed.
StepOf(p, s) ==
    LET R0 == [s.R EXCEPT ![ZERO] = 0]
        inst == Fetch(p, s.PC)
    IN  [R |-> ImplRegs(inst, R0, s.mem), mem |-> ImplMem(inst, R0, s.mem),
         PC |-> ImplNPC(inst, R0, s.PC), sim_num_insn |-> s.sim_num_insn + 1]

\* The iteration of a system call that returns r.
SysStepOf(p, s, r) == [StepOf(p, s) EXCEPT !.R = SysReturn(@, r)]
-----------------------------------------------------------------------------
(* What the pipelines share: bubbles and the ALU.                          *)

\* A bubble is an instruction whose opcode word is overwritten by NOP; it keeps
\* the b field.
Bubble(inst) == [inst EXCEPT !.op = "NOP"]
IsNop(inst) == inst.op = "NOP"
nop == Bubble(NAInst)

Alu(func, a, b) ==
    CASE func = "ALU_ADD" -> Wrap(a + b)
      [] func = "ALU_SUB" -> Wrap(a - b)
      [] func = "ALU_AND" -> BitAnd(a, b)
      [] func = "ALU_SLT" -> IF a < b THEN 1 ELSE 0
      [] func = "ALU_SHTL" -> Wrap(a * 2^b)
      [] OTHER -> 0
=============================================================================
