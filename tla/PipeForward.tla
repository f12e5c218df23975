---------------------------- MODULE PipeForward -----------------------------
(***************************************************************************)
(* The five-stage pipeline with forwarding of Project2/sim-pipe.c.         *)
(*                                                                         *)
(* One action per stage function; stage says which one sim_main calls      *)
(* next, so a round from "control" to "if" is one iteration of its loop.   *)
(* The stages run from WB back to IF and hand their results on through     *)
(* the latches fd, de, em, mw, wb and the control buffer ctl.  The memory  *)
(* port is a plain array here; module UCache shows that the cache behaves  *)
(* like one.                                                               *)
(***************************************************************************)
EXTENDS Pisa

CONSTANTS
    InitRegs,       \* the registers ld_load_prog leaves behind
    InitData,       \* the data memory it leaves behind
    EntryPC,        \* the program entry point
    Programs,       \* the programs considered: functions address -> instruction
    SysReturns,     \* what system calls that return may leave in $2 and $7
    MaxCycles       \* sim_num_insn saturates here

VARIABLES
    prog,           \* the program text
    fd, de, em, mw, wb,     \* the latches behind IF, ID, EX, MEM and WB
    ctl,            \* flag, cmp, cond (the set of its bits), regs (the same), stall
    R,              \* regs.regs_R, with HI and LO at 64 and 65
    mem,            \* the data memory
    stage,          \* the next call of the loop of sim_main
    sim_num_insn    \* counted once per iteration of the loop

vars == <<prog, fd, de, em, mw, wb, ctl, R, mem, stage, sim_num_insn>>

Stages == {"control", "wb", "mem", "ex", "id", "forward", "if", "exited"}
running == stage # "exited"

\* The empty latches; fields the init functions leave out start at zero.
init_fd == [inst |-> nop, PC |-> 0]
init_de == [inst |-> nop, PC |-> 0, opcode |-> "NA", flags |-> {}, func |-> "ALU_NOP",
            oprand |-> [out1 |-> 0, in1 |-> 0, in2 |-> 0],
            srcA |-> 0, srcB |-> 0, aluA |-> 0, aluB |-> 0, valA |-> 0,
            dstE |-> DNA, dstM |-> DNA, rw |-> {}, target |-> 0]
init_em == [inst |-> nop, PC |-> 0, valE |-> 0, valA |-> 0,
            dstE |-> DNA, dstM |-> DNA, rw |-> {}, target |-> 0]
init_mw == [inst |-> nop, PC |-> 0, valE |-> 0, valM |-> 0,
            dstE |-> DNA, dstM |-> DNA, rw |-> {}]
init_wb == [inst |-> nop, PC |-> 0, valE |-> 0, valM |-> 0, dstE |-> DNA, dstM |-> DNA]

\* sim_init, with the program loaded.
sim_init ==
    /\ prog \in Programs
    /\ de = init_de /\ em = init_em /\ mw = init_mw /\ wb = init_wb
    /\ ctl = [flag |-> FALSE, cmp |-> FALSE, cond |-> {}, regs |-> {}, stall |-> FALSE]
    /\ mem = InitData
    /\ sim_num_insn = 0

\* The head of sim_main, up to its loop.
Init ==
    /\ sim_init
    /\ R = [InitRegs EXCEPT ![ZERO] = 0]
    /\ fd = [init_fd EXCEPT !.PC = EntryPC - InstSize]
    /\ stage = "control"

\* The call of stage function s, followed by the one of t.
Call(s, t) == stage = s /\ stage' = t
-----------------------------------------------------------------------------
\* A taken branch squashes the instruction behind it; a stalled instruction
\* goes back to fd and leaves a bubble in de.
pipeline_control ==
    LET inst == IF 2 \in ctl.cond THEN Bubble(de.inst) ELSE de.inst
    IN  /\ Call("control", "wb")
        /\ fd' = IF ctl.stall THEN [inst |-> inst, PC |-> de.PC] ELSE fd
        /\ de' = [de EXCEPT !.inst = IF ctl.stall THEN Bubble(inst) ELSE inst]
        /\ ctl' = [ctl EXCEPT !.flag = @ /\ ctl.cond = {}, !.cond = {}]
        /\ UNCHANGED <<prog, em, mw, wb, R, mem, sim_num_insn>>

\* Mutant: regs_R[-1] is written for DNA.
SetAnyGPR(regs, dst, val) ==
    [r \in DOMAIN regs \cup {dst} |-> IF r = dst THEN val ELSE regs[r]]

\* SET_GPR unless the destination is DNA.
SetGPR(regs, dst, val) == IF dst = DNA THEN regs ELSE [regs EXCEPT ![dst] = val]

\* The latch and the registers do_wb leaves when mw holds an instruction.
WrittenBack == SetGPR(SetGPR(R, mw.dstM, mw.valM), mw.dstE, mw.valE)
LatchWb == wb' = [inst |-> mw.inst, PC |-> mw.PC, valE |-> mw.valE, valM |-> mw.valM,
                  dstE |-> mw.dstE, dstM |-> mw.dstM]

do_wb ==
    /\ Call("wb", "mem")
    /\ mw.inst.op # "SYSCALL"
    /\ IF IsNop(mw.inst) THEN wb' = [wb EXCEPT !.inst = mw.inst] /\ R' = R
                         ELSE LatchWb /\ R' = WrittenBack
    /\ UNCHANGED <<prog, fd, de, em, mw, ctl, mem, sim_num_insn>>

\* do_wb for a system call that returns.
do_wb_syscall(r) ==
    /\ Call("wb", "mem")
    /\ mw.inst.op = "SYSCALL"
    /\ WrittenBack[V0] # SYS_exit
    /\ LatchWb
    /\ R' = SysReturn(WrittenBack, r)
    /\ UNCHANGED <<prog, fd, de, em, mw, ctl, mem, sim_num_insn>>

\* The exit system call leaves the loop from inside do_wb.
do_wb_exit ==
    /\ Call("wb", "exited")
    /\ mw.inst.op = "SYSCALL"
    /\ WrittenBack[V0] = SYS_exit
    /\ LatchWb
    /\ R' = WrittenBack
    /\ UNCHANGED <<prog, fd, de, em, mw, ctl, mem, sim_num_insn>>

\* Bit r of ctl.regs; the shift count of 1 << r is taken modulo 32.
RegBit(r) == r % 32

\* Mutant: the bit of the wrong destination is cleared.
LoadedWrong == [ctl EXCEPT !.regs = @ \ {RegBit(em.dstE)}]

\* A load that leaves MEM clears its bit.
Loaded == [ctl EXCEPT !.regs = @ \ {RegBit(em.dstM)}]

do_mem ==
    LET load == ~IsNop(em.inst) /\ "load" \in em.rw
        store == ~IsNop(em.inst) /\ "store" \in em.rw /\ ~load
    IN  /\ Call("mem", "ex")
        /\ mw' = IF IsNop(em.inst) THEN [mw EXCEPT !.inst = em.inst]
                 ELSE [inst |-> em.inst, PC |-> em.PC, valE |-> em.valE,
                       valM |-> IF load THEN ReadWord(mem, em.valE) ELSE mw.valM,
                       dstE |-> em.dstE, dstM |-> em.dstM, rw |-> em.rw]
        /\ ctl' = IF load THEN Loaded ELSE ctl
        /\ mem' = IF store THEN WriteWord(mem, em.valE, em.valA) ELSE mem
        /\ UNCHANGED <<prog, fd, de, em, wb, R, sim_num_insn>>

\* Mutant: displacements are not treated as immediates.
AluBNoDisp ==
    IF "F_IMM" \in de.flags THEN IMM(de.inst)
    ELSE IF de.func = "ALU_SHTL" THEN UIMM(de.inst)
    ELSE de.aluB

\* The second ALU operand: immediate, shift amount or register.
AluB ==
    IF de.flags \cap {"F_IMM", "F_DISP"} # {} THEN IMM(de.inst)
    ELSE IF de.func = "ALU_SHTL" THEN UIMM(de.inst)
    ELSE de.aluB

\* A conditional branch in EX is resolved against the prediction not taken.
Resolve(valE) ==
    IF ~ctl.flag THEN ctl
    ELSE IF ctl.cmp <=> valE # 0 THEN [ctl EXCEPT !.cond = @ \cup {2}]
    ELSE [ctl EXCEPT !.flag = FALSE]

do_ex ==
    LET valE == Alu(de.func, de.aluA, AluB)
    IN  /\ Call("ex", "id")
        /\ IF IsNop(de.inst)
           THEN em' = [em EXCEPT !.inst = de.inst] /\ UNCHANGED <<R, ctl>>
           ELSE /\ em' = [inst |-> de.inst, PC |-> de.PC, valE |-> valE, valA |-> de.valA,
                          dstE |-> de.dstE, dstM |-> de.dstM, rw |-> de.rw,
                          target |-> de.target]
                /\ R' = IF de.opcode = "MULTU"
                        THEN [R EXCEPT ![DHI] = MultuHi(de.aluA, AluB),
                                       ![DLO] = MultuLo(de.aluA, AluB)]
                        ELSE R
                /\ ctl' = Resolve(valE)
        /\ UNCHANGED <<prog, fd, de, mw, wb, mem, sim_num_insn>>

FuncOf(op) ==
    CASE op \in {"LUI", "LW", "SW", "ADD", "ADDI", "ADDU", "ADDIU"} -> "ALU_ADD"
      [] op \in Branches -> "ALU_SUB"
      [] op = "ANDI" -> "ALU_AND"
      [] op = "SLL" -> "ALU_SHTL"
      [] op = "SLTI" -> "ALU_SLT"
      [] OTHER -> "ALU_NOP"

\* The DEFINST lookup: an undefined opcode keeps the operands of the last one.
Lookup ==
    LET d == [de EXCEPT !.inst = fd.inst, !.PC = fd.PC, !.rw = {}, !.opcode = fd.inst.op]
    IN  IF fd.inst.op = "NA" THEN d
        ELSE [d EXCEPT !.oprand = Oprand(fd.inst), !.flags = Flags(fd.inst.op)]

\* Mutant: any pending load stalls.
WaitsForAnyLoad(oprand) == ctl.regs # {}

\* An operand still being loaded: its bit is set in ctl.regs.
WaitsForLoad(oprand) ==
    \E r \in {oprand.in1, oprand.in2} : r >= 0 /\ RegBit(r) \in ctl.regs

\* Branch targets add the 16-bit field without extending its sign.
Target(inst, pc, old) ==
    CASE inst.op \in Branches -> pc + 8 + 4 * UIMM(inst)
      [] inst.op = "JUMP" -> 4 * UIMM(inst)
      [] OTHER -> old

\* do_id for a nop, which leaves the control buffer alone.
do_id_nop ==
    /\ Call("id", "forward")
    /\ IsNop(fd.inst)
    /\ de' = [de EXCEPT !.inst = fd.inst, !.PC = fd.PC, !.rw = {}]
    /\ UNCHANGED <<prog, fd, em, mw, wb, ctl, R, mem, sim_num_insn>>

\* do_id for an instruction whose operand is being loaded.
do_id_stall ==
    /\ Call("id", "forward")
    /\ ~IsNop(fd.inst)
    /\ WaitsForLoad(Lookup.oprand)
    /\ de' = Lookup
    /\ ctl' = [ctl EXCEPT !.stall = TRUE]
    /\ UNCHANGED <<prog, fd, em, mw, wb, R, mem, sim_num_insn>>

\* do_id to the end.
do_id ==
    LET op == fd.inst.op
        flags == IF op = "LUI" THEN Lookup.flags \cup {"F_IMM"} ELSE Lookup.flags
        load == "F_LOAD" \in flags
        oprand == Lookup.oprand
    IN  /\ Call("id", "forward")
        /\ ~IsNop(fd.inst)
        /\ ~WaitsForLoad(oprand)
        /\ de' = [Lookup EXCEPT
                    !.flags = flags,
                    !.func = FuncOf(op),
                    !.target = Target(fd.inst, fd.PC, @),
                    !.srcA = IF "F_DISP" \in flags THEN oprand.in2 ELSE oprand.in1,
                    !.srcB = oprand.in2,
                    !.rw = (IF "F_STORE" \in flags THEN {"store"} ELSE {})
                             \cup (IF load THEN {"load"} ELSE {}),
                    !.dstM = IF load THEN oprand.out1 ELSE DNA,
                    !.dstE = IF load THEN DNA ELSE oprand.out1]
        /\ ctl' = [ctl EXCEPT
                    !.stall = FALSE,
                    !.flag = @ \/ op \in Branches \/ op = "JUMP",
                    !.cmp = IF op \in Branches THEN op = "BNE" ELSE @,
                    !.cond = IF op = "JUMP" THEN @ \cup {1} ELSE @,
                    !.regs = IF load THEN @ \cup {RegBit(oprand.out1)} ELSE @]
        /\ R' = IF op = "MFLO" THEN [R EXCEPT ![oprand.out1] = R[DLO]] ELSE R
        /\ UNCHANGED <<prog, fd, em, mw, wb, mem, sim_num_insn>>

\* Mutant: the older result in mw wins over the newer one in em.
ForwardOldest(src) ==
    IF src = DNA THEN 0
    ELSE IF src = mw.dstE THEN mw.valE
    ELSE IF src = mw.dstM THEN mw.valM
    ELSE IF src = em.dstE THEN em.valE
    ELSE IF src = wb.dstE THEN wb.valE
    ELSE IF src = wb.dstM THEN wb.valM
    ELSE R[src]

\* The newest value of a register: em first, then mw, wb and the register file.
forward(src) ==
    IF src = DNA THEN 0
    ELSE IF src = em.dstE THEN em.valE
    ELSE IF src = mw.dstE THEN mw.valE
    ELSE IF src = mw.dstM THEN mw.valM
    ELSE IF src = wb.dstE THEN wb.valE
    ELSE IF src = wb.dstM THEN wb.valM
    ELSE R[src]

\* Mutant: the data of a store is taken from its base register.
ForwardBase ==
    /\ Call("forward", "if")
    /\ de' = [de EXCEPT !.aluA = forward(de.srcA), !.aluB = forward(de.srcB),
                        !.valA = forward(de.srcB)]
    /\ UNCHANGED <<prog, fd, em, mw, wb, ctl, R, mem, sim_num_insn>>

do_forward ==
    /\ Call("forward", "if")
    /\ de' = [de EXCEPT !.aluA = forward(de.srcA), !.aluB = forward(de.srcB),
                        !.valA = forward(de.oprand.in1)]
    /\ UNCHANGED <<prog, fd, em, mw, wb, ctl, R, mem, sim_num_insn>>

\* Mutant: a jump on the wrong path beats the branch in front of it.
JumpFirst == IF 1 \in ctl.cond THEN de.target
             ELSE IF 2 \in ctl.cond THEN em.target
             ELSE fd.PC + InstSize

\* The next PC: a mispredicted branch in em beats a jump in de.
NPC == IF 2 \in ctl.cond THEN em.target
       ELSE IF 1 \in ctl.cond THEN de.target
       ELSE fd.PC + InstSize

\* do_if and INC_INSN_CTR, a 64-bit counter that saturates in the model.
do_if ==
    /\ Call("if", "control")
    /\ fd' = [inst |-> Fetch(prog, NPC), PC |-> NPC]
    /\ sim_num_insn' = IF sim_num_insn < MaxCycles THEN sim_num_insn + 1 ELSE MaxCycles
    /\ UNCHANGED <<prog, de, em, mw, wb, ctl, R, mem>>
-----------------------------------------------------------------------------
WriteBack == do_wb \/ (\E r \in SysReturns : do_wb_syscall(r)) \/ do_wb_exit
Decode == do_id_nop \/ do_id_stall \/ do_id

Next == pipeline_control \/ WriteBack \/ do_mem \/ do_ex \/ Decode \/ do_forward \/ do_if

\* The program is single threaded and only the exit call stops its loop.
Spec == Init /\ [][Next]_vars /\ WF_vars(Next)
-----------------------------------------------------------------------------
(* The programs on which the pipeline is exact.                            *)

\* No load in the slot behind a conditional branch, where a squashed load keeps
\* its bit, and no two adjacent loads of one register, which share one bit.
Exact(p) ==
    \A pc \in DOMAIN p :
        LET next == Fetch(p, pc + InstSize)
        IN  /\ ~(p[pc].op \in Branches /\ next.op = "LW")
            /\ ~(p[pc].op = "LW" /\ next.op = "LW" /\ p[pc].rt = next.rt)

\* The two instructions that may have left ID when the system call in front of
\* them returns do not read its results.
ReadsResult(inst) == {Oprand(inst).in1, Oprand(inst).in2} \cap {V0, A3} # {}
Unread(p) ==
    \A pc \in DOMAIN p :
        LET next == Fetch(p, pc + InstSize)
            behind == {pc + 2 * InstSize, IF next.op = "JUMP" THEN 4 * UIMM(next) ELSE pc + 2 * InstSize}
        IN  p[pc].op = "SYSCALL" =>
                \A inst \in {next} \cup {Fetch(p, q) : q \in behind} : ~ReadsResult(inst)

\* The instructions do_id and do_ex execute as machine.def does, lui and mflo
\* not among them: $0 is not written, the offset of a branch, whose sign is not
\* extended, and the mask of andi, whose sign is, are not negative, and a shift
\* is less than a word.
Executable(inst) ==
    /\ inst.op \in {"NOP", "ADD", "ADDU", "ADDI", "ADDIU", "ANDI", "SLTI", "SLL", "MULTU",
                    "LW", "SW", "BEQ", "BNE", "JUMP", "SYSCALL"}
    /\ inst = Inst(inst.op, inst.rs, inst.rt, inst.rd, inst.imm)
    /\ {inst.rs, inst.rt, inst.rd} \subseteq GPRs /\ inst.imm \in Nat
    /\ Oprand(inst).out1 # ZERO
    /\ inst.op \in Branches \cup {"ANDI"} => IMM(inst) = UIMM(inst)
    /\ inst.op = "SLL" => inst.imm < 2 * ImmBits

\* The text does not end in a load, whose flags the zero words behind it keep.
Supported(p) ==
    /\ IsFiniteSet(DOMAIN p) /\ \A pc \in DOMAIN p : pc \in Int /\ Executable(p[pc])
    /\ \A pc \in DOMAIN p : p[pc].op \in {"LW", "NOP"} => pc + InstSize \in DOMAIN p
    /\ Exact(p) /\ Unread(p)

\* The hypotheses on the constants: programs of the supported instructions, and
\* words in registers and memory.
Words == {x \in Int : -WordMod <= 2 * x /\ 2 * x < WordMod}
Loadable ==
    /\ \A p \in Programs : Supported(p)
    /\ InitRegs \in [Regs -> Words]
    /\ InitData \in [DOMAIN InitData -> Words]
    /\ EntryPC \in Int /\ MaxCycles \in Nat
    /\ \A r \in SysReturns : r.v0 \in Words /\ r.a3 \in Words
-----------------------------------------------------------------------------
\* Types of the register file, the register numbers that index it in do_wb and
\* forward, the control buffer and the position in the loop.
TypeOK ==
    /\ DOMAIN R = Regs
    /\ {em.dstE, em.dstM, mw.dstE, mw.dstM, wb.dstE, wb.dstM} \subseteq Regs \cup {DNA}
    /\ {de.srcA, de.srcB, de.oprand.in1} \subseteq Regs \cup {DNA}
    /\ ctl.cond \subseteq {1, 2} /\ ctl.regs \subseteq 0..31
    /\ ctl.stall \in BOOLEAN /\ ctl.flag \in BOOLEAN
    /\ stage \in Stages /\ sim_num_insn \in 0..MaxCycles

\* The destinations of the loads that left ID and have not left MEM.
PendingLoads ==
    {RegBit(l.dstM) : l \in {x \in {de, em} : ~IsNop(x.inst) /\ "load" \in x.rw}}

\* The scoreboard ctl.regs marks the registers being loaded and no other: a
\* missing bit lets an instruction read too early, an orphan bit stalls its
\* readers for ever (set in do_id, cleared in do_mem).
ScoreboardExact == stage = "control" => ctl.regs = PendingLoads
-----------------------------------------------------------------------------
(***************************************************************************)
(* The pipeline and sim-fast side by side on one program.  Whenever the    *)
(* pipeline retires an instruction in do_wb, sim-fast executes its next    *)
(* one; a nop of the program cannot be told from a bubble, so sim-fast     *)
(* skips nops.  arch and lost are history variables: they follow the       *)
(* pipeline and never restrict it.                                         *)
(***************************************************************************)
VARIABLES
    arch,           \* the state of sim-fast after the retired instructions
    lost            \* the cycles those instructions cost beyond one each

tandemVars == <<vars, arch, lost>>

\* sim-fast past the nops in front of it.
SkipNops(s) ==
    LET ahead == {k \in 0..Cardinality(DOMAIN prog) :
                     /\ Fetch(prog, s.PC + InstSize * k).op # "NOP"
                     /\ \A j \in 0..(k - 1) : Fetch(prog, s.PC + InstSize * j).op = "NOP"}
        k == CHOOSE n \in ahead : TRUE
    IN  [s EXCEPT !.PC = @ + InstSize * k, !.sim_num_insn = @ + k]

Current == SkipNops(arch)
Retires == ~IsNop(mw.inst)

\* The documented cost of an instruction beyond its own cycle: one cycle for
\* a taken conditional branch, one for a load the next instruction reads.
Penalty(s) ==
    LET inst == Fetch(prog, s.PC)
        next == Fetch(prog, s.PC + InstSize)
        taken == inst.op \in Branches /\ StepOf(prog, s).PC # s.PC + InstSize
        used == /\ inst.op = "LW"
                /\ inst.rt \in {Oprand(next).in1, Oprand(next).in2}
    IN  IF taken \/ used THEN 1 ELSE 0

TandemInit == Init /\ arch = ArchAt(InitRegs, InitData, EntryPC) /\ lost = 0

\* do_wb retires an instruction unless it holds a nop or a bubble.
Retire ==
    /\ arch' = IF Retires THEN StepOf(prog, Current) ELSE arch
    /\ lost' = IF Retires THEN lost + Penalty(Current) ELSE lost

TandemNext ==
    \/ do_wb /\ Retire
    \/ \E r \in SysReturns :
           do_wb_syscall(r) /\ arch' = SysStepOf(prog, Current, r) /\ UNCHANGED lost
    \/ /\ \/ do_wb_exit \/ pipeline_control \/ do_mem \/ do_ex
          \/ Decode \/ do_forward \/ do_if
       /\ UNCHANGED <<arch, lost>>

TandemSpec == TandemInit /\ [][TandemNext]_tandemVars /\ WF_tandemVars(TandemNext)
-----------------------------------------------------------------------------
\* Precise registers: behind every do_wb the register file holds what sim-fast
\* computes for the instructions retired so far, so forward() and the stall of
\* do_id never deliver a stale operand.  $0 is compared through its readers
\* only.
RegsAgree == \A r \in GPRs \ {ZERO} : R[r] = arch.R[r]

\* Precise memory: do_mem runs one stage ahead of do_wb, so between two
\* iterations memory is that of sim-fast after the instruction in mw, and no
\* store of a wrong path or of an instruction behind an exit reaches it.
MemAgrees ==
    /\ stage = "control" => mem = IF Retires THEN StepOf(prog, Current).mem ELSE arch.mem
    /\ stage \in {"mem", "exited"} => mem = arch.mem

\* Control flow: the instruction about to retire is the one sim-fast executes
\* next; nothing is lost, repeated or retired from a mispredicted path
\* (pipeline_control, do_if).
RetiresInOrder == stage = "wb" /\ Retires => mw.PC = Current.PC

\* The pipeline is precise: what retires is what sim-fast executes next,
\* registers and memory agree with it behind every do_wb, no store of a wrong
\* path or behind an exit reaches memory, and the latches hold register numbers
\* and positions throughout.
PipelineExact == stage \in Stages => TypeOK /\ RegsAgree /\ MemAgrees /\ RetiresInOrder

\* The instruction sim-fast executes next is one, and declares no fault: on any
\* other sim-fast stops.
Proceeds ==
    LET inst == Fetch(prog, Current.PC)
    IN  inst.op # "NA" /\ ~Faults(inst, [Current.R EXCEPT ![ZERO] = 0])

\* The cycle count is four to fill the pipeline, one per instruction, and the
\* documented penalties, no more (ctl.stall, ctl.cond and the loop counter);
\* and nothing retires on which sim-fast would stop.
CyclesExplained ==
    stage = "wb" /\ Retires => Proceeds /\ sim_num_insn = 4 + Current.sim_num_insn + lost

\* A program without backward jumps reaches its exit call: no instruction
\* waits for ever in ID.
Terminates == stage \in Stages ~> stage = "exited"
=============================================================================
