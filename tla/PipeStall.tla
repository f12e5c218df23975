----------------------------- MODULE PipeStall ------------------------------
(***************************************************************************)
(* The stalling pipeline of Project1/part2/sim-pipe-withstall.c, run       *)
(* beside sim-fast on one program.                                         *)
(*                                                                         *)
(* The state of the simulator is the record s; each stage function is an   *)
(* operator from state to state and one action is one iteration of the     *)
(* loop of sim_main.  arch is a history variable: the state of sim-fast    *)
(* after the instructions that have left WB.                               *)
(***************************************************************************)
EXTENDS Pisa

CONSTANTS
    InitRegs,       \* the registers ld_load_prog leaves behind
    InitData,       \* the data memory it leaves behind
    EntryPC,        \* the program entry point
    Programs,       \* the programs considered: functions address -> instruction
    SysReturns,     \* what system calls that return may leave in $2 and $7
    MaxCycles       \* the model stops counting here

VARIABLES prog, s, arch

Isa == INSTANCE SimFast

vars == <<prog, s, arch>>

FuncOf(op) ==
    CASE op \in {"LW", "SW", "ADD", "ADDI", "ADDU", "ADDIU", "LUI"} -> "ALU_ADD"
      [] op = "BNE" -> "ALU_SUB"
      [] op = "ANDI" -> "ALU_AND"
      [] op = "SLL" -> "ALU_SHTL"
      [] op = "SLTI" -> "ALU_SLT"
      [] OTHER -> "ALU_NOP"

\* Latches are globals: what sim_init does not set is zero, register 0 included.
sim_init ==
    [fd |-> [inst |-> nop, PC |-> EntryPC - InstSize],
     de |-> [inst |-> nop, PC |-> 0, opcode |-> "NOP", flags |-> {}, func |-> "ALU_NOP",
             oprand |-> [out1 |-> 0, in1 |-> 0, in2 |-> 0], aluA |-> 0, aluB |-> 0,
             valA |-> 0, dstE |-> 0, dstM |-> 0, rw |-> {}, target |-> 0],
     em |-> [inst |-> nop, PC |-> 0, valE |-> 0, valA |-> 0, dstE |-> 0, dstM |-> 0,
             rw |-> {}, target |-> 0],
     mw |-> [inst |-> nop, PC |-> 0, valE |-> 0, valM |-> 0, dstE |-> 0, dstM |-> 0, rw |-> {}],
     wb |-> [inst |-> nop, PC |-> 0],
     ctl |-> [flag |-> FALSE, cond |-> {}, regs |-> {}, stall |-> FALSE],
     R |-> [InitRegs EXCEPT ![ZERO] = 0], mem |-> InitData,
     sim_num_insn |-> 0, exited |-> FALSE]
-----------------------------------------------------------------------------
\* Behind a branch in ID a bubble is decoded; a stalled instruction is decoded
\* again and only the opcode of its latch becomes a nop.
pipeline_control(t) ==
    LET fd1 == IF t.ctl.flag THEN [PC |-> t.de.PC, inst |-> Bubble(t.fd.inst)] ELSE t.fd
    IN  IF t.ctl.stall
        THEN [t EXCEPT !.fd = [PC |-> t.de.PC, inst |-> t.de.inst], !.de.inst = Bubble(@)]
        ELSE [t EXCEPT !.fd = fd1]

\* Bit r of ctl.regs is toggled, never set or cleared.
Toggle(regs, r) == LET b == {r % 32} IN (regs \ b) \cup (b \ regs)

\* Mutant: the bit of a written register stays set.
KeepsBit(t, dst, val) == IF dst = DNA THEN t ELSE [t EXCEPT !.R[dst] = val]

Write(t, dst, val) ==
    IF dst = DNA THEN t ELSE [t EXCEPT !.ctl.regs = Toggle(@, dst), !.R[dst] = val]

\* do_wb up to its system call.
do_wb(t) ==
    Write(Write([t EXCEPT !.wb = [inst |-> t.mw.inst, PC |-> t.mw.PC]],
                t.mw.dstM, t.mw.valM), t.mw.dstE, t.mw.valE)

do_mem(t) ==
    LET e == t.em
        load == "load" \in e.rw
    IN  [t EXCEPT
           !.mw = [inst |-> e.inst, PC |-> e.PC, dstE |-> e.dstE, dstM |-> e.dstM,
                   valE |-> e.valE, rw |-> e.rw,
                   valM |-> IF load THEN ReadWord(t.mem, e.valE) ELSE @.valM],
           !.mem = IF ~load /\ "store" \in e.rw THEN WriteWord(@, e.valE, e.valA) ELSE @]

do_ex(t) ==
    LET d == t.de
        valE == Alu(d.func, d.aluA, d.aluB)
    IN  [t EXCEPT
           !.em = [inst |-> d.inst, PC |-> d.PC, dstE |-> d.dstE, dstM |-> d.dstM,
                   valA |-> d.valA, rw |-> d.rw, target |-> d.target, valE |-> valE],
           !.ctl.cond = IF t.ctl.flag /\ valE # 0 THEN @ \cup {2} ELSE @,
           !.ctl.flag = @ /\ valE # 0]

Target(inst, pc) ==
    CASE inst.op = "BNE" -> pc + 8 + 4 * UIMM(inst)
      [] inst.op = "JUMP" -> 4 * UIMM(inst)
      [] OTHER -> 0

\* Mutant: only the first operand is tested.
WaitsForFirst(t, oprand) == oprand.in1 >= 0 /\ oprand.in1 % 32 \in t.ctl.regs

\* An operand with its bit set is not yet in the register file.
Waits(t, oprand) ==
    \E r \in {oprand.in1, oprand.in2} : r >= 0 /\ r % 32 \in t.ctl.regs

\* The value of a source register, zero for DNA.
GPR(t, r) == IF r = DNA THEN 0 ELSE t.R[r]

\* The latch as the DEFINST lookup leaves it.
Lookup(t) ==
    LET d == [t.de EXCEPT !.inst = t.fd.inst, !.PC = t.fd.PC, !.target = 0]
    IN  IF IsNop(t.fd.inst) THEN d
        ELSE IF t.fd.inst.op = "NA" THEN [d EXCEPT !.opcode = "NA"]
        ELSE [d EXCEPT !.opcode = t.fd.inst.op, !.flags = Flags(t.fd.inst.op),
                       !.oprand = Oprand(t.fd.inst)]

\* The rest of do_id: operands from the register file, destination marked.
Issue(t, d) ==
    LET op == d.opcode
        dst == d.oprand.out1
        load == "F_LOAD" \in d.flags
        disp == "F_DISP" \in d.flags
        store == "F_STORE" \in d.flags
    IN  [t EXCEPT
           !.de = [d EXCEPT
                     !.func = FuncOf(op),
                     !.target = Target(d.inst, t.fd.PC),
                     !.aluA = GPR(t, IF disp THEN d.oprand.in2 ELSE d.oprand.in1),
                     !.aluB = IF disp \/ "F_IMM" \in d.flags THEN IMM(d.inst)
                              ELSE IF op = "SLL" THEN UIMM(d.inst)
                              ELSE GPR(t, d.oprand.in2),
                     !.valA = IF store THEN GPR(t, d.oprand.in1) ELSE @,
                     !.rw = (IF store THEN {"store"} ELSE {}) \cup (IF load THEN {"load"} ELSE {}),
                     !.dstM = IF load THEN dst ELSE DNA,
                     !.dstE = IF load THEN DNA ELSE dst],
           !.ctl.stall = FALSE,
           !.ctl.flag = @ \/ op \in {"BNE", "JUMP"},
           !.ctl.cond = IF op = "JUMP" THEN @ \cup {1} ELSE @,
           !.ctl.regs = IF dst >= 0 THEN Toggle(@, dst) ELSE @]

do_id(t) ==
    LET d == Lookup(t)
    IN  IF IsNop(t.fd.inst) THEN [t EXCEPT !.de = d]
        ELSE IF Waits(t, d.oprand) THEN [t EXCEPT !.de = d, !.ctl.stall = TRUE]
        ELSE Issue(t, d)

\* Mutant: the target of the instruction in ID is taken for a branch in EX.
WrongTarget(t) == IF t.ctl.cond # {} THEN t.de.target ELSE t.fd.PC + InstSize

NPC(t) == IF 2 \in t.ctl.cond THEN t.em.target
          ELSE IF t.ctl.cond # {} THEN t.de.target
          ELSE t.fd.PC + InstSize

do_if(t) ==
    [t EXCEPT !.fd = [inst |-> Fetch(prog, NPC(t)), PC |-> NPC(t)],
              !.ctl.flag = @ /\ t.ctl.cond = {},
              !.ctl.cond = {}]
-----------------------------------------------------------------------------
\* sim-fast past the nops in front of it, which look like bubbles.
SkipNops(a) ==
    LET k == CHOOSE n \in 0..Cardinality(DOMAIN prog) :
                 /\ Fetch(prog, a.PC + InstSize * n).op # "NOP"
                 /\ \A j \in 0..(n - 1) : Fetch(prog, a.PC + InstSize * j).op = "NOP"
    IN  [a EXCEPT !.PC = @ + InstSize * k, !.sim_num_insn = @ + k]

Current == SkipNops(arch)
Retires == ~IsNop(s.mw.inst)

Counted(t) == [t EXCEPT !.sim_num_insn = IF @ < MaxCycles THEN @ + 1 ELSE @]

\* The stages behind do_wb.
Rest(t) == do_if(do_id(do_ex(do_mem(t))))

Init == prog \in Programs /\ s = sim_init /\ arch = Isa!ArchInit

\* One iteration in which WB holds no system call.
Iterate ==
    /\ ~s.exited
    /\ s.mw.inst.op # "SYSCALL"
    /\ s' = Rest(do_wb(pipeline_control(Counted(s))))
    /\ arch' = IF Retires THEN Isa!Step(Current) ELSE arch
    /\ UNCHANGED prog

\* A system call that returns.
IterateSyscall(r) ==
    LET t == do_wb(pipeline_control(Counted(s)))
    IN  /\ ~s.exited
        /\ s.mw.inst.op = "SYSCALL"
        /\ t.R[V0] # SYS_exit
        /\ s' = Rest([t EXCEPT !.R = SysReturn(@, r)])
        /\ arch' = Isa!SysStep(Current, r)
        /\ UNCHANGED prog

\* The exit call leaves the loop from inside do_wb.
IterateExit ==
    LET t == do_wb(pipeline_control(Counted(s)))
    IN  /\ ~s.exited
        /\ s.mw.inst.op = "SYSCALL"
        /\ t.R[V0] = SYS_exit
        /\ s' = [t EXCEPT !.exited = TRUE]
        /\ UNCHANGED <<prog, arch>>

Next == Iterate \/ (\E r \in SysReturns : IterateSyscall(r)) \/ IterateExit

Spec == Init /\ [][Next]_vars
-----------------------------------------------------------------------------
\* The instruction in WB is the next one of sim-fast and the register file
\* holds what sim-fast computed for those before it: the scoreboard that do_id
\* and do_wb toggle stalls every reader long enough.
StallPrecise ==
    /\ Retires /\ ~s.exited => s.mw.PC = Current.PC
    /\ \A r \in GPRs \ {ZERO} : s.R[r] = arch.R[r]

\* A store reaches memory once the instructions before it have retired, and
\* none from a wrong path does.
StallMemory ==
    s.mem = IF Retires /\ ~s.exited THEN Isa!Step(Current).mem ELSE arch.mem

\* Every program of forward branches reaches its exit call, in at most three
\* cycles an instruction and the four it takes to fill the pipeline: a toggled
\* bit never leaves a reader waiting for a register nobody will write.
StallEnds == s.sim_num_insn <= 3 * Cardinality(DOMAIN prog) + 4
=============================================================================
