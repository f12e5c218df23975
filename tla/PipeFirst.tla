----------------------------- MODULE PipeFirst ------------------------------
(***************************************************************************)
(* The forwarding pipeline of Project1/part2/sim-pipe.c, run beside        *)
(* sim-fast on one program, in the manner of PipeStall.                    *)
(***************************************************************************)
EXTENDS Pisa

CONSTANTS
    InitRegs,       \* the registers ld_load_prog leaves behind
    InitData,       \* the data memory it leaves behind
    EntryPC,        \* the program entry point
    Programs,       \* the programs considered: functions address -> instruction
    SysReturns,     \* what system calls that return may leave in $2 and $7
    MaxCycles       \* the model stops counting here

VARIABLES prog, s, arch

Isa == INSTANCE SimFast

vars == <<prog, s, arch>>

FuncOf(op) ==
    CASE op \in {"LW", "SW", "ADD", "ADDI", "ADDU", "ADDIU", "LUI"} -> "ALU_ADD"
      [] op = "BNE" -> "ALU_SUB"
      [] op = "ANDI" -> "ALU_AND"
      [] op = "SLL" -> "ALU_SHTL"
      [] op = "SLTI" -> "ALU_SLT"
      [] OTHER -> "ALU_NOP"

sim_init ==
    [fd |-> [inst |-> nop, PC |-> EntryPC - InstSize],
     de |-> [inst |-> nop, PC |-> 0, flags |-> {}, func |-> "ALU_NOP",
             oprand |-> [out1 |-> 0, in1 |-> 0, in2 |-> 0], srcA |-> 0, srcB |-> 0,
             aluA |-> 0, aluB |-> 0, valA |-> 0, dstE |-> DNA, dstM |-> DNA,
             rw |-> {}, target |-> 0],
     em |-> [inst |-> nop, PC |-> 0, valE |-> 0, valA |-> 0, dstE |-> DNA, dstM |-> DNA,
             rw |-> {}, target |-> 0],
     mw |-> [inst |-> nop, PC |-> 0, valE |-> 0, valM |-> 0, dstE |-> DNA, dstM |-> DNA],
     wb |-> [inst |-> nop, PC |-> 0, valE |-> 0, valM |-> 0, dstE |-> DNA, dstM |-> DNA],
     ctl |-> [flag |-> FALSE, cond |-> {}, regs |-> {}, stall |-> FALSE],
     R |-> [InitRegs EXCEPT ![ZERO] = 0], mem |-> InitData,
     sim_num_insn |-> 0, exited |-> FALSE]
-----------------------------------------------------------------------------
\* The test of bit 2 of ctl.flag, which is only ever 0 or 1, never holds, so
\* nothing is squashed behind a branch.
pipeline_control(t) ==
    LET u == IF t.ctl.cond # {} THEN [t EXCEPT !.ctl.flag = FALSE, !.ctl.cond = {}] ELSE t
    IN  IF u.ctl.stall
        THEN [u EXCEPT !.fd = [PC |-> u.de.PC, inst |-> u.de.inst], !.de.inst = Bubble(@)]
        ELSE u

Write(t, dst, val) == IF dst = DNA THEN t ELSE [t EXCEPT !.R[dst] = val]

\* do_wb up to its system call.
do_wb(t) == Write(Write([t EXCEPT !.wb = t.mw], t.mw.dstM, t.mw.valM), t.mw.dstE, t.mw.valE)

\* Mutant: a load never releases the register it loads.
LoadKeepsBit(t) ==
    LET e == t.em
        load == "load" \in e.rw
    IN  [t EXCEPT
           !.mw = [inst |-> e.inst, PC |-> e.PC, dstE |-> e.dstE, dstM |-> e.dstM,
                   valE |-> e.valE, valM |-> IF load THEN ReadWord(t.mem, e.valE) ELSE @.valM],
           !.mem = IF ~load /\ "store" \in e.rw THEN WriteWord(@, e.valE, e.valA) ELSE @]

do_mem(t) ==
    LET e == t.em
        load == "load" \in e.rw
    IN  [t EXCEPT
           !.mw = [inst |-> e.inst, PC |-> e.PC, dstE |-> e.dstE, dstM |-> e.dstM,
                   valE |-> e.valE, valM |-> IF load THEN ReadWord(t.mem, e.valE) ELSE @.valM],
           !.ctl.regs = IF load THEN @ \ {e.dstM % 32} ELSE @,
           !.mem = IF ~load /\ "store" \in e.rw THEN WriteWord(@, e.valE, e.valA) ELSE @]

\* The second operand; the immediate is that of the instruction in EX.
AluB(d) ==
    IF d.flags \cap {"F_IMM", "F_DISP"} # {} THEN IMM(d.inst)
    ELSE IF d.func = "ALU_SHTL" THEN UIMM(d.inst)
    ELSE d.aluB

\* A branch or jump marked in ctl.flag is taken when the ALU result is not zero.
do_ex(t) ==
    LET d == t.de
        valE == Alu(d.func, d.aluA, AluB(d))
    IN  [t EXCEPT
           !.em = [inst |-> d.inst, PC |-> d.PC, dstE |-> d.dstE, dstM |-> d.dstM,
                   valA |-> d.valA, rw |-> d.rw, target |-> d.target, valE |-> valE],
           !.ctl.cond = IF t.ctl.flag /\ valE # 0 THEN @ \cup {2} ELSE @,
           !.ctl.flag = @ /\ valE # 0]

Target(inst, pc, old) ==
    CASE inst.op = "BNE" -> pc + 8 + 4 * UIMM(inst)
      [] inst.op = "JUMP" -> 4 * UIMM(inst)
      [] OTHER -> old

\* A source register a load in EX will write.
Waits(t, oprand) ==
    \E r \in {oprand.in1, oprand.in2} : r >= 0 /\ r % 32 \in t.ctl.regs

\* The rest of do_id.  A word that is no instruction leaves flags and operands
\* of its predecessor in the latch.
Issue(t, d) ==
    LET op == d.inst.op
        dst == d.oprand.out1
        load == "F_LOAD" \in d.flags
    IN  [t EXCEPT
           !.de = [d EXCEPT
                     !.func = FuncOf(op),
                     !.target = Target(d.inst, d.PC, @),
                     !.srcA = IF "F_DISP" \in d.flags THEN d.oprand.in2 ELSE d.oprand.in1,
                     !.srcB = d.oprand.in2,
                     !.rw = (IF "F_STORE" \in d.flags THEN {"store"} ELSE {})
                                \cup (IF load THEN {"load"} ELSE {}),
                     !.dstM = IF load THEN dst ELSE DNA,
                     !.dstE = IF load THEN DNA ELSE dst],
           !.ctl.stall = FALSE,
           !.ctl.flag = @ \/ op \in {"BNE", "JUMP"},
           !.ctl.cond = IF op = "JUMP" THEN @ \cup {1} ELSE @,
           !.ctl.regs = IF load THEN @ \cup {dst % 32} ELSE @]

\* A nop leaves everything but the instruction, its address and rw as it was.
do_id(t) ==
    LET fetched == t.fd.inst
        kept == [t.de EXCEPT !.inst = fetched, !.PC = t.fd.PC, !.rw = {}]
        d == IF fetched.op = "NA" THEN kept
             ELSE [kept EXCEPT !.flags = Flags(fetched.op), !.oprand = Oprand(fetched)]
    IN  IF IsNop(fetched) THEN [t EXCEPT !.de = kept]
        ELSE IF Waits(t, d.oprand) THEN [t EXCEPT !.de = d, !.ctl.stall = TRUE]
        ELSE Issue(t, d)

\* Mutant: MEM is looked at before EX.
OldestFirst(t, src) ==
    CASE src = DNA -> 0
      [] src = t.mw.dstE -> t.mw.valE
      [] src = t.mw.dstM -> t.mw.valM
      [] src = t.em.dstE -> t.em.valE
      [] OTHER -> t.R[src]

\* The newest value of a source register on its way to the register file.
forward(t, src) ==
    IF src = DNA THEN 0
    ELSE IF src = t.em.dstE THEN t.em.valE
    ELSE IF src = t.mw.dstE THEN t.mw.valE
    ELSE IF src = t.mw.dstM THEN t.mw.valM
    ELSE IF src = t.wb.dstE THEN t.wb.valE
    ELSE IF src = t.wb.dstM THEN t.wb.valM
    ELSE t.R[src]

do_forward(t) ==
    [t EXCEPT !.de = [@ EXCEPT !.aluA = forward(t, t.de.srcA), !.aluB = forward(t, t.de.srcB),
                               !.valA = forward(t, t.de.oprand.in1)]]

NPC(t) == IF 2 \in t.ctl.cond THEN t.em.target
          ELSE IF 1 \in t.ctl.cond THEN t.de.target
          ELSE t.fd.PC + InstSize

do_if(t) == [t EXCEPT !.fd = [inst |-> Fetch(prog, NPC(t)), PC |-> NPC(t)]]
-----------------------------------------------------------------------------
\* sim-fast past the nops in front of it, which look like bubbles.
SkipNops(a) ==
    LET k == CHOOSE n \in 0..Cardinality(DOMAIN prog) :
                 /\ Fetch(prog, a.PC + InstSize * n).op # "NOP"
                 /\ \A j \in 0..(n - 1) : Fetch(prog, a.PC + InstSize * j).op = "NOP"
    IN  [a EXCEPT !.PC = @ + InstSize * k, !.sim_num_insn = @ + k]

Current == SkipNops(arch)
Retires == ~IsNop(s.mw.inst)

\* The stages behind do_wb and the count at the end of the iteration.
Rest(t) ==
    LET u == do_if(do_forward(do_id(do_ex(do_mem(t)))))
    IN  [u EXCEPT !.sim_num_insn = IF @ < MaxCycles THEN @ + 1 ELSE @]

Init == prog \in Programs /\ s = sim_init /\ arch = Isa!ArchInit

\* One iteration in which WB holds no system call.
Iterate ==
    /\ ~s.exited
    /\ s.mw.inst.op # "SYSCALL"
    /\ s' = Rest(do_wb(pipeline_control(s)))
    /\ arch' = IF Retires THEN Isa!Step(Current) ELSE arch
    /\ UNCHANGED prog

\* A system call that returns.
IterateSyscall(r) ==
    LET t == do_wb(pipeline_control(s))
    IN  /\ ~s.exited
        /\ s.mw.inst.op = "SYSCALL"
        /\ t.R[V0] # SYS_exit
        /\ s' = Rest([t EXCEPT !.R = SysReturn(@, r)])
        /\ arch' = Isa!SysStep(Current, r)
        /\ UNCHANGED prog

\* The exit call leaves the loop from inside do_wb.
IterateExit ==
    LET t == do_wb(pipeline_control(s))
    IN  /\ ~s.exited
        /\ s.mw.inst.op = "SYSCALL"
        /\ t.R[V0] = SYS_exit
        /\ s' = [t EXCEPT !.exited = TRUE]
        /\ UNCHANGED <<prog, arch>>

Next == Iterate \/ (\E r \in SysReturns : IterateSyscall(r)) \/ IterateExit

Spec == Init /\ [][Next]_vars
-----------------------------------------------------------------------------
\* The instruction in WB is the next one of sim-fast, and the register file
\* holds what sim-fast computed for those before it: forwarding and the
\* load-use stall give every reader the newest value, and what bubbles and
\* nops write again is what is there already.
ForwardPrecise ==
    /\ Retires /\ ~s.exited => s.mw.PC = Current.PC
    /\ \A r \in GPRs \ {ZERO} : s.R[r] = arch.R[r]

\* A store writes the forwarded word once, when the instructions before it
\* have retired or are in WB.
ForwardMemory ==
    s.mem = IF Retires /\ ~s.exited THEN Isa!Step(Current).mem ELSE arch.mem

\* Every program of forward branches reaches its exit call in at most two
\* cycles an instruction and the four that fill the pipeline: a load releases
\* the readers of its register.
ForwardEnds == s.sim_num_insn <= 2 * Cardinality(DOMAIN prog) + 4
=============================================================================
