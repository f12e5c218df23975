------------------------- MODULE PipeForwardProofs --------------------------
(***************************************************************************)
(* Proofs about the forwarding pipeline of module PipeForward, for every   *)
(* program of the supported instructions, every word size, register file   *)
(* and initial memory.                                                     *)
(*                                                                         *)
(* The invariant says for each place of the loop of sim_main what the      *)
(* latches hold.  Its first part (Flow) is about the pipeline alone: which *)
(* instruction is in which latch, and what the control buffer knows.  Its  *)
(* second part (Values) follows sim-fast through the latches: After(s, l)  *)
(* is what the instruction in latch l makes of state s.                    *)
(***************************************************************************)
EXTENDS PipeForward, ProofLemmas, FiniteSetTheorems, TLAPS

-----------------------------------------------------------------------------
(* The pipeline alone.                                                     *)

RegOrNone == Regs \cup {DNA}
Oprands == [out1 : RegOrNone, in1 : RegOrNone, in2 : RegOrNone]
DeFields == {"inst", "PC", "opcode", "flags", "func", "oprand", "srcA", "srcB", "aluA", "aluB", "valA",
             "dstE", "dstM", "rw", "target"}
EmFields == {"inst", "PC", "valE", "valA", "dstE", "dstM", "rw", "target"}
MwFields == {"inst", "PC", "valE", "valM", "dstE", "dstM", "rw"}
WbFields == {"inst", "PC", "valE", "valM", "dstE", "dstM"}
Controls == [flag : BOOLEAN, cmp : BOOLEAN, cond : SUBSET {1, 2}, regs : SUBSET (0..31), stall : BOOLEAN]

\* The instructions, register numbers and positions in the latches, and the
\* control buffer.
IsInst(i) == i = Inst(i.op, i.rs, i.rt, i.rd, i.imm)
FdShape(f) == DOMAIN f = {"inst", "PC"} /\ f.PC \in Int /\ IsInst(f.inst)
DeShape(d) ==
    /\ DOMAIN d = DeFields /\ d.PC \in Int /\ d.target \in Int /\ d.oprand \in Oprands /\ IsInst(d.inst)
    /\ {d.srcA, d.srcB, d.dstE, d.dstM} \subseteq RegOrNone
EmShape(e) == DOMAIN e = EmFields /\ e.PC \in Int /\ e.target \in Int /\ {e.dstE, e.dstM} \subseteq RegOrNone
MwShape(m) == DOMAIN m = MwFields /\ m.PC \in Int /\ {m.dstE, m.dstM} \subseteq RegOrNone
WbShape(w) == DOMAIN w = WbFields /\ {w.dstE, w.dstM} \subseteq RegOrNone
RShape(f) == f = [r \in Regs |-> f[r]]
Shape ==
    /\ prog \in Programs /\ RShape(R) /\ ctl \in Controls /\ sim_num_insn \in 0..MaxCycles
    /\ FdShape(fd) /\ DeShape(de) /\ EmShape(em) /\ MwShape(mw) /\ WbShape(wb)

\* The latch holds an instruction, or one of the given ones.
Full(l) == ~IsNop(l.inst)
Op(l, ops) == Full(l) /\ l.inst.op \in ops

\* The instruction in a latch is the one at its address, with the destinations
\* and the access of its kind; where the text has none, no load is seen.
Decoded(p, l) ==
    Full(l) =>
        /\ l.inst = Fetch(p, l.PC)
        /\ l.inst.op # "NA" =>
               /\ l.dstM = IF l.inst.op = "LW" THEN Oprand(l.inst).out1 ELSE DNA
               /\ l.dstE = IF l.inst.op = "LW" THEN DNA ELSE Oprand(l.inst).out1
               /\ "load" \in l.rw <=> l.inst.op = "LW"
               /\ "store" \in l.rw <=> l.inst.op = "SW"
        /\ l.inst.op = "NA" => "load" \notin l.rw

\* The flags of the instruction decoded last; a zero word has no load's.
FlagsOK(d) == Full(d) => IF d.inst.op = "NA" THEN "F_LOAD" \notin d.flags ELSE d.flags = Flags(d.inst.op)

\* Where the instruction behind the one in l is fetched from, before a branch is
\* resolved.
Follow(l) == IF l.inst.op = "JUMP" THEN 4 * UIMM(l.inst) ELSE l.PC + InstSize

\* Behind an instruction that does not transfer control and a bubble or nop.
Near(l, pc) == ~Op(l, Branches \cup {"JUMP"}) => pc \in {l.PC + InstSize, l.PC + 2 * InstSize}

\* The register a latch waits for.
Pend(l) == IF Full(l) /\ "load" \in l.rw THEN {RegBit(l.dstM)} ELSE {}

\* What IF delivers: the instruction at its address, or the first bubble.  Zero
\* words are not decoded with the flags of a load.
FetchedOK(p, f, d) ==
    /\ IsNop(f.inst) \/ f.inst = Fetch(p, f.PC)
    /\ "F_LOAD" \in d.flags => f.inst = Fetch(p, f.PC) /\ f.inst.op # "NA"

\* A branch waits for EX: its flag is set, and its comparison is known.
Waiting(d, c) == Op(d, Branches) => c.flag /\ (c.cmp <=> d.inst.op = "BNE")

\* From pipeline_control to do_ex, the places that say which instructions are
\* in de and fd.
Ready(p, f, d, c) ==
    /\ Decoded(p, d) /\ FlagsOK(d) /\ FetchedOK(p, f, d) /\ Waiting(d, c)
    /\ c.cond = {}
    /\ c.flag => Op(d, Branches)
    /\ c.stall => ~Full(d) /\ Full(f)
    /\ Full(d) => f.PC = Follow(d) /\ f.inst = Fetch(p, f.PC)

\* From do_id to the end of the iteration.
Issued(p, d, e, c) ==
    /\ ~c.stall => Decoded(p, d) /\ FlagsOK(d) /\ Waiting(d, c)
    /\ c.stall => /\ Full(d) /\ d.inst = Fetch(p, d.PC) /\ "load" \notin d.rw
                  /\ c.cond = {} /\ ~c.flag
                  /\ "F_LOAD" \in d.flags => d.inst.op # "NA"
    /\ 1 \in c.cond => Op(d, {"JUMP"}) /\ d.target = 4 * UIMM(d.inst)
    /\ Op(d, {"JUMP"}) /\ ~c.stall => 1 \in c.cond
    /\ 2 \in c.cond => Op(e, Branches) /\ "F_LOAD" \notin d.flags /\ Pend(d) = {}
    /\ c.flag => c.cond # {} \/ Op(d, Branches)

\* The instructions behind the one in l, whatever is between them.
Behind(l, next, pc) == Full(l) => IF Full(next) THEN next.PC = Follow(l) ELSE Near(l, pc)

AtControl ==
    /\ Decoded(prog, mw) /\ Decoded(prog, em) /\ Issued(prog, de, em, ctl)
    /\ IsNop(fd.inst) \/ fd.inst = Fetch(prog, fd.PC)
    /\ ~ctl.stall => FetchedOK(prog, fd, de)
    /\ ctl.cond \in {{}, {1}} /\ Full(de) /\ ~ctl.stall => fd.PC = Follow(de)
    /\ Full(de) => fd.inst = Fetch(prog, fd.PC)
    /\ Full(em) => de.PC = Follow(em)
    /\ Behind(em, de, fd.PC) /\ Behind(mw, em, de.PC)
    /\ ctl.regs = Pend(de) \cup Pend(em)

AtWb ==
    /\ Decoded(prog, mw) /\ Decoded(prog, em) /\ Ready(prog, fd, de, ctl)
    /\ Full(em) => de.PC = Follow(em)
    /\ Behind(em, de, fd.PC) /\ Behind(mw, em, de.PC)
    /\ ctl.regs = Pend(de) \cup Pend(em)

AtMem ==
    /\ Decoded(prog, em) /\ Ready(prog, fd, de, ctl)
    /\ Full(em) => de.PC = Follow(em)
    /\ Behind(em, de, fd.PC)
    /\ ctl.regs = Pend(de) \cup Pend(em)

AtEx ==
    /\ Decoded(prog, mw) /\ Ready(prog, fd, de, ctl)
    /\ Behind(mw, de, fd.PC)
    /\ ctl.regs = Pend(de)

AtId ==
    /\ Decoded(prog, mw) /\ Decoded(prog, em) /\ FetchedOK(prog, fd, de)
    /\ ctl.cond \subseteq {2}
    /\ 2 \in ctl.cond => Op(em, Branches) /\ "F_LOAD" \notin de.flags
    /\ ctl.flag => 2 \in ctl.cond
    /\ ctl.stall => Full(fd)
    /\ Full(em) => fd.PC = Follow(em)
    /\ Behind(mw, em, fd.PC)
    /\ ctl.regs = Pend(em)

AtForward ==
    /\ Decoded(prog, mw) /\ Decoded(prog, em) /\ Issued(prog, de, em, ctl)
    /\ de.inst = fd.inst /\ de.PC = fd.PC
    /\ ~Full(de) /\ "F_LOAD" \in de.flags => fd.inst = Fetch(prog, fd.PC)
    /\ Full(em) => de.PC = Follow(em)
    /\ Behind(mw, em, de.PC)
    /\ ctl.regs = Pend(de) \cup Pend(em)

Flow ==
    /\ Shape /\ stage \in Stages
    /\ stage = "control" => AtControl
    /\ stage = "wb" => AtWb
    /\ stage = "mem" => AtMem
    /\ stage = "ex" => AtEx
    /\ stage = "id" => AtId
    /\ stage \in {"forward", "if"} => AtForward
-----------------------------------------------------------------------------
(* sim-fast through the latches.                                           *)

\* $0 as sim-fast reads it, and a register or no operand.
Cleared(f) == [f EXCEPT ![ZERO] = 0]
Source(s, r) == IF r = DNA THEN 0 ELSE Cleared(s.R)[r]

\* One instruction without the fault of an overflow.
ExecRegs(inst, f, m) ==
    LET dst == Oprand(inst).out1
    IN  IF dst = DNA THEN f
        ELSE IF inst.op = "MULTU" THEN [f EXCEPT ![DHI] = MultuHi(f[inst.rs], f[inst.rt]),
                                                 ![DLO] = MultuLo(f[inst.rs], f[inst.rt])]
        ELSE [f EXCEPT ![dst] = ImplValue(inst, f, m)]
Exec(s, inst, pc) ==
    [R |-> ExecRegs(inst, Cleared(s.R), s.mem), mem |-> ImplMem(inst, Cleared(s.R), s.mem),
     PC |-> ImplNPC(inst, Cleared(s.R), pc)]
After(s, l) == IF Full(l) THEN Exec(s, l.inst, l.PC) ELSE s

\* sim-fast, and its states behind the instructions in WB and MEM.
Seen(a) == [R |-> a.R, mem |-> a.mem, PC |-> a.PC]
S0 == Seen(arch)
S1 == After(S0, mw)
S2 == After(S1, em)

\* The registers and the memory of a state hold words.
StateOK(s) == s.R \in [Regs -> Words] /\ s.mem \in [DOMAIN s.mem -> Words] /\ s.PC \in Int

\* Only nops from one address up to another.
Leads(p, a, b) == \E k \in Nat : /\ b = a + InstSize * k
                                 /\ \A j \in 0..(k - 1) : Fetch(p, a + InstSize * j).op = "NOP"

\* What a destination holds is what sim-fast computed.
Holds(dst, val, s) == dst \in GPRs => dst # ZERO /\ val = s.R[dst]

\* The latch behind WB and the register file f, which agree with sim-fast.
Written(f, w, s) ==
    /\ f[ZERO] = 0 /\ \A r \in GPRs \ {ZERO} : f[r] = s.R[r]
    /\ Holds(w.dstE, w.valE, s) /\ Holds(w.dstM, w.valM, s)

\* MW behind s: the results are those of sim-fast.
MwOK(p, s, m) ==
    /\ Full(m) => Leads(p, s.PC, m.PC)
    /\ m.inst.op # "NA" => Holds(m.dstE, m.valE, After(s, m)) /\ Holds(m.dstM, m.valM, After(s, m))

\* EM behind s: the result, the address, the word to store, the target.
EmOK(p, s, e) ==
    /\ Full(e) => Leads(p, s.PC, e.PC)
    /\ e.inst.op # "NA" => Holds(e.dstE, e.valE, After(s, e))
    /\ Op(e, {"LW", "SW"}) => e.valE = Wrap(Cleared(s.R)[e.inst.rs] + IMM(e.inst))
    /\ Op(e, {"SW"}) => e.valA = Cleared(s.R)[e.inst.rt]
    /\ Op(e, Branches) => e.target = e.PC + 8 + 4 * UIMM(e.inst)

\* What do_id leaves of an instruction, and the operands of do_forward.
DeIs(d) ==
    Full(d) /\ d.inst.op # "NA" =>
        /\ d.opcode = d.inst.op /\ d.func = FuncOf(d.inst.op) /\ d.oprand = Oprand(d.inst)
        /\ d.inst.op \in Branches => d.target = d.PC + 8 + 4 * UIMM(d.inst)
        /\ d.srcA = (IF d.inst.op \in {"LW", "SW"} THEN d.oprand.in2 ELSE d.oprand.in1)
        /\ d.srcB = d.oprand.in2
Operands(s, d) ==
    Full(d) /\ d.inst.op # "NA" =>
        /\ d.aluA = Source(s, d.srcA) /\ d.aluB = Source(s, d.srcB)
        /\ d.valA = Source(s, d.oprand.in1)

\* No operand in de is being loaded.
NoWait(d, e) ==
    Full(d) /\ d.inst.op # "NA" =>
        \A r \in {Oprand(d.inst).in1, Oprand(d.inst).in2} : r >= 0 => RegBit(r) \notin Pend(e)

\* DE behind s, and FD behind address a.
DeOK(p, s, d) == (Full(d) => Leads(p, s.PC, d.PC)) /\ DeIs(d) /\ Operands(s, d)
FdOK(p, a, f) == Leads(p, a, IF IsNop(f.inst) THEN f.PC + InstSize ELSE f.PC)

Valid(l) == l.inst.op # "NA"

\* DE and FD behind s; FD behind a branch is predicted.
Rest(p, s, d, f) == DeOK(p, s, d) /\ (Valid(d) /\ ~Op(d, Branches) => FdOK(p, After(s, d).PC, f))

\* FD behind EM, or the target of the branch in EM instead.
Ahead(p, s, e, f, c) == IF 2 \in c.cond THEN e.target = s.PC ELSE FdOK(p, s.PC, f)

\* A bubble keeps the destination of the instruction in front of it.
Stale(m, e) == Full(m) /\ ~Full(e) => e.dstE = m.dstE

Older == MwOK(prog, S0, mw) /\ EmOK(prog, S1, em) /\ mem = S1.mem /\ Stale(mw, em)

ValuesControl ==
    /\ Older
    /\ Valid(em) =>
           /\ 2 \in ctl.cond => fd.PC = S2.PC /\ fd.inst = Fetch(prog, fd.PC)
           /\ 2 \notin ctl.cond /\ ctl.stall => Leads(prog, S2.PC, de.PC)
           /\ 2 \notin ctl.cond /\ ~ctl.stall => Rest(prog, S2, de, fd)

ValuesWb == Older /\ (Valid(em) => Rest(prog, S2, de, fd))

ValuesMem ==
    /\ EmOK(prog, S0, em) /\ mem = arch.mem /\ (Valid(em) => Rest(prog, After(S0, em), de, fd))
    /\ Holds(mw.dstE, mw.valE, S0) /\ Holds(mw.dstM, mw.valM, S0)

ValuesEx ==
    /\ MwOK(prog, S0, mw) /\ mem = S1.mem /\ (Valid(mw) => Rest(prog, S1, de, fd))
    /\ Valid(mw) => Holds(em.dstE, em.valE, S1)
    /\ Full(mw) => em.dstE = mw.dstE

ValuesId == Older /\ (Valid(em) => Ahead(prog, S2, em, fd, ctl))

ValuesForward == Older /\ (Valid(em) => Ahead(prog, S2, em, fd, ctl)) /\ (~ctl.stall => DeIs(de) /\ NoWait(de, em))

ValuesIf ==
    /\ ValuesForward
    /\ Valid(em) /\ 2 \notin ctl.cond /\ ~ctl.stall => Operands(S2, de)

Values ==
    /\ DOMAIN arch = {"R", "mem", "PC", "sim_num_insn"}
    /\ StateOK(Seen(arch)) /\ Written(R, wb, Seen(arch))
    /\ stage = "control" => ValuesControl
    /\ stage = "wb" => ValuesWb
    /\ stage = "mem" => ValuesMem
    /\ stage = "ex" => ValuesEx
    /\ stage = "id" => ValuesId
    /\ stage = "forward" => ValuesForward
    /\ stage = "if" => ValuesIf
    /\ stage = "exited" => mem = arch.mem
-----------------------------------------------------------------------------
(* What is fetched is an instruction.                                      *)

\* What the proofs use of a fetched instruction.
InstOK(i) ==
    /\ IsInst(i) /\ UIMM(i) \in Nat /\ Oprand(i) \in Oprands
    /\ i.op = "LW" => Oprand(i) = [out1 |-> i.rt, in1 |-> DNA, in2 |-> i.rs] /\ i.rt \in 0..31
    /\ i.op \in {"JUMP", "SYSCALL", "NA", "NOP"} => Oprand(i) = [out1 |-> DNA, in1 |-> DNA, in2 |-> DNA]
    /\ i.op \in {"NOP", "ADD", "ADDU", "ADDI", "ADDIU", "ANDI", "SLTI", "SLL", "MULTU",
                 "LW", "SW", "BEQ", "BNE", "JUMP", "SYSCALL", "NA"}

\* A supported instruction or a zero word is fetched.
LEMMA FetchIs ==
    ASSUME Loadable, NEW p \in Programs, NEW pc
    PROVE  InstOK(Fetch(p, pc))
<1> DEFINE i == Fetch(p, pc)
<1> SUFFICES InstOK(i)
  OBVIOUS
<1>1. CASE pc \in DOMAIN p
  <2>1. Executable(i) /\ i = p[pc]
    BY <1>1 DEF Loadable, Supported, Fetch
  <2>2. IsInst(i) /\ UIMM(i) \in Nat /\ {i.rs, i.rt, i.rd} \subseteq GPRs
    BY <2>1 DEF Executable, IsInst, UIMM
  <2> HIDE DEF i
  <2>3. Oprand(i) \in Oprands
    BY <2>2 DEF Oprand, Oprands, RegOrNone, Regs
  <2> QED
    BY <2>1, <2>2, <2>3, PisaAssumption DEF Oprand, InstOK, Executable, Branches, RType, IType
<1>2. CASE pc \notin DOMAIN p
  <2>1. i = NAInst
    BY <1>2 DEF Fetch
  <2> HIDE DEF i
  <2>2. i.op = "NA" /\ IsInst(i) /\ UIMM(i) = 0
    BY <2>1 DEF NAInst, Inst, IsInst, UIMM
  <2> QED
    BY <2>2 DEF Oprand, InstOK, Oprands, RegOrNone, Branches, RType, IType
<1> QED
  BY <1>1, <1>2

\* A bubble keeps the fields and holds no instruction.
LEMMA BubbleIs ==
    ASSUME NEW i, IsInst(i)
    PROVE  IsInst(Bubble(i)) /\ IsNop(Bubble(i))
  BY DEF IsInst, Bubble, IsNop, Inst

\* The bit of a register number.
LEMMA RegBitIs ==
    /\ \A r \in RegOrNone : RegBit(r) \in 0..31
    /\ \A r \in 0..31 : RegBit(r) = r
  BY PisaAssumption DEF RegOrNone, Regs, RegBit, DNA, DHI, DLO

\* The loop starts with empty latches.
LEMMA InitFlow ==
    ASSUME Loadable, Init
    PROVE  Flow
<1>1. IsInst(nop) /\ IsNop(nop)
  <2>1. IsInst(NAInst)
    BY DEF IsInst, NAInst, Inst
  <2> QED
    BY <2>1, BubbleIs DEF nop
<1>2. DOMAIN fd = {"inst", "PC"} /\ fd.inst = nop /\ fd.PC = EntryPC - InstSize
  BY DEF Init, init_fd
<1>3. FdShape(fd)
  BY <1>1, <1>2 DEF FdShape, Loadable, InstSize
<1>4. /\ DOMAIN de = DeFields /\ de.inst = nop /\ de.PC = 0 /\ de.flags = {} /\ de.rw = {}
      /\ de.oprand = [out1 |-> 0, in1 |-> 0, in2 |-> 0]
      /\ de.srcA = 0 /\ de.srcB = 0 /\ de.target = 0 /\ de.dstE = DNA /\ de.dstM = DNA
  BY DEF Init, sim_init, init_de, DeFields
<1>5. 0 \in Regs
  BY PisaAssumption DEF Regs, ZERO
<1>6. DeShape(de)
  BY <1>1, <1>4, <1>5 DEF DeShape, Oprands, RegOrNone
<1>7. /\ DOMAIN em = EmFields /\ em.inst = nop /\ em.PC = 0 /\ em.dstE = DNA /\ em.dstM = DNA /\ em.rw = {} /\ em.target = 0
      /\ DOMAIN mw = MwFields /\ mw.inst = nop /\ mw.PC = 0 /\ mw.dstE = DNA /\ mw.dstM = DNA
      /\ DOMAIN wb = WbFields /\ wb.dstE = DNA /\ wb.dstM = DNA
  BY DEF Init, sim_init, init_em, init_mw, init_wb, EmFields, MwFields, WbFields
<1>8. EmShape(em) /\ MwShape(mw) /\ WbShape(wb)
  BY <1>7 DEF EmShape, MwShape, WbShape, RegOrNone
<1>9. /\ ctl \in Controls
      /\ ctl.cond = {} /\ ctl.regs = {} /\ ~ctl.stall /\ ~ctl.flag
  BY DEF Init, sim_init, Controls
<1>10. RShape(R)
  BY PisaAssumption DEF Init, Loadable, RShape
<1>11. Shape
  BY <1>3, <1>6, <1>8, <1>9, <1>10 DEF Shape, Init, sim_init, Loadable
<1>12. Decoded(prog, mw) /\ Decoded(prog, em) /\ Decoded(prog, de) /\ ~Full(de) /\ ~Full(em) /\ ~Full(mw)
  BY <1>1, <1>4, <1>7 DEF Decoded, Full
<1>13. AtControl
  BY <1>12, <1>1, <1>2, <1>4, <1>9
     DEF AtControl, Issued, FlagsOK, Waiting, Op, FetchedOK, Behind, Pend
<1> QED
  BY <1>11, <1>13 DEF Flow, Init, Stages
-----------------------------------------------------------------------------
(* Every stage function keeps the flow of instructions.                    *)

\* What a stage function starts from.
LEMMA ProgFetch ==
    ASSUME Loadable, Shape
    PROVE  /\ prog \in Programs /\ \A pc : InstOK(Fetch(prog, pc))
           /\ fd.PC \in Int /\ de.PC \in Int /\ em.PC \in Int /\ mw.PC \in Int
           /\ de.target \in Int /\ em.target \in Int
  BY FetchIs DEF Shape, FdShape, DeShape, EmShape, MwShape

LEMMA ControlFlow ==
    ASSUME Loadable, Flow, pipeline_control
    PROVE  Flow'
<1> DEFINE inst == IF 2 \in ctl.cond THEN Bubble(de.inst) ELSE de.inst
<1>0. /\ Shape /\ AtControl /\ stage' = "wb"
      /\ UNCHANGED <<prog, em, mw, wb, R, mem, sim_num_insn>>
  BY DEF Flow, pipeline_control, Call
<1>a. /\ FdShape(fd) /\ DeShape(de) /\ ctl \in Controls
      /\ ctl.stall \in BOOLEAN /\ ctl.flag \in BOOLEAN
  BY <1>0 DEF Shape, Controls
<1>b. IsInst(de.inst) /\ IsInst(inst)
  BY <1>a, BubbleIs DEF DeShape
<1>1. /\ DOMAIN de' = DeFields /\ de'.PC = de.PC /\ de'.flags = de.flags /\ de'.rw = de.rw
      /\ de'.dstE = de.dstE /\ de'.dstM = de.dstM /\ de'.oprand = de.oprand
      /\ de'.srcA = de.srcA /\ de'.srcB = de.srcB /\ de'.target = de.target
      /\ de'.inst = IF ctl.stall THEN Bubble(inst) ELSE inst
  BY <1>a DEF pipeline_control, DeShape, DeFields
<1>2. /\ ctl' \in Controls /\ ctl'.cond = {} /\ ctl'.regs = ctl.regs /\ ctl'.stall = ctl.stall
      /\ ctl'.cmp = ctl.cmp /\ ctl'.flag = (ctl.flag /\ ctl.cond = {})
  BY <1>a DEF pipeline_control, Controls
<1>3. /\ ctl.stall => DOMAIN fd' = {"inst", "PC"} /\ fd'.inst = inst /\ fd'.PC = de.PC
      /\ ~ctl.stall => fd' = fd
  BY DEF pipeline_control
<1>4. /\ ctl.stall => ctl.cond = {} /\ ~ctl.flag /\ inst = de.inst /\ Full(de)
      /\ 2 \in ctl.cond => IsNop(inst)
      /\ 2 \notin ctl.cond => inst = de.inst
      /\ ctl.stall => IsNop(de'.inst)
      /\ ~ctl.stall => de'.inst = inst
  BY <1>0, <1>1, <1>b, BubbleIs DEF AtControl, Issued
<1> HIDE DEF inst
<1>5. FdShape(fd)' /\ DeShape(de)'
  BY <1>a, <1>b, <1>1, <1>3, BubbleIs DEF FdShape, DeShape
<1>6. Shape'
  BY <1>0, <1>2, <1>5 DEF Shape
<1>7. ASSUME ctl.stall PROVE AtWb'
  <2>1. ~Full(de') /\ Full(fd') /\ fd'.inst = de.inst /\ fd'.PC = de.PC
    BY <1>7, <1>3, <1>4 DEF Full
  <2>2. /\ Decoded(prog, de') /\ FlagsOK(de') /\ Waiting(de', ctl')
        /\ Pend(de') = {} /\ Pend(de) = {}
    BY <1>7, <1>0, <2>1 DEF Decoded, FlagsOK, Waiting, Op, Pend, AtControl, Issued
  <2>3. FetchedOK(prog, fd', de')
    BY <1>7, <1>0, <1>1, <2>1 DEF FetchedOK, AtControl, Issued
  <2>4. Ready(prog, fd', de', ctl')
    BY <1>7, <1>2, <1>4, <2>1, <2>2, <2>3 DEF Ready
  <2>5. Behind(em, de', fd'.PC)
    BY <1>7, <1>0, <1>4, <2>1 DEF Behind, Near, AtControl, Op, Follow
  <2> QED
    BY <1>0, <1>1, <1>2, <2>2, <2>4, <2>5 DEF AtControl, AtWb
<1>8. ASSUME ~ctl.stall /\ 2 \in ctl.cond PROVE AtWb'
  <2>1. ~Full(de') /\ fd' = fd /\ Op(em, Branches)
    BY <1>8, <1>0, <1>3, <1>4 DEF Full, AtControl, Issued
  <2>2. /\ Decoded(prog, de') /\ FlagsOK(de') /\ Waiting(de', ctl')
        /\ Pend(de') = {} /\ Pend(de) = {}
    BY <1>8, <1>0, <2>1 DEF Decoded, FlagsOK, Waiting, Op, Pend, AtControl, Issued
  <2>3. FetchedOK(prog, fd', de')
    BY <1>8, <1>0, <1>1, <2>1 DEF FetchedOK, AtControl, Issued
  <2>4. Ready(prog, fd', de', ctl')
    BY <1>8, <1>2, <1>4, <2>1, <2>2, <2>3 DEF Ready
  <2>5. Behind(em, de', fd'.PC)
    BY <2>1 DEF Behind, Near, Op
  <2> QED
    BY <1>0, <1>1, <1>2, <2>2, <2>4, <2>5 DEF AtControl, AtWb
<1>9. ASSUME ~ctl.stall /\ 2 \notin ctl.cond PROVE AtWb'
  <2>1. /\ fd' = fd /\ de'.inst = de.inst /\ (Full(de') <=> Full(de))
        /\ ctl.cond \in {{}, {1}} /\ (ctl.flag => ctl.cond = {1} \/ Op(de, Branches))
    BY <1>9, <1>0, <1>3, <1>4, <1>a DEF Full, AtControl, Issued, Controls
  <2>2. Decoded(prog, de') /\ FlagsOK(de') /\ FetchedOK(prog, fd', de') /\ Pend(de') = Pend(de)
    BY <1>9, <1>0, <1>1, <2>1 DEF Decoded, FlagsOK, FetchedOK, AtControl, Issued, Pend, Full
  <2>3. Waiting(de', ctl') /\ (ctl'.flag => Op(de', Branches))
    BY <1>9, <1>0, <1>2, <2>1 DEF Waiting, Op, AtControl, Issued, Branches
  <2>4. Ready(prog, fd', de', ctl')
    BY <1>9, <1>0, <1>1, <1>2, <2>1, <2>2, <2>3 DEF Ready, Follow, AtControl
  <2>5. Behind(em, de', fd'.PC)
    BY <1>0, <1>1, <2>1 DEF Behind, AtControl
  <2> QED
    BY <1>0, <1>1, <1>2, <2>2, <2>4, <2>5 DEF AtControl, AtWb
<1> QED
  BY <1>0, <1>6, <1>7, <1>8, <1>9 DEF Flow, Stages
-----------------------------------------------------------------------------
\* SET_GPR and the results of a system call leave a register file.
LEMMA SetGPRShape ==
    ASSUME NEW f, RShape(f), NEW d \in RegOrNone, NEW v
    PROVE  RShape(SetGPR(f, d, v))
  BY DEF SetGPR, RShape, RegOrNone

LEMMA SysReturnShape ==
    ASSUME NEW f, RShape(f), NEW r
    PROVE  RShape(SysReturn(f, r))
  BY DEF SysReturn, RShape

\* The latch behind WB, whichever way do_wb ends.
LEMMA LatchWbShape ==
    ASSUME Shape, LatchWb
    PROVE  WbShape(wb')
<1>1. DOMAIN wb' = WbFields /\ wb'.dstE = mw.dstE /\ wb'.dstM = mw.dstM
  BY DEF LatchWb, WbFields
<1> QED
  BY <1>1 DEF Shape, MwShape, WbShape

LEMMA WrittenBackShape ==
    ASSUME Shape
    PROVE  RShape(WrittenBack)
<1>1. mw.dstM \in RegOrNone /\ mw.dstE \in RegOrNone /\ RShape(R)
  BY DEF Shape, MwShape
<1>2. RShape(SetGPR(R, mw.dstM, mw.valM))
  BY <1>1, SetGPRShape
<1> QED
  BY <1>1, <1>2, SetGPRShape DEF WrittenBack

LEMMA WbFlow ==
    ASSUME Loadable, Flow,
           do_wb \/ (\E r \in SysReturns : do_wb_syscall(r)) \/ do_wb_exit
    PROVE  Flow'
<1>1. Shape /\ AtWb
  BY DEF Flow, do_wb, do_wb_syscall, do_wb_exit, Call
<1>2. stage' \in {"mem", "exited"} /\ UNCHANGED <<prog, fd, de, em, mw, ctl, mem, sim_num_insn>>
  BY DEF do_wb, do_wb_syscall, do_wb_exit, Call
<1>3. WbShape(wb') /\ RShape(R')
  <2>1. CASE do_wb
    <3>1. CASE IsNop(mw.inst)
      <4>1. wb' = [wb EXCEPT !.inst = mw.inst] /\ R' = R
        BY <2>1, <3>1 DEF do_wb
      <4> QED
        BY <1>1, <4>1 DEF Shape, WbShape, WbFields
    <3>2. CASE ~IsNop(mw.inst)
      BY <1>1, <2>1, <3>2, LatchWbShape, WrittenBackShape DEF do_wb
    <3> QED
      BY <3>1, <3>2
  <2>2. ASSUME NEW r \in SysReturns, do_wb_syscall(r) PROVE WbShape(wb') /\ RShape(R')
    BY <1>1, <2>2, LatchWbShape, WrittenBackShape, SysReturnShape DEF do_wb_syscall
  <2>3. CASE do_wb_exit
    BY <1>1, <2>3, LatchWbShape, WrittenBackShape DEF do_wb_exit
  <2> QED
    BY <2>1, <2>2, <2>3
<1>4. Shape'
  BY <1>1, <1>2, <1>3 DEF Shape
<1>5. AtMem'
  BY <1>1, <1>2 DEF AtWb, AtMem
<1> QED
  BY <1>2, <1>4, <1>5 DEF Flow, Stages

\* The instruction behind MEM; a load clears its bit, and Exact tells it from
\* the load behind it.
LEMMA MemFlow ==
    ASSUME Loadable, Flow, do_mem
    PROVE  Flow'
<1> DEFINE load == ~IsNop(em.inst) /\ "load" \in em.rw
<1>1. Shape /\ AtMem /\ stage' = "ex" /\ UNCHANGED <<prog, fd, de, em, wb, R, sim_num_insn>>
  BY DEF Flow, do_mem, Call
<1>2. EmShape(em) /\ MwShape(mw) /\ ctl \in Controls
  BY <1>1 DEF Shape
<1>3. /\ DOMAIN mw' = MwFields /\ mw'.inst = em.inst
      /\ ~IsNop(em.inst) => mw'.PC = em.PC /\ mw'.dstE = em.dstE /\ mw'.dstM = em.dstM /\ mw'.rw = em.rw
      /\ IsNop(em.inst) => mw'.PC = mw.PC /\ mw'.dstE = mw.dstE /\ mw'.dstM = mw.dstM
  <2>1. CASE IsNop(em.inst)
    <3>1. mw' = [mw EXCEPT !.inst = em.inst]
      BY <2>1 DEF do_mem
    <3> QED
      BY <2>1, <3>1, <1>2 DEF MwShape, MwFields
  <2>2. CASE ~IsNop(em.inst)
    <3>1. mw' = [inst |-> em.inst, PC |-> em.PC, valE |-> em.valE,
                 valM |-> IF load THEN ReadWord(mem, em.valE) ELSE mw.valM,
                 dstE |-> em.dstE, dstM |-> em.dstM, rw |-> em.rw]
      BY <2>2 DEF do_mem
    <3> QED
      BY <2>2, <3>1 DEF MwFields
  <2> QED
    BY <2>1, <2>2
<1>4. MwShape(mw)'
  BY <1>2, <1>3 DEF MwShape, EmShape
<1>5. ctl' = IF load THEN [ctl EXCEPT !.regs = @ \ {RegBit(em.dstM)}] ELSE ctl
  BY DEF do_mem, Loaded
<1>6. /\ ctl' \in Controls /\ ctl'.cond = ctl.cond /\ ctl'.flag = ctl.flag /\ ctl'.cmp = ctl.cmp
      /\ ctl'.stall = ctl.stall /\ ctl'.regs = ctl.regs \ Pend(em)
  BY <1>2, <1>5 DEF Controls, Pend, Full
<1>7. Shape'
  BY <1>1, <1>4, <1>6 DEF Shape
<1>8. Decoded(prog, mw') /\ Behind(mw', de, fd.PC)
  <2>1. Decoded(prog, em) /\ Behind(em, de, fd.PC)
    BY <1>1 DEF AtMem
  <2> QED
    BY <2>1, <1>3 DEF Decoded, Full, Behind, Near, Op, Follow
<1>9. ctl'.regs = Pend(de)
  <2>1. ctl.regs = Pend(de) \cup Pend(em)
    BY <1>1 DEF AtMem
  <2>2. Pend(de) \cap Pend(em) = {}
    <3> SUFFICES ASSUME Full(em), "load" \in em.rw, Full(de), "load" \in de.rw
                 PROVE  RegBit(de.dstM) # RegBit(em.dstM)
      BY DEF Pend
    <3>1. /\ em.inst = Fetch(prog, em.PC) /\ em.inst.op = "LW" /\ em.dstM = Oprand(em.inst).out1
          /\ de.inst = Fetch(prog, de.PC) /\ de.inst.op = "LW" /\ de.dstM = Oprand(de.inst).out1
      BY <1>1 DEF AtMem, Ready, Decoded
    <3>2. de.PC = em.PC + InstSize
      BY <1>1, <3>1 DEF AtMem, Behind, Follow
    <3>3. em.PC \in DOMAIN prog /\ em.inst = prog[em.PC]
      BY <3>1 DEF Fetch, NAInst, Inst
    <3>4. prog \in Programs /\ Exact(prog)
      BY <1>1 DEF Shape, Loadable, Supported
    <3>5. em.inst.rt # de.inst.rt
      BY <3>1, <3>2, <3>3, <3>4 DEF Exact
    <3>6. InstOK(em.inst) /\ InstOK(de.inst)
      BY <1>1, <3>1, ProgFetch
    <3> QED
      BY <3>1, <3>5, <3>6, RegBitIs DEF InstOK
  <2> QED
    BY <2>1, <2>2, <1>6
<1>10. Ready(prog, fd, de, ctl')
  BY <1>1, <1>6 DEF AtMem, Ready, Waiting
<1>11. AtEx'
  BY <1>1, <1>8, <1>9, <1>10 DEF AtEx
<1> QED
  BY <1>1, <1>7, <1>11 DEF Flow, Stages
\* The instruction behind EX, and the branch it resolves.
LEMMA ExFlow ==
    ASSUME Loadable, Flow, do_ex
    PROVE  Flow'
<1> DEFINE valE == Alu(de.func, de.aluA, AluB)
<1>1. Shape /\ AtEx /\ stage' = "id" /\ UNCHANGED <<prog, fd, de, mw, wb, mem, sim_num_insn>>
  BY DEF Flow, do_ex, Call
<1>2. /\ EmShape(em) /\ DeShape(de) /\ ctl \in Controls /\ RShape(R)
      /\ ctl.flag \in BOOLEAN /\ ctl.stall \in BOOLEAN
  BY <1>1 DEF Shape, Controls
<1>3. /\ IsNop(de.inst) => em' = [em EXCEPT !.inst = de.inst] /\ R' = R /\ ctl' = ctl
      /\ ~IsNop(de.inst) =>
             /\ em' = [inst |-> de.inst, PC |-> de.PC, valE |-> valE, valA |-> de.valA,
                       dstE |-> de.dstE, dstM |-> de.dstM, rw |-> de.rw, target |-> de.target]
             /\ ctl' = Resolve(valE)
  BY DEF do_ex
<1> HIDE DEF valE
<1>4. /\ DOMAIN em' = EmFields /\ em'.inst = de.inst
      /\ ~IsNop(de.inst) => em'.PC = de.PC /\ em'.dstE = de.dstE /\ em'.dstM = de.dstM /\ em'.rw = de.rw
                              /\ em'.target = de.target
      /\ IsNop(de.inst) => em'.target = em.target /\ em'.PC = em.PC /\ em'.dstE = em.dstE /\ em'.dstM = em.dstM
  BY <1>2, <1>3 DEF EmShape, EmFields
<1>5. EmShape(em')
  BY <1>2, <1>4 DEF EmShape, DeShape
<1>6. RShape(R')
  <2>1. CASE IsNop(de.inst)
    BY <1>2, <1>3, <2>1
  <2>2. CASE ~IsNop(de.inst) /\ de.opcode # "MULTU"
    BY <1>2, <2>2 DEF do_ex
  <2>3. CASE ~IsNop(de.inst) /\ de.opcode = "MULTU"
    <3>1. R' = [R EXCEPT ![DHI] = MultuHi(de.aluA, AluB), ![DLO] = MultuLo(de.aluA, AluB)]
      BY <2>3 DEF do_ex
    <3> QED
      BY <1>2, <3>1 DEF RShape
  <2> QED
    BY <2>1, <2>2, <2>3
<1>7. Ready(prog, fd, de, ctl) /\ Decoded(prog, mw) /\ Behind(mw, de, fd.PC) /\ ctl.regs = Pend(de)
  BY <1>1 DEF AtEx
<1>8. /\ ctl' \in Controls /\ ctl'.regs = ctl.regs /\ ctl'.stall = ctl.stall
      /\ ctl'.cond \subseteq {2}
      /\ 2 \in ctl'.cond => Op(de, Branches)
      /\ ctl'.flag => 2 \in ctl'.cond
  <2>1. CASE ctl' = ctl /\ ~ctl.flag
    BY <1>2, <1>7, <2>1 DEF Ready
  <2>2. CASE ctl.flag
    <3>1. /\ Op(de, Branches) /\ ctl.cond = {}
          /\ ctl' \in {[ctl EXCEPT !.cond = @ \cup {2}], [ctl EXCEPT !.flag = FALSE]}
      BY <1>3, <1>7, <2>2 DEF Ready, Op, Full, Resolve
    <3>2. CASE ctl' = [ctl EXCEPT !.cond = @ \cup {2}]
      BY <1>2, <3>1, <3>2 DEF Controls
    <3>3. CASE ctl' = [ctl EXCEPT !.flag = FALSE]
      BY <1>2, <3>1, <3>3 DEF Controls
    <3> QED
      BY <3>1, <3>2, <3>3
  <2>3. ~ctl.flag => ctl' = ctl
    BY <1>3 DEF Resolve
  <2> QED
    BY <2>1, <2>2, <2>3
<1>9. Shape'
  BY <1>1, <1>5, <1>6, <1>8 DEF Shape
<1>10. /\ Decoded(prog, em') /\ (Op(de, Branches) => Op(em', Branches))
       /\ Behind(mw, em', fd.PC) /\ Pend(em') = Pend(de)
       /\ Full(em') => fd.PC = Follow(em')
  BY <1>4, <1>7 DEF Decoded, Full, Behind, Near, Op, Follow, Ready, Pend
<1>11. Op(de, Branches) => "F_LOAD" \notin de.flags
  BY <1>7 DEF Ready, FlagsOK, Op, Flags, Branches, IType
<1>12. FetchedOK(prog, fd, de) /\ (ctl'.stall => Full(fd))
  BY <1>7, <1>8 DEF Ready
<1>13. AtId'
  BY <1>1, <1>7, <1>8, <1>10, <1>11, <1>12 DEF AtId
<1> QED
  BY <1>1, <1>9, <1>13 DEF Flow, Stages

\* do_id for a bubble.
LEMMA IdNopFlow ==
    ASSUME Loadable, Flow, do_id_nop
    PROVE  Flow'
<1>1. /\ Shape /\ AtId /\ stage' = "forward" /\ IsNop(fd.inst)
      /\ UNCHANGED <<prog, fd, em, mw, wb, ctl, R, mem, sim_num_insn>>
  BY DEF Flow, do_id_nop, Call
<1>2. DeShape(de) /\ FdShape(fd) /\ ctl.cond \subseteq {1, 2}
  BY <1>1 DEF Shape, Controls
<1>3. /\ DOMAIN de' = DeFields /\ de'.inst = fd.inst /\ de'.PC = fd.PC /\ de'.rw = {}
      /\ de'.flags = de.flags /\ de'.oprand = de.oprand
      /\ de'.srcA = de.srcA /\ de'.srcB = de.srcB /\ de'.target = de.target /\ de'.dstE = de.dstE /\ de'.dstM = de.dstM
  BY <1>2 DEF do_id_nop, DeShape, DeFields
<1>4. DeShape(de')
  BY <1>2, <1>3 DEF DeShape, FdShape
<1>5. Shape'
  BY <1>1, <1>4 DEF Shape
<1>6. ~Full(de') /\ ~Full(fd) /\ Pend(de') = {}
  BY <1>1, <1>3 DEF Full, Pend
<1>7. Issued(prog, de', em, ctl)
  <2>1. ~ctl.stall /\ ctl.cond \subseteq {2} /\ (ctl.flag => 2 \in ctl.cond)
    BY <1>1, <1>6 DEF AtId
  <2>2. Decoded(prog, de') /\ FlagsOK(de') /\ Waiting(de', ctl)
    BY <1>6 DEF Decoded, FlagsOK, Waiting, Op
  <2>3. 2 \in ctl.cond => Op(em, Branches) /\ "F_LOAD" \notin de'.flags
    BY <1>1, <1>3 DEF AtId
  <2> QED
    BY <2>1, <2>2, <2>3, <1>6 DEF Issued, Op
<1>8. "F_LOAD" \in de'.flags => fd.inst = Fetch(prog, fd.PC)
  BY <1>1, <1>3 DEF AtId, FetchedOK
<1>9. AtForward'
  BY <1>1, <1>3, <1>6, <1>7, <1>8 DEF AtForward, AtId
<1> QED
  BY <1>1, <1>5, <1>9 DEF Flow, Stages

\* The latch after the DEFINST lookup.
LEMMA LookupIs ==
    ASSUME Loadable, Shape
    PROVE  /\ DOMAIN Lookup = DeFields /\ Lookup.inst = fd.inst /\ Lookup.PC = fd.PC /\ Lookup.rw = {}
           /\ Lookup.opcode = fd.inst.op /\ Lookup.target = de.target
           /\ Lookup.dstE = de.dstE /\ Lookup.dstM = de.dstM
           /\ Lookup.srcA = de.srcA /\ Lookup.srcB = de.srcB
           /\ Lookup.flags = IF fd.inst.op = "NA" THEN de.flags ELSE Flags(fd.inst.op)
           /\ Lookup.oprand = IF fd.inst.op = "NA" THEN de.oprand ELSE Oprand(fd.inst)
<1> DEFINE d == [de EXCEPT !.inst = fd.inst, !.PC = fd.PC, !.rw = {}, !.opcode = fd.inst.op]
<1>1. DeShape(de)
  BY DEF Shape
<1>2. /\ DOMAIN d = DeFields /\ d.inst = fd.inst /\ d.PC = fd.PC /\ d.rw = {}
      /\ d.opcode = fd.inst.op /\ d.target = de.target
      /\ d.dstE = de.dstE /\ d.dstM = de.dstM /\ d.srcA = de.srcA /\ d.srcB = de.srcB
      /\ d.flags = de.flags /\ d.oprand = de.oprand
  BY <1>1 DEF DeShape, DeFields
<1>3. Lookup = IF fd.inst.op = "NA" THEN d
               ELSE [d EXCEPT !.oprand = Oprand(fd.inst), !.flags = Flags(fd.inst.op)]
  BY DEF Lookup
<1> HIDE DEF d
<1> QED
  BY <1>2, <1>3 DEF DeFields

\* A load in MEM is no branch: a stall never meets a misprediction.
LEMMA StallAlone ==
    ASSUME Loadable, AtId, WaitsForLoad(Lookup.oprand)
    PROVE  ctl.cond = {} /\ ~ctl.flag
<1>1. Full(em) /\ "load" \in em.rw
  BY DEF AtId, WaitsForLoad, Pend
<1>2. em.inst.op = "LW"
  BY <1>1 DEF AtId, Decoded
<1> QED
  BY <1>2 DEF AtId, Op, Branches

\* What do_id reads is an instruction or a zero word.
LEMMA FdInst ==
    ASSUME Loadable, Shape, AtId, ~IsNop(fd.inst)
    PROVE  fd.inst = Fetch(prog, fd.PC) /\ InstOK(fd.inst) /\ fd.inst.op \notin {"NOP", "LUI", "MFLO"}
<1>1. fd.inst = Fetch(prog, fd.PC)
  BY DEF AtId, FetchedOK
<1>2. InstOK(fd.inst)
  BY <1>1, ProgFetch
<1> QED
  BY <1>1, <1>2 DEF InstOK, IsNop

\* do_id for an instruction that waits.
LEMMA IdStallFlow ==
    ASSUME Loadable, Flow, do_id_stall
    PROVE  Flow'
<1>1. /\ Shape /\ AtId /\ stage' = "forward" /\ ~IsNop(fd.inst) /\ WaitsForLoad(Lookup.oprand)
      /\ de' = Lookup /\ ctl' = [ctl EXCEPT !.stall = TRUE]
      /\ UNCHANGED <<prog, fd, em, mw, wb, R, mem, sim_num_insn>>
  BY DEF Flow, do_id_stall, Call
<1>2. DeShape(de) /\ FdShape(fd) /\ ctl \in Controls
  BY <1>1 DEF Shape
<1>3. fd.inst = Fetch(prog, fd.PC) /\ InstOK(fd.inst)
  BY <1>1, FdInst
<1>4. /\ DOMAIN de' = DeFields /\ de'.inst = fd.inst /\ de'.PC = fd.PC /\ de'.rw = {}
      /\ de'.dstE = de.dstE /\ de'.dstM = de.dstM
      /\ de'.srcA = de.srcA /\ de'.srcB = de.srcB /\ de'.target = de.target
      /\ de'.flags = IF fd.inst.op = "NA" THEN de.flags ELSE Flags(fd.inst.op)
      /\ de'.oprand = IF fd.inst.op = "NA" THEN de.oprand ELSE Oprand(fd.inst)
  BY <1>1, LookupIs
<1>5. DeShape(de')
  BY <1>2, <1>3, <1>4 DEF DeShape, FdShape, InstOK
<1>6. /\ ctl' \in Controls /\ ctl'.stall /\ ctl'.cond = ctl.cond /\ ctl'.flag = ctl.flag
      /\ ctl'.regs = ctl.regs
  BY <1>1, <1>2 DEF Controls
<1>7. Shape'
  BY <1>1, <1>5, <1>6 DEF Shape
<1>8. Full(de') /\ Pend(de') = {} /\ ("F_LOAD" \in de'.flags => de'.inst.op # "NA")
  BY <1>1, <1>4 DEF Full, Pend, AtId, FetchedOK
<1>9. Issued(prog, de', em, ctl')
  <2>1. ctl'.cond = {} /\ ~ctl'.flag
    BY <1>1, <1>6, StallAlone
  <2> QED
    BY <2>1, <1>3, <1>4, <1>6, <1>8 DEF Issued
<1>10. AtForward'
  BY <1>1, <1>4, <1>6, <1>8, <1>9 DEF AtForward, AtId
<1> QED
  BY <1>1, <1>7, <1>10 DEF Flow, Stages
\* The latch behind do_id.
LEMMA IdLatch ==
    ASSUME Loadable, Shape, AtId, do_id
    PROVE  LET load == "F_LOAD" \in Lookup.flags
               store == "F_STORE" \in Lookup.flags
               disp == "F_DISP" \in Lookup.flags
               oprand == Lookup.oprand
           IN  /\ DOMAIN de' = DeFields /\ de'.inst = fd.inst /\ de'.PC = fd.PC
               /\ de'.opcode = fd.inst.op /\ de'.func = FuncOf(fd.inst.op)
               /\ de'.flags = Lookup.flags /\ de'.oprand = oprand
               /\ de'.target = Target(fd.inst, fd.PC, de.target)
               /\ de'.srcA = (IF disp THEN oprand.in2 ELSE oprand.in1) /\ de'.srcB = oprand.in2
               /\ "load" \in de'.rw <=> load
               /\ "store" \in de'.rw <=> store
               /\ de'.dstM = IF load THEN oprand.out1 ELSE DNA
               /\ de'.dstE = IF load THEN DNA ELSE oprand.out1
<1> DEFINE load == "F_LOAD" \in Lookup.flags
           store == "F_STORE" \in Lookup.flags
           disp == "F_DISP" \in Lookup.flags
           rws == (IF store THEN {"store"} ELSE {}) \cup (IF load THEN {"load"} ELSE {})
           a == IF disp THEN Lookup.oprand.in2 ELSE Lookup.oprand.in1
           m == IF load THEN Lookup.oprand.out1 ELSE DNA
           e == IF load THEN DNA ELSE Lookup.oprand.out1
           t == Target(fd.inst, fd.PC, Lookup.target)
<1>1. fd.inst.op # "LUI"
  BY FdInst DEF do_id
<1>2. de' = [Lookup EXCEPT !.flags = Lookup.flags, !.func = FuncOf(fd.inst.op), !.target = t,
                           !.srcA = a, !.srcB = Lookup.oprand.in2, !.rw = rws, !.dstM = m, !.dstE = e]
  BY <1>1 DEF do_id
<1>3. /\ DOMAIN Lookup = DeFields /\ Lookup.inst = fd.inst /\ Lookup.PC = fd.PC
      /\ Lookup.opcode = fd.inst.op /\ Lookup.target = de.target
  BY LookupIs
<1>4. ("load" \in rws <=> load) /\ ("store" \in rws <=> store)
  OBVIOUS
<1> HIDE DEF rws, a, m, e, t
<1>5. /\ DOMAIN de' = DeFields /\ de'.inst = Lookup.inst /\ de'.PC = Lookup.PC
      /\ de'.opcode = Lookup.opcode /\ de'.oprand = Lookup.oprand
      /\ de'.func = FuncOf(fd.inst.op) /\ de'.flags = Lookup.flags
      /\ de'.target = t /\ de'.srcA = a /\ de'.srcB = Lookup.oprand.in2
      /\ de'.rw = rws /\ de'.dstM = m /\ de'.dstE = e
  BY <1>2, <1>3 DEF DeFields
<1> QED
  BY <1>3, <1>4, <1>5 DEF a, m, e, t

\* The flags by which do_id tells loads, stores and displacements.
LEMMA FlagsIs ==
    ASSUME NEW op
    PROVE  /\ "F_LOAD" \in Flags(op) <=> op = "LW"
           /\ "F_STORE" \in Flags(op) <=> op = "SW"
           /\ "F_DISP" \in Flags(op) <=> op \in {"LW", "SW"}
           /\ "F_IMM" \in Flags(op) <=> op \in IType
  BY DEF Flags, IType

\* No load sits in the slot behind a conditional branch.
LEMMA NoLoadInSlot ==
    ASSUME Loadable, Shape, AtId, 2 \in ctl.cond, ~IsNop(fd.inst)
    PROVE  "F_LOAD" \notin Lookup.flags
<1>1. Op(em, Branches) /\ "F_LOAD" \notin de.flags /\ em.inst = Fetch(prog, em.PC) /\ fd.PC = Follow(em)
  BY DEF AtId, Op, Decoded
<1>2. em.PC \in DOMAIN prog /\ em.inst = prog[em.PC] /\ fd.PC = em.PC + InstSize
  BY <1>1 DEF Fetch, NAInst, Inst, Op, Branches, Follow
<1>3. Exact(prog)
  BY DEF Shape, Loadable, Supported
<1>4. fd.inst = Fetch(prog, fd.PC)
  BY FdInst
<1>5. fd.inst.op # "LW"
  BY <1>1, <1>2, <1>3, <1>4 DEF Exact, Op
<1> QED
  BY <1>1, <1>5, LookupIs, FlagsIs

LEMMA IdFlow ==
    ASSUME Loadable, Flow, do_id
    PROVE  Flow'
<1> DEFINE op == fd.inst.op
           load == "F_LOAD" \in Lookup.flags
<1>1. /\ Shape /\ AtId /\ stage' = "forward" /\ ~IsNop(fd.inst)
      /\ UNCHANGED <<prog, fd, em, mw, wb, mem, sim_num_insn>>
  BY DEF Flow, do_id, Call
<1>2. /\ DeShape(de) /\ FdShape(fd) /\ ctl \in Controls /\ RShape(R)
      /\ ctl.flag \in BOOLEAN /\ ctl.cond \subseteq {2}
  BY <1>1 DEF Shape, Controls, AtId
<1>3. fd.inst = Fetch(prog, fd.PC) /\ InstOK(fd.inst) /\ op \notin {"NOP", "LUI", "MFLO"}
  BY <1>1, FdInst
<1>4. /\ Lookup.flags = IF op = "NA" THEN de.flags ELSE Flags(op)
      /\ Lookup.oprand = IF op = "NA" THEN de.oprand ELSE Oprand(fd.inst)
      /\ Lookup.oprand \in Oprands
      /\ load <=> op = "LW"
      /\ op # "NA" => ("F_STORE" \in Lookup.flags <=> op = "SW")
  <2>1. "F_LOAD" \in de.flags => op # "NA"
    BY <1>1 DEF AtId, FetchedOK
  <2> QED
    BY <1>1, <1>2, <1>3, <2>1, LookupIs, FlagsIs DEF InstOK, DeShape
<1>5. /\ DOMAIN de' = DeFields /\ de'.inst = fd.inst /\ de'.PC = fd.PC
      /\ de'.flags = Lookup.flags /\ de'.oprand = Lookup.oprand
      /\ de'.target = Target(fd.inst, fd.PC, de.target)
      /\ de'.srcA \in {Lookup.oprand.in2, Lookup.oprand.in1} /\ de'.srcB = Lookup.oprand.in2
      /\ "load" \in de'.rw <=> load
      /\ "store" \in de'.rw <=> "F_STORE" \in Lookup.flags
      /\ de'.dstM = IF load THEN Lookup.oprand.out1 ELSE DNA
      /\ de'.dstE = IF load THEN DNA ELSE Lookup.oprand.out1
  BY <1>1, IdLatch
<1>6. DeShape(de')
  <2>1. de'.target \in Int
    BY <1>2, <1>3, <1>5 DEF DeShape, FdShape, InstOK, Target
  <2> QED
    BY <1>2, <1>4, <1>5, <2>1 DEF DeShape, FdShape, Oprands, RegOrNone
<1>7. ctl' = [ctl EXCEPT !.stall = FALSE, !.flag = @ \/ op \in Branches \/ op = "JUMP",
                         !.cmp = IF op \in Branches THEN op = "BNE" ELSE @,
                         !.cond = IF op = "JUMP" THEN @ \cup {1} ELSE @,
                         !.regs = IF load THEN @ \cup {RegBit(Lookup.oprand.out1)} ELSE @]
  BY <1>3 DEF do_id
<1>8. /\ DOMAIN ctl' = {"flag", "cmp", "cond", "regs", "stall"}
      /\ ctl'.stall = FALSE /\ ctl'.flag = (ctl.flag \/ op \in Branches \/ op = "JUMP")
      /\ ctl'.cmp = (IF op \in Branches THEN op = "BNE" ELSE ctl.cmp)
      /\ ctl'.cond = (IF op = "JUMP" THEN ctl.cond \cup {1} ELSE ctl.cond)
      /\ ctl'.regs = (IF load THEN ctl.regs \cup {RegBit(Lookup.oprand.out1)} ELSE ctl.regs)
      /\ ctl' = [flag |-> ctl'.flag, cmp |-> ctl'.cmp, cond |-> ctl'.cond, regs |-> ctl'.regs,
                 stall |-> ctl'.stall]
  BY <1>2, <1>7 DEF Controls
<1>9. ctl' \in Controls
  <2>1. ctl.regs \subseteq 0..31 /\ ctl.cmp \in BOOLEAN
    BY <1>2 DEF Controls
  <2>2. RegBit(Lookup.oprand.out1) \in 0..31
    BY <1>4, RegBitIs DEF Oprands
  <2>3. ctl'.cmp \in BOOLEAN /\ ctl'.flag \in BOOLEAN /\ ctl'.stall \in BOOLEAN
    BY <1>2, <1>8, <2>1
  <2>4. ctl'.cond \subseteq {1, 2} /\ ctl'.regs \subseteq 0..31
    BY <1>2, <1>8, <2>1, <2>2
  <2> HIDE DEF op, load
  <2> QED
    BY <1>8, <2>3, <2>4 DEF Controls
<1>10. R' = R
  BY <1>3 DEF do_id
<1>11. Shape'
  BY <1>1, <1>6, <1>9, <1>10 DEF Shape
<1>12. Full(de') /\ ctl'.regs = Pend(de') \cup Pend(em)
  <2>1. Full(de') /\ Pend(de') = IF load THEN {RegBit(Lookup.oprand.out1)} ELSE {}
    BY <1>1, <1>5 DEF Full, Pend
  <2>2. ctl.regs = Pend(em)
    BY <1>1 DEF AtId
  <2> QED
    BY <1>8, <2>1, <2>2
<1>13. Decoded(prog, de') /\ FlagsOK(de') /\ Waiting(de', ctl')
  <2>1. Decoded(prog, de')
    BY <1>3, <1>4, <1>5, <1>12 DEF Decoded
  <2>2. FlagsOK(de')
    BY <1>4, <1>5 DEF FlagsOK
  <2>3. Waiting(de', ctl')
    BY <1>5, <1>8 DEF Waiting, Op
  <2> QED
    BY <2>1, <2>2, <2>3
<1>14. Issued(prog, de', em, ctl')
  <2>1. /\ 1 \in ctl'.cond <=> op = "JUMP"
        /\ 2 \in ctl'.cond <=> 2 \in ctl.cond
        /\ ctl'.flag => ctl'.cond # {} \/ op \in Branches
    BY <1>1, <1>2, <1>8 DEF AtId
  <2>2. op = "JUMP" => de'.target = 4 * UIMM(de'.inst)
    BY <1>5 DEF Target, Branches
  <2>3. 2 \in ctl.cond => Op(em, Branches) /\ ~load /\ Pend(de') = {}
    BY <1>1, <1>5, NoLoadInSlot DEF AtId, Pend
  <2> QED
    BY <2>1, <2>2, <2>3, <1>5, <1>8, <1>12, <1>13 DEF Issued, Op
<1>15. AtForward'
  BY <1>1, <1>5, <1>12, <1>14 DEF AtForward, AtId
<1> QED
  BY <1>1, <1>11, <1>15 DEF Flow, Stages

\* do_forward only fills in the operands.
LEMMA ForwardLatch ==
    ASSUME Shape, do_forward
    PROVE  /\ DOMAIN de' = DeFields /\ de'.inst = de.inst /\ de'.PC = de.PC
           /\ de'.opcode = de.opcode /\ de'.func = de.func
           /\ de'.flags = de.flags /\ de'.oprand = de.oprand /\ de'.target = de.target
           /\ de'.srcA = de.srcA /\ de'.srcB = de.srcB /\ de'.rw = de.rw
           /\ de'.dstM = de.dstM /\ de'.dstE = de.dstE
           /\ de'.aluA = forward(de.srcA) /\ de'.aluB = forward(de.srcB)
           /\ de'.valA = forward(de.oprand.in1)
<1> DEFINE a == forward(de.srcA)
           b == forward(de.srcB)
           c == forward(de.oprand.in1)
<1>1. de' = [de EXCEPT !.aluA = a, !.aluB = b, !.valA = c] /\ DOMAIN de = DeFields
  BY DEF do_forward, Shape, DeShape
<1> HIDE DEF a, b, c
<1>2. /\ DOMAIN de' = DeFields /\ de'.inst = de.inst /\ de'.PC = de.PC
      /\ de'.opcode = de.opcode /\ de'.func = de.func
      /\ de'.flags = de.flags /\ de'.oprand = de.oprand /\ de'.target = de.target
      /\ de'.srcA = de.srcA /\ de'.srcB = de.srcB /\ de'.rw = de.rw
      /\ de'.dstM = de.dstM /\ de'.dstE = de.dstE
      /\ de'.aluA = a /\ de'.aluB = b /\ de'.valA = c
  BY <1>1 DEF DeFields
<1> QED
  BY <1>2 DEF a, b, c

LEMMA ForwardFlow ==
    ASSUME Loadable, Flow, do_forward
    PROVE  Flow'
<1>1. /\ Shape /\ AtForward /\ stage' = "if"
      /\ UNCHANGED <<prog, fd, em, mw, wb, ctl, R, mem, sim_num_insn>>
  BY DEF Flow, do_forward, Call
<1>2. /\ DOMAIN de' = DeFields /\ de'.inst = de.inst /\ de'.PC = de.PC
      /\ de'.flags = de.flags /\ de'.oprand = de.oprand /\ de'.target = de.target
      /\ de'.srcA = de.srcA /\ de'.srcB = de.srcB /\ de'.rw = de.rw
      /\ de'.dstM = de.dstM /\ de'.dstE = de.dstE
  BY <1>1, ForwardLatch
<1>3. DeShape(de')
  BY <1>1, <1>2 DEF Shape, DeShape
<1>4. Shape'
  BY <1>1, <1>3 DEF Shape
<1>5. Issued(prog, de', em, ctl) /\ Pend(de') = Pend(de) /\ (Full(de') <=> Full(de))
  <2>1. Issued(prog, de, em, ctl)
    BY <1>1 DEF AtForward
  <2>2. Pend(de') = Pend(de) /\ (Full(de') <=> Full(de))
    BY <1>2 DEF Pend, Full
  <2>3. (Decoded(prog, de) => Decoded(prog, de')) /\ (FlagsOK(de) => FlagsOK(de'))
        /\ (Waiting(de, ctl) => Waiting(de', ctl))
    BY <1>2 DEF Decoded, FlagsOK, Waiting, Op, Full
  <2> QED
    BY <1>2, <2>1, <2>2, <2>3 DEF Issued, Op
<1>6. AtForward'
  BY <1>1, <1>2, <1>5 DEF AtForward
<1> QED
  BY <1>1, <1>4, <1>6 DEF Flow, Stages

\* IF delivers the predicted instruction, the target of the jump in de or that
\* of the branch in em.
LEMMA IfFlow ==
    ASSUME Loadable, Flow, do_if
    PROVE  Flow'
<1>1. /\ Shape /\ AtForward /\ stage' = "control"
      /\ fd' = [inst |-> Fetch(prog, NPC), PC |-> NPC]
      /\ UNCHANGED <<prog, de, em, mw, wb, ctl, R, mem>>
  BY DEF Flow, do_if, Call
<1>2. DeShape(de) /\ EmShape(em) /\ ctl.cond \subseteq {1, 2} /\ prog \in Programs
  BY <1>1 DEF Shape, Controls
<1>3. DOMAIN fd' = {"inst", "PC"} /\ fd'.inst = Fetch(prog, fd'.PC) /\ fd'.PC = NPC
  BY <1>1
<1>4. Issued(prog, de, em, ctl) /\ de.PC = fd.PC /\ de.inst = fd.inst /\ (Full(em) => de.PC = Follow(em))
  BY <1>1 DEF AtForward
<1>5. /\ ctl.cond = {} => NPC = de.PC + InstSize
      /\ ctl.cond = {1} => NPC = de.target
      /\ 2 \in ctl.cond => NPC = em.target
  BY <1>2, <1>4 DEF NPC
<1>6. InstOK(fd'.inst) /\ NPC \in Int
  BY <1>1, <1>3, ProgFetch DEF NPC, InstSize
<1>7. Shape'
  <2>1. FdShape(fd')
    BY <1>3, <1>6 DEF FdShape, InstOK
  <2>2. sim_num_insn' \in 0..MaxCycles
    BY <1>1 DEF do_if, Shape, Loadable
  <2> QED
    BY <1>1, <2>1, <2>2 DEF Shape
<1>8. ~ctl.stall => FetchedOK(prog, fd', de)
  <2> SUFFICES ASSUME ~ctl.stall, "F_LOAD" \in de.flags
               PROVE  fd'.inst.op # "NA"
    BY <1>3 DEF FetchedOK
  <2>1. de.inst = Fetch(prog, de.PC) /\ de.inst.op \in {"LW", "NOP"}
    <3>1. CASE Full(de)
      BY <3>1, <1>4, FlagsIs DEF Issued, Decoded, FlagsOK
    <3>2. CASE ~Full(de)
      BY <3>2, <1>1 DEF AtForward, Full, IsNop
    <3> QED
      BY <3>1, <3>2
  <2>2. ctl.cond = {}
    BY <1>2, <1>4, <2>1 DEF Issued, Op
  <2>3. de.PC \in DOMAIN prog /\ prog[de.PC].op \in {"LW", "NOP"}
    BY <2>1 DEF Fetch, NAInst, Inst
  <2>4. NPC \in DOMAIN prog /\ fd'.inst = prog[NPC] /\ Executable(prog[NPC])
    BY <1>2, <1>3, <1>5, <2>2, <2>3 DEF Loadable, Supported, Fetch
  <2> QED
    BY <2>4 DEF Executable
<1>9. ctl.cond \in {{}, {1}} /\ Full(de) /\ ~ctl.stall => fd'.PC = Follow(de)
  BY <1>3, <1>4, <1>5 DEF Issued, Follow, Op
<1>10. Behind(em, de, fd'.PC)
  <2> SUFFICES ASSUME Full(em), ~Full(de), ~Op(em, Branches \cup {"JUMP"})
               PROVE  fd'.PC = em.PC + 2 * InstSize
    BY <1>4 DEF Behind, Near
  <2>1. ctl.cond = {}
    BY <1>2, <1>4 DEF Issued, Op
  <2>2. de.PC = em.PC + InstSize
    BY <1>4 DEF Follow, Op
  <2> QED
    BY <1>2, <1>3, <1>5, <2>1, <2>2 DEF EmShape, InstSize
<1>11. AtControl'
  BY <1>1, <1>3, <1>4, <1>8, <1>9, <1>10 DEF AtControl, AtForward
<1> QED
  BY <1>1, <1>7, <1>11 DEF Flow, Stages

\* Every step of the loop keeps the flow.
LEMMA NextFlow ==
    ASSUME Loadable, Flow, [TandemNext]_tandemVars
    PROVE  Flow'
<1>1. CASE UNCHANGED tandemVars
  BY <1>1 DEF tandemVars, vars, Flow, Shape, AtControl, AtWb, AtMem, AtEx, AtId, AtForward
<1>2. CASE TandemNext
  BY <1>2, ControlFlow, WbFlow, MemFlow, ExFlow, IdNopFlow, IdStallFlow, IdFlow, ForwardFlow, IfFlow
     DEF TandemNext, Decode
<1> QED
  BY <1>1, <1>2

\* The latches hold register numbers throughout, in particular where do_wb and
\* forward() index the register file with them.
LEMMA FlowTypes ==
    ASSUME Loadable, Flow
    PROVE  TypeOK
<1>1. DOMAIN R = Regs
  BY DEF Flow, Shape, RShape
<1>2. {em.dstE, em.dstM, mw.dstE, mw.dstM, wb.dstE, wb.dstM} \subseteq Regs \cup {DNA}
  BY DEF Flow, Shape, EmShape, MwShape, WbShape, RegOrNone
<1>3. {de.srcA, de.srcB, de.oprand.in1} \subseteq Regs \cup {DNA}
  BY DEF Flow, Shape, DeShape, Oprands, RegOrNone
<1>4. /\ ctl.cond \subseteq {1, 2} /\ ctl.regs \subseteq 0..31
      /\ ctl.stall \in BOOLEAN /\ ctl.flag \in BOOLEAN
  BY DEF Flow, Shape, Controls
<1>5. stage \in Stages /\ sim_num_insn \in 0..MaxCycles
  BY DEF Flow, Shape
<1> QED
  BY <1>1, <1>2, <1>3, <1>4, <1>5 DEF TypeOK

LEMMA FlowScoreboard ==
    ASSUME Flow
    PROVE  ScoreboardExact
<1> SUFFICES ASSUME stage = "control" PROVE ctl.regs = PendingLoads
  BY DEF ScoreboardExact
<1>1. ctl.regs = Pend(de) \cup Pend(em)
  BY DEF Flow, AtControl
<1> QED
  BY <1>1 DEF PendingLoads, Pend, Full

\* The scoreboard of the forwarding pipeline never loses and never keeps a bit
\* it should not, on every supported program: do_id marks the loads that do_mem
\* clears, through stalls, jumps and squashed slots.
THEOREM ScoreboardSound == Loadable => (TandemSpec => []ScoreboardExact)
<1> SUFFICES ASSUME Loadable PROVE TandemSpec => []ScoreboardExact
  OBVIOUS
<1>1. TandemInit => Flow
  BY InitFlow DEF TandemInit
<1>2. Flow /\ [TandemNext]_tandemVars => Flow'
  BY NextFlow
<1>3. Flow => ScoreboardExact
  BY FlowScoreboard
<1> QED
  BY <1>1, <1>2, <1>3, PTL DEF TandemSpec
-----------------------------------------------------------------------------
(* Words, nops and the effect of one instruction.                          *)

LEMMA WordModIs == WordMod \in Nat \ {0} /\ WordMod >= 4
<1>1. 2 * ImmBits \in 0..(2 * ImmBits)
  BY PisaAssumption
<1> QED
  BY <1>1, PisaAssumption DEF WordMod

\* A word fits, and so do the small constants.
LEMMA WrapWord ==
    ASSUME NEW x \in Int
    PROVE  Wrap(x) \in Words
<1> DEFINE u == x % WordMod
<1>1. WordMod \in Nat \ {0}
  BY WordModIs
<1>2. u \in 0..(WordMod - 1)
  BY <1>1
<1> HIDE DEF u
<1>3. u \in Int /\ 0 <= u /\ u < WordMod
  BY <1>1, <1>2
<1>4. Wrap(x) = IF 2 * u >= WordMod THEN u - WordMod ELSE u
  BY DEF Wrap, u
<1> QED
  BY <1>1, <1>3, <1>4 DEF Words

LEMMA SmallWords == 0 \in Words /\ 1 \in Words
  BY WordModIs DEF Words

\* Two words are equal when their difference is zero.
LEMMA SubZero ==
    ASSUME NEW a \in Words, NEW b \in Words
    PROVE  Wrap(a - b) = 0 <=> a = b
<1> DEFINE W == WordMod
           x == a - b
           u == x % W
           q == x \div W
<1>1. W \in Nat \ {0} /\ a \in Int /\ b \in Int /\ x \in Int
  BY WordModIs DEF Words
<1>2. -W < x /\ x < W
  BY <1>1 DEF Words
<1>3. u \in 0..(W - 1)
  BY <1>1
<1>4. Wrap(x) = 0 <=> u = 0
  <2>1. u \in Int /\ 0 <= u /\ u < W
    BY <1>1, <1>3
  <2>2. Wrap(x) = IF 2 * u >= W THEN u - W ELSE u
    BY DEF Wrap
  <2> HIDE DEF u, W
  <2> QED
    BY <1>1, <2>1, <2>2
<1>5. u = 0 <=> x = 0
  <2>1. x = W * q + u /\ q \in Int
    BY <1>1
  <2>2. ASSUME u = 0 PROVE x = 0
    <3> DEFINE y == W * q
    <3>1. q > 0 => y >= W
      <4> HIDE DEF W, q
      <4> QED
        BY <1>1, <2>1
    <3>2. q < 0 => y <= -W
      <4> HIDE DEF W, q
      <4> QED
        BY <1>1, <2>1
    <3>3. q = 0 => y = 0
      BY <1>1
    <3>4. x = y /\ y \in Int
      BY <1>1, <2>1, <2>2
    <3> HIDE DEF y, q, W, x
    <3> QED
      BY <1>1, <1>2, <2>1, <3>1, <3>2, <3>3, <3>4
  <2>3. ASSUME x = 0 PROVE u = 0
    BY <1>1, <2>3
  <2> QED
    BY <2>2, <2>3
<1> QED
  BY <1>1, <1>4, <1>5

\* Sums over the sets of at most n elements of S, one element at a time.
Pick(s) == CHOOSE x \in s : TRUE
Below(S, n) == {s \in SUBSET S : Cardinality(s) <= n}
IsSum(f, g, D) == f = [s \in D |-> IF s = {} THEN 0 ELSE g[Pick(s)] + f[s \ {Pick(s)}]]

LEMMA SumExists ==
    ASSUME NEW S, IsFiniteSet(S), NEW g \in [S -> Int]
    PROVE  \E f \in [SUBSET S -> Int] : IsSum(f, g, SUBSET S)
<1> DEFINE T == {n \in Nat : \E f \in [Below(S, n) -> Int] : IsSum(f, g, Below(S, n))}
<1>0. \A s \in SUBSET S : IsFiniteSet(s) /\ Cardinality(s) \in Nat /\ Cardinality(s) <= Cardinality(S)
  BY FS_Subset, FS_CardinalityType
<1>1. 0 \in T
  <2> DEFINE f == [s \in Below(S, 0) |-> 0]
  <2>1. Below(S, 0) = {{}}
    BY <1>0, FS_EmptySet DEF Below
  <2>2. f \in [Below(S, 0) -> Int] /\ IsSum(f, g, Below(S, 0))
    BY <2>1 DEF IsSum
  <2> QED
    BY <2>2
<1>2. ASSUME NEW n \in Nat, n \in T PROVE n + 1 \in T
  <2>1. PICK f \in [Below(S, n) -> Int] : IsSum(f, g, Below(S, n))
    BY <1>2
  <2> DEFINE h == [s \in Below(S, n + 1) |-> IF s = {} THEN 0 ELSE g[Pick(s)] + f[s \ {Pick(s)}]]
  <2>2. ASSUME NEW s \in Below(S, n + 1), s # {}
        PROVE  Pick(s) \in s /\ s \ {Pick(s)} \in Below(S, n)
    <3>1. Pick(s) \in s /\ IsFiniteSet(s)
      BY <1>0, <2>2 DEF Pick, Below
    <3>2. Cardinality(s \ {Pick(s)}) = Cardinality(s) - 1
      BY <3>1, FS_RemoveElement
    <3> QED
      BY <1>0, <2>2, <3>1, <3>2 DEF Below
  <2>3. h \in [Below(S, n + 1) -> Int]
    <3> SUFFICES ASSUME NEW s \in Below(S, n + 1) PROVE (IF s = {} THEN 0 ELSE g[Pick(s)] + f[s \ {Pick(s)}]) \in Int
      OBVIOUS
    <3> QED
      BY <2>2 DEF Below
  <2>4. ASSUME NEW s \in Below(S, n) PROVE s \in Below(S, n + 1) /\ h[s] = f[s]
    <3>1. s \in Below(S, n + 1)
      BY <1>0 DEF Below
    <3> QED
      BY <2>1, <3>1 DEF IsSum
  <2>5. IsSum(h, g, Below(S, n + 1))
    <3>1. ASSUME NEW s \in Below(S, n + 1)
          PROVE  h[s] = IF s = {} THEN 0 ELSE g[Pick(s)] + h[s \ {Pick(s)}]
      <4>1. s # {} => h[s \ {Pick(s)}] = f[s \ {Pick(s)}]
        BY <2>2, <2>4
      <4> QED
        BY <4>1
    <3>2. h = [s \in Below(S, n + 1) |-> h[s]]
      OBVIOUS
    <3> HIDE DEF h
    <3> QED
      BY <3>1, <3>2 DEF IsSum
  <2> HIDE DEF h
  <2> QED
    BY <2>3, <2>5
<1> HIDE DEF T
<1>3. Cardinality(S) \in T
  BY <1>1, <1>2, SetInduction, FS_CardinalityType
<1>4. Below(S, Cardinality(S)) = SUBSET S
  BY <1>0 DEF Below
<1> QED
  BY <1>3, <1>4 DEF T

LEMMA SumTyped ==
    ASSUME NEW S, IsFiniteSet(S), NEW g \in [S -> Int], NEW f, IsSum(f, g, SUBSET S)
    PROVE  f[S] \in Int
<1> DEFINE T == {n \in Nat : \A s \in Below(S, n) : f[s] \in Int}
<1>0. \A s \in SUBSET S : IsFiniteSet(s) /\ Cardinality(s) \in Nat /\ Cardinality(s) <= Cardinality(S)
  BY FS_Subset, FS_CardinalityType
<1>1. \A s \in SUBSET S : f[s] = IF s = {} THEN 0 ELSE g[Pick(s)] + f[s \ {Pick(s)}]
  BY DEF IsSum
<1>2. 0 \in T
  <2> SUFFICES ASSUME NEW s \in Below(S, 0) PROVE f[s] \in Int
    OBVIOUS
  <2>1. s \in SUBSET S /\ Cardinality(s) <= 0
    BY DEF Below
  <2>2. IsFiniteSet(s) /\ Cardinality(s) = 0
    BY <1>0, <2>1
  <2>3. s = {}
    BY <2>2, FS_EmptySet
  <2>4. f[s] = 0
    <3> HIDE DEF T
    <3> QED
      BY <1>1, <2>1, <2>3
  <2> QED
    BY <2>4
<1>3. ASSUME NEW n \in Nat, n \in T PROVE n + 1 \in T
  <2> SUFFICES ASSUME NEW s \in Below(S, n + 1) PROVE f[s] \in Int
    OBVIOUS
  <2>0. s \in SUBSET S /\ f[s] = IF s = {} THEN 0 ELSE g[Pick(s)] + f[s \ {Pick(s)}]
    BY <1>1 DEF Below
  <2>1. CASE s = {}
    BY <2>0, <2>1
  <2>2. CASE s # {}
    <3>1. Pick(s) \in s /\ IsFiniteSet(s) /\ s \in SUBSET S
      BY <1>0, <2>2 DEF Pick, Below
    <3>2. Cardinality(s \ {Pick(s)}) = Cardinality(s) - 1
      BY <3>1, FS_RemoveElement
    <3>3. s \ {Pick(s)} \in Below(S, n)
      BY <1>0, <3>1, <3>2 DEF Below
    <3>4. f[s \ {Pick(s)}] \in Int /\ g[Pick(s)] \in Int
      BY <1>3, <3>1, <3>3
    <3> QED
      BY <2>0, <2>2, <3>4
  <2> QED
    BY <2>1, <2>2
<1>4. Cardinality(S) \in T
  <2> HIDE DEF T
  <2> QED
    BY <1>2, <1>3, SetInduction, FS_CardinalityType
<1>5. S \in Below(S, Cardinality(S))
  BY <1>0 DEF Below
<1> QED
  BY <1>4, <1>5

LEMMA BitAndWord ==
    ASSUME NEW x \in Int, NEW y \in Int
    PROVE  BitAnd(x, y) \in Words
<1> DEFINE bit(i) == ((x \div 2^i) % 2) * ((y \div 2^i) % 2) * 2^i
           S == 0..(2 * ImmBits - 1)
           g == [i \in S |-> bit(i)]
           sum == CHOOSE f : f = [s \in SUBSET S |-> IF s = {} THEN 0
                                   ELSE bit(CHOOSE z \in s : TRUE) + f[s \ {CHOOSE z \in s : TRUE}]]
<1>1. BitAnd(x, y) = Wrap(sum[S])
  BY DEF BitAnd, MapThenSumSet, MapThenFoldSet
<1>2. g \in [S -> Int]
  <2> SUFFICES ASSUME NEW i \in S PROVE bit(i) \in Int
    OBVIOUS
  <2>1. 2^i \in Nat \ {0}
    BY PisaAssumption
  <2> DEFINE t == 2^i
  <2>2. x \div t \in Int /\ y \div t \in Int
    BY <2>1
  <2>3. (x \div t) % 2 \in Int /\ (y \div t) % 2 \in Int
    BY <2>2
  <2> QED
    BY <2>1, <2>3
<1>3. PICK f \in [SUBSET S -> Int] : IsSum(f, g, SUBSET S)
  <2>1. IsFiniteSet(S)
    BY FS_Interval, PisaAssumption
  <2> HIDE DEF S, g
  <2> QED
    BY <1>2, <2>1, SumExists
<1>4. f = [s \in SUBSET S |-> IF s = {} THEN 0
             ELSE bit(CHOOSE z \in s : TRUE) + f[s \ {CHOOSE z \in s : TRUE}]]
  <2>1. ASSUME NEW s \in SUBSET S, s # {} PROVE g[Pick(s)] = bit(CHOOSE z \in s : TRUE)
    BY <2>1 DEF Pick
  <2> HIDE DEF bit, g, S
  <2> QED
    BY <1>3, <2>1 DEF IsSum, Pick
<1>5. IsSum(sum, g, SUBSET S)
  <2>1. sum = [s \in SUBSET S |-> IF s = {} THEN 0
               ELSE bit(CHOOSE z \in s : TRUE) + sum[s \ {CHOOSE z \in s : TRUE}]]
    <3> HIDE DEF bit, S
    <3> QED
      BY <1>4
  <2>2. ASSUME NEW s \in SUBSET S, s # {} PROVE g[Pick(s)] = bit(CHOOSE z \in s : TRUE)
    BY <2>2 DEF Pick
  <2> HIDE DEF bit, g, S, sum
  <2> DEFINE L == [s \in SUBSET S |-> IF s = {} THEN 0
                   ELSE bit(CHOOSE z \in s : TRUE) + sum[s \ {CHOOSE z \in s : TRUE}]]
             M == [s \in SUBSET S |-> IF s = {} THEN 0 ELSE g[Pick(s)] + sum[s \ {Pick(s)}]]
  <2>3. ASSUME NEW s \in SUBSET S PROVE L[s] = M[s]
    <3>1. CASE s = {}
      BY <3>1
    <3>2. CASE s # {}
      BY <2>2, <3>2 DEF Pick
    <3> QED
      BY <3>1, <3>2
  <2>4. DOMAIN L = SUBSET S /\ DOMAIN M = SUBSET S /\ L = [s \in SUBSET S |-> L[s]]
        /\ M = [s \in SUBSET S |-> M[s]]
    OBVIOUS
  <2>5. sum = L
    BY <2>1
  <2> HIDE DEF L
  <2>6. L = M
    <3> HIDE DEF M
    <3> QED
      BY <2>3, <2>4
  <2> QED
    BY <2>5, <2>6 DEF IsSum
<1>6. sum[S] \in Int
  <2>1. IsFiniteSet(S)
    BY FS_Interval, PisaAssumption
  <2> HIDE DEF S, g, sum
  <2> QED
    BY <1>2, <1>5, <2>1, SumTyped
<1> QED
  BY <1>1, <1>6, WrapWord

\* An address leads to itself, and past a nop.
LEMMA LeadsSelf ==
    ASSUME NEW p, NEW a \in Int
    PROVE  Leads(p, a, a)
<1>1. a = a + InstSize * 0 /\ 0..(0 - 1) = {}
  BY DEF InstSize
<1> QED
  BY <1>1 DEF Leads

LEMMA LeadsNop ==
    ASSUME NEW p, NEW a \in Int, NEW b, Leads(p, a, b), Fetch(p, b).op = "NOP"
    PROVE  Leads(p, a, b + InstSize)
<1>1. PICK k \in Nat : /\ b = a + InstSize * k
                       /\ \A j \in 0..(k - 1) : Fetch(p, a + InstSize * j).op = "NOP"
  BY DEF Leads
<1>2. k + 1 \in Nat /\ b + InstSize = a + InstSize * (k + 1)
  BY <1>1 DEF InstSize
<1>3. \A j \in 0..((k + 1) - 1) : Fetch(p, a + InstSize * j).op = "NOP"
  <2> TAKE j \in 0..((k + 1) - 1)
  <2>1. j = k \/ j \in 0..(k - 1)
    OBVIOUS
  <2> QED
    BY <1>1, <2>1
<1> QED
  BY <1>2, <1>3 DEF Leads

\* sim-fast skips the nops up to the next instruction: they are fewer than the
\* addresses of the text.
LEMMA SkipLeads ==
    ASSUME Loadable, prog \in Programs, NEW s, DOMAIN s = {"R", "mem", "PC", "sim_num_insn"},
           s.PC \in Int, NEW b, Leads(prog, s.PC, b), Fetch(prog, b).op # "NOP"
    PROVE  SkipNops(s).PC = b /\ SkipNops(s).R = s.R /\ SkipNops(s).mem = s.mem
<1> DEFINE at(j) == Fetch(prog, s.PC + InstSize * j).op
           N == Cardinality(DOMAIN prog)
           ahead == {k \in 0..N : at(k) # "NOP" /\ \A j \in 0..(k - 1) : at(j) = "NOP"}
<1>1. PICK k \in Nat : b = s.PC + InstSize * k /\ \A j \in 0..(k - 1) : at(j) = "NOP"
  BY DEF Leads
<1>2. k <= N
  <2> DEFINE D == 0..(k - 1)
             f == [j \in D |-> s.PC + InstSize * j]
  <2>1. IsFiniteSet(DOMAIN prog) /\ N \in Nat
    BY FS_CardinalityType DEF Loadable, Supported
  <2>2. \A j \in D : f[j] \in DOMAIN prog
    <3> TAKE j \in D
    <3>1. Fetch(prog, f[j]).op = "NOP"
      BY <1>1
    <3> QED
      BY <3>1 DEF Fetch, NAInst, Inst
  <2>3. f \in [D -> DOMAIN prog]
    BY <2>2
  <2>4. \A i, j \in D : f[i] = f[j] => i = j
    BY DEF InstSize
  <2>5. f \in Injection(D, DOMAIN prog)
    BY <2>3, <2>4 DEF Injection, IsInjective
  <2>6. Cardinality(D) <= N
    BY <2>1, <2>5, FS_Injection
  <2>7. Cardinality(D) = k
    BY FS_Interval
  <2> QED
    BY <2>6, <2>7
<1>3. ahead = {k}
  <2>1. at(k) # "NOP"
    BY <1>1
  <2>2. N \in Nat
    BY FS_CardinalityType DEF Loadable, Supported
  <2> HIDE DEF at, N
  <2> QED
    BY <1>1, <1>2, <2>1, <2>2
<1>4. (CHOOSE n \in ahead : TRUE) = k
  BY <1>3
<1>5. SkipNops(s) = [s EXCEPT !.PC = @ + InstSize * k, !.sim_num_insn = @ + k]
  BY <1>4 DEF SkipNops
<1> QED
  BY <1>1, <1>5

\* What the DEFINST of a supported instruction says of its operands.
Numbers(i) ==
    /\ i.rs \in GPRs /\ i.rt \in GPRs /\ i.rd \in GPRs /\ UIMM(i) \in Nat /\ IMM(i) \in Int
    /\ Oprand(i).out1 \in (GPRs \ {ZERO}) \cup {DNA, DHI}
    /\ Oprand(i).in1 \in GPRs \cup {DNA} /\ Oprand(i).in2 \in GPRs \cup {DNA}
    /\ Oprand(i).out1 = DHI <=> i.op = "MULTU"
Kinds(i) ==
    LET is(out, a, b) == Oprand(i).out1 = out /\ Oprand(i).in1 = a /\ Oprand(i).in2 = b
    IN  /\ i.op \in RType => is(i.rd, i.rs, i.rt)
        /\ i.op \in IType => is(i.rt, i.rs, DNA)
        /\ i.op = "LW" => is(i.rt, DNA, i.rs)
        /\ i.op = "SW" => is(DNA, i.rt, i.rs)
        /\ i.op = "SLL" => is(i.rd, i.rt, DNA)
        /\ i.op = "MULTU" => is(DHI, i.rt, i.rs)
        /\ i.op \in Branches => is(DNA, i.rs, i.rt)
        /\ i.op \in {"NOP", "JUMP", "SYSCALL"} => is(DNA, DNA, DNA)
Ops == {"NOP", "ADD", "ADDU", "ADDI", "ADDIU", "ANDI", "SLTI", "SLL", "MULTU",
        "LW", "SW", "BEQ", "BNE", "JUMP", "SYSCALL"}

LEMMA OprandIs ==
    ASSUME NEW i, Executable(i)
    PROVE  Numbers(i) /\ Kinds(i) /\ i.op \in Ops
<1>1. i.op \in Ops /\ i.rs \in GPRs /\ i.rt \in GPRs /\ i.rd \in GPRs /\ UIMM(i) \in Nat
  BY DEF Executable, Ops, UIMM
<1>2. Kinds(i)
  BY <1>1 DEF Kinds, Oprand, Ops, Branches, RType, IType
<1>3. IMM(i) \in Int
  <2>1. 2^ImmBits \in Nat
    BY PisaAssumption
  <2> QED
    BY <1>1, <2>1 DEF IMM, UIMM
<1>4. DHI \notin GPRs /\ DNA \notin GPRs /\ DHI # DNA
  BY PisaAssumption DEF DHI, DNA
<1>5. Oprand(i).out1 # ZERO
  BY DEF Executable
<1> QED
  BY <1>1, <1>2, <1>3, <1>4, <1>5 DEF Numbers, Kinds, Ops, Branches, RType, IType

\* What is fetched and is no zero word is supported.
LEMMA FetchExec ==
    ASSUME Loadable, NEW p \in Programs, NEW pc, Fetch(p, pc).op # "NA"
    PROVE  Executable(Fetch(p, pc)) /\ pc \in DOMAIN p /\ pc \in Int
<1>1. pc \in DOMAIN p
  BY DEF Fetch, NAInst, Inst
<1> QED
  BY <1>1 DEF Fetch, Loadable, Supported

\* Registers without $0.
LEMMA ClearedIs ==
    ASSUME NEW f \in [Regs -> Words]
    PROVE  /\ Cleared(f) \in [Regs -> Words] /\ Cleared(f)[ZERO] = 0
           /\ \A r \in GPRs \ {ZERO} : Cleared(f)[r] = f[r]
           /\ ZERO \in GPRs /\ GPRs \subseteq Regs
  BY SmallWords, PisaAssumption DEF Cleared, Regs

LEMMA ReadIs ==
    ASSUME NEW m, m \in [DOMAIN m -> Words], NEW a
    PROVE  ReadWord(m, a) \in Words
  BY SmallWords DEF ReadWord

LEMMA WriteIs ==
    ASSUME NEW m, m \in [DOMAIN m -> Words], NEW a, NEW w \in Words
    PROVE  WriteWord(m, a, w) \in [DOMAIN WriteWord(m, a, w) -> Words]
  BY DEF WriteWord

\* The result of an instruction is a word.
LEMMA ValueWord ==
    ASSUME NEW i, Executable(i), NEW f \in [Regs -> Words], NEW m, m \in [DOMAIN m -> Words],
           Oprand(i).out1 \notin {DNA, DHI}
    PROVE  ImplValue(i, f, m) \in Words
<1> DEFINE a == f[i.rs]
           b == f[i.rt]
<1>1. Numbers(i) /\ Kinds(i) /\ i.op \in Ops
  BY OprandIs
<1>2. a \in Words /\ b \in Words /\ a \in Int /\ b \in Int
  BY <1>1 DEF Numbers, Regs, Words
<1>3. IMM(i) \in Int /\ UIMM(i) \in Int
  BY <1>1 DEF Numbers
<1>4. i.op \in {"ADD", "ADDU", "ADDI", "ADDIU", "ANDI", "SLTI", "SLL", "LW"}
  BY <1>1 DEF Kinds, Ops, Branches
<1> HIDE DEF a, b
<1>5. CASE i.op \in {"ADD", "ADDU"}
  BY <1>2, <1>5, WrapWord DEF ImplValue, a, b
<1>6. CASE i.op \in {"ADDI", "ADDIU"}
  <2>1. a + IMM(i) \in Int
    BY <1>2, <1>3
  <2> QED
    BY <1>6, <2>1, WrapWord DEF ImplValue, a
<1>7. CASE i.op = "ANDI"
  BY <1>2, <1>3, <1>7, BitAndWord DEF ImplValue, a
<1>8. CASE i.op = "SLTI"
  BY <1>8, SmallWords DEF ImplValue
<1>9. CASE i.op = "SLL"
  <2>1. 2^UIMM(i) \in Int
    <3>1. UIMM(i) \in 0..(2 * ImmBits)
      BY <1>9, <1>1, PisaAssumption DEF Executable, UIMM, Numbers
    <3> QED
      BY <3>1, PisaAssumption
  <2>2. b * 2^UIMM(i) \in Int
    BY <1>2, <2>1
  <2>3. ImplValue(i, f, m) = Wrap(b * 2^UIMM(i))
    BY <1>9 DEF ImplValue, b
  <2> QED
    BY <2>2, <2>3, WrapWord
<1>10. CASE i.op = "LW"
  BY <1>10, ReadIs DEF ImplValue
<1> QED
  BY <1>4, <1>5, <1>6, <1>7, <1>8, <1>9, <1>10

\* The registers after an instruction.
LEMMA ExecRegsIs ==
    ASSUME NEW i, Executable(i), NEW f \in [Regs -> Words], NEW m, m \in [DOMAIN m -> Words]
    PROVE  LET dst == Oprand(i).out1
               g == ExecRegs(i, f, m)
           IN  /\ g \in [Regs -> Words]
               /\ \A r \in GPRs : r # dst => g[r] = f[r]
               /\ dst \in GPRs => g[dst] = ImplValue(i, f, m)
<1> DEFINE dst == Oprand(i).out1
           g == ExecRegs(i, f, m)
<1>1. Numbers(i)
  BY OprandIs
<1>2. CASE dst = DNA
  BY <1>2, PisaAssumption DEF ExecRegs, DNA
<1>3. CASE dst = DHI
  <2>1. i.op = "MULTU" /\ dst # DNA /\ dst \notin GPRs
    BY <1>1, <1>3, PisaAssumption DEF Numbers, DHI, DNA
  <2>2. g = [f EXCEPT ![DHI] = MultuHi(f[i.rs], f[i.rt]), ![DLO] = MultuLo(f[i.rs], f[i.rt])]
    BY <2>1 DEF ExecRegs
  <2>3. MultuHi(f[i.rs], f[i.rt]) \in Words /\ MultuLo(f[i.rs], f[i.rt]) \in Words
    <3> DEFINE a == Unsigned(f[i.rs])
               b == Unsigned(f[i.rt])
               c == a * b
    <3>1. f[i.rs] \in Int /\ f[i.rt] \in Int /\ WordMod \in Nat \ {0}
      BY <1>1, WordModIs DEF Numbers, Regs, Words
    <3>2. a \in Int /\ b \in Int
      BY <3>1 DEF Unsigned
    <3>3. c \in Int
      BY <3>2
    <3>4. c \div WordMod \in Int
      <4> HIDE DEF c
      <4> QED
        BY <3>1, <3>3
    <3> QED
      BY <3>3, <3>4, WrapWord DEF MultuHi, MultuLo
  <2>4. \A r \in GPRs : r \in Regs /\ r # DHI /\ r # DLO
    BY PisaAssumption DEF Regs, DHI, DLO
  <2> HIDE DEF g, dst
  <2> QED
    BY <2>1, <2>2, <2>3, <2>4 DEF g, dst
<1>4. CASE dst \notin {DNA, DHI}
  <2>1. g = [f EXCEPT ![dst] = ImplValue(i, f, m)] /\ dst \in Regs
    BY <1>1, <1>4 DEF ExecRegs, Numbers, Regs
  <2>2. ImplValue(i, f, m) \in Words
    BY <1>4, ValueWord
  <2>3. GPRs \subseteq Regs
    BY DEF Regs
  <2> HIDE DEF g, dst
  <2> QED
    BY <2>1, <2>2, <2>3 DEF g, dst
<1> QED
  BY <1>2, <1>3, <1>4

\* One instruction of sim-fast: words stay words, only the destination changes.
LEMMA ExecIs ==
    ASSUME NEW s, StateOK(s), NEW i, Executable(i), NEW pc \in Int
    PROVE  LET t == Exec(s, i, pc)
           IN  /\ StateOK(t)
               /\ \A r \in GPRs \ {ZERO} : r # Oprand(i).out1 => t.R[r] = s.R[r]
               /\ Oprand(i).out1 \in GPRs => t.R[Oprand(i).out1] = ImplValue(i, Cleared(s.R), s.mem)
               /\ t.mem = ImplMem(i, Cleared(s.R), s.mem)
               /\ t.PC = ImplNPC(i, Cleared(s.R), pc)
<1> DEFINE f == Cleared(s.R)
           t == Exec(s, i, pc)
<1>1. f \in [Regs -> Words] /\ \A r \in GPRs \ {ZERO} : f[r] = s.R[r]
  BY ClearedIs DEF StateOK
<1>2. t.R = ExecRegs(i, f, s.mem) /\ t.mem = ImplMem(i, f, s.mem) /\ t.PC = ImplNPC(i, f, pc)
  BY DEF Exec
<1>3. s.mem \in [DOMAIN s.mem -> Words]
  BY DEF StateOK
<1> HIDE DEF f, t
<1>4. /\ t.R \in [Regs -> Words] /\ \A r \in GPRs : r # Oprand(i).out1 => t.R[r] = f[r]
      /\ Oprand(i).out1 \in GPRs => t.R[Oprand(i).out1] = ImplValue(i, f, s.mem)
  BY <1>1, <1>2, <1>3, ExecRegsIs
<1>5. Numbers(i)
  BY OprandIs
<1>6. t.mem \in [DOMAIN t.mem -> Words]
  <2>1. f[i.rt] \in Words
    BY <1>1, <1>5 DEF Numbers, Regs
  <2> QED
    BY <1>2, <1>3, <2>1, WriteIs DEF ImplMem
<1>7. t.PC \in Int
  BY <1>2, <1>5 DEF ImplNPC, Numbers, InstSize
<1> QED
  BY <1>1, <1>2, <1>4, <1>6, <1>7 DEF StateOK, f, t

\* The same for the instruction in a latch.
LatchExec(l) == Full(l) => Executable(l.inst) /\ l.PC \in Int

LEMMA AfterOK ==
    ASSUME NEW s, StateOK(s), NEW l, LatchExec(l)
    PROVE  StateOK(After(s, l))
<1>1. CASE Full(l)
  BY <1>1, ExecIs DEF After, LatchExec
<1>2. CASE ~Full(l)
  BY <1>2 DEF After
<1> QED
  BY <1>1, <1>2
-----------------------------------------------------------------------------
(* The pipeline and sim-fast.                                              *)

\* A decoded instruction is supported.
LEMMA DecodedExec ==
    ASSUME Loadable, prog \in Programs, NEW l, Decoded(prog, l), Valid(l)
    PROVE  LatchExec(l)
<1> SUFFICES ASSUME Full(l) PROVE Executable(l.inst) /\ l.PC \in Int
  BY DEF LatchExec
<1>1. l.inst = Fetch(prog, l.PC) /\ l.inst.op # "NA"
  BY DEF Decoded, Valid
<1> QED
  BY <1>1, FetchExec

\* Without a fault sim-fast computes what Exec does.
LEMMA ImplExec ==
    ASSUME NEW i, NEW f, NEW m, ~Faults(i, f)
    PROVE  ImplRegs(i, f, m) = ExecRegs(i, f, m)
<1>1. i.op = "MULTU" => ImplValue(i, f, m) = MultuHi(f[i.rs], f[i.rt])
  BY DEF ImplValue
<1> QED
  BY <1>1 DEF ImplRegs, ExecRegs

\* The record of sim-fast, and its words.
ArchOK == DOMAIN arch = {"R", "mem", "PC", "sim_num_insn"} /\ StateOK(Seen(arch))

\* sim-fast stands in front of the instruction in mw, and its next iteration is
\* the one that retires it.
LEMMA Retiring ==
    ASSUME Loadable, prog \in Programs, ArchOK, Decoded(prog, mw), MwOK(prog, S0, mw), Proceeds
    PROVE  /\ Valid(mw) /\ LatchExec(mw) /\ StateOK(S1)
           /\ Full(mw) => /\ Current.PC = mw.PC /\ Fetch(prog, Current.PC) = mw.inst
                          /\ Seen(StepOf(prog, Current)) = S1
                          /\ StepOf(prog, Current).mem = S1.mem
<1>1. /\ S0.R = arch.R /\ S0.mem = arch.mem /\ S0.PC = arch.PC /\ arch.PC \in Int
      /\ StateOK(S0)
  BY DEF S0, Seen, ArchOK, StateOK
<1>2. ASSUME Full(mw)
      PROVE  /\ Current.PC = mw.PC /\ Current.R = arch.R /\ Current.mem = arch.mem
             /\ Fetch(prog, Current.PC) = mw.inst
  <2>1. Leads(prog, arch.PC, mw.PC) /\ mw.inst = Fetch(prog, mw.PC) /\ Fetch(prog, mw.PC).op # "NOP"
    BY <1>1, <1>2 DEF MwOK, Decoded, Full, IsNop
  <2> QED
    BY <1>1, <2>1, SkipLeads DEF Current, ArchOK
<1>3. Valid(mw)
  <2>1. CASE Full(mw)
    BY <1>2, <2>1 DEF Proceeds, Valid
  <2>2. CASE ~Full(mw)
    BY <2>2 DEF Full, IsNop, Valid
  <2> QED
    BY <2>1, <2>2
<1>4. LatchExec(mw)
  BY <1>3, DecodedExec
<1>5. StateOK(S1)
  BY <1>1, <1>4, AfterOK DEF S1
<1>6. ASSUME Full(mw) PROVE Seen(StepOf(prog, Current)) = S1 /\ StepOf(prog, Current).mem = S1.mem
  <2> DEFINE f == Cleared(arch.R)
             i == mw.inst
  <2>1. ~Faults(i, f)
    BY <1>2, <1>6 DEF Proceeds, Cleared
  <2>2. StepOf(prog, Current) =
            [R |-> ImplRegs(i, f, arch.mem), mem |-> ImplMem(i, f, arch.mem),
             PC |-> ImplNPC(i, f, mw.PC), sim_num_insn |-> Current.sim_num_insn + 1]
    BY <1>2, <1>6 DEF StepOf, Cleared
  <2>3. S1 = [R |-> ExecRegs(i, f, arch.mem), mem |-> ImplMem(i, f, arch.mem), PC |-> ImplNPC(i, f, mw.PC)]
    BY <1>1, <1>6 DEF S1, After, Exec
  <2>4. ImplRegs(i, f, arch.mem) = ExecRegs(i, f, arch.mem)
    BY <2>1, ImplExec
  <2> HIDE DEF i, f
  <2> QED
    BY <2>2, <2>3, <2>4 DEF Seen
<1> QED
  BY <1>2, <1>3, <1>4, <1>5, <1>6

\* The empty pipeline agrees with sim-fast.
LEMMA InitValues ==
    ASSUME Loadable, TandemInit
    PROVE  Values
<1>1. IsNop(nop) /\ DNA \notin GPRs
  <2>1. IsInst(NAInst)
    BY DEF IsInst, NAInst, Inst
  <2> QED
    BY <2>1, BubbleIs, PisaAssumption DEF nop, DNA
<1>2. /\ fd.inst = nop /\ fd.PC = EntryPC - InstSize /\ de.inst = nop
      /\ em.inst = nop /\ em.dstE = DNA /\ mw.inst = nop /\ mw.dstE = DNA /\ mw.dstM = DNA
      /\ wb.dstE = DNA /\ wb.dstM = DNA /\ ctl.cond = {} /\ ~ctl.stall
      /\ mem = InitData /\ R = [InitRegs EXCEPT ![ZERO] = 0] /\ stage = "control"
  BY DEF TandemInit, Init, sim_init, init_fd, init_de, init_em, init_mw, init_wb
<1>3. /\ DOMAIN arch = {"R", "mem", "PC", "sim_num_insn"}
      /\ arch.R = InitRegs /\ arch.mem = InitData /\ arch.PC = EntryPC
  BY DEF TandemInit, ArchAt
<1>4. StateOK(Seen(arch))
  BY <1>3 DEF Loadable, StateOK, Seen
<1>5. ~Full(mw) /\ ~Full(em) /\ ~Full(de) /\ S1 = S0 /\ S2 = S0 /\ Valid(mw) /\ Valid(em)
  BY <1>1, <1>2 DEF Full, S1, S2, After, Valid, IsNop
<1>6. Written(R, wb, Seen(arch))
  <2>1. Seen(arch).R = InitRegs /\ ZERO \in Regs /\ GPRs \subseteq Regs
    BY <1>3, PisaAssumption DEF Seen, Regs
  <2> QED
    BY <1>1, <1>2, <2>1 DEF Written, Holds, Loadable
<1>7. Older
  <2>1. S0.mem = mem
    BY <1>2, <1>3 DEF S0, Seen
  <2> QED
    BY <1>1, <1>2, <1>5, <2>1 DEF Older, MwOK, EmOK, Holds, Stale, Op
<1>8. Rest(prog, S2, de, fd)
  <2>1. S2.PC = EntryPC /\ EntryPC \in Int
    BY <1>3, <1>5 DEF S0, Seen, Loadable
  <2>2. FdOK(prog, S2.PC, fd)
    <3>1. fd.PC + InstSize = EntryPC
      BY <1>2, <2>1 DEF InstSize
    <3> QED
      BY <1>1, <1>2, <2>1, <3>1, LeadsSelf DEF FdOK
  <2> QED
    BY <1>5, <2>2 DEF Rest, DeOK, DeIs, Operands, After
<1>9. ValuesControl
  BY <1>2, <1>7, <1>8 DEF ValuesControl
<1> QED
  BY <1>2, <1>3, <1>4, <1>6, <1>9 DEF Values

\* What an unchanged sim-fast keeps.
LEMMA ArchSame ==
    ASSUME UNCHANGED arch
    PROVE  /\ (DOMAIN arch)' = DOMAIN arch /\ Seen(arch)' = Seen(arch) /\ S0' = S0
           /\ mw' = mw => S1' = S1
           /\ mw' = mw /\ em' = em => S2' = S2
  BY DEF S0, S1, S2, Seen

LEMMA ControlValues ==
    ASSUME Loadable, Flow, Values, Proceeds, pipeline_control, UNCHANGED <<arch, lost>>
    PROVE  Values'
<1> DEFINE inst == IF 2 \in ctl.cond THEN Bubble(de.inst) ELSE de.inst
<1>0. /\ Shape /\ AtControl /\ ValuesControl /\ stage' = "wb"
      /\ UNCHANGED <<prog, em, mw, wb, R, mem, arch>>
  BY DEF Flow, Values, pipeline_control, Call
<1>a. /\ DeShape(de) /\ IsInst(de.inst) /\ prog \in Programs /\ StateOK(Seen(arch)) /\ ArchOK
  BY <1>0 DEF Shape, DeShape, Values, ArchOK
<1>1. /\ de'.PC = de.PC /\ de'.opcode = de.opcode /\ de'.func = de.func /\ de'.oprand = de.oprand
      /\ de'.srcA = de.srcA /\ de'.srcB = de.srcB /\ de'.target = de.target
      /\ de'.aluA = de.aluA /\ de'.aluB = de.aluB /\ de'.valA = de.valA
      /\ de'.inst = IF ctl.stall THEN Bubble(inst) ELSE inst
  BY <1>a DEF pipeline_control, DeShape, DeFields
<1>2. /\ ctl.stall => fd'.inst = inst /\ fd'.PC = de.PC
      /\ ~ctl.stall => fd' = fd
  BY DEF pipeline_control
<1>3. /\ ctl.stall => ctl.cond = {} /\ inst = de.inst /\ Full(de)
      /\ 2 \in ctl.cond => IsNop(inst)
      /\ 2 \notin ctl.cond => inst = de.inst
      /\ ctl.stall => IsNop(de'.inst)
      /\ ~ctl.stall => de'.inst = inst
  BY <1>0, <1>1, <1>a, BubbleIs DEF AtControl, Issued
<1> HIDE DEF inst
<1>4. Older /\ Older' /\ S2' = S2
  BY <1>0, ArchSame DEF ValuesControl, Older
<1>5. ASSUME Valid(em) PROVE Rest(prog, S2, de', fd')
  <2>0. S2.PC \in Int
    <3>1. StateOK(S1)
      BY <1>a, <1>0, <1>4, Retiring DEF AtControl, Older
    <3>2. StateOK(S2)
      BY <1>0, <1>a, <1>5, <3>1, AfterOK, DecodedExec DEF S2, AtControl
    <3> QED
      BY <3>2 DEF StateOK
  <2>1. CASE ctl.stall
    <3>1. ~Full(de') /\ ~IsNop(fd'.inst) /\ Leads(prog, S2.PC, de.PC)
      BY <2>1, <1>0, <1>2, <1>3, <1>5 DEF ValuesControl, Full
    <3>2. FdOK(prog, S2.PC, fd')
      BY <2>1, <1>2, <3>1 DEF FdOK
    <3> QED
      BY <3>1, <3>2 DEF Rest, DeOK, DeIs, Operands, After
  <2>2. CASE ~ctl.stall /\ 2 \in ctl.cond
    <3>1. ~Full(de') /\ fd' = fd /\ fd.PC = S2.PC /\ fd.inst = Fetch(prog, fd.PC)
      BY <2>2, <1>0, <1>2, <1>3, <1>5 DEF ValuesControl, Full
    <3>2. FdOK(prog, S2.PC, fd')
      BY <2>0, <3>1, LeadsSelf, LeadsNop DEF FdOK, IsNop
    <3> QED
      BY <3>1, <3>2 DEF Rest, DeOK, DeIs, Operands, After
  <2>3. CASE ~ctl.stall /\ 2 \notin ctl.cond
    <3>1. de'.inst = de.inst /\ fd' = fd /\ Rest(prog, S2, de, fd)
      BY <2>3, <1>0, <1>2, <1>3, <1>5 DEF ValuesControl
    <3>2. After(S2, de') = After(S2, de)
      BY <1>1, <3>1 DEF After, Full
    <3>3. DeOK(prog, S2, de')
      BY <1>1, <3>1 DEF Rest, DeOK, DeIs, Operands, Full
    <3> QED
      BY <3>1, <3>2, <3>3 DEF Rest, Valid, Op, Full
  <2> QED
    BY <2>1, <2>2, <2>3
<1>6. ValuesWb'
  BY <1>0, <1>4, <1>5 DEF ValuesWb
<1> QED
  BY <1>0, <1>6, ArchSame DEF Values

\* WB writes what sim-fast does.
Agrees(f, s) == f[ZERO] = 0 /\ \A r \in GPRs \ {ZERO} : f[r] = s.R[r]

LEMMA WrittenIs ==
    ASSUME NEW f, RShape(f), NEW d \in RegOrNone, NEW v, NEW e \in RegOrNone, NEW u, NEW s, NEW t,
           Agrees(f, s), Holds(d, v, t), Holds(e, u, t),
           \A r \in GPRs \ {ZERO} : r \notin {d, e} => t.R[r] = s.R[r]
    PROVE  Agrees(SetGPR(SetGPR(f, d, v), e, u), t)
<1> DEFINE h == SetGPR(f, d, v)
           g == SetGPR(h, e, u)
<1>1. GPRs \subseteq Regs /\ ZERO \in GPRs /\ DNA \notin GPRs
  BY PisaAssumption DEF Regs, DNA
<1>2. RShape(h) /\ \A r \in GPRs : h[r] = IF r = d THEN v ELSE f[r]
  BY <1>1, SetGPRShape DEF SetGPR, RShape
<1> HIDE DEF h
<1>3. \A r \in GPRs : g[r] = IF r = e THEN u ELSE h[r]
  BY <1>1, <1>2 DEF SetGPR, RShape
<1> HIDE DEF g
<1>4. ASSUME NEW r \in GPRs \ {ZERO} PROVE g[r] = t.R[r]
  BY <1>2, <1>3, <1>4 DEF Holds, Agrees
<1>5. g[ZERO] = 0
  BY <1>1, <1>2, <1>3 DEF Holds, Agrees
<1> QED
  BY <1>4, <1>5 DEF g, h, Agrees

\* Where the instruction in mw leaves its result.
LEMMA MwFrame ==
    ASSUME Loadable, prog \in Programs, ArchOK, Decoded(prog, mw), LatchExec(mw), Valid(mw)
    PROVE  \A r \in GPRs \ {ZERO} : Full(mw) /\ r \notin {mw.dstM, mw.dstE} => S1.R[r] = S0.R[r]
<1> SUFFICES ASSUME NEW r \in GPRs \ {ZERO}, Full(mw), r \notin {mw.dstM, mw.dstE} PROVE S1.R[r] = S0.R[r]
  OBVIOUS
<1>1. Oprand(mw.inst).out1 \in {mw.dstM, mw.dstE}
  BY DEF Decoded, Valid
<1>2. StateOK(S0)
  BY DEF ArchOK, S0
<1>3. Executable(mw.inst) /\ mw.PC \in Int
  BY DEF LatchExec
<1> QED
  BY <1>1, <1>2, <1>3, ExecIs DEF S1, After

LEMMA WbValues ==
    ASSUME Loadable, Flow, Values, Proceeds, do_wb, Retire
    PROVE  Values'
<1>0. /\ Shape /\ AtWb /\ ValuesWb /\ stage' = "mem" /\ ArchOK /\ Written(R, wb, S0) /\ prog \in Programs
      /\ UNCHANGED <<prog, fd, de, em, mw, ctl, mem>>
  BY DEF Flow, Values, do_wb, Call, ArchOK, Shape, S0
<1>1. /\ MwOK(prog, S0, mw) /\ EmOK(prog, S1, em) /\ mem = S1.mem /\ Stale(mw, em) /\ Decoded(prog, mw)
      /\ (Valid(em) => Rest(prog, S2, de, fd))
  BY <1>0 DEF ValuesWb, Older, AtWb
<1>2. /\ Valid(mw) /\ LatchExec(mw) /\ StateOK(S1)
      /\ Full(mw) => Seen(StepOf(prog, Current)) = S1
  BY <1>0, <1>1, Retiring
<1>3. CASE IsNop(mw.inst)
  <2>1. arch' = arch /\ R' = R /\ wb' = [wb EXCEPT !.inst = mw.inst] /\ ~Full(mw)
    BY <1>3 DEF Retire, Retires, do_wb, Full
  <2>2. wb'.dstE = wb.dstE /\ wb'.dstM = wb.dstM /\ wb'.valE = wb.valE /\ wb'.valM = wb.valM
    BY <2>1, <1>0 DEF Shape, WbShape, WbFields
  <2>3. S0' = S0 /\ S1 = S0 /\ S0.mem = arch.mem
    BY <2>1, ArchSame DEF S1, After, S0, Seen
  <2>4. Written(R', wb', S0')
    BY <1>0, <2>1, <2>2, <2>3 DEF Written
  <2>5. Holds(mw.dstE, mw.valE, S0) /\ Holds(mw.dstM, mw.valM, S0)
    BY <1>1, <1>2, <2>1 DEF MwOK, Valid, After
  <2>6. ValuesMem'
    BY <1>0, <1>1, <2>1, <2>3, <2>5 DEF ValuesMem, S2
  <2> QED
    BY <1>0, <2>1, <2>3, <2>4, <2>6 DEF Values, S0, ArchOK
<1>4. CASE ~IsNop(mw.inst)
  <2>1. Full(mw) /\ arch' = StepOf(prog, Current) /\ R' = WrittenBack /\ LatchWb
    BY <1>4 DEF Retire, Retires, do_wb, Full
  <2>2. S0' = S1 /\ Seen(arch)' = S1 /\ (DOMAIN arch)' = {"R", "mem", "PC", "sim_num_insn"}
    BY <1>2, <2>1 DEF S0, StepOf
  <2>3. S0'.mem = arch'.mem
    BY DEF S0, Seen
  <2>4. Holds(mw.dstE, mw.valE, S1) /\ Holds(mw.dstM, mw.valM, S1)
    BY <1>1, <1>2 DEF MwOK, Valid, S1
  <2>5. /\ wb'.dstE = mw.dstE /\ wb'.dstM = mw.dstM /\ wb'.valE = mw.valE /\ wb'.valM = mw.valM
    BY <2>1 DEF LatchWb
  <2>6. RShape(R) /\ mw.dstM \in RegOrNone /\ mw.dstE \in RegOrNone
    BY <1>0 DEF Shape, MwShape
  <2>7. Agrees(R', S1)
    <3>1. \A r \in GPRs \ {ZERO} : r \notin {mw.dstM, mw.dstE} => S1.R[r] = S0.R[r]
      BY <1>0, <1>1, <1>2, <2>1, MwFrame
    <3>2. Agrees(R, S0)
      BY <1>0 DEF Written, Agrees
    <3>3. Agrees(SetGPR(SetGPR(R, mw.dstM, mw.valM), mw.dstE, mw.valE), S1)
      BY <2>4, <2>6, <3>1, <3>2, WrittenIs
    <3> QED
      BY <2>1, <3>3 DEF WrittenBack
  <2>8. Written(R', wb', S1)
    BY <2>4, <2>5, <2>7 DEF Written, Agrees
  <2>9. ValuesMem'
    BY <1>0, <1>1, <2>2, <2>3, <2>4 DEF ValuesMem, S2
  <2> QED
    BY <1>0, <1>2, <2>2, <2>8, <2>9 DEF Values
<1> QED
  BY <1>3, <1>4

\* States that a system call may still tell apart: all but its results agree.
Same(s, t) == s.mem = t.mem /\ s.PC = t.PC /\ \A r \in GPRs \ {ZERO, V0, A3} : s.R[r] = t.R[r]

LEMMA SameSource ==
    ASSUME NEW s, StateOK(s), NEW t, StateOK(t), Same(s, t), NEW r \in GPRs \ {V0, A3}
    PROVE  Cleared(s.R)[r] = Cleared(t.R)[r]
<1>1. /\ Cleared(s.R)[ZERO] = 0 /\ Cleared(t.R)[ZERO] = 0
      /\ \A q \in GPRs \ {ZERO} : Cleared(s.R)[q] = s.R[q] /\ Cleared(t.R)[q] = t.R[q]
  BY ClearedIs DEF StateOK
<1> QED
  BY <1>1 DEF Same

\* An instruction that does not read the results computes the same.
LEMMA SameExec ==
    ASSUME NEW s, StateOK(s), NEW t, StateOK(t), Same(s, t),
           NEW i, Executable(i), ~ReadsResult(i), NEW pc \in Int
    PROVE  /\ Same(Exec(s, i, pc), Exec(t, i, pc))
           /\ Oprand(i).out1 \in GPRs => Exec(s, i, pc).R[Oprand(i).out1] = Exec(t, i, pc).R[Oprand(i).out1]
           /\ i.op \in {"LW", "SW"} => Cleared(s.R)[i.rs] = Cleared(t.R)[i.rs]
           /\ i.op = "SW" => Cleared(s.R)[i.rt] = Cleared(t.R)[i.rt]
<1> DEFINE f == Cleared(s.R)
           g == Cleared(t.R)
           dst == Oprand(i).out1
<1>1. Numbers(i) /\ Kinds(i) /\ i.op \in Ops
  BY OprandIs
<1>2. \A r \in GPRs \ {V0, A3} : f[r] = g[r]
  BY SameSource
<1>3. s.mem = t.mem
  BY DEF Same
<1>4. Oprand(i).in1 \notin {V0, A3} /\ Oprand(i).in2 \notin {V0, A3}
  BY DEF ReadsResult
<1>5. /\ i.op \in RType \cup IType \cup Branches \cup {"LW", "SW", "MULTU"} => f[i.rs] = g[i.rs]
      /\ i.op \in RType \cup Branches \cup {"SW", "SLL", "MULTU"} => f[i.rt] = g[i.rt]
  BY <1>1, <1>2, <1>4 DEF Kinds, Numbers
<1> HIDE DEF f, g, dst
<1>6. dst \in GPRs => ImplValue(i, f, s.mem) = ImplValue(i, g, t.mem)
  <2> SUFFICES ASSUME dst \in GPRs PROVE ImplValue(i, f, s.mem) = ImplValue(i, g, t.mem)
    OBVIOUS
  <2>1. i.op \in {"ADD", "ADDU", "ADDI", "ADDIU", "ANDI", "SLTI", "SLL", "LW"}
    <3>1. DNA \notin GPRs /\ DHI \notin GPRs
      BY PisaAssumption DEF DNA, DHI
    <3> QED
      BY <1>1, <3>1 DEF Kinds, Ops, Branches, dst
  <2>2. CASE i.op \in {"ADD", "ADDU"}
    BY <1>5, <2>2 DEF ImplValue, RType
  <2>3. CASE i.op \in {"ADDI", "ADDIU"}
    BY <1>5, <2>3 DEF ImplValue, IType
  <2>4. CASE i.op = "ANDI"
    BY <1>5, <2>4 DEF ImplValue, IType
  <2>5. CASE i.op = "SLTI"
    BY <1>5, <2>5 DEF ImplValue, IType
  <2>6. CASE i.op = "SLL"
    BY <1>5, <2>6 DEF ImplValue
  <2>7. CASE i.op = "LW"
    BY <1>3, <1>5, <2>7 DEF ImplValue
  <2> QED
    BY <2>1, <2>2, <2>3, <2>4, <2>5, <2>6, <2>7
<1>7. ImplMem(i, f, s.mem) = ImplMem(i, g, t.mem)
  BY <1>3, <1>5 DEF ImplMem
<1>8. ImplNPC(i, f, pc) = ImplNPC(i, g, pc)
  BY <1>5 DEF ImplNPC, Branches
<1>9. /\ \A r \in GPRs \ {ZERO} : r # dst => Exec(s, i, pc).R[r] = s.R[r]
      /\ dst \in GPRs => Exec(s, i, pc).R[dst] = ImplValue(i, f, s.mem)
      /\ Exec(s, i, pc).mem = ImplMem(i, f, s.mem) /\ Exec(s, i, pc).PC = ImplNPC(i, f, pc)
  BY ExecIs DEF f, dst
<1>10. /\ \A r \in GPRs \ {ZERO} : r # dst => Exec(t, i, pc).R[r] = t.R[r]
       /\ dst \in GPRs => Exec(t, i, pc).R[dst] = ImplValue(i, g, t.mem)
       /\ Exec(t, i, pc).mem = ImplMem(i, g, t.mem) /\ Exec(t, i, pc).PC = ImplNPC(i, g, pc)
  BY ExecIs DEF g, dst
<1>11. dst \in GPRs => Exec(s, i, pc).R[dst] = Exec(t, i, pc).R[dst]
  BY <1>6, <1>9, <1>10
<1>12. Same(Exec(s, i, pc), Exec(t, i, pc))
  BY <1>7, <1>8, <1>9, <1>10, <1>11 DEF Same
<1> QED
  BY <1>5, <1>11, <1>12 DEF f, g, dst

\* Neither of the two instructions that have left ID reads the results of the
\* system call in mw.
LEMMA UnreadBehind ==
    ASSUME Loadable, Shape, AtWb, Op(mw, {"SYSCALL"})
    PROVE  /\ Full(em) => ~ReadsResult(em.inst)
           /\ Full(de) => ~ReadsResult(de.inst)
<1> DEFINE pc == mw.PC
           next == Fetch(prog, pc + InstSize)
<1>1. mw.inst = Fetch(prog, pc) /\ mw.inst.op = "SYSCALL" /\ pc \in Int /\ Full(mw)
  BY DEF AtWb, Decoded, Op, Shape, MwShape
<1>2. pc \in DOMAIN prog /\ prog[pc].op = "SYSCALL"
  BY <1>1 DEF Fetch, NAInst, Inst
<1>3. Unread(prog)
  BY DEF Shape, Loadable, Supported
<1>4. /\ ~ReadsResult(next) /\ ~ReadsResult(Fetch(prog, pc + 2 * InstSize))
      /\ next.op = "JUMP" => ~ReadsResult(Fetch(prog, 4 * UIMM(next)))
  BY <1>2, <1>3 DEF Unread
<1>5. Full(em) => em.inst = Fetch(prog, em.PC) /\ em.PC = pc + InstSize /\ de.PC = Follow(em)
  BY <1>1 DEF AtWb, Decoded, Behind, Follow
<1>6. ~Full(em) => de.PC \in {pc + InstSize, pc + 2 * InstSize}
  BY <1>1 DEF AtWb, Behind, Near, Op, Branches
<1>7. Full(de) => de.inst = Fetch(prog, de.PC)
  BY DEF AtWb, Ready, Decoded
<1>8. CASE Full(em)
  <2>1. em.inst = next /\ de.PC = IF next.op = "JUMP" THEN 4 * UIMM(next) ELSE pc + 2 * InstSize
    BY <1>1, <1>5, <1>8 DEF Follow, InstSize
  <2> HIDE DEF next, pc
  <2> QED
    BY <1>4, <1>7, <2>1
<1>9. CASE ~Full(em)
  BY <1>4, <1>6, <1>7, <1>9
<1> QED
  BY <1>8, <1>9

\* The latches behind a system call do not depend on its results.
LEMMA SameEm ==
    ASSUME NEW s, StateOK(s), NEW t, StateOK(t), Same(s, t), NEW p, NEW e,
           Valid(e) => LatchExec(e), Decoded(p, e), Full(e) => ~ReadsResult(e.inst),
           ~Full(e) => e.dstE = DNA, EmOK(p, s, e)
    PROVE  EmOK(p, t, e)
<1>0. DNA \notin GPRs
  BY PisaAssumption DEF DNA
<1>1. Full(e) => Leads(p, t.PC, e.PC)
  BY DEF EmOK, Same
<1>2. CASE ~Full(e)
  BY <1>0, <1>1, <1>2 DEF EmOK, Op, Holds
<1>3. CASE ~Valid(e)
  BY <1>1, <1>3 DEF EmOK, Op, Valid, Branches
<1>4. CASE Full(e) /\ Valid(e)
  <2>1. Executable(e.inst) /\ e.PC \in Int /\ ~ReadsResult(e.inst)
    BY <1>4 DEF LatchExec
  <2>2. /\ Oprand(e.inst).out1 \in GPRs =>
              After(s, e).R[Oprand(e.inst).out1] = After(t, e).R[Oprand(e.inst).out1]
        /\ e.inst.op \in {"LW", "SW"} => Cleared(s.R)[e.inst.rs] = Cleared(t.R)[e.inst.rs]
        /\ e.inst.op = "SW" => Cleared(s.R)[e.inst.rt] = Cleared(t.R)[e.inst.rt]
    BY <1>4, <2>1, SameExec DEF After
  <2>3. e.dstE \in {DNA, Oprand(e.inst).out1}
    BY <1>4 DEF Decoded, Valid
  <2>4. Holds(e.dstE, e.valE, After(t, e))
    BY <1>0, <1>4, <2>2, <2>3 DEF EmOK, Holds, Valid
  <2> QED
    BY <1>1, <1>4, <2>2, <2>4 DEF EmOK, Op
<1> QED
  BY <1>2, <1>3, <1>4

LEMMA SameAfter ==
    ASSUME NEW s, StateOK(s), NEW t, StateOK(t), Same(s, t), NEW e,
           LatchExec(e), Full(e) => ~ReadsResult(e.inst)
    PROVE  Same(After(s, e), After(t, e)) /\ StateOK(After(s, e)) /\ StateOK(After(t, e))
<1>1. StateOK(After(s, e)) /\ StateOK(After(t, e))
  BY AfterOK
<1>2. CASE Full(e)
  BY <1>1, <1>2, SameExec DEF After, LatchExec
<1>3. CASE ~Full(e)
  BY <1>1, <1>3 DEF After
<1> QED
  BY <1>2, <1>3

LEMMA SameRest ==
    ASSUME NEW s, StateOK(s), NEW t, StateOK(t), Same(s, t), NEW p, NEW d, NEW f,
           Valid(d) => LatchExec(d), Full(d) => ~ReadsResult(d.inst), Rest(p, s, d, f)
    PROVE  Rest(p, t, d, f)
<1>1. Full(d) => Leads(p, t.PC, d.PC)
  BY DEF Rest, DeOK, Same
<1>2. Operands(t, d)
  <2> SUFFICES ASSUME Full(d), d.inst.op # "NA"
               PROVE  /\ d.aluA = Source(t, d.srcA) /\ d.aluB = Source(t, d.srcB)
                      /\ d.valA = Source(t, d.oprand.in1)
    BY DEF Operands
  <2>1. Executable(d.inst)
    BY DEF Valid, LatchExec
  <2>2. Numbers(d.inst)
    BY <2>1, OprandIs
  <2>3. /\ {Oprand(d.inst).in1, Oprand(d.inst).in2} \subseteq (GPRs \ {V0, A3}) \cup {DNA}
    BY <2>2 DEF Numbers, ReadsResult
  <2>4. {d.srcA, d.srcB, d.oprand.in1} \subseteq {Oprand(d.inst).in1, Oprand(d.inst).in2}
    BY DEF Rest, DeOK, DeIs
  <2>5. \A r \in (GPRs \ {V0, A3}) \cup {DNA} : Source(s, r) = Source(t, r)
    BY SameSource DEF Source
  <2>6. /\ d.aluA = Source(s, d.srcA) /\ d.aluB = Source(s, d.srcB) /\ d.valA = Source(s, d.oprand.in1)
    BY DEF Rest, DeOK, Operands
  <2> QED
    BY <2>3, <2>4, <2>5, <2>6
<1>3. ASSUME Valid(d), ~Op(d, Branches) PROVE After(t, d).PC = After(s, d).PC
  <2>1. CASE Full(d)
    <3>1. \A x : Exec(x, d.inst, d.PC).PC = ImplNPC(d.inst, Cleared(x.R), d.PC)
      BY DEF Exec
    <3>2. d.inst.op \notin Branches
      BY <1>3, <2>1 DEF Op
    <3>3. \A g : ImplNPC(d.inst, g, d.PC) = IF d.inst.op = "JUMP" THEN 4 * UIMM(d.inst) ELSE d.PC + InstSize
      BY <3>2 DEF ImplNPC, Branches
    <3> QED
      BY <2>1, <3>1, <3>3 DEF After
  <2>2. CASE ~Full(d)
    BY <2>2 DEF After, Same
  <2> QED
    BY <2>1, <2>2
<1> QED
  BY <1>1, <1>2, <1>3 DEF Rest, DeOK

\* A system call that returns.
LEMMA SyscallValues ==
    ASSUME Loadable, Flow, Values, Proceeds, NEW r \in SysReturns,
           do_wb_syscall(r), arch' = SysStepOf(prog, Current, r)
    PROVE  Values'
<1>0. /\ Shape /\ AtWb /\ ValuesWb /\ stage' = "mem" /\ ArchOK /\ Written(R, wb, S0) /\ prog \in Programs
      /\ mw.inst.op = "SYSCALL" /\ LatchWb /\ R' = SysReturn(WrittenBack, r)
      /\ UNCHANGED <<prog, fd, de, em, mw, ctl, mem>>
  BY DEF Flow, Values, do_wb_syscall, Call, ArchOK, Shape, S0
<1>1. /\ MwOK(prog, S0, mw) /\ EmOK(prog, S1, em) /\ mem = S1.mem /\ Stale(mw, em)
      /\ Decoded(prog, mw) /\ Decoded(prog, em) /\ Decoded(prog, de)
      /\ (Valid(em) => Rest(prog, S2, de, fd))
  BY <1>0 DEF ValuesWb, Older, AtWb, Ready
<1>2. Full(mw) /\ Op(mw, {"SYSCALL"})
  BY <1>0 DEF Full, IsNop, Op
<1>3. /\ Valid(mw) /\ LatchExec(mw) /\ StateOK(S1)
      /\ Seen(StepOf(prog, Current)) = S1
  BY <1>0, <1>1, <1>2, Retiring
<1>4. mw.dstE = DNA /\ mw.dstM = DNA /\ DNA \notin GPRs
  <2>1. Oprand(mw.inst).out1 = DNA
    BY <1>0, <1>2, <1>3, OprandIs DEF Kinds, LatchExec
  <2> QED
    BY <1>0, <1>1, <1>2, <2>1, PisaAssumption DEF Decoded, DNA
<1>5. WrittenBack = R /\ RShape(R)
  BY <1>0, <1>4 DEF WrittenBack, SetGPR, Shape
<1> DEFINE q == StepOf(prog, Current)
<1>6. /\ arch'.R = SysReturn(S1.R, r) /\ arch'.mem = S1.mem /\ arch'.PC = S1.PC
      /\ (DOMAIN arch)' = {"R", "mem", "PC", "sim_num_insn"}
  <2>1. arch' = [q EXCEPT !.R = SysReturn(@, r)]
    BY DEF SysStepOf
  <2>2. DOMAIN q = {"R", "mem", "PC", "sim_num_insn"}
    BY DEF StepOf
  <2>3. q.R = S1.R /\ q.mem = S1.mem /\ q.PC = S1.PC
    BY <1>3 DEF Seen
  <2> HIDE DEF q
  <2> QED
    BY <2>1, <2>2, <2>3
<1>7. /\ S0'.R = SysReturn(S1.R, r) /\ S0'.mem = S1.mem /\ S0'.PC = S1.PC /\ S0'.mem = arch'.mem
      /\ Seen(arch)' = S0'
  BY <1>6 DEF S0, Seen
<1>8. StateOK(S0') /\ Same(S1, S0')
  <2>1. r.v0 \in Words /\ r.a3 \in Words
    BY DEF Loadable
  <2>2. S1.R \in [Regs -> Words] /\ GPRs \subseteq Regs
    BY <1>3 DEF StateOK, Regs
  <2>3. S0'.R \in [Regs -> Words] /\ \A g \in GPRs \ {ZERO, V0, A3} : S0'.R[g] = S1.R[g]
    BY <1>7, <2>1, <2>2 DEF SysReturn
  <2> QED
    BY <1>3, <1>7, <2>3 DEF StateOK, Same
<1>9. Written(R', wb', S0')
  <2>1. wb'.dstE = DNA /\ wb'.dstM = DNA
    BY <1>0, <1>4 DEF LatchWb
  <2>2. \A g \in GPRs \ {ZERO} : S1.R[g] = S0.R[g] /\ R[g] = S0.R[g]
    BY <1>0, <1>1, <1>2, <1>3, <1>4, MwFrame DEF Written
  <2>3. V0 # ZERO /\ A3 # ZERO /\ ZERO \in GPRs /\ GPRs \subseteq Regs /\ R[ZERO] = 0
    BY <1>0, PisaAssumption DEF V0, A3, ZERO, Regs, Written
  <2>4. R' = [R EXCEPT ![V0] = r.v0, ![A3] = r.a3] /\ S0'.R = [S1.R EXCEPT ![V0] = r.v0, ![A3] = r.a3]
    BY <1>0, <1>5, <1>7 DEF SysReturn
  <2>5. DOMAIN R = Regs /\ DOMAIN S1.R = Regs
    BY <1>3, <1>5 DEF RShape, StateOK
  <2>6. R'[ZERO] = 0 /\ \A g \in GPRs \ {ZERO} : R'[g] = S0'.R[g]
    <3> HIDE DEF q
    <3> QED
      BY <2>2, <2>3, <2>4, <2>5
  <2> QED
    BY <1>4, <2>1, <2>6 DEF Written, Holds
<1>10. /\ Full(em) => ~ReadsResult(em.inst)
       /\ Full(de) => ~ReadsResult(de.inst)
       /\ Valid(em) => LatchExec(em)
       /\ Valid(de) => LatchExec(de)
  BY <1>0, <1>1, <1>2, UnreadBehind, DecodedExec
<1>11. EmOK(prog, S0', em)
  <2>1. ~Full(em) => em.dstE = DNA
    BY <1>1, <1>2, <1>4 DEF Stale
  <2> QED
    BY <1>1, <1>3, <1>8, <1>10, <2>1, SameEm
<1>12. ASSUME Valid(em) PROVE Rest(prog, After(S0', em), de, fd)
  <2>1. Same(S2, After(S0', em)) /\ StateOK(S2) /\ StateOK(After(S0', em))
    BY <1>3, <1>8, <1>10, <1>12, SameAfter DEF S2
  <2>2. Rest(prog, S2, de, fd)
    BY <1>1, <1>12
  <2> QED
    BY <1>10, <2>1, <2>2, SameRest
<1>13. ValuesMem'
  BY <1>0, <1>1, <1>4, <1>7, <1>11, <1>12 DEF ValuesMem, Holds
<1> QED
  BY <1>0, <1>6, <1>7, <1>8, <1>9, <1>13 DEF Values

\* The exit call.
LEMMA ExitValues ==
    ASSUME Loadable, Flow, Values, Proceeds, do_wb_exit, UNCHANGED <<arch, lost>>
    PROVE  Values'
<1>0. /\ Shape /\ AtWb /\ ValuesWb /\ stage' = "exited" /\ ArchOK /\ Written(R, wb, S0) /\ prog \in Programs
      /\ mw.inst.op = "SYSCALL" /\ LatchWb /\ R' = WrittenBack /\ mem' = mem /\ arch' = arch
  BY DEF Flow, Values, do_wb_exit, Call, ArchOK, Shape, S0
<1>1. MwOK(prog, S0, mw) /\ mem = S1.mem /\ Decoded(prog, mw)
  BY <1>0 DEF ValuesWb, Older, AtWb
<1>2. Full(mw)
  BY <1>0 DEF Full, IsNop
<1>3. LatchExec(mw)
  BY <1>0, <1>1, Retiring
<1>4. mw.dstE = DNA /\ mw.dstM = DNA /\ DNA \notin GPRs
  <2>1. Oprand(mw.inst).out1 = DNA
    BY <1>0, <1>2, <1>3, OprandIs DEF Kinds, LatchExec
  <2> QED
    BY <1>0, <1>1, <1>2, <2>1, PisaAssumption DEF Decoded, DNA
<1>5. R' = R
  BY <1>0, <1>4 DEF WrittenBack, SetGPR
<1>6. mem = arch.mem
  <2>1. S1.mem = ImplMem(mw.inst, Cleared(S0.R), S0.mem)
    BY <1>2 DEF S1, After, Exec
  <2> QED
    BY <1>0, <1>1, <2>1 DEF ImplMem, S0, Seen
<1>7. Written(R', wb', S0)
  <2>1. wb'.dstE = DNA /\ wb'.dstM = DNA
    BY <1>0, <1>4 DEF LatchWb
  <2> QED
    BY <1>0, <1>4, <1>5, <2>1 DEF Written, Holds
<1> QED
  BY <1>0, <1>6, <1>7, ArchSame DEF Values, ArchOK, S0

\* sim-fast proceeds, so the next instruction of the text is no zero word.
LEMMA NextValid ==
    ASSUME Loadable, prog \in Programs, ArchOK, Proceeds,
           NEW l, Decoded(prog, l), Full(l) => Leads(prog, S0.PC, l.PC)
    PROVE  Valid(l)
<1>1. CASE Full(l)
  <2>1. Leads(prog, arch.PC, l.PC) /\ l.inst = Fetch(prog, l.PC) /\ Fetch(prog, l.PC).op # "NOP"
    BY <1>1 DEF Decoded, Full, IsNop, S0, Seen
  <2>2. arch.PC \in Int
    BY DEF ArchOK, StateOK, Seen
  <2>3. Fetch(prog, Current.PC) = l.inst
    BY <2>1, <2>2, SkipLeads DEF Current, ArchOK
  <2> QED
    BY <2>3 DEF Proceeds, Valid
<1>2. CASE ~Full(l)
  BY <1>2 DEF Full, IsNop, Valid
<1> QED
  BY <1>1, <1>2

\* MEM reads and writes the memory of sim-fast.
LEMMA MemValues ==
    ASSUME Loadable, Flow, Values, Proceeds, do_mem, UNCHANGED <<arch, lost>>
    PROVE  Values'
<1> DEFINE load == ~IsNop(em.inst) /\ "load" \in em.rw
           store == ~IsNop(em.inst) /\ "store" \in em.rw /\ ~load
           T == After(S0, em)
<1>0. /\ Shape /\ AtMem /\ ValuesMem /\ stage' = "ex" /\ ArchOK /\ Written(R, wb, S0) /\ prog \in Programs
      /\ UNCHANGED <<prog, fd, de, em, wb, R, arch>>
  BY DEF Flow, Values, do_mem, Call, ArchOK, Shape, S0
<1>1. /\ EmOK(prog, S0, em) /\ mem = arch.mem /\ (Valid(em) => Rest(prog, T, de, fd))
      /\ Holds(mw.dstE, mw.valE, S0) /\ Holds(mw.dstM, mw.valM, S0) /\ Decoded(prog, em)
  BY <1>0 DEF ValuesMem, AtMem
<1>2. /\ mw'.inst = em.inst
      /\ IsNop(em.inst) => /\ mw'.dstE = mw.dstE /\ mw'.dstM = mw.dstM
                           /\ mw'.valE = mw.valE /\ mw'.valM = mw.valM
      /\ ~IsNop(em.inst) => /\ mw'.PC = em.PC /\ mw'.dstE = em.dstE /\ mw'.dstM = em.dstM
                            /\ mw'.valE = em.valE
                            /\ load => mw'.valM = ReadWord(mem, em.valE)
      /\ mem' = IF store THEN WriteWord(mem, em.valE, em.valA) ELSE mem
  <2>1. CASE IsNop(em.inst)
    <3>1. mw' = [mw EXCEPT !.inst = em.inst] /\ mem' = mem
      BY <2>1 DEF do_mem
    <3> QED
      BY <2>1, <3>1, <1>0 DEF MwShape, MwFields, Shape
  <2>2. CASE ~IsNop(em.inst)
    <3>1. /\ mw' = [inst |-> em.inst, PC |-> em.PC, valE |-> em.valE,
                    valM |-> IF load THEN ReadWord(mem, em.valE) ELSE mw.valM,
                    dstE |-> em.dstE, dstM |-> em.dstM, rw |-> em.rw]
          /\ mem' = IF store THEN WriteWord(mem, em.valE, em.valA) ELSE mem
      BY <2>2 DEF do_mem
    <3> QED
      BY <2>2, <3>1
  <2> QED
    BY <2>1, <2>2
<1>3. S0' = S0 /\ S1' = T /\ Seen(arch)' = Seen(arch) /\ (DOMAIN arch)' = DOMAIN arch
  <2>1. After(S0, mw') = T
    BY <1>2 DEF After, Full
  <2> QED
    BY <1>0, <2>1, ArchSame DEF S1
<1>4. StateOK(S0) /\ S0.mem = mem /\ DNA \notin GPRs
  BY <1>0, <1>1, PisaAssumption DEF ArchOK, S0, Seen, DNA
<1>5. Valid(em) => LatchExec(em)
  BY <1>0, <1>1, DecodedExec
<1> HIDE DEF T
<1>6. MwOK(prog, S0, mw')
  <2>1. CASE IsNop(em.inst)
    BY <1>1, <1>2, <2>1 DEF MwOK, After, Full
  <2>2. CASE ~IsNop(em.inst)
    <3>1. Full(em) /\ Full(mw') /\ Leads(prog, S0.PC, mw'.PC)
      BY <1>1, <1>2, <2>2 DEF EmOK, Full
    <3>2. ASSUME em.inst.op # "NA"
          PROVE  Holds(mw'.dstE, mw'.valE, T) /\ Holds(mw'.dstM, mw'.valM, T)
      <4>1. Executable(em.inst) /\ em.PC \in Int /\ Valid(em)
        BY <1>5, <3>1, <3>2 DEF LatchExec, Valid
      <4>2. Holds(mw'.dstE, mw'.valE, T)
        BY <1>1, <1>2, <2>2, <3>2 DEF EmOK, T
      <4>3. CASE em.inst.op = "LW"
        <5>1. mw'.dstM = em.inst.rt /\ Oprand(em.inst).out1 = em.inst.rt /\ "load" \in em.rw
          BY <1>1, <1>2, <2>2, <3>1, <4>1, <4>3, OprandIs DEF Decoded, Kinds
        <5>2. mw'.valM = ReadWord(S0.mem, Wrap(Cleared(S0.R)[em.inst.rs] + IMM(em.inst)))
          BY <1>1, <1>2, <1>4, <2>2, <3>1, <4>3, <5>1 DEF EmOK, Op
        <5>3. mw'.valM = ImplValue(em.inst, Cleared(S0.R), S0.mem)
          BY <4>3, <5>2 DEF ImplValue
        <5>4. Numbers(em.inst)
          BY <4>1, OprandIs
        <5>5. T.R[em.inst.rt] = ImplValue(em.inst, Cleared(S0.R), S0.mem) /\ em.inst.rt # ZERO
          <6>1. Oprand(em.inst).out1 \in GPRs /\ em.inst.rt # ZERO
            BY <4>1, <5>1, <5>4 DEF Numbers, Executable
          <6>2. T = Exec(S0, em.inst, em.PC)
            BY <3>1 DEF T, After
          <6>3. T.R[Oprand(em.inst).out1] = ImplValue(em.inst, Cleared(S0.R), S0.mem)
            BY <1>4, <4>1, <6>1, <6>2, ExecIs
          <6> QED
            BY <5>1, <6>1, <6>3
        <5> QED
          BY <4>2, <5>1, <5>3, <5>5 DEF Holds
      <4>4. CASE em.inst.op # "LW"
        <5>1. mw'.dstM = DNA
          BY <1>1, <1>2, <2>2, <3>1, <3>2, <4>4 DEF Decoded
        <5> QED
          BY <1>4, <4>2, <5>1 DEF Holds
      <4> QED
        BY <4>3, <4>4
    <3>3. After(S0, mw') = T
      BY <1>2, <2>2 DEF After, Full, T
    <3> QED
      BY <1>2, <3>1, <3>2, <3>3 DEF MwOK
  <2> QED
    BY <2>1, <2>2
<1>7. mem' = T.mem
  <2>1. CASE ~Full(em)
    BY <1>2, <1>4, <2>1 DEF T, After, Full
  <2>2. Valid(em)
    BY <1>0, <1>1, NextValid DEF EmOK
  <2>3. CASE Full(em)
    <3>1. T.mem = ImplMem(em.inst, Cleared(S0.R), S0.mem)
      BY <2>3 DEF T, After, Exec
    <3>2. store <=> em.inst.op = "SW"
      BY <1>1, <2>2, <2>3 DEF Decoded, Valid, Full
    <3>3. em.inst.op = "SW" => /\ em.valE = Wrap(Cleared(S0.R)[em.inst.rs] + IMM(em.inst))
                               /\ em.valA = Cleared(S0.R)[em.inst.rt]
      BY <1>1, <2>3 DEF EmOK, Op
    <3> QED
      BY <1>2, <1>4, <3>1, <3>2, <3>3 DEF ImplMem
  <2> QED
    BY <2>1, <2>3
<1>8. Valid(mw') => Holds(em.dstE, em.valE, T)
  BY <1>1, <1>2 DEF Valid, EmOK, T
<1>9. Full(mw') => em.dstE = mw'.dstE
  BY <1>2 DEF Full
<1>10. Valid(mw') => Rest(prog, T, de, fd)
  BY <1>1, <1>2 DEF Valid
<1>11. ValuesEx'
  BY <1>0, <1>3, <1>6, <1>7, <1>8, <1>9, <1>10 DEF ValuesEx
<1> QED
  BY <1>0, <1>3, <1>11 DEF Values, S0, ArchOK

\* The ALU function of each instruction.
LEMMA FuncIs ==
    ASSUME NEW op
    PROVE  /\ op \in RType \cup {"ADDI", "ADDIU", "LW", "SW"} => FuncOf(op) = "ALU_ADD"
           /\ op \in Branches => FuncOf(op) = "ALU_SUB"
           /\ op = "ANDI" => FuncOf(op) = "ALU_AND"
           /\ op = "SLL" => FuncOf(op) = "ALU_SHTL"
           /\ op = "SLTI" => FuncOf(op) = "ALU_SLT"
  BY DEF FuncOf, RType, Branches

\* The second ALU operand of the instruction in latch d.
AluBOf(d) ==
    IF d.flags \cap {"F_IMM", "F_DISP"} # {} THEN IMM(d.inst)
    ELSE IF d.func = "ALU_SHTL" THEN UIMM(d.inst) ELSE d.aluB

\* EX computes what sim-fast does, from the operands of sim-fast.
LEMMA AluIs ==
    ASSUME NEW s, StateOK(s), NEW d, Full(d), Executable(d.inst), FlagsOK(d), DeIs(d), Operands(s, d),
           NEW b, b = AluBOf(d)
    PROVE  LET v == Alu(d.func, d.aluA, b)
               f == Cleared(s.R)
               i == d.inst
           IN  /\ Oprand(i).out1 \in GPRs /\ i.op # "LW" => v = ImplValue(i, f, s.mem)
               /\ i.op \in {"LW", "SW"} => v = Wrap(f[i.rs] + IMM(i))
               /\ i.op = "SW" => d.valA = f[i.rt]
               /\ i.op \in Branches => (v = 0 <=> f[i.rs] = f[i.rt])
<1> DEFINE i == d.inst
           f == Cleared(s.R)
           v == Alu(d.func, d.aluA, b)
<1>0. b = IF d.flags \cap {"F_IMM", "F_DISP"} # {} THEN IMM(i)
          ELSE IF d.func = "ALU_SHTL" THEN UIMM(i) ELSE d.aluB
  BY DEF AluBOf
<1>1. Numbers(i) /\ Kinds(i) /\ i.op \in Ops
  BY OprandIs
<1>2. i.op # "NA" /\ d.flags = Flags(i.op) /\ d.func = FuncOf(i.op) /\ d.oprand = Oprand(i)
  BY <1>1 DEF FlagsOK, DeIs, Ops
<1>3. /\ d.srcA = (IF i.op \in {"LW", "SW"} THEN Oprand(i).in2 ELSE Oprand(i).in1)
      /\ d.srcB = Oprand(i).in2
      /\ d.aluA = Source(s, d.srcA) /\ d.aluB = Source(s, d.srcB) /\ d.valA = Source(s, Oprand(i).in1)
  BY <1>2 DEF DeIs, Operands
<1>4. \A r \in GPRs : Source(s, r) = f[r]
  BY PisaAssumption DEF Source, DNA
<1>5. d.flags \cap {"F_IMM", "F_DISP"} # {} <=> i.op \in IType \cup {"LW", "SW"}
  BY <1>2, FlagsIs
<1>6. i.rs \in GPRs /\ i.rt \in GPRs /\ f \in [Regs -> Words] /\ GPRs \subseteq Regs
  BY <1>1, ClearedIs DEF Numbers, StateOK
<1> HIDE DEF i, f
<1>7. CASE i.op \in RType
  <2>1. d.func = "ALU_ADD" /\ d.aluA = f[i.rs] /\ b = f[i.rt]
    BY <1>0, <1>1, <1>2, <1>3, <1>4, <1>5, <1>6, <1>7, FuncIs DEF Kinds, RType, IType, i
  <2> QED
    BY <1>7, <2>1 DEF Alu, ImplValue, RType, Branches, i, f
<1>8. CASE i.op \in IType
  <2>1. d.aluA = f[i.rs] /\ b = IMM(i)
    BY <1>0, <1>1, <1>3, <1>4, <1>5, <1>6, <1>8 DEF Kinds, IType, i
  <2>2. CASE i.op \in {"ADDI", "ADDIU"}
    <3>1. d.func = "ALU_ADD"
      BY <1>2, <2>2, FuncIs
    <3> QED
      BY <2>1, <2>2, <3>1 DEF Alu, ImplValue, Branches, i, f
  <2>3. CASE i.op = "ANDI"
    <3>1. d.func = "ALU_AND" /\ IMM(i) = UIMM(i)
      BY <1>2, <2>3, FuncIs DEF Executable, i
    <3> QED
      BY <2>1, <2>3, <3>1 DEF Alu, ImplValue, Branches, i, f
  <2>4. CASE i.op = "SLTI"
    <3>1. d.func = "ALU_SLT"
      BY <1>2, <2>4, FuncIs
    <3> QED
      BY <2>1, <2>4, <3>1 DEF Alu, ImplValue, Branches, i, f
  <2> QED
    BY <1>8, <2>2, <2>3, <2>4 DEF IType
<1>9. CASE i.op \in {"LW", "SW"}
  <2>1. d.func = "ALU_ADD" /\ d.aluA = f[i.rs] /\ b = IMM(i) /\ (i.op = "SW" => d.valA = f[i.rt])
    BY <1>0, <1>1, <1>2, <1>3, <1>4, <1>5, <1>6, <1>9, FuncIs DEF Kinds, i
  <2>2. Oprand(i).out1 \in GPRs => i.op = "LW"
    BY <1>1, <1>9, PisaAssumption DEF Kinds, DNA
  <2> QED
    BY <1>9, <2>1, <2>2 DEF Alu, Branches, i, f
<1>10. CASE i.op = "SLL"
  <2>1. d.func = "ALU_SHTL" /\ d.aluA = f[i.rt] /\ b = UIMM(i)
    BY <1>0, <1>1, <1>2, <1>3, <1>4, <1>5, <1>6, <1>10, FuncIs DEF Kinds, IType, i
  <2> QED
    BY <1>10, <2>1 DEF Alu, ImplValue, Branches, i, f
<1>11. CASE i.op \in Branches
  <2>0. d.func = "ALU_SUB"
    BY <1>2, <1>11, FuncIs
  <2>a. Oprand(i).out1 = DNA /\ Oprand(i).in1 = i.rs /\ Oprand(i).in2 = i.rt
    BY <1>1, <1>11 DEF Kinds, i
  <2>b. DNA \notin GPRs
    BY PisaAssumption DEF DNA
  <2>c. i.op \notin IType \cup {"LW", "SW"}
    BY <1>11 DEF IType, Branches
  <2>d. d.aluA = f[i.rs] /\ b = f[i.rt]
    BY <1>0, <1>3, <1>4, <1>5, <1>6, <2>0, <2>a, <2>c DEF i
  <2>1. d.func = "ALU_SUB" /\ d.aluA = f[i.rs] /\ b = f[i.rt] /\ Oprand(i).out1 \notin GPRs
    BY <2>0, <2>a, <2>b, <2>d
  <2>2. v = Wrap(f[i.rs] - f[i.rt])
    BY <2>1 DEF Alu
  <2>3. v = 0 <=> f[i.rs] = f[i.rt]
    BY <1>6, <2>2, SubZero
  <2> QED
    BY <1>11, <2>1, <2>3 DEF Branches, i, f
<1>12. CASE i.op \in {"MULTU", "NOP", "JUMP", "SYSCALL"}
  <2>1. Oprand(i).out1 \notin GPRs
    BY <1>1, <1>12, PisaAssumption DEF Kinds, DNA, DHI
  <2> QED
    BY <1>12, <2>1 DEF Branches, i
<1> QED
  BY <1>1, <1>7, <1>8, <1>9, <1>10, <1>11, <1>12 DEF Ops, RType, IType, Branches

\* What EX leaves of an instruction.
LEMMA ExEm ==
    ASSUME NEW p, NEW s, StateOK(s), NEW d, Full(d), LatchExec(d), Valid(d), Decoded(p, d), FlagsOK(d),
           DeOK(p, s, d), NEW b, b = AluBOf(d),
           NEW e, e.inst = d.inst, e.PC = d.PC, e.valE = Alu(d.func, d.aluA, b), e.valA = d.valA,
           e.dstE = d.dstE, e.target = d.target
    PROVE  EmOK(p, s, e) /\ After(s, e) = After(s, d)
<1> DEFINE i == d.inst
           f == Cleared(s.R)
           v == Alu(d.func, d.aluA, b)
<1>1. Executable(i) /\ d.PC \in Int /\ i.op # "NA" /\ DeIs(d) /\ Operands(s, d) /\ Leads(p, s.PC, d.PC)
  BY DEF LatchExec, Valid, DeOK
<1>2. /\ Oprand(i).out1 \in GPRs /\ i.op # "LW" => v = ImplValue(i, f, s.mem)
      /\ i.op \in {"LW", "SW"} => v = Wrap(f[i.rs] + IMM(i))
      /\ i.op = "SW" => d.valA = f[i.rt]
  BY <1>1, AluIs
<1>3. After(s, e) = After(s, d) /\ After(s, d) = Exec(s, i, d.PC) /\ Full(e)
  BY DEF After, Full
<1>4. d.dstE = IF i.op = "LW" THEN DNA ELSE Oprand(i).out1
  BY <1>1 DEF Decoded
<1>5. Oprand(i).out1 \in GPRs => After(s, e).R[Oprand(i).out1] = ImplValue(i, f, s.mem)
  BY <1>1, <1>3, ExecIs
<1>6. DNA \notin GPRs /\ Oprand(i).out1 # ZERO
  BY <1>1, PisaAssumption DEF DNA, Executable
<1> HIDE DEF v, f, i
<1>7. Holds(e.dstE, e.valE, After(s, e))
  BY <1>2, <1>4, <1>5, <1>6 DEF Holds, v
<1>8. i.op \in Branches => d.target = d.PC + 8 + 4 * UIMM(i)
  BY <1>1 DEF DeIs, i
<1> QED
  BY <1>1, <1>2, <1>3, <1>7, <1>8 DEF EmOK, Op, v, f, i

\* The branch in EX against the prediction not taken.
LEMMA BranchIs ==
    ASSUME NEW s, StateOK(s), NEW d, Op(d, Branches), LatchExec(d), FlagsOK(d), DeIs(d), Operands(s, d),
           NEW b, b = AluBOf(d)
    PROVE  LET v == Alu(d.func, d.aluA, b)
           IN  After(s, d).PC = IF d.inst.op = "BNE" <=> v # 0 THEN d.target ELSE d.PC + InstSize
<1> DEFINE i == d.inst
           f == Cleared(s.R)
           v == Alu(d.func, d.aluA, b)
<1>1. Full(d) /\ Executable(i) /\ d.PC \in Int /\ i.op \in Branches
  BY DEF Op, LatchExec
<1>2. v = 0 <=> f[i.rs] = f[i.rt]
  BY <1>1, AluIs
<1>3. After(s, d).PC = ImplNPC(i, f, d.PC)
  BY <1>1 DEF After, Exec
<1>4. IMM(i) = UIMM(i) /\ UIMM(i) \in Nat
  BY <1>1 DEF Executable, UIMM
<1>5. d.target = d.PC + 8 + 4 * UIMM(i)
  BY <1>1 DEF DeIs, Branches
<1> HIDE DEF v, f, i
<1>6. ImplNPC(i, f, d.PC) = IF i.op = "BNE" <=> f[i.rs] # f[i.rt] THEN d.PC + InstSize + 4 * IMM(i)
                            ELSE d.PC + InstSize
  BY <1>1 DEF ImplNPC, Branches
<1> QED
  BY <1>1, <1>2, <1>3, <1>4, <1>5, <1>6 DEF v, f, i, InstSize

LEMMA ExValues ==
    ASSUME Loadable, Flow, Values, Proceeds, do_ex, UNCHANGED <<arch, lost>>
    PROVE  Values'
<1> DEFINE v == Alu(de.func, de.aluA, AluB)
<1>0. /\ Shape /\ AtEx /\ ValuesEx /\ stage' = "id" /\ ArchOK /\ Written(R, wb, S0) /\ prog \in Programs
      /\ UNCHANGED <<prog, fd, de, mw, wb, mem, arch>>
  BY DEF Flow, Values, do_ex, Call, ArchOK, Shape, S0
<1>1. /\ MwOK(prog, S0, mw) /\ mem = S1.mem /\ (Valid(mw) => Rest(prog, S1, de, fd))
      /\ (Valid(mw) => Holds(em.dstE, em.valE, S1)) /\ (Full(mw) => em.dstE = mw.dstE)
      /\ Decoded(prog, mw) /\ Ready(prog, fd, de, ctl)
  BY <1>0 DEF ValuesEx, AtEx
<1>2. Valid(mw) /\ StateOK(S1)
  BY <1>0, <1>1, Retiring
<1>3. /\ IsNop(de.inst) => em' = [em EXCEPT !.inst = de.inst] /\ R' = R /\ ctl' = ctl
      /\ ~IsNop(de.inst) =>
             /\ em' = [inst |-> de.inst, PC |-> de.PC, valE |-> v, valA |-> de.valA,
                       dstE |-> de.dstE, dstM |-> de.dstM, rw |-> de.rw, target |-> de.target]
             /\ ctl' = Resolve(v)
  BY DEF do_ex
<1>4. Rest(prog, S1, de, fd) /\ Holds(em.dstE, em.valE, S1)
  BY <1>1, <1>2
<1>5. S0' = S0 /\ S1' = S1 /\ Seen(arch)' = Seen(arch) /\ (DOMAIN arch)' = DOMAIN arch
  BY <1>0, ArchSame
<1>6. Decoded(prog, de) /\ FlagsOK(de) /\ (Valid(de) => LatchExec(de))
  BY <1>0, <1>1, DecodedExec DEF Ready
<1>7. /\ ctl \in Controls /\ ctl.cond = {} /\ ctl.flag \in BOOLEAN
      /\ ctl.flag => Op(de, Branches)
      /\ Op(de, Branches) => ctl.flag /\ (ctl.cmp <=> de.inst.op = "BNE")
  BY <1>0, <1>1 DEF Shape, Controls, Ready, Waiting
<1> HIDE DEF v
<1>8. CASE IsNop(de.inst)
  <2>1. em' = [em EXCEPT !.inst = de.inst] /\ ctl' = ctl /\ R' = R /\ ~Full(de)
    BY <1>3, <1>8 DEF Full
  <2>2. em'.inst = de.inst /\ em'.dstE = em.dstE /\ em'.valE = em.valE
    BY <1>0, <2>1 DEF Shape, EmShape, EmFields
  <2>3. ~Full(em') /\ After(S1, em') = S1 /\ Valid(de)
    BY <1>8, <2>2 DEF Full, After, Valid, IsNop
  <2>4. EmOK(prog, S1, em')
    BY <1>4, <2>2, <2>3 DEF EmOK, Op
  <2>5. Stale(mw, em')
    BY <1>1, <2>2 DEF Stale
  <2>6. FdOK(prog, S1.PC, fd) /\ 2 \notin ctl'.cond
    BY <1>4, <1>7, <2>1, <2>3 DEF Rest, Op, After
  <2>7. S2' = S1 /\ Ahead(prog, S1, em', fd, ctl')
    BY <1>5, <2>3, <2>6 DEF S2, Ahead
  <2>8. ValuesId'
    BY <1>0, <1>1, <1>5, <2>4, <2>5, <2>7 DEF ValuesId, Older
  <2> QED
    BY <1>0, <1>5, <2>1, <2>8 DEF Values, S0, ArchOK
<1>9. CASE ~IsNop(de.inst)
  <2>1. /\ em'.inst = de.inst /\ em'.PC = de.PC /\ em'.valE = v /\ em'.valA = de.valA
        /\ em'.dstE = de.dstE /\ em'.target = de.target /\ ctl' = Resolve(v)
        /\ Full(de) /\ Full(em')
    BY <1>3, <1>9 DEF Full
  <2>2. ASSUME Valid(de)
        PROVE  EmOK(prog, S1, em') /\ After(S1, em') = After(S1, de)
    <3>1. /\ StateOK(S1) /\ Full(de) /\ LatchExec(de) /\ Valid(de) /\ Decoded(prog, de)
          /\ FlagsOK(de) /\ DeOK(prog, S1, de)
      BY <1>2, <1>4, <1>6, <2>1, <2>2 DEF Rest
    <3>2. em'.valE = Alu(de.func, de.aluA, AluBOf(de))
      BY <2>1 DEF v, AluB, AluBOf
    <3> QED
      BY <2>1, <3>1, <3>2, ExEm
  <2>3. EmOK(prog, S1, em')
    <3>1. CASE ~Valid(de)
      <4>1. Leads(prog, S1.PC, em'.PC)
        BY <1>4, <2>1 DEF Rest, DeOK
      <4> QED
        BY <2>1, <3>1, <4>1 DEF EmOK, Valid, Op, Branches
    <3> QED
      BY <2>2, <3>1
  <2>4. ASSUME Valid(em') PROVE Ahead(prog, S2', em', fd, ctl')
    <3>1. S2' = After(S1, de) /\ Valid(de)
      BY <1>5, <2>1, <2>2, <2>4 DEF S2, Valid
    <3>2. CASE ~Op(de, Branches)
      <4>1. FdOK(prog, After(S1, de).PC, fd)
        BY <1>4, <3>1, <3>2 DEF Rest
      <4>2. ctl' = ctl
        BY <1>7, <2>1, <3>2 DEF Resolve
      <4> QED
        BY <1>7, <3>1, <4>1, <4>2 DEF Ahead
    <3>3. CASE Op(de, Branches)
      <4>1. After(S1, de).PC = IF de.inst.op = "BNE" <=> v # 0 THEN de.target ELSE de.PC + InstSize
        BY <1>2, <1>4, <1>6, <3>1, <3>3, BranchIs DEF Rest, DeOK, v, AluB, AluBOf
      <4>2. fd.PC = de.PC + InstSize /\ fd.inst = Fetch(prog, fd.PC) /\ de.PC \in Int
        BY <1>0, <1>1, <2>1, <3>3 DEF Ready, Follow, Op, Branches, Shape, DeShape
      <4>3. CASE de.inst.op = "BNE" <=> v # 0
        <5>1. ctl' = [ctl EXCEPT !.cond = @ \cup {2}]
          BY <1>7, <2>1, <3>3, <4>3 DEF Resolve
        <5>2. 2 \in ctl'.cond
          BY <1>7, <5>1 DEF Controls
        <5> QED
          BY <2>1, <3>1, <4>1, <4>3, <5>2 DEF Ahead
      <4>4. CASE ~(de.inst.op = "BNE" <=> v # 0)
        <5>1. ctl' = [ctl EXCEPT !.flag = FALSE]
          BY <1>7, <2>1, <3>3, <4>4 DEF Resolve
        <5>2. 2 \notin ctl'.cond
          BY <1>7, <5>1 DEF Controls
        <5>3. FdOK(prog, de.PC + InstSize, fd)
          <6>1. de.PC + InstSize \in Int
            BY <4>2 DEF InstSize
          <6> QED
            BY <4>2, <6>1, LeadsSelf, LeadsNop DEF FdOK, IsNop
        <5> QED
          BY <3>1, <4>1, <4>4, <5>2, <5>3 DEF Ahead
      <4> QED
        BY <4>3, <4>4
    <3> QED
      BY <3>2, <3>3
  <2>5. Stale(mw, em')
    BY <2>1 DEF Stale
  <2>6. ValuesId'
    BY <1>0, <1>1, <1>5, <2>3, <2>4, <2>5 DEF ValuesId, Older
  <2>7. Written(R', wb, S0)
    <3>1. DHI \notin GPRs /\ DLO \notin GPRs /\ GPRs \subseteq Regs /\ ZERO \in GPRs
      BY PisaAssumption DEF DHI, DLO, Regs
    <3>2. R' \in {R, [R EXCEPT ![DHI] = MultuHi(de.aluA, AluB), ![DLO] = MultuLo(de.aluA, AluB)]}
      BY <1>9 DEF do_ex
    <3>3. DOMAIN R = Regs
      BY <1>0 DEF Shape, RShape
    <3>4. \A r \in GPRs : R'[r] = R[r]
      BY <3>1, <3>2, <3>3
    <3> QED
      BY <1>0, <3>1, <3>4 DEF Written
  <2> QED
    BY <1>0, <1>5, <2>6, <2>7 DEF Values, S0, ArchOK
<1> QED
  BY <1>8, <1>9

\* ID leaves the older instructions alone.
LEMMA IdKeeps ==
    ASSUME Values, stage = "id", UNCHANGED <<prog, fd, em, mw, wb, mem, arch>>,
           2 \in ctl'.cond <=> 2 \in ctl.cond, R' = R, stage' = "forward",
           ~ctl'.stall => DeIs(de') /\ NoWait(de', em)
    PROVE  Values'
<1>1. ValuesId /\ S0' = S0 /\ S1' = S1 /\ S2' = S2 /\ Seen(arch)' = Seen(arch) /\ (DOMAIN arch)' = DOMAIN arch
  BY ArchSame DEF Values
<1>2. ValuesForward'
  BY <1>1 DEF ValuesId, ValuesForward, Older, Ahead
<1> QED
  BY <1>1, <1>2 DEF Values

LEMMA IdNopValues ==
    ASSUME Loadable, Flow, Values, do_id_nop, UNCHANGED <<arch, lost>>
    PROVE  Values'
<1>1. /\ stage = "id" /\ stage' = "forward" /\ IsNop(fd.inst) /\ DOMAIN de = DeFields
      /\ de' = [de EXCEPT !.inst = fd.inst, !.PC = fd.PC, !.rw = {}]
      /\ UNCHANGED <<prog, fd, em, mw, wb, ctl, R, mem, arch>>
  BY DEF do_id_nop, Call, Flow, Shape, DeShape
<1>2. de'.inst = fd.inst
  BY <1>1 DEF DeFields
<1>3. DeIs(de') /\ NoWait(de', em)
  BY <1>1, <1>2 DEF DeIs, NoWait, Full
<1> QED
  BY <1>1, <1>3, IdKeeps

LEMMA IdStallValues ==
    ASSUME Loadable, Flow, Values, do_id_stall, UNCHANGED <<arch, lost>>
    PROVE  Values'
<1>1. /\ stage = "id" /\ stage' = "forward" /\ ctl' = [ctl EXCEPT !.stall = TRUE] /\ ctl \in Controls
      /\ UNCHANGED <<prog, fd, em, mw, wb, R, mem, arch>>
  BY DEF do_id_stall, Call, Flow, Shape
<1>2. ctl'.stall /\ ctl'.cond = ctl.cond
  BY <1>1 DEF Controls
<1> QED
  BY <1>1, <1>2, IdKeeps

LEMMA IdValues ==
    ASSUME Loadable, Flow, Values, do_id, UNCHANGED <<arch, lost>>
    PROVE  Values'
<1>1. /\ stage = "id" /\ stage' = "forward" /\ Shape /\ AtId /\ ctl \in Controls /\ ~IsNop(fd.inst)
      /\ ~WaitsForLoad(Lookup.oprand)
      /\ UNCHANGED <<prog, fd, em, mw, wb, mem, arch>>
  BY DEF do_id, Call, Flow, Shape
<1>2. fd.inst.op \notin {"NOP", "LUI", "MFLO"}
  BY <1>1, FdInst
<1>3. R' = R
  BY <1>2 DEF do_id
<1>4. 2 \in ctl'.cond <=> 2 \in ctl.cond
  <2>1. ctl'.cond = (IF fd.inst.op = "JUMP" THEN ctl.cond \cup {1} ELSE ctl.cond)
    BY <1>1 DEF do_id, Controls
  <2> QED
    BY <2>1
<1>5. /\ Lookup.flags = IF fd.inst.op = "NA" THEN de.flags ELSE Flags(fd.inst.op)
      /\ Lookup.oprand = IF fd.inst.op = "NA" THEN de.oprand ELSE Oprand(fd.inst)
  BY <1>1, LookupIs
<1>6. /\ de'.inst = fd.inst /\ de'.PC = fd.PC
      /\ de'.opcode = fd.inst.op /\ de'.func = FuncOf(fd.inst.op) /\ de'.oprand = Lookup.oprand
      /\ de'.target = Target(fd.inst, fd.PC, de.target)
      /\ de'.srcA = (IF "F_DISP" \in Lookup.flags THEN Lookup.oprand.in2 ELSE Lookup.oprand.in1)
      /\ de'.srcB = Lookup.oprand.in2
  BY <1>1, IdLatch
<1>7. DeIs(de')
  <2> SUFFICES ASSUME fd.inst.op # "NA" PROVE DeIs(de')
    BY <1>6 DEF DeIs
  <2>1. "F_DISP" \in Lookup.flags <=> fd.inst.op \in {"LW", "SW"}
    BY <1>5, FlagsIs
  <2>2. fd.inst.op \in Branches => de'.target = de'.PC + 8 + 4 * UIMM(de'.inst)
    BY <1>6 DEF Target, Branches
  <2> QED
    BY <1>5, <1>6, <2>1, <2>2 DEF DeIs
<1>8. NoWait(de', em)
  <2>1. ctl.regs = Pend(em)
    BY <1>1 DEF AtId
  <2> QED
    BY <1>1, <1>5, <1>6, <2>1 DEF NoWait, WaitsForLoad
<1> QED
  BY <1>1, <1>3, <1>4, <1>7, <1>8, IdKeeps

\* forward() delivers the operand sim-fast reads: the newest of the results in
\* em, mw and wb, else the register file.
LEMMA ForwardIs ==
    ASSUME Loadable, prog \in Programs, ArchOK, Written(R, wb, S0), MwOK(prog, S0, mw), EmOK(prog, S1, em),
           Decoded(prog, mw), Decoded(prog, em), Valid(em), Proceeds,
           NEW src \in GPRs \cup {DNA}, src >= 0 => RegBit(src) \notin Pend(em)
    PROVE  forward(src) = Source(S2, src)
<1>1. CASE src = DNA
  BY <1>1 DEF forward, Source
<1>2. CASE src \in GPRs
  <2>0. src # DNA /\ src \in 0..31 /\ src >= 0
    BY <1>2, PisaAssumption DEF DNA
  <2>1. Valid(mw) /\ LatchExec(mw) /\ StateOK(S1)
    BY Retiring
  <2>2. LatchExec(em) /\ StateOK(S2)
    BY <2>1, DecodedExec, AfterOK DEF S2
  <2>3. Holds(em.dstE, em.valE, S2) /\ Holds(mw.dstE, mw.valE, S1) /\ Holds(mw.dstM, mw.valM, S1)
    BY <2>1 DEF EmOK, MwOK, Valid, S1, S2
  <2>4. Holds(wb.dstE, wb.valE, S0) /\ Holds(wb.dstM, wb.valM, S0) /\ R[ZERO] = 0
        /\ \A r \in GPRs \ {ZERO} : R[r] = S0.R[r]
    BY DEF Written
  <2>5. Source(S2, src) = IF src = ZERO THEN 0 ELSE S2.R[src]
    BY <1>2, <2>0, <2>2, ClearedIs DEF Source, StateOK
  <2>6. CASE src = ZERO
    BY <1>2, <2>0, <2>3, <2>4, <2>5, <2>6 DEF forward, Holds
  <2>7. CASE src # ZERO
    <3>1. src # em.dstE => S2.R[src] = S1.R[src]
      <4>1. CASE ~Full(em)
        BY <4>1 DEF S2, After
      <4>2. CASE Full(em)
        <5>1. em.inst.op = "LW" => em.dstM # src
          <6> SUFFICES ASSUME em.inst.op = "LW", em.dstM = src PROVE FALSE
            OBVIOUS
          <6>1. Pend(em) = {RegBit(src)}
            BY <4>2 DEF Pend, Decoded, Valid
          <6> QED
            BY <2>0, <6>1
        <5>2. src # em.dstE => Oprand(em.inst).out1 # src
          BY <4>2, <5>1 DEF Decoded, Valid
        <5>3. Executable(em.inst) /\ em.PC \in Int /\ S2 = Exec(S1, em.inst, em.PC)
          BY <2>2, <4>2 DEF LatchExec, S2, After
        <5> QED
          BY <1>2, <2>1, <2>7, <5>2, <5>3, ExecIs
      <4> QED
        BY <4>1, <4>2
    <3>2. src \notin {mw.dstM, mw.dstE} => S1.R[src] = S0.R[src]
      <4>1. CASE ~Full(mw)
        BY <4>1 DEF S1, After
      <4>2. CASE Full(mw)
        BY <1>2, <2>1, <2>7, <4>2, MwFrame
      <4> QED
        BY <4>1, <4>2
    <3> QED
      BY <1>2, <2>0, <2>3, <2>4, <2>5, <2>7, <3>1, <3>2 DEF forward, Holds
  <2> QED
    BY <2>6, <2>7
<1> QED
  BY <1>1, <1>2

LEMMA ForwardValues ==
    ASSUME Loadable, Flow, Values, Proceeds, do_forward, UNCHANGED <<arch, lost>>
    PROVE  Values'
<1>0. /\ Shape /\ AtForward /\ ValuesForward /\ stage' = "if" /\ ArchOK /\ Written(R, wb, S0)
      /\ prog \in Programs
      /\ UNCHANGED <<prog, fd, em, mw, wb, ctl, R, mem, arch>>
  BY DEF Flow, Values, do_forward, Call, ArchOK, Shape, S0
<1>1. /\ de'.inst = de.inst /\ de'.PC = de.PC
      /\ de'.opcode = de.opcode /\ de'.func = de.func /\ de'.oprand = de.oprand
      /\ de'.target = de.target /\ de'.srcA = de.srcA /\ de'.srcB = de.srcB
      /\ de'.aluA = forward(de.srcA) /\ de'.aluB = forward(de.srcB)
      /\ de'.valA = forward(de.oprand.in1)
  BY <1>0, ForwardLatch
<1>2. /\ MwOK(prog, S0, mw) /\ EmOK(prog, S1, em) /\ Decoded(prog, mw) /\ Decoded(prog, em)
  BY <1>0 DEF ValuesForward, Older, AtForward
<1>3. S0' = S0 /\ S1' = S1 /\ S2' = S2 /\ Seen(arch)' = Seen(arch) /\ (DOMAIN arch)' = DOMAIN arch
  BY <1>0, ArchSame
<1>4. (DeIs(de) => DeIs(de')) /\ (NoWait(de, em) => NoWait(de', em))
  BY <1>1 DEF DeIs, NoWait, Full
<1>5. ValuesForward'
  BY <1>0, <1>3, <1>4 DEF ValuesForward, Older
<1>6. ASSUME Valid(em), ~ctl.stall PROVE Operands(S2, de')
  <2> SUFFICES ASSUME Full(de), de.inst.op # "NA"
               PROVE  /\ de'.aluA = Source(S2, de.srcA) /\ de'.aluB = Source(S2, de.srcB)
                      /\ de'.valA = Source(S2, de.oprand.in1)
    BY <1>1 DEF Operands, Full
  <2>1. DeIs(de) /\ NoWait(de, em) /\ Decoded(prog, de)
    BY <1>0, <1>6 DEF ValuesForward, AtForward, Issued
  <2>2. Executable(de.inst)
    BY <1>0, <2>1, DecodedExec DEF Valid, LatchExec
  <2>3. Numbers(de.inst)
    BY <2>2, OprandIs
  <2>4. {de.srcA, de.srcB, de.oprand.in1} \subseteq {Oprand(de.inst).in1, Oprand(de.inst).in2}
    BY <2>1 DEF DeIs
  <2>5. ASSUME NEW src \in {Oprand(de.inst).in1, Oprand(de.inst).in2} PROVE forward(src) = Source(S2, src)
    <3>1. src \in GPRs \cup {DNA} /\ (src >= 0 => RegBit(src) \notin Pend(em))
      BY <2>1, <2>3 DEF Numbers, NoWait
    <3> QED
      BY <1>0, <1>2, <1>6, <3>1, ForwardIs
  <2> QED
    BY <1>1, <2>4, <2>5
<1>7. ValuesIf'
  BY <1>0, <1>3, <1>5, <1>6 DEF ValuesIf
<1> QED
  BY <1>0, <1>3, <1>7 DEF Values, S0, ArchOK

\* IF fetches what sim-fast executes next, as far as the pipeline can know it.
LEMMA IfValues ==
    ASSUME Loadable, Flow, Values, Proceeds, do_if, UNCHANGED <<arch, lost>>
    PROVE  Values'
<1>0. /\ Shape /\ AtForward /\ ValuesIf /\ stage' = "control" /\ ArchOK /\ Written(R, wb, S0)
      /\ prog \in Programs
      /\ fd' = [inst |-> Fetch(prog, NPC), PC |-> NPC]
      /\ UNCHANGED <<prog, de, em, mw, wb, ctl, R, mem, arch>>
  BY DEF Flow, Values, do_if, Call, ArchOK, Shape, S0
<1>1. /\ Older /\ (Valid(em) => Ahead(prog, S2, em, fd, ctl)) /\ (~ctl.stall => DeIs(de))
      /\ Valid(em) /\ 2 \notin ctl.cond /\ ~ctl.stall => Operands(S2, de)
  BY <1>0 DEF ValuesIf, ValuesForward
<1>2. /\ Issued(prog, de, em, ctl) /\ de.PC = fd.PC /\ de.inst = fd.inst
      /\ Decoded(prog, mw) /\ Decoded(prog, em) /\ de.PC \in Int /\ ctl.cond \subseteq {1, 2}
  BY <1>0 DEF AtForward, Shape, DeShape, Controls
<1>3. fd'.PC = NPC /\ fd'.inst = Fetch(prog, fd'.PC)
  BY <1>0
<1>4. S0' = S0 /\ S1' = S1 /\ S2' = S2 /\ Seen(arch)' = Seen(arch) /\ (DOMAIN arch)' = DOMAIN arch
  BY <1>0, ArchSame
<1>5. Older'
  BY <1>0, <1>1, <1>4 DEF Older
<1>6. ASSUME Valid(em), 2 \in ctl.cond PROVE fd'.PC = S2.PC
  BY <1>1, <1>3, <1>6 DEF Ahead, NPC
<1>7. ASSUME Valid(em), 2 \notin ctl.cond, ctl.stall PROVE Leads(prog, S2.PC, de.PC)
  <2>1. FdOK(prog, S2.PC, fd) /\ Full(de)
    BY <1>1, <1>2, <1>7 DEF Ahead, Issued
  <2> QED
    BY <1>2, <2>1 DEF FdOK, Full
<1>8. ASSUME Valid(em), 2 \notin ctl.cond, ~ctl.stall PROVE Rest(prog, S2, de, fd')
  <2>1. FdOK(prog, S2.PC, fd) /\ DeIs(de) /\ Operands(S2, de) /\ Decoded(prog, de)
    BY <1>1, <1>2, <1>8 DEF Ahead, Issued
  <2>2. StateOK(S2)
    <3>1. StateOK(S1)
      BY <1>0, <1>1, <1>2, Retiring DEF Older
    <3> QED
      BY <1>0, <1>2, <1>8, <3>1, DecodedExec, AfterOK DEF S2
  <2>3. DeOK(prog, S2, de)
    BY <1>2, <2>1 DEF DeOK, FdOK, Full
  <2>4. ASSUME Valid(de), ~Op(de, Branches) PROVE FdOK(prog, After(S2, de).PC, fd')
    <3>1. S2.PC \in Int /\ After(S2, de).PC \in Int
      BY <1>0, <2>1, <2>2, <2>4, DecodedExec, AfterOK DEF StateOK
    <3>2. Leads(prog, After(S2, de).PC, fd'.PC)
      <4>1. CASE Full(de)
        <5>1. After(S2, de).PC = ImplNPC(de.inst, Cleared(S2.R), de.PC)
          BY <4>1 DEF After, Exec
        <5>2. de.inst.op \notin Branches
          BY <2>4, <4>1 DEF Op
        <5>3. After(S2, de).PC = IF de.inst.op = "JUMP" THEN 4 * UIMM(de.inst) ELSE de.PC + InstSize
          BY <5>1, <5>2 DEF ImplNPC, Branches
        <5>4. NPC = IF de.inst.op = "JUMP" THEN 4 * UIMM(de.inst) ELSE de.PC + InstSize
          BY <1>2, <1>8, <4>1 DEF NPC, Issued, Op
        <5> QED
          BY <1>3, <3>1, <5>3, <5>4, LeadsSelf
      <4>2. CASE ~Full(de)
        <5>1. After(S2, de) = S2 /\ Leads(prog, S2.PC, fd.PC + InstSize)
          BY <1>2, <2>1, <4>2 DEF After, FdOK, Full
        <5>2. NPC = fd.PC + InstSize
          BY <1>2, <1>8, <4>2 DEF NPC, Issued, Op
        <5> QED
          BY <1>3, <5>1, <5>2
      <4> QED
        BY <4>1, <4>2
    <3> QED
      BY <1>3, <3>1, <3>2, LeadsNop DEF FdOK, IsNop
  <2> QED
    BY <2>3, <2>4 DEF Rest
<1>9. ValuesControl'
  BY <1>0, <1>3, <1>4, <1>5, <1>6, <1>7, <1>8 DEF ValuesControl
<1> QED
  BY <1>0, <1>4, <1>9 DEF Values, S0, ArchOK

\* Every step of the loop keeps the agreement with sim-fast.
LEMMA NextValues ==
    ASSUME Loadable, Flow, Values, Proceeds, [TandemNext]_tandemVars
    PROVE  Values'
<1>1. CASE UNCHANGED tandemVars
  <2>1. /\ prog' = prog /\ fd' = fd /\ de' = de /\ em' = em /\ mw' = mw /\ wb' = wb /\ ctl' = ctl
        /\ R' = R /\ mem' = mem /\ stage' = stage /\ arch' = arch
    BY <1>1 DEF tandemVars, vars
  <2>2. S0' = S0 /\ S1' = S1 /\ S2' = S2
    BY <2>1 DEF S0, S1, S2
  <2>3. (Older <=> Older')
    BY <2>1, <2>2 DEF Older
  <2>4. (ValuesControl <=> ValuesControl') /\ (ValuesWb <=> ValuesWb')
    BY <2>1, <2>2, <2>3 DEF ValuesControl, ValuesWb
  <2>5. (ValuesMem <=> ValuesMem') /\ (ValuesEx <=> ValuesEx')
    BY <2>1, <2>2 DEF ValuesMem, ValuesEx
  <2>6. (ValuesId <=> ValuesId') /\ (ValuesForward <=> ValuesForward')
    BY <2>1, <2>2, <2>3 DEF ValuesId, ValuesForward
  <2>7. (ValuesIf <=> ValuesIf')
    BY <2>1, <2>2, <2>6 DEF ValuesIf
  <2> QED
    BY <2>1, <2>4, <2>5, <2>6, <2>7 DEF Values
<1>2. CASE TandemNext
  BY <1>2, ControlValues, WbValues, SyscallValues, ExitValues, MemValues, ExValues, IdNopValues,
     IdStallValues, IdValues, ForwardValues, IfValues
     DEF TandemNext, Decode
<1> QED
  BY <1>1, <1>2

LEMMA ValuesExact ==
    ASSUME Loadable, Flow, Values, Proceeds
    PROVE  PipelineExact
<1>1. TypeOK
  BY FlowTypes
<1>2. RegsAgree
  BY DEF Values, Written, Seen, RegsAgree
<1>3. prog \in Programs /\ ArchOK /\ S0.mem = arch.mem
  BY DEF Flow, Shape, Values, ArchOK, S0, Seen
<1>4. MemAgrees
  <2>1. ASSUME stage = "control"
        PROVE  mem = IF Retires THEN StepOf(prog, Current).mem ELSE arch.mem
    <3>1. MwOK(prog, S0, mw) /\ mem = S1.mem /\ Decoded(prog, mw)
      BY <2>1 DEF Flow, Values, ValuesControl, Older, AtControl
    <3>2. CASE Retires
      BY <1>3, <3>1, <3>2, Retiring DEF Retires, Full
    <3>3. CASE ~Retires
      BY <1>3, <3>1, <3>3 DEF Retires, S1, After, Full
    <3> QED
      BY <3>2, <3>3
  <2>2. stage \in {"mem", "exited"} => mem = arch.mem
    BY DEF Values, ValuesMem
  <2> QED
    BY <2>1, <2>2 DEF MemAgrees
<1>5. RetiresInOrder
  <2> SUFFICES ASSUME stage = "wb", Retires PROVE mw.PC = Current.PC
    BY DEF RetiresInOrder
  <2>1. MwOK(prog, S0, mw) /\ Decoded(prog, mw) /\ Full(mw)
    BY DEF Flow, Values, ValuesWb, Older, AtWb, Retires, Full
  <2> QED
    BY <1>3, <2>1, Retiring
<1> QED
  BY <1>1, <1>2, <1>4, <1>5 DEF PipelineExact

\* The forwarding pipeline is precise on every supported program, of any length
\* and with any loops, for any word size, register file and initial memory: as
\* long as sim-fast itself meets an instruction that declares no fault, what
\* do_wb retires is what sim-fast executes next, and registers and memory agree
\* with it behind every do_wb.
THEOREM ForwardingExact == Loadable => (TandemSpec /\ []Proceeds => []PipelineExact)
<1> SUFFICES ASSUME Loadable PROVE TandemSpec /\ []Proceeds => []PipelineExact
  OBVIOUS
<1> DEFINE Inv == Flow /\ Values
<1>1. TandemInit => Inv
  BY InitFlow, InitValues DEF TandemInit
<1>2. Inv /\ Proceeds /\ [TandemNext]_tandemVars => Inv'
  BY NextFlow, NextValues
<1>3. Inv /\ Proceeds => PipelineExact
  BY ValuesExact
<1> QED
  BY <1>1, <1>2, <1>3, PTL DEF TandemSpec
=============================================================================
