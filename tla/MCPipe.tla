------------------------------- MODULE MCPipe -------------------------------
(***************************************************************************)
(* The pipelines of the repository side by side: the forwarding pipeline   *)
(* of Project2, the stalling and the forwarding one of Project1, and the   *)
(* two instructions Project1 adds.  A behaviour is one design on one       *)
(* program; the variables of the others are Off.                           *)
(*                                                                         *)
(* Four instructions are as many as one value can be forwarded across (em, *)
(* mw, wb, register file).                                                 *)
(***************************************************************************)
EXTENDS PipeForward, Sequences, TLC

CONSTANT Designs    \* the designs considered

VARIABLES
    design,
    s,              \* the state of a pipeline of Project1
    done            \* the last of the new instructions

ofForward == <<fd, de, em, mw, wb, ctl, mem, stage, sim_num_insn, lost>>
allVars == <<design, prog, arch, ofForward, R, s, done>>

Off == "off"
-----------------------------------------------------------------------------
(* The small programs the pipelines are checked on: a few instructions from *)
(* an alphabet, followed by exit calls, with the registers and data they    *)
(* start from.                                                              *)

MCGPRs == {0, 2, 3, 4, 7}
MCInitRegs == [r \in Regs |-> CASE r = 2 -> 1 [] r = 3 -> 8 [] r = 4 -> 4 [] OTHER -> 0]
MCInitData == 8 :> 4 @@ 12 :> 20
MCSysReturns == {[v0 |-> 1, a3 |-> 0], [v0 |-> 1, a3 |-> 1]}

\* The assembler's view of the instructions.
R3(op, rd, rs, rt) == Inst(op, rs, rt, rd, 0)
I3(op, rt, rs, imm) == Inst(op, rs, rt, 0, imm % 2^ImmBits)
Br(op, rs, rt, words) == Inst(op, rs, rt, 0, words % 2^ImmBits)
Plain(op) == Inst(op, 0, 0, 0, 0)

\* Addresses of the text, and a jump over one instruction at position i.
At(i) == EntryPC + InstSize * (i - 1)
Place(i, inst) == IF inst.op = "JUMP" THEN [inst EXCEPT !.imm = At(i + 2) \div 4] ELSE inst

\* A program ends in exit calls; the second and third are reached when $2
\* asked for another call or a branch skips the first.
Text(p) ==
    LET t == p \o [i \in 1..3 |-> Plain("SYSCALL")]
    IN  [pc \in {At(i) : i \in DOMAIN t} |->
            LET i == (pc - EntryPC) \div InstSize + 1 IN Place(i, t[i])]

Texts(insts, n) == {Text(p) : p \in [1..n -> insts]}

\* No register is written twice.
WritesOnce(p) ==
    \A i, j \in DOMAIN p : i < j /\ Oprand(p[i]).out1 = Oprand(p[j]).out1
                           => Oprand(p[i]).out1 = DNA

OlderInsts ==
    {R3("ADDU", 3, 3, 4), R3("ADD", 4, 3, 3), I3("LW", 3, 4, 4), I3("LW", 4, 3, 0),
     I3("SW", 3, 4, 4), Br("BNE", 3, 4, 2), Plain("NOP"), Plain("JUMP"), I3("ADDIU", 2, 4, 1)}
StallPrograms ==
    {Text(p) : p \in {q \in [1..4 -> OlderInsts \cup {I3("SLTI", 7, 3, 9)}] : WritesOnce(q)}}

\* Executed again with the zero operand field of a nop, these compute something
\* else: sums into an operand, and immediates.
Sensitive(i) == i.op \in IType \/ (i.op \in RType /\ i.rd \in {i.rs, i.rt})

\* A nop behind every branch and behind nothing sensitive, and no two adjacent
\* loads of one register.
Careful(p) ==
    \A i \in 1..(Len(p) - 1) :
        /\ p[i].op = "BNE" => p[i + 1].op = "NOP"
        /\ p[i + 1].op = "NOP" => ~Sensitive(p[i])
        /\ p[i].op = "LW" /\ p[i + 1].op = "LW" => p[i].rt # p[i + 1].rt
FirstPrograms ==
    {Text(p) : p \in {q \in [1..4 -> OlderInsts \cup {I3("SLTI", 4, 3, 9)}] :
                        Careful(q) /\ q[4].op # "BNE"}}

\* Words around zero, the limits and half of them, where sums meet the limits.
LimitWords == UNION {(w - 3)..(w + 3) : w \in {-127, -64, 0, 64, 126}}

Stall == INSTANCE PipeStall WITH MaxCycles <- 2 * MaxCycles, Programs <- StallPrograms
First == INSTANCE PipeFirst WITH MaxCycles <- 2 * MaxCycles, Programs <- FirstPrograms
New == INSTANCE NewInsts WITH Sources <- {3, 4}, Inputs <- LimitWords

ForwardOff ==
    /\ fd = Off /\ de = Off /\ em = Off /\ mw = Off /\ wb = Off /\ ctl = Off /\ mem = Off
    /\ stage = Off /\ sim_num_insn = Off /\ lost = Off

PipesInit ==
    /\ design \in Designs
    /\ \/ design = "forward" /\ TandemInit /\ s = Off /\ done = Off
       \/ design = "stall" /\ Stall!Init /\ ForwardOff /\ R = Off /\ done = Off
       \/ design = "first" /\ First!Init /\ ForwardOff /\ R = Off /\ done = Off
       \/ design = "new" /\ New!Init /\ ForwardOff /\ prog = Off /\ arch = Off /\ s = Off

ForwardStep == design = "forward" /\ TandemNext /\ UNCHANGED <<design, s, done>>

PipesNext ==
    \/ ForwardStep
    \/ design = "stall" /\ Stall!Next /\ UNCHANGED <<design, ofForward, R, done>>
    \/ design = "first" /\ First!Next /\ UNCHANGED <<design, ofForward, R, done>>
    \/ design = "new" /\ New!Next /\ UNCHANGED <<design, prog, arch, ofForward, s>>

\* The simulator is single threaded and only the exit call stops its loop.
PipesSpec == PipesInit /\ [][PipesNext]_allVars /\ WF_allVars(ForwardStep)

\* Loads, stores, branches and jumps around one ALU instruction.
HazardPrograms ==
    {p \in Texts({R3("ADD", 3, 3, 4), I3("LW", 3, 4, 4), I3("LW", 4, 3, 0), I3("SW", 3, 4, 4),
                  Br("BEQ", 3, 4, 2), Br("BNE", 3, 4, 2), Plain("NOP"), Plain("JUMP")}, 4) :
        Exact(p)}

\* Every kind of instruction, and system calls that return, three at a time.
IsaPrograms ==
    {p \in Texts({R3("ADDU", 4, 3, 4), I3("ADDI", 3, 4, -4), Inst("SLL", 0, 3, 4, 1),
                  I3("SLTI", 3, 4, 5), I3("ANDI", 3, 3, 6), R3("MULTU", 0, 3, 4),
                  I3("LW", 4, 3, 0), I3("SW", 4, 3, -4), Br("BNE", 3, 4, 2), Plain("JUMP"),
                  I3("ADDIU", 2, 0, 4), Plain("SYSCALL")}, 3) : Exact(p)}
AllPrograms == HazardPrograms \cup IsaPrograms

\* Two adjacent loads of one register, then a reader of it.
LoadLoadUse == {Text(<<I3("LW", 3, 4, 4), I3("LW", 3, 4, 8), R3("ADD", 3, 3, 4)>>)}

\* The passing run is within the hypotheses of the theorems about PipeForward.
ASSUME MCLoadable == Programs = LoadLoadUse \/ Loadable
-----------------------------------------------------------------------------
(* The properties of the other designs, while they run.                    *)

\* The stalling pipeline of Project1 computes what sim-fast does: the toggled
\* scoreboard stalls every reader long enough and none for ever, and a store
\* reaches memory once what precedes it has retired, and none from a wrong path.
StallingExact == design = "stall" => Stall!StallPrecise /\ Stall!StallMemory /\ Stall!StallEnds

\* The forwarding pipeline of Project1 computes what sim-fast does: forwarding
\* and the load-use stall give every reader the newest value, what bubbles and
\* nops write again is there already, a store writes the forwarded word, once,
\* and a load releases the readers of its register.
FirstExact == design = "first" => First!ForwardPrecise /\ First!ForwardMemory /\ First!ForwardEnds

\* A sum that addOK allows does not wrap, and bitCount counts the ones of the
\* word for 1 and its zeros for 0, sign bit included.
NewInstsExact == design = "new" => New!AddOKSafe /\ New!BitCountExact
=============================================================================
