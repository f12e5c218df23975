--------------------------- MODULE MCSimOutorder ----------------------------
(***************************************************************************)
(* sim-outorder in parts: the pipeline, the registers and the memory of a  *)
(* wrong path, the trace a viewer reads, the memory hierarchy with its     *)
(* latencies, the branch predictor, and the event queue of the library.  A *)
(* behaviour is about one part; the wrong path, the trace and the event    *)
(* queue, whose properties are proved as well, rest in their initial state *)
(* in the behaviours of the others, and the other parts are Off.           *)
(***************************************************************************)
EXTENDS SpecState, PipeTrace, EventQ, TLC

CONSTANT Parts      \* "pipeline", "wrong path", "trace", "memory", "prediction", "events"

VARIABLES
    part,
    m, stage, n, prog, mode,
    opts, run, caches, mem_cycle, mem_phase, pc, delay, tries, arrival, last,
    g, bpred_spec_update, p, fetch_pred_PC, br_ifq, br_ruu, br_spec_mode, recover_PC, sim_num_branches, open, taken,
    writer, unwound

ofPipeline  == <<m, stage, n, prog, mode>>
ofMemory    == <<opts, run, caches, mem_cycle, mem_phase, pc, delay, tries, arrival, last>>
ofPrediction == <<g, bpred_spec_update, p, fetch_pred_PC, br_ifq, br_ruu, br_spec_mode, recover_PC, sim_num_branches,
                  open, taken, writer, unwound>>
vars == <<part, ofPipeline, pathVars, traceVars, ofMemory, queueVars, ofPrediction>>

Off == "off"
-----------------------------------------------------------------------------
NoReg == 0
Ins(op, o1, o2, i1, i2, addr, to) ==
    [op |-> op, o1 |-> o1, o2 |-> o2, i1 |-> i1, i2 |-> i2, i3 |-> NoReg, addr |-> addr, to |-> to]
Plain(op) == Ins(op, NoReg, NoReg, NoReg, NoReg, 0, {})
Alu(o, i1, i2) == Ins("alu", o, NoReg, i1, i2, 0, {})
Mult(i1, i2) == Ins("mult", 1, 2, i1, i2, 0, {})
Load(o, base, addr) == Ins("load", o, NoReg, NoReg, base, addr, {})
Store(value, base, addr) == Ins("store", NoReg, NoReg, value, base, addr, {})
Jump(op, i, to) == Ins(op, NoReg, NoReg, i, NoReg, 0, {to})

Programs ==
    { \* A load the branch waits for, a store and a load to its address behind it.
      <<Load(1, 2, 1), Jump("br", 1, 4), Store(1, 3, 1), Load(2, 3, 1), Alu(1, 1, 2), Plain("exit")>>,
      \* A multiplication with two results, a store whose address and one whose
      \* value waits for it, a load that must not pass them, an indirect jump.
      <<Mult(3, NoReg), Store(3, 2, 1), Load(1, 3, 1), Mult(3, NoReg), Store(1, 3, 1), Load(1, 3, 1),
        Jump("jr", 1, 9), Alu(2, 1, NoReg), Plain("exit")>>,
      \* Jumps over a system call, then a branch around a load into one.
      <<Alu(1, NoReg, NoReg), Jump("jmp", NoReg, 4), Plain("syscall"), Store(1, 1, 0), Jump("br", 1, 7),
        Load(2, 1, 0), Plain("syscall"), Plain("exit")>>,
      \* Two branches that wait for the same load, with stores on both sides.
      <<Load(1, 2, 1), Jump("br", 1, 3), Store(2, 1, 2), Jump("br", 1, 6), Store(1, 2, 2), Load(1, 2, 2),
        Mult(1, 2), Plain("exit")>>,
      \* A branch that waits for nothing: its wrong path is still in the ready list.
      <<Alu(1, NoReg, NoReg), Jump("br", NoReg, 5), Alu(2, 1, NoReg), Alu(1, NoReg, NoReg), Plain("nop"),
        Store(1, 2, 0), Plain("exit")>> }

Default == [inorder |-> FALSE, wrongpath |-> TRUE, bugcompat |-> FALSE, perfect |-> FALSE, max_insts |-> 0]
Modes == {Default, [Default EXCEPT !.inorder = TRUE], [Default EXCEPT !.wrongpath = FALSE],
          [Default EXCEPT !.bugcompat = TRUE], [Default EXCEPT !.perfect = TRUE], [Default EXCEPT !.max_insts = 3]}

Unit(oplat) == [oplat |-> oplat, issuelat |-> 1]
FuConfig == <<[quantity |-> 1, x |-> [IntALU |-> Unit(1)]], [quantity |-> 1, x |-> [IntMULT |-> Unit(3)]],
              [quantity |-> 1, x |-> [RdPort |-> Unit(1), WrPort |-> Unit(1)]]>>

Pipeline == INSTANCE OutOrder WITH RUU_size <- 4, LSQ_size <- 2, ruu_ifq_size <- 2, Width <- 2, Penalty <- 1,
                LoadLats <- {1, 3}, TlbLats <- {1, 2}, MissLat <- 2, LineInsts <- 4, Regs <- {1, 2, 3}, DTMP <- 4,
                MAX_INSTS_PER_CLASS <- 2, MAX_RS_LINKS <- 16, MaxCycles <- 40

\* -ptrace @4:@end, a range of addresses the program enters and leaves again.
TraceSymbols == [s \in {"end"} |-> 6]
TraceRange == <<Text("@", 4), Name("@", "end")>>

\* Latencies that fit into MaxTime, in hierarchies that leave levels out or
\* share them, and settings that are refused.
Short == [mplat |-> 2, dl2lat |-> 2, il2lat |-> 2, mem0 |-> 3, mem1 |-> 1, width |-> 4, tlblat |-> 3]
Hierarchies ==
    {[dl1 |-> h[1], dl2 |-> h[2], il1 |-> h[3], il2 |-> h[4], itlb |-> h[5], dtlb |-> h[5]] :
       h \in {<<"cfg", "cfg", "cfg", "cfg", "none">>, <<"cfg", "none", "cfg", "none", "cfg">>,
              <<"none", "none", "none", "none", "cfg">>, <<"cfg", "cfg", "dl1", "none", "none">>}}
Refused ==
    {[il1 |-> "dl1"], [ruu |-> 3], [memport |-> 9], [dl2 |-> "none"], [pred |-> "comb", twolev_nelt |-> 1],
     [dl1lat |-> 0], [dl1lat |-> 0, dtlb |-> "none"]}
Settings == {s @@ Short : s \in {Short, [il1lat |-> 2, dl1lat |-> 2]} \cup Hierarchies \cup Refused}

Level(assoc) == [nsets |-> 1, assoc |-> assoc, hsize |-> 0, policy |-> "LRU", hit_latency |-> 1]
Memory == INSTANCE OutOrderMem WITH MAX_INSTS_PER_CLASS <- 8, L1 <- Level(1), L2 <- Level(2), TLB <- Level(1),
              BlockSize <- 8, TextBlocks <- {1, 2}, DataBlocks <- {2, 3}, PageBlocks <- 2, MaxTime <- 6,
              sim_cycle <- mem_cycle, phase <- mem_phase

QueuedActs ==
    {[kind |-> "SetBit", bit |-> 1], [kind |-> "ClearBit", bit |-> 1], [kind |-> "SetFlag", value |-> 1],
     [kind |-> "AddOp", addend |-> 2], [kind |-> "Callback", delay |-> 1]}

\* A loop around a call and an indirect call, and a function that may call
\* another one: wrong paths push and pop before they are recovered.
Site(at, op, targets) == [pc |-> at, op |-> op, targets |-> targets]
Sites ==
    {Site(2, {"F_COND", "F_DIRJMP"}, {6}), Site(4, {"F_UNCOND", "F_DIRJMP", "F_CALL"}, {20}),
     Site(6, {"F_UNCOND", "F_CALL", "JALR"}, {20, 24}), Site(8, {"F_UNCOND", "F_DIRJMP"}, {2}),
     Site(20, {"F_COND", "F_DIRJMP"}, {24}), Site(22, {"F_UNCOND", "F_DIRJMP", "F_CALL"}, {24}),
     Site(24, {"F_UNCOND", "JR", "R31"}, {})}
Comb == [class |-> "Comb", bimod_size |-> 2, l1size |-> 1, l2size |-> 2, meta_size |-> 1, shift_width |-> 1, xor |-> TRUE,
         btb_sets |-> 2, btb_assoc |-> 2, retstack_size |-> 2]
Prediction == INSTANCE OutOrderPred WITH Configs <- {Comb, [Comb EXCEPT !.class = "2bit", !.retstack_size = 4]},
                  IfqSize <- 2, RuuSize <- 3, MaxLookups <- 9, ifq <- br_ifq, ruu <- br_ruu, spec_mode <- br_spec_mode
-----------------------------------------------------------------------------
PipelineOff == m = Off /\ stage = Off /\ n = Off /\ prog = Off /\ mode = Off
MemoryOff ==
    /\ opts = Off /\ run = Off /\ caches = Off /\ mem_cycle = Off /\ mem_phase = Off /\ pc = Off /\ delay = Off
    /\ tries = Off /\ arrival = Off /\ last = Off
PredictionOff ==
    /\ g = Off /\ bpred_spec_update = Off /\ p = Off /\ fetch_pred_PC = Off /\ br_ifq = Off /\ br_ruu = Off
    /\ br_spec_mode = Off /\ recover_PC = Off /\ sim_num_branches = Off /\ open = Off /\ taken = Off
    /\ writer = Off /\ unwound = Off

Init ==
    /\ part \in Parts
    /\ PathInit /\ TraceInit /\ QueueInit
    /\ part # "trace" => PC = CHOOSE a \in TextAddrs : TRUE
    /\ IF part = "pipeline" THEN Pipeline!Init ELSE PipelineOff
    /\ IF part = "memory" THEN Memory!Init ELSE MemoryOff
    /\ IF part = "prediction" THEN Prediction!Init ELSE PredictionOff

Next ==
    \/ part = "pipeline" /\ Pipeline!Next /\ UNCHANGED <<part, pathVars, traceVars, ofMemory, queueVars, ofPrediction>>
    \/ part = "wrong path" /\ PathNext /\ UNCHANGED <<part, ofPipeline, traceVars, ofMemory, queueVars, ofPrediction>>
    \/ part = "trace" /\ TraceNext /\ UNCHANGED <<part, ofPipeline, pathVars, ofMemory, queueVars, ofPrediction>>
    \/ part = "memory" /\ Memory!Next /\ UNCHANGED <<part, ofPipeline, pathVars, traceVars, queueVars, ofPrediction>>
    \/ part = "events" /\ QueueNext /\ UNCHANGED <<part, ofPipeline, pathVars, traceVars, ofMemory, ofPrediction>>
    \/ part = "prediction" /\ Prediction!Next /\ UNCHANGED <<part, ofPipeline, pathVars, traceVars, ofMemory, queueVars>>

Spec == Init /\ [][Next]_vars
-----------------------------------------------------------------------------
(* The properties of the other parts, while each is the one considered.    *)

\* What commits is the architectural path, in order and none twice, whatever
\* was predicted, and every program exits.  On the way no panic() is reached,
\* every RS link is in one list or free, and exactly one branch ends a wrong path.
PipelineSound ==
    part = "pipeline" =>
        /\ Pipeline!CommitsInOrder /\ Pipeline!Finishes
        /\ Pipeline!NeverPanics /\ Pipeline!LinksConserved /\ Pipeline!OneWrongPath

\* An operand is ready exactly when the youngest older writer of its register
\* has completed, else that writer has one link that will wake it; and no load
\* is queued before the addresses of all older stores are known and the
\* youngest one to its address has its value.
OperandsExact == part = "pipeline" => Pipeline!OperandsExact /\ Pipeline!LoadsAfterStores

\* With accepted options no load completes in the cycle it issues, and a
\* blocked fetch proceeds when it is tried again, unless a data access or a
\* recovery came between.
LatenciesSound == part = "memory" => Memory!NeverInThePast /\ Memory!FetchProceeds

\* A load never completes before the miss that brings its block into the cache.
NoEarlyData == [][part = "memory" => Memory!NoEarlyData]_vars

\* Whatever wrong paths push and pop, a recovered return stack is at the depth
\* of the program and a return finds the entry of its call if it is still there;
\* updated at dispatch or commit, the predictor learns from the program alone.
PredictorRecovers ==
    part = "prediction" => /\ Prediction!StackRecovered /\ Prediction!ReturnFindsCall
                           /\ Prediction!LearnsFromProgram
=============================================================================
