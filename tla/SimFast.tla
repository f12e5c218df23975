------------------------------ MODULE SimFast -------------------------------
(***************************************************************************)
(* The functional simulator sim-fast (Project1/part1/sim-fast.c): one      *)
(* instruction of machine.def per iteration of sim_main, registers and     *)
(* memory updated at once.  It is the meaning of a program that the        *)
(* pipelines are compared with.                                            *)
(***************************************************************************)
EXTENDS Pisa

CONSTANTS
    InitRegs,       \* the registers ld_load_prog leaves behind
    InitData,       \* the data memory it leaves behind
    EntryPC,        \* the program entry point
    Programs,       \* the programs considered: functions address -> instruction
    SysReturns      \* what system calls that return may leave in $2 and $7

VARIABLES
    prog,           \* the program text
    arch            \* registers, data memory, regs_PC and sim_num_insn

ArchInit == ArchAt(InitRegs, InitData, EntryPC)

Init ==
    /\ prog \in Programs
    /\ arch = ArchInit

\* One iteration of the loop on state s, and that of a call that returns r.
Step(s) == StepOf(prog, s)
SysStep(s, r) == SysStepOf(prog, s, r)

AtExit == Fetch(prog, arch.PC).op = "SYSCALL" /\ arch.R[V0] = SYS_exit

\* The loop stops only at the exit system call; a bogus opcode panics.
Next ==
    /\ Fetch(prog, arch.PC).op # "NA"
    /\ UNCHANGED prog
    /\ \/ /\ Fetch(prog, arch.PC).op # "SYSCALL"
          /\ arch' = Step(arch)
       \/ /\ Fetch(prog, arch.PC).op = "SYSCALL"
          /\ ~AtExit
          /\ \E r \in SysReturns : arch' = SysStep(arch, r)

Spec == Init /\ [][Next]_<<prog, arch>>
=============================================================================
