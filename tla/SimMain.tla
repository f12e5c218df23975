------------------------------- MODULE SimMain ------------------------------
(***************************************************************************)
(* The life of a simulator process (main.c): start-up in its fixed order,  *)
(* the simulation, and the ways out of it.  The simulator proper           *)
(* (sim_main and what it calls) is external: it makes steps, meets an      *)
(* error, lets the program exit, stops early, or is ended from the         *)
(* debugger.                                                               *)
(***************************************************************************)
EXTENDS Integers, FiniteSets, TLAPS

CONSTANTS Codes,    \* exit codes of the simulated program
          MaxInsn   \* bound on the instructions counted (the count then stays)

ASSUME CodesAssumption == Codes \subseteq Int

VARIABLES pc,       \* the next part of main()
          args,     \* what the options processed to
          handlers, \* have the signal handlers been installed?
          running, sim_dump_stats, sim_exit_now, sim_num_insn,
          inited,   \* has sim_init() run?
          registered,\* is sim_sdb there?
          printed,  \* how often the statistics were printed
          uninited, \* how often sim_uninit() ran
          asked,    \* the code the simulated program passed to exit()
          code,     \* exit code of the process, once it is gone
          ending    \* ghost: how it ended

processVars == <<pc, args, handlers, running, sim_dump_stats, sim_exit_now, sim_num_insn,
          inited, registered, printed, uninited, asked, code, ending>>
flags == <<handlers, sim_dump_stats, sim_exit_now>>

\* What the command line may ask for: nothing at all (argc < 2), help, to
\* quit after the initialization, and whether it names an executable.
Options == [empty : BOOLEAN, help_me : BOOLEAN, init_quit : BOOLEAN, exec : BOOLEAN]

Abort == 134                        \* the status abort() leaves
Live  == pc # "gone"

\* The ends at which the simulator is shut down, and those of a simulation
\* that leave its statistics out: quit, "omit any stats dump" (dlite.c:1052),
\* and a register the debugger cannot show.
Orderly == {"init", "limit", "exit", "terminate"}
Silent  == {"quit", "abort"}

\* A mutant: the hook prints whatever the state of the simulation.
MutantPrints == printed + 1

\* printed' after sim_print_stats(): nothing before the simulation runs.
sim_print_stats == IF running THEN printed + 1 ELSE printed

exit(c, way) == code' = c /\ ending' = way /\ pc' = "gone"
exit_now(c, way) ==
  /\ printed' = sim_print_stats
  /\ uninited' = uninited + 1
  /\ exit(c, way)

\* fatal() and panic() call the hook, which main() sets to sim_print_stats.
_fatal == printed' = sim_print_stats /\ exit(1, "error")     /\ UNCHANGED uninited
_panic == printed' = sim_print_stats /\ exit(Abort, "error") /\ UNCHANGED uninited

Prepare ==
  /\ pc = "signals"
  /\ handlers' = TRUE /\ pc' = "options"
  /\ UNCHANGED <<args, running, sim_dump_stats, sim_exit_now, sim_num_insn, inited, registered, printed, uninited, asked, code, ending>>

ProcessOptions ==
  /\ pc = "options"
  /\ args' \in {o \in Options : o.empty => o = [empty |-> TRUE, help_me |-> FALSE, init_quit |-> FALSE, exec |-> FALSE]}
  /\ pc' = "redirect"
  /\ UNCHANGED <<handlers, running, sim_dump_stats, sim_exit_now, sim_num_insn, inited, registered, printed, uninited, asked, code, ending>>

\* The output files, the banner, help, the seed and the executable: each
\* reason to stop here exits without statistics.
UsageExit == args.empty \/ args.help_me \/ ~args.exec
Redirect ==
  /\ pc = "redirect"
  /\ IF UsageExit THEN exit(1, "usage") ELSE pc' = "check" /\ UNCHANGED <<code, ending>>
  /\ UNCHANGED <<args, flags, running, sim_num_insn, inited, registered, printed, uninited, asked>>

\* sim_check_options(), the priority, the decoder and sim_init().
Initialize ==
  /\ pc = "check"
  /\ inited' = TRUE /\ sim_num_insn' = 0 /\ pc' = "load"
  /\ UNCHANGED <<args, flags, running, registered, printed, uninited, asked, code, ending>>

\* sim_load_prog(), stat_new() and sim_reg_stats().
Load ==
  /\ pc = "load"
  /\ registered' = TRUE /\ pc' = "announce"
  /\ UNCHANGED <<args, flags, running, sim_num_insn, inited, printed, uninited, asked, code, ending>>

\* A trace with arguments is refused by ld_load_prog().
RefuseTrace ==
  /\ pc = "load"
  /\ exit(1, "usage")
  /\ UNCHANGED <<args, flags, running, sim_num_insn, inited, registered, printed, uninited, asked>>

\* A mutant: -q leaves through the exit of the usage message.
MutantQuits ==
  /\ pc = "announce"
  /\ IF args.init_quit THEN exit(0, "init") /\ UNCHANGED <<running, printed, uninited>>
     ELSE running' = TRUE /\ pc' = "simulate" /\ UNCHANGED <<printed, uninited, code, ending>>
  /\ UNCHANGED <<args, flags, sim_num_insn, inited, registered, asked>>
Announce ==
  /\ pc = "announce"
  /\ IF args.init_quit THEN exit_now(0, "init") /\ UNCHANGED running
     ELSE running' = TRUE /\ pc' = "simulate" /\ UNCHANGED <<printed, uninited, code, ending>>
  /\ UNCHANGED <<args, flags, sim_num_insn, inited, registered, asked>>

---------------------------------------------------------------------------
(* The simulation.                                                         *)

sim_main ==
  /\ pc = "simulate"
  /\ sim_num_insn' = IF sim_num_insn < MaxInsn THEN sim_num_insn + 1 ELSE sim_num_insn
  /\ UNCHANGED <<pc, args, flags, running, inited, registered, printed, uninited, asked, code, ending>>

\* sim_main() returns: an instruction or cycle limit was reached.
Returns ==
  /\ pc = "simulate"
  /\ exit_now(0, "limit")
  /\ UNCHANGED <<args, flags, running, sim_num_insn, inited, registered, asked>>

\* The program's exit(c): longjmp() to main(), which cannot pass zero.
longjmp(v) == IF v = 0 THEN 1 ELSE v

\* A mutant: the code is passed to longjmp() as it is.
MutantExit(c) ==
  /\ pc = "simulate"
  /\ asked' = c
  /\ exit_now(longjmp(c) - 1, "exit")
  /\ UNCHANGED <<args, flags, running, sim_num_insn, inited, registered>>
TargetExit(c) ==
  /\ pc = "simulate"
  /\ asked' = c
  /\ exit_now(longjmp(c + 1) - 1, "exit")
  /\ UNCHANGED <<args, flags, running, sim_num_insn, inited, registered>>

\* terminate and quit of the debugger, and a register it cannot show
\* (simoo_reg_obj), wherever sim_main() has entered it.
dlite_terminate ==
  /\ pc = "simulate"
  /\ exit_now(longjmp(1) - 1, "terminate")
  /\ UNCHANGED <<args, flags, running, sim_num_insn, inited, registered, asked>>
dlite_quit ==
  /\ pc = "simulate"
  /\ exit(1, "quit")
  /\ UNCHANGED <<args, flags, running, sim_num_insn, inited, registered, printed, uninited, asked>>
simoo_reg_obj ==
  /\ pc = "simulate"
  /\ exit(Abort, "abort")
  /\ UNCHANGED <<args, flags, running, sim_num_insn, inited, registered, printed, uninited, asked>>

\* fatal() and panic() are reached from every part of start-up and from the
\* simulation.
CanFail == pc \in {"options", "redirect", "check", "load", "simulate"}
Fails ==
  /\ CanFail
  /\ _fatal \/ _panic
  /\ UNCHANGED <<args, flags, running, sim_num_insn, inited, registered, asked>>

---------------------------------------------------------------------------
(* Signals arrive at any time; before the handlers are there they kill.    *)
(* The flags the handlers set are read nowhere, though main.c:235 and :238 *)
(* announce statistics: a signal prints none.                              *)

Killed == exit(138, "signal") /\ UNCHANGED <<sim_dump_stats, sim_exit_now>>
signal_sim_stats ==
  /\ Live
  /\ IF handlers THEN sim_dump_stats' = TRUE /\ UNCHANGED <<sim_exit_now, pc, code, ending>> ELSE Killed
  /\ UNCHANGED <<args, handlers, running, sim_num_insn, inited, registered, printed, uninited, asked>>
signal_exit_now ==
  /\ Live
  /\ IF handlers THEN sim_exit_now' = TRUE /\ UNCHANGED <<sim_dump_stats, pc, code, ending>> ELSE Killed
  /\ UNCHANGED <<args, handlers, running, sim_num_insn, inited, registered, printed, uninited, asked>>

ProcessInit ==
  /\ pc = "signals" /\ handlers = FALSE /\ running = FALSE
  /\ args = [empty |-> TRUE, help_me |-> FALSE, init_quit |-> FALSE, exec |-> FALSE]
  /\ sim_dump_stats = FALSE /\ sim_exit_now = FALSE /\ sim_num_insn = 0
  /\ inited = FALSE /\ registered = FALSE /\ printed = 0 /\ uninited = 0 /\ asked = 0 /\ code = 0
  /\ ending = "none"

Main == Prepare \/ ProcessOptions \/ Redirect \/ Initialize \/ Load \/ Announce \/ sim_main
Ends == \/ Returns \/ RefuseTrace \/ Fails \/ (\E c \in Codes : TargetExit(c))
        \/ dlite_terminate \/ dlite_quit \/ simoo_reg_obj
ProcessNext == Main \/ Ends \/ signal_sim_stats \/ signal_exit_now

ProcessSpec == ProcessInit /\ [][ProcessNext]_processVars

---------------------------------------------------------------------------
\* A process that simulated has printed its final statistics once when it is
\* gone, unless it was ended from the debugger by quit or by a register that
\* cannot be shown; one that did not has printed none: sim_print_stats() is
\* both the end of main() and the hook of every error.
StatsOnce == ~Live => printed = IF running /\ ending \notin Silent THEN 1 ELSE 0

\* The process exits with the code of the simulated program, zero included,
\* though it travels through longjmp(); only exit(-1) ends as 0, because
\* longjmp() is then given a zero.  It exits with 0 at a limit and when
\* terminated, and not with 0 when it failed or was told to quit.
CodeKept ==
  /\ ending = "exit" => code = IF asked = -1 THEN 0 ELSE asked
  /\ ending \in {"init", "limit", "terminate"} => code = 0
  /\ ending \in {"usage", "error", "signal"} \cup Silent => code # 0

\* An orderly end shuts the simulator down once, after its initialization; no
\* other end does.
Shutdown == (uninited > 0 => inited) /\ (~Live => uninited = IF ending \in Orderly THEN 1 ELSE 0)

\* A simulated process ends as it should.
ProcessEnds == StatsOnce /\ CodeKept /\ Shutdown
---------------------------------------------------------------------------
(* The proof that a process ends as it should.                             *)

\* Where main() is tells what has been done.
Positions == {"signals", "options", "redirect", "check", "load", "announce", "simulate", "gone"}
Position ==
  /\ pc \in Positions /\ (Live => ending = "none")
  /\ pc \in {"signals", "options", "redirect", "check"} => inited = FALSE
  /\ pc \in {"load", "announce", "simulate"} => inited = TRUE
  /\ pc \in {"announce", "simulate"} => registered = TRUE
  /\ pc = "simulate" => running = TRUE
  /\ pc \notin {"simulate", "gone"} => running = FALSE
  /\ pc \notin {"signals", "gone"} => handlers = TRUE

\* Nothing is printed or shut down before the end.
NotYet == Live => printed = 0 /\ uninited = 0
EndInv == Position /\ NotYet /\ ProcessEnds

\* A process that has not started has done nothing.
LEMMA StartEndInv == ProcessInit => EndInv
  BY DEF ProcessInit, EndInv, Position, Positions, NotYet, ProcessEnds, StatsOnce, CodeKept, Shutdown, Live, Orderly, Silent

\* Every part of main(), every way out of it and every signal keeps EndInv.
LEMMA StepEndInv ==
  ASSUME EndInv, [ProcessNext]_processVars
  PROVE  EndInv'
  <1> USE DEF Abort, EndInv, Position, Positions, NotYet, ProcessEnds, StatsOnce, CodeKept, Shutdown, Live, Orderly, Silent, flags
  <1>1. CASE Prepare
    BY <1>1 DEF Prepare
  <1>2. CASE ProcessOptions
    BY <1>2 DEF ProcessOptions
  <1>3. CASE Redirect
    BY <1>3 DEF Redirect, exit
  <1>4. CASE Initialize
    BY <1>4 DEF Initialize
  <1>5. CASE Load
    BY <1>5 DEF Load
  <1>6. CASE Announce
    BY <1>6 DEF Announce, exit_now, exit, sim_print_stats
  <1>7. CASE sim_main
    BY <1>7 DEF sim_main
  <1>8. CASE Returns
    BY <1>8 DEF Returns, exit_now, exit, sim_print_stats
  <1>9. CASE Fails
    BY <1>9 DEF Fails, CanFail, _fatal, _panic, exit, sim_print_stats
  <1>10. ASSUME NEW c \in Codes, TargetExit(c)
         PROVE  EndInv'
    <2>1. c \in Int
      BY CodesAssumption
    <2>2. longjmp(c + 1) - 1 = IF c = -1 THEN 0 ELSE c
      BY <2>1 DEF longjmp
    <2> QED
      BY <1>10, <2>1, <2>2 DEF TargetExit, exit_now, exit, sim_print_stats
  <1>11. CASE signal_sim_stats
    BY <1>11 DEF signal_sim_stats, Killed, exit
  <1>12. CASE signal_exit_now
    BY <1>12 DEF signal_exit_now, Killed, exit
  <1>13. CASE RefuseTrace
    BY <1>13 DEF RefuseTrace, exit
  <1>14. CASE dlite_terminate
    BY <1>14 DEF dlite_terminate, exit_now, exit, sim_print_stats, longjmp
  <1>15. CASE dlite_quit \/ simoo_reg_obj
    BY <1>15 DEF dlite_quit, simoo_reg_obj, exit
  <1>16. CASE UNCHANGED processVars
    BY <1>16 DEF processVars
  <1> QED
    BY <1>1, <1>2, <1>3, <1>4, <1>5, <1>6, <1>7, <1>8, <1>9, <1>10, <1>11, <1>12, <1>13, <1>14,
       <1>15, <1>16
    DEF ProcessNext, Main, Ends

\* Whatever codes the program may exit with and however a process ends, it has
\* printed its final statistics once if it simulated and was not ended silently
\* from the debugger, and else not; it exits with the code of the program but
\* for exit(-1); and the simulator is shut down exactly at the orderly ends.
THEOREM ProcessEndsWell ==
  ProcessSpec => []ProcessEnds
  <1>1. EndInv /\ [ProcessNext]_processVars => EndInv'
    BY StepEndInv
  <1>2. EndInv => ProcessEnds
    BY DEF EndInv
  <1> QED
    BY <1>1, <1>2, StartEndInv, PTL DEF ProcessSpec
=============================================================================
