------------------------------ MODULE PipeTrace -----------------------------
(***************************************************************************)
(* The pipetrace of sim-outorder (ptrace.c, ptrace.h): it is switched on   *)
(* for the first stretch of cycles in a range, and tells a viewer which    *)
(* instructions are in the pipeline.  Of the pipeline only the queues the  *)
(* events are about are kept: the fetch queue and the RUU, whose memory    *)
(* operations own an LSQ entry with a sequence number of its own.          *)
(***************************************************************************)
EXTENDS Ranges, Sequences, FiniteSets, SequencesExt

CONSTANTS Range1,              \* the range of -ptrace: its two ends
          TextAddrs,           \* where the program counter may be
          IfqSize, RuuSize,
          MaxSeq, MaxCycle     \* bounds: instructions fetched, cycles

ASSUME SizesAssumption == RuuSize \in Nat

VARIABLES sim_cycle, sim_num_insn, PC,
          phase,               \* the next stage of this cycle
          ptrace_active, ptrace_oneshot, ptrace_seq,
          ifq, ruu,            \* sequence numbers; of the RUU [s, u], u = 0 without an LSQ entry
          defined, ended,      \* the numbers the trace says "+" and "-" of
          dropped,             \* ghost: instructions a redirected fetch dropped
          since,               \* ghost: the first number given out under the trace
          inside, traced       \* ghost: of each cycle, was it in the range, was it traced?

now  == <<sim_cycle, sim_num_insn, PC>>
sw   == <<ptrace_active, ptrace_oneshot>>
ghost == <<dropped, since, inside, traced>>
traceVars == <<now, phase, sw, ptrace_seq, ifq, ruu, defined, ended, ghost>>

ptrace_range == range_parse_range(Range1[1], Range1[2])
InRange == range_cmp_range1(ptrace_range, PC, sim_num_insn, sim_cycle) = 0

\* A mutant: the switch is not a one-shot.
MutantSwitch == ptrace_active' = InRange /\ ptrace_oneshot' = ptrace_oneshot

ptrace_check_active ==
  IF InRange THEN /\ ptrace_active' = (ptrace_active \/ ~ptrace_oneshot)
                  /\ ptrace_oneshot' = TRUE
  ELSE ptrace_active' = FALSE /\ UNCHANGED ptrace_oneshot

ptrace_newinst(S) == defined' = IF ptrace_active THEN defined \cup S ELSE defined
ptrace_endinst(S) == ended' = IF ptrace_active THEN ended \cup S ELSE ended

Seqs(e) == {e.s} \cup (IF e.u = 0 THEN {} ELSE {e.u})
AllSeqs(q) == UNION {Seqs(q[j]) : j \in DOMAIN q}

\* The top of the loop of sim_main().
NewCycle ==
  /\ phase = "cycle" /\ sim_cycle < MaxCycle
  /\ ptrace_check_active
  /\ since' = IF ptrace_active' /\ ~ptrace_active THEN ptrace_seq ELSE since
  /\ inside' = Append(inside, InRange)
  /\ traced' = Append(traced, ptrace_active')
  /\ phase' = "commit"
  /\ UNCHANGED <<now, ptrace_seq, ifq, ruu, defined, ended, dropped>>

\* ruu_commit() retires the oldest n instructions.
ruu_commit(n) ==
  /\ phase = "commit" /\ n <= Len(ruu)
  /\ ptrace_endinst(AllSeqs(SubSeq(ruu, 1, n)))
  /\ ruu' = SubSeq(ruu, n + 1, Len(ruu))
  /\ phase' = "recover"
  /\ UNCHANGED <<now, sw, ptrace_seq, ifq, defined, ghost>>

\* A mutant: the fetch queue is emptied without a word.
MutantRecover(b) ==
  /\ phase = "recover"
  /\ ptrace_endinst(AllSeqs(SubSeq(ruu, b + 1, Len(ruu))))
  /\ ruu' = SubSeq(ruu, 1, b)
  /\ ifq' = <<>>
  /\ phase' = "dispatch"
  /\ UNCHANGED <<now, sw, ptrace_seq, defined, ghost>>

\* ruu_recover() and tracer_recover(): the entries behind branch b, and the
\* fetch queue.
Recover(b) ==
  /\ phase = "recover"
  /\ ptrace_endinst(AllSeqs(SubSeq(ruu, b + 1, Len(ruu))) \cup ToSet(ifq))
  /\ ruu' = SubSeq(ruu, 1, b)
  /\ ifq' = <<>>
  /\ phase' = "dispatch"
  /\ UNCHANGED <<now, sw, ptrace_seq, defined, ghost>>
NoRecover ==
  /\ phase = "recover" /\ phase' = "dispatch"
  /\ UNCHANGED <<now, sw, ptrace_seq, ifq, ruu, defined, ended, ghost>>

\* ruu_dispatch() of one instruction: a NOP ends here, a memory operation
\* gets an LSQ entry that is declared as an operation of its own.
ruu_dispatch(kind) ==
  /\ phase = "dispatch" /\ ifq # <<>> /\ Len(ruu) < RuuSize
  /\ kind = "mem" => ptrace_seq <= MaxSeq
  /\ LET s == Head(ifq)
         u == IF kind = "mem" THEN ptrace_seq ELSE 0
     IN /\ ruu' = IF kind = "nop" THEN ruu ELSE Append(ruu, [s |-> s, u |-> u])
        /\ ptrace_newinst({u} \ {0})
        /\ ptrace_endinst(IF kind = "nop" THEN {s} ELSE {})
  /\ ptrace_seq' = IF kind = "mem" THEN ptrace_seq + 1 ELSE ptrace_seq
  /\ ifq' = Tail(ifq)
  /\ UNCHANGED <<now, phase, sw, ghost>>

\* A branch predicted taken to another address than it computes redirects the
\* fetch as it is dispatched: the rest of the queue is dropped.
Redirect ==
  /\ phase = "dispatch" /\ ifq # <<>> /\ Len(ruu) < RuuSize
  /\ ruu' = Append(ruu, [s |-> Head(ifq), u |-> 0])
  /\ ifq' = <<>>
  /\ dropped' = dropped \cup ToSet(Tail(ifq))
  /\ UNCHANGED <<now, phase, sw, ptrace_seq, defined, ended, since, inside, traced>>

EndDispatch ==
  /\ phase = "dispatch" /\ phase' = "fetch"
  /\ UNCHANGED <<now, sw, ptrace_seq, ifq, ruu, defined, ended, ghost>>

ruu_fetch ==
  /\ phase = "fetch" /\ Len(ifq) < IfqSize /\ ptrace_seq <= MaxSeq
  /\ ifq' = Append(ifq, ptrace_seq)
  /\ ptrace_newinst({ptrace_seq})
  /\ ptrace_seq' = ptrace_seq + 1
  /\ UNCHANGED <<now, phase, sw, ruu, ended, ghost>>

\* The end of a cycle: the architected program moved on.
EndCycle(n, pc) ==
  /\ phase = "fetch"
  /\ sim_cycle' = sim_cycle + 1 /\ sim_num_insn' = sim_num_insn + n /\ PC' = pc
  /\ phase' = "cycle"
  /\ UNCHANGED <<sw, ptrace_seq, ifq, ruu, defined, ended, ghost>>

TraceInit ==
  /\ sim_cycle = 0 /\ sim_num_insn = 0 /\ PC \in TextAddrs /\ phase = "cycle"
  /\ ptrace_active = FALSE /\ ptrace_oneshot = FALSE /\ ptrace_seq = 1
  /\ ifq = <<>> /\ ruu = <<>> /\ defined = {} /\ ended = {}
  /\ dropped = {} /\ since = 0 /\ inside = <<>> /\ traced = <<>>

TraceNext ==
  \/ NewCycle \/ NoRecover \/ Redirect \/ EndDispatch \/ ruu_fetch
  \/ \E n \in 0..RuuSize : ruu_commit(n)
  \/ \E b \in 1..Len(ruu) : Recover(b)
  \/ \E k \in {"mem", "nop", "alu"} : ruu_dispatch(k)
  \/ \E n \in 0..1, pc \in TextAddrs : EndCycle(n, pc)
TraceSpec == TraceInit /\ [][TraceNext]_traceVars

---------------------------------------------------------------------------
\* The traced cycles are the first stretch of cycles in the range, all of it
\* and nothing after it: turning a trace on twice confuses the viewer.
FirstStretch == \A k \in DOMAIN traced :
  traced[k] <=> inside[k] /\ ~\E i \in 1..k, j \in 1..k : i < j /\ j < k /\ inside[i] /\ ~inside[j]

Flight == AllSeqs(ruu) \cup ToSet(ifq)

\* While the trace is on, the instructions a viewer takes to be in the
\* pipeline are those fetched under the trace that are in it, apart from the
\* ones a redirected fetch dropped.
ViewerSees == ptrace_active => (defined \ ended) \ dropped = {s \in Flight : s >= since}

\* The trace is right: when it is on, and what it tells a viewer.
TraceExact == FirstStretch /\ ViewerSees
=============================================================================
