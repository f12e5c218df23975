-------------------------------- MODULE Dlite -------------------------------
(***************************************************************************)
(* The DLite debugger (dlite.c) under the main loop of sim-safe: breaks on *)
(* code, data and ranges, single steps, continuation, and the memory dump  *)
(* and disassembly commands that keep an address of their own.             *)
(*                                                                         *)
(* The simulated program is a table from addresses to what an instruction  *)
(* refers to and where it jumps (target 0: to the next instruction).  The  *)
(* commands that only print (regs, stats, symbols, display, ...) change no *)
(* state and are one command "show"; one that is refused is "bad".         *)
(***************************************************************************)
EXTENDS Ranges, Sequences, FiniteSets, SequencesExt

CONSTANTS Prog, Entry, Size,       \* the program, its entry point, sizeof(md_inst_t)
          Interactive,             \* the values of the option -i to start with
          Users,                   \* [commands, max, extra]: the command lines a user may type, how many,
                                   \* and how far a code break reaches: 1, on the Alpha 9 bytes
          BYTES_PER_LINE, LINES_PER_SCREEN, INSTS_PER_SCREEN,
          MaxInsn                  \* bound: max_insts

VARIABLES user,                    \* who debugs
          mode,                    \* "start", "run", "debug", "done", "exit" or "panic"
          PC, NPC, sim_num_insn,
          dlite_active, dlite_check, dlite_return, dlite_bps, break_id,
          cmd,                     \* the last command, repeated by an empty line
          dump_addr, dis_addr,     \* where dump and dis go on
          cmds,                    \* commands typed so far
          atEntry,                 \* is this the debugger entry before the first instruction?
          how,                     \* ghost: what the user last asked for, and where to go on
          shown                    \* ghost: addresses the last dump printed

core == <<PC, NPC, sim_num_insn>>
brks == <<dlite_check, dlite_bps, break_id>>
outs == <<dump_addr, dis_addr, shown>>
vars == <<user, mode, core, dlite_active, brks, dlite_return, cmd, outs, cmds, atEntry, how>>

C(c, a, x) == [c |-> c, a |-> a, x |-> x, r |-> <<>>]
R(from, to, x) == [c |-> "rbreak", a |-> 0, x |-> x, r |-> <<from, to>>]
Empty == C("", 0, {})

---------------------------------------------------------------------------
(* Breakpoints, the newest first.                                          *)

set_break(req, class, start, end) ==
  /\ dlite_bps' = <<[id |-> break_id, class |-> class, start |-> start, end |-> end, req |-> req]>> \o dlite_bps
  /\ break_id' = break_id + 1
  /\ dlite_check' = TRUE

\* A mutant: the checks are cancelled with any deletion.
MutantDelete(id) ==
  /\ dlite_bps' = SelectSeq(dlite_bps, LAMBDA b : b.id # id)
  /\ dlite_check' = IF dlite_bps' = dlite_bps THEN dlite_check ELSE FALSE
  /\ UNCHANGED break_id

delete_break(id) ==
  /\ dlite_bps' = SelectSeq(dlite_bps, LAMBDA b : b.id # id)
  /\ dlite_check' = IF dlite_bps' = dlite_bps THEN dlite_check ELSE dlite_bps' # <<>>
  /\ UNCHANGED break_id

Hit(b, npc, access, addr, icount) ==
  CASE b.start.t = "addr" -> \/ "x" \in b.class /\ range_cmp_range(b, npc) = 0
                             \/ "r" \in b.class /\ access = "r" /\ range_cmp_range(b, addr) = 0
                             \/ "w" \in b.class /\ access = "w" /\ range_cmp_range(b, addr) = 0
    [] OTHER              -> range_cmp_range(b, icount) = 0         \* the cycle is the instruction count

__check_break(npc, access, addr, icount) ==
  dlite_active \/ \E j \in DOMAIN dlite_bps : Hit(dlite_bps[j], npc, access, addr, icount)
dlite_check_break(npc, access, addr, icount) ==
  (dlite_check \/ dlite_active) /\ __check_break(npc, access, addr, icount)

---------------------------------------------------------------------------
(* The simulator's main loop.                                              *)

\* dlite_main() as it is entered.
dlite_main == mode' = "debug" /\ dlite_active' = TRUE /\ dlite_return' = FALSE

\* What an instruction passes for its memory access: a load's and every other
\* instruction's is a read, at address 0 when it has none.
Access(i)  == IF i.acc = "write" THEN "w" ELSE "r"
RefAddr(i) == IF i.acc = "none" THEN 0 ELSE i.addr

Start ==
  /\ mode = "start"
  /\ NPC' = PC + Size
  /\ IF dlite_check_break(PC, "none", 0, 0)
       THEN dlite_main /\ atEntry' = TRUE
       ELSE mode' = "run" /\ UNCHANGED <<dlite_active, dlite_return, atEntry>>
  /\ UNCHANGED <<user, PC, sim_num_insn, brks, cmd, outs, cmds, how>>

Advance(npc) == PC' = npc /\ NPC' = npc + Size
Limit(n)     == IF n >= MaxInsn THEN "done" ELSE "run"

Exec ==
  /\ mode = "run"
  /\ sim_num_insn' = sim_num_insn + 1
  /\ LET i   == Prog[PC]
         npc == IF i.target = 0 THEN NPC ELSE i.target
     IN IF dlite_check_break(npc, Access(i), RefAddr(i), sim_num_insn + 1)
          THEN dlite_main /\ NPC' = npc /\ UNCHANGED PC
          ELSE Advance(npc) /\ mode' = Limit(sim_num_insn') /\ UNCHANGED <<dlite_active, dlite_return>>
  /\ atEntry' = FALSE
  /\ UNCHANGED <<user, brks, cmd, outs, cmds, how>>

\* A mutant: the call before the loop taken for the one at its end.
MutantLeave ==
  /\ mode = "debug" /\ (~dlite_active \/ dlite_return)
  /\ Advance(NPC) /\ mode' = Limit(sim_num_insn)
  /\ UNCHANGED <<user, sim_num_insn, dlite_active, brks, dlite_return, cmd, outs, cmds, atEntry, how>>

\* The loop of dlite_main() ends and the simulator goes on behind its call.
Leave ==
  /\ mode = "debug" /\ (~dlite_active \/ dlite_return)
  /\ IF atEntry THEN mode' = "run" /\ UNCHANGED <<PC, NPC>>
     ELSE Advance(NPC) /\ mode' = Limit(sim_num_insn)
  /\ UNCHANGED <<user, sim_num_insn, dlite_active, brks, dlite_return, cmd, outs, cmds, atEntry, how>>

---------------------------------------------------------------------------
(* The commands.                                                           *)

dlite_break(c)  == set_break(c, {"x"}, At(c.a), At(c.a + user.extra))
dlite_dbreak(c) == set_break(c, IF c.x = {} THEN {"r", "w"} ELSE c.x, At(c.a), At(c.a + 1))
dlite_rbreak(c) ==
  LET r == range_parse_range(c.r[1], c.r[2]) IN
  IF ~r.ok \/ r.start.t # r.end.t \/ r.start.v > r.end.v THEN UNCHANGED brks
  ELSE set_break(c, IF c.x = {} THEN {"r", "w", "x"} ELSE c.x, r.start, r.end)
dlite_clear == dlite_bps' = <<>> /\ dlite_check' = (dlite_check /\ dlite_bps = <<>>) /\ UNCHANGED break_id

\* cont and cont <addr>: the address is written to the program counter.
dlite_cont(c) ==
  /\ dlite_active' = FALSE /\ dlite_return' = TRUE
  /\ how' = [ask |-> "cont", at |-> c.a]
  /\ PC' = IF c.a = 0 THEN PC ELSE c.a
  /\ UNCHANGED <<NPC, sim_num_insn>>
dlite_step == dlite_active' = TRUE /\ dlite_return' = TRUE /\ how' = [ask |-> "step", at |-> 0] /\ UNCHANGED core

\* dump <addr> <cnt>: a single line starts at the line's boundary, several
\* lines show the bytes from <addr> on, while no more than <cnt> are shown.
Line(a) == (a \div BYTES_PER_LINE) * BYTES_PER_LINE
Lines(n) == (n + BYTES_PER_LINE - 1) \div BYTES_PER_LINE

\* A mutant: the line's boundary also where the next dump goes on.
MutantDump(a, n) ==
  LET last == a + n < Line(a) + Lines(n) * BYTES_PER_LINE
      end  == IF last THEN a + n ELSE Line(a) + Lines(n) * BYTES_PER_LINE - 1
  IN IF Lines(n) = 1 THEN [bytes |-> [j \in 1..n |-> Line(a) + j - 1], next |-> a + n]
     ELSE [bytes |-> [j \in 1..(end - a + 1) |-> a + j - 1], next |-> Line(a) + Lines(n) * BYTES_PER_LINE + 1]

Dump(a, n) ==
  LET last == a + n < Line(a) + Lines(n) * BYTES_PER_LINE
      end  == IF last THEN a + n ELSE Line(a) + Lines(n) * BYTES_PER_LINE - 1
  IN IF Lines(n) = 1 THEN [bytes |-> [j \in 1..n |-> Line(a) + j - 1], next |-> a + n]
     ELSE [bytes |-> [j \in 1..(end - a + 1) |-> a + j - 1], next |-> end + 1]

dlite_dump(c) ==
  LET n == IF c.x = {} THEN LINES_PER_SCREEN * BYTES_PER_LINE ELSE CHOOSE k \in c.x : TRUE
      a == IF c.a = 0 THEN dump_addr ELSE c.a
      d == Dump(a, n)
  IN IF Lines(n) < 1 THEN mode' = "panic" /\ UNCHANGED <<dump_addr, shown>>
     ELSE dump_addr' = d.next /\ shown' = [from |-> a, asked |-> n, bytes |-> d.bytes] /\ UNCHANGED mode

dlite_dis(c) ==
  LET a == IF c.a = 0 THEN dis_addr ELSE c.a IN
  dis_addr' = IF a % Size # 0 THEN a ELSE a + INSTS_PER_SCREEN * Size

Quits(c) == c.c \in {"quit", "terminate"}

dlite_exec(t) ==
  /\ mode = "debug" /\ dlite_active /\ ~dlite_return /\ cmds < user.max
  /\ cmds' = cmds + 1
  /\ cmd' = IF t = Empty THEN cmd ELSE t
  /\ LET c == cmd' IN
     /\ CASE c.c = "break"  -> dlite_break(c)
          [] c.c = "dbreak" -> dlite_dbreak(c)
          [] c.c = "rbreak" -> dlite_rbreak(c)
          [] c.c = "delete" -> delete_break(c.a)
          [] c.c = "clear"  -> dlite_clear
          [] OTHER          -> UNCHANGED brks
     /\ CASE c.c = "cont"   -> dlite_cont(c)
          [] c.c = "step"   -> dlite_step
          [] OTHER          -> UNCHANGED <<core, dlite_active, dlite_return, how>>
     /\ CASE c.c = "dump"   -> dlite_dump(c) /\ UNCHANGED dis_addr
          [] c.c = "dis"    -> dlite_dis(c) /\ UNCHANGED <<mode, dump_addr, shown>>
          [] OTHER          -> mode' = (IF Quits(c) THEN "exit" ELSE mode) /\ UNCHANGED outs
  /\ UNCHANGED <<user, atEntry>>

Init ==
  /\ user \in Users
  /\ mode = "start" /\ PC = Entry /\ NPC = 0 /\ sim_num_insn = 0
  /\ dlite_active \in Interactive /\ dlite_check = FALSE /\ dlite_return = FALSE
  /\ dlite_bps = <<>> /\ break_id = 1 /\ cmd = Empty /\ dump_addr = 0 /\ dis_addr = 0
  /\ cmds = 0 /\ atEntry = FALSE /\ shown = [from |-> 0, asked |-> 0, bytes |-> <<>>]
  /\ how = [ask |-> IF dlite_active THEN "step" ELSE "cont", at |-> 0]

Next == Start \/ Exec \/ Leave \/ \E t \in user.commands : dlite_exec(t)
Spec == Init /\ [][Next]_vars

---------------------------------------------------------------------------
\* What the user asked for with a break command, of an instruction that goes
\* on at npc.  A range includes both its ends, so that dbreak also stops at the
\* byte behind its address (dlite.c:1954), and break on the Alpha at the
\* instructions behind it, where a function is entered that has its $GP
\* (dlite.c:1903); an access is at the address of its first byte.
Wanted(q, i, npc, n) ==
  LET data(S, x) == i.acc # "none" /\ i.addr \in S /\ (IF i.acc = "read" THEN "r" ELSE "w") \in x
      class == IF q.x # {} THEN q.x ELSE IF q.c = "dbreak" THEN {"r", "w"} ELSE {"r", "w", "x"}
      at(p)  == IF p.name = "" THEN p.n ELSE Symbols[p.name]
      from   == IF q.r[1] = None THEN 0 ELSE at(q.r[1])
      span   == CASE q.c = "break"  -> q.a..(q.a + user.extra)
                  [] q.c = "dbreak" -> {q.a, q.a + 1}
                  [] q.c = "rbreak" -> from..(IF q.r[2] = None THEN Far
                                              ELSE IF q.r[2].mark = "+" THEN from + q.r[2].n ELSE at(q.r[2]))
  IN CASE q.c = "break" -> npc \in span
       [] q.c = "rbreak" /\ q.r[1].mark # "@" -> n \in span
       [] OTHER -> data(span, class) \/ ("x" \in class /\ npc \in span)

\* The program stops after an instruction exactly when the user asked for a
\* step, or for a break that this instruction meets.
StopsExactly ==
  Exec => LET i   == Prog[PC]
              npc == IF i.target = 0 THEN NPC ELSE i.target
          IN (mode' = "debug") <=> (how.ask = "step" \/ \E j \in DOMAIN dlite_bps : Wanted(dlite_bps[j].req, i, npc, sim_num_insn'))

\* The addresses of the instructions executed without a debugger.
Path[n \in 0..MaxInsn] ==
  IF n = 0 THEN Entry ELSE LET i == Prog[Path[n - 1]] IN IF i.target = 0 THEN Path[n - 1] + Size ELSE i.target

\* Breaks, steps and dumps do not change what the program executes.
Undisturbed == mode = "run" => PC = Path[sim_num_insn]

\* cont <addr> goes on at <addr> (dlite.c:435, "continue program execution
\* (optionally at <addr>)").
ContinuesThere == Leave /\ how.at # 0 => PC' = how.at /\ NPC' = how.at + Size

\* A dump without an address goes on with the byte after the last one shown.
DumpGoesOn ==
  dump_addr' # dump_addr /\ cmd'.a = 0 /\ shown.bytes # <<>> => shown'.bytes[1] = Last(shown.bytes) + 1
=============================================================================
