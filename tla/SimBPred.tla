------------------------------ MODULE SimBPred ------------------------------
(***************************************************************************)
(* simplesim-3.0/sim-bpred.c: a functional simulator that looks up and     *)
(* updates the predictor at every branch, in program order.                *)
(*                                                                         *)
(* The program is a set of branch sites [pc, op, targets]; what it runs    *)
(* between branches changes no state of the predictor.  A conditional      *)
(* branch may go either way, an indirect jump to any of its targets, and   *)
(* a return goes back to the call that is open.                            *)
(***************************************************************************)
EXTENDS BPred, FiniteSets

CONSTANTS Sites, Configs, MaxBranches, MaxDepth

\* sim_check_options: the predictor type and the lists it needs.  n counts the
\* numbers given for each option.
sim_check_options(type, n) ==
    CASE type = "taken" -> "Taken"
      [] type = "nottaken" -> "NotTaken"
      [] type = "bimod" /\ n.bimod = 1 /\ n.btb = 2 -> "2bit"
      [] type = "2lev" /\ n.twolev = 4 /\ n.btb = 2 -> "2Level"
      [] type = "comb" /\ n.twolev = 4 /\ n.bimod = 1 /\ n.comb = 1 /\ n.btb = 2 -> "Comb"
      [] OTHER -> "fatal"

\* The sizes on the command line; every run starts with one of them.  The
\* static predictors are created with zero for every size.
Parameters ==
    {[c EXCEPT !.class = sim_check_options(c.type, c.n),
               !.retstack_size = IF c.type \in {"taken", "nottaken"} THEN 0 ELSE @] : c \in Configs}

VARIABLES g, p, sim_num_branches,
          calls,     \* return addresses of the open calls
          recent,    \* taken branches, most recent first, without repetitions
          went,      \* where a branch last went when it was taken
          lost,      \* the open calls at most recent overflow of the return stack
          guess      \* the last prediction, and where the branch went

vars == <<g, p, sim_num_branches, calls, recent, went, lost, guess>>

Init ==
    /\ g \in {c \in Parameters : c.class # "fatal" /\ ValidSizes(c)}
    /\ p = bpred_create(g)
    /\ sim_num_branches = 0
    /\ calls = <<>> /\ recent = <<>> /\ lost = 0
    /\ went = [s \in Sites |-> 0]
    /\ guess = [pred |-> 0, npc |-> 0, op |-> {}, held |-> TRUE]

\* Where the instruction may go.
NextPCs(s) ==
    CASE MD_IS_RETURN(s.op) -> IF calls = <<>> THEN {} ELSE {Head(calls)}
      [] ~MD_IS_RETURN(s.op) /\ Conditional(s.op) -> s.targets \cup {s.pc + 1}
      [] ~MD_IS_RETURN(s.op) /\ ~Conditional(s.op) -> s.targets

\* target_PC: for a conditional branch the target whether or not it is taken.
TargetPC(s, npc) == IF Conditional(s.op) THEN CHOOSE t \in s.targets : TRUE ELSE npc

\* One branch of sim_main: lookup, then update with the outcome.
Branch(s, npc, junk) ==
    LET look == bpred_lookup(g, p, s.pc, TargetPC(s, npc), s.op, junk, 0)
        pred_PC == IF look.pc = 0 THEN s.pc + 1 ELSE look.pc
        taken == npc # s.pc + 1
    IN  /\ sim_num_branches < MaxBranches
        /\ npc \in NextPCs(s)
        /\ MD_IS_CALL(s.op) => Len(calls) < MaxDepth
        /\ junk \in (IF g.class = "Comb" THEN {FALSE} ELSE BOOLEAN)
        /\ sim_num_branches' = sim_num_branches + 1
        /\ p' = bpred_update(g, look.p, s.pc, npc, taken, pred_PC # s.pc + 1, pred_PC = npc, s.op, look.u)
        /\ calls' = CASE MD_IS_CALL(s.op) -> <<s.pc + 1>> \o calls
                      [] MD_IS_RETURN(s.op) -> Tail(calls)
                      [] OTHER -> calls
        /\ lost' = CASE MD_IS_CALL(s.op) /\ Len(calls) - lost >= g.retstack_size -> lost + 1
                     [] MD_IS_RETURN(s.op) /\ Len(calls) = lost -> lost - 1
                     [] OTHER -> lost
        /\ LET stored == taken /\ ~(look.u.ras /\ MD_IS_INDIR(s.op))
           IN  /\ recent' = IF stored THEN <<s>> \o Remove(recent, s) ELSE recent
               /\ went' = IF stored THEN [went EXCEPT ![s] = npc] ELSE went
        /\ guess' = [pred |-> pred_PC, npc |-> npc, op |-> s.op, held |-> Len(calls) > lost]
        /\ UNCHANGED g

Next == \E s \in Sites, junk \in BOOLEAN : \E npc \in NextPCs(s) : Branch(s, npc, junk)

Spec == Init /\ [][Next]_vars
-----------------------------------------------------------------------------
\* The taken branches of BTB set k, most recent first.
InSet(k) == SelectSeq(recent, LAMBDA s : BtbSet(g, s.pc) = k)
FirstN(q, n) == SubSeq(q, 1, IF Len(q) < n THEN Len(q) ELSE n)

\* The splices of bpred_update keep each BTB set the most recently taken branches
\* of the set, in order of recency down the LRU list, and the target of each is
\* where it last went: "if (!correct)" never leaves an old target behind.
BtbExact ==
    g.class \in Stateful =>
      \A k \in DOMAIN p.btb :
        LET expected == FirstN(InSet(k), g.btb_assoc)
            held == [i \in 1..g.btb_assoc |-> p.btb[k][p.lru[k][i]]]
        IN  /\ \A i \in 1..Len(expected) :
                 held[i] = [addr |-> expected[i].pc, target |-> went[expected[i]]]
            /\ \A i \in (Len(expected) + 1)..g.btb_assoc : held[i].addr = 0

\* A return is predicted by the stack exactly, as long as its call was not
\* overwritten by deeper ones: the circular stack loses the oldest calls only.
ReturnsPredicted ==
    (g.class \in Stateful /\ MD_IS_RETURN(guess.op) /\ g.retstack_size > 0 /\ guess.held)
        => guess.pred = guess.npc

\* The printed figures: every branch is one lookup and one update, the address
\* hits are among the direction hits, the two components of the combining
\* predictor share the conditional branches, and the two JR rates count every JR.
FiguresAddUp ==
    LET f == bpred_reg_stats(g, p)
    IN  /\ p.stat.lookups = sim_num_branches /\ f.updates = sim_num_branches
        /\ p.stat.addr_hits <= p.stat.dir_hits
        /\ p.stat.jr_seen = p.stat.used_ras + p.stat.jr_non_ras_seen
        /\ p.stat.jr_hits = p.stat.ras_hits + p.stat.jr_non_ras_hits
        /\ p.stat.used_bimod + p.stat.used_2lev + p.stat.jr_seen <= f.updates
        /\ p.stat.retstack_pops = p.stat.used_ras

\* Every counter a lookup can name stays a two-bit counter, and a history
\* register within its width.
CountersSaturate ==
    /\ \A t \in DOMAIN p.table : \A i \in DOMAIN p.table[t] : p.table[t][i] \in 0..3
    /\ \A i \in DOMAIN p.shiftregs : p.shiftregs[i] \in 0..(2^g.shift_width - 1)
=============================================================================
