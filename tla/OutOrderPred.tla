---------------------------- MODULE OutOrderPred ----------------------------
(***************************************************************************)
(* The branch predictor under the pipeline of simplesim-3.0/sim-outorder.c:*)
(* looked up when a branch is fetched, on wrong paths too, repaired when a *)
(* misprediction is recovered, and updated at dispatch, writeback or commit*)
(* as -bpred:spec_update says.                                             *)
(*                                                                         *)
(* Of the pipeline the queues and the branches in them are kept; each step *)
(* of a stage is an action, since what else the queues hold decides when   *)
(* it is taken.  The program is a set of sites [pc, op, targets] as in     *)
(* SimBPred with straight-line code between them.  open and taken are      *)
(* history variables of the program itself, writer and unwound of the      *)
(* return stack.                                                           *)
(***************************************************************************)
EXTENDS BPred, FiniteSets

CONSTANTS Sites, Configs, IfqSize, RuuSize, MaxLookups

VARIABLES g, bpred_spec_update, p,
          fetch_pred_PC, ifq, ruu, spec_mode, recover_PC, sim_num_branches,
          open,       \* calls the program has not returned from, newest first
          taken,      \* the branches the program took, with where they went
          writer,     \* which lookup wrote an entry of the return stack
          unwound     \* a call or a return was itself recovered

history == <<open, taken, unwound>>
vars == <<g, bpred_spec_update, p, fetch_pred_PC, ifq, ruu, spec_mode, recover_PC, sim_num_branches, writer, history>>

Bogus == 1      \* what bpred_lookup returns for a target it does not know

\* The branch that fetch meets first from pc on: none from a bogus address.
FirstAt(pc) == {s \in Sites : pc # Bogus /\ s.pc >= pc /\ \A r \in Sites : r.pc >= pc => s.pc <= r.pc}

Init ==
    /\ g \in Configs /\ bpred_spec_update \in {"ID", "WB", "CT"}
    /\ p = bpred_create(g)
    /\ fetch_pred_PC = 2 /\ ifq = <<>> /\ ruu = <<>> /\ spec_mode = FALSE /\ recover_PC = 0
    /\ sim_num_branches = 0
    /\ open = <<>> /\ taken = {} /\ writer = [i \in DOMAIN p.stack |-> 0] /\ unwound = FALSE

Fetched(s, look) ==
    [s |-> s, pred_PC |-> IF look.pc = 0 THEN s.pc + 1 ELSE look.pc, u |-> look.u, idx |-> look.idx,
     no |-> look.p.stat.lookups, held |-> {writer[i] : i \in DOMAIN writer}]

ruu_fetch(s) ==
    LET look == bpred_lookup(g, p, s.pc, 0, s.op, FALSE, 0)
    IN  /\ Len(ifq) < IfqSize /\ p.stat.lookups < MaxLookups
        /\ p' = look.p
        /\ ifq' = Append(ifq, Fetched(s, look))
        /\ fetch_pred_PC' = Fetched(s, look).pred_PC
        /\ writer' = IF MD_IS_CALL(s.op) THEN [writer EXCEPT ![look.p.tos] = look.p.stat.lookups] ELSE writer
        /\ UNCHANGED <<g, bpred_spec_update, ruu, spec_mode, recover_PC, sim_num_branches, history>>

\* Where a branch goes: on a wrong path a return may go behind any call.
NextPCs(s) ==
    CASE MD_IS_RETURN(s.op) -> IF spec_mode THEN {r.pc + 1 : r \in {c \in Sites : MD_IS_CALL(c.op)}}
                               ELSE {open[i].pc + 1 : i \in DOMAIN open \cap {1}}
      [] ~MD_IS_RETURN(s.op) /\ Conditional(s.op) -> s.targets \cup {s.pc + 1}
      [] ~MD_IS_RETURN(s.op) /\ ~Conditional(s.op) -> s.targets

\* A direct branch predicted taken to another address than its target, which
\* dispatch computes: fetch is redirected, and nothing has to be recovered.
Misfetched(f) == "F_DIRJMP" \in f.s.op /\ f.pred_PC # f.s.pc + 1 /\ f.pred_PC \notin f.s.targets

Updated(q, b) ==
    bpred_update(g, q, b.s.pc, b.next_PC, b.next_PC # b.s.pc + 1, b.pred_PC # b.s.pc + 1,
                 b.pred_PC = b.next_PC, b.s.op, b.u)

Branch(f, npc) ==
    [s |-> f.s, pred_PC |-> f.pred_PC, next_PC |-> npc, u |-> f.u, idx |-> f.idx, completed |-> FALSE,
     spec_mode |-> spec_mode, recover_inst |-> ~spec_mode /\ f.pred_PC # npc /\ ~Misfetched(f)]

\* What the program itself does with a branch that is not on a wrong path.
Executed(f, npc) ==
    /\ sim_num_branches' = sim_num_branches + 1
    /\ open' = CASE MD_IS_CALL(f.s.op) -> <<[pc |-> f.s.pc, no |-> f.no]>> \o open
                 [] MD_IS_RETURN(f.s.op) -> Tail(open)
                 [] OTHER -> open
    /\ taken' = IF npc = f.s.pc + 1 THEN taken ELSE taken \cup {[addr |-> f.s.pc, target |-> npc]}

ruu_dispatch(npc) ==
    /\ ifq # <<>> /\ Len(ruu) < RuuSize
    /\ LET f == Head(ifq)
           b == Branch(f, npc)
       IN  /\ npc \in NextPCs(f.s)
           /\ ruu' = Append(ruu, b)
           /\ ifq' = IF Misfetched(f) THEN <<>> ELSE Tail(ifq)
           /\ fetch_pred_PC' = IF Misfetched(f) THEN npc ELSE fetch_pred_PC
           /\ p' = IF ~spec_mode /\ bpred_spec_update = "ID" THEN Updated(p, b) ELSE p
           /\ spec_mode' = (spec_mode \/ b.recover_inst)
           /\ recover_PC' = IF b.recover_inst THEN npc ELSE recover_PC
           /\ IF spec_mode THEN UNCHANGED <<sim_num_branches, open, taken>> ELSE Executed(f, npc)
    /\ UNCHANGED <<g, bpred_spec_update, writer, unwound>>

\* ruu_writeback of the i-th branch in flight, in any order: ruu_recover,
\* tracer_recover and bpred_recover when it was mispredicted.
ruu_writeback(i) ==
    LET b == ruu[i]
        done == [ruu EXCEPT ![i].completed = TRUE]
        repaired == IF b.recover_inst THEN bpred_recover(p, b.idx) ELSE p
    IN  /\ ~b.completed
        /\ p' = IF bpred_spec_update = "WB" THEN Updated(repaired, b) ELSE repaired
        /\ IF b.recover_inst
           THEN /\ ruu' = SubSeq(done, 1, i) /\ ifq' = <<>>
                /\ spec_mode' = FALSE /\ fetch_pred_PC' = recover_PC
                /\ unwound' = (unwound \/ MD_IS_CALL(b.s.op) \/ MD_IS_RETURN(b.s.op))
           ELSE ruu' = done /\ UNCHANGED <<ifq, spec_mode, fetch_pred_PC, unwound>>
        /\ UNCHANGED <<g, bpred_spec_update, recover_PC, sim_num_branches, open, taken, writer>>

ruu_commit ==
    /\ ruu # <<>> /\ Head(ruu).completed
    /\ ruu' = Tail(ruu)
    /\ p' = IF bpred_spec_update = "CT" THEN Updated(p, Head(ruu)) ELSE p
    /\ UNCHANGED <<g, bpred_spec_update, fetch_pred_PC, ifq, spec_mode, recover_PC, sim_num_branches, writer, history>>

Next ==
    \/ \E s \in FirstAt(fetch_pred_PC) : ruu_fetch(s)
    \/ \E npc \in UNION {s.targets \cup {s.pc + 1} : s \in Sites} : ruu_dispatch(npc)
    \/ \E i \in DOMAIN ruu : ruu_writeback(i)
    \/ ruu_commit

Spec == Init /\ [][Next]_vars
-----------------------------------------------------------------------------
\* Wherever wrong paths pushed and popped, the return stack is back at the depth
\* of the program once fetch is, unless a call or a return was itself recovered
\* (the index is saved before the branch's own push or pop).
StackRecovered ==
    ifq = <<>> /\ ~spec_mode /\ ~unwound => p.tos = (g.retstack_size - 1 + Len(open)) % g.retstack_size

\* A return of the program is predicted right if the entry of its call was in
\* the stack when it was fetched, neither overwritten by deeper calls nor by a
\* wrong path.
ReturnFindsCall ==
    (ifq # <<>> /\ ~spec_mode /\ ~unwound /\ MD_IS_RETURN(Head(ifq).s.op) /\ open # <<>>)
      => (Head(open).no \in Head(ifq).held => Head(ifq).pred_PC = Head(open).pc + 1)

\* Updated at dispatch or commit, the predictor learns from the program alone:
\* one update for every branch it executed, and no BTB entry of a wrong path.
LearnsFromProgram ==
    bpred_spec_update # "WB" =>
      LET pending == IF bpred_spec_update = "ID" THEN 0
                     ELSE Len(SelectSeq(ruu, LAMBDA b : ~b.spec_mode))
      IN  /\ p.stat.dir_hits + p.stat.misses + pending = sim_num_branches
          /\ \A k \in DOMAIN p.btb : \A w \in DOMAIN p.btb[k] : p.btb[k][w].addr # 0 => p.btb[k][w] \in taken
=============================================================================
