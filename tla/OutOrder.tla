------------------------------ MODULE OutOrder ------------------------------
(***************************************************************************)
(* The pipeline of simplesim-3.0/sim-outorder.c: instruction fetch queue,  *)
(* register update unit (RUU), load/store queue (LSQ), the lists of links  *)
(* that connect them, and the stages of a cycle in the order sim_main calls*)
(* them.  A loop over instructions or events is one action per turn.        *)
(*                                                                         *)
(* A station is named by a number: 0 .. RUU_size - 1 in the RUU, the LSQ    *)
(* follows.  A link names a station and the tag it had; it is valid while   *)
(* the tags agree.  What an instruction computes is left out; what it reads,*)
(* writes and where it goes next is kept.  Outcomes of branches, predicted  *)
(* addresses and cache latencies are chosen freely.                         *)
(***************************************************************************)
EXTENDS Integers, Sequences, SequencesExt, FiniteSets, Folds

CONSTANTS RUU_size, LSQ_size, ruu_ifq_size,
          Width,             \* ruu_decode_width, issue_width, commit_width
          Penalty,           \* ruu_branch_penalty
          FuConfig,          \* fu_config
          LoadLats, TlbLats, \* latencies of the data cache and of the data TLB
          MissLat, LineInsts, \* latency of an instruction cache miss; instructions in a line
          Regs, DTMP,        \* register names; DTMP carries effective addresses
          Programs, Modes,   \* programs run; settings of the options
          MAX_INSTS_PER_CLASS, MAX_RS_LINKS, MaxCycles

VARIABLES m,                 \* the machine
          stage, n,          \* the stage of the cycle and the turns it has taken
          prog, mode

vars == <<m, stage, n, prog, mode>>

NA == 0
NoStation == -1
Bogus == 1000                \* a text address that is no instruction
Stations == 0..(RUU_size + LSQ_size - 1)

Nop == [op |-> "nop", o1 |-> NA, o2 |-> NA, i1 |-> NA, i2 |-> NA, i3 |-> NA, addr |-> 0, to |-> {}]
Line(pc) == (pc - 1) \div LineInsts
Lines == {Line(pc) : pc \in DOMAIN prog}
Ins(pc) == IF pc \in DOMAIN prog THEN prog[pc] ELSE Nop

IsCtrl(op) == op \in {"br", "jmp", "jr"}        \* F_CTRL
IsDirect(op) == op \in {"br", "jmp"}            \* F_DIRJMP
IsMem(op) == op \in {"load", "store"}           \* F_MEM
IsTrap(op) == op \in {"syscall", "exit"}        \* F_TRAP
MD_OP_FUCLASS(op) ==
    CASE op = "load" -> "RdPort" [] op = "store" -> "WrPort"
      [] op = "mult" -> "IntMULT" [] IsTrap(op) -> "NA"
      [] OTHER -> "IntALU"

Empty == [op |-> "none", PC |-> 0, next_PC |-> 0, pred_PC |-> 0, in_LSQ |-> FALSE, ea_comp |-> FALSE,
          recover_inst |-> FALSE, spec_mode |-> FALSE, addr |-> 0, tag |-> 0, seq |-> 0,
          queued |-> FALSE, issued |-> FALSE, completed |-> FALSE,
          onames |-> <<NA, NA>>, odep_list |-> <<<<>>, <<>>>>, idep_ready |-> {0, 1, 2},
          idep_names |-> <<NA, NA, NA>>]

-----------------------------------------------------------------------------
(* The pool of functional units (resource.c).  A descriptor gives the      *)
(* number of units of a kind and, for each operation class such a unit     *)
(* executes, the latency of the operation and of the next issue.  A pool   *)
(* is the sequence of its units; busy counts the cycles a unit still       *)
(* refuses operations.                                                     *)

Copies(desc) == [i \in 1..desc.quantity |-> [x |-> desc.x, busy |-> 0]]

\* The pool, or no pool when a quantity is too large.
res_create_pool(descs) ==
    IF \E i \in DOMAIN descs : descs[i].quantity > MAX_INSTS_PER_CLASS THEN <<>>
    ELSE FoldLeft(LAMBDA pool, desc : pool \o Copies(desc), <<>>, descs)

\* table[class]: the units that execute class, in the order of the pool.
Table(pool, class) == {u \in DOMAIN pool : class \in DOMAIN pool[u].x}

\* The first idle unit of the class, 0 when there is none.
res_get(pool, class) ==
    LET idle == {u \in Table(pool, class) : pool[u].busy = 0}
    IN  IF idle = {} THEN 0 ELSE CHOOSE u \in idle : \A v \in idle : u <= v

\* The caller reserves the unit for the issue latency of the class.
Reserve(pool, u, class) == [pool EXCEPT ![u].busy = pool[u].x[class].issuelat]
-----------------------------------------------------------------------------
OPERANDS_READY(rs) == rs.idep_ready = {0, 1, 2}
STORE_ADDR_READY(rs) == 1 \in rs.idep_ready
RSLINK_VALID(w, l) == w.st[l.rs].tag = l.tag
Broken(w, condition) == [w EXCEPT !.panic = @ \/ condition]

RSLINK_FREE(w, links) == [w EXCEPT !.free = @ + links]
RSLINK_NEW(w) == [Broken(w, w.free = 0) EXCEPT !.free = @ - 1]

CVLINK_NULL == [rs |-> NoStation, odep_num |-> 0]
cv_init == [r \in Regs \cup {DTMP} |-> CVLINK_NULL]

\* ruu_init, lsq_init, rslink_init, eventq_init, readyq_init, cv_init, fetch_init
\* and the entry state sim_main sets up, with no instruction fast forwarded.
Machine(start) ==
    [st |-> [s \in Stations |-> Empty], RUU_head |-> 0, RUU_tail |-> 0, RUU_num |-> 0,
     LSQ_head |-> 0, LSQ_tail |-> 0, LSQ_num |-> 0, ready |-> <<>>, scan |-> <<>>, events |-> <<>>,
     cv |-> cv_init, spec_cv |-> cv_init, use_spec_cv |-> {},
     pool |-> res_create_pool(FuConfig), spec_mode |-> FALSE, fetch |-> <<>>, fetch_pred_PC |-> start,
     recover_PC |-> 0, delay |-> 0, sim_cycle |-> 0, last_op |-> [rs |-> NoStation, tag |-> 0],
     free |-> MAX_RS_LINKS, inst_seq |-> 0, sim_num_insn |-> 0, cold |-> Lines, panic |-> FALSE,
     path |-> <<>>, retired |-> <<>>]

\* Memory operations, long operations and branches go first, the others in
\* program order.
readyq_enqueue(w, s) ==
    LET rs == w.st[s]
        link == [rs |-> s, tag |-> rs.tag, seq |-> rs.seq]
        older == IF rs.in_LSQ \/ rs.op = "mult" \/ IsCtrl(rs.op) THEN 0
                 ELSE Cardinality({i \in DOMAIN w.ready : \A j \in 1..i : w.ready[j].seq < rs.seq})
    IN  [RSLINK_NEW(Broken(w, rs.queued)) EXCEPT !.st[s].queued = TRUE, !.ready = InsertAt(@, older + 1, link)]

\* Sorted by time, before the events of the same time.
eventq_queue_event(w, s, when) ==
    LET earlier == Cardinality({i \in DOMAIN w.events : w.events[i].when < when})
    IN  [RSLINK_NEW(Broken(w, w.st[s].completed \/ when <= w.sim_cycle))
            EXCEPT !.events = InsertAt(@, earlier + 1, [rs |-> s, tag |-> w.st[s].tag, when |-> when])]
-----------------------------------------------------------------------------
\* Commit: the head of the RUU, and of the LSQ for a load or store.
LSQ(i) == RUU_size + i
LsqHead == m.st[LSQ(m.LSQ_head)]
StorePort == IF m.st[m.RUU_head].ea_comp /\ LsqHead.op = "store" THEN res_get(m.pool, "WrPort") ELSE NoStation

\* Mutant: the address of a load or store is enough to commit it.
CommitEarly ==
    /\ m.RUU_num > 0 /\ n < Width
    /\ m.st[m.RUU_head].completed
    /\ StorePort # 0

CanCommit ==
    /\ m.RUU_num > 0 /\ n < Width
    /\ m.st[m.RUU_head].completed
    /\ m.st[m.RUU_head].ea_comp => LsqHead.completed
    /\ StorePort # 0

\* The store takes a port.
StoreRetires(w) ==
    IF StorePort = NoStation THEN w
    ELSE [w EXCEPT !.pool = Reserve(@, StorePort, "WrPort")]

RetireLsq(w) ==
    [Broken(w, w.LSQ_num <= 0 \/ ~w.st[LSQ(w.LSQ_head)].in_LSQ)
        EXCEPT !.st[LSQ(w.LSQ_head)].tag = @ + 1, !.LSQ_head = (@ + 1) % LSQ_size, !.LSQ_num = @ - 1]

CommitOne ==
    /\ stage = "commit" /\ CanCommit
    /\ LET rs == m.st[m.RUU_head]
           w == IF rs.ea_comp THEN RetireLsq(StoreRetires(m)) ELSE m
       IN  m' = [Broken(w, \E i \in 1..2 : rs.odep_list[i] # <<>>)
                   EXCEPT !.st[m.RUU_head].tag = @ + 1, !.RUU_head = (@ + 1) % RUU_size, !.RUU_num = @ - 1,
                          !.retired = Append(@, rs.PC)]
    /\ n' = n + 1
    /\ UNCHANGED <<stage, prog, mode>>

\* ruu_release_fu follows the last commit of the cycle.
ruu_release_fu(pool) == [u \in DOMAIN pool |-> [pool[u] EXCEPT !.busy = IF @ > 0 THEN @ - 1 ELSE 0]]

CommitEnd ==
    /\ stage = "commit" /\ ~CanCommit
    /\ stage' = "writeback" /\ n' = 0
    /\ m' = [m EXCEPT !.pool = ruu_release_fu(@)]
    /\ UNCHANGED <<prog, mode>>
-----------------------------------------------------------------------------
\* Recovery from a mispredicted branch at station b of the RUU: everything that
\* entered after it is squashed, from the tail.
Links(rs) == Len(rs.odep_list[1]) + Len(rs.odep_list[2])
Squash(rs) == [rs EXCEPT !.tag = @ + 1, !.odep_list = <<<<>>, <<>>>>]
SumOver(f, S) == FoldSet(LAMBDA s, sum : f[s] + sum, 0, S)

\* Mutant: the load/store queue is not wound back.
RecoverTooFew(w, b) ==
    LET younger == (w.RUU_tail + RUU_size - 1 - b) % RUU_size
        ruu == {(b + i) % RUU_size : i \in 1..younger}
    IN  [RSLINK_FREE(w, SumOver([s \in ruu |-> Links(w.st[s])], ruu))
            EXCEPT !.st = [s \in Stations |-> IF s \in ruu THEN Squash(w.st[s]) ELSE w.st[s]],
                   !.RUU_tail = (b + 1) % RUU_size, !.RUU_num = @ - younger, !.use_spec_cv = {}]

ruu_recover(w, b) ==
    LET younger == (w.RUU_tail + RUU_size - 1 - b) % RUU_size
        ruu == {(b + i) % RUU_size : i \in 1..younger}
        mems == Cardinality({s \in ruu : w.st[s].ea_comp})
        lsq == {LSQ((w.LSQ_tail + LSQ_size - i) % LSQ_size) : i \in 1..mems}
        broken == younger >= w.RUU_num \/ mems > w.LSQ_num
    IN  [RSLINK_FREE(Broken(w, broken), SumOver([s \in ruu \cup lsq |-> Links(w.st[s])], ruu \cup lsq))
            EXCEPT !.st = [s \in Stations |-> IF s \in ruu \cup lsq THEN Squash(w.st[s]) ELSE w.st[s]],
                   !.RUU_tail = (b + 1) % RUU_size, !.RUU_num = @ - younger,
                   !.LSQ_tail = (@ + LSQ_size - mems) % LSQ_size, !.LSQ_num = @ - mems,
                   !.use_spec_cv = {}]

\* Mutant: the instructions already fetched are kept.
RecoverKeepsFetch(w) == [w EXCEPT !.spec_mode = FALSE, !.fetch_pred_PC = w.recover_PC]

\* The trace generator is precise again and fetch restarts at the right path.
tracer_recover(w) ==
    [Broken(w, ~w.spec_mode) EXCEPT !.spec_mode = FALSE, !.fetch = <<>>, !.fetch_pred_PC = w.recover_PC]

\* The result can be read from the register file, unless there is a later creator.
UpdateCV(w, s) ==
    LET rs == w.st[s]
        Clear(cv) == [r \in DOMAIN cv |->
                        IF \E i \in 1..2 : rs.onames[i] = r /\ cv[r] = [rs |-> s, odep_num |-> i] THEN CVLINK_NULL ELSE cv[r]]
    IN  IF rs.spec_mode THEN [w EXCEPT !.spec_cv = Clear(@)] ELSE [w EXCEPT !.cv = Clear(@)]

\* One consumer on an output chain.
Wake(w, l) ==
    IF ~RSLINK_VALID(w, l) THEN RSLINK_FREE(w, 1)
    ELSE LET v == [RSLINK_FREE(Broken(w, l.opnum \in w.st[l.rs].idep_ready), 1)
                     EXCEPT !.st[l.rs].idep_ready = @ \cup {l.opnum}]
             rs == v.st[l.rs]
         IN  IF OPERANDS_READY(rs) /\ (~rs.in_LSQ \/ rs.op = "store") THEN readyq_enqueue(v, l.rs) ELSE v

\* Mutant: the links of the chain are not given back.
BroadcastLeaks(w, s) ==
    LET chain == w.st[s].odep_list[1] \o w.st[s].odep_list[2]
        v[i \in 0..Len(chain)] == IF i = 0 THEN w ELSE Wake(v[i - 1], chain[i])
    IN  [v[Len(chain)] EXCEPT !.st[s].odep_list = <<<<>>, <<>>>>, !.free = @ - Len(chain)]

Broadcast(w, s) ==
    LET chain == w.st[s].odep_list[1] \o w.st[s].odep_list[2]
        v[i \in 0..Len(chain)] == IF i = 0 THEN w ELSE Wake(v[i - 1], chain[i])
    IN  [v[Len(chain)] EXCEPT !.st[s].odep_list = <<<<>>, <<>>>>]

\* ruu_branch_penalty starts when the branch is resolved.
Resolve(w, s) ==
    IF ~w.st[s].recover_inst THEN w
    ELSE [tracer_recover(ruu_recover(Broken(w, w.st[s].in_LSQ), s)) EXCEPT !.delay = Penalty]

Complete(w, s) ==
    LET rs == w.st[s]
    IN  [Broken(w, ~OPERANDS_READY(rs) \/ rs.queued \/ ~rs.issued \/ rs.completed) EXCEPT !.st[s].completed = TRUE]

\* eventq_next_event drops the events of squashed instances.
EventDue == m.events # <<>> /\ Head(m.events).when <= m.sim_cycle
WritebackEvent ==
    /\ stage = "writeback" /\ EventDue
    /\ LET ev == Head(m.events)
           w == RSLINK_FREE([m EXCEPT !.events = Tail(@)], 1)
       IN  m' = IF RSLINK_VALID(m, ev)
                THEN Broadcast(UpdateCV(Resolve(Complete(w, ev.rs), ev.rs), ev.rs), ev.rs)
                ELSE w
    /\ UNCHANGED <<stage, n, prog, mode>>
-----------------------------------------------------------------------------
\* Mutant: a store whose address is not known does not stop the search.
RefreshPast(w) ==
    LET v[i \in 0..w.LSQ_num] ==
          IF i = 0 THEN w
          ELSE LET s == LSQ((w.LSQ_head + i - 1) % LSQ_size)
                   rs == v[i - 1].st[s]
               IN  IF rs.op = "load" /\ ~rs.queued /\ ~rs.issued /\ ~rs.completed /\ OPERANDS_READY(rs)
                   THEN readyq_enqueue(v[i - 1], s) ELSE v[i - 1]
    IN  v[w.LSQ_num]

\* Loads whose memory dependences are satisfied, from the oldest on: unknown is
\* std_unknowns, the addresses of earlier stores whose value is not known, a
\* hidden one replaced by address 0.
lsq_refresh(w) ==
    LET walk[i \in 0..w.LSQ_num] ==
          IF i = 0 THEN [w |-> w, unknown |-> {}, stop |-> FALSE]
          ELSE LET p == walk[i - 1]
                   s == LSQ((w.LSQ_head + i - 1) % LSQ_size)
                   rs == p.w.st[s]
               IN  CASE p.stop -> p
                     [] ~p.stop /\ rs.op = "store" ->
                          IF ~STORE_ADDR_READY(rs) THEN [p EXCEPT !.stop = TRUE]
                          ELSE IF ~OPERANDS_READY(rs) THEN [p EXCEPT !.unknown = @ \cup {rs.addr}]
                          ELSE [p EXCEPT !.unknown = {IF a = rs.addr THEN 0 ELSE a : a \in @}]
                     [] ~p.stop /\ rs.op # "store" ->
                          IF /\ ~rs.queued /\ ~rs.issued /\ ~rs.completed
                             /\ OPERANDS_READY(rs) /\ rs.addr \notin p.unknown
                          THEN [p EXCEPT !.w = readyq_enqueue(@, s)] ELSE p
    IN  walk[w.LSQ_num].w

\* The stages after writeback: in bugcompat mode dispatch comes before issue.
AfterWriteback == IF mode.bugcompat THEN "dispatch" ELSE "issue"
AfterDispatch == IF mode.bugcompat THEN "issue" ELSE "fetch"
AfterIssue == IF mode.bugcompat THEN "fetch" ELSE "dispatch"

\* lsq_refresh and the start of ruu_issue, which takes the ready list away.
EnterIssue(w) == LET v == lsq_refresh(w) IN [v EXCEPT !.scan = v.ready, !.ready = <<>>]

WritebackEnd ==
    /\ stage = "writeback" /\ ~EventDue
    /\ stage' = AfterWriteback /\ n' = 0
    /\ m' = IF AfterWriteback = "issue" THEN EnterIssue(m) ELSE m
    /\ UNCHANGED <<prog, mode>>

\* A store ahead of the load in the LSQ with its address forwards the value.
Forwarded(w, s) ==
    LET older == (s - LSQ(w.LSQ_head) + LSQ_size) % LSQ_size
    IN  \E i \in 1..older : LET rs == w.st[LSQ((s - RUU_size + LSQ_size - i) % LSQ_size)]
                            IN  rs.op = "store" /\ rs.addr = w.st[s].addr

IssueStore(w, s) ==
    [Broken(w, w.st[s].onames # <<NA, NA>> \/ w.st[s].recover_inst)
        EXCEPT !.st[s].issued = TRUE, !.st[s].completed = TRUE]

\* To the functional unit u, with the latency lat.
IssueTo(w, s, u, class, lat) ==
    eventq_queue_event([w EXCEPT !.st[s].issued = TRUE, !.pool = Reserve(@, u, class)], s, w.sim_cycle + lat)

\* The data cache, which a forwarded load does not see, and the TLB, which every
\* load does, are accessed in parallel.
Latencies(w, s, u, class) ==
    IF class # "RdPort" THEN {w.pool[u].x[class].oplat}
    ELSE {IF tlb > lat THEN tlb ELSE lat : tlb \in TlbLats, lat \in IF Forwarded(w, s) THEN {1} ELSE LoadLats}

CanIssue == m.scan # <<>> /\ n < Width

\* One link of the list taken away: issued, put back or squashed.
IssueOne ==
    /\ stage = "issue" /\ CanIssue
    /\ LET l == Head(m.scan)
           s == l.rs
           rs == m.st[s]
           class == MD_OP_FUCLASS(rs.op)
           store == rs.in_LSQ /\ rs.op = "store"
           taken == RSLINK_FREE([m EXCEPT !.scan = Tail(@)], 1)
           w == [Broken(taken, ~OPERANDS_READY(rs) \/ ~rs.queued \/ rs.issued \/ rs.completed) EXCEPT !.st[s].queued = FALSE]
           u == res_get(w.pool, class)
       IN  \/ /\ ~RSLINK_VALID(m, l)
              /\ m' = taken /\ n' = n
           \/ /\ RSLINK_VALID(m, l) /\ store
              /\ m' = IssueStore(w, s) /\ n' = n + 1
           \/ /\ RSLINK_VALID(m, l) /\ class = "NA"
              /\ m' = eventq_queue_event([w EXCEPT !.st[s].issued = TRUE], s, w.sim_cycle + 1) /\ n' = n + 1
           \/ /\ RSLINK_VALID(m, l) /\ ~store /\ class # "NA" /\ u = 0
              /\ m' = readyq_enqueue(w, s) /\ n' = n
           \/ /\ RSLINK_VALID(m, l) /\ ~store /\ class # "NA" /\ u # 0
              /\ \E lat \in Latencies(w, s, u, class) : m' = IssueTo(w, s, u, class, lat)
              /\ n' = n + 1
    /\ UNCHANGED <<stage, prog, mode>>

\* The links that are left go back through readyq_enqueue.
IssueEnd ==
    /\ stage = "issue" /\ ~CanIssue
    /\ LET back(w, l) == LET v == RSLINK_FREE(w, 1)
                         IN  IF RSLINK_VALID(w, l) THEN readyq_enqueue([v EXCEPT !.st[l.rs].queued = FALSE], l.rs) ELSE v
           v[i \in 0..Len(m.scan)] == IF i = 0 THEN m ELSE back(v[i - 1], m.scan[i])
       IN  m' = [v[Len(m.scan)] EXCEPT !.scan = <<>>]
    /\ stage' = AfterIssue /\ n' = 0
    /\ UNCHANGED <<prog, mode>>
-----------------------------------------------------------------------------
CREATE_VECTOR(w, r) == IF r \in w.use_spec_cv THEN w.spec_cv[r] ELSE w.cv[r]

\* Mutant: the architected create vector is read on the wrong path too.
LinkNonSpec(w, s, k, name) ==
    IF name = NA \/ w.cv[name].rs = NoStation THEN [w EXCEPT !.st[s].idep_ready = @ \cup {k}]
    ELSE [RSLINK_NEW(w) EXCEPT !.st[s].idep_ready = @ \ {k},
                               !.st[w.cv[name].rs].odep_list[w.cv[name].odep_num] = <<[rs |-> s, tag |-> w.st[s].tag, opnum |-> k]>> \o @]

ruu_link_idep(w, s, k, name) ==
    LET head == IF name = NA THEN CVLINK_NULL ELSE CREATE_VECTOR(w, name)
    IN  IF head.rs = NoStation THEN [w EXCEPT !.st[s].idep_ready = @ \cup {k}]
        ELSE [RSLINK_NEW(w) EXCEPT !.st[s].idep_ready = @ \ {k},
                                   !.st[head.rs].odep_list[head.odep_num] = <<[rs |-> s, tag |-> w.st[s].tag, opnum |-> k]>> \o @]

ruu_install_odep(w, s, i, name) ==
    LET cv == [rs |-> s, odep_num |-> i]
    IN  CASE name = NA -> [w EXCEPT !.st[s].onames[i] = NA]
          [] name # NA /\ w.spec_mode ->
               [w EXCEPT !.st[s].onames[i] = name, !.st[s].odep_list[i] = <<>>, !.use_spec_cv = @ \cup {name}, !.spec_cv[name] = cv]
          [] name # NA /\ ~w.spec_mode ->
               [w EXCEPT !.st[s].onames[i] = name, !.st[s].odep_list[i] = <<>>, !.cv[name] = cv]

\* Inputs are linked before outputs are installed, to prevent a self reference.
Connect(w, s, in1, in2, in3, out1, out2) ==
    LET linked == ruu_link_idep(ruu_link_idep(ruu_link_idep(w, s, 0, in1), s, 1, in2), s, 2, in3)
    IN  [ruu_install_odep(ruu_install_odep(linked, s, 1, out1), s, 2, out2)
            EXCEPT !.st[s].idep_names = <<in1, in2, in3>>]

Station(w, rec, npc, pred) ==
    [Empty EXCEPT !.op = Ins(rec.PC).op, !.PC = rec.PC, !.next_PC = npc, !.pred_PC = pred, !.spec_mode = w.spec_mode]
\* The tag of the slot stays.
Fill(w, s, station) == [w EXCEPT !.st[s] = [station EXCEPT !.tag = w.st[s].tag, !.seq = w.inst_seq + 1], !.inst_seq = @ + 1]

\* A load or store: the address computation in the RUU, the access in the LSQ.
DispatchMem(w, rec, npc, pred, addr) ==
    LET ins == Ins(rec.PC)
        s == w.RUU_tail
        a == LSQ(w.LSQ_tail)
        base == Station(w, rec, npc, pred)
        filled == Fill(Fill(w, s, [base EXCEPT !.op = "agen", !.ea_comp = TRUE]), a, [base EXCEPT !.in_LSQ = TRUE, !.addr = addr])
        agen == Connect(filled, s, NA, ins.i2, ins.i3, DTMP, NA)
        both == [Connect(agen, a, ins.i1, DTMP, NA, ins.o1, ins.o2)
                   EXCEPT !.RUU_tail = (@ + 1) % RUU_size, !.RUU_num = @ + 1,
                          !.LSQ_tail = (@ + 1) % LSQ_size, !.LSQ_num = @ + 1]
        v == IF OPERANDS_READY(both.st[s]) THEN readyq_enqueue(both, s) ELSE both
        u == [v EXCEPT !.last_op = [rs |-> a, tag |-> v.st[a].tag]]
    IN  IF ins.op = "store" /\ OPERANDS_READY(u.st[a]) THEN readyq_enqueue(u, a) ELSE u

DispatchReg(w, rec, npc, pred) ==
    LET ins == Ins(rec.PC)
        s == w.RUU_tail
        v == [Connect(Fill(w, s, Station(w, rec, npc, pred)), s, ins.i1, ins.i2, ins.i3, ins.o1, ins.o2)
                EXCEPT !.RUU_tail = (@ + 1) % RUU_size, !.RUU_num = @ + 1]
    IN  IF OPERANDS_READY(v.st[s]) THEN [readyq_enqueue(v, s) EXCEPT !.last_op = [rs |-> NoStation, tag |-> 0]]
        ELSE [v EXCEPT !.last_op = [rs |-> s, tag |-> v.st[s].tag]]

\* Predicted perfectly, or predicted taken to another target than the one in the
\* instruction: fetch is redirected at once.
Redirected(rec, npc, target) ==
    LET op == Ins(rec.PC).op
    IN  \/ rec.pred_PC # npc /\ mode.perfect
        \/ IsDirect(op) /\ target # rec.pred_PC /\ rec.pred_PC # rec.PC + 1

Redirect(w, npc) == [w EXCEPT !.fetch_pred_PC = npc, !.fetch = <<Head(w.fetch)>>, !.delay = IF mode.perfect THEN @ ELSE Penalty]

\* Mutant: the branch is not marked.
Unmarked(w, s, npc) == [w EXCEPT !.spec_mode = TRUE, !.recover_PC = npc]

\* The instruction leaves the predicted path: what follows is the wrong path.
EnterSpec(w, s, npc) == [w EXCEPT !.spec_mode = TRUE, !.recover_PC = npc, !.st[s].recover_inst = TRUE]

CanDispatch ==
    /\ n < Width /\ m.RUU_num < RUU_size /\ m.LSQ_num < LSQ_size
    /\ m.fetch # <<>>
    /\ mode.wrongpath \/ ~m.spec_mode
    /\ ~(/\ mode.inorder /\ m.last_op.rs # NoStation
         /\ RSLINK_VALID(m, m.last_op) /\ ~OPERANDS_READY(m.st[m.last_op.rs]))
    /\ IsTrap(Ins(Head(m.fetch).PC).op) => m.RUU_num = 0

\* Where an instruction goes, and the target it names; on the wrong path the
\* register values are wrong too, so an address may be any.
NextPCs(pc) == LET ins == Ins(pc)
               IN  CASE ins.op = "br" -> {pc + 1} \cup ins.to [] ins.op \in {"jmp", "jr"} -> ins.to [] OTHER -> {pc + 1}
Addresses(ins) == IF m.spec_mode /\ IsMem(ins.op) THEN {0, ins.addr} ELSE {ins.addr}

DispatchOne ==
    /\ stage = "dispatch" /\ CanDispatch
    /\ LET rec == Head(m.fetch)
           ins == Ins(rec.PC)
           w0 == [Broken(m, IsTrap(ins.op) /\ m.spec_mode)
                    EXCEPT !.sim_num_insn = IF m.spec_mode THEN @ ELSE @ + 1]
       IN  \E npc \in NextPCs(rec.PC), addr \in Addresses(ins) :
             LET target == IF IsDirect(ins.op) THEN CHOOSE t \in ins.to : TRUE ELSE npc
                 redirect == Redirected(rec, npc, target)
                 pred == IF redirect /\ mode.perfect THEN npc ELSE rec.pred_PC
                 w1 == IF redirect THEN Redirect(w0, npc) ELSE w0
                 w2 == CASE ins.op = "nop" -> w1
                         [] IsMem(ins.op) -> DispatchMem(w1, rec, npc, pred, addr)
                         [] OTHER -> DispatchReg(w1, rec, npc, pred)
                 w3 == IF ~m.spec_mode /\ pred # npc /\ ~redirect
                       THEN EnterSpec(Broken(w2, ins.op = "nop"), m.RUU_tail, npc) ELSE w2
                 w4 == IF m.spec_mode THEN w3 ELSE [w3 EXCEPT !.path = Append(@, [PC |-> rec.PC, next |-> npc])]
             IN  m' = [w4 EXCEPT !.fetch = Tail(@)]
    /\ n' = n + 1
    /\ stage' = IF Ins(Head(m.fetch).PC).op = "exit" THEN "exit" ELSE stage
    /\ UNCHANGED <<prog, mode>>

DispatchEnd ==
    /\ stage = "dispatch" /\ ~CanDispatch
    /\ stage' = AfterDispatch /\ n' = 0
    /\ m' = IF AfterDispatch = "issue" THEN EnterIssue(m) ELSE m
    /\ UNCHANGED <<prog, mode>>
-----------------------------------------------------------------------------
\* What bpred_lookup may answer: no target, any target in the BTB, or 1 when
\* it predicts a direction only.
Targets == UNION {Ins(pc).to : pc \in DOMAIN prog}
Predictions(pc) ==
    IF mode.perfect \/ ~IsCtrl(Ins(pc).op) THEN {pc + 1} ELSE {pc + 1, Bogus} \cup Targets

CanFetch == m.delay = 0 /\ n < Width /\ Len(m.fetch) < ruu_ifq_size

\* An address outside the text is not looked up: a nop is fetched for it.
Missing == m.fetch_pred_PC \in DOMAIN prog /\ Line(m.fetch_pred_PC) \in m.cold

\* A line that is not in the instruction cache misses and blocks fetch; it may
\* take the place of another, which misses when it is fetched again.
FetchMiss ==
    /\ stage = "fetch" /\ CanFetch /\ Missing
    /\ \E lost \in SUBSET Lines :
         /\ Cardinality(lost) <= 1 /\ Line(m.fetch_pred_PC) \notin lost
         /\ m' = [m EXCEPT !.cold = (@ \ {Line(m.fetch_pred_PC)}) \cup lost, !.delay = @ + MissLat - 1]
    /\ n' = Width
    /\ UNCHANGED <<stage, prog, mode>>

\* A predicted target ends the fetch of the cycle.
FetchOne ==
    /\ stage = "fetch" /\ CanFetch /\ ~Missing
    /\ \E pred \in Predictions(m.fetch_pred_PC) :
         /\ m' = [m EXCEPT !.fetch = Append(@, [PC |-> m.fetch_pred_PC, pred_PC |-> pred]), !.fetch_pred_PC = pred]
         /\ n' \in IF pred # m.fetch_pred_PC + 1 THEN {Width} ELSE IF pred \in Targets THEN {n + 1, Width} ELSE {n + 1}
    /\ UNCHANGED <<stage, prog, mode>>

\* The consistency checks sim_main makes at the start of a cycle.
Wedged(w) ==
    \/ w.RUU_num < w.LSQ_num
    \/ (w.RUU_head + w.RUU_num) % RUU_size # w.RUU_tail
    \/ (w.LSQ_head + w.LSQ_num) % LSQ_size # w.LSQ_tail

\* The end of the cycle; a blocked fetch counts the delay down.
FetchEnd ==
    /\ stage = "fetch" /\ ~CanFetch
    /\ m' = [Broken(m, Wedged(m)) EXCEPT !.delay = IF @ > 0 /\ n = 0 THEN @ - 1 ELSE @, !.sim_cycle = @ + 1]
    /\ stage' = IF mode.max_insts > 0 /\ m.sim_num_insn >= mode.max_insts THEN "exit" ELSE "commit"
    /\ n' = 0
    /\ UNCHANGED <<prog, mode>>

Init ==
    /\ prog \in Programs /\ mode \in Modes
    /\ m = Machine(1)
    /\ stage = "commit" /\ n = 0

Exited == stage = "exit" /\ UNCHANGED vars

Next ==
    \/ m.sim_cycle < MaxCycles /\
         \/ CommitOne \/ CommitEnd
         \/ WritebackEvent \/ WritebackEnd
         \/ IssueOne \/ IssueEnd
         \/ DispatchOne \/ DispatchEnd
         \/ FetchOne \/ FetchMiss \/ FetchEnd
    \/ Exited

Spec == Init /\ [][Next]_vars
-----------------------------------------------------------------------------
InRuu == {(m.RUU_head + i) % RUU_size : i \in 0..(m.RUU_num - 1)}
InLsq == {LSQ((m.LSQ_head + i) % LSQ_size) : i \in 0..(m.LSQ_num - 1)}
Live == InRuu \cup InLsq

\* None of the panic() calls of the pipeline is reached: no station is queued,
\* issued or completed twice, no event lies in the past, the RUU, the LSQ and
\* their links stay in step, recovery finds its branch.
NeverPanics == ~m.panic

\* "retired to the architectural register file in program order": whatever was
\* predicted, the instructions that commit are those of the architectural path,
\* in order, none twice, and the path continues where the last one went.
CommitsInOrder ==
    /\ \A i \in 1..(Len(m.path) - 1) : m.path[i + 1].PC = m.path[i].next
    /\ LET ops == SelectSeq(m.path, LAMBDA p : Ins(p.PC).op # "nop")
       IN  IsPrefix(m.retired, [i \in DOMAIN ops |-> ops[i].PC])

\* An operand is marked ready exactly when the youngest older instruction that
\* writes its register has completed, or there is none; otherwise that
\* instruction's output chain has one link that will wake it.
OperandsExact ==
    \A s \in Live, k \in 0..2 :
      LET rs == m.st[s]
          name == rs.idep_names[k + 1]
          older == {w \in Live : m.st[w].seq < rs.seq /\ name \in {m.st[w].onames[1], m.st[w].onames[2]}}
          writer == CHOOSE w \in older : \A v \in older : m.st[v].seq <= m.st[w].seq
          Waits(chain) == Cardinality({i \in DOMAIN chain : chain[i] = [rs |-> s, tag |-> rs.tag, opnum |-> k]})
      IN  IF name = NA \/ older = {} THEN k \in rs.idep_ready
          ELSE /\ k \in rs.idep_ready <=> m.st[writer].completed
               /\ k \notin rs.idep_ready => Waits(m.st[writer].odep_list[1]) + Waits(m.st[writer].odep_list[2]) = 1

\* A load that is queued or has issued has no older store whose address is not
\* known, and the youngest older store to its address has its value.
LoadsAfterStores ==
    \A s \in InLsq :
      LET rs == m.st[s]
          stores == {w \in InLsq : m.st[w].op = "store" /\ m.st[w].seq < rs.seq}
          same == {w \in stores : m.st[w].addr = rs.addr}
      IN  rs.op = "load" /\ (rs.queued \/ rs.issued) =>
            /\ \A w \in stores : STORE_ADDR_READY(m.st[w])
            /\ \A w \in same : (\A v \in same : m.st[v].seq <= m.st[w].seq) => OPERANDS_READY(m.st[w])

\* Every link is in one list or free, however often instructions are squashed.
LinksConserved ==
    m.free + Len(m.ready) + Len(m.scan) + Len(m.events) + SumOver([s \in Stations |-> Links(m.st[s])], Stations) = MAX_RS_LINKS

\* While the machine is on a wrong path exactly one branch in it will end it,
\* and the instructions of the wrong path are those that follow the branch.
OneWrongPath ==
    LET turning == {s \in InRuu : m.st[s].recover_inst /\ ~m.st[s].completed}
    IN  /\ m.spec_mode <=> turning # {}
        /\ Cardinality(turning) <= 1
        /\ \A s \in Live : m.st[s].spec_mode <=> \E b \in turning : m.st[b].seq < m.st[s].seq

\* No program of the instance hangs: each one exits within MaxCycles cycles.
Finishes == m.sim_cycle < MaxCycles
=============================================================================
