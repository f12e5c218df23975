------------------------------- MODULE BPred --------------------------------
(***************************************************************************)
(* simplesim-3.0/bpred.c: the branch predictors.  A predictor is a record  *)
(* p, its parameters a record g.  Addresses count instructions (the code   *)
(* shifts every address by MD_BR_SHIFT) and start at 2: 0 and 1 are the    *)
(* answers "not taken" and "taken, target unknown" of bpred_lookup, and 0  *)
(* is the address of an unused BTB entry.  Addresses stay below 2^19, so   *)
(* the upper half of BIMOD_HASH is zero.                                   *)
(*                                                                         *)
(* An opcode is a set of its flags; a pointer to a counter is the pair of  *)
(* its table and its index, and None the null pointer.                     *)
(***************************************************************************)
EXTENDS Integers, Sequences, SequencesExt, Bitwise

None == <<"none", 0>>
Stateful == {"Comb", "2Level", "2bit"}
Conditional(op) == "F_UNCOND" \notin op
MD_IS_CALL(op) == "F_CALL" \in op
MD_IS_RETURN(op) == {"JR", "R31"} \subseteq op
MD_IS_INDIR(op) == "JR" \in op

PowerOfTwo(n) == n \in {1, 2, 4, 8, 16}

\* The sizes the create functions accept.
Valid2bit(size) == PowerOfTwo(size)
Valid2Level(g) == PowerOfTwo(g.l1size) /\ PowerOfTwo(g.l2size) /\ g.shift_width \in 1..30
ValidSizes(g) ==
    /\ g.class \in {"Comb", "2bit"} => Valid2bit(g.bimod_size)
    /\ g.class \in {"Comb", "2Level"} => Valid2Level(g)
    /\ g.class = "Comb" => Valid2bit(g.meta_size)
    /\ g.class \in Stateful => /\ PowerOfTwo(g.btb_sets) /\ PowerOfTwo(g.btb_assoc)
                               /\ g.retstack_size = 0 \/ PowerOfTwo(g.retstack_size)

\* Counters start weakly this or that, alternating.
bpred_dir_create(size) == [i \in 0..(size - 1) |-> IF i % 2 = 0 THEN 1 ELSE 2]

Counters == {"lookups", "addr_hits", "dir_hits", "misses", "used_ras", "ras_hits", "used_bimod",
             "used_2lev", "jr_seen", "jr_hits", "jr_non_ras_seen", "jr_non_ras_hits",
             "retstack_pops", "retstack_pushes"}

\* The tables a class does not use are left empty.
bpred_create(g) ==
    LET has(classes, n) == IF g.class \in classes THEN n ELSE 0
        sets == 0..(has(Stateful, g.btb_sets) - 1)
    IN  [table |-> [bimod |-> bpred_dir_create(has({"Comb", "2bit"}, g.bimod_size)),
                    l2 |-> bpred_dir_create(has({"Comb", "2Level"}, g.l2size)),
                    meta |-> bpred_dir_create(has({"Comb"}, g.meta_size))],
         shiftregs |-> [i \in 0..(has({"Comb", "2Level"}, g.l1size) - 1) |-> 0],
         btb |-> [s \in sets |-> [w \in 1..g.btb_assoc |-> [addr |-> 0, target |-> 0]]],
         lru |-> [s \in sets |-> [w \in 1..g.btb_assoc |-> w]],
         stack |-> [i \in 0..(has(Stateful, g.retstack_size) - 1) |-> 0],
         tos |-> g.retstack_size - 1,
         stat |-> [c \in Counters |-> 0]]

\* Adds the counters of the sequence cs.
Count(p, cs) == [p EXCEPT !.stat = [c \in Counters |-> @[c] + Len(SelectSeq(cs, LAMBDA x : x = c))]]
When(b, c) == IF b THEN <<c>> ELSE <<>>

\* The figures a simulator prints.
bpred_reg_stats(g, p) ==
    [updates |-> p.stat.dir_hits + p.stat.misses,
     addr_rate |-> <<p.stat.addr_hits, p.stat.dir_hits + p.stat.misses>>,
     dir_rate |-> <<p.stat.dir_hits, p.stat.dir_hits + p.stat.misses>>,
     jr_rate |-> <<p.stat.jr_hits, p.stat.jr_seen>>,
     jr_non_ras_rate |-> <<p.stat.jr_non_ras_hits, p.stat.jr_non_ras_seen>>,
     ras_rate |-> <<p.stat.ras_hits, p.stat.used_ras>>,
     used |-> IF g.class = "Comb" THEN p.stat.used_bimod + p.stat.used_2lev ELSE 0]
-----------------------------------------------------------------------------
L1Index(g, pc) == pc % g.l1size

\* History in the low bits, xor-ed with the address when g.xor, the address above.
L2Index(g, p, pc) ==
    LET history == p.shiftregs[L1Index(g, pc)]
        width == 2^g.shift_width
        low == IF g.xor THEN (history ^^ pc) % width ELSE history
    IN  (low + pc * width) % g.l2size

bpred_dir_lookup(g, p, table, pc) ==
    CASE table = "bimod" -> <<"bimod", pc % g.bimod_size>>
      [] table = "meta" -> <<"meta", pc % g.meta_size>>
      [] table = "l2" -> <<"l2", L2Index(g, p, pc)>>

Taken(p, ptr) == p.table[ptr[1]][ptr[2]] >= 2

\* The update record: which counters predict, and what the two components said.
\* dir.meta is only written for Comb; junk is what it held before.
Directions(g, p, pc, op, junk) ==
    LET bimod == bpred_dir_lookup(g, p, "bimod", pc)
        twolev == bpred_dir_lookup(g, p, "l2", pc)
        meta == bpred_dir_lookup(g, p, "meta", pc)
        none == [pdir1 |-> None, pdir2 |-> None, pmeta |-> None,
                 ras |-> FALSE, bimod |-> junk, twolev |-> junk, meta |-> junk]
    IN  CASE ~Conditional(op) \/ g.class \notin Stateful -> none
          [] g.class = "2bit" -> [none EXCEPT !.pdir1 = bimod]
          [] g.class = "2Level" -> [none EXCEPT !.pdir1 = twolev]
          [] g.class = "Comb" ->
               [pdir1 |-> IF Taken(p, meta) THEN twolev ELSE bimod,
                pdir2 |-> IF Taken(p, meta) THEN bimod ELSE twolev,
                pmeta |-> meta, ras |-> FALSE,
                bimod |-> Taken(p, bimod), twolev |-> Taken(p, twolev), meta |-> Taken(p, meta)]

BtbSet(g, pc) == pc % g.btb_sets
\* The way that holds pc, 0 if there is none.
BtbWay(g, p, pc) ==
    LET hit == {w \in 1..g.btb_assoc : p.btb[BtbSet(g, pc)][w].addr = pc}
    IN  IF hit = {} THEN 0 ELSE CHOOSE w \in hit : \A v \in hit : w <= v

\* Mutant: the return address of a call is the call itself.
PushCall(g, p, pc) ==
    LET tos == (p.tos + 1) % g.retstack_size
    IN  Count([p EXCEPT !.tos = tos, !.stack[tos] = pc], <<"retstack_pushes">>)

Push(g, p, pc) ==
    LET tos == (p.tos + 1) % g.retstack_size
    IN  Count([p EXCEPT !.tos = tos, !.stack[tos] = pc + 1], <<"retstack_pushes">>)
Pop(g, p) ==
    Count([p EXCEPT !.tos = (@ + g.retstack_size - 1) % g.retstack_size], <<"retstack_pops">>)

\* The prediction: pc is the predicted address, 0 or 1; u the update record;
\* idx the top of stack to recover, junkidx when it is not written.
bpred_lookup(g, p0, pc, btarget, op, junk, junkidx) ==
    LET p == Count(p0, <<"lookups">>)
        u == Directions(g, p, pc, op, junk)
        pops == MD_IS_RETURN(op) /\ g.retstack_size > 0
        pushes == MD_IS_CALL(op) /\ g.retstack_size > 0
        way == BtbWay(g, p, pc)
        known == IF way = 0 THEN 1 ELSE p.btb[BtbSet(g, pc)][way].target
        idx == IF g.retstack_size > 0 THEN p.tos ELSE 0
    IN  CASE g.class = "Taken" \/ (g.class = "NotTaken" /\ ~Conditional(op)) ->
               [p |-> p, pc |-> btarget, u |-> u, idx |-> junkidx]
          [] g.class = "NotTaken" /\ Conditional(op) -> [p |-> p, pc |-> pc + 1, u |-> u, idx |-> junkidx]
          [] g.class \in Stateful /\ pops ->
               [p |-> Pop(g, p), pc |-> p.stack[p.tos], u |-> [u EXCEPT !.ras = TRUE], idx |-> idx]
          [] g.class \in Stateful /\ ~pops ->
               [p |-> IF pushes THEN Push(g, p, pc) ELSE p, u |-> u, idx |-> idx,
                pc |-> IF ~Conditional(op) \/ Taken(p, u.pdir1) THEN known ELSE 0]
-----------------------------------------------------------------------------
\* Mutant: the counter does not stop at three.
NoCeiling(p, ptr, up) ==
    IF ptr = None THEN p
    ELSE [p EXCEPT !.table[ptr[1]][ptr[2]] = IF up THEN @ + 1 ELSE IF @ > 0 THEN @ - 1 ELSE @]

\* A two-bit counter moves up or down and saturates.
Train(p, ptr, up) ==
    IF ptr = None THEN p
    ELSE [p EXCEPT !.table[ptr[1]][ptr[2]] = IF up THEN (IF @ < 3 THEN @ + 1 ELSE @)
                                             ELSE IF @ > 0 THEN @ - 1 ELSE @]

\* The chooser learns only when the two components disagree.
TrainMeta(p, u, taken) ==
    IF u.bimod = u.twolev THEN p ELSE Train(p, u.pmeta, u.twolev = taken)

Shift(g, p, pc, op, taken) ==
    IF Conditional(op) /\ g.class \in {"2Level", "Comb"}
    THEN [p EXCEPT !.shiftregs[L1Index(g, pc)] =
                     (2 * @ + (IF taken THEN 1 ELSE 0)) % 2^g.shift_width]
    ELSE p

\* Mutant: a hit does not become the most recently used entry.
HitStays(order, w) == IF w = Last(order) THEN <<w>> \o Front(order) ELSE order

MakeMru(order, w) == <<w>> \o Remove(order, w)

\* A hit keeps its target when the prediction was correct.
WriteBtb(p, s, w, pc, btarget, correct) ==
    [p EXCEPT !.btb[s][w] = IF @.addr = pc /\ correct THEN @
                            ELSE [addr |-> pc, target |-> btarget]]

\* A taken branch takes its entry or the least recently used one.
EnterBtb(g, p, pc, btarget, taken, correct) ==
    LET s == BtbSet(g, pc)
        hit == BtbWay(g, p, pc)
        w == IF hit # 0 THEN hit ELSE Last(p.lru[s])
    IN  IF ~taken THEN p
        ELSE WriteBtb([p EXCEPT !.lru[s] = MakeMru(@, w)], s, w, pc, btarget, correct)

\* Mutant: a JR that used the stack is also counted as one that did not.
JrTwice(p, op, taken, pred_taken, correct, u) ==
    Count(p, When(correct, "addr_hits")
             \o <<IF pred_taken = taken THEN "dir_hits" ELSE "misses">>
             \o When(u.ras, "used_ras") \o When(u.ras /\ correct, "ras_hits")
             \o When(MD_IS_INDIR(op), "jr_seen") \o When(MD_IS_INDIR(op), "jr_non_ras_seen"))

UpdateStats(p, op, taken, pred_taken, correct, u) ==
    Count(p, When(correct, "addr_hits")
             \o <<IF pred_taken = taken THEN "dir_hits" ELSE "misses">>
             \o When(u.ras, "used_ras") \o When(u.ras /\ correct, "ras_hits")
             \o When(~u.ras /\ Conditional(op), IF u.meta THEN "used_2lev" ELSE "used_bimod")
             \o When(MD_IS_INDIR(op), "jr_seen") \o When(MD_IS_INDIR(op) /\ correct, "jr_hits")
             \o When(MD_IS_INDIR(op) /\ ~u.ras, "jr_non_ras_seen")
             \o When(MD_IS_INDIR(op) /\ ~u.ras /\ correct, "jr_non_ras_hits"))

\* A return that used the stack, and a predictor without state, only count.
bpred_update(g, p, pc, btarget, taken, pred_taken, correct, op, u) ==
    LET counted == UpdateStats(p, op, taken, pred_taken, correct, u)
        entered == EnterBtb(g, Shift(g, counted, pc, op, taken), pc, btarget, taken, correct)
        trained == Train(Train(entered, u.pdir1, taken), u.pdir2, taken)
    IN  IF (MD_IS_INDIR(op) /\ u.ras) \/ g.class \notin Stateful THEN counted
        ELSE TrainMeta(trained, u, taken)

\* Mutant: the stack stays where the wrong path left it.
KeepsTop(p, idx) == p

\* Only the top of the stack is recovered, not what was written above it.
bpred_recover(p, idx) == [p EXCEPT !.tos = idx]
=============================================================================
