-------------------------------- MODULE Stats -------------------------------
(***************************************************************************)
(* The statistics database (stats.c): variables, array and sparse          *)
(* distributions and formulas, registered, sampled by the simulator and    *)
(* printed; and the profile by program counter that sim-cache, sim-profile *)
(* and sim-outorder keep with it (-pcstat).                                *)
(*                                                                         *)
(* A declaration is what a simulator passes to a stat_reg function.  An    *)
(* unsigned int has IntBits bits; totals are doubles and exact.            *)
(***************************************************************************)
EXTENDS Eval, SequencesExt, FiniteSetsExt, Functions, Bitwise

\* A simulator: the statistics it may register (decls), the names given with
\* -pcstat, in order (tracked), where its instructions are, samples and their
\* numbers (pcs, indexes, counts), and a bound on the instructions (max).
CONSTANTS Simulators,
          HTAB_SZ, HTAB_SHIFT     \* size of the hash table, and the shift of its hash

VARIABLES sim,
          phase,                  \* "register", "run", "printed" or "fatal"
          stats,                  \* the declarations, in the order of their list
          var,                    \* the values of the variables
          arr, overflows,         \* of array distributions
          sarr,                   \* of sparse distributions: chains of buckets
          pcstat,                 \* tracked statistics: name, last value, distribution
          insns,                  \* increments and samples so far
          added, pending,         \* ghosts: samples given to each distribution, and
                                  \* increments since the last sample by program counter
          printed

store  == <<var, arr, overflows, sarr>>
ghosts == <<added, pending>>
vars   == <<sim, phase, stats, store, pcstat, insns, ghosts, printed>>

Integral == {"int", "uint", "qword", "sqword"}
ByPc(name) == name \o "_by_pc"
AllNames == {d.name : d \in sim.decls} \cup {ByPc(sim.tracked[j]) : j \in DOMAIN sim.tracked}
Places == sim.indexes \cup sim.pcs

U(n) == n % 2^IntBits                            \* an unsigned int
HTAB_HASH(i) == ((i \div 2^HTAB_SHIFT) ^^ i) & (HTAB_SZ - 1)

---------------------------------------------------------------------------
(* Registration: the statistic goes to the end of the list, its storage is *)
(* initialised.                                                            *)

add_stat(d) == stats' = Append(stats, d)

stat_reg_var(d) ==        \* stat_reg_int(), stat_reg_uint(), ..., stat_reg_double()
  /\ d.sc \in Integral \cup Floating
  /\ add_stat(d)
  /\ var' = [var EXCEPT ![d.name] = V(d.sc, d.init, 1)]
  /\ UNCHANGED <<arr, overflows, sarr>>
stat_reg_dist(d) ==
  /\ d.sc = "dist"
  /\ add_stat(d)
  /\ arr' = [arr EXCEPT ![d.name] = [i \in 0..(d.size - 1) |-> d.init]]
  /\ overflows' = [overflows EXCEPT ![d.name] = 0]
  /\ UNCHANGED <<var, sarr>>
stat_reg_sdist(d) ==
  /\ d.sc = "sdist"
  /\ add_stat(d)
  /\ sarr' = [sarr EXCEPT ![d.name] = [k \in 0..(HTAB_SZ - 1) |-> <<>>]]
  /\ UNCHANGED <<var, arr, overflows>>
stat_reg_formula(d) == d.sc = "formula" /\ add_stat(d) /\ UNCHANGED store

Register(d) ==
  /\ phase = "register" /\ pcstat = <<>> /\ d \notin ToSet(stats)
  /\ stat_reg_var(d) \/ stat_reg_dist(d) \/ stat_reg_sdist(d) \/ stat_reg_formula(d)
  /\ UNCHANGED <<sim, phase, pcstat, insns, ghosts, printed>>

stat_find_stat(name) == SelectInSeq(stats, LAMBDA d : d.name = name)        \* 0 if there is none

Trackable(j) == IF j = 0 THEN FALSE ELSE stats[j].sc \in Integral

\* The next of the statistics tracked by program counter.
RegisterTracked ==
  /\ phase = "register" /\ Len(pcstat) < Len(sim.tracked)
  /\ LET name == sim.tracked[Len(pcstat) + 1]
         j    == stat_find_stat(name)
         sd   == [name |-> ByPc(name), sc |-> "sdist", init |-> 0, size |-> 0, bucket |-> 1, formula |-> <<>>]
     IN IF ~Trackable(j)
          THEN phase' = "fatal" /\ UNCHANGED <<stats, store, pcstat>>
          ELSE /\ pcstat' = Append(pcstat, [stat |-> name, last |-> var[name].n])
               /\ stat_reg_sdist(sd)
               /\ UNCHANGED phase
  /\ UNCHANGED <<sim, insns, ghosts, printed>>

Run ==
  /\ phase = "register" /\ Len(pcstat) = Len(sim.tracked) /\ phase' = "run"
  /\ UNCHANGED <<sim, stats, store, pcstat, insns, ghosts, printed>>

---------------------------------------------------------------------------
(* Samples.                                                                *)

\* A mutant: the index is checked, not the bucket.
MutantDist(d, index, n) ==
  LET i == index \div d.bucket IN
  IF index >= d.size THEN overflows' = [overflows EXCEPT ![d.name] = U(@ + n)] /\ UNCHANGED arr
  ELSE arr' = [arr EXCEPT ![d.name][i] = U(@ + n)] /\ UNCHANGED overflows

AddDist(d, index, n) ==
  LET i == index \div d.bucket IN
  IF i >= d.size THEN overflows' = [overflows EXCEPT ![d.name] = U(@ + n)] /\ UNCHANGED arr
  ELSE arr' = [arr EXCEPT ![d.name][i] = U(@ + n)] /\ UNCHANGED overflows

\* A mutant: the first bucket of the chain is taken.
MutantChain(init, chain, index, n) ==
  LET j == IF chain = <<>> THEN 0 ELSE 1
  IN IF j = 0 THEN <<[index |-> index, count |-> U(init + n)]>> ELSE [chain EXCEPT ![j].count = U(@ + n)]

\* A chain with the samples added to the bucket of the index, a new one in front.
AddChain(init, chain, index, n) ==
  LET j == SelectInSeq(chain, LAMBDA b : b.index = index)
  IN IF j = 0 THEN <<[index |-> index, count |-> U(init + n)]>> \o chain ELSE [chain EXCEPT ![j].count = U(@ + n)]
AddSparse(table, init, index, n) == [table EXCEPT ![HTAB_HASH(index)] = AddChain(init, @, index, n)]

stat_add_samples(d, index, n) ==
  /\ phase = "run" /\ d.sc \in {"dist", "sdist"} /\ insns < sim.max
  /\ IF d.sc = "dist" THEN AddDist(d, index, n) /\ UNCHANGED sarr
     ELSE sarr' = [sarr EXCEPT ![d.name] = AddSparse(@, d.init, index, n)] /\ UNCHANGED <<arr, overflows>>
  /\ added' = [added EXCEPT ![d.name][index] = @ + n]
  /\ insns' = insns + 1
  /\ UNCHANGED <<sim, phase, stats, var, pcstat, pending, printed>>

\* A mutant: the last value is not brought up to date.
MutantPcStat(pc, v) ==
  LET delta(j) == Wrap("int", v[pcstat[j].stat].n - pcstat[j].last)
      touched  == {j \in DOMAIN pcstat : delta(j) # 0}
  IN /\ pcstat' = pcstat
     /\ sarr' = [name \in AllNames |->
          IF \E j \in touched : name = ByPc(pcstat[j].stat)
            THEN AddSparse(sarr[name], 0, pc, delta(CHOOSE j \in touched : name = ByPc(pcstat[j].stat)))
            ELSE sarr[name]]

\* The tracked statistics that changed, by the end of the instruction at pc.
PcStat(pc, v) ==
  LET delta(j) == Wrap("int", v[pcstat[j].stat].n - pcstat[j].last)
      touched  == {j \in DOMAIN pcstat : delta(j) # 0}
  IN /\ pcstat' = [j \in DOMAIN pcstat |-> IF j \in touched THEN [pcstat[j] EXCEPT !.last = v[pcstat[j].stat].n] ELSE pcstat[j]]
     /\ sarr' = [name \in AllNames |->
          IF \E j \in touched : name = ByPc(pcstat[j].stat)
            THEN AddSparse(sarr[name], 0, pc, delta(CHOOSE j \in touched : name = ByPc(pcstat[j].stat)))
            ELSE sarr[name]]

\* The simulator counts, at any point of an instruction or of a cycle.
Count(name, n) ==
  /\ phase = "run" /\ insns < sim.max
  /\ \E j \in DOMAIN stats : stats[j].name = name
  /\ var' = [var EXCEPT ![name] = Value(@.type, @.n + n * @.d, @.d)]
  /\ pending' = [pending EXCEPT ![name] = @ + n]
  /\ insns' = insns + 1
  /\ UNCHANGED <<sim, phase, stats, arr, overflows, sarr, pcstat, added, printed>>

\* The end of the instruction at pc, or its dispatch.  One that leaves the
\* simulator, an exit call or a fatal fault, does not come here.
Sample(pc) ==
  /\ phase = "run" /\ PcStat(pc, var)
  /\ LET tracked == {pcstat[j].stat : j \in DOMAIN pcstat} IN
       /\ added' = [name \in AllNames |->
            IF \E s \in tracked : name = ByPc(s)
              THEN [added[name] EXCEPT ![pc] = @ + pending[CHOOSE s \in tracked : name = ByPc(s)]] ELSE added[name]]
       /\ pending' = [name \in AllNames |-> IF name \in tracked THEN 0 ELSE pending[name]]
  /\ UNCHANGED <<sim, phase, stats, var, arr, overflows, insns, printed>>

---------------------------------------------------------------------------
(* Printing: each statistic's rows or value.                               *)

Sums(rows) == [j \in DOMAIN rows |-> [index |-> rows[j].index, count |-> rows[j].count,
                                      sum |-> FoldFunctionOnSet(+, 0, [k \in DOMAIN rows |-> rows[k].count], 1..j)]]
print_dist(d) == Sums([j \in 1..d.size |-> [index |-> (j - 1) * d.bucket, count |-> arr[d.name][j - 1]]])
print_sdist(d) ==
  Sums(SetToSortSeq(UNION {ToSet(sarr[d.name][k]) : k \in 0..(HTAB_SZ - 1)}, LAMBDA a, b : a.index < b.index))

Known == [name \in {d.name : d \in ToSet(stats)} |->
            LET d == stats[stat_find_stat(name)] IN [sc |-> d.sc, val |-> var[name], formula |-> d.formula]]
Environment == [regs |-> <<>>, syms |-> <<>>, stats |-> Known]

\* The error that is printed, if any, is the evaluator's.
print_formula(d) ==
  LET r == eval_expr("stat", Environment, d.formula)
      bad == r.err # "" \/ r.endp <= Len(d.formula)
  IN [bad |-> bad, err |-> r.err, val |-> IF bad THEN err_value ELSE eval_as("double", r.val)]

NoRows == <<>>
stat_print_stat(d) ==
  [rows |-> CASE d.sc = "dist" -> print_dist(d) [] d.sc = "sdist" -> print_sdist(d) [] OTHER -> NoRows,
   for  |-> IF d.sc = "formula" THEN print_formula(d) ELSE [bad |-> FALSE, err |-> "", val |-> var[d.name]]]

stat_print_stats ==
  /\ phase = "run"
  /\ LET out == [j \in DOMAIN stats |-> stat_print_stat(stats[j])] IN
       IF \E j \in DOMAIN out : out[j].for.err \in {"fatal", "trap"} THEN phase' = "fatal" /\ UNCHANGED printed
       ELSE phase' = "printed" /\ printed' = out
  /\ UNCHANGED <<sim, stats, store, pcstat, insns, ghosts>>

---------------------------------------------------------------------------
Init ==
  /\ sim \in Simulators
  /\ phase = "register" /\ stats = <<>> /\ pcstat = <<>> /\ insns = 0 /\ printed = <<>>
  /\ var = [name \in AllNames |-> err_value]
  /\ arr = [name \in AllNames |-> <<>>] /\ overflows = [name \in AllNames |-> 0]
  /\ sarr = [name \in AllNames |-> <<>>]
  /\ added = [name \in AllNames |-> [i \in Places |-> 0]] /\ pending = [name \in AllNames |-> 0]

Next ==
  \/ \E d \in sim.decls : Register(d)
  \/ RegisterTracked \/ Run \/ stat_print_stats
  \/ \E d \in sim.decls \cap ToSet(stats), i \in sim.indexes, n \in sim.counts : stat_add_samples(d, i, n)
  \/ \E d \in sim.decls, n \in sim.counts : d.sc \in Integral \cup Floating /\ Count(d.name, n)
  \/ \E pc \in sim.pcs : Sample(pc)
Spec == Init /\ [][Next]_vars

---------------------------------------------------------------------------
Samples(name, S) == FoldFunctionOnSet(+, 0, added[name], S)
Given(d, k) == {i \in Places : i \div d.bucket = k}
Is(count, n) == n < 2^IntBits => count = n       \* a count that fits

\* Every sample is counted once, in the row of its index or as an overflow, as
\* long as the count fits an unsigned int; the rows of a distribution are in
\* the order of their indexes, a sparse one has those that were sampled, and
\* the sums add up.  In a profile by program counter the samples of an address
\* are the increments between its own samples and the ones before them: what
\* is counted after the last sample of all is in no row.
RowsExact ==
  phase = "printed" => \A j \in DOMAIN stats :
    LET d    == stats[j]
        rows == printed[j].rows
        sum(k) == FoldFunctionOnSet(+, 0, [i \in DOMAIN rows |-> rows[i].count], 1..k)
    IN /\ d.sc = "dist" =>
            /\ \A k \in 0..(d.size - 1) : rows[k + 1].index = k * d.bucket /\ Is(rows[k + 1].count, d.init + Samples(d.name, Given(d, k)))
            /\ Is(overflows[d.name], Samples(d.name, {i \in Places : i \div d.bucket >= d.size}))
       /\ d.sc = "sdist" =>
            /\ \A k \in DOMAIN rows : added[d.name][rows[k].index] # 0 /\ Is(rows[k].count, d.init + added[d.name][rows[k].index])
            /\ \A i \in Places : added[d.name][i] \in 1..(2^IntBits - 1) => \E k \in DOMAIN rows : rows[k].index = i
            /\ \A k, l \in DOMAIN rows : k < l => rows[k].index < rows[l].index
       /\ \A k \in DOMAIN rows : rows[k].sum = sum(k)

RECURSIVE Inline(_)
\* A formula with those it refers to written out in parentheses.
Inline(ts) ==
  FlattenSeq([j \in DOMAIN ts |->
    IF ts[j].k = "ident" /\ ts[j].id \in DOMAIN Known /\ Known[ts[j].id].sc = "formula"
      THEN <<T("(")>> \o Inline(Known[ts[j].id].formula) \o <<T(")")>> ELSE <<ts[j]>>])

Plain == [name \in {n \in DOMAIN Known : Known[n].sc \in Integral \cup Floating} |->
            IF Known[name].sc \in {"qword", "sqword"} THEN eval_as("double", var[name]) ELSE var[name]]

Printed(vals) == {eval_as("double", v) : v \in vals \ {NoVal, Trap}}
Shows(f, vals) == IF Printed(vals) = {} THEN f.bad ELSE ~f.bad /\ f.val \in Printed(vals)

\* A formula is printed with the value of its text, the formulas it refers to
\* written out in it, at the time it is printed; an error if there is none.
FormulaInlined ==
  phase = "printed" => \A j \in DOMAIN stats :
    stats[j].sc = "formula" => Shows(printed[j].for, RefExpr(Inline(stats[j].formula), Plain))
=============================================================================
