---------------------------- MODULE MCSimulators ----------------------------
(***************************************************************************)
(* The two simulators that run a program past one structure: sim-cache     *)
(* past a hierarchy of caches, sim-bpred past a branch predictor.  A       *)
(* behaviour is about one of them; the variables of the other are Off.     *)
(***************************************************************************)
EXTENDS Naturals

CONSTANT Simulators     \* "cache", "bpred"

VARIABLES
    sim,
    opts, h, caches, newest, sim_num_insn, sim_num_refs, pcstat_last, pcstat_dist, flushed,
    g, p, sim_num_branches, calls, recent, went, lost, guess

ofCache == <<opts, h, caches, newest, sim_num_insn, sim_num_refs, pcstat_last, pcstat_dist, flushed>>
ofBPred == <<g, p, sim_num_branches, calls, recent, went, lost, guess>>
vars == <<sim, ofCache, ofBPred>>

Off == "off"

\* Direct-mapped first levels over a two-way second level.
Level(assoc, policy) == [nsets |-> 1, assoc |-> assoc, hsize |-> 0, policy |-> policy, hit_latency |-> 1]
Cache == INSTANCE SimCache WITH L1 <- Level(1, "FIFO"), L2 <- Level(2, "LRU"), TLB <- Level(1, "LRU"),
             TextBlocks <- {2, 3}, DataBlocks <- {4, 5}, PageBlocks <- 2, MaxInsts <- 4

\* Two conditional branches, two calls, a return and an indirect jump.
Sites ==
    {[pc |-> 2, op |-> {"F_COND"}, targets |-> {6}],
     [pc |-> 4, op |-> {"F_COND"}, targets |-> {2}],
     [pc |-> 6, op |-> {"F_UNCOND", "F_CALL"}, targets |-> {20}],
     [pc |-> 8, op |-> {"F_UNCOND", "F_CALL", "JALR"}, targets |-> {20, 30}],
     [pc |-> 20, op |-> {"F_UNCOND", "JR", "R31"}, targets |-> {}],
     [pc |-> 30, op |-> {"F_UNCOND", "JR"}, targets |-> {2, 4}]}

\* One predictor of each class, and two settings that are refused.
Base == [type |-> "comb", class |-> "", n |-> [bimod |-> 1, twolev |-> 4, comb |-> 1, btb |-> 2],
         bimod_size |-> 2, l1size |-> 1, l2size |-> 4, meta_size |-> 1, shift_width |-> 2,
         xor |-> TRUE, btb_sets |-> 2, btb_assoc |-> 2, retstack_size |-> 2]
Configs ==
    {[Base EXCEPT !.type = t] : t \in {"comb", "taken", "nottaken", "perfect"}}
    \cup {[Base EXCEPT !.type = "bimod", !.btb_sets = 1, !.btb_assoc = 4, !.retstack_size = 0],
          [Base EXCEPT !.type = "2lev", !.l1size = 2, !.xor = FALSE, !.btb_assoc = 1, !.retstack_size = 1],
          [Base EXCEPT !.type = "2lev", !.n.twolev = 3],
          [Base EXCEPT !.type = "bimod", !.bimod_size = 3]}
Pred == INSTANCE SimBPred WITH MaxBranches <- 4, MaxDepth <- 3

CacheOff ==
    /\ opts = Off /\ h = Off /\ caches = Off /\ newest = Off /\ sim_num_insn = Off /\ sim_num_refs = Off
    /\ pcstat_last = Off /\ pcstat_dist = Off /\ flushed = Off
PredOff ==
    /\ g = Off /\ p = Off /\ sim_num_branches = Off /\ calls = Off /\ recent = Off /\ went = Off
    /\ lost = Off /\ guess = Off

Init ==
    /\ sim \in Simulators
    /\ \/ sim = "cache" /\ Cache!Init /\ PredOff
       \/ sim = "bpred" /\ Pred!Init /\ CacheOff

Next ==
    \/ sim = "cache" /\ Cache!Next /\ UNCHANGED <<sim, ofBPred>>
    \/ sim = "bpred" /\ Pred!Next /\ UNCHANGED <<sim, ofCache>>

Spec == Init /\ [][Next]_vars
-----------------------------------------------------------------------------
(* The properties of each simulator, while it is the one considered.       *)

\* A block whose last write memory does not have is dirty in the cache that
\* has it, whatever the levels are, and with -flush the system call handler
\* finds every write in memory.
DataKept == sim = "cache" => Cache!NewestKept /\ Cache!FlushSaves

\* Each level sees the misses and write-backs of the levels above it and
\* nothing else, and the samples of -pcstat add up to the statistic.
TrafficExplained == sim = "cache" => Cache!TrafficExplained /\ Cache!SamplesAddUp

\* The BTB holds the most recent targets of the branches that were taken last,
\* and a return is predicted right if the stack held its call all along.
Predicted == sim = "bpred" => Pred!BtbExact /\ Pred!ReturnsPredicted

\* Hits, misses and the figures per class add up to the branches executed, and
\* the counters behind them stay within two bits and move by one.
FiguresAddUp == sim = "bpred" => Pred!FiguresAddUp /\ Pred!CountersSaturate
=============================================================================
