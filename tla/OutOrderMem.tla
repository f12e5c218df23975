---------------------------- MODULE OutOrderMem -----------------------------
(***************************************************************************)
(* The memory side of simplesim-3.0/sim-outorder.c: the options it accepts,*)
(* the caches and TLBs they describe with their latencies, loads, committed*)
(* stores, and the fetch stage that blocks on an instruction miss.         *)
(*                                                                         *)
(* Blocks have one size at both levels.  A cycle is one data access, or    *)
(* none, or a branch recovery, followed by the fetch stage.                *)
(***************************************************************************)
EXTENDS Naturals, TLC

CONSTANTS Settings,               \* options given on the command line, over the defaults
          MAX_INSTS_PER_CLASS,
          L1, L2, TLB,            \* geometries without their latencies
          BlockSize, TextBlocks, DataBlocks, PageBlocks, MaxTime

VARIABLES opts, run,              \* run: "fatal" or "go"
          caches, sim_cycle, phase,
          pc, delay,              \* fetch_pred_PC, ruu_fetch_issue_delay
          tries,                  \* times in a row the same fetch was blocked
          arrival,                \* when the data of a block last fetched arrives
          last                    \* the last access to data: block and latency

vars == <<opts, run, caches, sim_cycle, phase, pc, delay, tries, arrival, last>>

None == "none"
PowerOf2(x) == x \in {1, 2, 4, 8, 16, 32, 64}
Unit(x) == x >= 1 /\ x <= MAX_INSTS_PER_CLASS

\* What sim_reg_options registers, with the default values.
CoreDefaults ==
    [fastfwd |-> 0, ifq |-> 4, mplat |-> 3, speed |-> 1, pred |-> "bimod", bimod_nelt |-> 1, twolev_nelt |-> 4,
     comb_nelt |-> 1, btb_nelt |-> 2, spec_update |-> "CT", decode |-> 4, issue |-> 4, commit |-> 4, ruu |-> 16, lsq |-> 8]
MemDefaults ==
    [dl1 |-> "cfg", dl2 |-> "cfg", il1 |-> "cfg", il2 |-> "dl2", itlb |-> "cfg", dtlb |-> "cfg", flush |-> FALSE,
     dl1lat |-> 1, dl2lat |-> 6, il1lat |-> 1, il2lat |-> 6, mem0 |-> 18, mem1 |-> 2, width |-> 8, tlblat |-> 30,
     ialu |-> 4, imult |-> 1, memport |-> 2, fpalu |-> 4, fpmult |-> 1]
sim_reg_options == CoreDefaults @@ MemDefaults

\* Everything sim_check_options refuses with fatal().
CachesAccepted(o) ==
    /\ o.dl1 = None => o.dl2 = None
    /\ o.il1 # "cfg" => o.il2 = None
    /\ o.il1 = "dl1" => o.dl1 = "cfg"
    /\ "dl2" \in {o.il1, o.il2} => o.dl2 = "cfg"
CoreAccepted(o) ==
    /\ o.fastfwd >= 0
    /\ PowerOf2(o.ifq) /\ o.mplat >= 1 /\ o.speed >= 1
    /\ PowerOf2(o.decode) /\ PowerOf2(o.issue) /\ o.commit >= 1
    /\ o.ruu >= 2 /\ PowerOf2(o.ruu) /\ o.lsq >= 2 /\ PowerOf2(o.lsq)
    /\ o.spec_update \in {"CT", "ID", "WB"}
    /\ \A u \in {o.ialu, o.imult, o.memport, o.fpalu, o.fpmult} : Unit(u)
PredAccepted(o) ==
    /\ o.pred \in {"perfect", "taken", "nottaken", "bimod", "2lev", "comb"}
    /\ o.pred \in {"bimod", "comb"} => o.bimod_nelt = 1
    /\ o.pred \in {"2lev", "comb"} => o.twolev_nelt = 4
    /\ o.pred = "comb" => o.comb_nelt = 1
    /\ o.pred \in {"bimod", "2lev", "comb"} => o.btb_nelt = 2
\* Mutant: latencies of zero are let through.
AnyLatency(o) == PowerOf2(o.width)
LatenciesAccepted(o) ==
    /\ \A l \in {o.dl1lat, o.dl2lat, o.il1lat, o.il2lat, o.mem0, o.mem1, o.tlblat} : l >= 1
    /\ PowerOf2(o.width)
sim_check_options(o) == CoreAccepted(o) /\ PredAccepted(o) /\ CachesAccepted(o) /\ LatenciesAccepted(o)

\* The cache a pointer names.
Own(opt, name) == IF opt = "cfg" THEN name ELSE opt
Geometry(name) ==
    CASE name = "dl1" -> [L1 EXCEPT !.hit_latency = opts.dl1lat]
      [] name = "il1" -> [L1 EXCEPT !.hit_latency = opts.il1lat]
      [] name = "dl2" -> [L2 EXCEPT !.hit_latency = opts.dl2lat]
      [] name = "il2" -> [L2 EXCEPT !.hit_latency = opts.il2lat]
      [] OTHER -> [TLB EXCEPT !.hit_latency = 1]
-----------------------------------------------------------------------------
mem_access_latency == LET chunks == (BlockSize + opts.width - 1) \div opts.width
                      IN  opts.mem0 + opts.mem1 * (chunks - 1)

\* Writes are free: "unlimited write buffers".
dl2_access_fn(cs, cmd, b, now) == [next |-> cs, lat |-> IF cmd = "Read" THEN mem_access_latency ELSE 0]
il2_access_fn(cs, cmd, b, now) == [next |-> cs, lat |-> mem_access_latency]
tlb_access_fn(cs, cmd, b, now) == [next |-> cs, lat |-> opts.tlblat]

Dl2 == INSTANCE SSCache WITH blk_access_fn <- dl2_access_fn
Il2 == INSTANCE SSCache WITH blk_access_fn <- il2_access_fn
Tlb == INSTANCE SSCache WITH blk_access_fn <- tlb_access_fn

\* The result of an access to a cache, with the cache put back.
Back(r, name) == [next |-> [r.next EXCEPT ![name] = r.c], lat |-> r.lat]

Access2(cs, name, cmd, b, now) ==
    Back(IF name = "dl2" THEN Dl2!cache_access(Geometry(name), cs[name], cmd, b, now, 1, cs)
         ELSE Il2!cache_access(Geometry(name), cs[name], cmd, b, now, 1, cs), name)

dl1_access_fn(cs, cmd, b, now) ==
    LET below == IF opts.dl2 = None THEN [next |-> cs, lat |-> mem_access_latency] ELSE Access2(cs, "dl2", cmd, b, now)
    IN  [below EXCEPT !.lat = IF cmd = "Read" THEN @ ELSE 0]
il1_access_fn(cs, cmd, b, now) ==
    IF opts.il2 = None THEN [next |-> cs, lat |-> mem_access_latency] ELSE Access2(cs, Own(opts.il2, "il2"), cmd, b, now)

Dl1 == INSTANCE SSCache WITH blk_access_fn <- dl1_access_fn
Il1 == INSTANCE SSCache WITH blk_access_fn <- il1_access_fn

\* cache_access on a cache by name; with no cache the latency is given.
Access1(g, cs, name, cmd, b, now) ==
    CASE name = "dl1" -> Dl1!cache_access(g, cs[name], cmd, b, now, 1, cs)
      [] name = "il1" -> Il1!cache_access(g, cs[name], cmd, b, now, 1, cs)
      [] OTHER -> Tlb!cache_access(g, cs[name], cmd, b, now, 1, cs)

Access(cs, name, cmd, b, now, without) ==
    CASE name = None -> [next |-> cs, lat |-> without]
      [] name = "dl2" -> Access2(cs, name, cmd, b, now)
      [] OTHER -> Back(Access1(Geometry(name), cs, name, cmd, b, now), name)

Page(b) == b \div PageBlocks + 1
\* Cache and TLB are accessed in parallel.
Slower(r, t) == [next |-> t.next, lat |-> Dl2!Later(t.lat, r.lat), cache |-> r.lat]
AndTlb(r, tlb, b) == Slower(r, Access(r.next, tlb, "Read", Page(b), sim_cycle, 0))
Both(name, tlb, cmd, b, without) == AndTlb(Access(caches, name, cmd, b, sim_cycle, without), tlb, b)

Running == run = "go" /\ sim_cycle < MaxTime
\* The load of ruu_issue, with no store to forward from.
Loaded(b, r) ==
    /\ caches' = r.next
    /\ last' = [b |-> b, lat |-> r.lat, by |-> arrival[b]]
    /\ arrival' = [arrival EXCEPT ![b] = sim_cycle + r.cache]
Load(b) ==
    /\ Running /\ phase = "data"
    /\ Loaded(b, Both(Own(opts.dl1, "dl1"), Own(opts.dtlb, "dtlb"), "Read", b, 1))
    /\ phase' = "fetch" /\ tries' = 0
    /\ UNCHANGED <<opts, run, sim_cycle, pc, delay>>
\* The store that ruu_commit retires.
Stored(b, r) ==
    /\ caches' = r.next
    /\ arrival' = [arrival EXCEPT ![b] = sim_cycle + r.cache]
Store(b) ==
    /\ Running /\ phase = "data"
    /\ Stored(b, Both(Own(opts.dl1, "dl1"), Own(opts.dtlb, "dtlb"), "Write", b, 1))
    /\ phase' = "fetch" /\ tries' = 0
    /\ UNCHANGED <<opts, run, sim_cycle, pc, delay, last>>
\* ruu_writeback resolves a mispredicted branch: fetch restarts elsewhere.
Recover(target) ==
    /\ Running /\ phase = "data"
    /\ pc' = target /\ delay' = opts.mplat
    /\ phase' = "fetch" /\ tries' = 0
    /\ UNCHANGED <<opts, run, caches, sim_cycle, arrival, last>>
\* A system call at dispatch: the flag of -cache:flush is read nowhere.
Syscall ==
    /\ Running /\ phase = "data"
    /\ phase' = "fetch" /\ last' = [last EXCEPT !.b = 0, !.by = 0]
    /\ UNCHANGED <<opts, run, caches, sim_cycle, pc, delay, tries, arrival>>
NoData ==
    /\ Running /\ phase = "data" /\ phase' = "fetch"
    /\ UNCHANGED <<opts, run, caches, sim_cycle, pc, delay, tries, arrival, last>>

\* Mutant: a blocked fetch waits for one cycle too few each time.
Shorter(lat) == IF lat > 2 THEN lat - 3 ELSE 0
Stall(lat) == lat - 1

\* ruu_fetch for one instruction, or the count down of the delay.
Fetched(target, r) ==
    /\ caches' = r.next
    /\ IF r.lat # opts.il1lat
       THEN target = pc /\ delay' = Stall(r.lat) /\ tries' = tries + 1 /\ UNCHANGED pc
       ELSE pc' = target /\ tries' = 0 /\ UNCHANGED delay
Fetch(target) ==
    /\ Running /\ phase = "fetch"
    /\ IF delay > 0 THEN target = pc /\ delay' = delay - 1 /\ UNCHANGED <<caches, pc, tries>>
       ELSE Fetched(target, Both(Own(opts.il1, "il1"), Own(opts.itlb, "itlb"), "Read", pc, opts.il1lat))
    /\ phase' = "data" /\ sim_cycle' = sim_cycle + 1
    /\ UNCHANGED <<opts, run, arrival, last>>

Init ==
    /\ opts \in {s @@ sim_reg_options : s \in Settings}
    /\ run = IF sim_check_options(opts) THEN "go" ELSE "fatal"
    /\ caches = [name \in {"dl1", "dl2", "il1", "il2", "itlb", "dtlb"} |-> Dl2!cache_create(Geometry(name))]
    /\ sim_cycle = 0 /\ phase = "data" /\ pc \in TextBlocks /\ delay = 0 /\ tries = 0
    /\ arrival = [b \in DataBlocks |-> 0] /\ last = [b |-> 0, lat |-> 1, by |-> 0]

Next ==
    \/ \E b \in DataBlocks : Load(b) \/ Store(b)
    \/ \E target \in TextBlocks : Recover(target) \/ Fetch(target)
    \/ NoData \/ Syscall
Spec == Init /\ [][Next]_vars
-----------------------------------------------------------------------------
\* With accepted options no load completes in the cycle it issues, which would
\* be the panic "event occurred in the past".
NeverInThePast == last.lat >= 1

\* A load never completes before the miss that brings its block into the cache.
NoEarlyData ==
    last'.b # 0 /\ last' # last /\ opts.dl1 # None /\ Dl1!cache_probe(Geometry("dl1"), caches["dl1"], last'.b)
      => sim_cycle + last'.lat >= last'.by

\* A fetch that was blocked proceeds when it is tried again, unless a data access
\* or a recovery came between: the code expects a hit to take cache_il1_lat.
FetchProceeds == tries <= 1
=============================================================================
