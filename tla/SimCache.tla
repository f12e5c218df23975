------------------------------ MODULE SimCache ------------------------------
(***************************************************************************)
(* simplesim-3.0/sim-cache.c: the hierarchy of caches and TLBs that its    *)
(* options describe, driven by one program.                                *)
(*                                                                         *)
(* caches maps the names dl1, dl2, il1, il2, itlb and dtlb to caches; the  *)
(* pointers cache_il1 and so on are names, so that an instruction cache    *)
(* may be a data cache.  newest is a history variable: where the last      *)
(* write to a block is.                                                    *)
(***************************************************************************)
EXTENDS Naturals, FiniteSetsExt

CONSTANTS
    L1, L2, TLB,    \* geometries of the first and second level and of TLBs
    TextBlocks,     \* blocks instructions are fetched from
    DataBlocks,     \* blocks loads and stores touch
    PageBlocks,     \* blocks of a page
    MaxInsts        \* -max:inst

VARIABLES
    opts,           \* the options, as given
    h,              \* the pointers: which cache each level is
    caches, newest,
    sim_num_insn, sim_num_refs,
    pcstat_last,    \* the tracked statistic (misses of dl1) at the last sample
    pcstat_dist,    \* its samples by text block
    flushed         \* the last instruction was a system call with -flush

vars == <<opts, h, caches, newest, sim_num_insn, sim_num_refs, pcstat_last, pcstat_dist, flushed>>

Names == {"dl1", "dl2", "il1", "il2", "itlb", "dtlb"}
None == "none"
Blocks == TextBlocks \cup DataBlocks

Options ==
    [dl1 : {"cfg", None}, dl2 : {"cfg", None}, il1 : {"cfg", "dl1", "dl2", None},
     il2 : {"cfg", "dl2", None}, tlb : {"cfg", None}, flush : BOOLEAN]

\* The fatal cases of sim_check_options.
Accepted(o) ==
    /\ o.dl1 = None => o.dl2 = None
    /\ o.il1 # "cfg" => o.il2 = None
    /\ o.il1 = "dl1" => o.dl1 = "cfg"
    /\ "dl2" \in {o.il1, o.il2} => o.dl2 = "cfg"

\* The pointers it sets.
sim_check_options(o) ==
    LET own(opt, name) == IF opt = "cfg" THEN name ELSE opt
    IN  [dl1 |-> own(o.dl1, "dl1"), dl2 |-> own(o.dl2, "dl2"),
         il1 |-> own(o.il1, "il1"), il2 |-> own(o.il2, "il2"),
         itlb |-> own(o.tlb, "itlb"), dtlb |-> own(o.tlb, "dtlb")]

Geometry(name) ==
    IF name \in {"dl1", "il1"} THEN L1 ELSE IF name \in {"dl2", "il2"} THEN L2 ELSE TLB
-----------------------------------------------------------------------------
\* The state the access functions work on: caches and where the newest copy
\* of a block is.
State == [caches |-> caches, newest |-> newest]

\* A block written by from goes to to, unless a newer copy exists above.
MoveNewest(st, b, from, to) ==
    IF st.newest[b] = from THEN [st EXCEPT !.newest[b] = to] ELSE st

\* The second level, whose misses and write-backs go to memory.
dl2_access_fn(st, cmd, b, now) ==
    [next |-> IF cmd = "Write" THEN MoveNewest(st, b, "dl2", "mem") ELSE st, lat |-> 1]
il2_access_fn(st, cmd, b, now) == [next |-> st, lat |-> 1]
itlb_access_fn(st, cmd, b, now) == [next |-> st, lat |-> 1]
dtlb_access_fn(st, cmd, b, now) == [next |-> st, lat |-> 1]

Dl2  == INSTANCE SSCache WITH blk_access_fn <- dl2_access_fn
Il2  == INSTANCE SSCache WITH blk_access_fn <- il2_access_fn
Itlb == INSTANCE SSCache WITH blk_access_fn <- itlb_access_fn
Dtlb == INSTANCE SSCache WITH blk_access_fn <- dtlb_access_fn

\* The result of an access to a cache, with the cache put back.
Back(r, name) == [next |-> [r.next EXCEPT !.caches[name] = r.c], lat |-> r.lat]

Access2(st, name, cmd, b) ==
    Back(IF name = "dl2" THEN Dl2!cache_access(Geometry(name), st.caches[name], cmd, b, 0, 1, st)
         ELSE Il2!cache_access(Geometry(name), st.caches[name], cmd, b, 0, 1, st), name)

\* Mutant: write-backs of the first level go straight to memory.
WriteAround(st, cmd, b, now) ==
    IF cmd = "Write" THEN [next |-> MoveNewest(st, b, "dl1", "mem"), lat |-> 1]
    ELSE IF h.dl2 = None THEN [next |-> st, lat |-> 1]
    ELSE Access2(st, h.dl2, cmd, b)

\* The first levels, whose misses and write-backs go to the second level when
\* there is one.
dl1_access_fn(st, cmd, b, now) ==
    LET below == IF h.dl2 = None THEN "mem" ELSE "dl2"
        moved == IF cmd = "Write" THEN MoveNewest(st, b, "dl1", below) ELSE st
    IN  IF below = "mem" THEN [next |-> moved, lat |-> 1] ELSE Access2(moved, h.dl2, cmd, b)
il1_access_fn(st, cmd, b, now) ==
    IF h.il2 = None THEN [next |-> st, lat |-> 1] ELSE Access2(st, h.il2, cmd, b)

Dl1 == INSTANCE SSCache WITH blk_access_fn <- dl1_access_fn
Il1 == INSTANCE SSCache WITH blk_access_fn <- il1_access_fn

\* cache_access on the cache a pointer names; a null pointer is no access.
Access1(g, c, st, name, cmd, b) ==
    CASE name = "dl1" -> Dl1!cache_access(g, c, cmd, b, 0, 1, st)
      [] name = "il1" -> Il1!cache_access(g, c, cmd, b, 0, 1, st)
      [] name = "itlb" -> Itlb!cache_access(g, c, cmd, b, 0, 1, st)
      [] name = "dtlb" -> Dtlb!cache_access(g, c, cmd, b, 0, 1, st)

Access(st, name, cmd, b) ==
    CASE name = None -> st
      [] name = "dl2" -> Access2(st, name, cmd, b).next
      [] OTHER -> Back(Access1(Geometry(name), st.caches[name], st, name, cmd, b), name).next

Page(b) == b \div PageBlocks

\* The fetch of one instruction.
Fetch(st, pc) == Access(Access(st, h.itlb, "Read", Page(pc)), h.il1, "Read", pc)

\* __READ_CACHE, __WRITE_CACHE and dcache_access_fn.
Written(st, cmd, b) ==
    IF cmd = "Write" THEN [st EXCEPT !.newest[b] = IF h.dl1 = None THEN "mem" ELSE "dl1"] ELSE st
DataAccess(st, cmd, b) == Written(Access(Access(st, h.dtlb, cmd, Page(b)), h.dl1, cmd, b), cmd, b)

Flush(g, c, st, name) ==
    CASE name = "dl1" -> Dl1!cache_flush(g, c, 0, st)
      [] name = "dl2" -> Dl2!cache_flush(g, c, 0, st)
      [] name = "dtlb" -> Dtlb!cache_flush(g, c, 0, st)
FlushOne(st, name) ==
    IF name = None THEN st ELSE Back(Flush(Geometry(name), st.caches[name], st, name), name).next

\* Mutant: the second level is flushed before the first.
FlushDown(st) == FlushOne(FlushOne(FlushOne(st, h.dtlb), h.dl2), h.dl1)

\* The flushes of the SYSCALL macro.
FlushAll(st) == FlushOne(FlushOne(FlushOne(st, h.dtlb), h.dl1), h.dl2)
-----------------------------------------------------------------------------
\* Mutant: the value sampled is not remembered.
SampleAgain(pc, st) ==
    LET val == st.caches["dl1"].misses
    IN  /\ pcstat_dist' = [pcstat_dist EXCEPT ![pc] = @ + val - pcstat_last]
        /\ pcstat_last' = pcstat_last

\* What -pcstat attributes to the instruction.
Sample(pc, st) ==
    LET val == st.caches["dl1"].misses
    IN  /\ pcstat_dist' = [pcstat_dist EXCEPT ![pc] = @ + val - pcstat_last]
        /\ pcstat_last' = val

\* The end of an iteration of sim_main that left st.
Finish(pc, st, refs) ==
    /\ caches' = st.caches /\ newest' = st.newest
    /\ sim_num_insn' = sim_num_insn + 1
    /\ sim_num_refs' = sim_num_refs + refs
    /\ Sample(pc, st)
    /\ UNCHANGED <<opts, h>>

Running == sim_num_insn < MaxInsts

Compute(pc) == Running /\ Finish(pc, Fetch(State, pc), 0) /\ flushed' = FALSE

Refer(pc, cmd, b) ==
    /\ Running
    /\ Finish(pc, DataAccess(Fetch(State, pc), cmd, b), 1)
    /\ flushed' = FALSE

\* A system call that reads or writes memory, behind the caches with -flush and
\* through them without.
Behind(st, cmd, b) == IF cmd = "Write" THEN [st EXCEPT !.newest[b] = "mem"] ELSE st
Syscall(pc, cmd, b) ==
    /\ Running
    /\ Finish(pc, IF opts.flush THEN Behind(FlushAll(Fetch(State, pc)), cmd, b) ELSE DataAccess(Fetch(State, pc), cmd, b), 0)
    /\ flushed' = opts.flush

Init ==
    /\ opts \in {o \in Options : Accepted(o)}
    /\ h = sim_check_options(opts)
    /\ caches = [n \in Names |-> Dl2!cache_create(Geometry(n))]
    /\ newest = [b \in Blocks |-> "mem"]
    /\ sim_num_insn = 0 /\ sim_num_refs = 0
    /\ pcstat_last = 0 /\ pcstat_dist = [pc \in TextBlocks |-> 0]
    /\ flushed = FALSE

Next ==
    \E pc \in TextBlocks :
        \/ Compute(pc)
        \/ \E cmd \in {"Read", "Write"}, b \in DataBlocks : Refer(pc, cmd, b) \/ Syscall(pc, cmd, b)

Spec == Init /\ [][Next]_vars
-----------------------------------------------------------------------------
\* A block whose last write memory does not have is dirty in the cache that
\* has it, whatever the levels are, so no write is dropped on its way down or
\* by the flushes of a system call.
NewestKept ==
    \A b \in Blocks : newest[b] # "mem" => b \in Dl2!Dirty(Geometry(newest[b]), caches[newest[b]])

Accesses(name) == caches[name].hits + caches[name].misses
Traffic(name) == caches[name].misses + caches[name].writebacks

\* Each level sees the misses and write-backs of the levels above it and
\* nothing else, when no level is shared by pointing il1 at it.
TrafficExplained ==
    h.dl2 # None /\ h.il1 # "dl2" =>
        Accesses("dl2") = Traffic("dl1") + (IF h.il2 = "dl2" THEN Traffic("il1") ELSE 0)

\* The samples of -pcstat add up to the statistic: a miss is charged to one
\* instruction, a miss caused by a flush or a system call included.
SamplesAddUp ==
    MapThenSumSet(LAMBDA pc : pcstat_dist[pc], TextBlocks) = caches["dl1"].misses

\* With -flush the system call handler, which works on memory behind the
\* caches, finds every write there: the levels are flushed in the right order.
FlushSaves == flushed => \A b \in Blocks : newest[b] = "mem"
=============================================================================
