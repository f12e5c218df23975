# Verification of the ComputerArchitecture simulators

The repository is a course project on SimpleScalar 3.0: a five-stage pipelined
PISA simulator with forwarding and a cache (`Project2`), two earlier pipelines
and two new instructions (`Project1`), and the simulator suite they are built in
(`simplesim-3.0`): out-of-order, cache and branch-predictor simulators, proxied
system calls of two targets, execution traces, a debugger, options and
statistics.  This directory holds TLA+ models of them, TLC runs over small
instances, and TLAPS proofs.

## Inventory

| Part | State it keeps | Operations | Works with |
|---|---|---|---|
| Project2 cache | queues of lines per set, counters | `cache_read`, `cache_write`, `cache_flush` | the pipeline above, simulated memory below |
| Project2 pipeline | latches `fd de em mw wb`, control buffer, registers | the stage functions of one cycle | cache, system calls at WB |
| Project1 pipelines | the same, without a cache; a toggled scoreboard in the stalling one | as above | system calls |
| instruction set, `sim-fast` | registers, memory, PC | one `_IMPL` per opcode | the reference for all pipelines |
| new instructions | none | `addOK`, `bitCount` | `sim-fast` |
| `memory.c` | hash table of pages, buckets in order of use | `mem_access`, `mem_bcopy`, `mem_strcpy`, `mem_dump` ... | everything that touches target memory |
| `cache.c` | way lists, hash chains, fast path, ready times | access, flush, flush of a block, probe | a handler per cache reaches the next level |
| `sim-cache` | up to four caches and two TLBs | fetch, load, store, system call | `cache.c`, `-pcstat` |
| `bpred.c`, `sim-bpred` | direction tables, BTB lists, return stack | lookup, update, recover | `sim-bpred` looks up and updates at once; `sim-outorder` looks up on wrong paths, recovers, and updates later |
| `sim-outorder` | fetch queue, RUU, LSQ, RS links, event and ready queues, functional units | commit, release, writeback, LSQ refresh, issue, dispatch, fetch | predictor, caches, wrong-path state, pipetrace |
| wrong-path state | copy-on-write registers, hash table of stores | read, write, `tracer_recover` | dispatch and recovery of `sim-outorder` |
| `eventq.c` | sorted list, free list | queue, remove, service with callbacks | linked by no simulator |
| `syscall.c` (PISA, Alpha) | descriptors, break, output | one case per call | target memory, the host |
| `eio.c`, `sim-eio` | trace file, checkpoints, position | record, replay, dump, restore, fast forward | proxies, loader |
| `loader.c` (three) | the initial memory image | `ld_load_prog` | runs once, before the simulation |
| `options.c` | option list, values, stack of files | register, process, dump | files of earlier sessions |
| `main.c`, `misc.c` | signal flags, exit path | start, signals, `exit_now`, `fatal`, `panic` | every simulator |
| `dlite.c`, `range.c` | break list, check flags, dump addresses | the commands | the loop of `sim-safe` |
| `ptrace.c` | switch, range, sequence numbers | fetch, dispatch, end of an instruction | the queues of `sim-outorder` |
| `eval.c`, `stats.c` | token buffer; counters, distributions | expressions; register, sample, print | debugger, statistics, `-pcstat` |

All programs are single threaded.  What is hard in them:

* overlap of instructions: in the pipelines five of them are in flight, every
  stage reads latches that others wrote in this cycle or the one before, bubbles
  keep old values, and control bits set in one stage are consumed in another; in
  `sim-outorder` operands are links to stations that may be squashed and reused;
* doubly kept state: way list, hash chain and fast path of a cache set; page
  table buckets that are reordered while they are searched; a register and its
  speculative copy; a trace and the queues it describes;
* partial failure: host calls that fail in the middle of a system call, a
  recording that is cut off, an option error in a nested file;
* several sessions: a trace, a checkpoint or a dumped configuration is read by a
  later process;
* limits: circular buffers, counters and sums at the ends of their range.

What makes the parts correct is in the table of runs; `PROJECT.json` lists under
"hazards" each place where something can go wrong, with the properties that
would show it.

## Modules

Each module follows one source file or one concern of it; operators carry the
names of the functions they translate.  Loops that other actors can observe are
one action per turn; functions that nobody can interrupt are operators from
state to state.

| Module | Models |
|---|---|
| `UCache`, `FlatMemory` | the cache of Project2 and the array of words it implements |
| `Pisa`, `SimFast` | dependences, flags and effects of the instructions; the loop of `sim-fast` |
| `PipeForward` | the pipeline of Project2, beside `sim-fast` |
| `PipeStall`, `PipeFirst` | the pipelines of Project1, beside `sim-fast` |
| `NewInsts` | `addOK` and `bitCount` |
| `PagedMemory`, `FlatBytes` | `memory.c`, call by call, and the array of bytes that answers the same calls |
| `SSCache`, `CacheLevel` | `cache.c`; one cache in front of memory, beside a textbook cache |
| `SimCache` | the hierarchy of `sim-cache` |
| `BPred`, `SimBPred` | `bpred.c`; the loop of `sim-bpred` |
| `OutOrder` | the pipeline of `sim-outorder` and its functional units |
| `SpecState`, `OutOrderMem`, `OutOrderPred`, `PipeTrace` | its wrong-path state, its memory side, the predictor in its pipeline, its pipetrace |
| `EventQ` | `eventq.c` |
| `ProxyCall`, `SysPisa`, `SysAlpha` | `sys_syscall` of the two targets |
| `EioTrace` | `eio.c`, `sim-eio.c` and the parts of loader and proxy that use them |
| `Loader` | `ld_load_prog` of PISA, Alpha and Project1 |
| `OptionDB`, `SimMain`, `Dlite`, `Ranges` | `options.c`, `main.c`, `dlite.c`, `range.c` |
| `Eval`, `Stats` | `eval.c` with both identifier evaluators; `stats.c` |
| `UCacheProofs`, `PagedMemoryProofs`, `CacheLevelProofs`, `PipeForwardProofs` | the proofs about the module named |
| `SimOutorderProofs` | the proofs about `PipeTrace`, `EventQ` and `SpecState` |
| `ProofLemmas` | division, least elements and induction on sets of numbers; insertion, removal and moves in lists; counting the entries of a table |
| `MC...` | the instances TLC checks |

`SSCache` has the function a cache is created with, `blk_access_fn`, as a constant
operator; a hierarchy instantiates it once per level, the handler of the first
level being defined with the instance of the second.

An `MC` module composes components that belong together as alternatives: `part`
(or `design`, `sim`) says which one a behaviour is about.  A module that is also
proved about is extended, so that the run checks the very formula the theorem
states: its component rests in its initial state meanwhile, or, in `MCPipe`, is
`Off`, a stage that is none of `Stages`.  The variables of the others are `Off`, and
their properties are required while they are the ones considered.  Components that really share state are composed in a
module of their own: a pipeline and `sim-fast` in `PipeForward`, `PipeStall` and
`PipeFirst`,
caches in `SimCache` and `OutOrderMem`, the debugger and the loop of `sim-safe` in
`Dlite`, traces, loader and system calls in `EioTrace`.

History variables (`arch`, `lost`, `ref`, `unsaved`, `newest`, `view`, `arrival`,
...) record what a property compares with.  They follow the code's state and
restrict no action.  Operators introduced by "Mutant:" are wrong versions of the
definition below them; they show that the properties can fail.

Abstractions of data:

* words of the pipelines have twice `ImmBits` bits with the wrap-around and sign
  rules of 32; a jump's target is its immediate; text is kept apart from data, so
  programs do not modify themselves; `1 << r` with `r` above 31, undefined in C, is
  taken modulo 32 as the x86 instruction does;
* addresses of `cache.c` are block numbers, those of `bpred.c` count instructions;
* `sim-outorder` keeps what an instruction reads, writes and where it goes, and
  leaves values out; predictions and cache latencies are free choices there,
  latencies are exact in `OutOrderMem`, predictions in `OutOrderPred` and
  wrong-path values in `SpecState`;
* a byte a system call may write is the program's own, the host's answer, or
  junk; a host call succeeds, falls short or fails by choice, and the record `last`
  keeps where the program named a buffer (`named`) and where the host answered
  (`answered`, empty when it failed);
* an option's argument is a token, a file name its directory and base;
* a value of an expression is a type and an exact fraction: rounding is left out.

## Runs

| Run | States | Instance | Shows |
|---|---|---|---|
| `ucache` | 92,441 | two ways, three blocks in set 0 and one in set 1, five accesses, any read-only system calls | `Transparent` (refinement of `FlatMemory`), `UniqueLines`, `SetsBounded`, `CleanLinesMatch`, `CountersAgree` |
| `pipelines` | 412,442 | every program of four instructions around loads, stores and branches, and of three of every kind; for Project1 every program of four | `PipelineExact`, `StallingExact`, `FirstExact`: registers, memory and retirement of `sim-fast`; `ScoreboardExact`; `CyclesExplained`; `Terminates`; `NewInstsExact` |
| `memory` | 1,043,363 | three pages in one bucket, nine page accesses in calls of every function; sets of one to three ways under LRU, FIFO and random, with and without hash chains | `FlatView` (refinement of `FlatBytes`), `PageTableExact`, `CacheExact`, `ReplacedAfterReady` |
| `simulators` | 407,327 | every accepted hierarchy of `sim-cache`, four instructions; six predictors, four branches over calls, returns and indirect jumps | `DataKept`, `TrafficExplained`; `Predicted`, `FiguresAddUp` |
| `sim_outorder` | 1,955,042 | five programs in six modes with an RUU of four and an LSQ of two; wrong paths of five writes; six cycles of memory traffic in thirteen settings, seven of them refused; nine branch lookups in a loop around two calls, two predictors, three update points; traces over an address range; three events | `PipelineSound`, `OperandsExact`; `WrongPathExact`; `LatenciesSound`, `NoEarlyData`; `PredictorRecovers`; `TraceExact`; `QueueConserved`, `NothingDueLeft` |
| `system` | 273,593 | three calls per program with host calls that fail or fall short, direct and indirect; three sessions that record, replay, dump and resume; executables with sections in several orders | `AnswersExact`, `HostKept`; `Reproducible`; `LoadedExact` |
| `front_end` | 172,610 | command lines with nested files, then a session that loads the dump; every way out of a process, `terminate` and `quit` of the debugger included; debugger sessions of five commands over even and odd addresses, with the break ranges of both targets | `OptionsExact`, `Terminates`; `ProcessEnds`; `DebuggerExact` |
| `figures` | 2,746,545 | every text of six tokens over operators and over an unrecognised character, of four over types; counts and samples in any order | `Documented`; `StatisticsExact` |
| `load_load_use` | violated | two loads of one register, then a use | the use does not wait for the second load |
| `stale_line` | violated | a system call that stores | an older copy stays in the cache |
| `loader_project1` | violated | the loader of Project1 | initialised data are zero |
| `debugger_cont` | violated | `cont` with an address | execution does not go on there |

Bounds.  A value is forwarded from em, mw or wb, so an instruction depends on at
most the three in front of it before it reads the register file: programs of four
have every pair at every distance.  `MaxCycles` is reached by no program that
ends.  Two ways and three blocks make eviction, refill and re-eviction of a dirty
block happen within five accesses.  Three pages in a bucket are the least that
tell the middle of a chain from its ends; three ways do the same for a way list.
Four branches over two calls overflow a return stack of one and wrap one of two.
An RUU of four and an LSQ of two fill up, wrap
and are squashed.  Nine lookups with a fetch queue of two branches and an RUU of
three let a wrong path push and pop, be recovered, and the program return after.
Nine page accesses make three pages and go back to each of them by any function.
An instruction cache line is lost at most with another's miss, one at a time.
Three calls let a later one meet the descriptors, the break and the registers of
two earlier ones.  Three sessions are recording, dump, and resumption.  Counters
of the code that wrap at 2^32 stay below it, but for those of `Stats`, which wrap at
`IntBits`: the property is about counts that fit.

Fairness.  `MCPipe` has weak fairness on a step of the Project2 pipeline and
`MCFrontEnd` on a step of option processing: each is one thread in a loop, which
takes its next step as long as there is one.  Nothing else is assumed fair:
commands, host answers and callbacks come or do not.  That the other pipelines
and `sim-outorder` end is stated without fairness, as an invariant about the
bound on cycles (`StallEnds`, `ForwardEnds`, `Finishes`), which no run reaches.

Deadlock checking is off in the composed runs because processes end: an exit
call, a fatal error, the last session.  In `ucache`, where system calls go on for
ever, it is on.

## Proofs

Each theorem holds for every value of the constants that satisfies the named
assumption of its module; TLC evaluates the assumption on the instances.  A run
checks the same formula on a small instance.

| Theorem | Property | Module it is about |
|---|---|---|
| `TypeCorrect`, `Bounded`, `Unique`, `Counted` | `TypeOK`, `SetsBounded`, `UniqueLines`, `CountersAgree` | `UCache` |
| `Coherent`, `CacheTransparent` | `CleanLinesMatch`, `Transparent` (refinement) | `UCache` |
| `PagesExact`, `PagesFlat` | `PageTableExact`, `FlatView` (refinement) | `PagedMemory` |
| `ReadRunReturns`, `WriteRunStores` | what the copy loops return and store | `PagedMemory` |
| `CacheRight`, `ReadyRight` | `CacheExact`, `ReplacedAfterReady` | `CacheLevel`, `SSCache` |
| `WrongPathRight` | `WrongPathExact` | `SpecState` |
| `TraceRight` | `TraceExact` | `PipeTrace` |
| `ScoreboardSound`, `ForwardingExact` | `ScoreboardExact`, `PipelineExact` | `PipeForward`, `Pisa` |
| `EventsConserved`, `ServiceComplete` | `QueueConserved`, `NothingDueLeft` | `EventQ` |
| `ProcessEndsWell` | `ProcessEnds` | `SimMain` |

**The cache of Project2.**  `IndInv` adds to the four invariants that every line is
valid: the lookup loop skips invalid lines, so without it a miss could add a
second line for a block.  `CountersAgree` needs `UniqueLines`, because the loop
counts a hit for every match.  Addresses are word aligned and come in whole
lines, tags fit 24 bits, the associativity is positive.  `Rebuild` and `Geometry`
say that tag, index and offset determine an address and are determined by it.
`Coherent` and `CacheTransparent` hold when system calls store nothing
(`ReadOnlyCalls`, which the run `stale_line` shows to be needed).  Their invariant
is `CohInv`, `IndInv` with `CleanLinesMatch`.  The argument is word by word: `HitView`
and `MissView` compare what the pipeline sees at an address before and after an
access, by whether its block is hit, filled, evicted dirty, evicted clean, kept or
absent; an evicted clean line is where `CleanLinesMatch` is needed, and
`UniqueLines` makes sure that a write-back never overwrites the block of another
line.  `FlushIsView` says that a flush writes to memory exactly what the pipeline
sees.

**The pipeline of Project2.**  The hypothesis `Loadable` is that programs are
`Supported`, that registers, data and the results of system calls are words, and that
the entry is an address.  `Supported` leaves out what the code does differently from
`machine.def` (see the disagreements below): `lui`, `mflo`, writes to `$0`, negative
branch offsets and masks, a load in the slot behind a branch, two adjacent loads of
one register, a reader of `$2` or `$7` within two instructions of a system call, and a
load at the very end of the text.  `MCLoadable` evaluates the hypothesis on the
instance of the run.  The length of the program, its jumps, backward ones included,
the number of cycles, the word size and the memory are arbitrary.

`ScoreboardSound` is about the pipeline alone, on correct and on wrong paths.  Its
invariant `Flow` says for each place of the loop which instruction is in which latch:
the one at the latch's address, with the destinations, flags and access of its kind
(`Decoded`, `FlagsOK`), each latch holding the fetch successor of the one in front
(`Follow`), where a bubble in between leaves only nearness (`Near`); when the control
buffer may hold a branch, a jump or a stall (`Ready`, `Issued`); and that
`ctl.regs` is what the loads in `de` and `em` wait for (`Pend`).  Without the
successors the shape of the text, on which the scoreboard depends, says nothing about
what is in flight: a load squashed by a branch would keep its bit.

`ForwardingExact` adds `Values`, which follows `sim-fast` through the latches: with
`S0` its state, `S1` and `S2` are those after the instructions in `mw` and `em`
(`After`).  Each latch on the right path holds the value `sim-fast` computes there
(`MwOK`, `EmOK`), stale destinations in bubbles hold values that are still current
(`Holds`, `Stale`, the reason why `forward` may look at them), memory is that of `S1`,
and `do_forward` gives `de` the registers of `S2` (`Operands`).  `Leads` says that only
nops, which retire nothing, are between where `sim-fast` is and the next instruction.
Nothing is claimed of what is behind a word that is no instruction (`Valid`): it
retires only if `sim-fast` gets there.  A lemma per stage function keeps each part;
`AluIs` and `BranchIs` compare `do_ex` with the `_IMPL` macros, and that `andi` yields a
word, a sum over the set of bits, is an induction on the size of a finite set.
A system call changes `$2` and `$7` behind instructions that have read their operands:
`SameExec` and `SameRest` say that those that do not read them compute the same.  The theorem assumes `Proceeds`:
that `sim-fast` meets an instruction and declares no overflow fault, since on
either it stops; the run checks this of every program, in `CyclesExplained`.  `HI` and
`LO`, which `multu` writes differently, are not compared.

**Paged memory.**  The invariant `MemOK` says that every chain of the page table has
one entry per tag, each in the bucket of its tag, and that the pages counted are
the places of the table.  A chain is then the set of its entries, which moving
one of them to the front does not change: every lookup is an equation between
sets (`Same`), and what is at an address (`At`) is a function of the set.  Tag, set
and offset name one address.  For the copies the recursive function of the loop is
shown to exist, by induction on its length, before it is followed step by step.
`PagesFlat` is the refinement of `FlatBytes`, which is asked the same calls
(`call` names the function, the address, the length and the data) and must give the
same replies: a read returns the bytes at its addresses, a write leaves its data in its run and
every other byte as it was, and the calls that are refused are those that do not fit,
and change nothing.  A memory that loses, misplaces or invents a byte is not one of its
behaviours; the runs of the mutants `NotMoved`, `LosesBucket` and `WriteIfThere` show it.

**The cache of SimpleScalar.**  `LevelOK` is: the way list of a set is a permutation
of its ways; a hash chain has no repetitions and holds exactly the ways whose tag
hashes to it; no block is held twice; the block of the fast path holds what it
says and is the head of an LRU list; the dirty blocks are the unsaved ones; and
for LRU and FIFO the textbook list is the valid front of the way list (`RefSet`).
That the fast path names the head of an LRU list is what makes it sound that a
fast hit does not reorder the list.  The chain invariant needs the tags of invalid
blocks too: a block stays on the chain of the tag it had until it is replaced.
The search is right because every block with the tag is on the chain searched
(`SearchIs`).  Hits and misses are compared with the reference by positions
(`RefMoved`, `RefMissed`, `RefDropped`); `DirtyChange` says how the set of dirty blocks
follows the change of one block, which needs that no block is held twice.
`cache_flush` is an induction over the ways of all sets (`FlushIs`).  The
assumptions are positive sizes and latencies and one of the three policies.

**The wrong path.**  `WrongPathRight` is about PISA without `-bugcompat` (`Usual`): the
FCC bits of the Alpha and the buckets of `-bugcompat` are not exact, see below.
`PathInv` says that a chain of the store table holds each address once, in the
bucket of its hash; that a register is speculative where its bit is set; and,
while a path has stored with one size only, that every stored byte is where the
next load finds it.

**The pipetrace.**  `TraceInv` relates the switch to the range and to the cycles that
were in it (`Switch`, `FirstStretch`), gives the instructions in the queues different
numbers (`Numbers`), and says of each that it is untraced, or was declared since the
switch was turned on (`Untraced`, `Since`); `ViewerSees` needs all of them.

**The event queue.**  `QueueInv` says that the list is in the order of time and that
ids differ.  `EventQAssumption` includes `LaterCallbacks`: a function called by the
queue queues for a later time; without it an event is lost (see below).

**The process.**  `EndInv` adds to `ProcessEnds` where the process is (`Position`) and
what cannot have happened yet (`NotYet`).  `ending` says how the process ended, which
decides what is owed: the debugger's `quit` ("omit any stats dump", `dlite.c:1052`) and
a register it cannot show (`abort()`, `sim-outorder.c:3604`) leave without statistics,
and so does a simulation that never ran; every other end prints them once.
`CodesAssumption` is that exit codes are integers: `exit(-1)` arrives as 0, and
`CodeKept` says so.

Induction over data is stated with sets: `ProofLemmas.SetInduction` (zero and
successors in a set put every natural number in it) follows from the well
founded order of the naturals and is applied to the set of the lengths for which a
claim holds.

Only model-checked:

* liveness (`Terminates`): outside the prover's reach;
* `CyclesExplained` of the Project2 pipeline, whose penalties count taken branches and
  load uses along the program, and the two pipelines of Project1;
* `OutOrder`, whose invariants relate all stations and every instruction class;
* `OutOrderMem`, `SimCache`: hierarchies that instantiate `SSCache` twice; what
  `CacheRight` shows of one level is with a memory below it;
* `SysPisa`, `SysAlpha`, `EioTrace`, `Loader`, `OptionDB`, `Dlite`: long case analyses
  whose properties compare with a reference computed beside them;
* `Eval`, `Stats`, `BPred` and what extends them, which use `RECURSIVE` operators or
  `Bitwise`.

## Where the code and its documents disagree

Four disagreements are runs.  The others were met while modelling; for each, what
keeps it out of the passing runs.

Project2 (`PipeForward.Supported` excludes the first four, and the pair of loads of
the run `load_load_use`):

* a squashed load behind a branch keeps its register blocked for ever
  (`sim-pipe.c:298`; `Project1/part2/README.md:204`);
* branches with a negative offset, `lui`, and `andi` with the top bit set compute
  something else than `machine.def` (`sim-pipe.c:378`, `:365`, `:449`);
* the two instructions behind a system call read the old `$2` and `$7` (`:564`): in
  the run a call returns the `$2` it was given;
* `$0` can be written (`:559`); `sim_num_insn` counts cycles (`:262`);
* lines flushed before a system call are not counted as written back (`:746`).

Project1 (`WritesOnce` and `Careful` in `MCPipe`; `AddOKSafe` is one-sided):

* a second writer in flight clears the toggled bit (`sim-pipe-withstall.c:388`);
* a nop executes the instruction before it again (`sim-pipe.c:320`), and the
  instruction behind a taken `bne` is not squashed (`:287`);
* `addOK` refuses the sum -2^31 (`part1/machine.def:1701`).

Memory and caches:

* `mem_dump` shows four times the bytes (`memory.c:279`; `FlatBytes` fixes what it
  shows of an address, not how many addresses);
* the reset fast path matches block zero and holds no block (`cache.c:533`; the
  action `AccessNull`, after which nothing is claimed);
* `-flush` leaves the instruction caches alone (`sim-cache.c:716`; `FlushSaves` is
  about data); `sim-outorder` reads the flag nowhere (`sim-outorder.c:185`).

sim-outorder and the event queue:

* store ports are freed before loads issue (`sim-outorder.c:2178`), in-order issue
  is only in-order dispatch (`:3741`), `sim_num_insn` counts dispatched
  instructions (`:3782`): no property says otherwise;
* writing half of a pair of floating registers on a wrong path exposes a stale
  other half (`:3429`; `RegistersExact` is about integer and control registers); on
  the Alpha, FCC and UNIQ share a bit (`:3523`; the instance is PISA);
* with `il1` = `dl2` every fetch looks like a miss (`:4257`; not in `Hierarchies`);
* a redirected fetch drops instructions without telling the trace (`:3887`;
  `ViewerSees` exempts them);
* the index a branch saves for the return stack is the one before its own push or
  pop, so recovering a mispredicted call or return leaves the stack one entry off
  (`bpred.c:643`; `unwound` in `OutOrderPred` exempts what follows); `bpred.c:722`
  hopes that restoring it "uncorrupts the stack";
* an event that a callback queues for the same time is lost (`eventq.c:265`;
  callbacks of the instance queue for a later time), and the limit on events is
  not counted (`:81`; the instance has none).

System calls (all in the instances of the run `system`; the properties name each, in
`Strays`, `Lost`, `KeepA3` and `moved`, and hold everywhere else to what the host
answered):

* a failed `read` copies as many bytes as `errno` counts (`target-pisa/syscall.c:697`),
  and on the Alpha a failed or short one writes zeros over the whole buffer
  (`target-alpha/syscall.c:999`);
* the pointer to the exception set of `select` has been overwritten by then: PISA loses
  the set, or after a failure writes it to address 1, the flag
  (`target-pisa/syscall.c:1571`); the Alpha loses it, or writes it to address -1
  (`target-alpha/syscall.c:3361`);
* a short write is reported as an error (`target-pisa/syscall.c:735`), so the program
  writes again what was written; `OutputKept` says that nothing but that is doubled;
  `-redir:prog` covers `write` alone (`:1829`);
* `dup2` onto 0 to 2 replaces the simulator's own streams (`:1446`); `StreamsKept` is
  about all others;
* `exit(-1)` ends with 0 (`:635`, through `main.c:248`);
* on the Alpha three calls leave the error flag as it was
  (`target-alpha/syscall.c:3502`), and an indirect call reads its arguments one
  register too low (`:934`).

Traces, loader, front end (`Options` and `Early` in `MCSystem`, the executables,
the tokens and commands in `MCFrontEnd`):

* a checkpoint before the first transaction cannot be resumed
  (`target-pisa/loader.c:205`), fast forward over a replayed call fails
  (`sim-eio.c:424`), a resumed session cannot record (`:490`) and misses periodic
  checkpoints (`:273`), a replayed `sigreturn` uses an overwritten register
  (`target-alpha/syscall.c:946`);
* constants below the text are predecoded with it (`target-pisa/loader.c:653`);
* a dumped float loses digits beyond the fourth decimal (`options.c:305`), and a
  dump asked for in a configuration file shows the values of its line
  (`options.c:1178`; `DumpFinal` is about the command line);
* the flags of both signals are read by no simulator (`main.c:82`, `:89`), though
  `main.c:235` and `:238` promise statistics: in `SimMain` a signal prints none;
* the ranges of breaks include their ends: `dbreak a` stops at an access to `a + 1`
  as well (`dlite.c:1954`, `range.c:261`), and `break a` on the Alpha, which means to
  cover a function's second entry, at any instruction up to `a + 9` (`:1903`);
  `Wanted` says so, and the instance has accesses at odd addresses and both targets;
* a data break at address 0 is hit by instructions without an access
  (`sim-safe.c:345`), and a dump from an odd address or of no bytes shows something
  else or panics (`dlite.c:1526`, `:1519`).

Expressions and statistics (the alphabets, widths and counters of `MCFigures`; the
reference value is that of the grammar in `dlite.h:84` with the types in `eval.c`):

* the least integer divided by -1 stops the simulator with SIGFPE (`eval.c:711`), where
  `eval.c:1093` promises that `eval_error` is set: `Documented` expects the stop there
  and nowhere else;
* an unrecognised character is dropped (`eval.c:218`; in the instance, counting for
  nothing in `UsedText`), chains of `-` and `/` are
  evaluated from the right (`:1058`), literals wider than an int lose bits (`:873`),
  and counters cannot be printed from the debugger (`dlite.c:280`);
* a count beyond an unsigned int wraps without notice (`stats.c:548`; `RowsExact` is
  about counts that fit), and a profile leaves out what is counted behind its last
  sample: an exit call leaves the loop between count and sample (`sim-cache.c:763`,
  `:803`), and `sim-outorder` counts cycles after the last dispatch (`:4600`, `:4099`);
* integers in formulas are divided as integers (`stats.c:92`), and an error at the
  end of a nested formula is lost or printed as no error (`:137`, `:982`).

## Not modelled

* Symbol tables (`symbol.c`): built once, read only; a symbol is a name for an
  address in `Ranges` and `Dlite`.
* `sim-profile`, the vendored `sim-fast`, `sim-safe` beyond its debugger hook: loops
  over the instruction set that add samples; what they add to is `Stats`.
* The text syntax of trace files (`libexo`, a generated scanner): `EioTrace` works on
  values.
* `alpha.c`, `alpha.def` and the instructions of `machine.def` that no pipeline
  decodes: straight-line arithmetic.
* `misc.c`, `endian.c`, `regs.c`, `sysprobe.c` beyond `fatal` and `panic`: formatting
  and host probes.
* Loaders and system calls of other hosts (BFD, MSC, Cygwin): not built.
* The clock figure of Project2, ten per miss and one per hit: a sum of counters that
  `CountersAgree` covers.

## What could follow

1. What `CacheRight` says, for a level above another one: `DataKept` of `SimCache`.
2. `CyclesExplained` for every program, with an invariant that relates `lost` to the
   stalls and squashes still in flight.
3. `StallingExact` with the invariant of `PipeForwardProofs`, whose `After` and `Leads` carry
   over; the toggled scoreboard takes the place of `Pend`.
4. The queues of `OutOrder`: that the RUU and the LSQ are circular buffers whose
   entries correspond.
