------------------------------ MODULE MCSystem ------------------------------
(***************************************************************************)
(* What stands between a program and the host: the loaders, the system     *)
(* call proxies of the two targets, and the traces that replace the host.  *)
(* A behaviour is about one of them; a variable it does not have is Off.   *)
(***************************************************************************)
EXTENDS Integers

CONSTANT Parts      \* "pisa", "alpha", "eio", "loader"

VARIABLES
    part,
    mem, status, pc, last, fds, moved, brk, calls, next,        \* of several parts
    r, progfd, log, heap,                                       \* target-pisa/syscall.c
    args, a, v0, sigmask, handler, failed,                      \* target-alpha/syscall.c
    variant, ex, argv, envp, i, sp, ld, regs,                      \* loader.c
    prog, used, o, st, m, emit, ffLeft, trans, inp, cur, clog,  \* eio.c and sim-eio.c
    cks, base, file, flog, chks

ofBoth   == <<last, fds, moved, brk, calls>>
ofPisa   == <<r, progfd, log, heap>>
ofAlpha  == <<args, a, v0, sigmask, handler, failed>>
ofLoader == <<variant, ex, argv, envp, i, sp, ld, regs>>
ofEio    == <<prog, used, o, st, m, emit, ffLeft, trans, inp, cur, clog, cks, base, file, flog, chks>>
vars == <<part, mem, status, pc, next, ofBoth, ofPisa, ofAlpha, ofLoader, ofEio>>

Off == "off"
-----------------------------------------------------------------------------
\* Every host call may fail, but getpid() and its like, which cannot.
Refusable == {"read", "select", "write", "writev", "open", "creat", "dup", "dup2", "unlink", "chdir", "chmod", "chown",
              "access", "lseek", "fcntl", "utimes", "getdtablesize", "stat", "fstat", "getrusage",
              "getrlimit", "gettimeofday", "ioctl"}
Pisa == INSTANCE SysPisa WITH MayFail <- Refusable, Errnos <- {3}, ShortWrites <- TRUE, ExceptPtrs <- {0, 10},
            Dup2To <- 0..4, Exits <- {-1, 0, 1, 255}, MaxCalls <- 3, Stack <- 8
NeverFail == {"getpid", "getuid", "getgid", "getpagesize", "usleep_thread"}
Alpha == INSTANCE SysAlpha WITH Errnos <- {3}, ShortReads <- TRUE, ExceptPtrs <- {0, 10}, Stale <- {0, 7},
             Indirect <- BOOLEAN, MaxCalls <- 3

\* Three sessions over programs of up to seven instructions: the first makes a
\* trace, the others replay it, dump from it, resume it or are refused.
Programs == {<<"op", "get", "put", "op", "get", "brk", "put", "exit">>, <<"get", "op", "brk", "op", "put", "exit">>}
Opt(in, chk, trace, ff, dump, per, max) ==
    [in |-> in, chk |-> chk, trace |-> trace, ff |-> ff, dump |-> dump, per |-> per, max |-> max]
Options ==
    {Opt("prog", FALSE, TRUE, ff, 0, per, max) : ff \in {0, 3}, per \in {0, 2}, max \in {0, 4}}
    \cup {Opt("eio", FALSE, tr, 0, 0, per, max) : tr \in BOOLEAN, per \in {0, 2}, max \in {0, 4}}
    \cup {Opt("eio", FALSE, tr, 0, d, 0, 0) : tr \in BOOLEAN, d \in {1, 3, 6}}
    \cup {Opt("eio", TRUE, FALSE, 0, d, 0, 0) : d \in {0, 5}}
    \cup {Opt("prog", TRUE, FALSE, 0, 0, 0, 0), Opt("prog", FALSE, FALSE, 0, 1, 0, 0),
          Opt("eio", FALSE, FALSE, 0, 1, 1, 0)}
Eio == INSTANCE EioTrace WITH Early <- FALSE, Pad <- 2, Sessions <- 3

\* Executables with their sections in several orders, empty, missing and of
\* the wrong target; strings that fit on the stack and strings that do not.
Scn(k, v, size) == [kind |-> k, vaddr |-> v, size |-> size]
ForPisa(mag, entry, d, b, scns) ==
    [magic |-> mag, entry |-> entry, dstart |-> 8, dsize |-> d, bsize |-> b, tstart |-> 1, tsize |-> 3, scns |-> scns]
TextFirst == <<Scn("TEXT", 1, 3), Scn("RDATA", 8, 1), Scn("DATA", 9, 2), Scn("SDATA", 11, 1),
               Scn("SBSS", 12, 4), Scn("BSS", 16, 2)>>
PisaExecutables == {
    ForPisa("EL", 1, 4, 6, TextFirst),
    ForPisa("EL", 2, 2, 3, <<Scn("DATA", 8, 2), Scn("TEXT", 1, 4), Scn("OTHER", 0, 0), Scn("BSS", 10, 3)>>),
    ForPisa("EB", 1, 4, 6, TextFirst), ForPisa("ALPHA", 1, 4, 6, TextFirst),
    ForPisa("EL", 1, 0, 0, <<Scn("TEXT", 1, 3)>>),
    ForPisa("EL", 1, 0, 3, <<Scn("TEXT", 1, 3), Scn("SDATA", 8, 0), Scn("BSS", 8, 3)>>),
    ForPisa("EL", 0, 4, 6, TextFirst), ForPisa("EL", 1, 2, 0, <<>>)}
ForAlpha(mag, d, b, scns) ==
    [magic |-> mag, entry |-> 20, gp |-> 30, dstart |-> 28, dsize |-> d, bsize |-> b, tstart |-> 20, tsize |-> 4, scns |-> scns]
AlphaExecutables == {
    ForAlpha("ALPHA", 3, 2, <<Scn("TEXT", 20, 3), Scn("INIT", 23, 1), Scn("RDATA", 28, 1), Scn("DATA", 29, 2),
                              Scn("BSS", 31, 2)>>),
    ForAlpha("ALPHA", 2, 0, <<Scn("DATA", 28, 2), Scn("SDATA", 30, 0), Scn("TEXT", 20, 4)>>),
    ForAlpha("EL", 2, 0, <<>>), ForAlpha("ALPHA", 0, 0, <<Scn("TEXT", 20, 3)>>)}

Load == INSTANCE Loader WITH
            Executables <- [pisa |-> PisaExecutables, alpha |-> AlphaExecutables, project1 |-> PisaExecutables],
            Strings <- {0, 1, 4}, MaxStrings <- 2, TEXT_BASE <- 1, DATA_BASE <- 8, STACK_BASE <- 40,
            MAX_ENVIRON <- 16, PAGE <- 4, PAD <- 2

ASSUME Pisa!ProxyAssumption /\ Alpha!AlphaAssumption /\ Eio!EioAssumption /\ Load!LoaderAssumption
-----------------------------------------------------------------------------
BothOff == last = Off /\ fds = Off /\ moved = Off /\ brk = Off /\ calls = Off
PisaOff == r = Off /\ progfd = Off /\ log = Off /\ heap = Off
AlphaOff == args = Off /\ a = Off /\ v0 = Off /\ sigmask = Off /\ handler = Off /\ failed = Off
LoaderOff == variant = Off /\ ex = Off /\ argv = Off /\ envp = Off /\ i = Off /\ sp = Off /\ ld = Off /\ regs = Off
EioOff ==
    /\ prog = Off /\ used = Off /\ o = Off /\ st = Off /\ m = Off /\ emit = Off /\ ffLeft = Off /\ trans = Off
    /\ inp = Off /\ cur = Off /\ clog = Off /\ cks = Off /\ base = Off /\ file = Off /\ flog = Off /\ chks = Off

Init ==
    /\ part \in Parts
    /\ \/ part = "pisa" /\ Pisa!Init /\ pc = Off /\ AlphaOff /\ LoaderOff /\ EioOff
       \/ part = "alpha" /\ Alpha!Init /\ next = Off /\ PisaOff /\ LoaderOff /\ EioOff
       \/ part = "loader" /\ Load!Init /\ next = Off /\ BothOff /\ PisaOff /\ AlphaOff /\ EioOff
       \/ part = "eio" /\ Eio!Init /\ mem = Off /\ status = Off /\ pc = Off /\ BothOff /\ PisaOff /\ AlphaOff /\ LoaderOff

Next ==
    \/ part = "pisa" /\ Pisa!Next /\ UNCHANGED <<part, pc, ofAlpha, ofLoader, ofEio>>
    \/ part = "alpha" /\ Alpha!Next /\ UNCHANGED <<part, next, ofPisa, ofLoader, ofEio>>
    \/ part = "loader" /\ Load!Next /\ UNCHANGED <<part, next, ofBoth, ofPisa, ofAlpha, ofEio>>
    \/ part = "eio" /\ Eio!Next /\ UNCHANGED <<part, mem, status, pc, ofBoth, ofPisa, ofAlpha, ofLoader>>

Spec == Init /\ [][Next]_vars
-----------------------------------------------------------------------------
(* The properties of each part, while it is the one considered.            *)

\* After a system call that succeeded target memory holds exactly what the host
\* answered, where the registers said; one that failed has touched no more than
\* the buffers it named; and on the Alpha the error flag is set exactly when the
\* call failed: but for the defects that the two proxies have and each part of
\* the property names, and no others.
AnswersExact ==
    /\ part = "pisa" => Pisa!AnswersDelivered
    /\ part = "alpha" => Alpha!AnswersDelivered /\ Alpha!ErrorsFlagged

\* Whatever host calls fail or fall short, no byte the program was told was
\* written is lost, repeated or out of order; the simulator's own streams stay
\* open and where they are unless the program dup2()s onto them; what brk() gave
\* lies below the break and the break below the stack; and the simulator exits
\* with the status of the program, or with 0 after exit(-1).
HostKept ==
    /\ part = "pisa" => Pisa!StreamsKept /\ Pisa!OutputKept /\ Pisa!HeapKept /\ Pisa!StatusReported
    /\ part = "alpha" => Alpha!StreamsKept

\* A replay, from the start or a checkpoint, goes through the states and the
\* output of the session that made the trace, and stops as inconsistent only
\* where the recording had been cut off; recording it gives the same trace; no
\* session panics over its initial checkpoint or misses a multiple of -perdump.
Reproducible ==
    part = "eio" => /\ Eio!Reproducible /\ Eio!TraceAccepted /\ Eio!RetraceExact
                    /\ Eio!TracingStarts /\ Eio!PeriodicKept

\* A program that starts finds every data section as the file has it, whatever
\* was loaded, padded or decoded after it; every instruction, and what may be
\* fetched behind the text, in the form the simulators execute; argc, argv[]
\* and envp[] above its stack pointer; and the heap above every section.
LoadedExact ==
    part = "loader" => /\ variant # "project1" => Load!DataIntact
                       /\ Load!TextReady /\ Load!StackReadable /\ Load!SegmentsApart

\* The data sections as the loader of Project1 leaves them.
DataIntactFirst == part = "loader" /\ variant = "project1" => Load!DataIntact
=============================================================================
