------------------------------ MODULE EioTrace ------------------------------
(***************************************************************************)
(* sim-eio and the external I/O traces of eio.c: one execution of a        *)
(* program is recorded as an initial checkpoint and one transaction per    *)
(* system call, and is replayed from that file, from its start or from a   *)
(* checkpoint taken on the way.  A behaviour is a series of sessions of    *)
(* the simulator that share the files.                                     *)
(*                                                                         *)
(* The simulated machine is reduced to what replay can get wrong: r, the   *)
(* registers a transaction records; oth, the ones it does not; four cells  *)
(* of memory; the heap's end; and the values it prints.                    *)
(***************************************************************************)
EXTENDS Integers, Sequences, FiniteSets, SequencesExt

CONSTANTS Programs,  \* sequences of "op", "get", "put", "brk", "sig", ending in "exit"
          Options,   \* command lines: [in, chk, trace, ff, dump, per, max]
          Early,     \* may a checkpoint older than every transaction be restored?
          Pad,      \* BLOB_TAIL_SIZE
          Sessions   \* bound: sessions in a behaviour

EioAssumption == Pad \in Nat /\ Sessions \in Nat /\ Early \in BOOLEAN

VARIABLES prog, used,      \* the program; sessions started
          o, st,           \* this session's options; "idle", "ff", "run", or how it stopped
          m, emit, ffLeft, \* machine, values printed by the last instruction, fast forward left
          trans, inp,      \* eio_trans_icnt; the transactions sim_eio_fd still holds
          cur, clog,       \* the trace being written, and the states it stands for
          next, cks, base, \* next_chkpt_cycle; checkpoints of this session; icnt at its start
          file, flog, chks \* the files left by earlier sessions
vars == <<prog, used, o, st, m, emit, ffLeft, trans, inp, cur, clog, next, cks, base,
          file, flog, chks>>
files == <<file, flog, chks>>

Cells == 0..3
Boot  == [insn |-> 0, pc |-> 1, r |-> 0, oth |-> 0,
          mem |-> [c \in Cells |-> (c + 1) % 3], brk |-> 0]
\* eio_create(): a file with a header and nothing to load yet.
eio_create == [init |-> Boot, trs |-> <<>>, made |-> FALSE]

-----------------------------------------------------------------------------
\* Instructions and system calls (outside eio.c; any that spread a wrong value do).

Op(x)  == [x EXCEPT !.r = x.mem[x.pc % 4], !.oth = x.r, !.mem[3] = x.r]

\* The memory a live call reads and writes, in the order of its accesses
\* [addr, data]; w is what the outside world answers.
Reads(k, x) == CASE k = "put" -> <<[addr |-> 0, data |-> <<x.mem[0], x.mem[1]>>],
                                   [addr |-> 2, data |-> <<x.mem[2]>>]>>
                 [] k = "sig" -> <<[addr |-> x.r, data |-> <<x.mem[x.r], x.mem[x.r + 1]>>]>>
                 [] OTHER     -> <<>>
Writes(k, w) == IF k # "get" THEN <<>>
                ELSE <<[addr |-> 2, data |-> <<1>>], [addr |-> 1, data |-> <<w>>],
                       [addr |-> 0, data |-> <<w, 2>>]>>
LiveRegs(k, x, w) ==
  CASE k = "brk" -> [x EXCEPT !.brk = @ + 1, !.r = 0]
    [] k = "sig" -> [x EXCEPT !.oth = x.mem[x.r], !.r = x.mem[x.r + 1]]
    [] OTHER     -> [x EXCEPT !.r = w]

Store(mem, acc) == [c \in Cells |-> IF c \in acc.addr..(acc.addr + Len(acc.data) - 1)
                                    THEN acc.data[c - acc.addr + 1] ELSE mem[c]]
StoreAll(mem, accs) ==
  LET after[i \in 0..Len(accs)] == IF i = 0 THEN mem ELSE Store(after[i - 1], accs[i])
  IN after[Len(accs)]
Concat(accs) == FoldLeft(LAMBDA s, a : s \o a.data, <<>>, accs)
Bytes(accs)  == FoldLeft(LAMBDA s, a : s \o [i \in 1..Len(a.data) |->
                           [addr |-> a.addr + i - 1, data |-> <<a.data[i]>>]], <<>>, accs)

-----------------------------------------------------------------------------
\* eio.c

\* my_mem_fn(): an access that continues the last blob is added to it while
\* the blob's padding lasts; any other starts a blob.
MutantCoalesce(blobs, acc) ==
  LET l == Last(blobs)
      n == Len(l.data) + Len(acc.data)
  IN IF blobs # <<>> /\ n < l.max
     THEN Append(Front(blobs), [l EXCEPT !.data = @ \o acc.data])
     ELSE Append(blobs, [addr |-> acc.addr, data |-> acc.data,
                         max |-> Len(acc.data) + Pad])
my_mem_fn(blobs, acc) ==
  LET l == Last(blobs)
      n == Len(l.data) + Len(acc.data)
  IN IF blobs # <<>> /\ l.addr + Len(l.data) = acc.addr /\ n < l.max
     THEN Append(Front(blobs), [l EXCEPT !.data = @ \o acc.data])
     ELSE Append(blobs, [addr |-> acc.addr, data |-> acc.data,
                         max |-> Len(acc.data) + Pad])
Blobs(accs) == FoldLeft(LAMBDA b, a : my_mem_fn(b, a), <<>>, accs)

\* The record eio_write_trace() prints: x is the machine at the call, y
\* after it, ins and outs the accesses made in between.
Transaction(x, y, ins, outs) ==
  [icnt |-> x.insn, pc |-> x.pc, inr |-> x.r, inm |-> Blobs(ins),
   brk |-> y.brk, outr |-> y.r, outm |-> Blobs(outs)]

\* The checks of eio_read_trace() on the transaction's inputs.
Consistent(x, t) ==
  /\ t.icnt = x.insn /\ t.pc = x.pc /\ t.inr = x.r
  /\ \A i \in 1..Len(t.inm) : \A j \in 1..Len(t.inm[i].data) :
       x.mem[t.inm[i].addr + j - 1] = t.inm[i].data[j]

Accepted(x) == inp # <<>> /\ Consistent(x, Head(inp))

\* The checks read memory through mem_fn, byte by byte.
MutantDirectReads(t) == <<>>
CheckedReads(t)      == Bytes(t.inm)

\* The outputs it applies: heap, recorded registers, memory.
eio_read_trace(x, t) ==
  [x EXCEPT !.brk = t.brk, !.r = t.outr, !.mem = StoreAll(x.mem, t.outm)]

\* sys_syscall() of target-alpha adds this after a replayed sigreturn().
sigreturn_kludge(k, y) ==
  IF k = "sig" THEN [y EXCEPT !.oth = y.mem[y.r], !.r = y.mem[y.r + 1]] ELSE y

\* eio_fast_forward(): what is left of trace trs behind the transaction of
\* icnt, or nothing found at all.
Found(trs, icnt)            == \E i \in DOMAIN trs : trs[i].icnt = icnt
MutantStayBefore(trs, icnt) ==
  LET at == IF Found(trs, icnt) THEN CHOOSE i \in DOMAIN trs : trs[i].icnt = icnt ELSE Len(trs)
  IN SubSeq(trs, at, Len(trs))
eio_fast_forward(trs, icnt) ==
  LET at == IF Found(trs, icnt) THEN CHOOSE i \in DOMAIN trs : trs[i].icnt = icnt ELSE Len(trs)
  IN SubSeq(trs, at + 1, Len(trs))

\* eio_write_chkpt() and eio_read_chkpt(): the whole machine and the number
\* of the last transaction.
Chkpt             == [ptr |-> trans, m |-> m]
eio_read_chkpt(c) == c.m

\* eio_open(): there is a trace of this simulator to read.
eio_open(f) == f.made

-----------------------------------------------------------------------------
\* A session: sim_load_prog() and ld_load_prog() accept the command line and
\* load the program, the trace, or the trace and a checkpoint.

Idle == st \notin {"ff", "run"}

\* eio_valid(): the first line of the file says what it is.
eio_valid(x) == x.in = "eio"

Refusal(x) == \/ ~eio_valid(x) /\ (x.chk \/ x.dump # 0)
              \/ eio_valid(x) /\ x.dump # 0 /\ x.per # 0

Begin(x, mm, tr, left, state) ==
  /\ Idle /\ used < Sessions
  /\ used' = used + 1
  /\ o' = x /\ m' = mm /\ base' = mm.insn /\ emit' = <<>>
  /\ ffLeft' = x.ff /\ trans' = tr /\ inp' = left
  /\ cks' = {} /\ next' = x.per
  /\ st' = state
  /\ cur' = eio_create /\ clog' = <<>>
  /\ UNCHANGED <<prog, files>>

Refuse == \E x \in Options : Refusal(x) /\ Begin(x, Boot, -1, <<>>, "refused")

\* sim_main() starts: with -fastfwd first, else at once; the initial
\* checkpoint of a trace is written in between.
LoadProg == \E x \in Options : ~Refusal(x) /\ ~eio_valid(x) /\ Begin(x, Boot, -1, <<>>, "ff")

MutantCountFromZero == \E x \in Options :
  /\ ~Refusal(x) /\ eio_valid(x) /\ ~x.chk /\ eio_open(file)
  /\ Begin(x, file.init, 0, file.trs, "ff")
LoadEio == \E x \in Options :
  /\ ~Refusal(x) /\ eio_valid(x) /\ ~x.chk /\ eio_open(file)
  /\ Begin(x, file.init, -1, file.trs, "ff")

LoadChkpt == \E x \in Options, c \in chks :
  /\ ~Refusal(x) /\ eio_valid(x) /\ x.chk /\ eio_open(file)
  /\ c.ptr # -1 \/ Early
  /\ Begin(x, eio_read_chkpt(c), c.ptr, eio_fast_forward(file.trs, c.ptr),
           IF Found(file.trs, c.ptr) THEN "ff" ELSE "lost")

\* The end of sim_main()'s fast forward loop.
StartTracing ==
  /\ st = "ff" /\ ffLeft = 0
  /\ st' = IF o.trace /\ trans # -1 THEN "panic" ELSE "run"
  /\ cur' = IF o.trace THEN [init |-> m, trs |-> <<>>, made |-> TRUE] ELSE cur
  /\ clog' = IF o.trace THEN [i \in {m.insn} |-> [m |-> m, emit |-> emit]] ELSE clog
  /\ UNCHANGED <<prog, used, o, m, emit, ffLeft, trans, inp, next, cks, base, files>>

-----------------------------------------------------------------------------
\* One instruction.  x is the machine with the instruction counted.

Advance(y) == [y EXCEPT !.pc = @ + 1]
Logged(y, e, t) ==
  /\ cur' = IF cur.made THEN [cur EXCEPT !.trs = @ \o t] ELSE cur
  /\ clog' = IF cur.made THEN [i \in DOMAIN clog \cup {y.insn} |->
                                 IF i = y.insn THEN [m |-> y, emit |-> e] ELSE clog[i]]
             ELSE clog

Plain(x) ==
  /\ prog[x.pc] = "op"
  /\ m' = Advance(Op(x)) /\ emit' = <<>>
  /\ Logged(Advance(Op(x)), <<>>, <<>>)
  /\ UNCHANGED <<trans, inp>>

\* A live call, recorded when a trace is being written.
LiveCall(x) ==
  /\ o.in = "prog" /\ prog[x.pc] \notin {"op", "exit"}
  /\ \E w \in (IF prog[x.pc] = "get" THEN {0, 1} ELSE {2}) :
       LET k    == prog[x.pc]
           ins  == Reads(k, x)
           outs == Writes(k, w)
           y    == [LiveRegs(k, x, w) EXCEPT !.mem = StoreAll(x.mem, outs)]
           e    == IF k = "put" THEN Concat(ins) ELSE <<>>
       IN /\ m' = Advance(y) /\ emit' = e
          /\ trans' = IF cur.made THEN x.insn ELSE trans
          /\ Logged(Advance(y), e, <<Transaction(x, y, ins, outs)>>)
  /\ UNCHANGED inp

\* A replayed call: through sys_syscall(), or, when a second trace is being
\* written, directly and byte by byte through my_mem_fn().
ReplayedCall(x) ==
  /\ o.in = "eio" /\ prog[x.pc] \notin {"op", "exit"}
  /\ Accepted(x)
  /\ LET k == prog[x.pc]
         t == Head(inp)
         y == eio_read_trace(x, t)
         z == IF cur.made THEN y ELSE sigreturn_kludge(k, y)
         e == IF k = "put" THEN Concat(t.inm) ELSE <<>>
     IN /\ m' = Advance(z) /\ emit' = e
        /\ Logged(Advance(z), e, <<Transaction(x, z, CheckedReads(t), Bytes(t.outm))>>)
  /\ trans' = x.insn /\ inp' = Tail(inp)

Instruction(x) == Plain(x) \/ LiveCall(x) \/ ReplayedCall(x)

\* The end of a session leaves its trace and its checkpoints behind; the
\* checkpoints of a session that writes a trace belong to that trace.
Close(c, l, k) ==
  /\ file' = IF o.trace THEN c ELSE file
  /\ flog' = IF o.trace THEN l ELSE flog
  /\ chks' = IF o.trace THEN k ELSE chks \cup k

\* The fast forward loop does not count instructions, so that a replayed
\* call never has the count of its transaction here: see Mismatch.
FastForward ==
  /\ st = "ff" /\ ffLeft > 0
  /\ Plain(m) \/ LiveCall(m)
  /\ ffLeft' = ffLeft - 1
  /\ UNCHANGED <<prog, used, o, st, next, cks, base, files>>

OneShotDue == o.dump # 0 /\ m.insn >= o.dump
Executing == (st = "ff" /\ ffLeft > 0) \/ (st = "run" /\ ~OneShotDue)
PeriodicDue == o.per # 0 /\ m.insn = next

OneShotChkpt ==
  /\ st = "run" /\ OneShotDue
  /\ cks' = {Chkpt} /\ st' = "idle"
  /\ Close(cur, clog, {Chkpt})
  /\ UNCHANGED <<prog, used, o, m, emit, ffLeft, trans, inp, cur, clog, next, base>>

MutantNextChkpt == next
NextChkpt       == IF PeriodicDue THEN next + o.per ELSE next

\* One turn of the main loop: periodic checkpoint, instruction, -max:inst.
Step ==
  /\ st = "run" /\ ~OneShotDue
  /\ Instruction([m EXCEPT !.insn = @ + 1])
  /\ cks' = IF PeriodicDue THEN cks \cup {Chkpt} ELSE cks
  /\ next' = NextChkpt
  /\ IF o.max # 0 /\ m.insn + 1 >= o.max
     THEN st' = "idle" /\ Close(cur', clog', cks')
     ELSE UNCHANGED <<st, files>>
  /\ UNCHANGED <<prog, used, o, ffLeft, base>>

\* exit() leaves by longjmp() from wherever it is: it is never recorded and
\* always executed.
Exit ==
  /\ Executing
  /\ prog[m.pc] = "exit"
  /\ cks' = IF st = "run" /\ PeriodicDue THEN cks \cup {Chkpt} ELSE cks
  /\ st' = "idle" /\ Close(cur, clog, cks')
  /\ UNCHANGED <<prog, used, o, m, emit, ffLeft, trans, inp, cur, clog, next, base>>

\* The fatal()s of eio_read_trace(): the trace is at its end, or is about
\* another machine.
Mismatch ==
  /\ Executing
  /\ o.in = "eio" /\ prog[m.pc] \notin {"op", "exit"}
  /\ LET x == IF st = "ff" THEN m ELSE [m EXCEPT !.insn = @ + 1]
     IN ~Accepted(x)
  /\ st' = "fatal"
  /\ UNCHANGED <<prog, used, o, m, emit, ffLeft, trans, inp, cur, clog, next, cks, base, files>>

-----------------------------------------------------------------------------
Init == /\ prog \in Programs
        /\ used = 0 /\ st = "idle" /\ o \in {[in |-> "prog", chk |-> FALSE, trace |-> FALSE,
                                              ff |-> 0, dump |-> 0, per |-> 0, max |-> 0]}
        /\ m = Boot /\ emit = <<>> /\ ffLeft = 0 /\ trans = -1 /\ inp = <<>>
        /\ cur = eio_create /\ clog = <<>> /\ next = 0 /\ cks = {} /\ base = 0
        /\ file = eio_create /\ flog = <<>> /\ chks = {}

Next == Refuse \/ LoadProg \/ LoadEio \/ LoadChkpt \/ StartTracing
          \/ FastForward \/ OneShotChkpt \/ Step \/ Exit \/ Mismatch
Spec == Init /\ [][Next]_vars

-----------------------------------------------------------------------------
\* "EIO trace executions are 100% reproducible" (sim-eio.c): at every
\* instruction of a replay, from the start or from a checkpoint, machine and
\* output are what they were at that instruction when the trace was made.
Reproducible ==
  st = "run" /\ o.in = "eio" /\ m.insn \in DOMAIN flog =>
    /\ m = flog[m.insn].m
    /\ m.insn > base => emit = flog[m.insn].emit

\* A replay stops with an inconsistency only at a call the recording never
\* made (it had been cut off by -max:inst), and every checkpoint is found
\* in its trace.
TraceAccepted ==
  /\ st = "fatal" => ffLeft = 0 /\ m.insn + 1 \notin DOMAIN flog
  /\ st # "lost"

\* Recording a replay gives the trace that is replayed, from the first
\* transaction on, up to how the bytes are grouped into blobs.
SameTransaction(s, t) ==
  /\ [s EXCEPT !.inm = <<>>, !.outm = <<>>] = [t EXCEPT !.inm = <<>>, !.outm = <<>>]
  /\ Bytes(s.inm) = Bytes(t.inm) /\ Bytes(s.outm) = Bytes(t.outm)
RetraceExact ==
  st = "run" /\ o.in = "eio" /\ cur.made =>
    /\ Len(cur.trs) + Len(inp) = Len(file.trs)
    /\ \A i \in DOMAIN cur.trs : SameTransaction(cur.trs[i], file.trs[i])

\* A session that is to write a trace gets past its initial checkpoint:
\* the panic("checkpoint code is broken") is not reached.
TracingStarts == st # "panic"

\* -perdump: "periodic checkpoint every n instructions".  No multiple of the
\* interval that the session has passed is without its checkpoint.
PeriodicKept ==
  st = "run" /\ o.per # 0 =>
    \A k \in 1..m.insn : (k % o.per = 0 /\ base <= k /\ k < m.insn) => \E c \in cks : c.m.insn = k
=============================================================================
