------------------------------ MODULE SysPisa ------------------------------
(***************************************************************************)
(* sys_syscall() of simplesim-3.0/target-pisa/syscall.c: the proxy that    *)
(* executes a PISA program's system calls on the host.  R2 holds the code, *)
(* R4..R7 the arguments; R2 (and R3) return the result and R7 is 0, or R2  *)
(* returns errno and R7 is 1.  One action per case of the switch; which    *)
(* program issues the call, with which arguments, and what the host        *)
(* answers is nondeterministic.                                            *)
(***************************************************************************)
EXTENDS ProxyCall, Sequences

CONSTANTS
  MayFail,      \* the calls the host may refuse
  Errnos,       \* the error codes it then gives
  ShortWrites,  \* may write() accept fewer bytes than it was given?
  ExceptPtrs,   \* the exceptfds arguments of select()
  Dup2To,       \* the second arguments of dup2()
  Exits,        \* the arguments of exit()
  MaxCalls,     \* bound on the number of calls
  Stack         \* R29, the stack pointer

ProxyAssumption ==
  /\ Errnos \subseteq 1..5 /\ ShortWrites \in BOOLEAN
  /\ ExceptPtrs \subseteq 0..Top /\ Dup2To \subseteq 0..4
  /\ Exits \subseteq -1..255 /\ MaxCalls \in Nat /\ Stack \in Nat

VARIABLES
  r,        \* R2, R3, R7
  mem,      \* target memory after the last call
  last,     \* the last call as it was made, and what the host did about it
  fds,      \* the host descriptors of the simulator process
  moved,    \* the standard streams the program dup2()ed another file onto
  progfd,   \* sim_progfd: is program output redirected to a file?
  log,      \* the output that left the simulator, and through which stream
  next,     \* the next byte the program has to write
  brk,      \* ld_brk_point
  heap,     \* the highest address the program was given by brk()
  status,   \* "live", or how the simulation ended
  calls
vars == <<r, mem, last, fds, moved, progfd, log, next, brk, heap, status,
          calls>>

host  == <<fds, moved, log, next>>
Page  == 2
MaxFd == 4
Std   == [i \in 0..2 |-> <<"stdin", "stdout", "stderr">>[i + 1]]
Struct == 2            \* the size of a structure or of a descriptor set

Host(call, oks) == Outcomes(oks, call \in MayFail, Errnos)

Result(o) == IF o.rc # -1 THEN [r EXCEPT !.r2 = o.rc, !.r7 = 0]
                          ELSE [r EXCEPT !.r2 = o.errno, !.r7 = 1]

\* A call and its outcome: whether the host did it, the addresses of the
\* buffers its arguments name, those of them the host answered, and the
\* exceptfds argument of select().
Made(call, ok, named, answered, ex) ==
  [call |-> call, ok |-> ok, named |-> named,
   answered |-> IF ok THEN answered ELSE {}, ex |-> ex]
Silent(call, ok) == Made(call, ok, {}, {}, 0)

\* What every call that returns leaves alone.
Returns == status.how = "live" /\ calls < MaxCalls /\ calls' = calls + 1
             /\ UNCHANGED <<progfd, status>>

\* A call that writes no target memory; R7 tells whether it succeeded.
Quiet(call) == mem' = Untouched /\ last' = Silent(call, r'.r7 = 0)

\* A call without output buffers.
Plain(call, oks) ==
  /\ Returns /\ \E o \in Host(call, oks) : r' = Result(o)
  /\ Quiet(call)
  /\ UNCHANGED <<host, brk, heap>>

\* A call that copies structures out, each where its pointer is not NULL and
\* whether the host failed or not.  after is what they then hold: "junk" when
\* they start uninitialised, "own" when they are copied in first.
Answer(call, ptrs, after) ==
  /\ Returns
  /\ \E o \in Host(call, {0}) :
       LET at == UNION {Span(p, Struct) : p \in ptrs \ {0}} IN
       /\ r' = Result(o)
       /\ last' = Made(call, o.rc # -1, at, at, 0)
       /\ mem' = [i \in 0..Top |->
                   IF i \notin at THEN "own"
                   ELSE IF o.rc = -1 THEN after ELSE "host"]
  /\ UNCHANGED <<host, brk, heap>>

\* The call is not executed at all and succeeds.
Ignored(call) ==
  /\ Returns /\ r' = [r EXCEPT !.r2 = 0, !.r7 = 0] /\ Quiet(call)
  /\ UNCHANGED <<host, brk, heap>>
-----------------------------------------------------------------------------
\* longjmp(sim_exit_buf, code + 1) makes setjmp() return code + 1, or 1 when
\* that is 0; main() then exits with that value less 1.
MutantExitFudge(code) == (code + 1) % 256
ExitStatus(code) == ((IF code + 1 = 0 THEN 1 ELSE code + 1) - 1) % 256

SYS_exit ==
  /\ status.how = "live"
  /\ \E code \in Exits : status' = [how |-> "exit", code |-> code,
                                     shown |-> ExitStatus(code)]
  /\ UNCHANGED <<r, mem, last, host, progfd, brk, heap, calls>>

\* read(fd, buf, nbytes): the count copied back is R2 after the error check,
\* which holds errno when the host failed.
MutantReadWhole ==
  /\ Returns
  /\ \E nbytes \in {1, 2} : \E o \in Host("read", 0..nbytes) :
       /\ r' = Result(o)
       /\ mem' = mem_bcopy(Untouched, Buf, nbytes, Filled(o))
       /\ last' = Made("read", o.rc # -1, Span(Buf, nbytes), Span(Buf, o.rc), 0)
  /\ UNCHANGED <<host, brk, heap>>

SYS_read ==
  /\ Returns
  /\ \E nbytes \in {1, 2} : \E o \in Host("read", 0..nbytes) :
       /\ r' = Result(o)
       /\ mem' = mem_bcopy(Untouched, Buf, r'.r2, Filled(o))
       /\ last' = Made("read", o.rc # -1, Span(Buf, nbytes), Span(Buf, o.rc), 0)
  /\ UNCHANGED <<host, brk, heap>>

\* The bytes from next on that left through a stream, and whether the program
\* is told that they did.
Sent(via, n) ==
  log' = log \o [i \in 1..(IF n = -1 THEN 0 ELSE n) |->
                   [byte |-> next + i, via |-> via, told |-> r'.r7 = 0]]

\* write(fd 1, buf, nbytes): anything but a complete write is an error.  The
\* program writes its bytes in order and, told of an error, writes them again.
MutantWriteUnchecked ==
  /\ Returns /\ next < 4
  /\ \E nbytes \in {1, 2} : \E o \in Host("write", {nbytes}) :
       /\ r' = [r EXCEPT !.r2 = o.rc, !.r7 = 0]
       /\ Sent("stdout", o.rc)
       /\ next' = next + nbytes
  /\ Quiet("write") /\ UNCHANGED <<fds, moved, brk, heap>>

SYS_write ==
  /\ Returns /\ next < 4
  /\ \E nbytes \in {1, 2} :
     \E o \in IF progfd THEN {[rc |-> nbytes, errno |-> 0]}
              ELSE Host("write", IF ShortWrites THEN 1..nbytes ELSE {nbytes}) :
       LET via == IF progfd THEN "file" ELSE fds[1]
           ok  == o.rc = nbytes IN
       /\ r' = IF ok THEN [r EXCEPT !.r2 = o.rc, !.r7 = 0]
                     ELSE [r EXCEPT !.r2 = o.errno, !.r7 = 1]
       /\ Sent(via, o.rc)
       /\ next' = IF ok THEN next + nbytes ELSE next
  /\ Quiet("write") /\ UNCHANGED <<fds, moved, brk, heap>>

\* writev(): never redirected; a short count is a success.
SYS_writev ==
  /\ Returns /\ next < 4
  /\ \E o \in Host("writev", 1..2) :
       /\ r' = Result(o)
       /\ Sent(fds[1], o.rc)
       /\ next' = IF o.rc = -1 THEN next ELSE next + o.rc
  /\ Quiet("writev") /\ UNCHANGED <<fds, moved, brk, heap>>
-----------------------------------------------------------------------------
\* A call that returns a new descriptor: the lowest free one.
Free(f) == {i \in 0..MaxFd : f[i] = "none"}
NewFd(call, what) ==
  /\ Returns
  /\ \E o \in IF Free(fds) = {} \/ what = "none" THEN Outcomes({}, TRUE, Errnos)
              ELSE Host(call, {CHOOSE i \in Free(fds) :
                                 \A j \in Free(fds) : i <= j}) :
       /\ r' = Result(o)
       /\ fds' = IF o.rc = -1 THEN fds ELSE [fds EXCEPT ![o.rc] = what]
  /\ Quiet(call) /\ UNCHANGED <<moved, log, next, brk, heap>>

SYS_open  == NewFd("open", "other")
SYS_creat == NewFd("creat", "other")
SYS_dup   == \E fd \in {1, 3} : NewFd("dup", fds[fd])

\* A flag of open() that is in no row of ss_flag_table is fatal.
OpenBadFlag ==
  /\ status.how = "live" /\ status' = [status EXCEPT !.how = "fatal"]
  /\ UNCHANGED <<r, mem, last, host, progfd, brk, heap, calls>>

\* close(fd): for 0, 1 and 2 only R7 is written; R2 keeps the call's code.
MutantCloseAny ==
  /\ Returns
  /\ \E fd \in 0..MaxFd : fds' = [fds EXCEPT ![fd] = "none"]
  /\ r' = [r EXCEPT !.r2 = 0, !.r7 = 0]
  /\ Quiet("close") /\ UNCHANGED <<moved, log, next, brk, heap>>

SYS_close ==
  /\ Returns
  /\ \E fd \in 0..MaxFd :
       IF fd \in 0..2
       THEN r' = [r EXCEPT !.r2 = 6, !.r7 = 0] /\ fds' = fds
       ELSE \E o \in IF fds[fd] = "none" THEN Outcomes({}, TRUE, Errnos)
                     ELSE Outcomes({0}, FALSE, Errnos) :
              /\ r' = Result(o)
              /\ fds' = IF o.rc = -1 THEN fds ELSE [fds EXCEPT ![fd] = "none"]
  /\ Quiet("close") /\ UNCHANGED <<moved, log, next, brk, heap>>

SYS_dup2 ==
  /\ Returns
  /\ \E fd \in {3}, fd2 \in Dup2To :
       \E o \in IF fds[fd] = "none" THEN Outcomes({}, TRUE, Errnos)
                ELSE Host("dup2", {fd2}) :
         /\ r' = Result(o)
         /\ fds' = IF o.rc = -1 THEN fds ELSE [fds EXCEPT ![fd2] = fds[fd]]
         /\ moved' = IF o.rc = -1 THEN moved ELSE moved \cup {fd2}
  /\ Quiet("dup2") /\ UNCHANGED <<log, next, brk, heap>>

\* pipe(): R7 takes the result, R2 and R3 the descriptors.
SYS_pipe ==
  /\ Returns
  /\ LET free == Free(fds) IN
     IF \E i, j \in free : i < j
     THEN \E i, j \in free :
            /\ i < j /\ \A k \in free : k >= j \/ k = i
            /\ r' = [r2 |-> i, r3 |-> j, r7 |-> 0]
            /\ fds' = [fds EXCEPT ![i] = "other", ![j] = "other"]
     ELSE \E e \in Errnos, junk \in {0, 1} :
            r' = [r2 |-> e, r3 |-> junk, r7 |-> 1] /\ fds' = fds
  /\ Quiet("pipe") /\ UNCHANGED <<moved, log, next, brk, heap>>
-----------------------------------------------------------------------------
\* brk(base): rounded up to a page; the heap never shrinks and stays below
\* the stack pointer.
MutantBrkDown ==
  /\ Returns
  /\ \E base \in brk..(Stack - 1) :
       brk' = (base \div Page) * Page /\ heap' = IF base > heap THEN base ELSE heap
  /\ r' = [r EXCEPT !.r2 = 0, !.r7 = 0]
  /\ Quiet("brk") /\ UNCHANGED host

SYS_brk ==
  /\ Returns
  /\ \E base \in 0..(Stack + 1) :
       LET addr == RoundUp(base, Page) IN
       IF addr >= brk /\ addr < Stack
       THEN r' = [r EXCEPT !.r2 = 0, !.r7 = 0] /\ brk' = addr
            /\ heap' = IF base > heap THEN base ELSE heap
       ELSE \E e \in Errnos : r' = [r EXCEPT !.r2 = e, !.r7 = 1]
            /\ UNCHANGED <<brk, heap>>
  /\ Quiet("brk") /\ UNCHANGED host
-----------------------------------------------------------------------------
SYS_unlink == Plain("unlink", {0})
SYS_chdir  == Plain("chdir", {0})
SYS_chmod  == Plain("chmod", {0})
SYS_chown  == Plain("chown", {0})
SYS_access == Plain("access", {0})
SYS_lseek  == Plain("lseek", {0, 5})
SYS_getpid == Plain("getpid", {7})
SYS_fcntl  == Plain("fcntl", {0}) \/ NewFd("fcntl", fds[3])   \* F_DUPFD
SYS_utimes == Plain("utimes", {0})
SYS_getdtablesize == Plain("getdtablesize", {16})
SYS_getpagesize   == Plain("getpagesize", {Page})

\* The two results of getuid() and getgid().
TwoIds(call) ==
  /\ Returns /\ r' = [r2 |-> 7, r3 |-> 8, r7 |-> 0]
  /\ Quiet(call) /\ UNCHANGED <<host, brk, heap>>
SYS_getuid == TwoIds("getuid")
SYS_getgid == TwoIds("getgid")

SYS_stat      == Answer("stat", {Buf}, "junk")
SYS_fstat     == Answer("fstat", {Buf}, "junk")
SYS_getrusage == Answer("getrusage", {Buf}, "junk")
SYS_getrlimit == Answer("getrlimit", {Buf}, "own")
SYS_setitimer  == Ignored("setitimer")
SYS_sigvec     == Ignored("sigvec")
SYS_sigblock   == Ignored("sigblock")
SYS_sigsetmask == Ignored("sigsetmask")

\* gettimeofday(tv, tz): both structures are optional.
MutantNoTimezone ==
  /\ Returns
  /\ r' = [r EXCEPT !.r2 = 0, !.r7 = 0]
  /\ LET at == Span(Buf, Struct) \cup Span(Buf2, Struct) IN
       last' = Made("gettimeofday", TRUE, at, at, 0)
  /\ mem' = mem_bcopy(Untouched, Buf, Struct, "host")
  /\ UNCHANGED <<host, brk, heap>>

SYS_gettimeofday ==
  \E tv \in {0, Buf}, tz \in {0, Buf2} : Answer("gettimeofday", {tv, tz}, "own")

\* ioctl(fd, req, argp): TIOCGETP goes to tcgetattr(); a request with a host
\* code is executed on a copy of the argument, which is copied back; any
\* other one is ignored.
SYS_ioctl ==
  \/ Answer("ioctl", {Buf}, "junk")
  \/ \E argp \in {0, Buf} : Answer("ioctl", {argp}, "own")
  \/ Ignored("ioctl")

\* select(): the error check writes R7, which held the exceptfds argument,
\* before the sets are copied back.
SYS_select ==
  /\ Returns
  /\ \E ex \in ExceptPtrs : \E o \in Host("select", {1}) :
       LET sets == Span(Buf, Struct) \cup (IF ex = 0 THEN {} ELSE Span(ex, Struct))
           rd   == mem_bcopy(Untouched, Buf, Struct,
                             IF o.rc = -1 THEN "own" ELSE "host") IN
       /\ r' = Result(o)
       /\ mem' = IF r'.r7 = 0 THEN rd ELSE mem_bcopy(rd, r'.r7, Struct, "junk")
       /\ last' = Made("select", o.rc # -1, sets, sets, ex)
  /\ UNCHANGED <<host, brk, heap>>

Unimplemented ==
  /\ status.how = "live" /\ status' = [status EXCEPT !.how = "panic"]
  /\ UNCHANGED <<r, mem, last, host, progfd, brk, heap, calls>>
-----------------------------------------------------------------------------
Init ==
  /\ r = [r2 |-> 0, r3 |-> 0, r7 |-> 0]
  /\ mem = Untouched /\ last = Silent("none", TRUE) /\ moved = {}
  /\ fds = [i \in 0..MaxFd |-> IF i \in 0..2 THEN Std[i] ELSE "none"]
  /\ progfd \in BOOLEAN /\ log = <<>> /\ next = 0
  /\ brk = Page /\ heap = 0 /\ calls = 0
  /\ status = [how |-> "live", code |-> 0, shown |-> 0]

Next ==
  \/ SYS_exit \/ SYS_read \/ SYS_write \/ SYS_writev
  \/ SYS_open \/ OpenBadFlag \/ SYS_creat \/ SYS_dup \/ SYS_close
  \/ SYS_dup2 \/ SYS_pipe \/ SYS_brk
  \/ SYS_unlink \/ SYS_chdir \/ SYS_chmod \/ SYS_chown \/ SYS_access
  \/ SYS_lseek \/ SYS_getpid \/ SYS_fcntl \/ SYS_utimes
  \/ SYS_getdtablesize \/ SYS_getpagesize \/ SYS_getuid \/ SYS_getgid
  \/ SYS_stat \/ SYS_fstat \/ SYS_getrusage \/ SYS_getrlimit
  \/ SYS_setitimer \/ SYS_sigvec \/ SYS_sigblock \/ SYS_sigsetmask
  \/ SYS_gettimeofday \/ SYS_ioctl \/ SYS_select \/ Unimplemented

Spec == Init /\ [][Next]_vars
-----------------------------------------------------------------------------
\* What the defects of two calls add to the picture: a failed read() copies
\* as many bytes as errno says (R2 has been overwritten when it is used as the
\* count), a failed select() writes a descriptor set to address 1 and a
\* successful one never its exceptfds (R7 has been overwritten when it is used
\* as the pointer).
Strays == CASE last.call = "read" /\ ~last.ok -> Span(Buf, r.r2)
            [] last.call = "select" /\ ~last.ok -> Span(r.r7, Struct)
            [] OTHER -> {}
Lost == IF last.call = "select" /\ last.ex # 0 THEN Span(last.ex, Struct) ELSE {}

\* After a call that succeeded target memory holds what the host answered, at
\* the places its arguments name, and is otherwise as it was; one that failed
\* has touched no more than the buffers its arguments name (the mem_bcopy
\* calls after the error checks), but for the defects above.
AnswersDelivered ==
  IF last.ok
  THEN mem = [i \in 0..Top |-> IF i \in last.answered \ Lost THEN "host" ELSE "own"]
  ELSE \A i \in 0..Top : mem[i] # "own" => i \in last.named \cup Strays

\* No byte the program was told had been written is missing, and none leaves
\* again or out of order; a byte leaves twice only when a short write was
\* reported as an error (the test R2 == R6) and the program repeats it.
OutputKept ==
  /\ \A b \in 1..next : \E i \in DOMAIN log : log[i].byte = b /\ log[i].told
  /\ \A i, j \in DOMAIN log : i < j /\ log[i].told => log[i].byte < log[j].byte

\* The simulator's own standard streams are never closed, so that no other
\* file takes their place, unless the program itself put one there.
StreamsKept == \A i \in 0..2 \ moved : fds[i] = Std[i]

\* Everything brk() gave the program lies below the current break, and the
\* heap stays below the stack.
HeapKept == heap <= brk /\ brk < Stack

\* The simulator exits with the status of the program; exit(-1) ends as 0,
\* since longjmp() then gets a zero.
StatusReported ==
  status.how = "exit" =>
    status.shown = IF status.code = -1 THEN 0 ELSE status.code % 256
=============================================================================
