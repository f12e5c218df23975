------------------------------ MODULE SysAlpha ------------------------------
(***************************************************************************)
(* sys_syscall() of simplesim-3.0/target-alpha/syscall.c: the proxy that   *)
(* executes an Alpha OSF program's system calls on the host.  V0 holds the *)
(* code and A0..A5 the arguments; V0 returns the result and A3 is 0, or V0 *)
(* returns errno and A3 is not 0.  The program first loads the registers   *)
(* (Issue), directly or through syscall(), which passes the code in A0;    *)
(* then the case of the switch runs, one action each.  read(), write(),    *)
(* readv() and writev() are repeated while the host says EAGAIN, so that   *)
(* outcome never reaches the program.                                      *)
(***************************************************************************)
EXTENDS ProxyCall, Sequences

CONSTANTS
  NeverFail,    \* the calls the host never refuses
  Errnos,       \* the error codes it then gives
  ShortReads,   \* may read() and readv() return fewer bytes than asked for?
  ExceptPtrs,   \* the exceptfds arguments of select()
  Stale,        \* what A3 may hold when a call has no fourth argument
  Indirect,     \* subset of BOOLEAN: are calls made through syscall()?
  MaxCalls      \* bound on the number of calls

AlphaAssumption ==
  /\ Errnos \subseteq 1..5 /\ ShortReads \in BOOLEAN /\ Indirect \subseteq BOOLEAN
  /\ ExceptPtrs \subseteq 0..Top /\ Stale \subseteq Nat /\ MaxCalls \in Nat

VARIABLES
  pc,        \* the call whose registers are loaded, or "user"
  args,      \* A0..A5 as the call was made
  a,         \* A0..A5
  v0,
  mem, last, \* as in the PISA proxy
  fds,       \* the host descriptors of the simulator process
  moved,     \* the standard streams the program dup2()ed another file onto
  brk,       \* ld_brk_point
  sigmask, handler,         \* sigmask, sigaction_array
  failed,    \* did the last call fail or go unexecuted?
  status, calls
vars == <<pc, args, a, v0, mem, last, fds, moved, brk,
          sigmask, handler, failed, status, calls>>

files  == <<fds, moved>>
sig    == <<sigmask, handler>>
MaxFd  == 3
Struct == 2
Code   == 6             \* a system call number
Std    == [i \in 0..2 |-> <<"stdin", "stdout", "stderr">>[i + 1]]
Args   == 0..5

Host(call, oks) == Outcomes(oks, call \notin NeverFail, Errnos)

\* The registers when the program passes list; syscode = A0 for syscall().
Passed(list, ind) == [k \in Args |-> IF ~ind THEN list[k]
                                     ELSE IF k = 0 THEN Code ELSE list[k - 1]]

\* The argument lists of the calls that look at them; A3 is stale in a call
\* with fewer than four arguments.
ArgLists(call) ==
  LET L(x, y, z, w, u) == [k \in Args |-> <<x, y, z, w, u, 0>>[k + 1]] IN
  CASE call = "close" -> {L(fd, 0, 0, s, 0) : fd \in 0..MaxFd, s \in Stale}
    [] call = "dup2" -> {L(3, fd, 0, s, 0) : fd \in 0..MaxFd, s \in Stale}
    [] call = "select" -> {L(1, Buf, 0, e, 0) : e \in ExceptPtrs}
    [] call \in {"table", "getdirentries"} -> {L(3, Buf, 2, Buf2, 0)}
    [] call = "recvfrom" -> {L(3, Buf, 2, 0, Buf2)}
    [] call \in {"gethostname", "getdomainname", "poll"} ->
         {L(Buf, 2, 0, s, 0) : s \in Stale}
    [] call = "gettimeofday" -> {L(tv, tz, 0, s, 0) :
                                   tv \in {0, Buf}, tz \in {0, Buf2}, s \in Stale}
    [] call = "ioctl" -> {L(1, q, Buf, s, 0) : q \in {0, 1}, s \in Stale}
    [] call \in {"sigprocmask"} -> {L(how, m, 0, s, 0) :
                                      how \in 1..4, m \in 0..1, s \in Stale}
    [] call = "sigaction" -> {L(1, h, o, s, 0) : h \in {0, 5}, o \in {0, 7}, s \in Stale}
    [] call \in {"sbrk", "obreak"} -> {L(d, 0, 0, s, 0) : d \in {0, 2}, s \in Stale}
    [] call = "exit" -> {L(d, 0, 0, 0, 0) : d \in {0, 255}}
    [] OTHER -> {L(1, Buf, 2, s, 0) : s \in Stale}

PlainCalls == {"flock", "bind", "unlink", "chdir", "chmod", "chown", "lseek",
  "getpid", "getuid", "access", "getgid", "getpagesize", "getdtablesize",
  "fcntl", "utimes", "truncate", "ftruncate", "setregid", "setreuid", "socket",
  "connect", "setsockopt", "setgid", "setuid", "getpriority", "setpriority",
  "shutdown", "usleep_thread", "sendto"}
OwnCase == {"exit", "read", "write", "open", "close", "sbrk", "obreak", "stat",
  "dup", "ioctl", "fstat", "setitimer", "table", "dup2", "gettimeofday",
  "getrusage", "getrlimit", "sigprocmask", "sigaction", "sigstack", "sigreturn",
  "uswitch", "setsysinfo", "getdirentries", "statfs", "uname", "writev",
  "readv", "getsockname", "getpeername", "select", "poll", "gethostname",
  "getdomainname", "madvise", "recvfrom", "unimplemented"}

\* A call, the addresses of the buffers the registers name when it is made,
\* and those of them the host answered.
Made(c, ok, named, answered) ==
  [call |-> c, ok |-> ok, named |-> named, answered |-> IF ok THEN answered ELSE {}]
Silent(c) == Made(c, TRUE, {}, {})

\* The program makes a call.  (readv() finds its buffers through memory and is
\* made directly only.)
Issue ==
  /\ pc = "user" /\ status = "live" /\ calls < MaxCalls
  /\ \E c \in PlainCalls \cup OwnCase :
     \E list \in ArgLists(c), ind \in IF c = "readv" THEN {FALSE} ELSE Indirect :
       pc' = c /\ args' = Passed(list, ind) /\ a' = args' /\ last' = Silent(c)
  /\ calls' = calls + 1 /\ mem' = Untouched
  /\ v0' = Code /\ UNCHANGED <<files, brk, sig, failed, status>>
-----------------------------------------------------------------------------
\* V0 and A3 after the error check.
Ret(o) ==
  /\ v0' = IF o.rc # -1 THEN o.rc ELSE o.errno
  /\ a' = [a EXCEPT ![3] = IF o.rc # -1 THEN 0 ELSE -1]
  /\ failed' = (o.rc = -1)

Case(c) == pc = c /\ pc' = "user" /\ UNCHANGED <<args, status, calls>>
NoMemory == UNCHANGED <<mem, last>>

\* A call without output buffers.
Plain(c, oks) ==
  /\ Case(c) /\ \E o \in Host(c, oks) : Ret(o)
  /\ NoMemory /\ UNCHANGED <<files, brk, sig>>

\* Structures of n bytes at the registers ks, as the call was made and as they
\* are when the copies back are made; after as in the PISA proxy.
AnswerN(c, oks, ks, n, after) ==
  /\ Case(c)
  /\ \E o \in Host(c, oks) :
       LET where(f) == UNION {Span(f[k], n) : k \in {j \in ks : f[j] # 0}} IN
       /\ Ret(o)
       /\ last' = Made(c, o.rc # -1, where(args), where(args))
       /\ mem' = [i \in 0..Top |-> IF i \notin where(a') THEN "own"
                                   ELSE IF o.rc = -1 THEN after ELSE "host"]
  /\ UNCHANGED <<files, brk, sig>>
Answer(c, oks, ks, after) == AnswerN(c, oks, ks, Struct, after)

\* A case that only sets registers: result and A3, where given.
Fixed(c, res, flag, bad) ==
  /\ Case(c) /\ v0' = res /\ a' = [a EXCEPT ![3] = flag] /\ failed' = bad
  /\ NoMemory /\ UNCHANGED <<files, brk, sig>>
-----------------------------------------------------------------------------
\* The exit code is masked, so that longjmp() is never given 0.
ExitStatus(code) == (code % 256) + 1 - 1
SYS_exit ==
  /\ pc = "exit" /\ status' = "exit" /\ v0' = ExitStatus(a[0]) /\ pc' = "user"
  /\ UNCHANGED <<args, a, mem, last, files, brk, sig, failed, calls>>

\* read(fd, buf, nbytes): the whole zeroed buffer is copied back, whatever
\* the count.
SYS_read ==
  /\ Case("read")
  /\ \E o \in Host("read", IF ShortReads THEN 0..a[2] ELSE {a[2]}) :
       /\ Ret(o)
       /\ last' = Made("read", o.rc # -1, Span(args[1], args[2]), Span(args[1], o.rc))
       /\ mem' = [i \in 0..Top |-> IF i \in Span(a[1], o.rc) THEN "host"
                                   ELSE IF i \in Span(a[1], a[2]) THEN "junk"
                                   ELSE "own"]
  /\ UNCHANGED <<files, brk, sig>>

\* readv(): every buffer is copied back over its full length.
SYS_readv ==
  /\ Case("readv")
  /\ \E o \in Host("readv", IF ShortReads THEN 0..2 ELSE {2}) :
       /\ Ret(o)
       /\ last' = Made("readv", o.rc # -1, Span(Buf, 2), Span(Buf, o.rc))
       /\ mem' = [i \in 0..Top |-> IF i \in Span(Buf, o.rc) THEN "host"
                                   ELSE IF i \in Span(Buf, 2) THEN "junk"
                                   ELSE "own"]
  /\ UNCHANGED <<files, brk, sig>>

\* write(): anything but the full count is an error.
SYS_write ==
  /\ Case("write")
  /\ \E o \in Host("write", 1..a[2]) :
       IF o.rc = a[2] THEN Ret(o) ELSE Ret([rc |-> -1, errno |-> o.errno])
  /\ NoMemory /\ UNCHANGED <<files, brk, sig>>

SYS_writev == Plain("writev", 1..2)
-----------------------------------------------------------------------------
Fd(k) == IF k \in 0..MaxFd THEN fds[k] ELSE "none"
NewFd(c, what) ==
  /\ Case(c)
  /\ \E o \in IF fds[3] # "none" \/ what = "none" THEN Outcomes({}, TRUE, Errnos)
              ELSE Host(c, {3}) :
       Ret(o) /\ fds' = IF o.rc = -1 THEN fds ELSE [fds EXCEPT ![3] = what]
  /\ NoMemory /\ UNCHANGED <<moved, brk, sig>>
SYS_open == NewFd("open", "other")
SYS_dup  == NewFd("dup", Fd(a[0]))

\* A flag that is in no row of osf_flag_table is fatal.
Stops(c, how) ==
  /\ pc = c /\ pc' = "user" /\ status' = how
  /\ UNCHANGED <<args, a, v0, mem, last, files, brk, sig, failed, calls>>
OpenBadFlag == Stops("open", "fatal")

\* close(fd): 0, 1 and 2 stay open; V0 keeps the call's code.
MutantCloseAny ==
  /\ Case("close") /\ v0' = 0 /\ a' = [a EXCEPT ![3] = 0] /\ failed' = FALSE
  /\ fds' = [fds EXCEPT ![a[0]] = "none"]
  /\ NoMemory /\ UNCHANGED <<moved, brk, sig>>

SYS_close ==
  /\ Case("close") /\ NoMemory /\ UNCHANGED <<moved, brk, sig>>
  /\ IF a[0] \in 0..2
     THEN /\ v0' = v0 /\ a' = [a EXCEPT ![3] = 0] /\ failed' = FALSE
          /\ fds' = fds
     ELSE \E o \in IF Fd(a[0]) = "none"
                   THEN Outcomes({}, TRUE, Errnos) ELSE Outcomes({0}, FALSE, {}) :
            Ret(o) /\ fds' = IF o.rc = -1 THEN fds ELSE [fds EXCEPT ![a[0]] = "none"]

SYS_dup2 ==
  /\ Case("dup2")
  /\ \E o \in IF Fd(a[0]) = "none" \/ a[1] \notin 0..MaxFd
              THEN Outcomes({}, TRUE, Errnos) ELSE Host("dup2", {a[1]}) :
       /\ Ret(o)
       /\ fds' = IF o.rc = -1 THEN fds ELSE [fds EXCEPT ![a[1]] = fds[a[0]]]
       /\ moved' = IF o.rc = -1 THEN moved ELSE moved \cup {a[1]}
  /\ NoMemory /\ UNCHANGED <<brk, sig>>
-----------------------------------------------------------------------------
\* sbrk(delta) and obreak(addr): the break moves anywhere; the new break is
\* returned.
SetBrk(c, addr) ==
  /\ Case(c) /\ brk' = addr /\ v0' = addr /\ a' = [a EXCEPT ![3] = 0]
  /\ failed' = FALSE /\ NoMemory /\ UNCHANGED <<files, sig>>
SYS_sbrk   == SetBrk("sbrk", brk + a[0])
SYS_obreak == SetBrk("obreak", a[0])

SYS_flock  == Plain("flock", {0})
SYS_bind   == Plain("bind", {0})
SYS_sendto == Plain("sendto", {2})
SYS_unlink == Plain("unlink", {0})
SYS_chdir  == Plain("chdir", {0})
SYS_chmod  == Plain("chmod", {0})
SYS_chown  == Plain("chown", {0})
SYS_lseek  == Plain("lseek", {0, 2})
SYS_getpid == Plain("getpid", {7})
SYS_getuid == Plain("getuid", {7})
SYS_getgid == Plain("getgid", {7})
SYS_access == Plain("access", {0})
SYS_getpagesize   == Plain("getpagesize", {4})
SYS_getdtablesize == Plain("getdtablesize", {16})
SYS_fcntl  == Plain("fcntl", {0})
SYS_utimes == Plain("utimes", {0})
SYS_truncate  == Plain("truncate", {0})
SYS_ftruncate == Plain("ftruncate", {0})
SYS_setregid  == Plain("setregid", {0})
SYS_setreuid  == Plain("setreuid", {0})
SYS_socket    == Plain("socket", {9})
SYS_connect   == Plain("connect", {0})
SYS_setsockopt  == Plain("setsockopt", {0})
SYS_setgid      == Plain("setgid", {0})
SYS_setuid      == Plain("setuid", {0})
SYS_getpriority == Plain("getpriority", {0})
SYS_setpriority == Plain("setpriority", {0})
SYS_shutdown    == Plain("shutdown", {0})
SYS_usleep_thread == Plain("usleep_thread", {0})

SYS_stat   == Answer("stat", {0}, {1}, "junk")
SYS_fstat  == Answer("fstat", {0}, {1}, "junk")
SYS_statfs == Answer("statfs", {0}, {1}, "junk")
SYS_getrusage == Answer("getrusage", {0}, {1}, "junk")
SYS_getrlimit == Answer("getrlimit", {0}, {1}, "own")
SYS_gettimeofday == Answer("gettimeofday", {0}, {0, 1}, "own")
SYS_gethostname   == AnswerN("gethostname", {0}, {0}, a[1], "junk")
SYS_getdomainname == AnswerN("getdomainname", {0}, {0}, a[1], "junk")
SYS_poll          == AnswerN("poll", {1}, {0}, a[1], "own")
\* The name and its length; a name is not longer than the buffer.
SYS_getsockname == Answer("getsockname", {0}, {1}, "junk")
SYS_getpeername == Answer("getpeername", {0}, {1}, "junk")

\* recvfrom(fd, buf, n, flags, from, fromlen): V0 bytes are copied back, none
\* for -1, and the sender's address.
SYS_recvfrom ==
  /\ Case("recvfrom")
  /\ \E o \in Host("recvfrom", 0..a[2]) :
       /\ Ret(o)
       /\ last' = Made("recvfrom", o.rc # -1,
                       Span(args[1], args[2]) \cup Span(args[4], Struct),
                       Span(args[1], o.rc) \cup Span(args[4], Struct))
       /\ mem' = IF o.rc = -1 THEN Untouched
                 ELSE mem_bcopy(mem_bcopy(Untouched, a[1], o.rc, "host"),
                                a[4], Struct, "host")
  /\ UNCHANGED <<files, brk, sig>>

\* getdirentries(fd, buf, nbytes, basep): a translated entry is shorter than
\* the host's; basep is taken before A3 is written.
MutantBaseLate ==
  /\ Case("getdirentries") /\ v0' = 2 /\ a' = [a EXCEPT ![3] = 0] /\ failed' = FALSE
  /\ mem' = mem_bcopy(Untouched, a[1], 2, "host")
  /\ LET at == Span(args[1], 2) \cup Span(args[3], Struct) IN
       last' = Made("getdirentries", TRUE, at, at)
  /\ UNCHANGED <<files, brk, sig>>

SYS_getdirentries ==
  /\ Case("getdirentries")
  /\ \E o \in Host("getdirentries", {0, 2}) :
       LET n == IF o.rc = -1 THEN 0 ELSE o.rc
           base == IF n > 0 /\ args[3] # 0 THEN Struct ELSE 0 IN
       /\ Ret(o)
       /\ mem' = mem_bcopy(mem_bcopy(Untouched, a[1], n, "host"), args[3], base, "host")
       /\ last' = LET at == Span(args[1], n) \cup Span(args[3], base) IN
                  Made("getdirentries", o.rc # -1, at, at)
  /\ UNCHANGED <<files, brk, sig>>

\* table(id, index, buf, num, size): buf is A3 and is taken before A3 is
\* written; V0 is not written on success.
SYS_table ==
  /\ Case("table") /\ UNCHANGED <<files, brk, sig>>
  /\ \/ \E o \in Host("table", {v0}) :
          LET n == IF o.rc = -1 THEN 0 ELSE Struct IN
          /\ Ret(o)
          /\ mem' = mem_bcopy(Untouched, a[3], n, "host")
          /\ last' = Made("table", o.rc # -1, Span(args[3], Struct), Span(args[3], Struct))
     \/ \* an unsupported table: ignored
        /\ v0' = v0 /\ a' = [a EXCEPT ![3] = 0] /\ failed' = FALSE /\ NoMemory
TableBad       == Stops("table", "panic")
ConnectTooLong == Stops("connect", "fatal")

\* ioctl(): two requests are executed, FIONBIO on a copy of its argument;
\* any other one is ignored, V0 keeping the call's code.
SYS_ioctl ==
  \/ a[1] = 0 /\ Answer("ioctl", {0}, {2}, "junk")
  \/ a[1] = 0 /\ Answer("ioctl", {0}, {2}, "own")
  \/ a[1] # 0 /\ Fixed("ioctl", v0, 0, FALSE)

\* select(nfds, readfds, writefds, exceptfds, timeout): A3 is the exceptfds
\* pointer and is written before the copies back.
Pointers(f, ks) == UNION {Span(f[k], Struct) : k \in {j \in ks : f[j] # 0}}
MutantSelectEarly ==
  /\ Case("select")
  /\ v0' = 1 /\ a' = [a EXCEPT ![3] = 0] /\ failed' = FALSE
  /\ mem' = mem_bcopy(Untouched, a[1] + 1, Struct, "host")
  /\ last' = Made("select", TRUE, Pointers(args, 1..4), Pointers(args, 1..4))
  /\ UNCHANGED <<files, brk, sig>>

SYS_select ==
  /\ Case("select")
  /\ \E o \in Host("select", {1}) :
       /\ Ret(o)
       /\ last' = Made("select", o.rc # -1, Pointers(args, 1..4), Pointers(args, 1..4))
       /\ mem' = [i \in 0..Top |->
                   IF a'[3] # 0 /\ i \in Span(a'[3], Struct) THEN "junk"
                   ELSE IF o.rc # -1 /\ i \in Pointers(a', {1, 2, 4}) THEN "host"
                   ELSE "own"]
  /\ UNCHANGED <<files, brk, sig>>
-----------------------------------------------------------------------------
\* sigprocmask(how, mask): the old mask is returned.
SYS_sigprocmask ==
  /\ Case("sigprocmask") /\ NoMemory /\ UNCHANGED <<files, brk, handler>>
  /\ \/ /\ a[0] \in 1..3
        /\ v0' = sigmask /\ a' = [a EXCEPT ![3] = 0] /\ failed' = FALSE
        /\ sigmask' = CASE a[0] = 1 -> IF a[1] = 1 THEN 1 ELSE sigmask
                        [] a[0] = 2 -> IF a[1] = 1 THEN 0 ELSE sigmask
                        [] a[0] = 3 -> a[1]
     \/ /\ a[0] \notin 1..3 /\ failed' = TRUE
        /\ \E e \in Errnos : v0' = e /\ a' = [a EXCEPT ![3] = 1]
        /\ UNCHANGED sigmask

\* sigaction(sig, act, oact): act is stored first; then A2 is replaced.
SYS_sigaction ==
  /\ Case("sigaction") /\ NoMemory /\ UNCHANGED <<files, brk, sigmask>>
  /\ handler' = IF a[1] # 0 THEN a[1] ELSE handler
  /\ v0' = 0 /\ failed' = FALSE
  /\ a' = [a EXCEPT ![3] = 0, ![2] = IF a[2] # 0 THEN handler' ELSE 0]

\* sigreturn(sc): every register and the mask come from the context.
SYS_sigreturn ==
  /\ Case("sigreturn") /\ NoMemory /\ UNCHANGED <<files, brk, handler>>
  /\ \E m \in 0..1 : sigmask' = m
  /\ v0' = 0 /\ a' = [k \in Args |-> 0] /\ failed' = FALSE

SYS_setitimer  == Fixed("setitimer", v0, 0, FALSE)
SYS_sigstack   == Fixed("sigstack", v0, 0, FALSE)
SYS_uswitch    == Fixed("uswitch", a[1], a[3], FALSE)
SYS_setsysinfo == Fixed("setsysinfo", 0, a[3], FALSE)
SYS_madvise    == Fixed("madvise", 0, a[3], FALSE)
SYS_uname      == \E e \in Errnos : Fixed("uname", e, -1, TRUE)
MutantWingIt   == Fixed("unimplemented", 0, a[3], TRUE)
Unimplemented  == Fixed("unimplemented", 0, -1, TRUE)
-----------------------------------------------------------------------------
Init ==
  /\ pc = "user" /\ args = [k \in Args |-> 0] /\ a = args /\ v0 = 0
  /\ mem = Untouched /\ last = Silent("none") /\ moved = {}
  /\ fds = [i \in 0..MaxFd |-> IF i \in 0..2 THEN Std[i] ELSE "none"]
  /\ brk = 2
  /\ sigmask = 0 /\ handler = 0 /\ failed = FALSE /\ status = "live" /\ calls = 0

Next ==
  \/ Issue \/ SYS_exit \/ SYS_read \/ SYS_readv \/ SYS_write \/ SYS_writev
  \/ SYS_open \/ OpenBadFlag \/ SYS_dup \/ SYS_close \/ SYS_dup2
  \/ SYS_sbrk \/ SYS_obreak
  \/ SYS_flock \/ SYS_bind \/ SYS_sendto \/ SYS_unlink \/ SYS_chdir
  \/ SYS_chmod \/ SYS_chown \/ SYS_lseek \/ SYS_getpid \/ SYS_getuid
  \/ SYS_getgid \/ SYS_access \/ SYS_getpagesize \/ SYS_getdtablesize
  \/ SYS_fcntl \/ SYS_utimes \/ SYS_truncate \/ SYS_ftruncate
  \/ SYS_setregid \/ SYS_setreuid \/ SYS_socket \/ SYS_connect
  \/ SYS_setsockopt \/ SYS_setgid \/ SYS_setuid \/ SYS_getpriority
  \/ SYS_setpriority \/ SYS_shutdown \/ SYS_usleep_thread
  \/ SYS_stat \/ SYS_fstat \/ SYS_statfs \/ SYS_getrusage \/ SYS_getrlimit
  \/ SYS_gettimeofday \/ SYS_gethostname \/ SYS_getdomainname \/ SYS_poll
  \/ SYS_getsockname \/ SYS_getpeername \/ SYS_recvfrom
  \/ SYS_getdirentries \/ SYS_table \/ TableBad \/ ConnectTooLong \/ SYS_ioctl \/ SYS_select
  \/ SYS_sigprocmask \/ SYS_sigaction \/ SYS_sigreturn
  \/ SYS_setitimer \/ SYS_sigstack \/ SYS_uswitch \/ SYS_setsysinfo
  \/ SYS_madvise \/ SYS_uname \/ Unimplemented

Spec == Init /\ [][Next]_vars
-----------------------------------------------------------------------------
\* A failed select() writes a descriptor set to address -1 and a successful
\* one never its exceptfds: A3 has been overwritten when it is used as the
\* pointer.
Strays == IF last.call = "select" /\ failed THEN Span(-1, Struct) ELSE {}
Lost == IF last.call = "select" THEN Pointers(args, {3}) \ Pointers(args, {1, 2, 4}) ELSE {}

\* After a call that succeeded the buffers named by the registers hold what
\* the host answered, those named by A3, the register of the error flag, too,
\* and nothing else has changed, but the rest of the buffer of a read() or
\* readv() that fell short; a call that failed has touched no more than the
\* buffers its registers name.
AnswersDelivered ==
  pc = "user" =>
    \A i \in 0..Top :
      /\ (mem[i] = "host") <=> (i \in last.answered \ Lost)
      /\ mem[i] = "junk" => /\ i \in last.named \cup Strays
                            /\ last.ok => last.call \in {"read", "readv"}

\* On return A3 is 0 exactly when the call did not fail (the calling sequence
\* in the comment before sys_syscall); three cases leave A3 as it was.
KeepA3 == {"uswitch", "setsysinfo", "madvise"}
ErrorsFlagged ==
  pc = "user" /\ status = "live" =>
    IF last.call \in KeepA3 THEN a[3] = args[3] /\ ~failed
    ELSE (a[3] # 0) <=> failed

\* The simulator's own standard streams are never closed, unless the program
\* itself put another file there.
StreamsKept == \A i \in 0..2 \ moved : fds[i] = Std[i]
=============================================================================
