------------------------------- MODULE UCache -------------------------------
(***************************************************************************)
(* The single-level, write-back, write-allocate, FIFO set-associative      *)
(* cache of Project2 (Project2/ucache.h and the "Cache Part" of            *)
(* Project2/sim-pipe.c), between the pipeline and the simulated memory.    *)
(*                                                                         *)
(* A cache set is the queue of its lines, head first: the linked list of   *)
(* cache_line_t that en_cache_set and de_cache_set maintain.  Addresses    *)
(* are byte addresses and the geometry is the one of ucache.h: 16 sets of  *)
(* lines of four 4-byte words.  The associativity SET_NUM (4 in ucache.h)  *)
(* is a constant.  ref_count is never read by the program and is left out. *)
(***************************************************************************)
EXTENDS Integers, Sequences, FiniteSets

CONSTANTS
    Addr,           \* the word-aligned addresses of the simulated memory
    Port,           \* the addresses the pipeline fetches, loads or stores
    Word,           \* the values of a memory word
    InitMem,        \* the memory ld_load_prog leaves behind
    SET_NUM,        \* lines per set
    SyscallWrites,  \* what a system call may store: functions address -> word
    MaxAccess       \* bound on the counters, below the width of unsigned int

Index == 0..15
Slot == 0..3

\* ADDR_TAG, ADDR_INDEX and ADDR_OFFSET are shifts and masks by powers of two
ADDR_TAG(a) == a \div 256
ADDR_INDEX(a) == (a \div 16) % 16
ADDR_OFFSET(a) == a % 16
AlignAddr(a) == a - ADDR_OFFSET(a)

ASSUME AddrAssumption ==
    /\ \A a \in Addr : a \in Nat /\ a % 4 = 0
    /\ \A a \in Addr : ADDR_TAG(a) < 16777216       \* unsigned int tag:24
    /\ \A a \in Addr : \A i \in Slot : AlignAddr(a) + 4 * i \in Addr
    /\ Port \subseteq Addr

ASSUME MemAssumption ==
    /\ InitMem \in [Addr -> Word]
    /\ \A ws \in SyscallWrites : \A a \in DOMAIN ws : a \in Addr /\ ws[a] \in Word

ASSUME SizeAssumption ==
    /\ SET_NUM \in Nat \ {0}
    /\ MaxAccess \in Nat
    /\ MaxAccess \div 65536 < 65536                  \* unsigned int access

VARIABLES
    sets,           \* sets[i] is the queue of lines of set i, head first
    mem,            \* the simulated memory behind the cache
    cache,          \* the counters of cache_t
    reply           \* the word and the cycles the last operation answered

vars == <<sets, mem, cache, reply>>

CacheLine == [data : [Slot -> Word], tag : Nat, dirty : BOOLEAN, valid : BOOLEAN]
Counters == [access : Nat, hit : Nat, miss : Nat, replace : Nat, wb : Nat]

Init ==
    /\ sets = [i \in Index |-> <<>>]
    /\ mem = InitMem
    /\ cache = [access |-> 0, hit |-> 0, miss |-> 0, replace |-> 0, wb |-> 0]
    /\ reply = [op |-> "none"]
-----------------------------------------------------------------------------
\* The queue of a set.
en_cache_set(set, line) == Append(set, line)

\* Mutant: the wrong end of the queue is dropped.
DropTail(set) == IF Len(set) = 0 THEN set ELSE SubSeq(set, 1, Len(set) - 1)

de_cache_set(set) == IF Len(set) = 0 THEN set ELSE Tail(set)

\* Mutant: a lookup that only tries the head.
HeadOnly(set, tag) == {k \in DOMAIN set : k = 1 /\ set[k].valid /\ set[k].tag = tag}

\* The positions of the lines the lookup loop of cache_access accepts.
Hits(set, tag) == {k \in DOMAIN set : set[k].valid /\ set[k].tag = tag}

\* Word access inside a line; the offset of an aligned access is 4 * slot.
cache_word_read(line, offset) == line.data[offset \div 4]

\* Mutant: a store that does not mark its line.
WriteKeepsClean(line, w, offset) == [line EXCEPT !.data[offset \div 4] = w]

cache_word_write(line, w, offset) ==
    [line EXCEPT !.data[offset \div 4] = w, !.dirty = TRUE]

\* Mutant: the loop stops one word early.
ThreeWords(m, addr) ==
    [data |-> [i \in 0..2 |-> m[addr + 4 * i]], tag |-> ADDR_TAG(addr),
     dirty |-> FALSE, valid |-> TRUE]

\* A line filled from memory.
malloc_cache_line(m, addr) ==
    [data |-> [i \in Slot |-> m[addr + 4 * i]], tag |-> ADDR_TAG(addr),
     dirty |-> FALSE, valid |-> TRUE]

\* The address cache_write_back rebuilds: (tag << 8) | (index << 4).
LineAddr(line, index) == line.tag * 256 + index * 16

Covers(line, index, a) == \E i \in Slot : a = LineAddr(line, index) + 4 * i

cache_write_back(m, line, index) ==
    [a \in DOMAIN m |-> IF Covers(line, index, a)
                        THEN line.data[(a - LineAddr(line, index)) \div 4]
                        ELSE m[a]]

\* Mutant: off by one in the test for a full set.
EvictsLate(set) == Len(set) > SET_NUM

\* add_into_cache_set: a full set first writes back and drops its head.
Evicts(set) == Len(set) >= SET_NUM

\* Mutant: a dirty head is written back and counted on every miss.
WritesHeadBack(set) == Len(set) > 0 /\ Head(set).dirty

WritesBack(set) == Evicts(set) /\ Head(set).dirty

add_into_cache_set(set, line) ==
    en_cache_set(IF Evicts(set) THEN de_cache_set(set) ELSE set, line)

\* func(line, word, offset): cache_word_read leaves the line alone.
Apply(op, line, w, offset) ==
    IF op = "write" THEN cache_word_write(line, w, offset) ELSE line

Answer(op, a, w, line, cycles) ==
    [op |-> op, addr |-> a, cycles |-> cycles,
     word |-> IF op = "read" THEN cache_word_read(line, ADDR_OFFSET(a)) ELSE w]

\* cache_access when the loop finds a line; the loop does not stop at the
\* first one, so every match is counted and the last one gives the word.
AccessHit(op, a, w) ==
    LET set == sets[ADDR_INDEX(a)]
        hits == Hits(set, ADDR_TAG(a))
        last == CHOOSE k \in hits : \A j \in hits : j <= k
    IN  /\ cache.access < MaxAccess
        /\ hits # {}
        /\ cache' = [cache EXCEPT !.access = @ + 1, !.hit = @ + Cardinality(hits)]
        /\ sets' = [sets EXCEPT ![ADDR_INDEX(a)] =
                       [k \in 1..Len(set) |->
                           IF k \in hits THEN Apply(op, set[k], w, ADDR_OFFSET(a))
                                         ELSE set[k]]]
        /\ reply' = Answer(op, a, w, set[last], 1)
        /\ UNCHANGED mem

\* cache_access when no line matches: the new line is read from memory before
\* the victim is written back, and the word is served from the new line.
AccessMiss(op, a, w) ==
    LET index == ADDR_INDEX(a)
        set == sets[index]
        line == malloc_cache_line(mem, AlignAddr(a))
    IN  /\ cache.access < MaxAccess
        /\ Hits(set, ADDR_TAG(a)) = {}
        /\ cache' = [cache EXCEPT !.access = @ + 1, !.miss = @ + 1,
                                  !.replace = IF Evicts(set) THEN @ + 1 ELSE @,
                                  !.wb = IF WritesBack(set) THEN @ + 1 ELSE @]
        /\ mem' = IF WritesBack(set) THEN cache_write_back(mem, Head(set), index) ELSE mem
        /\ sets' = [sets EXCEPT ![index] =
                       add_into_cache_set(set, Apply(op, line, w, ADDR_OFFSET(a)))]
        /\ reply' = Answer(op, a, w, line, 10)

cache_access(op, a, w) == AccessHit(op, a, w) \/ AccessMiss(op, a, w)

\* For a read the word argument is only a destination.
cache_read(a) == cache_access("read", a, "dst")

cache_write(a, w) == cache_access("write", a, w)

\* cache_flush: every dirty line of every set goes to memory and stays in the
\* cache, clean.  The write-backs of a flush are not counted in cache.wb.
DirtyLines ==
    {p \in UNION {{i} \X DOMAIN sets[i] : i \in Index} : sets[p[1]][p[2]].dirty}

FlushedAt(a) ==
    LET over == {p \in DirtyLines : Covers(sets[p[1]][p[2]], p[1], a)}
        p == CHOOSE q \in over : TRUE
        line == sets[p[1]][p[2]]
    IN  IF over = {} THEN mem[a] ELSE line.data[(a - LineAddr(line, p[1])) \div 4]

FlushedMem == [a \in DOMAIN mem |-> FlushedAt(a)]

FlushedSets ==
    [i \in Index |-> [k \in 1..Len(sets[i]) |-> [sets[i][k] EXCEPT !.dirty = FALSE]]]

\* The SYSCALL case of do_wb: flush, then the handler works on mem directly.
Syscall(ws) ==
    /\ sets' = FlushedSets
    /\ reply' = [op |-> "syscall", image |-> FlushedMem]
    /\ mem' = [a \in Addr |-> IF a \in DOMAIN ws THEN ws[a] ELSE FlushedMem[a]]
    /\ UNCHANGED cache

Next ==
    \/ \E a \in Port : cache_read(a)
    \/ \E a \in Port, w \in Word : cache_write(a, w)
    \/ \E ws \in SyscallWrites : Syscall(ws)

Spec == Init /\ [][Next]_vars
-----------------------------------------------------------------------------
\* What the pipeline sees at address a: the cached word if there is one.
ViewAt(ss, m, a) ==
    LET set == ss[ADDR_INDEX(a)]
        hits == Hits(set, ADDR_TAG(a))
    IN  IF hits = {} THEN m[a]
        ELSE cache_word_read(set[CHOOSE k \in hits : TRUE], ADDR_OFFSET(a))

View == [a \in Addr |-> ViewAt(sets, mem, a)]

\* The answer as FlatMemory states it, without the cycles.
FlatReply ==
    IF reply.op \in {"read", "write"}
    THEN [op |-> reply.op, addr |-> reply.addr, word |-> reply.word]
    ELSE reply

FM == INSTANCE FlatMemory WITH contents <- View, reply <- FlatReply

\* The cache is transparent: loads and fetches answer with the last stored
\* word, and the memory a system call sees holds every store, whatever was
\* evicted, refilled or still dirty (cache_access, cache_flush, do_wb).
Transparent == FM!Spec

\* Types of the cache lines, the memory and the counters of cache_t.
TypeOK ==
    /\ sets \in [Index -> Seq(CacheLine)]
    /\ mem \in [Addr -> Word]
    /\ cache \in Counters

\* A set never holds more lines than ucache.h allows, although en_cache_set
\* itself has no limit: only add_into_cache_set keeps n at SET_NUM.
SetsBounded == \A i \in Index : Len(sets[i]) <= SET_NUM

\* No two lines of a set hold the same block: otherwise the lookup loop of
\* cache_access would hit twice and a write-back could undo a newer store.
UniqueLines ==
    \A i \in Index : \A j, k \in DOMAIN sets[i] :
        sets[i][j].tag = sets[i][k].tag => j = k

\* A line that is not dirty may be dropped without a write-back, so it must
\* agree with memory word for word.
CleanLinesMatch ==
    \A a \in Addr : \A k \in Hits(sets[ADDR_INDEX(a)], ADDR_TAG(a)) :
        LET line == sets[ADDR_INDEX(a)][k]
        IN  ~line.dirty => cache_word_read(line, ADDR_OFFSET(a)) = mem[a]

\* The report of cache_log adds up: each access is one hit or one miss, and
\* replacements and their write-backs happen on misses only.
CountersAgree ==
    /\ cache.access = cache.hit + cache.miss
    /\ cache.wb <= cache.replace
    /\ cache.replace <= cache.miss
=============================================================================
