---------------------------- MODULE PagedMemory -----------------------------
(***************************************************************************)
(* simplesim-3.0/memory.c: simulated memory as an inverted page table, a   *)
(* hash table of pages whose buckets move the page last used to the front. *)
(* Pages appear when they are first written.                               *)
(*                                                                         *)
(* The memory is the record mem; every function of memory.c is an operator *)
(* from memories to memories, and one action is one call.                  *)
(***************************************************************************)
EXTENDS Integers, Sequences, SequencesExt, FiniteSets

CONSTANTS
    MD_PAGE_SIZE,   \* bytes of a page
    MEM_PTAB_SIZE,  \* buckets
    NTags,          \* the addresses used have this many tags
    WordSize,       \* sizeof(word_t), a power of two
    Byte,           \* the values of a byte
    MaxRead,        \* longest run of bytes a call is asked to read
    MaxRun,         \* longest run of bytes a call is asked to write
    MaxAccesses     \* no further call once this many translations are counted

ASSUME PagedMemoryAssumption ==
    /\ MD_PAGE_SIZE \in Nat \ {0} /\ MEM_PTAB_SIZE \in Nat \ {0} /\ NTags \in Nat \ {0}
    /\ WordSize \in Nat \ {0} /\ MaxRead \in Nat /\ MaxRun \in Nat /\ 0 \in Byte
    /\ MaxRun <= MD_PAGE_SIZE * MEM_PTAB_SIZE * NTags

VARIABLES
    mem,            \* [ptab, page_count, ptab_misses, ptab_accesses]
    call,           \* the arguments of the call being served: [fn, addr, len, data]
    reply           \* the bytes the last call returned, or <<-1>> for a fault

memVars == <<mem, call, reply>>

Sets == 0..(MEM_PTAB_SIZE - 1)
AddrSpace == MD_PAGE_SIZE * MEM_PTAB_SIZE * NTags
Addr == 0..(AddrSpace - 1)

MEM_OFFSET(a) == a % MD_PAGE_SIZE
MEM_PTAB_SET(a) == (a \div MD_PAGE_SIZE) % MEM_PTAB_SIZE
MEM_PTAB_TAG(a) == a \div (MD_PAGE_SIZE * MEM_PTAB_SIZE)
Plus(a, n) == (a + n) % AddrSpace

NewPage == [o \in 0..(MD_PAGE_SIZE - 1) |-> 0]

mem_create ==
    [ptab |-> [k \in Sets |-> <<>>], page_count |-> 0, ptab_misses |-> 0, ptab_accesses |-> 0]
-----------------------------------------------------------------------------
Bucket(m, a) == m.ptab[MEM_PTAB_SET(a)]
\* The position of the page of a in its bucket, 0 if there is none.
Position(m, a) ==
    LET b == Bucket(m, a)
        hits == {i \in DOMAIN b : b[i].tag = MEM_PTAB_TAG(a)}
    IN  IF hits = {} THEN 0 ELSE CHOOSE i \in hits : \A j \in hits : i <= j

\* Mutant: the entry is linked in at the head and stays where it was.
CopyToFront(b, i) == <<b[i]>> \o b

\* Mutant: the entry at the head keeps its old successor.
LosesBucket(b, i) == <<b[i]>> \o SubSeq(b, i + 1, Len(b))

\* The entry found behind the head is unlinked and linked in at the head.
MoveToFront(b, i) == <<b[i]>> \o RemoveAt(b, i)

\* Mutant: the entry found stays where it is.
NotMoved(m, a) == [m EXCEPT !.ptab_misses = @ + 1, !.ptab_accesses = @ + 1]

\* The translation function, called when the head of the bucket is no match.
mem_translate(m, a) ==
    LET i == Position(m, a)
        counted == [m EXCEPT !.ptab_misses = @ + 1, !.ptab_accesses = @ + 1]
    IN  IF i > 1 THEN [counted EXCEPT !.ptab[MEM_PTAB_SET(a)] = MoveToFront(@, i)]
        ELSE counted

\* The macro that tries the head first.  Whether there is a page is told by
\* Position, which mem_translate does not change.
MEM_PAGE(m, a) ==
    IF Position(m, a) = 1 THEN [m EXCEPT !.ptab_accesses = @ + 1] ELSE mem_translate(m, a)

\* Mutant: the page is not counted.
Uncounted(m, a) ==
    [m EXCEPT !.ptab[MEM_PTAB_SET(a)] = <<[tag |-> MEM_PTAB_TAG(a), page |-> NewPage]>> \o @]

mem_newpage(m, a) ==
    [m EXCEPT !.ptab[MEM_PTAB_SET(a)] = <<[tag |-> MEM_PTAB_TAG(a), page |-> NewPage]>> \o @,
              !.page_count = @ + 1]

\* Reading translates twice when there is a page, and allocates none.
MEM_READ_BYTE(m, a) ==
    LET t == MEM_PAGE(m, a)
    IN  IF Position(m, a) = 0 THEN [m |-> t, val |-> 0]
        ELSE [m |-> MEM_PAGE(t, a), val |-> Bucket(t, a)[1].page[MEM_OFFSET(a)]]

MEM_TICKLE(m, a) ==
    LET t == MEM_PAGE(m, a) IN IF Position(m, a) = 0 THEN mem_newpage(t, a) ELSE t

\* Mutant: a write to a page that does not exist is dropped, as a read is.
WriteIfThere(m, a, v) ==
    LET t == MEM_PAGE(m, a)
    IN  IF Position(m, a) = 0 THEN t ELSE [t EXCEPT !.ptab[MEM_PTAB_SET(a)][1].page[MEM_OFFSET(a)] = v]

MEM_WRITE_BYTE(m, a, v) ==
    LET t == MEM_PAGE(MEM_TICKLE(m, a), a)
    IN  [t EXCEPT !.ptab[MEM_PTAB_SET(a)][1].page[MEM_OFFSET(a)] = v]
-----------------------------------------------------------------------------
\* The copy loops, byte by byte from address a on.
ReadRun(m, a, n) ==
    LET run[i \in 0..n] ==
          IF i = 0 THEN [m |-> m, vals |-> <<>>]
          ELSE LET r == MEM_READ_BYTE(run[i - 1].m, Plus(a, i - 1))
               IN  [m |-> r.m, vals |-> Append(run[i - 1].vals, r.val)]
    IN  run[n]
WriteRun(m, a, data) ==
    LET run[i \in 0..Len(data)] ==
          IF i = 0 THEN m ELSE MEM_WRITE_BYTE(run[i - 1], Plus(a, i - 1), data[i])
    IN  run[Len(data)]

\* The checks of mem_access: a power of two, no more than a page, aligned.
\* Zero passes for a power of two and then wants address zero.
PowersOfTwo == {2^i : i \in 0..MD_PAGE_SIZE}
Fault(a, n) ==
    \/ n # 0 /\ n \notin PowersOfTwo
    \/ n > MD_PAGE_SIZE
    \/ IF n = 0 THEN a # 0 ELSE a % n # 0

Returns(m, vals) == mem' = m /\ reply' = vals

mem_access_read(a, n) ==
    LET r == ReadRun(mem, a, n)
    IN  IF Fault(a, n) THEN Returns(mem, <<-1>>) ELSE Returns(r.m, r.vals)
mem_access_write(a, data) ==
    IF Fault(a, Len(data)) THEN Returns(mem, <<-1>>)
    ELSE Returns(WriteRun(mem, a, data), <<>>)

\* Bytes one at a time, which never fault; mem_bzero writes zeros.
mem_bcopy_read(a, n) == LET r == ReadRun(mem, a, n) IN Returns(r.m, r.vals)
mem_bcopy_write(a, data) == Returns(WriteRun(mem, a, data), <<>>)
mem_bzero(a, n) == mem_bcopy_write(a, [i \in 1..n |-> 0])

\* Whole words only; the first one faults when the address is not aligned.
WholeWords(n) == (n \div WordSize) * WordSize
WordsFault(a, n) == WholeWords(n) > 0 /\ Fault(a, WordSize)
mem_bcopy4_read(a, n) ==
    IF WordsFault(a, n) THEN Returns(mem, <<-1>>) ELSE mem_bcopy_read(a, WholeWords(n))
mem_bcopy4_write(a, data) ==
    IF WordsFault(a, Len(data)) THEN Returns(mem, <<-1>>)
    ELSE mem_bcopy_write(a, SubSeq(data, 1, WholeWords(Len(data))))

\* What is at an address, allocated or not.
At(m, a) ==
    IF Position(m, a) = 0 THEN 0 ELSE Bucket(m, a)[Position(m, a)].page[MEM_OFFSET(a)]

\* The string at a, its terminator included.
mem_strcpy_read(a) ==
    \E n \in 1..MaxRead :
        /\ \A i \in 1..n : (At(mem, Plus(a, i - 1)) = 0) = (i = n)
        /\ mem_bcopy_read(a, n)
mem_strcpy_write(a, str) == mem_bcopy_write(a, str)

\* x with the one bit of the word size cleared: x & ~sizeof(word_t).
ClearBit(x) == IF (x \div WordSize) % 2 = 1 THEN x - WordSize ELSE x

\* len counts words once it has been "rounded".  What is read is shown with
\* its address.
mem_dump(a, len) ==
    LET words == ClearBit(len + WordSize - 1)
        first == ClearBit(a)
        r == ReadRun(mem, first, words * WordSize)
    IN  IF words > 0 /\ Fault(first, WordSize) THEN Returns(mem, <<-1>>)
        ELSE Returns(r.m, [i \in 1..(words * WordSize) |-> <<Plus(first, i - 1), r.vals[i]>>])
-----------------------------------------------------------------------------
Idle == [fn |-> "none", addr |-> 0, len |-> 0, data |-> <<>>]

MemInit == mem = mem_create /\ call = Idle /\ reply = <<>>

Data == UNION {[1..n -> Byte] : n \in 0..MaxRun}
Strings == {str \in Data : str # <<>> /\ \A i \in DOMAIN str : (str[i] = 0) = (i = Len(str))}

\* A call is made.  The strings read end within MaxRead bytes.
Asks(fn, a, n, data) == call' = [fn |-> fn, addr |-> a, len |-> n, data |-> data]
Ask ==
    /\ call = Idle /\ reply = <<>> /\ mem.ptab_accesses < MaxAccesses
    /\ UNCHANGED <<mem, reply>>
    /\ \E a \in Addr :
        \/ \E fn \in {"access_read", "bcopy_read", "bcopy4_read"}, n \in 0..MaxRead : Asks(fn, a, n, <<>>)
        \/ \E n \in 0..MaxRun : Asks("bzero", a, n, <<>>)
        \/ \E fn \in {"access_write", "bcopy_write", "bcopy4_write"}, data \in Data : Asks(fn, a, Len(data), data)
        \/ \E str \in Strings : Asks("strcpy_write", a, Len(str), str)
        \/ (\E n \in 1..MaxRead : At(mem, Plus(a, n - 1)) = 0) /\ Asks("strcpy_read", a, 0, <<>>)
        \/ \E len \in 1..MaxRead : Asks("dump", a, len, <<>>)

\* It runs and returns.
Serve ==
    /\ call' = Idle
    /\ \/ call.fn = "access_read" /\ mem_access_read(call.addr, call.len)
       \/ call.fn = "access_write" /\ mem_access_write(call.addr, call.data)
       \/ call.fn = "bcopy_read" /\ mem_bcopy_read(call.addr, call.len)
       \/ call.fn = "bcopy_write" /\ mem_bcopy_write(call.addr, call.data)
       \/ call.fn = "bzero" /\ mem_bzero(call.addr, call.len)
       \/ call.fn = "bcopy4_read" /\ mem_bcopy4_read(call.addr, call.len)
       \/ call.fn = "bcopy4_write" /\ mem_bcopy4_write(call.addr, call.data)
       \/ call.fn = "strcpy_read" /\ mem_strcpy_read(call.addr)
       \/ call.fn = "strcpy_write" /\ mem_strcpy_write(call.addr, call.data)
       \/ call.fn = "dump" /\ mem_dump(call.addr, call.len)

\* The caller takes the reply.
TakeReply == reply # <<>> /\ reply' = <<>> /\ UNCHANGED <<mem, call>>

MemNext == Ask \/ Serve \/ TakeReply

MemSpec == MemInit /\ [][MemNext]_memVars
-----------------------------------------------------------------------------
\* The pages hold an array of bytes: whatever the order of the buckets and
\* whichever pages exist, a call that reads returns what was last written at
\* the addresses it asked for, a call that writes leaves its data at its own
\* addresses and every other byte as it was, and a call is refused, and then
\* changes nothing, exactly when its size or its address does not fit.
Bytes == [a \in Addr |-> At(mem, a)]
Flat == INSTANCE FlatBytes WITH bytes <- Bytes, PageSize <- MD_PAGE_SIZE
FlatView == Flat!Spec

\* A bucket never holds two entries for one page, the list surgery of
\* mem_translate included: a second one would shadow what was written.
UniquePages ==
    \A k \in Sets : \A i, j \in DOMAIN mem.ptab[k] :
        mem.ptab[k][i].tag = mem.ptab[k][j].tag => i = j

\* The pages of a table, by bucket and position.
Pages(table) == UNION {{k} \X DOMAIN table[k] : k \in DOMAIN table}

\* page_count is the number of pages there are, and first level misses are
\* among the accesses, so that the miss rate is one.
PageStats ==
    /\ mem.page_count = Cardinality(Pages(mem.ptab))
    /\ mem.ptab_misses <= mem.ptab_accesses

\* A bucket never holds two entries for one page, however often its chain is
\* reordered, and the page count and the misses of the page table are exact.
PageTableExact == UniquePages /\ PageStats
=============================================================================
