---------------------------- MODULE UCacheProofs ----------------------------
(***************************************************************************)
(* Proofs about the cache of module UCache, for every associativity,       *)
(* memory size and bound.                                                  *)
(***************************************************************************)
EXTENDS UCache, FiniteSetTheorems, TLAPS

\* The byte offset of an aligned address selects one of the four words.
LEMMA SlotOfAligned ==
  ASSUME NEW a \in Nat, a % 4 = 0
  PROVE  ADDR_OFFSET(a) \div 4 \in Slot
  BY DEF ADDR_OFFSET, Slot

\* Tag and index rebuild the aligned address, as cache_write_back does.
LEMMA Rebuild ==
  ASSUME NEW a \in Nat, a % 4 = 0
  PROVE  /\ ADDR_TAG(a) \in Nat
         /\ ADDR_INDEX(a) \in Index
         /\ a = ADDR_TAG(a) * 256 + ADDR_INDEX(a) * 16 + 4 * (ADDR_OFFSET(a) \div 4)
         /\ AlignAddr(a) = ADDR_TAG(a) * 256 + ADDR_INDEX(a) * 16
  BY DEF ADDR_TAG, ADDR_INDEX, ADDR_OFFSET, Index, Slot, AlignAddr

\* An address built from tag, index and slot decodes to the same three.
LEMMA Geometry ==
  ASSUME NEW t \in Nat, NEW i \in Index, NEW s \in Slot
  PROVE  /\ ADDR_TAG(t * 256 + i * 16 + 4 * s) = t
         /\ ADDR_INDEX(t * 256 + i * 16 + 4 * s) = i
         /\ ADDR_OFFSET(t * 256 + i * 16 + 4 * s) \div 4 = s
  <1> DEFINE a == t * 256 + i * 16 + 4 * s
  <1>1. a \div 256 = t
    BY DEF Index, Slot
  <1>2. a \div 16 = 16 * t + i
    BY DEF Index, Slot
  <1>3. (16 * t + i) % 16 = i
    BY DEF Index
  <1>4. a % 16 = 4 * s
    BY DEF Index, Slot
  <1>5. (4 * s) \div 4 = s
    BY DEF Slot
  <1> QED
    BY <1>1, <1>2, <1>3, <1>4, <1>5 DEF ADDR_TAG, ADDR_INDEX, ADDR_OFFSET
-----------------------------------------------------------------------------
\* Every line in a set is valid: nothing ever clears the bit.
AllValid == \A i \in Index : \A k \in DOMAIN sets[i] : sets[i][k].valid

\* The inductive invariant.  UniqueLines needs AllValid, because the lookup
\* loop skips invalid lines, and CountersAgree needs UniqueLines, because the
\* loop counts a hit for every match.
IndInv == TypeOK /\ SetsBounded /\ UniqueLines /\ AllValid /\ CountersAgree

\* The operation's word: only a store brings one.
Stores(op, w) == op = "write" => w \in Word

\* Applying a load or store to a line keeps its type, tag and validity.
LEMMA ApplyLine ==
  ASSUME NEW op, NEW w, Stores(op, w), NEW line \in CacheLine,
         NEW off, off \div 4 \in Slot
  PROVE  /\ Apply(op, line, w, off) \in CacheLine
         /\ Apply(op, line, w, off).tag = line.tag
         /\ Apply(op, line, w, off).valid = line.valid
  BY DEF Apply, cache_word_write, CacheLine, Stores

\* A line filled by a miss.
LEMMA MallocLine ==
  ASSUME NEW m \in [Addr -> Word], NEW a \in Addr
  PROVE  LET line == malloc_cache_line(m, AlignAddr(a))
         IN  /\ line \in CacheLine
             /\ line.tag = ADDR_TAG(a)
             /\ line.valid
             /\ ~line.dirty
             /\ \A i \in Slot : line.data[i] = m[AlignAddr(a) + 4 * i]
  <1>1. a \in Nat /\ a % 4 = 0
    BY AddrAssumption
  <1>2. ADDR_TAG(AlignAddr(a)) = ADDR_TAG(a)
    <2> DEFINE t == ADDR_TAG(a)
               i == ADDR_INDEX(a)
    <2>0. t \in Nat /\ i \in Index /\ AlignAddr(a) = t * 256 + i * 16
      BY <1>1, Rebuild
    <2>1. AlignAddr(a) = t * 256 + i * 16 + 4 * 0
      BY <2>0 DEF Index
    <2> QED
      BY <2>0, <2>1, Geometry DEF Slot
  <1>3. \A i \in Slot : m[AlignAddr(a) + 4 * i] \in Word
    BY AddrAssumption
  <1> QED
    BY <1>1, <1>2, <1>3, Rebuild DEF malloc_cache_line, CacheLine

\* A write-back keeps memory a function from addresses to words.
LEMMA WriteBackType ==
  ASSUME NEW m \in [Addr -> Word], NEW line \in CacheLine, NEW i \in Index
  PROVE  cache_write_back(m, line, i) \in [Addr -> Word]
  <1> SUFFICES ASSUME NEW a \in Addr, Covers(line, i, a)
               PROVE  line.data[(a - LineAddr(line, i)) \div 4] \in Word
    BY DEF cache_write_back
  <1>1. PICK s \in Slot : a = LineAddr(line, i) + 4 * s
    BY DEF Covers
  <1>2. LineAddr(line, i) \in Nat
    BY DEF LineAddr, CacheLine, Index
  <1>3. (a - LineAddr(line, i)) \div 4 = s
    BY <1>1, <1>2 DEF Slot
  <1> QED
    BY <1>3 DEF CacheLine

\* The counters after an access that hits one line.
LEMMA CountHit ==
  ASSUME NEW c \in Counters,
         NEW d, d = [c EXCEPT !.access = c.access + 1, !.hit = c.hit + 1]
  PROVE  /\ d \in Counters
         /\ d.access = c.access + 1 /\ d.hit = c.hit + 1 /\ d.miss = c.miss
         /\ d.replace = c.replace /\ d.wb = c.wb
  <1>1. d = [access |-> c.access + 1, hit |-> c.hit + 1, miss |-> c.miss,
             replace |-> c.replace, wb |-> c.wb]
    BY DEF Counters
  <1> QED
    BY <1>1 DEF Counters

\* With no block cached twice, a lookup hits at most once.
LEMMA OneHit ==
  ASSUME IndInv, NEW i \in Index, NEW t, NEW k \in Hits(sets[i], t)
  PROVE  Hits(sets[i], t) = {k} /\ Cardinality(Hits(sets[i], t)) = 1
  <1>1. Hits(sets[i], t) = {k}
    BY DEF IndInv, UniqueLines, Hits
  <1> QED
    BY <1>1, FS_Singleton
-----------------------------------------------------------------------------
\* The state after sim_init.
LEMMA InitInv == Init => IndInv
  BY MemAssumption, SizeAssumption
  DEF Init, IndInv, TypeOK, SetsBounded, UniqueLines, AllValid, CountersAgree, Counters, Index

\* A hit changes one word and the dirty bit of one line and counts one hit.
LEMMA HitStep ==
  ASSUME IndInv, NEW op, NEW a \in Addr, NEW w, Stores(op, w), AccessHit(op, a, w)
  PROVE  IndInv'
  <1> DEFINE index == ADDR_INDEX(a)
             set == sets[index]
             hits == Hits(set, ADDR_TAG(a))
             new == [k \in 1..Len(set) |->
                        IF k \in hits THEN Apply(op, set[k], w, ADDR_OFFSET(a)) ELSE set[k]]
  <1>1. a \in Nat /\ a % 4 = 0 /\ index \in Index /\ ADDR_OFFSET(a) \div 4 \in Slot
    BY AddrAssumption, Rebuild, SlotOfAligned
  <1>2. set \in Seq(CacheLine) /\ DOMAIN set = 1..Len(set) /\ Len(set) \in Nat
    BY <1>1 DEF IndInv, TypeOK
  <1>3. \A k \in 1..Len(set) : /\ new[k] \in CacheLine
                                /\ new[k].tag = set[k].tag
                                /\ new[k].valid = set[k].valid
    <2> SUFFICES ASSUME NEW k \in 1..Len(set)
                 PROVE  /\ new[k] \in CacheLine
                        /\ new[k].tag = set[k].tag
                        /\ new[k].valid = set[k].valid
      OBVIOUS
    <2>1. set[k] \in CacheLine
      BY <1>2
    <2> QED
      BY <1>1, <2>1, ApplyLine
  <1>4. new \in Seq(CacheLine) /\ Len(new) = Len(set) /\ DOMAIN new = 1..Len(set)
    <2> HIDE DEF new
    <2>1. DOMAIN new = 1..Len(set)
      BY DEF new
    <2>2. new \in [1..Len(set) -> CacheLine]
      BY <1>3, <2>1 DEF new
    <2> QED
      BY <1>2, <2>1, <2>2
  <1>5. /\ sets' = [sets EXCEPT ![index] = new]
        /\ cache' = [cache EXCEPT !.access = @ + 1, !.hit = @ + Cardinality(hits)]
        /\ mem' = mem
        /\ hits # {}
    BY DEF AccessHit
  <1> HIDE DEF new
  <1>6. /\ sets' \in [Index -> Seq(CacheLine)]
        /\ sets'[index] = new
        /\ \A i \in Index : i # index => sets'[i] = sets[i]
    BY <1>1, <1>4, <1>5 DEF IndInv, TypeOK
  <1>7. SetsBounded'
    BY <1>4, <1>6 DEF IndInv, SetsBounded
  <1>8. UniqueLines'
    BY <1>2, <1>3, <1>4, <1>6 DEF IndInv, UniqueLines
  <1>9. AllValid'
    BY <1>2, <1>3, <1>4, <1>6 DEF IndInv, AllValid
  <1>10. Cardinality(hits) = 1
    BY <1>1, <1>5, OneHit
  <1>11. cache' \in Counters /\ CountersAgree'
    <2>1. cache \in Counters /\ CountersAgree
      BY DEF IndInv, TypeOK
    <2>2. cache' = [cache EXCEPT !.access = cache.access + 1, !.hit = cache.hit + 1]
      BY <1>5, <1>10
    <2>3. /\ cache' \in Counters
          /\ cache'.access = cache.access + 1 /\ cache'.hit = cache.hit + 1
          /\ cache'.miss = cache.miss /\ cache'.replace = cache.replace
          /\ cache'.wb = cache.wb
      BY <2>1, <2>2, CountHit
    <2> QED
      BY <2>1, <2>3 DEF CountersAgree, Counters
  <1> QED
    BY <1>5, <1>6, <1>7, <1>8, <1>9, <1>11 DEF IndInv, TypeOK

\* A miss appends one line of a block that was not cached, after dropping the
\* head of a full set.
LEMMA MissStep ==
  ASSUME IndInv, NEW op, NEW a \in Addr, NEW w, Stores(op, w), AccessMiss(op, a, w)
  PROVE  IndInv'
  <1> DEFINE index == ADDR_INDEX(a)
             set == sets[index]
             line == malloc_cache_line(mem, AlignAddr(a))
             added == Apply(op, line, w, ADDR_OFFSET(a))
             kept == IF Evicts(set) THEN de_cache_set(set) ELSE set
             new == Append(kept, added)
  <1>1. a \in Nat /\ a % 4 = 0 /\ index \in Index /\ ADDR_OFFSET(a) \div 4 \in Slot
    BY AddrAssumption, Rebuild, SlotOfAligned
  <1>2. set \in Seq(CacheLine) /\ Len(set) \in Nat /\ Len(set) <= SET_NUM
    BY <1>1 DEF IndInv, TypeOK, SetsBounded
  <1>3. added \in CacheLine /\ added.tag = ADDR_TAG(a) /\ added.valid
    <2>1. mem \in [Addr -> Word]
      BY DEF IndInv, TypeOK
    <2>2. line \in CacheLine /\ line.tag = ADDR_TAG(a) /\ line.valid
      BY <2>1, MallocLine
    <2> QED
      BY <1>1, <2>2, ApplyLine
  <1>4. /\ sets' = [sets EXCEPT ![index] = new]
        /\ cache' = [cache EXCEPT !.access = @ + 1, !.miss = @ + 1,
                                  !.replace = IF Evicts(set) THEN @ + 1 ELSE @,
                                  !.wb = IF WritesBack(set) THEN @ + 1 ELSE @]
        /\ mem' = IF WritesBack(set) THEN cache_write_back(mem, Head(set), index) ELSE mem
        /\ Hits(set, ADDR_TAG(a)) = {}
    BY DEF AccessMiss, add_into_cache_set, en_cache_set
  <1>5. \A k \in DOMAIN set : set[k].tag # ADDR_TAG(a)
    BY <1>1, <1>4 DEF Hits, IndInv, AllValid
  <1> HIDE DEF added
  <1>6. \E d \in {0, 1} :
           /\ kept \in Seq(CacheLine)
           /\ Len(kept) = Len(set) - d
           /\ \A k \in 1..Len(kept) : k + d \in 1..Len(set) /\ kept[k] = set[k + d]
           /\ Len(kept) < SET_NUM
    <2>1. CASE Evicts(set)
      <3>1. Len(set) >= 1 /\ kept = Tail(set)
        BY <1>2, <2>1, SizeAssumption DEF Evicts, de_cache_set
      <3> HIDE DEF kept, set
      <3>2. /\ kept \in Seq(CacheLine) /\ Len(kept) = Len(set) - 1
            /\ \A k \in 1..Len(kept) : k + 1 \in 1..Len(set) /\ kept[k] = set[k + 1]
        BY <1>2, <3>1
      <3> QED
        BY <1>2, <3>2, SizeAssumption
    <2>2. CASE ~Evicts(set)
      <3>1. kept = set /\ Len(set) < SET_NUM
        BY <1>2, <2>2, SizeAssumption DEF Evicts
      <3> HIDE DEF kept, set
      <3>2. \A k \in 1..Len(kept) : k + 0 \in 1..Len(set) /\ kept[k] = set[k + 0]
        BY <1>2, <3>1
      <3> QED
        BY <1>2, <3>1, <3>2
    <2> QED
      BY <2>1, <2>2
  <1> HIDE DEF kept
  <1>7. PICK d \in {0, 1} :
           /\ kept \in Seq(CacheLine)
           /\ Len(kept) = Len(set) - d
           /\ \A k \in 1..Len(kept) : k + d \in 1..Len(set) /\ kept[k] = set[k + d]
           /\ Len(kept) < SET_NUM
    BY <1>6
  <1>8. /\ new \in Seq(CacheLine) /\ Len(new) = Len(kept) + 1 /\ Len(new) <= SET_NUM
        /\ DOMAIN new = 1..(Len(kept) + 1)
        /\ \A k \in 1..Len(kept) : new[k] = kept[k]
        /\ new[Len(kept) + 1] = added
    BY <1>3, <1>7, SizeAssumption
  <1> HIDE DEF new
  <1>9. /\ sets' \in [Index -> Seq(CacheLine)]
        /\ sets'[index] = new
        /\ \A i \in Index : i # index => sets'[i] = sets[i]
    BY <1>1, <1>4, <1>8 DEF IndInv, TypeOK
  <1>10. SetsBounded'
    BY <1>8, <1>9 DEF IndInv, SetsBounded
  <1>11. \A j, k \in DOMAIN new : new[j].tag = new[k].tag => j = k
    <2> SUFFICES ASSUME NEW j \in DOMAIN new, NEW k \in DOMAIN new, new[j].tag = new[k].tag
                 PROVE  j = k
      OBVIOUS
    <2>1. DOMAIN set = 1..Len(set)
      BY <1>2
    <2>2. \A m \in 1..Len(kept) : new[m] = set[m + d] /\ m + d \in DOMAIN set
      BY <1>7, <1>8, <2>1
    <2>3. \A m, n \in DOMAIN set : set[m].tag = set[n].tag => m = n
      BY <1>1 DEF IndInv, UniqueLines
    <2>4. \A m \in 1..Len(kept) : new[m].tag # ADDR_TAG(a)
      BY <1>5, <2>2
    <2>5. new[Len(kept) + 1].tag = ADDR_TAG(a)
      BY <1>3, <1>8
    <2>6. Len(kept) \in Nat /\ \A m \in DOMAIN new : m \in 1..Len(kept) \/ m = Len(kept) + 1
      <3>1. Len(kept) \in Nat
        BY <1>7
      <3>2. DOMAIN new = 1..(Len(kept) + 1)
        BY <1>8
      <3> QED
        BY <3>1, <3>2
    <2>7. CASE j \in 1..Len(kept) /\ k \in 1..Len(kept)
      <3>1. set[j + d].tag = set[k + d].tag
        BY <2>2, <2>7
      <3>2. j + d = k + d
        BY <2>2, <2>3, <2>7, <3>1
      <3> QED
        BY <2>6, <2>7, <3>2
    <2> QED
      BY <2>4, <2>5, <2>6, <2>7
  <1>12. UniqueLines'
    BY <1>9, <1>11 DEF IndInv, UniqueLines
  <1>13. AllValid'
    <2>1. \A k \in DOMAIN new : new[k].valid
      <3>1. DOMAIN set = 1..Len(set)
        BY <1>2
      <3>2. ASSUME NEW k \in 1..Len(kept) PROVE new[k].valid
        <4>1. new[k] = set[k + d] /\ k + d \in DOMAIN set
          BY <1>7, <1>8, <3>1
        <4>2. \A m \in DOMAIN set : set[m].valid
          BY <1>1 DEF IndInv, AllValid
        <4> QED
          BY <4>1, <4>2
      <3>3. \A k \in DOMAIN new : k \in 1..Len(kept) \/ k = Len(kept) + 1
        BY <1>7, <1>8
      <3> QED
        BY <1>3, <1>8, <3>2, <3>3
    <2> QED
      BY <1>9, <2>1 DEF IndInv, AllValid
  <1>14. mem' \in [Addr -> Word]
    <2>1. CASE WritesBack(set)
      <3>1. Head(set) \in CacheLine
        BY <1>2, <2>1, SizeAssumption DEF WritesBack, Evicts
      <3> QED
        BY <1>1, <1>4, <2>1, <3>1, WriteBackType DEF IndInv, TypeOK
    <2>2. CASE ~WritesBack(set)
      BY <1>4, <2>2 DEF IndInv, TypeOK
    <2> QED
      BY <2>1, <2>2
  <1>15. cache' \in Counters /\ CountersAgree'
    <2>1. WritesBack(set) => Evicts(set)
      BY DEF WritesBack
    <2>2. cache \in Counters /\ CountersAgree
      BY DEF IndInv, TypeOK
    <2>3. PICK r \in {0, 1}, b \in {0, 1} :
            /\ b <= r
            /\ cache' = [cache EXCEPT !.access = cache.access + 1, !.miss = cache.miss + 1,
                                      !.replace = cache.replace + r, !.wb = cache.wb + b]
      <3>1. cache.replace + 0 = cache.replace /\ cache.wb + 0 = cache.wb
        BY <2>2 DEF Counters
      <3> DEFINE r == IF Evicts(set) THEN 1 ELSE 0
                 b == IF WritesBack(set) THEN 1 ELSE 0
      <3>2. b <= r /\ r \in {0, 1} /\ b \in {0, 1}
        BY <2>1
      <3>3. /\ (IF Evicts(set) THEN cache.replace + 1 ELSE cache.replace) = cache.replace + r
            /\ (IF WritesBack(set) THEN cache.wb + 1 ELSE cache.wb) = cache.wb + b
        BY <3>1
      <3> QED
        BY <1>4, <3>2, <3>3
    <2>4. r \in Nat /\ b \in Nat
      OBVIOUS
    <2>5. cache' = [cache EXCEPT !.access = cache.access + 1, !.miss = cache.miss + 1,
                                !.replace = cache.replace + r, !.wb = cache.wb + b]
      BY <2>3
    <2>6. cache' = [access |-> cache.access + 1, hit |-> cache.hit, miss |-> cache.miss + 1,
                    replace |-> cache.replace + r, wb |-> cache.wb + b]
      BY <2>2, <2>5 DEF Counters
    <2>7. /\ cache' \in Counters
          /\ cache'.access = cache.access + 1 /\ cache'.hit = cache.hit
          /\ cache'.miss = cache.miss + 1 /\ cache'.replace = cache.replace + r
          /\ cache'.wb = cache.wb + b
      BY <2>2, <2>4, <2>6 DEF Counters
    <2> QED
      BY <2>2, <2>3, <2>7 DEF CountersAgree, Counters
  <1> QED
    BY <1>9, <1>10, <1>12, <1>13, <1>14, <1>15 DEF IndInv, TypeOK

\* A flush with the system call behind it only cleans lines and rewrites words.
LEMMA SyscallStep ==
  ASSUME IndInv, NEW ws \in SyscallWrites, Syscall(ws)
  PROVE  IndInv'
  <1>1. \A i \in Index : sets[i] \in Seq(CacheLine) /\ DOMAIN sets[i] = 1..Len(sets[i])
    BY DEF IndInv, TypeOK
  <1>2. \A i \in Index : /\ sets'[i] \in Seq(CacheLine)
                          /\ Len(sets'[i]) = Len(sets[i])
                          /\ DOMAIN sets'[i] = DOMAIN sets[i]
                          /\ \A k \in DOMAIN sets[i] :
                               /\ sets'[i][k] = [sets[i][k] EXCEPT !.dirty = FALSE]
                               /\ sets'[i][k].tag = sets[i][k].tag
                               /\ sets'[i][k].valid = sets[i][k].valid
    <2> SUFFICES ASSUME NEW i \in Index
                 PROVE  /\ sets'[i] \in Seq(CacheLine)
                        /\ Len(sets'[i]) = Len(sets[i])
                        /\ DOMAIN sets'[i] = DOMAIN sets[i]
                        /\ \A k \in DOMAIN sets[i] :
                             /\ sets'[i][k] = [sets[i][k] EXCEPT !.dirty = FALSE]
                             /\ sets'[i][k].tag = sets[i][k].tag
                             /\ sets'[i][k].valid = sets[i][k].valid
      OBVIOUS
    <2>1. sets'[i] = [k \in 1..Len(sets[i]) |-> [sets[i][k] EXCEPT !.dirty = FALSE]]
      BY DEF Syscall, FlushedSets
    <2>2. \A k \in 1..Len(sets[i]) : sets[i][k] \in CacheLine
      BY <1>1
    <2>3. \A k \in 1..Len(sets[i]) :
             LET new == [sets[i][k] EXCEPT !.dirty = FALSE]
             IN  /\ new \in CacheLine /\ new.tag = sets[i][k].tag
                 /\ new.valid = sets[i][k].valid
      BY <2>2 DEF CacheLine
    <2>4. sets'[i] \in [1..Len(sets[i]) -> CacheLine]
      BY <2>1, <2>3
    <2>5. Len(sets[i]) \in Nat
      BY <1>1
    <2>6. sets'[i] \in Seq(CacheLine) /\ Len(sets'[i]) = Len(sets[i])
      BY <2>4, <2>5
    <2> QED
      BY <1>1, <2>1, <2>3, <2>6
  <1>3. sets' \in [Index -> Seq(CacheLine)]
    <2>1. DOMAIN sets' = Index /\ sets' = [i \in Index |-> sets'[i]]
      BY DEF Syscall, FlushedSets
    <2> QED
      BY <1>2, <2>1
  <1>4. SetsBounded'
    BY <1>2 DEF IndInv, SetsBounded
  <1>5. UniqueLines'
    <2> SUFFICES ASSUME NEW i \in Index, NEW j \in DOMAIN sets'[i], NEW k \in DOMAIN sets'[i],
                        sets'[i][j].tag = sets'[i][k].tag
                 PROVE  j = k
      BY DEF UniqueLines
    <2>1. j \in DOMAIN sets[i] /\ k \in DOMAIN sets[i] /\ sets[i][j].tag = sets[i][k].tag
      BY <1>2
    <2> QED
      BY <2>1 DEF IndInv, UniqueLines
  <1>6. AllValid'
    <2> SUFFICES ASSUME NEW i \in Index, NEW k \in DOMAIN sets'[i]
                 PROVE  sets'[i][k].valid
      BY DEF AllValid
    <2>1. k \in DOMAIN sets[i] /\ sets'[i][k].valid = sets[i][k].valid
      BY <1>2
    <2> QED
      BY <2>1 DEF IndInv, AllValid
  <1>7. \A a \in Addr : FlushedMem[a] \in Word
    <2> SUFFICES ASSUME NEW a \in Addr
                 PROVE  FlushedMem[a] \in Word
      OBVIOUS
    <2> DEFINE over == {p \in DirtyLines : Covers(sets[p[1]][p[2]], p[1], a)}
               p == CHOOSE q \in over : TRUE
               line == sets[p[1]][p[2]]
    <2>1. mem \in [Addr -> Word]
      BY DEF IndInv, TypeOK
    <2>2. FlushedMem[a] = IF over = {} THEN mem[a]
                          ELSE line.data[(a - LineAddr(line, p[1])) \div 4]
      BY <2>1 DEF FlushedMem, FlushedAt
    <2>3. CASE over # {}
      <3>1. p \in over
        BY <2>3
      <3> HIDE DEF p
      <3>2. p[1] \in Index /\ p[2] \in DOMAIN sets[p[1]]
        <4>1. PICK i \in Index : p \in {i} \X DOMAIN sets[i]
          BY <3>1 DEF DirtyLines
        <4> QED
          BY <4>1
      <3>3. line \in CacheLine /\ Covers(line, p[1], a)
        BY <1>1, <3>1, <3>2
      <3> HIDE DEF line
      <3>4. cache_write_back(mem, line, p[1]) \in [Addr -> Word]
        BY <2>1, <3>2, <3>3, WriteBackType
      <3>5. cache_write_back(mem, line, p[1])[a]
              = line.data[(a - LineAddr(line, p[1])) \div 4]
        BY <2>1, <3>3 DEF cache_write_back
      <3> QED
        BY <2>2, <2>3, <3>4, <3>5
    <2> QED
      BY <2>1, <2>2, <2>3
  <1>8. mem' \in [Addr -> Word]
    BY <1>7, MemAssumption DEF Syscall
  <1> QED
    BY <1>3, <1>4, <1>5, <1>6, <1>8 DEF Syscall, IndInv, TypeOK, CountersAgree

\* Every step of the cache preserves the inductive invariant.
LEMMA NextInv == IndInv /\ [Next]_vars => IndInv'
  <1> SUFFICES ASSUME IndInv, [Next]_vars
               PROVE  IndInv'
    OBVIOUS
  <1>1. CASE \E a \in Port : cache_read(a)
    <2>1. PICK a \in Port : cache_read(a)
      BY <1>1
    <2>2. a \in Addr /\ Stores("read", "dst")
      BY AddrAssumption DEF Stores
    <2> QED
      BY <2>1, <2>2, HitStep, MissStep DEF cache_read, cache_access
  <1>2. CASE \E a \in Port, w \in Word : cache_write(a, w)
    <2>1. PICK a \in Port, w \in Word : cache_write(a, w)
      BY <1>2
    <2>2. a \in Addr /\ Stores("write", w)
      BY AddrAssumption DEF Stores
    <2> QED
      BY <2>1, <2>2, HitStep, MissStep DEF cache_write, cache_access
  <1>3. CASE \E ws \in SyscallWrites : Syscall(ws)
    BY <1>3, SyscallStep
  <1>4. CASE UNCHANGED vars
    BY <1>4 DEF vars, IndInv, TypeOK, SetsBounded, UniqueLines, AllValid, CountersAgree
  <1> QED
    BY <1>1, <1>2, <1>3, <1>4 DEF Next

\* The inductive invariant holds in every behaviour of the cache.
THEOREM InductiveInvariant == Spec => []IndInv
  BY InitInv, NextInv, PTL DEF Spec

\* The lines, the memory and the counters keep their types.
THEOREM TypeCorrect == Spec => []TypeOK
  <1>1. IndInv => TypeOK
    BY DEF IndInv
  <1> QED
    BY <1>1, InductiveInvariant, PTL

\* No set outgrows SET_NUM, for any associativity: eviction in
\* add_into_cache_set keeps pace with allocation.
THEOREM Bounded == Spec => []SetsBounded
  <1>1. IndInv => SetsBounded
    BY DEF IndInv
  <1> QED
    BY <1>1, InductiveInvariant, PTL

\* No block is ever cached twice, so the lookup loop of cache_access, which
\* does not stop at a match, acts on at most one line.
THEOREM Unique == Spec => []UniqueLines
  <1>1. IndInv => UniqueLines
    BY DEF IndInv
  <1> QED
    BY <1>1, InductiveInvariant, PTL

\* The counters that cache_log prints are consistent.
THEOREM Counted == Spec => []CountersAgree
  <1>1. IndInv => CountersAgree
    BY DEF IndInv
  <1> QED
    BY <1>1, InductiveInvariant, PTL
-----------------------------------------------------------------------------
(* The cache implements FlatMemory, for every associativity, memory and    *)
(* program, when system calls only read memory.  The argument is word by   *)
(* word: for each address the view before and after a step is compared,    *)
(* by the cases of whether its block is hit, filled, evicted or untouched. *)

\* System calls that store nothing (exit, write).
ReadOnlyCalls == \A ws \in SyscallWrites : DOMAIN ws = {}

\* The invariant behind transparency: a line may be dropped when it is clean.
CohInv == IndInv /\ CleanLinesMatch
-----------------------------------------------------------------------------
\* A line covers the addresses with its tag and index, slot by slot.
LEMMA CoversDecode ==
  ASSUME NEW line \in CacheLine, NEW i \in Index, NEW a \in Addr
  PROVE  /\ Covers(line, i, a) <=> ADDR_INDEX(a) = i /\ ADDR_TAG(a) = line.tag
         /\ Covers(line, i, a) => (a - LineAddr(line, i)) \div 4 = ADDR_OFFSET(a) \div 4
  <1>1. a \in Nat /\ a % 4 = 0 /\ line.tag \in Nat
    BY AddrAssumption DEF CacheLine
  <1>2. ASSUME Covers(line, i, a)
        PROVE  /\ ADDR_INDEX(a) = i /\ ADDR_TAG(a) = line.tag
               /\ (a - LineAddr(line, i)) \div 4 = ADDR_OFFSET(a) \div 4
    <2>1. PICK s \in Slot : a = LineAddr(line, i) + 4 * s
      BY <1>2 DEF Covers
    <2>2. a = line.tag * 256 + i * 16 + 4 * s
      BY <2>1 DEF LineAddr
    <2>3. ADDR_INDEX(a) = i /\ ADDR_TAG(a) = line.tag /\ ADDR_OFFSET(a) \div 4 = s
      BY <1>1, <2>2, Geometry
    <2>4. LineAddr(line, i) \in Nat
      BY <1>1 DEF LineAddr, Index
    <2>5. (a - LineAddr(line, i)) \div 4 = s
      BY <2>1, <2>4 DEF Slot
    <2> QED
      BY <2>3, <2>5
  <1>3. ASSUME ADDR_INDEX(a) = i, ADDR_TAG(a) = line.tag
        PROVE  Covers(line, i, a)
    <2>1. a = LineAddr(line, i) + 4 * (ADDR_OFFSET(a) \div 4)
      BY <1>1, <1>3, Rebuild DEF LineAddr
    <2>2. ADDR_OFFSET(a) \div 4 \in Slot
      BY <1>1, SlotOfAligned
    <2> QED
      BY <2>1, <2>2 DEF Covers
  <1> QED
    BY <1>2, <1>3

\* What a write-back leaves at an address.
LEMMA WriteBackAt ==
  ASSUME NEW m \in [Addr -> Word], NEW line \in CacheLine, NEW i \in Index, NEW a \in Addr
  PROVE  cache_write_back(m, line, i)[a] =
           IF ADDR_INDEX(a) = i /\ ADDR_TAG(a) = line.tag
           THEN cache_word_read(line, ADDR_OFFSET(a)) ELSE m[a]
  <1>1. cache_write_back(m, line, i)[a] =
          IF Covers(line, i, a) THEN line.data[(a - LineAddr(line, i)) \div 4] ELSE m[a]
    BY DEF cache_write_back
  <1> QED
    BY <1>1, CoversDecode DEF cache_word_read

\* Tag, index and slot identify a word.
LEMMA SameWord ==
  ASSUME NEW a \in Addr, NEW b \in Addr, ADDR_TAG(a) = ADDR_TAG(b),
         ADDR_INDEX(a) = ADDR_INDEX(b), ADDR_OFFSET(a) \div 4 = ADDR_OFFSET(b) \div 4
  PROVE  a = b
  BY AddrAssumption, Rebuild

\* What a word of a line is after a load or a store.
LEMMA ApplyRead ==
  ASSUME NEW op \in {"read", "write"}, NEW w, NEW line \in CacheLine,
         NEW a \in Addr, NEW b \in Addr
  PROVE  LET new == Apply(op, line, w, ADDR_OFFSET(a))
         IN  /\ cache_word_read(new, ADDR_OFFSET(b)) =
                  IF op = "write" /\ ADDR_OFFSET(a) \div 4 = ADDR_OFFSET(b) \div 4
                  THEN w ELSE cache_word_read(line, ADDR_OFFSET(b))
             /\ op = "write" => new.dirty
             /\ op = "read" => new = line
  <1>1. ADDR_OFFSET(a) \div 4 \in Slot /\ ADDR_OFFSET(b) \div 4 \in Slot
    BY AddrAssumption, SlotOfAligned
  <1> QED
    BY <1>1 DEF Apply, cache_word_write, cache_word_read, CacheLine

\* A filled line holds the words of memory.
LEMMA MallocRead ==
  ASSUME NEW m \in [Addr -> Word], NEW a \in Addr, NEW b \in Addr,
         ADDR_TAG(a) = ADDR_TAG(b), ADDR_INDEX(a) = ADDR_INDEX(b)
  PROVE  cache_word_read(malloc_cache_line(m, AlignAddr(a)), ADDR_OFFSET(b)) = m[b]
  <1>1. b \in Nat /\ b % 4 = 0 /\ a \in Nat /\ a % 4 = 0
    BY AddrAssumption
  <1>2. ADDR_OFFSET(b) \div 4 \in Slot
    BY <1>1, SlotOfAligned
  <1>3. b = AlignAddr(a) + 4 * (ADDR_OFFSET(b) \div 4)
    BY <1>1, Rebuild
  <1> QED
    BY <1>2, <1>3, MallocLine DEF cache_word_read

\* The view of an address whose block is in one line, or in none.
LEMMA ViewHit ==
  ASSUME NEW ss, NEW m, NEW b, NEW k, Hits(ss[ADDR_INDEX(b)], ADDR_TAG(b)) = {k}
  PROVE  ViewAt(ss, m, b) = cache_word_read(ss[ADDR_INDEX(b)][k], ADDR_OFFSET(b))
  <1>1. (CHOOSE j \in {k} : TRUE) = k
    OBVIOUS
  <1> QED
    BY <1>1 DEF ViewAt

\* The view of an address that is not cached is memory.
LEMMA ViewMiss ==
  ASSUME NEW ss, NEW m, NEW b, Hits(ss[ADDR_INDEX(b)], ADDR_TAG(b)) = {}
  PROVE  ViewAt(ss, m, b) = m[b]
  BY DEF ViewAt
-----------------------------------------------------------------------------
\* What an operation does to the view: a store changes its word, a load nothing.
Updated(op, a, w, b) == IF op = "write" /\ b = a THEN w ELSE ViewAt(sets, mem, b)

\* A hit.
LEMMA HitView ==
  ASSUME CohInv, NEW op \in {"read", "write"}, NEW a \in Addr, NEW w, Stores(op, w),
         AccessHit(op, a, w)
  PROVE  /\ \A b \in Addr : ViewAt(sets', mem', b) = Updated(op, a, w, b)
         /\ CleanLinesMatch'
         /\ \E line, n : /\ reply' = Answer(op, a, w, line, n)
                         /\ cache_word_read(line, ADDR_OFFSET(a)) = ViewAt(sets, mem, a)
  <1> DEFINE index == ADDR_INDEX(a)
             set == sets[index]
             hits == Hits(set, ADDR_TAG(a))
             last == CHOOSE k \in hits : \A j \in hits : j <= k
             new == [k \in 1..Len(set) |->
                        IF k \in hits THEN Apply(op, set[k], w, ADDR_OFFSET(a)) ELSE set[k]]
  <1>1. a \in Nat /\ a % 4 = 0 /\ index \in Index /\ ADDR_OFFSET(a) \div 4 \in Slot
    BY AddrAssumption, Rebuild, SlotOfAligned
  <1>2. set \in Seq(CacheLine) /\ DOMAIN set = 1..Len(set) /\ sets \in [Index -> Seq(CacheLine)]
    BY <1>1 DEF CohInv, IndInv, TypeOK
  <1>3. /\ sets' = [sets EXCEPT ![index] = new]
        /\ mem' = mem
        /\ hits # {}
        /\ reply' = Answer(op, a, w, set[last], 1)
    BY DEF AccessHit
  <1>4. PICK k \in DOMAIN set : hits = {k}
    <2>1. PICK k \in hits : TRUE
      BY <1>3
    <2>2. hits = {k}
      BY <1>1, <2>1, OneHit DEF CohInv
    <2> QED
      BY <2>1, <2>2 DEF Hits
  <1>5. last = k
    BY <1>2, <1>4
  <1>6. set[k] \in CacheLine /\ set[k].tag = ADDR_TAG(a)
    BY <1>2, <1>4 DEF Hits
  <1>7. /\ DOMAIN new = DOMAIN set
        /\ new[k] = Apply(op, set[k], w, ADDR_OFFSET(a))
        /\ \A j \in DOMAIN set : j # k => new[j] = set[j]
    BY <1>2, <1>4
  <1>8. \A j \in DOMAIN set : new[j].tag = set[j].tag /\ new[j].valid = set[j].valid
    <2>1. new[k].tag = set[k].tag /\ new[k].valid = set[k].valid
      BY <1>1, <1>6, <1>7, ApplyLine
    <2> QED
      BY <1>7, <2>1
  <1> HIDE DEF new, last
  <1>9. sets'[index] = new /\ \A i \in Index : i # index => sets'[i] = sets[i]
    BY <1>1, <1>2, <1>3
  <1>10. \A t : Hits(new, t) = Hits(set, t)
    BY <1>7, <1>8 DEF Hits
  <1>11. ASSUME NEW b \in Addr
         PROVE  /\ Hits(sets'[ADDR_INDEX(b)], ADDR_TAG(b)) = Hits(sets[ADDR_INDEX(b)], ADDR_TAG(b))
                /\ \A j \in Hits(sets[ADDR_INDEX(b)], ADDR_TAG(b)) :
                     \/ /\ sets'[ADDR_INDEX(b)][j] = sets[ADDR_INDEX(b)][j]
                        /\ ~(ADDR_INDEX(b) = index /\ ADDR_TAG(b) = ADDR_TAG(a))
                     \/ /\ ADDR_INDEX(b) = index /\ ADDR_TAG(b) = ADDR_TAG(a) /\ j = k
                        /\ sets'[ADDR_INDEX(b)][j] = Apply(op, set[k], w, ADDR_OFFSET(a))
    <2>1. ADDR_INDEX(b) \in Index
      BY AddrAssumption, Rebuild
    <2>2. CASE ADDR_INDEX(b) # index
      BY <1>9, <2>1, <2>2
    <2>3. CASE ADDR_INDEX(b) = index
      <3>1. Hits(sets'[ADDR_INDEX(b)], ADDR_TAG(b)) = Hits(sets[ADDR_INDEX(b)], ADDR_TAG(b))
        BY <1>9, <1>10, <2>3
      <3>2. \A j \in Hits(set, ADDR_TAG(b)) : j \in DOMAIN set /\ set[j].tag = ADDR_TAG(b)
        BY DEF Hits
      <3>3. CASE ADDR_TAG(b) = ADDR_TAG(a)
        BY <1>4, <1>7, <1>9, <2>3, <3>1, <3>3
      <3>4. CASE ADDR_TAG(b) # ADDR_TAG(a)
        BY <1>6, <1>7, <1>9, <2>3, <3>1, <3>2, <3>4
      <3> QED
        BY <3>3, <3>4
    <2> QED
      BY <2>2, <2>3
  <1>12. ASSUME NEW b \in Addr
         PROVE  ViewAt(sets', mem', b) = Updated(op, a, w, b)
    <2>1. ADDR_INDEX(b) \in Index
      BY AddrAssumption, Rebuild
    <2>2. CASE Hits(sets[ADDR_INDEX(b)], ADDR_TAG(b)) = {}
      <3>1. b # a
        BY <1>4, <2>2
      <3>2. Hits(sets'[ADDR_INDEX(b)], ADDR_TAG(b)) = {}
        BY <1>11, <2>2
      <3>3. ViewAt(sets, mem, b) = mem[b]
        BY <2>2, ViewMiss
      <3>4. ViewAt(sets', mem', b) = mem'[b]
        BY <3>2, ViewMiss
      <3> QED
        BY <1>3, <3>1, <3>3, <3>4 DEF Updated
    <2>3. CASE Hits(sets[ADDR_INDEX(b)], ADDR_TAG(b)) # {}
      <3>1. PICK j \in Hits(sets[ADDR_INDEX(b)], ADDR_TAG(b)) : TRUE
        BY <2>3
      <3>2. Hits(sets[ADDR_INDEX(b)], ADDR_TAG(b)) = {j}
        BY <2>1, <3>1, OneHit DEF CohInv
      <3>3. /\ ViewAt(sets, mem, b) = cache_word_read(sets[ADDR_INDEX(b)][j], ADDR_OFFSET(b))
            /\ ViewAt(sets', mem', b) = cache_word_read(sets'[ADDR_INDEX(b)][j], ADDR_OFFSET(b))
        BY <1>11, <3>2, ViewHit
      <3>4. CASE ~(ADDR_INDEX(b) = index /\ ADDR_TAG(b) = ADDR_TAG(a))
        BY <1>11, <3>1, <3>3, <3>4 DEF Updated
      <3>5. CASE ADDR_INDEX(b) = index /\ ADDR_TAG(b) = ADDR_TAG(a)
        <4>1. j = k /\ sets'[ADDR_INDEX(b)][j] = Apply(op, set[k], w, ADDR_OFFSET(a))
          BY <1>11, <3>1, <3>5
        <4>2. cache_word_read(Apply(op, set[k], w, ADDR_OFFSET(a)), ADDR_OFFSET(b)) =
                IF op = "write" /\ ADDR_OFFSET(a) \div 4 = ADDR_OFFSET(b) \div 4
                THEN w ELSE cache_word_read(set[k], ADDR_OFFSET(b))
          BY <1>6, ApplyRead
        <4>3. ADDR_OFFSET(a) \div 4 = ADDR_OFFSET(b) \div 4 <=> a = b
          BY <3>5, SameWord
        <4> QED
          BY <3>3, <3>5, <4>1, <4>2, <4>3 DEF Updated
      <3> QED
        BY <3>4, <3>5
    <2> QED
      BY <2>2, <2>3
  <1>13. CleanLinesMatch'
    <2> SUFFICES ASSUME NEW b \in Addr, NEW j \in Hits(sets'[ADDR_INDEX(b)], ADDR_TAG(b)),
                        ~sets'[ADDR_INDEX(b)][j].dirty
                 PROVE  cache_word_read(sets'[ADDR_INDEX(b)][j], ADDR_OFFSET(b)) = mem'[b]
      BY DEF CleanLinesMatch
    <2>1. j \in Hits(sets[ADDR_INDEX(b)], ADDR_TAG(b))
      BY <1>11
    <2>2. sets'[ADDR_INDEX(b)][j] = sets[ADDR_INDEX(b)][j]
      <3>1. CASE ~(ADDR_INDEX(b) = index /\ ADDR_TAG(b) = ADDR_TAG(a))
        BY <1>11, <2>1, <3>1
      <3>2. CASE ADDR_INDEX(b) = index /\ ADDR_TAG(b) = ADDR_TAG(a)
        <4>1. j = k /\ sets'[ADDR_INDEX(b)][j] = Apply(op, set[k], w, ADDR_OFFSET(a))
          BY <1>11, <2>1, <3>2
        <4>2. op # "write"
          BY <1>6, <4>1, ApplyRead
        <4> QED
          BY <1>6, <3>2, <4>1, <4>2, ApplyRead
      <3> QED
        BY <3>1, <3>2
    <2> QED
      BY <1>3, <2>1, <2>2 DEF CohInv, CleanLinesMatch
  <1>14. cache_word_read(set[last], ADDR_OFFSET(a)) = ViewAt(sets, mem, a)
    BY <1>4, <1>5, ViewHit
  <1> QED
    BY <1>3, <1>12, <1>13, <1>14

\* A miss drops the first d lines of the set, keeps n and appends the line of a.
Missed(op, a, w, d, n) ==
  LET index == ADDR_INDEX(a)
      set == sets[index]
      new == sets'[index]
  IN  /\ DOMAIN set = 1..(n + d)
      /\ DOMAIN new = 1..(n + 1)
      /\ \A k \in 1..n : new[k] = set[k + d]
      /\ new[n + 1] = Apply(op, malloc_cache_line(mem, AlignAddr(a)), w, ADDR_OFFSET(a))
      /\ mem' = IF d = 1 /\ set[1].dirty THEN cache_write_back(mem, set[1], index) ELSE mem

\* Every miss has this shape.
LEMMA MissShape ==
  ASSUME CohInv, NEW op \in {"read", "write"}, NEW a \in Addr, NEW w, Stores(op, w),
         AccessMiss(op, a, w)
  PROVE  /\ \A i \in Index : i # ADDR_INDEX(a) => sets'[i] = sets[i]
         /\ Hits(sets[ADDR_INDEX(a)], ADDR_TAG(a)) = {}
         /\ reply' = Answer(op, a, w, malloc_cache_line(mem, AlignAddr(a)), 10)
         /\ \E d \in {0, 1}, n \in Nat : Missed(op, a, w, d, n)
  <1> DEFINE index == ADDR_INDEX(a)
             set == sets[index]
             line == malloc_cache_line(mem, AlignAddr(a))
             added == Apply(op, line, w, ADDR_OFFSET(a))
             kept == IF Evicts(set) THEN de_cache_set(set) ELSE set
  <1>1. index \in Index
    BY AddrAssumption, Rebuild
  <1>2. /\ sets \in [Index -> Seq(CacheLine)] /\ set \in Seq(CacheLine)
        /\ Len(set) \in Nat /\ DOMAIN set = 1..Len(set)
    BY <1>1 DEF CohInv, IndInv, TypeOK
  <1>3. /\ sets' = [sets EXCEPT ![index] = Append(kept, added)]
        /\ mem' = IF WritesBack(set) THEN cache_write_back(mem, Head(set), index) ELSE mem
        /\ Hits(set, ADDR_TAG(a)) = {}
        /\ reply' = Answer(op, a, w, line, 10)
    BY DEF AccessMiss, add_into_cache_set, en_cache_set
  <1> HIDE DEF kept, added, line
  <1>4. sets'[index] = Append(kept, added) /\ \A i \in Index : i # index => sets'[i] = sets[i]
    BY <1>1, <1>2, <1>3
  <1>5. \E d \in {0, 1}, n \in Nat : Missed(op, a, w, d, n)
    <2>1. CASE Evicts(set)
      <3>1. Len(set) >= 1 /\ kept = Tail(set)
        BY <1>2, <2>1, SizeAssumption DEF Evicts, de_cache_set, kept
      <3>2. mem' = IF set[1].dirty THEN cache_write_back(mem, set[1], index) ELSE mem
        BY <1>2, <1>3, <2>1, <3>1 DEF WritesBack
      <3> HIDE DEF set
      <3> DEFINE n == Len(set) - 1
      <3>3. n \in Nat /\ Len(set) = n + 1
        BY <1>2, <3>1
      <3> HIDE DEF n
      <3>4. /\ kept \in Seq(CacheLine) /\ Len(kept) = n
            /\ \A k \in 1..n : kept[k] = set[k + 1]
        BY <1>2, <3>1, <3>3
      <3>5. DOMAIN Append(kept, added) = 1..(n + 1) /\ Append(kept, added)[n + 1] = added
        BY <3>4
      <3>6. \A k \in 1..n : Append(kept, added)[k] = set[k + 1]
        BY <3>4
      <3>7. DOMAIN set = 1..(n + 1)
        BY <1>2, <3>3
      <3>8. Missed(op, a, w, 1, n)
        BY <1>4, <3>2, <3>5, <3>6, <3>7 DEF Missed, set, line, added
      <3> QED
        BY <3>3, <3>8
    <2>2. CASE ~Evicts(set)
      <3>1. kept = set /\ mem' = mem
        BY <1>3, <2>2 DEF WritesBack, kept
      <3> HIDE DEF set
      <3> DEFINE n == Len(set)
      <3>2. DOMAIN Append(kept, added) = 1..(n + 1) /\ Append(kept, added)[n + 1] = added
        BY <1>2, <3>1
      <3>3. \A k \in 1..n : Append(kept, added)[k] = set[k + 0]
        BY <1>2, <3>1
      <3>4. DOMAIN set = 1..(n + 0) /\ n \in Nat
        BY <1>2
      <3>5. Missed(op, a, w, 0, n)
        BY <1>4, <3>1, <3>2, <3>3, <3>4 DEF Missed, set, line, added
      <3> HIDE DEF n
      <3> QED
        BY <3>4, <3>5
    <2> QED
      BY <2>1, <2>2
  <1> QED
    BY <1>3, <1>4, <1>5 DEF line

\* A miss.  The victim's block moves to memory if it was dirty and is already
\* there if it was clean, so the view does not notice.
LEMMA MissView ==
  ASSUME CohInv, NEW op \in {"read", "write"}, NEW a \in Addr, NEW w, Stores(op, w),
         AccessMiss(op, a, w)
  PROVE  /\ \A b \in Addr : ViewAt(sets', mem', b) = Updated(op, a, w, b)
         /\ CleanLinesMatch'
         /\ \E line, n : /\ reply' = Answer(op, a, w, line, n)
                         /\ cache_word_read(line, ADDR_OFFSET(a)) = ViewAt(sets, mem, a)
  <1> DEFINE index == ADDR_INDEX(a)
             set == sets[index]
             new == sets'[index]
             line == malloc_cache_line(mem, AlignAddr(a))
             added == Apply(op, line, w, ADDR_OFFSET(a))
  <1>0. PICK d \in {0, 1}, n \in Nat : Missed(op, a, w, d, n)
    BY MissShape
  <1>1. /\ index \in Index /\ ADDR_OFFSET(a) \div 4 \in Slot
        /\ \A b \in Addr : ADDR_INDEX(b) \in Index
    <2>1. \A b \in Addr : b \in Nat /\ b % 4 = 0
      BY AddrAssumption
    <2> QED
      BY <2>1, Rebuild, SlotOfAligned
  <1>2. /\ \A i \in Index : i # index => sets'[i] = sets[i]
        /\ Hits(set, ADDR_TAG(a)) = {}
        /\ reply' = Answer(op, a, w, line, 10)
    BY MissShape
  <1>3. /\ DOMAIN set = 1..(n + d)
        /\ DOMAIN new = 1..(n + 1)
        /\ \A k \in 1..n : new[k] = set[k + d]
        /\ new[n + 1] = added
        /\ mem' = IF d = 1 /\ set[1].dirty THEN cache_write_back(mem, set[1], index) ELSE mem
    BY <1>0 DEF Missed
  <1>4. mem \in [Addr -> Word] /\ set \in Seq(CacheLine)
    BY <1>1 DEF CohInv, IndInv, TypeOK
  <1>5. \A j \in DOMAIN set : set[j] \in CacheLine /\ set[j].valid
    BY <1>1, <1>4 DEF CohInv, IndInv, AllValid
  <1>6. line \in CacheLine /\ line.tag = ADDR_TAG(a) /\ line.valid
    BY <1>4, MallocLine
  <1>7. added.tag = ADDR_TAG(a) /\ added.valid
    BY <1>1, <1>6, ApplyLine
  <1> HIDE DEF new, line, added
  \* memory changes only under the block of the dropped head
  <1>8. ASSUME NEW b \in Addr
        PROVE  mem'[b] = IF d = 1 /\ set[1].dirty /\ ADDR_INDEX(b) = index
                                                  /\ ADDR_TAG(b) = set[1].tag
                         THEN cache_word_read(set[1], ADDR_OFFSET(b)) ELSE mem[b]
    <2>1. CASE d = 1 /\ set[1].dirty
      <3>1. set[1] \in CacheLine
        <4>1. 1 \in DOMAIN set
          BY <1>3, <2>1
        <4> QED
          BY <1>5, <4>1
      <3> QED
        BY <1>1, <1>3, <1>4, <2>1, <3>1, WriteBackAt
    <2>2. CASE ~(d = 1 /\ set[1].dirty)
      BY <1>3, <2>2
    <2> QED
      BY <2>1, <2>2
  \* the lookup after the miss
  <1>9. \A t, k : k \in Hits(new, t) <=> \/ k \in 1..n /\ k + d \in Hits(set, t)
                                         \/ k = n + 1 /\ t = ADDR_TAG(a)
    <2> TAKE t, k
    <2>1. CASE k \in 1..n
      <3>1. k \in DOMAIN new /\ new[k] = set[k + d] /\ k # n + 1 /\ k + d \in DOMAIN set
        BY <1>3, <2>1
      <3> QED
        BY <2>1, <3>1 DEF Hits
    <2>2. CASE k = n + 1
      <3>1. k \in DOMAIN new /\ new[k] = added /\ k \notin 1..n
        BY <1>3, <2>2
      <3> QED
        BY <1>7, <2>2, <3>1 DEF Hits
    <2>3. CASE k \notin 1..n /\ k # n + 1
      <3>1. k \notin DOMAIN new
        BY <1>3, <2>3
      <3> QED
        BY <2>3, <3>1 DEF Hits
    <2> QED
      BY <2>1, <2>2, <2>3
  <1>10. \A t : \A j \in Hits(set, t) : j \in 1..(n + d) /\ set[j].tag = t /\ t # ADDR_TAG(a)
    BY <1>2, <1>3 DEF Hits
  <1>11. \A t : d = 1 /\ set[1].tag = t => 1 \in Hits(set, t)
    <2>1. d = 1 => 1 \in DOMAIN set
      BY <1>3
    <2> QED
      BY <1>5, <2>1 DEF Hits
  <1>12. ASSUME NEW b \in Addr, NEW j \in Hits(sets[ADDR_INDEX(b)], ADDR_TAG(b))
         PROVE  Hits(sets[ADDR_INDEX(b)], ADDR_TAG(b)) = {j}
    BY <1>1, OneHit DEF CohInv
  <1>13. \A b \in Addr : ViewAt(sets', mem', b) = Updated(op, a, w, b)
    <2> SUFFICES ASSUME NEW b \in Addr
                 PROVE  ViewAt(sets', mem', b) = Updated(op, a, w, b)
      OBVIOUS
    <2>1. CASE ADDR_INDEX(b) # index
      <3>1. sets'[ADDR_INDEX(b)] = sets[ADDR_INDEX(b)] /\ mem'[b] = mem[b] /\ b # a
        BY <1>1, <1>2, <1>8, <2>1
      <3> QED
        BY <3>1 DEF ViewAt, Updated
    <2>2. CASE ADDR_INDEX(b) = index /\ ADDR_TAG(b) = ADDR_TAG(a)
      <3>1. Hits(set, ADDR_TAG(b)) = {} /\ Hits(new, ADDR_TAG(b)) = {n + 1}
        <4>1. \A k : k \in Hits(new, ADDR_TAG(b)) <=> k = n + 1
          BY <1>2, <1>9, <2>2
        <4> QED
          BY <1>2, <2>2, <4>1
      <3>2. ViewAt(sets', mem', b) = cache_word_read(added, ADDR_OFFSET(b))
        <4>1. Hits(sets'[ADDR_INDEX(b)], ADDR_TAG(b)) = {n + 1}
          BY <2>2, <3>1 DEF new
        <4>2. ViewAt(sets', mem', b) = cache_word_read(sets'[ADDR_INDEX(b)][n + 1], ADDR_OFFSET(b))
          BY <4>1, ViewHit
        <4> QED
          BY <1>3, <2>2, <4>2 DEF new
      <3>3. ViewAt(sets, mem, b) = mem[b]
        BY <2>2, <3>1, ViewMiss
      <3>4. cache_word_read(line, ADDR_OFFSET(b)) = mem[b]
        BY <1>4, <2>2, MallocRead DEF line
      <3>5. cache_word_read(added, ADDR_OFFSET(b)) =
              IF op = "write" /\ ADDR_OFFSET(a) \div 4 = ADDR_OFFSET(b) \div 4
              THEN w ELSE cache_word_read(line, ADDR_OFFSET(b))
        BY <1>6, ApplyRead DEF added
      <3>6. ADDR_OFFSET(a) \div 4 = ADDR_OFFSET(b) \div 4 <=> a = b
        BY <2>2, SameWord
      <3> QED
        BY <3>2, <3>3, <3>4, <3>5, <3>6 DEF Updated
    <2>3. CASE ADDR_INDEX(b) = index /\ ADDR_TAG(b) # ADDR_TAG(a)
      <3>1. Updated(op, a, w, b) = ViewAt(sets, mem, b)
        BY <2>3 DEF Updated
      <3>2. CASE Hits(set, ADDR_TAG(b)) = {}
        <4>1. Hits(new, ADDR_TAG(b)) = {}
          BY <1>9, <2>3, <3>2
        <4>2. mem'[b] = mem[b]
          BY <1>8, <1>11, <3>2
        <4>3. ViewAt(sets', mem', b) = mem'[b]
          BY <2>3, <4>1, ViewMiss DEF new
        <4>4. ViewAt(sets, mem, b) = mem[b]
          BY <2>3, <3>2, ViewMiss
        <4> QED
          BY <3>1, <4>2, <4>3, <4>4
      <3>3. ASSUME NEW j \in Hits(set, ADDR_TAG(b))
            PROVE  ViewAt(sets', mem', b) = ViewAt(sets, mem, b)
        <4>1. Hits(set, ADDR_TAG(b)) = {j} /\ j \in 1..(n + d) /\ set[j].tag = ADDR_TAG(b)
          BY <1>10, <1>12, <2>3, <3>3
        <4>2. ViewAt(sets, mem, b) = cache_word_read(set[j], ADDR_OFFSET(b))
          BY <2>3, <4>1, ViewHit
        <4>3. CASE j > d
          <5>1. j - d \in 1..n /\ (j - d) + d = j
            BY <4>1, <4>3
          <5>2. \A k : k \in Hits(new, ADDR_TAG(b)) <=> k = j - d
            <6>1. \A k \in 1..n : k + d = j => k = j - d
              BY <4>1
            <6> QED
              BY <1>9, <2>3, <4>1, <5>1, <6>1
          <5>3. Hits(sets'[ADDR_INDEX(b)], ADDR_TAG(b)) = {j - d}
            BY <2>3, <5>2 DEF new
          <5>4. ViewAt(sets', mem', b) = cache_word_read(sets'[ADDR_INDEX(b)][j - d], ADDR_OFFSET(b))
            BY <5>3, ViewHit
          <5>5. sets'[ADDR_INDEX(b)][j - d] = set[j]
            BY <1>3, <2>3, <5>1 DEF new
          <5> QED
            BY <4>2, <5>4, <5>5
        <4>4. CASE ~(j > d)
          <5>1. j = 1 /\ d = 1
            BY <4>1, <4>4
          <5>2. Hits(new, ADDR_TAG(b)) = {}
            <6>1. \A k \in 1..n : k + d # j
              BY <5>1
            <6> QED
              BY <1>9, <2>3, <4>1, <6>1
          <5>3. ViewAt(sets', mem', b) = mem'[b]
            BY <2>3, <5>2, ViewMiss DEF new
          <5>4. CASE set[1].dirty
            BY <1>8, <2>3, <4>1, <4>2, <5>1, <5>3, <5>4
          <5>5. CASE ~set[1].dirty
            <6>1. cache_word_read(set[1], ADDR_OFFSET(b)) = mem[b]
              BY <2>3, <4>1, <5>1, <5>5 DEF CohInv, CleanLinesMatch
            <6> QED
              BY <1>8, <4>2, <5>1, <5>3, <5>5, <6>1
          <5> QED
            BY <5>4, <5>5
        <4> QED
          BY <4>3, <4>4
      <3> QED
        BY <3>1, <3>2, <3>3
    <2> QED
      BY <2>1, <2>2, <2>3
  <1>14. CleanLinesMatch'
    <2> SUFFICES ASSUME NEW b \in Addr, NEW j \in Hits(sets'[ADDR_INDEX(b)], ADDR_TAG(b)),
                        ~sets'[ADDR_INDEX(b)][j].dirty
                 PROVE  cache_word_read(sets'[ADDR_INDEX(b)][j], ADDR_OFFSET(b)) = mem'[b]
      BY DEF CleanLinesMatch
    <2>1. CASE ADDR_INDEX(b) # index
      <3>1. sets'[ADDR_INDEX(b)] = sets[ADDR_INDEX(b)] /\ mem'[b] = mem[b]
        BY <1>1, <1>2, <1>8, <2>1
      <3> QED
        BY <3>1 DEF CohInv, CleanLinesMatch
    <2>2. CASE ADDR_INDEX(b) = index /\ j = n + 1 /\ ADDR_TAG(b) = ADDR_TAG(a)
      <3>1. sets'[ADDR_INDEX(b)][j] = added
        BY <1>3, <2>2 DEF new
      <3>2. op = "read" /\ added = line
        BY <1>6, <3>1, ApplyRead DEF added
      <3>3. cache_word_read(line, ADDR_OFFSET(b)) = mem[b]
        BY <1>4, <2>2, MallocRead DEF line
      <3>4. mem'[b] = mem[b]
        BY <1>2, <1>8, <1>11, <2>2
      <3> QED
        BY <3>1, <3>2, <3>3, <3>4
    <2>3. CASE ADDR_INDEX(b) = index /\ j \in 1..n /\ j + d \in Hits(set, ADDR_TAG(b))
      <3>1. sets'[ADDR_INDEX(b)][j] = set[j + d]
        BY <1>3, <2>3 DEF new
      <3>2. cache_word_read(set[j + d], ADDR_OFFSET(b)) = mem[b]
        BY <2>3, <3>1 DEF CohInv, CleanLinesMatch
      <3>3. ~(d = 1 /\ set[1].tag = ADDR_TAG(b))
        <4>1. Hits(set, ADDR_TAG(b)) = {j + d}
          BY <1>12, <2>3
        <4>2. d = 1 => j + d # 1
          BY <2>3
        <4> QED
          BY <1>11, <4>1, <4>2
      <3> QED
        BY <1>8, <3>1, <3>2, <3>3
    <2> QED
      BY <1>9, <2>1, <2>2, <2>3 DEF new
  <1>15. cache_word_read(line, ADDR_OFFSET(a)) = ViewAt(sets, mem, a)
    <2>1. ViewAt(sets, mem, a) = mem[a]
      BY <1>2, ViewMiss
    <2> QED
      BY <1>4, <2>1, MallocRead DEF line
  <1> QED
    BY <1>2, <1>13, <1>14, <1>15
-----------------------------------------------------------------------------
\* A flush writes to memory exactly what the pipeline sees.
LEMMA FlushIsView ==
  ASSUME CohInv, NEW b \in Addr
  PROVE  FlushedMem[b] = ViewAt(sets, mem, b)
  <1> DEFINE index == ADDR_INDEX(b)
             hits == Hits(sets[index], ADDR_TAG(b))
             over == {p \in DirtyLines : Covers(sets[p[1]][p[2]], p[1], b)}
             chosen == CHOOSE q \in over : TRUE
             line == sets[chosen[1]][chosen[2]]
  <1>1. index \in Index
    BY AddrAssumption, Rebuild
  <1>2. /\ mem \in [Addr -> Word]
        /\ \A i \in Index : \A k \in DOMAIN sets[i] : sets[i][k] \in CacheLine /\ sets[i][k].valid
    BY DEF CohInv, IndInv, TypeOK, AllValid
  <1>3. FlushedMem[b] = IF over = {} THEN mem[b]
                        ELSE line.data[(b - LineAddr(line, chosen[1])) \div 4]
    BY <1>2 DEF FlushedMem, FlushedAt
  <1>4. CASE over = {}
    <2>1. CASE hits = {}
      BY <1>3, <1>4, <2>1, ViewMiss
    <2>2. ASSUME NEW j \in hits
          PROVE  FlushedMem[b] = ViewAt(sets, mem, b)
      <3>1. hits = {j} /\ j \in DOMAIN sets[index] /\ sets[index][j].tag = ADDR_TAG(b)
        <4>1. j \in DOMAIN sets[index] /\ sets[index][j].tag = ADDR_TAG(b)
          BY DEF Hits
        <4>2. IndInv
          BY DEF CohInv
        <4> HIDE DEF index
        <4> QED
          BY <1>1, <4>1, <4>2, OneHit
      <3>2. ~sets[index][j].dirty
        <4> SUFFICES ASSUME sets[index][j].dirty
                     PROVE  <<index, j>> \in over
          BY <1>4
        <4>1. Covers(sets[index][j], index, b)
          BY <1>1, <1>2, <3>1, CoversDecode
        <4>2. <<index, j>> \in {index} \X DOMAIN sets[index]
          BY <3>1
        <4>3. <<index, j>> \in UNION {{i} \X DOMAIN sets[i] : i \in Index}
          BY <1>1, <4>2
        <4>4. <<index, j>>[1] = index /\ <<index, j>>[2] = j
          OBVIOUS
        <4> HIDE DEF index
        <4>5. <<index, j>> \in DirtyLines
          BY <4>3, <4>4 DEF DirtyLines
        <4> QED
          BY <4>1, <4>4, <4>5
      <3>3. cache_word_read(sets[index][j], ADDR_OFFSET(b)) = mem[b]
        BY <3>1, <3>2 DEF CohInv, CleanLinesMatch
      <3>4. ViewAt(sets, mem, b) = cache_word_read(sets[index][j], ADDR_OFFSET(b))
        BY <3>1, ViewHit
      <3> QED
        BY <1>3, <1>4, <3>3, <3>4
    <2> QED
      BY <2>1, <2>2
  <1>5. CASE over # {}
    <2>1. chosen \in over
      BY <1>5
    <2>2. FlushedMem[b] = line.data[(b - LineAddr(line, chosen[1])) \div 4]
      BY <1>3, <1>5
    <2> HIDE DEF chosen
    <2>3. /\ chosen[1] \in Index /\ chosen[2] \in DOMAIN sets[chosen[1]]
          /\ Covers(line, chosen[1], b)
      <3>1. PICK i \in Index : chosen \in {i} \X DOMAIN sets[i]
        BY <2>1 DEF DirtyLines
      <3> QED
        BY <2>1, <3>1
    <2>4. line \in CacheLine /\ line.valid
      BY <1>2, <2>3
    <2>5. /\ index = chosen[1] /\ ADDR_TAG(b) = line.tag
          /\ (b - LineAddr(line, chosen[1])) \div 4 = ADDR_OFFSET(b) \div 4
      <3> HIDE DEF line
      <3> QED
        BY <2>3, <2>4, CoversDecode
    <2>6. chosen[2] \in hits
      BY <2>3, <2>4, <2>5 DEF Hits
    <2>7. hits = {chosen[2]}
      BY <1>1, <2>6, OneHit DEF CohInv
    <2>8. ViewAt(sets, mem, b) = cache_word_read(sets[index][chosen[2]], ADDR_OFFSET(b))
      BY <2>7, ViewHit
    <2> QED
      BY <2>2, <2>5, <2>8 DEF cache_word_read
  <1> QED
    BY <1>4, <1>5

\* A system call that stores nothing leaves the view alone and every line clean.
LEMMA SyscallView ==
  ASSUME CohInv, NEW ws \in SyscallWrites, DOMAIN ws = {}, Syscall(ws)
  PROVE  /\ \A b \in Addr : ViewAt(sets', mem', b) = ViewAt(sets, mem, b)
         /\ CleanLinesMatch'
  <1>1. \A b \in Addr : mem'[b] = ViewAt(sets, mem, b)
    BY FlushIsView DEF Syscall
  <1>2. ASSUME NEW b \in Addr
        PROVE  /\ Hits(sets'[ADDR_INDEX(b)], ADDR_TAG(b)) = Hits(sets[ADDR_INDEX(b)], ADDR_TAG(b))
               /\ \A j \in Hits(sets[ADDR_INDEX(b)], ADDR_TAG(b)) :
                    cache_word_read(sets'[ADDR_INDEX(b)][j], ADDR_OFFSET(b)) = ViewAt(sets, mem, b)
    <2> DEFINE i == ADDR_INDEX(b)
    <2>1. i \in Index
      BY AddrAssumption, Rebuild
    <2>2. sets[i] \in Seq(CacheLine) /\ DOMAIN sets[i] = 1..Len(sets[i])
      BY <2>1 DEF CohInv, IndInv, TypeOK
    <2>3. sets'[i] = [k \in 1..Len(sets[i]) |-> [sets[i][k] EXCEPT !.dirty = FALSE]]
      BY <2>1 DEF Syscall, FlushedSets
    <2> HIDE DEF i
    <2>4. \A k \in DOMAIN sets[i] : /\ sets'[i][k].tag = sets[i][k].tag
                                    /\ sets'[i][k].valid = sets[i][k].valid
                                    /\ sets'[i][k].data = sets[i][k].data
      <3>1. \A k \in DOMAIN sets[i] : sets[i][k] \in CacheLine
        BY <2>2
      <3> QED
        BY <2>2, <2>3, <3>1 DEF CacheLine
    <2>5. DOMAIN sets'[i] = DOMAIN sets[i]
      BY <2>2, <2>3
    <2>6. Hits(sets'[i], ADDR_TAG(b)) = Hits(sets[i], ADDR_TAG(b))
      BY <2>4, <2>5 DEF Hits
    <2>7. ASSUME NEW j \in Hits(sets[i], ADDR_TAG(b))
          PROVE  cache_word_read(sets'[i][j], ADDR_OFFSET(b)) = ViewAt(sets, mem, b)
      <3>0. j \in DOMAIN sets[i]
        BY DEF Hits
      <3>1. Hits(sets[i], ADDR_TAG(b)) = {j}
        BY <2>1, OneHit DEF CohInv
      <3>2. ViewAt(sets, mem, b) = cache_word_read(sets[i][j], ADDR_OFFSET(b))
        BY <3>1, ViewHit DEF i
      <3> QED
        BY <2>4, <3>0, <3>2 DEF cache_word_read
    <2> QED
      BY <2>6, <2>7 DEF i
  <1>3. ASSUME NEW b \in Addr
        PROVE  ViewAt(sets', mem', b) = ViewAt(sets, mem, b)
    <2>1. ADDR_INDEX(b) \in Index
      BY AddrAssumption, Rebuild
    <2>2. CASE Hits(sets[ADDR_INDEX(b)], ADDR_TAG(b)) = {}
      <3>1. Hits(sets'[ADDR_INDEX(b)], ADDR_TAG(b)) = {}
        BY <1>2, <2>2
      <3>2. ViewAt(sets', mem', b) = mem'[b]
        BY <3>1, ViewMiss
      <3>3. mem'[b] = ViewAt(sets, mem, b)
        BY <1>1
      <3> QED
        BY <3>2, <3>3
    <2>3. ASSUME NEW j \in Hits(sets[ADDR_INDEX(b)], ADDR_TAG(b))
          PROVE  ViewAt(sets', mem', b) = ViewAt(sets, mem, b)
      <3>1. Hits(sets'[ADDR_INDEX(b)], ADDR_TAG(b)) = {j}
        BY <1>2, <2>1, OneHit DEF CohInv
      <3>2. ViewAt(sets', mem', b) = cache_word_read(sets'[ADDR_INDEX(b)][j], ADDR_OFFSET(b))
        BY <3>1, ViewHit
      <3> QED
        BY <1>2, <3>2
    <2> QED
      BY <2>2, <2>3
  <1>4. CleanLinesMatch'
    <2> SUFFICES ASSUME NEW b \in Addr, NEW j \in Hits(sets'[ADDR_INDEX(b)], ADDR_TAG(b))
                 PROVE  cache_word_read(sets'[ADDR_INDEX(b)][j], ADDR_OFFSET(b)) = mem'[b]
      BY DEF CleanLinesMatch
    <2> QED
      BY <1>1, <1>2
  <1> QED
    BY <1>3, <1>4
-----------------------------------------------------------------------------
\* What each operation of the port does to the view, and that it keeps the
\* invariant.
LEMMA AccessView ==
  ASSUME CohInv, NEW op \in {"read", "write"}, NEW a \in Addr, NEW w, Stores(op, w),
         cache_access(op, a, w)
  PROVE  /\ CohInv'
         /\ \A b \in Addr : ViewAt(sets', mem', b) = Updated(op, a, w, b)
         /\ \E line, n : /\ reply' = Answer(op, a, w, line, n)
                         /\ cache_word_read(line, ADDR_OFFSET(a)) = ViewAt(sets, mem, a)
  <1>1. CASE AccessHit(op, a, w)
    BY <1>1, HitView, HitStep DEF CohInv
  <1>2. CASE AccessMiss(op, a, w)
    BY <1>2, MissView, MissStep DEF CohInv
  <1> QED
    BY <1>1, <1>2 DEF cache_access

\* The invariant holds initially, when nothing is cached.
LEMMA InitCoh == Init => CohInv
  <1> SUFFICES ASSUME Init
               PROVE  CohInv
    OBVIOUS
  <1>1. ASSUME NEW a \in Addr
        PROVE  Hits(sets[ADDR_INDEX(a)], ADDR_TAG(a)) = {}
    <2>1. sets[ADDR_INDEX(a)] = <<>>
      BY AddrAssumption, Rebuild DEF Init
    <2> QED
      BY <2>1 DEF Hits
  <1> QED
    BY <1>1, InitInv DEF CohInv, CleanLinesMatch

\* Every step preserves the invariant when system calls store nothing.
LEMMA NextCoh ==
  ASSUME ReadOnlyCalls, CohInv, [Next]_vars
  PROVE  CohInv'
  <1>1. CASE \E a \in Port : cache_read(a)
    <2>1. PICK a \in Port : cache_read(a)
      BY <1>1
    <2>2. a \in Addr /\ Stores("read", "dst")
      BY AddrAssumption DEF Stores
    <2> QED
      BY <2>1, <2>2, AccessView DEF cache_read
  <1>2. CASE \E a \in Port, w \in Word : cache_write(a, w)
    <2>1. PICK a \in Port, w \in Word : cache_write(a, w)
      BY <1>2
    <2>2. a \in Addr /\ Stores("write", w)
      BY AddrAssumption DEF Stores
    <2> QED
      BY <2>1, <2>2, AccessView DEF cache_write
  <1>3. CASE \E ws \in SyscallWrites : Syscall(ws)
    BY <1>3, SyscallStep, SyscallView DEF ReadOnlyCalls, CohInv
  <1>4. CASE UNCHANGED vars
    <2>1. IndInv'
      BY NextInv DEF CohInv
    <2> QED
      BY <1>4, <2>1 DEF vars, CohInv, CleanLinesMatch
  <1> QED
    BY <1>1, <1>2, <1>3, <1>4 DEF Next

\* When system calls store nothing, a clean line always agrees with memory,
\* so add_into_cache_set may drop it without a write-back.
THEOREM Coherent ==
  ASSUME ReadOnlyCalls
  PROVE  Spec => []CleanLinesMatch
  <1>1. CohInv /\ [Next]_vars => CohInv'
    BY NextCoh
  <1>2. CohInv => CleanLinesMatch
    BY DEF CohInv
  <1> QED
    BY <1>1, <1>2, InitCoh, PTL DEF Spec
-----------------------------------------------------------------------------
\* The initial states of the cache are initial states of FlatMemory.
LEMMA InitFlat == Init => FM!Init
  <1> SUFFICES ASSUME Init
               PROVE  FM!Init
    OBVIOUS
  <1>1. ASSUME NEW a \in Addr
        PROVE  ViewAt(sets, mem, a) \in Word
    <2>1. sets[ADDR_INDEX(a)] = <<>>
      BY AddrAssumption, Rebuild DEF Init
    <2>2. Hits(sets[ADDR_INDEX(a)], ADDR_TAG(a)) = {}
      BY <2>1 DEF Hits
    <2>3. ViewAt(sets, mem, a) = mem[a]
      BY <2>2, ViewMiss
    <2> QED
      BY <2>3, MemAssumption DEF Init
  <1>2. View \in [Addr -> Word]
    BY <1>1 DEF View
  <1>3. FlatReply = [op |-> "none"]
    BY DEF Init, FlatReply
  <1> QED
    BY <1>2, <1>3 DEF FM!Init

\* Every step of the cache is a step of FlatMemory or a stuttering step.
LEMMA NextFlat ==
  ASSUME ReadOnlyCalls, CohInv, [Next]_vars
  PROVE  [FM!Next]_(FM!vars)
  <1>0. View' = [b \in Addr |-> ViewAt(sets', mem', b)]
    BY DEF View, ViewAt
  <1>1. CASE \E a \in Port : cache_read(a)
    <2>1. PICK a \in Port : cache_read(a)
      BY <1>1
    <2>2. a \in Addr /\ Stores("read", "dst") /\ cache_access("read", a, "dst")
      BY <2>1, AddrAssumption DEF Stores, cache_read
    <2>3. \A b \in Addr : ViewAt(sets', mem', b) = ViewAt(sets, mem, b)
      BY <2>2, AccessView DEF Updated
    <2>4. View' = View
      BY <1>0, <2>3 DEF View
    <2>5. PICK line, n : /\ reply' = Answer("read", a, "dst", line, n)
                         /\ cache_word_read(line, ADDR_OFFSET(a)) = ViewAt(sets, mem, a)
      BY <2>2, AccessView
    <2>6. FlatReply' = [op |-> "read", addr |-> a, word |-> View[a]]
      BY <2>2, <2>5 DEF FlatReply, Answer, View
    <2>7. FM!Read(a)
      BY <2>4, <2>6 DEF FM!Read
    <2> QED
      BY <2>1, <2>7 DEF FM!Next
  <1>2. CASE \E a \in Port, w \in Word : cache_write(a, w)
    <2>1. PICK a \in Port, w \in Word : cache_write(a, w)
      BY <1>2
    <2>2. a \in Addr /\ Stores("write", w) /\ cache_access("write", a, w)
      BY <2>1, AddrAssumption DEF Stores, cache_write
    <2>3. \A b \in Addr : ViewAt(sets', mem', b) = IF b = a THEN w ELSE ViewAt(sets, mem, b)
      BY <2>2, AccessView DEF Updated
    <2>4. View' = [View EXCEPT ![a] = w]
      BY <1>0, <2>2, <2>3 DEF View
    <2>5. PICK line, n : reply' = Answer("write", a, w, line, n)
      BY <2>2, AccessView
    <2>6. FlatReply' = [op |-> "write", addr |-> a, word |-> w]
      BY <2>5 DEF FlatReply, Answer
    <2>7. FM!Write(a, w)
      BY <2>4, <2>6 DEF FM!Write
    <2> QED
      BY <2>1, <2>7 DEF FM!Next
  <1>3. CASE \E ws \in SyscallWrites : Syscall(ws)
    <2>1. PICK ws \in SyscallWrites : Syscall(ws)
      BY <1>3
    <2>2. DOMAIN ws = {}
      BY DEF ReadOnlyCalls
    <2>3. \A b \in Addr : ViewAt(sets', mem', b) = ViewAt(sets, mem, b)
      BY <2>1, <2>2, SyscallView
    <2>4. View' = [b \in Addr |-> IF b \in DOMAIN ws THEN ws[b] ELSE View[b]]
      BY <1>0, <2>2, <2>3 DEF View
    <2>5. FlushedMem = View
      <3>1. DOMAIN mem = Addr
        BY DEF CohInv, IndInv, TypeOK
      <3>2. FlushedMem = [b \in Addr |-> FlushedMem[b]]
        BY <3>1 DEF FlushedMem
      <3>3. \A b \in Addr : FlushedMem[b] = ViewAt(sets, mem, b)
        BY FlushIsView
      <3> HIDE DEF FlushedMem
      <3> QED
        BY <3>2, <3>3 DEF View
    <2>6. FlatReply' = [op |-> "syscall", image |-> View]
      <3>1. reply' = [op |-> "syscall", image |-> View]
        BY <2>1, <2>5 DEF Syscall
      <3> QED
        BY <3>1 DEF FlatReply
    <2>7. FM!Syscall(ws)
      BY <2>4, <2>6 DEF FM!Syscall
    <2> QED
      BY <2>1, <2>7 DEF FM!Next
  <1>4. CASE UNCHANGED vars
    <2>1. View' = View
      BY <1>0, <1>4 DEF vars, View
    <2>2. FlatReply' = FlatReply
      BY <1>4 DEF vars, FlatReply
    <2> QED
      BY <2>1, <2>2 DEF FM!vars
  <1> QED
    BY <1>1, <1>2, <1>3, <1>4 DEF Next

\* When system calls store nothing, the cache is transparent: for every
\* associativity, memory and sequence of accesses a load answers with the word
\* stored last and a system call finds every store in memory.
THEOREM CacheTransparent ==
  ASSUME ReadOnlyCalls
  PROVE  Spec => Transparent
  <1>1. CohInv /\ [Next]_vars => CohInv'
    BY NextCoh
  <1>2. CohInv /\ [Next]_vars => [FM!Next]_(FM!vars)
    BY NextFlat
  <1> QED
    BY <1>1, <1>2, InitCoh, InitFlat, PTL DEF Spec, Transparent, FM!Spec
=============================================================================
