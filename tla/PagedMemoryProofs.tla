------------------------- MODULE PagedMemoryProofs --------------------------
(***************************************************************************)
(* The page table of memory.c holds every page once and implements an      *)
(* array of bytes, for every page size, table size and address space and   *)
(* any number of calls.  A chain is read as the set of its entries: moving *)
(* one to the front keeps the set, a new page adds to it.                  *)
(***************************************************************************)
EXTENDS PagedMemory, ProofLemmas

PageSet == [0..(MD_PAGE_SIZE - 1) -> Byte]
EntrySet == [tag : Nat, page : PageSet]

\* A chain holds one entry for a tag.
ChainOK(b) ==
    /\ b \in Seq(EntrySet) /\ OneToOne(b)
    /\ \A x, y \in ToSet(b) : x.tag = y.tag => x = y

TableOK(t) == t \in [Sets -> Seq(EntrySet)] /\ \A k \in Sets : ChainOK(t[k])

MemOK(m) ==
    /\ m \in [ptab : [Sets -> Seq(EntrySet)], page_count : Nat, ptab_misses : Nat, ptab_accesses : Nat]
    /\ TableOK(m.ptab)
    /\ IsFiniteSet(Places(m.ptab)) /\ m.page_count = Cardinality(Places(m.ptab))
    /\ m.ptab_misses <= m.ptab_accesses

\* Two memories with the same entries, in any order.
Same(m, w) == \A k \in Sets : ToSet(w.ptab[k]) = ToSet(m.ptab[k])
-----------------------------------------------------------------------------
(* Addresses.                                                              *)

LEMMA Space ==
    /\ MD_PAGE_SIZE * MEM_PTAB_SIZE \in Nat \ {0} /\ AddrSpace \in Nat \ {0}
    /\ Addr \subseteq Nat
    <1>1. MD_PAGE_SIZE * MEM_PTAB_SIZE \in Nat \ {0}
        BY PagedMemoryAssumption
    <1> DEFINE N == MD_PAGE_SIZE * MEM_PTAB_SIZE
    <1> HIDE DEF N
    <1>2. N \in Nat \ {0} /\ NTags \in Nat \ {0}
        BY <1>1, PagedMemoryAssumption DEF N
    <1>3. N * NTags \in Nat \ {0}
        BY <1>2
    <1>4. AddrSpace \in Nat \ {0}
        BY <1>3 DEF N, AddrSpace
    <1> QED
        BY <1>1, <1>4 DEF Addr

LEMMA PlusIn ==
    ASSUME NEW a \in Nat, NEW n \in Int, a + n >= 0
    PROVE  Plus(a, n) \in Addr
    <1>1. a + n \in Nat
        OBVIOUS
    <1> QED
        BY <1>1, Space DEF Plus, Addr

LEMMA Decoded ==
    ASSUME NEW a \in Addr
    PROVE  MEM_PTAB_SET(a) \in Sets /\ MEM_PTAB_TAG(a) \in Nat /\ MEM_OFFSET(a) \in 0..(MD_PAGE_SIZE - 1)
    <1>1. a \in Nat /\ MD_PAGE_SIZE \in Nat \ {0} /\ MEM_PTAB_SIZE \in Nat \ {0}
        BY Space, PagedMemoryAssumption
    <1>2. a \div MD_PAGE_SIZE \in Nat
        BY <1>1
    <1>3. MEM_PTAB_SET(a) \in Sets
        BY <1>1, <1>2 DEF MEM_PTAB_SET, Sets
    <1>4. MEM_PTAB_TAG(a) \in Nat
        BY <1>1, Space DEF MEM_PTAB_TAG
    <1>5. MEM_OFFSET(a) \in 0..(MD_PAGE_SIZE - 1)
        BY <1>1 DEF MEM_OFFSET
    <1> QED
        BY <1>3, <1>4, <1>5

\* Tag, set and offset name one address.
LEMMA OneAddress ==
    ASSUME NEW a \in Addr, NEW b \in Addr, MEM_PTAB_SET(a) = MEM_PTAB_SET(b), MEM_PTAB_TAG(a) = MEM_PTAB_TAG(b),
           MEM_OFFSET(a) = MEM_OFFSET(b)
    PROVE  a = b
    <1> DEFINE P == MD_PAGE_SIZE
               S == MEM_PTAB_SIZE
               Q(x) == x \div P
    <1>1. a \in Nat /\ b \in Nat /\ P \in Nat \ {0} /\ S \in Nat \ {0}
        BY Space, PagedMemoryAssumption
    <1>2. ASSUME NEW x \in Nat
          PROVE  x = P * (S * MEM_PTAB_TAG(x) + MEM_PTAB_SET(x)) + MEM_OFFSET(x)
        <2> DEFINE u == x \div P
                   q == u \div S
                   s == u % S
                   o == x % P
        <2>1. x = P * u + o /\ u \in Nat /\ o \in 0..(P - 1)
            BY <1>1, Divided
        <2>2. u = S * q + s /\ q \in Nat /\ s \in 0..(S - 1)
            BY <1>1, <2>1, Divided
        <2> HIDE DEF u, q, s, o
        <2>3. x = (P * S) * q + (P * s + o)
            <3>1. P * (S * q + s) = (P * S) * q + P * s
                BY <1>1, <2>2
            <3> QED
                BY <1>1, <2>1, <2>2, <3>1
        <2>4. P * s + o \in 0..(P * S - 1)
            <3>1. P * s <= P * (S - 1) /\ P * s >= 0 /\ P * s \in Int
                BY <1>1, <2>2
            <3>2. P * (S - 1) = P * S - P /\ P * S \in Int
                BY <1>1
            <3> QED
                BY <1>1, <2>1, <3>1, <3>2
        <2>5. x \div (P * S) = q
            BY <1>1, <2>2, <2>3, <2>4, Space, Division
        <2> QED
            BY <2>1, <2>2, <2>5 DEF u, q, s, o, MEM_PTAB_TAG, MEM_PTAB_SET, MEM_OFFSET
    <1> QED
        BY <1>1, <1>2
-----------------------------------------------------------------------------
(* The page table.                                                         *)

LEMMA BucketOK ==
    ASSUME NEW m, MemOK(m), NEW a \in Addr
    PROVE  /\ MEM_PTAB_SET(a) \in Sets /\ Bucket(m, a) = m.ptab[MEM_PTAB_SET(a)]
           /\ ChainOK(Bucket(m, a)) /\ Bucket(m, a) \in Seq(EntrySet)
    BY Decoded DEF MemOK, TableOK, ChainOK, Bucket

\* Position names the entry with the tag, if there is one.
LEMMA PositionIs ==
    ASSUME NEW m, MemOK(m), NEW a \in Addr
    PROVE  LET b == Bucket(m, a)
               i == Position(m, a)
           IN  \/ i = 0 /\ \A x \in ToSet(b) : x.tag # MEM_PTAB_TAG(a)
               \/ i \in 1..Len(b) /\ b[i].tag = MEM_PTAB_TAG(a) /\ b[i] \in ToSet(b)
    <1> DEFINE b == Bucket(m, a)
               hits == {i \in DOMAIN b : b[i].tag = MEM_PTAB_TAG(a)}
    <1>1. b \in Seq(EntrySet) /\ DOMAIN b = 1..Len(b) /\ Len(b) \in Nat
        BY BucketOK
    <1>2. CASE hits = {}
        <2>1. Position(m, a) = 0
            BY <1>2 DEF Position
        <2> QED
            BY <1>2, <2>1 DEF ToSet
    <1>3. CASE hits # {}
        <2> DEFINE p == CHOOSE i \in hits : \A j \in hits : i <= j
        <2>1. Position(m, a) = p
            BY <1>3 DEF Position
        <2>2. hits \subseteq Nat
            BY <1>1
        <2>3. p \in hits
            <3> HIDE DEF hits
            <3> QED
                BY <1>3, <2>2, Least
        <2> QED
            BY <1>1, <2>1, <2>3 DEF ToSet
    <1> QED
        BY <1>2, <1>3

\* What is at an address depends on the entries only.
LEMMA AtIs ==
    ASSUME NEW m, MemOK(m), NEW a \in Addr
    PROVE  /\ \A x \in ToSet(Bucket(m, a)) :
                 x.tag = MEM_PTAB_TAG(a) => Position(m, a) # 0 /\ At(m, a) = x.page[MEM_OFFSET(a)]
           /\ (\A x \in ToSet(Bucket(m, a)) : x.tag # MEM_PTAB_TAG(a)) => Position(m, a) = 0 /\ At(m, a) = 0
           /\ At(m, a) \in Byte
    <1> DEFINE b == Bucket(m, a)
               i == Position(m, a)
    <1>1. ChainOK(b) /\ b \in Seq(EntrySet)
        BY BucketOK
    <1>2. CASE i = 0
        <2>1. \A x \in ToSet(b) : x.tag # MEM_PTAB_TAG(a)
            BY <1>1, <1>2, PositionIs
        <2>2. At(m, a) = 0
            BY <1>2 DEF At
        <2> QED
            BY <1>2, <2>1, <2>2, PagedMemoryAssumption
    <1>3. CASE i # 0
        <2>1. i \in 1..Len(b) /\ b[i].tag = MEM_PTAB_TAG(a) /\ b[i] \in ToSet(b)
            BY <1>3, PositionIs
        <2>2. At(m, a) = b[i].page[MEM_OFFSET(a)]
            BY <1>3 DEF At
        <2>3. b[i] \in EntrySet
            BY <1>1, <2>1
        <2>4. b[i].page[MEM_OFFSET(a)] \in Byte
            BY <2>3, Decoded DEF EntrySet, PageSet
        <2>5. \A x \in ToSet(b) : x.tag = MEM_PTAB_TAG(a) => x = b[i]
            BY <1>1, <2>1 DEF ChainOK
        <2> QED
            BY <1>3, <2>1, <2>2, <2>4, <2>5
    <1> QED
        BY <1>2, <1>3

LEMMA SameAt ==
    ASSUME NEW m, MemOK(m), NEW w, MemOK(w), Same(m, w), NEW a \in Addr
    PROVE  At(w, a) = At(m, a) /\ (Position(w, a) = 0 <=> Position(m, a) = 0)
    <1>1. ToSet(Bucket(w, a)) = ToSet(Bucket(m, a))
        BY BucketOK DEF Same
    <1>2. CASE \E x \in ToSet(Bucket(m, a)) : x.tag = MEM_PTAB_TAG(a)
        BY <1>1, <1>2, AtIs
    <1>3. CASE \A x \in ToSet(Bucket(m, a)) : x.tag # MEM_PTAB_TAG(a)
        BY <1>1, <1>3, AtIs
    <1> QED
        BY <1>2, <1>3

\* One chain is replaced by one of the same length.
LEMMA ChainReplaced ==
    ASSUME NEW m, MemOK(m), NEW k \in Sets, NEW r, ChainOK(r), Len(r) = Len(m.ptab[k]),
           NEW w, w.ptab = [m.ptab EXCEPT ![k] = r], w.page_count = m.page_count,
           w.ptab_misses \in Nat, w.ptab_accesses \in Nat, w.ptab_misses <= w.ptab_accesses,
           w = [ptab |-> w.ptab, page_count |-> w.page_count, ptab_misses |-> w.ptab_misses,
                ptab_accesses |-> w.ptab_accesses]
    PROVE  MemOK(w) /\ w.ptab[k] = r /\ \A h \in Sets : h # k => w.ptab[h] = m.ptab[h]
    <1>1. /\ m.ptab \in [Sets -> Seq(EntrySet)] /\ m.page_count \in Nat /\ \A h \in Sets : ChainOK(m.ptab[h])
          /\ IsFiniteSet(Places(m.ptab)) /\ m.page_count = Cardinality(Places(m.ptab))
        BY DEF MemOK, TableOK
    <1>2. r \in Seq(EntrySet) /\ m.ptab[k] \in Seq(EntrySet)
        BY <1>1 DEF ChainOK
    <1>3. /\ w.ptab \in [Sets -> Seq(EntrySet)] /\ w.ptab[k] = r /\ DOMAIN w.ptab = Sets /\ DOMAIN m.ptab = Sets
          /\ \A h \in Sets : h # k => w.ptab[h] = m.ptab[h]
        BY <1>1, <1>2
    <1>4. TableOK(w.ptab)
        BY <1>1, <1>3 DEF TableOK
    <1>5. Places(w.ptab) = Places(m.ptab)
        <2>1. DOMAIN r = DOMAIN m.ptab[k]
            BY <1>2
        <2> QED
            BY <1>3, <2>1, PlacesSame
    <1>6. w \in [ptab : [Sets -> Seq(EntrySet)], page_count : Nat, ptab_misses : Nat, ptab_accesses : Nat]
        BY <1>1, <1>3
    <1> QED
        BY <1>1, <1>3, <1>4, <1>5, <1>6 DEF MemOK

\* A translation finds the page at the head of its chain and keeps all entries.
LEMMA PageKeeps ==
    ASSUME NEW m, MemOK(m), NEW a \in Addr
    PROVE  LET w == MEM_PAGE(m, a)
           IN  /\ MemOK(w) /\ Same(m, w)
               /\ Position(m, a) # 0 => Bucket(w, a) # <<>> /\ Bucket(w, a)[1].tag = MEM_PTAB_TAG(a)
    <1> DEFINE w == MEM_PAGE(m, a)
               k == MEM_PTAB_SET(a)
               b == m.ptab[k]
               i == Position(m, a)
               r == IF i > 1 THEN MoveToFront(b, i) ELSE b
    <1>1. /\ k \in Sets /\ ChainOK(b) /\ b \in Seq(EntrySet) /\ Bucket(m, a) = b
          /\ Bucket(w, a) = w.ptab[k]
        BY BucketOK DEF Bucket
    <1>2. i = 0 \/ (i \in 1..Len(b) /\ b[i].tag = MEM_PTAB_TAG(a) /\ b[i] \in ToSet(b))
        BY <1>1, PositionIs
    <1>3. m \in [ptab : [Sets -> Seq(EntrySet)], page_count : Nat, ptab_misses : Nat, ptab_accesses : Nat]
          /\ m.ptab_misses <= m.ptab_accesses
        BY DEF MemOK
    <1> HIDE DEF i
    <1>4. /\ w.ptab = [m.ptab EXCEPT ![k] = r] /\ w.page_count = m.page_count
          /\ w.ptab_misses \in Nat /\ w.ptab_accesses \in Nat /\ w.ptab_misses <= w.ptab_accesses
          /\ w = [ptab |-> w.ptab, page_count |-> w.page_count, ptab_misses |-> w.ptab_misses,
                  ptab_accesses |-> w.ptab_accesses]
        <2>1. CASE i = 1
            <3>1. w = [m EXCEPT !.ptab_accesses = @ + 1]
                BY <2>1 DEF MEM_PAGE, i
            <3>2. r = b
                BY <2>1
            <3>3. m.ptab = [m.ptab EXCEPT ![k] = b]
                BY <1>1, <1>3
            <3> HIDE DEF w, r, b, k
            <3>4. /\ w.ptab = m.ptab /\ w.page_count = m.page_count /\ w.ptab_misses = m.ptab_misses
                  /\ w.ptab_accesses = m.ptab_accesses + 1
                  /\ w = [ptab |-> w.ptab, page_count |-> w.page_count, ptab_misses |-> w.ptab_misses,
                          ptab_accesses |-> w.ptab_accesses]
                BY <1>3, <3>1
            <3>5. m.ptab_misses \in Nat /\ m.ptab_accesses \in Nat /\ m.ptab_misses <= m.ptab_accesses
                BY <1>3
            <3>6. w.ptab = [m.ptab EXCEPT ![k] = r]
                BY <3>2, <3>3, <3>4 DEF b
            <3> QED
                BY <3>4, <3>5, <3>6
        <2>2. CASE i > 1
            <3>1. w = [[m EXCEPT !.ptab_misses = @ + 1, !.ptab_accesses = @ + 1] EXCEPT !.ptab[k] = MoveToFront(@, i)]
                BY <2>2 DEF MEM_PAGE, mem_translate, i
            <3>2. w = [ptab |-> [m.ptab EXCEPT ![k] = r], page_count |-> m.page_count,
                       ptab_misses |-> m.ptab_misses + 1, ptab_accesses |-> m.ptab_accesses + 1]
                BY <1>3, <2>2, <3>1
            <3> HIDE DEF w, r
            <3> QED
                BY <1>3, <3>2
        <2>3. CASE i = 0
            <3>1. w = [m EXCEPT !.ptab_misses = @ + 1, !.ptab_accesses = @ + 1]
                BY <2>3 DEF MEM_PAGE, mem_translate, i
            <3>2. m.ptab = [m.ptab EXCEPT ![k] = r]
                BY <1>1, <1>3, <2>3
            <3>3. w = [ptab |-> m.ptab, page_count |-> m.page_count,
                       ptab_misses |-> m.ptab_misses + 1, ptab_accesses |-> m.ptab_accesses + 1]
                BY <1>3, <3>1
            <3> HIDE DEF w, r
            <3> QED
                BY <1>3, <3>2, <3>3
        <2> QED
            BY <1>2, <2>1, <2>2, <2>3
    <1> HIDE DEF w
    <1>5. /\ ChainOK(r) /\ Len(r) = Len(b) /\ ToSet(r) = ToSet(b)
          /\ i # 0 => r # <<>> /\ r[1].tag = MEM_PTAB_TAG(a)
        <2>1. CASE i > 1
            <3>1. r = <<b[i]>> \o RemoveAt(b, i)
                BY <2>1 DEF MoveToFront
            <3>2. OneToOne(b) /\ i \in 1..Len(b)
                BY <1>1, <1>2, <2>1 DEF ChainOK
            <3> HIDE DEF r, b
            <3>3. r \in Seq(EntrySet) /\ Len(r) = Len(b) /\ r[1] = b[i] /\ OneToOne(r) /\ ToSet(r) = ToSet(b) /\ r # <<>>
                BY <1>1, <3>1, <3>2, FrontIs
            <3> QED
                BY <1>1, <1>2, <2>1, <3>3 DEF ChainOK
        <2>2. CASE ~(i > 1)
            <3>1. r = b
                BY <2>2
            <3>2. i # 0 => i = 1 /\ b # <<>>
                BY <1>1, <1>2, <2>2
            <3> HIDE DEF r, b
            <3> QED
                BY <1>1, <1>2, <3>1, <3>2
        <2> QED
            BY <2>1, <2>2
    <1> HIDE DEF r
    <1>6. MemOK(w) /\ w.ptab[k] = r /\ \A h \in Sets : h # k => w.ptab[h] = m.ptab[h]
        BY <1>1, <1>4, <1>5, ChainReplaced
    <1>7. Same(m, w)
        BY <1>5, <1>6 DEF Same
    <1> QED
        BY <1>1, <1>5, <1>6, <1>7 DEF w, i

LEMMA SameTrans ==
    ASSUME NEW m, NEW w, NEW u, Same(m, w), Same(w, u)
    PROVE  Same(m, u)
    BY DEF Same

\* Reading a byte returns what is there and keeps all entries.
LEMMA ReadByte ==
    ASSUME NEW m, MemOK(m), NEW a \in Addr
    PROVE  LET r == MEM_READ_BYTE(m, a) IN MemOK(r.m) /\ Same(m, r.m) /\ r.val = At(m, a)
    <1> DEFINE t == MEM_PAGE(m, a)
    <1>1. /\ MemOK(t) /\ Same(m, t)
          /\ Position(m, a) # 0 => Bucket(t, a) # <<>> /\ Bucket(t, a)[1].tag = MEM_PTAB_TAG(a)
        BY PageKeeps
    <1> HIDE DEF t
    <1>2. CASE Position(m, a) = 0
        <2>1. MEM_READ_BYTE(m, a) = [m |-> t, val |-> 0]
            BY <1>2 DEF MEM_READ_BYTE, t
        <2>2. At(m, a) = 0
            BY <1>2 DEF At
        <2> QED
            BY <1>1, <2>1, <2>2
    <1>3. CASE Position(m, a) # 0
        <2> DEFINE u == MEM_PAGE(t, a)
                   e == Bucket(t, a)[1]
        <2>1. MEM_READ_BYTE(m, a) = [m |-> u, val |-> e.page[MEM_OFFSET(a)]]
            BY <1>3 DEF MEM_READ_BYTE, t
        <2>2. MemOK(u) /\ Same(t, u)
            BY <1>1, PageKeeps
        <2>3. e \in ToSet(Bucket(t, a)) /\ e.tag = MEM_PTAB_TAG(a)
            BY <1>1, <1>3, BucketOK DEF ToSet
        <2>4. At(t, a) = e.page[MEM_OFFSET(a)] /\ At(t, a) = At(m, a)
            BY <1>1, <2>3, AtIs, SameAt
        <2> HIDE DEF u, e
        <2> QED
            BY <1>1, <2>1, <2>2, <2>4, SameTrans
    <1> QED
        BY <1>2, <1>3

\* A new page reads as zero, as did the addresses in it.
LEMMA NewPageKeeps ==
    ASSUME NEW m, MemOK(m), NEW a \in Addr, Position(m, a) = 0
    PROVE  LET w == mem_newpage(m, a)
           IN  MemOK(w) /\ Position(w, a) # 0 /\ \A x \in Addr : At(w, x) = At(m, x)
    <1> DEFINE w == mem_newpage(m, a)
               k == MEM_PTAB_SET(a)
               b == m.ptab[k]
               new == [tag |-> MEM_PTAB_TAG(a), page |-> NewPage]
               r == <<new>> \o b
    <1>1. k \in Sets /\ ChainOK(b) /\ b \in Seq(EntrySet) /\ Bucket(m, a) = b /\ OneToOne(b)
        BY BucketOK DEF ChainOK
    <1>2. \A x \in ToSet(b) : x.tag # MEM_PTAB_TAG(a)
        BY <1>1, AtIs
    <1>3. /\ m.ptab \in [Sets -> Seq(EntrySet)] /\ m.page_count \in Nat /\ m.ptab_misses \in Nat /\ m.ptab_accesses \in Nat
          /\ m.ptab_misses <= m.ptab_accesses /\ \A h \in Sets : ChainOK(m.ptab[h])
          /\ IsFiniteSet(Places(m.ptab)) /\ m.page_count = Cardinality(Places(m.ptab))
        BY DEF MemOK, TableOK
    <1>4. w = [ptab |-> [m.ptab EXCEPT ![k] = r], page_count |-> m.page_count + 1,
               ptab_misses |-> m.ptab_misses, ptab_accesses |-> m.ptab_accesses]
        <2>1. m \in [ptab : [Sets -> Seq(EntrySet)], page_count : Nat, ptab_misses : Nat, ptab_accesses : Nat]
            BY DEF MemOK
        <2>2. w = [m EXCEPT !.ptab[k] = <<new>> \o @, !.page_count = @ + 1]
            BY DEF mem_newpage
        <2> HIDE DEF new, w
        <2> QED
            BY <1>1, <2>1, <2>2
    <1>5. new \in EntrySet /\ new.tag = MEM_PTAB_TAG(a) /\ \A o \in 0..(MD_PAGE_SIZE - 1) : new.page[o] = 0
        BY Decoded, PagedMemoryAssumption DEF EntrySet, PageSet, NewPage
    <1> HIDE DEF w, new
    <1>6. new \notin ToSet(b)
        BY <1>2, <1>5
    <1>7. r \in Seq(EntrySet) /\ Len(r) = Len(b) + 1 /\ OneToOne(r) /\ ToSet(r) = {new} \cup ToSet(b)
        BY <1>1, <1>5, <1>6, ConsIs
    <1> HIDE DEF r, b
    <1>8. ChainOK(r)
        BY <1>1, <1>2, <1>5, <1>7 DEF ChainOK
    <1>9. /\ w.ptab \in [Sets -> Seq(EntrySet)] /\ DOMAIN w.ptab = Sets /\ DOMAIN m.ptab = Sets
          /\ w.ptab[k] = r /\ \A h \in Sets : h # k => w.ptab[h] = m.ptab[h]
        BY <1>1, <1>3, <1>4, <1>7
    <1>10. MemOK(w)
        <2> DEFINE z == <<k, Len(w.ptab[k])>>
        <2>1. Places(w.ptab) = Places(m.ptab) \cup {z} /\ z \notin Places(m.ptab)
            <3>1. w.ptab[k] \in Seq(EntrySet) /\ m.ptab[k] \in Seq(EntrySet) /\ Len(w.ptab[k]) = Len(m.ptab[k]) + 1
                BY <1>1, <1>7, <1>9 DEF b
            <3> QED
                BY <1>1, <1>9, <3>1, PlacesGrow
        <2> HIDE DEF z
        <2>2. IsFiniteSet(Places(w.ptab)) /\ Cardinality(Places(w.ptab)) = Cardinality(Places(m.ptab)) + 1
            BY <1>3, <2>1, FS_AddElement
        <2>3. TableOK(w.ptab)
            BY <1>3, <1>8, <1>9 DEF TableOK
        <2>4. w.page_count = Cardinality(Places(w.ptab)) /\ w.ptab_misses <= w.ptab_accesses
            BY <1>3, <1>4, <2>2
        <2>5. w \in [ptab : [Sets -> Seq(EntrySet)], page_count : Nat, ptab_misses : Nat, ptab_accesses : Nat]
            BY <1>3, <1>4, <1>9
        <2> QED
            BY <2>2, <2>3, <2>4, <2>5 DEF MemOK
    <1>11. Bucket(w, a) = r /\ new \in ToSet(Bucket(w, a))
        BY <1>7, <1>9 DEF Bucket
    <1>12. Position(w, a) # 0
        BY <1>5, <1>10, <1>11, AtIs
    <1>13. ASSUME NEW x \in Addr PROVE At(w, x) = At(m, x)
        <2>1. MEM_PTAB_SET(x) \in Sets /\ Bucket(m, x) = m.ptab[MEM_PTAB_SET(x)] /\ Bucket(w, x) = w.ptab[MEM_PTAB_SET(x)]
            BY BucketOK DEF Bucket
        <2>2. CASE MEM_PTAB_SET(x) = k /\ MEM_PTAB_TAG(x) = MEM_PTAB_TAG(a)
            <3>1. At(w, x) = new.page[MEM_OFFSET(x)]
                BY <1>5, <1>7, <1>9, <1>10, <2>1, <2>2, AtIs
            <3>2. At(m, x) = 0
                BY <1>1, <1>2, <2>1, <2>2, AtIs DEF b
            <3> QED
                BY <1>5, <3>1, <3>2, Decoded
        <2>3. CASE ~(MEM_PTAB_SET(x) = k /\ MEM_PTAB_TAG(x) = MEM_PTAB_TAG(a))
            <3>1. \A y : y.tag = MEM_PTAB_TAG(x) => (y \in ToSet(Bucket(w, x)) <=> y \in ToSet(Bucket(m, x)))
                BY <1>1, <1>5, <1>7, <1>9, <2>1, <2>3 DEF b
            <3>2. CASE \E y \in ToSet(Bucket(m, x)) : y.tag = MEM_PTAB_TAG(x)
                BY <1>10, <3>1, <3>2, AtIs
            <3>3. CASE \A y \in ToSet(Bucket(m, x)) : y.tag # MEM_PTAB_TAG(x)
                BY <1>10, <3>1, <3>3, AtIs
            <3> QED
                BY <3>2, <3>3
        <2> QED
            BY <2>2, <2>3
    <1> QED
        BY <1>10, <1>12, <1>13 DEF w

\* After a tickle there is a page, and no byte has changed.
LEMMA TickleKeeps ==
    ASSUME NEW m, MemOK(m), NEW a \in Addr
    PROVE  LET w == MEM_TICKLE(m, a)
           IN  MemOK(w) /\ Position(w, a) # 0 /\ \A x \in Addr : At(w, x) = At(m, x)
    <1> DEFINE t == MEM_PAGE(m, a)
    <1>1. MemOK(t) /\ Same(m, t)
        BY PageKeeps
    <1>2. (Position(t, a) = 0 <=> Position(m, a) = 0) /\ \A x \in Addr : At(t, x) = At(m, x)
        BY <1>1, SameAt
    <1>3. CASE Position(m, a) = 0
        <2>1. MEM_TICKLE(m, a) = mem_newpage(t, a)
            BY <1>3 DEF MEM_TICKLE
        <2> HIDE DEF t
        <2> QED
            BY <1>1, <1>2, <1>3, <2>1, NewPageKeeps
    <1>4. CASE Position(m, a) # 0
        <2>1. MEM_TICKLE(m, a) = t
            BY <1>4 DEF MEM_TICKLE
        <2> HIDE DEF t
        <2> QED
            BY <1>1, <1>2, <1>4, <2>1
    <1> QED
        BY <1>3, <1>4

\* A byte written is the only one that changes.
LEMMA WriteByte ==
    ASSUME NEW m, MemOK(m), NEW a \in Addr, NEW v \in Byte
    PROVE  LET w == MEM_WRITE_BYTE(m, a, v)
           IN  MemOK(w) /\ \A x \in Addr : At(w, x) = IF x = a THEN v ELSE At(m, x)
    <1> DEFINE u == MEM_TICKLE(m, a)
               t == MEM_PAGE(u, a)
               w == MEM_WRITE_BYTE(m, a, v)
               k == MEM_PTAB_SET(a)
               o == MEM_OFFSET(a)
               b == t.ptab[k]
               e == b[1]
               new == [e EXCEPT !.page[o] = v]
               r == [b EXCEPT ![1] = new]
    <1>1. MemOK(u) /\ Position(u, a) # 0 /\ \A x \in Addr : At(u, x) = At(m, x)
        BY TickleKeeps
    <1> HIDE DEF u
    <1>2. MemOK(t) /\ Same(u, t) /\ Bucket(t, a) # <<>> /\ Bucket(t, a)[1].tag = MEM_PTAB_TAG(a)
        BY <1>1, PageKeeps
    <1>3. w = [t EXCEPT !.ptab[k][1].page[o] = v]
        BY DEF MEM_WRITE_BYTE, u
    <1> HIDE DEF t, w
    <1>4. k \in Sets /\ Bucket(t, a) = b /\ ChainOK(b) /\ b \in Seq(EntrySet) /\ o \in 0..(MD_PAGE_SIZE - 1)
        BY <1>2, BucketOK, Decoded
    <1>5. b # <<>> /\ e \in EntrySet /\ e \in ToSet(b) /\ e.tag = MEM_PTAB_TAG(a) /\ OneToOne(b) /\ 1 \in DOMAIN b
        BY <1>2, <1>4 DEF ToSet, ChainOK
    <1>6. new \in EntrySet /\ new.tag = e.tag /\ new.page[o] = v /\ \A j \in 0..(MD_PAGE_SIZE - 1) : j # o => new.page[j] = e.page[j]
        BY <1>4, <1>5 DEF EntrySet, PageSet
    <1>7. /\ t.ptab \in [Sets -> Seq(EntrySet)] /\ t.page_count \in Nat /\ t.ptab_misses \in Nat /\ t.ptab_accesses \in Nat
          /\ t.ptab_misses <= t.ptab_accesses
          /\ t = [ptab |-> t.ptab, page_count |-> t.page_count, ptab_misses |-> t.ptab_misses, ptab_accesses |-> t.ptab_accesses]
        BY <1>2 DEF MemOK
    <1>8. w = [ptab |-> [t.ptab EXCEPT ![k] = r], page_count |-> t.page_count,
               ptab_misses |-> t.ptab_misses, ptab_accesses |-> t.ptab_accesses]
        BY <1>3, <1>4, <1>5, <1>7
    <1>9. new \notin ToSet(b) \ {e}
        BY <1>4, <1>5, <1>6 DEF ChainOK
    <1> HIDE DEF new, e
    <1>10. r \in Seq(EntrySet) /\ Len(r) = Len(b) /\ OneToOne(r) /\ ToSet(r) = {new} \cup (ToSet(b) \ {e})
        BY <1>4, <1>5, <1>6, <1>9, ReplaceHead DEF e
    <1> HIDE DEF r
    <1>11. ChainOK(r)
        BY <1>4, <1>5, <1>6, <1>10 DEF ChainOK
    <1>12. MemOK(w) /\ w.ptab[k] = r /\ \A h \in Sets : h # k => w.ptab[h] = t.ptab[h]
        <2>1. /\ w.ptab = [t.ptab EXCEPT ![k] = r] /\ w.page_count = t.page_count
              /\ w.ptab_misses = t.ptab_misses /\ w.ptab_accesses = t.ptab_accesses
              /\ w = [ptab |-> w.ptab, page_count |-> w.page_count, ptab_misses |-> w.ptab_misses,
                      ptab_accesses |-> w.ptab_accesses]
            BY <1>8
        <2>2. b = t.ptab[k] /\ Len(r) = Len(t.ptab[k])
            BY <1>10
        <2>3. w.ptab_misses \in Nat /\ w.ptab_accesses \in Nat /\ w.ptab_misses <= w.ptab_accesses
            BY <1>7, <2>1
        <2> HIDE DEF b, k
        <2> QED
            BY <1>2, <1>4, <1>11, <2>1, <2>2, <2>3, ChainReplaced
    <1>13. ASSUME NEW x \in Addr PROVE At(w, x) = IF x = a THEN v ELSE At(m, x)
        <2>1. MEM_PTAB_SET(x) \in Sets /\ Bucket(t, x) = t.ptab[MEM_PTAB_SET(x)] /\ Bucket(w, x) = w.ptab[MEM_PTAB_SET(x)]
            BY <1>2, BucketOK DEF Bucket
        <2>2. At(t, x) = At(m, x)
            BY <1>1, <1>2, SameAt
        <2>3. CASE MEM_PTAB_SET(x) = k /\ MEM_PTAB_TAG(x) = MEM_PTAB_TAG(a)
            <3>1. At(w, x) = new.page[MEM_OFFSET(x)]
                BY <1>5, <1>6, <1>10, <1>12, <2>1, <2>3, AtIs
            <3>2. At(t, x) = e.page[MEM_OFFSET(x)]
                BY <1>2, <1>5, <2>1, <2>3, AtIs
            <3>3. CASE x = a
                BY <1>6, <3>1, <3>3
            <3>4. CASE x # a
                <4>1. MEM_OFFSET(x) # o
                    BY <2>3, <3>4, OneAddress
                <4> QED
                    BY <1>6, <2>2, <3>1, <3>2, <3>4, <4>1, Decoded
            <3> QED
                BY <3>3, <3>4
        <2>4. CASE ~(MEM_PTAB_SET(x) = k /\ MEM_PTAB_TAG(x) = MEM_PTAB_TAG(a))
            <3>1. \A y : y.tag = MEM_PTAB_TAG(x) => (y \in ToSet(Bucket(w, x)) <=> y \in ToSet(Bucket(t, x)))
                BY <1>4, <1>5, <1>6, <1>10, <1>12, <2>1, <2>4
            <3>2. CASE \E y \in ToSet(Bucket(t, x)) : y.tag = MEM_PTAB_TAG(x)
                BY <1>2, <1>12, <2>2, <2>4, <3>1, <3>2, AtIs
            <3>3. CASE \A y \in ToSet(Bucket(t, x)) : y.tag # MEM_PTAB_TAG(x)
                BY <1>2, <1>12, <2>2, <2>4, <3>1, <3>3, AtIs
            <3> QED
                BY <3>2, <3>3
        <2> QED
            BY <2>3, <2>4
    <1> QED
        BY <1>12, <1>13 DEF w
-----------------------------------------------------------------------------
(* Runs of bytes: the recursive functions exist, and what they compute.    *)

ReadStep(p, a, i) ==
    LET r == MEM_READ_BYTE(p.m, Plus(a, i - 1)) IN [m |-> r.m, vals |-> Append(p.vals, r.val)]
IsReadRun(f, m, a, n) ==
    f = [i \in 0..n |-> IF i = 0 THEN [m |-> m, vals |-> <<>>] ELSE ReadStep(f[i - 1], a, i)]

LEMMA ReadRunIs ==
    ASSUME NEW m, NEW a, NEW n \in Nat
    PROVE  \E f : IsReadRun(f, m, a, n) /\ ReadRun(m, a, n) = f[n]
    <1> DEFINE S == {k \in Nat : \E f : IsReadRun(f, m, a, k)}
    <1>1. 0 \in S
        <2> DEFINE f == [i \in 0..0 |-> [m |-> m, vals |-> <<>>]]
        <2>1. IsReadRun(f, m, a, 0)
            BY DEF IsReadRun
        <2> QED
            BY <2>1
    <1>2. ASSUME NEW k \in Nat, k \in S PROVE k + 1 \in S
        <2>1. PICK f : IsReadRun(f, m, a, k)
            BY <1>2
        <2> DEFINE h == [i \in 0..(k + 1) |-> IF i <= k THEN f[i] ELSE ReadStep(f[k], a, k + 1)]
        <2>2. \A i \in 0..k : f[i] = IF i = 0 THEN [m |-> m, vals |-> <<>>] ELSE ReadStep(f[i - 1], a, i)
            BY <2>1 DEF IsReadRun
        <2>3. ASSUME NEW i \in 0..(k + 1)
              PROVE  h[i] = IF i = 0 THEN [m |-> m, vals |-> <<>>] ELSE ReadStep(h[i - 1], a, i)
            <3>1. CASE i <= k
                <4>1. h[i] = f[i] /\ (i # 0 => h[i - 1] = f[i - 1])
                    BY <3>1
                <4>2. i \in 0..k
                    BY <3>1
                <4> HIDE DEF h
                <4> QED
                    BY <2>2, <4>1, <4>2
            <3>2. CASE i = k + 1
                <4>1. h[i] = ReadStep(f[k], a, k + 1) /\ h[i - 1] = f[k] /\ i # 0
                    BY <3>2
                <4> HIDE DEF h
                <4> QED
                    BY <3>2, <4>1
            <3> QED
                BY <3>1, <3>2
        <2>4. IsReadRun(h, m, a, k + 1)
            BY <2>3 DEF IsReadRun
        <2> HIDE DEF h
        <2> QED
            BY <2>4
    <1> HIDE DEF S
    <1>3. n \in S
        BY <1>1, <1>2, SetInduction
    <1> DEFINE g == CHOOSE f : f = [i \in 0..n |-> IF i = 0 THEN [m |-> m, vals |-> <<>>]
                                    ELSE LET r == MEM_READ_BYTE(f[i - 1].m, Plus(a, i - 1))
                                         IN  [m |-> r.m, vals |-> Append(f[i - 1].vals, r.val)]]
    <1>4. IsReadRun(g, m, a, n)
        BY <1>3 DEF S, IsReadRun, ReadStep
    <1>5. ReadRun(m, a, n) = g[n]
        BY DEF ReadRun
    <1> HIDE DEF g
    <1> QED
        BY <1>4, <1>5

WriteStep(p, a, data, i) == MEM_WRITE_BYTE(p, Plus(a, i - 1), data[i])
IsWriteRun(f, m, a, data, n) == f = [i \in 0..n |-> IF i = 0 THEN m ELSE WriteStep(f[i - 1], a, data, i)]

LEMMA WriteRunIs ==
    ASSUME NEW m, NEW a, NEW data, Len(data) \in Nat
    PROVE  \E f : IsWriteRun(f, m, a, data, Len(data)) /\ WriteRun(m, a, data) = f[Len(data)]
    <1> DEFINE S == {k \in Nat : \E f : IsWriteRun(f, m, a, data, k)}
    <1>1. 0 \in S
        <2> DEFINE f == [i \in 0..0 |-> m]
        <2>1. IsWriteRun(f, m, a, data, 0)
            BY DEF IsWriteRun
        <2> QED
            BY <2>1
    <1>2. ASSUME NEW k \in Nat, k \in S PROVE k + 1 \in S
        <2>1. PICK f : IsWriteRun(f, m, a, data, k)
            BY <1>2
        <2> DEFINE h == [i \in 0..(k + 1) |-> IF i <= k THEN f[i] ELSE WriteStep(f[k], a, data, k + 1)]
        <2>2. \A i \in 0..k : f[i] = IF i = 0 THEN m ELSE WriteStep(f[i - 1], a, data, i)
            BY <2>1 DEF IsWriteRun
        <2>3. ASSUME NEW i \in 0..(k + 1)
              PROVE  h[i] = IF i = 0 THEN m ELSE WriteStep(h[i - 1], a, data, i)
            <3>1. CASE i <= k
                <4>1. h[i] = f[i] /\ (i # 0 => h[i - 1] = f[i - 1])
                    BY <3>1
                <4>2. i \in 0..k
                    BY <3>1
                <4> HIDE DEF h
                <4> QED
                    BY <2>2, <4>1, <4>2
            <3>2. CASE i = k + 1
                <4>1. h[i] = WriteStep(f[k], a, data, k + 1) /\ h[i - 1] = f[k] /\ i # 0
                    BY <3>2
                <4> HIDE DEF h
                <4> QED
                    BY <3>2, <4>1
            <3> QED
                BY <3>1, <3>2
        <2>4. IsWriteRun(h, m, a, data, k + 1)
            BY <2>3 DEF IsWriteRun
        <2> HIDE DEF h
        <2> QED
            BY <2>4
    <1> HIDE DEF S
    <1>3. Len(data) \in S
        BY <1>1, <1>2, SetInduction
    <1> DEFINE g == CHOOSE f : f = [i \in 0..Len(data) |-> IF i = 0 THEN m
                                    ELSE MEM_WRITE_BYTE(f[i - 1], Plus(a, i - 1), data[i])]
    <1>4. IsWriteRun(g, m, a, data, Len(data))
        BY <1>3 DEF S, IsWriteRun, WriteStep
    <1>5. WriteRun(m, a, data) = g[Len(data)]
        BY DEF WriteRun
    <1> HIDE DEF g
    <1> QED
        BY <1>4, <1>5

\* A read of n bytes returns what is at the n addresses, and changes none.
THEOREM ReadRunReturns ==
    ASSUME NEW m, MemOK(m), NEW a \in Nat, NEW n \in Nat
    PROVE  LET r == ReadRun(m, a, n)
           IN  MemOK(r.m) /\ Same(m, r.m) /\ r.vals = [i \in 1..n |-> At(m, Plus(a, i - 1))]
    <1>1. PICK f : IsReadRun(f, m, a, n) /\ ReadRun(m, a, n) = f[n]
        BY ReadRunIs
    <1>2. /\ f[0] = [m |-> m, vals |-> <<>>]
          /\ \A k \in Nat : k + 1 <= n => f[k + 1] = ReadStep(f[k], a, k + 1)
        <2>1. \A i \in 0..n : f[i] = IF i = 0 THEN [m |-> m, vals |-> <<>>] ELSE ReadStep(f[i - 1], a, i)
            BY <1>1 DEF IsReadRun
        <2>2. ASSUME NEW k \in Nat, k + 1 <= n PROVE f[k + 1] = ReadStep(f[k], a, k + 1)
            <3>1. k + 1 \in 0..n /\ k + 1 # 0 /\ (k + 1) - 1 = k
                BY <2>2
            <3> QED
                BY <2>1, <3>1
        <2> QED
            BY <2>1, <2>2
    <1> DEFINE good(r, k) == MemOK(r.m) /\ Same(m, r.m) /\ r.vals = [i \in 1..k |-> At(m, Plus(a, i - 1))]
               S == {k \in Nat : k <= n => good(f[k], k)}
    <1>3. 0 \in S
        BY <1>2 DEF Same
    <1>4. ASSUME NEW k \in Nat, k \in S PROVE k + 1 \in S
        <2> SUFFICES ASSUME k + 1 <= n PROVE good(f[k + 1], k + 1)
            OBVIOUS
        <2> DEFINE x == Plus(a, k)
                   b == MEM_READ_BYTE(f[k].m, x)
        <2>1. good(f[k], k)
            BY <1>4
        <2>2. x \in Addr
            BY PlusIn
        <2> HIDE DEF x
        <2>3. MemOK(b.m) /\ Same(f[k].m, b.m) /\ b.val = At(f[k].m, x)
            BY <2>1, <2>2, ReadByte
        <2>4. b.val = At(m, x)
            BY <2>1, <2>2, <2>3, SameAt
        <2>5. Same(m, b.m)
            BY <2>1, <2>3, SameTrans
        <2>6. f[k + 1] = [m |-> b.m, vals |-> Append(f[k].vals, b.val)]
            <3>1. f[k + 1] = ReadStep(f[k], a, k + 1) /\ (k + 1) - 1 = k
                BY <1>2
            <3> QED
                BY <3>1 DEF ReadStep, x
        <2> HIDE DEF b
        <2>7. Append(f[k].vals, b.val) = [i \in 1..(k + 1) |-> At(m, Plus(a, i - 1))]
            <3> DEFINE q == [i \in 1..k |-> At(m, Plus(a, i - 1))]
                       w == [i \in 1..(k + 1) |-> At(m, Plus(a, i - 1))]
            <3>1. f[k].vals = q /\ b.val = w[k + 1] /\ \A i \in 1..k : w[i] = q[i]
                BY <2>1, <2>4 DEF x
            <3>2. Append(q, w[k + 1]) = w
                OBVIOUS
            <3> QED
                BY <3>1, <3>2
        <2> QED
            BY <2>3, <2>5, <2>6, <2>7
    <1> HIDE DEF S
    <1>5. n \in S
        BY <1>3, <1>4, SetInduction
    <1> QED
        BY <1>1, <1>5 DEF S

\* A write of data changes the addresses of its run only, and an address no
\* later byte of the run wraps around to holds its byte afterwards.
THEOREM WriteRunStores ==
    ASSUME NEW m, MemOK(m), NEW a \in Nat, NEW data \in Seq(Byte)
    PROVE  LET w == WriteRun(m, a, data)
               n == Len(data)
           IN  /\ MemOK(w)
               /\ \A x \in Addr : (\A i \in 1..n : Plus(a, i - 1) # x) => At(w, x) = At(m, x)
               /\ \A i \in 1..n : (\A j \in (i + 1)..n : Plus(a, j - 1) # Plus(a, i - 1)) => At(w, Plus(a, i - 1)) = data[i]
    <1> DEFINE n == Len(data)
    <1>1. n \in Nat /\ \A i \in 1..n : data[i] \in Byte
        OBVIOUS
    <1>2. PICK f : IsWriteRun(f, m, a, data, n) /\ WriteRun(m, a, data) = f[n]
        BY <1>1, WriteRunIs
    <1> HIDE DEF n
    <1>3. f[0] = m /\ \A k \in Nat : k + 1 <= n => f[k + 1] = WriteStep(f[k], a, data, k + 1)
        <2>1. \A i \in 0..n : f[i] = IF i = 0 THEN m ELSE WriteStep(f[i - 1], a, data, i)
            BY <1>2 DEF IsWriteRun
        <2>2. ASSUME NEW k \in Nat, k + 1 <= n PROVE f[k + 1] = WriteStep(f[k], a, data, k + 1)
            <3>1. k + 1 \in 0..n /\ k + 1 # 0 /\ (k + 1) - 1 = k
                BY <1>1, <2>2
            <3> QED
                BY <2>1, <3>1
        <2> QED
            BY <1>1, <2>1, <2>2
    <1> DEFINE good(w, k) ==
                  /\ MemOK(w)
                  /\ \A x \in Addr : (\A i \in 1..k : Plus(a, i - 1) # x) => At(w, x) = At(m, x)
                  /\ \A i \in 1..k : (\A j \in (i + 1)..k : Plus(a, j - 1) # Plus(a, i - 1)) => At(w, Plus(a, i - 1)) = data[i]
               S == {k \in Nat : k <= n => good(f[k], k)}
    <1>4. 0 \in S
        BY <1>3
    <1>5. ASSUME NEW k \in Nat, k \in S PROVE k + 1 \in S
        <2> SUFFICES ASSUME k + 1 <= n PROVE good(f[k + 1], k + 1)
            OBVIOUS
        <2> DEFINE z == Plus(a, k)
                   w == f[k + 1]
        <2>1. good(f[k], k)
            BY <1>1, <1>5
        <2>2. z \in Addr /\ data[k + 1] \in Byte /\ k + 1 \in 1..(k + 1) /\ (k + 1) - 1 = k
            BY <1>1, PlusIn
        <2>3. w = MEM_WRITE_BYTE(f[k], z, data[k + 1])
            BY <1>3, <2>2 DEF WriteStep
        <2> HIDE DEF z, w
        <2>4. MemOK(w) /\ \A x \in Addr : At(w, x) = IF x = z THEN data[k + 1] ELSE At(f[k], x)
            BY <2>1, <2>2, <2>3, WriteByte
        <2>5. ASSUME NEW x \in Addr, \A i \in 1..(k + 1) : Plus(a, i - 1) # x PROVE At(w, x) = At(m, x)
            <3>1. x # z /\ \A i \in 1..k : Plus(a, i - 1) # x
                BY <2>2, <2>5 DEF z
            <3> QED
                BY <2>1, <2>4, <3>1
        <2>6. ASSUME NEW i \in 1..(k + 1), \A j \in (i + 1)..(k + 1) : Plus(a, j - 1) # Plus(a, i - 1)
              PROVE  At(w, Plus(a, i - 1)) = data[i]
            <3>1. Plus(a, i - 1) \in Addr
                BY PlusIn
            <3>2. CASE i = k + 1
                BY <2>2, <2>4, <3>1, <3>2 DEF z
            <3>3. CASE i # k + 1
                <4>1. i \in 1..k /\ k + 1 \in (i + 1)..(k + 1) /\ \A j \in (i + 1)..k : j \in (i + 1)..(k + 1)
                    BY <3>3
                <4>2. Plus(a, i - 1) # z
                    BY <2>2, <2>6, <4>1 DEF z
                <4>3. At(f[k], Plus(a, i - 1)) = data[i]
                    BY <2>1, <2>6, <4>1
                <4> QED
                    BY <2>4, <3>1, <4>2, <4>3
            <3> QED
                BY <3>2, <3>3
        <2> QED
            BY <2>4, <2>5, <2>6 DEF w
    <1> HIDE DEF S
    <1>6. n \in S
        BY <1>1, <1>4, <1>5, SetInduction
    <1> QED
        BY <1>1, <1>2, <1>6 DEF S, n
-----------------------------------------------------------------------------
(* Arithmetic of addresses and sizes.                                      *)

\* Remainders of numbers less than one address space out of it.
LEMMA Around ==
    ASSUME NEW S \in Nat \ {0}, NEW z \in Int, -S <= z, z < 2 * S
    PROVE  z % S = IF z < 0 THEN z + S ELSE IF z < S THEN z ELSE z - S
    <1> DEFINE d == z \div S
               e == z % S
    <1>1. z = S * d + e /\ d \in Int /\ e \in 0..(S - 1)
        OBVIOUS
    <1> HIDE DEF d, e
    <1>2. d >= -1
        <2> SUFFICES ASSUME d <= -2 PROVE FALSE
            BY <1>1
        <2>1. S * d <= S * (-2) /\ S * (-2) = -(2 * S) /\ S * d \in Int
            BY <1>1
        <2> QED
            BY <1>1, <2>1
    <1>3. d <= 1
        <2> SUFFICES ASSUME d >= 2 PROVE FALSE
            BY <1>1
        <2>1. S * d >= S * 2 /\ S * d \in Int
            BY <1>1
        <2> QED
            BY <1>1, <2>1
    <1>4. S * (-1) = -S /\ S * 0 = 0 /\ S * 1 = S
        OBVIOUS
    <1>5. d = -1 \/ d = 0 \/ d = 1
        BY <1>1, <1>2, <1>3
    <1> QED
        BY <1>1, <1>4, <1>5 DEF e

\* Where an address is in a run that starts at a.
LEMMA PlaceIs ==
    ASSUME NEW a \in Addr, NEW x \in Addr
    PROVE  LET i == 1 + ((x - a) % AddrSpace)
           IN  /\ i \in 1..AddrSpace /\ Plus(a, i - 1) = x
               /\ \A j \in 1..AddrSpace : Plus(a, j - 1) = x => j = i
    <1> DEFINE S == AddrSpace
               i == 1 + ((x - a) % S)
    <1>1. S \in Nat \ {0} /\ a \in 0..(S - 1) /\ x \in 0..(S - 1)
        BY Space DEF Addr
    <1> HIDE DEF S
    <1>2. i = 1 + (IF x < a THEN x - a + S ELSE x - a)
        <2> DEFINE z == x - a
        <2>1. z \in Int /\ -S <= z /\ z < 2 * S /\ z < S /\ (z < 0 <=> x < a)
            BY <1>1
        <2> HIDE DEF z
        <2>2. z % S = IF z < 0 THEN z + S ELSE IF z < S THEN z ELSE z - S
            BY <1>1, <2>1, Around
        <2> QED
            BY <2>1, <2>2 DEF z
    <1> HIDE DEF i
    <1>3. i \in 1..S
        BY <1>1, <1>2
    <1>4. ASSUME NEW j \in 1..S
          PROVE  Plus(a, j - 1) = IF a + j - 1 < S THEN a + j - 1 ELSE a + j - 1 - S
        <2> DEFINE z == a + (j - 1)
        <2>1. z \in Int /\ -S <= z /\ z < 2 * S /\ ~(z < 0) /\ z = a + j - 1
            BY <1>1, <1>4
        <2>2. Plus(a, j - 1) = z % S
            BY DEF Plus, S
        <2> HIDE DEF z
        <2>3. z % S = IF z < 0 THEN z + S ELSE IF z < S THEN z ELSE z - S
            BY <1>1, <2>1, Around
        <2>4. Plus(a, j - 1) = IF z < S THEN z ELSE z - S
            BY <2>1, <2>2, <2>3
        <2> QED
            BY <1>1, <2>1, <2>4
    <1>5. Plus(a, i - 1) = x
        BY <1>1, <1>2, <1>3, <1>4
    <1>6. ASSUME NEW j \in 1..S, Plus(a, j - 1) = x PROVE j = i
        BY <1>1, <1>2, <1>4, <1>6
    <1> QED
        BY <1>3, <1>5, <1>6 DEF S, i

\* A remainder of zero is a multiple.
LEMMA MultipleIs ==
    ASSUME NEW a \in Nat, NEW n \in Nat \ {0}
    PROVE  a % n = 0 <=> \E k \in 0..a : a = k * n
    <1> DEFINE q == a \div n
               r == a % n
    <1>1. a = n * q + r /\ q \in Nat /\ r \in 0..(n - 1)
        BY Divided
    <1> HIDE DEF q, r
    <1>2. ASSUME r = 0 PROVE \E k \in 0..a : a = k * n
        <2>1. n * q >= q /\ n * q = q * n
            BY <1>1
        <2>2. q \in 0..a /\ a = q * n
            BY <1>1, <1>2, <2>1
        <2> QED
            BY <2>2
    <1>3. ASSUME NEW k \in 0..a, a = k * n PROVE r = 0
        <2>1. a = n * k + 0 /\ k \in Nat /\ 0 \in 0..(n - 1)
            BY <1>3
        <2>2. q = k
            BY <2>1, Division DEF q
        <2> QED
            BY <1>1, <2>1, <2>2
    <1> QED
        BY <1>2, <1>3 DEF r

LEMMA WholeIs ==
    ASSUME NEW n \in Nat
    PROVE  WholeWords(n) \in Nat /\ WholeWords(n) <= n
    <1> DEFINE q == n \div WordSize
    <1>1. WordSize \in Nat \ {0}
        BY PagedMemoryAssumption
    <1>2. n = WordSize * q + (n % WordSize) /\ q \in Nat /\ n % WordSize \in 0..(WordSize - 1)
        BY <1>1, Divided
    <1> HIDE DEF q
    <1>3. WordSize * q = q * WordSize /\ q * WordSize \in Nat
        BY <1>1, <1>2
    <1> QED
        BY <1>2, <1>3 DEF WholeWords, q

LEMMA ClearBitIs ==
    ASSUME NEW x \in Nat
    PROVE  ClearBit(x) \in 0..x /\ ClearBit(x) % WordSize = x % WordSize
    <1> DEFINE W == WordSize
               q == x \div W
               r == x % W
    <1>1. W \in Nat \ {0}
        BY PagedMemoryAssumption
    <1>2. x = W * q + r /\ q \in Nat /\ r \in 0..(W - 1)
        BY <1>1, Divided
    <1>3. CASE ClearBit(x) = x
        BY <1>3
    <1>4. CASE ClearBit(x) # x
        <2>1. q % 2 = 1 /\ ClearBit(x) = x - W
            BY <1>4 DEF ClearBit
        <2> HIDE DEF W, q, r
        <2>2. q - 1 \in Nat
            BY <1>2, <2>1
        <2>3. x - W = W * (q - 1) + r /\ W * (q - 1) \in Nat
            <3>1. W * (q - 1) = W * q - W /\ W * (q - 1) >= 0 /\ W * q \in Int
                BY <1>1, <1>2, <2>2
            <3> QED
                BY <1>1, <1>2, <3>1
        <2>4. x - W \in Nat
            BY <1>2, <2>3
        <2> DEFINE y == x - W
                   p == y \div W
                   e == y % W
        <2>5. p = q - 1
            BY <1>1, <1>2, <2>2, <2>3, <2>4, Division
        <2>6. y = W * p + e /\ e \in 0..(W - 1)
            BY <1>1, <2>4, Divided
        <2> HIDE DEF p, e
        <2>7. e = r
            <3>1. W * p = W * (q - 1)
                BY <2>5
            <3> QED
                BY <1>2, <2>3, <2>6, <3>1
        <2>8. y \in 0..x
            BY <1>1, <2>4
        <2> QED
            BY <2>1, <2>7, <2>8 DEF e, r, W
    <1> QED
        BY <1>3, <1>4
-----------------------------------------------------------------------------
(* Calls.                                                                  *)

\* What a caller passes.
CallOK ==
    /\ call.addr \in Addr /\ call.len \in Nat
    /\ call.data \in Seq(Byte) /\ Len(call.data) <= AddrSpace
    /\ call.fn \in {"access_write", "bcopy_write", "bcopy4_write"} => call.len = Len(call.data)
    /\ call.fn = "bzero" => call.len <= AddrSpace

LEMMA DataOK ==
    ASSUME NEW data \in Data
    PROVE  data \in Seq(Byte) /\ Len(data) \in Nat /\ Len(data) <= AddrSpace
    <1>1. PICK n \in 0..MaxRun : data \in [1..n -> Byte]
        BY DEF Data
    <1>2. MaxRun \in Nat /\ MaxRun <= AddrSpace /\ n \in Nat
        BY <1>1, PagedMemoryAssumption DEF AddrSpace
    <1>3. data \in Seq(Byte) /\ Len(data) = n
        BY <1>1, <1>2
    <1> QED
        BY <1>1, <1>2, <1>3, Space

LEMMA AskKeeps ==
    ASSUME Ask, CallOK
    PROVE  CallOK'
    <1>1. PICK a \in Addr :
            \/ \E fn \in {"access_read", "bcopy_read", "bcopy4_read"}, n \in 0..MaxRead : Asks(fn, a, n, <<>>)
            \/ \E n \in 0..MaxRun : Asks("bzero", a, n, <<>>)
            \/ \E fn \in {"access_write", "bcopy_write", "bcopy4_write"}, data \in Data : Asks(fn, a, Len(data), data)
            \/ \E str \in Strings : Asks("strcpy_write", a, Len(str), str)
            \/ Asks("strcpy_read", a, 0, <<>>)
            \/ \E len \in 1..MaxRead : Asks("dump", a, len, <<>>)
        BY DEF Ask
    <1>2. 0..MaxRead \subseteq Nat /\ 1..MaxRead \subseteq Nat /\ \A n \in 0..MaxRun : n \in Nat /\ n <= AddrSpace
        <2>1. MaxRead \in Nat /\ MaxRun \in Nat /\ MaxRun <= AddrSpace /\ AddrSpace \in Nat
            BY PagedMemoryAssumption, Space DEF AddrSpace
        <2> QED
            BY <2>1
    <1>3. <<>> \in Seq(Byte) /\ Len(<<>>) = 0 /\ 0 <= AddrSpace
        BY Space
    <1>4. ASSUME NEW fn \in {"access_read", "bcopy_read", "bcopy4_read"}, NEW n \in 0..MaxRead, Asks(fn, a, n, <<>>)
          PROVE  CallOK'
        BY <1>2, <1>3, <1>4 DEF Asks, CallOK
    <1>5. ASSUME NEW n \in 0..MaxRun, Asks("bzero", a, n, <<>>) PROVE CallOK'
        BY <1>2, <1>3, <1>5 DEF Asks, CallOK
    <1>6. ASSUME NEW fn \in {"access_write", "bcopy_write", "bcopy4_write"}, NEW data \in Data,
                 Asks(fn, a, Len(data), data)
          PROVE  CallOK'
        BY <1>6, DataOK DEF Asks, CallOK
    <1>7. ASSUME NEW str \in Strings, Asks("strcpy_write", a, Len(str), str) PROVE CallOK'
        <2>1. str \in Data
            BY DEF Strings
        <2> QED
            BY <1>7, <2>1, DataOK DEF Asks, CallOK
    <1>8. ASSUME Asks("strcpy_read", a, 0, <<>>) PROVE CallOK'
        BY <1>3, <1>8 DEF Asks, CallOK
    <1>9. ASSUME NEW len \in 1..MaxRead, Asks("dump", a, len, <<>>) PROVE CallOK'
        BY <1>2, <1>3, <1>9 DEF Asks, CallOK
    <1> QED
        BY <1>1, <1>4, <1>5, <1>6, <1>7, <1>8, <1>9

\* The sizes and addresses mem_access refuses are the ones that do not fit.
LEMMA FitsIs ==
    ASSUME CallOK, NEW n \in Nat
    PROVE  Fault(call.addr, n) <=> ~Flat!Fits(n)
    <1> DEFINE a == call.addr
    <1>1. a \in Nat
        BY Space DEF CallOK
    <1>2. n \in PowersOfTwo <=> \E i \in 0..MD_PAGE_SIZE : n = 2^i
        BY DEF PowersOfTwo
    <1>3. (IF n = 0 THEN a # 0 ELSE a % n # 0) <=> ~\E k \in 0..a : a = k * n
        <2>1. CASE n = 0
            BY <1>1, <2>1
        <2>2. CASE n # 0
            BY <1>1, <2>2, MultipleIs
        <2> QED
            BY <2>1, <2>2
    <1>4. n > MD_PAGE_SIZE <=> ~(n <= MD_PAGE_SIZE)
        BY PagedMemoryAssumption
    <1> HIDE DEF a
    <1> QED
        BY <1>2, <1>3, <1>4 DEF a, Fault, Flat!Fits

\* A run read from an address a call named.
LEMMA GetIs ==
    ASSUME MemOK(mem), NEW a \in Addr, NEW n \in Nat, mem' = ReadRun(mem, a, n).m
    PROVE  /\ MemOK(mem') /\ Bytes' = Bytes
           /\ ReadRun(mem, a, n).vals = [i \in 1..n |-> Bytes[(a + i - 1) % AddrSpace]]
           /\ \A i \in 1..n : /\ Plus(a, i - 1) \in Addr /\ Plus(a, i - 1) = (a + i - 1) % AddrSpace
                              /\ At(mem, Plus(a, i - 1)) = Bytes[(a + i - 1) % AddrSpace]
    <1>1. a \in Nat
        BY Space
    <1>2. MemOK(mem') /\ Same(mem, mem') /\ ReadRun(mem, a, n).vals = [i \in 1..n |-> At(mem, Plus(a, i - 1))]
        BY <1>1, ReadRunReturns
    <1>3. Bytes' = Bytes
        <2>1. \A x \in Addr : At(mem', x) = At(mem, x)
            BY <1>2, SameAt
        <2> QED
            BY <2>1 DEF Bytes
    <1>4. ASSUME NEW i \in 1..n
          PROVE  /\ Plus(a, i - 1) \in Addr /\ Plus(a, i - 1) = (a + i - 1) % AddrSpace
                 /\ At(mem, Plus(a, i - 1)) = Bytes[(a + i - 1) % AddrSpace]
        <2>1. Plus(a, i - 1) \in Addr
            BY <1>1, PlusIn
        <2>2. Plus(a, i - 1) = (a + i - 1) % AddrSpace
            <3>1. a + (i - 1) = a + i - 1
                BY <1>1
            <3> QED
                BY <3>1 DEF Plus
        <2> QED
            BY <2>1, <2>2 DEF Bytes
    <1>5. ReadRun(mem, a, n).vals = [i \in 1..n |-> Bytes[(a + i - 1) % AddrSpace]]
        BY <1>2, <1>4
    <1> QED
        BY <1>2, <1>3, <1>4, <1>5

LEMMA Gets ==
    ASSUME MemOK(mem), CallOK, NEW n \in Nat, mem_bcopy_read(call.addr, n)
    PROVE  MemOK(mem') /\ Flat!Get(n) /\ Len(reply') = n
    <1>1. call.addr \in Addr
        BY DEF CallOK
    <1>2. mem' = ReadRun(mem, call.addr, n).m /\ reply' = ReadRun(mem, call.addr, n).vals
        BY DEF mem_bcopy_read, Returns
    <1>3. /\ MemOK(mem') /\ Bytes' = Bytes
          /\ ReadRun(mem, call.addr, n).vals = [i \in 1..n |-> Bytes[(call.addr + i - 1) % AddrSpace]]
        BY <1>1, <1>2, GetIs
    <1>4. reply' = [i \in 1..n |-> Bytes[(call.addr + i - 1) % AddrSpace]]
        BY <1>2, <1>3
    <1>5. Len(reply') = n
        BY <1>4
    <1> QED
        BY <1>3, <1>4, <1>5 DEF Flat!Get, Flat!Place

\* A run written leaves its data, and every byte outside it as it was.
LEMMA Puts ==
    ASSUME MemOK(mem), CallOK, NEW data \in Seq(Byte), Len(data) <= AddrSpace, mem_bcopy_write(call.addr, data)
    PROVE  MemOK(mem') /\ Flat!Put(data)
    <1> DEFINE a == call.addr
               n == Len(data)
               at(x) == 1 + ((x - a) % AddrSpace)
    <1>1. a \in Addr /\ a \in Nat /\ n \in Nat
        <2>1. n \in Nat
            OBVIOUS
        <2>2. a \in Addr
            BY DEF CallOK
        <2> QED
            BY <2>1, <2>2, Space
    <1>2. mem' = WriteRun(mem, a, data) /\ reply' = <<>>
        BY DEF mem_bcopy_write, Returns
    <1>3. /\ MemOK(mem')
          /\ \A x \in Addr : (\A i \in 1..n : Plus(a, i - 1) # x) => At(mem', x) = At(mem, x)
          /\ \A i \in 1..n : (\A j \in (i + 1)..n : Plus(a, j - 1) # Plus(a, i - 1)) => At(mem', Plus(a, i - 1)) = data[i]
        <2> HIDE DEF a, at
        <2>1. LET w == WriteRun(mem, a, data)
              IN  /\ MemOK(w)
                  /\ \A x \in Addr : (\A i \in 1..n : Plus(a, i - 1) # x) => At(w, x) = At(mem, x)
                  /\ \A i \in 1..n : (\A j \in (i + 1)..n : Plus(a, j - 1) # Plus(a, i - 1))
                                     => At(w, Plus(a, i - 1)) = data[i]
            BY <1>1, WriteRunStores, ZenonT(60)
        <2> QED
            BY <1>2, <2>1
    <1>4. \A i \in 1..n : i \in 1..AddrSpace
        BY <1>1, Space
    <1>5. ASSUME NEW x \in Addr
          PROVE  At(mem', x) = IF at(x) <= n THEN data[at(x)] ELSE Bytes[x]
        <2> DEFINE i == at(x)
        <2>1. /\ i \in 1..AddrSpace /\ Plus(a, i - 1) = x
              /\ \A j \in 1..AddrSpace : Plus(a, j - 1) = x => j = i
            BY <1>1, PlaceIs
        <2> HIDE DEF i
        <2>2. CASE i <= n
            <3>1. i \in 1..n
                BY <1>1, <2>1, <2>2
            <3>2. ASSUME NEW j \in (i + 1)..n PROVE Plus(a, j - 1) # Plus(a, i - 1)
                <4>1. j \in 1..n /\ j # i
                    BY <3>1
                <4> QED
                    BY <1>4, <2>1, <4>1
            <3>3. At(mem', x) = data[i]
                BY <1>3, <2>1, <3>1, <3>2
            <3> QED
                BY <2>2, <3>3 DEF i
        <2>3. CASE ~(i <= n)
            <3>1. ASSUME NEW j \in 1..n PROVE Plus(a, j - 1) # x
                <4>1. j # i
                    BY <1>1, <2>1, <2>3
                <4> QED
                    BY <1>4, <2>1, <4>1
            <3>2. At(mem', x) = At(mem, x)
                BY <1>3, <3>1
            <3> QED
                BY <2>3, <3>2 DEF Bytes, i
        <2> QED
            BY <2>2, <2>3
    <1>6. Bytes' = [x \in Addr |-> At(mem', x)]
        BY DEF Bytes
    <1>7. Bytes' = [x \in Addr |-> IF at(x) <= n THEN data[at(x)] ELSE Bytes[x]]
        BY <1>5, <1>6
    <1> QED
        BY <1>2, <1>3, <1>7 DEF Flat!Put, Flat!Addr, Addr

LEMMA Refuses ==
    ASSUME MemOK(mem), Returns(mem, <<-1>>)
    PROVE  MemOK(mem') /\ Flat!Refuse
    BY DEF Returns, Flat!Refuse, Bytes

LEMMA Dumps ==
    ASSUME MemOK(mem), CallOK, mem_dump(call.addr, call.len), call.fn = "dump"
    PROVE  MemOK(mem') /\ Flat!Dump
    <1> DEFINE words == ClearBit(call.len + WordSize - 1)
               first == ClearBit(call.addr)
               n == words * WordSize
               r == ReadRun(mem, first, n)
    <1>1. WordSize \in Nat \ {0} /\ call.addr \in Nat /\ call.addr \in Addr /\ call.len \in Nat
        BY PagedMemoryAssumption, Space DEF CallOK
    <1>2. words \in Nat /\ n \in Nat
        <2>1. call.len + WordSize - 1 \in Nat
            BY <1>1
        <2>2. words \in 0..(call.len + WordSize - 1)
            BY <2>1, ClearBitIs
        <2> HIDE DEF words
        <2>3. words \in Nat
            BY <2>1, <2>2
        <2> QED
            BY <1>1, <2>3
    <1>3. first \in Addr /\ first \in Nat /\ first % WordSize = call.addr % WordSize
        <2>1. first \in 0..call.addr /\ first % WordSize = call.addr % WordSize
            BY <1>1, ClearBitIs
        <2> HIDE DEF first
        <2> QED
            BY <1>1, <2>1, Space DEF Addr
    <1>4. CASE words > 0 /\ Fault(first, WordSize)
        <2>1. Returns(mem, <<-1>>)
            BY <1>4 DEF mem_dump
        <2>2. Fault(call.addr, WordSize)
            BY <1>1, <1>3, <1>4 DEF Fault
        <2>3. ~Flat!Fits(WordSize)
            BY <1>1, <2>2, FitsIs
        <2> QED
            BY <2>1, <2>3, Refuses DEF Flat!Dump
    <1>5. CASE ~(words > 0 /\ Fault(first, WordSize))
        <2>1. mem' = r.m /\ reply' = [i \in 1..n |-> <<Plus(first, i - 1), r.vals[i]>>]
            BY <1>5 DEF mem_dump, Returns
        <2> HIDE DEF words, first
        <2> HIDE DEF n
        <2>2. /\ MemOK(mem') /\ Bytes' = Bytes
              /\ r.vals = [i \in 1..n |-> Bytes[(first + i - 1) % AddrSpace]]
              /\ \A i \in 1..n : /\ Plus(first, i - 1) \in Addr /\ Plus(first, i - 1) = (first + i - 1) % AddrSpace
                                 /\ At(mem, Plus(first, i - 1)) = Bytes[(first + i - 1) % AddrSpace]
            BY <1>2, <1>3, <2>1, GetIs
        <2> HIDE DEF r
        <2>3. Len(reply') = n
            BY <1>2, <2>1
        <2>4. ASSUME NEW i \in 1..Len(reply') PROVE reply'[i][1] \in Addr /\ reply'[i][2] = Bytes[reply'[i][1]]
            <3>1. i \in 1..n
                BY <2>3
            <3>2. reply'[i] = <<Plus(first, i - 1), r.vals[i]>>
                BY <2>1, <3>1
            <3>3. r.vals[i] = Bytes[(first + i - 1) % AddrSpace]
                BY <2>2, <3>1
            <3> QED
                BY <2>2, <3>1, <3>2, <3>3
        <2>5. Flat!Dump
            BY <2>2, <2>4 DEF Flat!Dump, Flat!Addr, Addr
        <2> QED
            BY <2>2, <2>5
    <1> QED
        BY <1>4, <1>5
-----------------------------------------------------------------------------
(* The invariant and the array of bytes.                                   *)

LEMMA Created == MemOK(mem_create) /\ \A x \in Addr : At(mem_create, x) = 0
    <1> DEFINE t == [k \in Sets |-> <<>>]
    <1>1. mem_create.ptab = t /\ mem_create.page_count = 0 /\ mem_create.ptab_misses = 0 /\ mem_create.ptab_accesses = 0
        BY DEF mem_create
    <1>2. t \in [Sets -> Seq(EntrySet)] /\ DOMAIN t = Sets /\ \A k \in Sets : t[k] = <<>>
        OBVIOUS
    <1>3. ToSet(<<>>) = {} /\ OneToOne(<<>>)
        BY DEF ToSet, OneToOne
    <1>4. TableOK(t)
        BY <1>2, <1>3 DEF TableOK, ChainOK
    <1>5. IsFiniteSet(Places(t)) /\ Cardinality(Places(t)) = 0
        BY <1>2, PlacesEmpty
    <1> HIDE DEF t
    <1>6. MemOK(mem_create)
        <2>1. mem_create \in [ptab : [Sets -> Seq(EntrySet)], page_count : Nat, ptab_misses : Nat, ptab_accesses : Nat]
            BY <1>2 DEF mem_create, t
        <2> QED
            BY <1>1, <1>4, <1>5, <2>1 DEF MemOK
    <1>7. ASSUME NEW x \in Addr PROVE At(mem_create, x) = 0
        <2>1. Bucket(mem_create, x) = <<>>
            BY <1>1, <1>2, <1>6, BucketOK
        <2> QED
            BY <1>3, <1>6, <2>1, AtIs
    <1> QED
        BY <1>6, <1>7

LEMMA Exact ==
    ASSUME MemOK(mem)
    PROVE  PageTableExact
    <1>1. PageStats
        BY DEF MemOK, PageStats, Pages, Places
    <1>2. ASSUME NEW k \in Sets, NEW i \in DOMAIN mem.ptab[k], NEW j \in DOMAIN mem.ptab[k],
                 mem.ptab[k][i].tag = mem.ptab[k][j].tag
          PROVE  i = j
        <2> DEFINE b == mem.ptab[k]
        <2>1. ChainOK(b)
            BY DEF MemOK, TableOK
        <2> HIDE DEF b
        <2>2. b[i] \in ToSet(b) /\ b[j] \in ToSet(b) /\ b[i].tag = b[j].tag
            BY <1>2 DEF b, ToSet
        <2>3. b[i] = b[j]
            BY <2>1, <2>2 DEF ChainOK
        <2> QED
            BY <2>1, <2>3 DEF ChainOK, OneToOne, b
    <1> QED
        BY <1>1, <1>2 DEF PageTableExact, UniquePages

\* Each function keeps the table right and does to the bytes what it promises.
LEMMA ServeIs ==
    ASSUME MemOK(mem), CallOK, Serve
    PROVE  MemOK(mem') /\ Flat!Serve
    <1> DEFINE a == call.addr
               Good == MemOK(mem') /\ Flat!Serve
    <1>1. call.len \in Nat /\ call.data \in Seq(Byte) /\ Len(call.data) <= AddrSpace /\ Len(call.data) \in Nat
        BY DEF CallOK
    <1>2. call' = Flat!Idle
        BY DEF Serve, Idle, Flat!Idle
    <1>3. ASSUME call.fn = "access_read", mem_access_read(a, call.len) PROVE Good
        <2>1. Fault(a, call.len) <=> ~Flat!Fits(call.len)
            BY <1>1, FitsIs
        <2>2. CASE Fault(a, call.len)
            <3>1. Returns(mem, <<-1>>)
                BY <1>3, <2>2 DEF mem_access_read
            <3> QED
                BY <1>2, <1>3, <2>1, <2>2, <3>1, Refuses DEF Flat!Serve, Flat!Access
        <2>3. CASE ~Fault(a, call.len)
            <3>1. mem_bcopy_read(a, call.len)
                BY <1>3, <2>3 DEF mem_access_read, mem_bcopy_read
            <3> QED
                BY <1>1, <1>2, <1>3, <2>1, <2>3, <3>1, Gets DEF Flat!Serve, Flat!Access
        <2> QED
            BY <2>2, <2>3
    <1>4. ASSUME call.fn = "access_write", mem_access_write(a, call.data) PROVE Good
        <2>1. call.len = Len(call.data) /\ (Fault(a, call.len) <=> ~Flat!Fits(call.len))
            BY <1>1, <1>4, FitsIs DEF CallOK
        <2>2. CASE Fault(a, call.len)
            <3>1. Returns(mem, <<-1>>)
                BY <1>4, <2>1, <2>2 DEF mem_access_write
            <3> QED
                BY <1>2, <1>4, <2>1, <2>2, <3>1, Refuses DEF Flat!Serve, Flat!Access
        <2>3. CASE ~Fault(a, call.len)
            <3>1. mem_bcopy_write(a, call.data)
                BY <1>4, <2>1, <2>3 DEF mem_access_write, mem_bcopy_write
            <3> QED
                BY <1>1, <1>2, <1>4, <2>1, <2>3, <3>1, Puts DEF Flat!Serve, Flat!Access
        <2> QED
            BY <2>2, <2>3
    <1>5. ASSUME call.fn = "bcopy_read", mem_bcopy_read(a, call.len) PROVE Good
        BY <1>1, <1>2, <1>5, Gets DEF Flat!Serve, Flat!Copy
    <1>6. ASSUME call.fn = "bcopy_write", mem_bcopy_write(a, call.data) PROVE Good
        BY <1>1, <1>2, <1>6, Puts DEF Flat!Serve, Flat!Copy
    <1>7. ASSUME call.fn = "bzero", mem_bzero(a, call.len) PROVE Good
        <2> DEFINE data == [i \in 1..call.len |-> 0]
        <2>1. data \in Seq(Byte) /\ Len(data) = call.len /\ call.len <= AddrSpace
            BY <1>1, <1>7, PagedMemoryAssumption DEF CallOK
        <2>2. mem_bcopy_write(a, data)
            BY <1>7 DEF mem_bzero
        <2> HIDE DEF data
        <2>3. MemOK(mem') /\ Flat!Put(data)
            BY <2>1, <2>2, Puts
        <2> QED
            BY <1>2, <1>7, <2>3 DEF Flat!Serve, Flat!Copy, data
    <1>8. /\ WordSize \in Nat /\ \A n \in Nat : Flat!Whole(n) = WholeWords(n)
          /\ (Fault(a, WordSize) <=> ~Flat!Fits(WordSize))
        BY PagedMemoryAssumption, FitsIs DEF Flat!Whole, WholeWords
    <1> DEFINE n == WholeWords(call.len)
    <1>9. n \in Nat /\ n <= call.len /\ Flat!Whole(call.len) = n /\ (WordsFault(a, call.len) <=> (n > 0 /\ ~Flat!Fits(WordSize)))
        BY <1>1, <1>8, WholeIs DEF WordsFault
    <1>10. ASSUME call.fn = "bcopy4_read", mem_bcopy4_read(a, call.len) PROVE Good
        <2>1. CASE WordsFault(a, call.len)
            <3>1. Returns(mem, <<-1>>)
                BY <1>10, <2>1 DEF mem_bcopy4_read
            <3> QED
                BY <1>2, <1>9, <1>10, <2>1, <3>1, Refuses DEF Flat!Serve, Flat!Words
        <2>2. CASE ~WordsFault(a, call.len)
            <3>1. mem_bcopy_read(a, n)
                BY <1>10, <2>2 DEF mem_bcopy4_read
            <3>2. MemOK(mem') /\ Flat!Get(n)
                BY <1>9, <3>1, Gets
            <3> QED
                BY <1>2, <1>9, <1>10, <2>2, <3>2 DEF Flat!Serve, Flat!Words
        <2> QED
            BY <2>1, <2>2
    <1>11. ASSUME call.fn = "bcopy4_write", mem_bcopy4_write(a, call.data) PROVE Good
        <2>1. call.len = Len(call.data)
            BY <1>11 DEF CallOK
        <2>2. CASE WordsFault(a, call.len)
            <3>1. Returns(mem, <<-1>>)
                BY <1>11, <2>1, <2>2 DEF mem_bcopy4_write
            <3> QED
                BY <1>2, <1>9, <1>11, <2>2, <3>1, Refuses DEF Flat!Serve, Flat!Words
        <2>3. CASE ~WordsFault(a, call.len)
            <3> DEFINE part == SubSeq(call.data, 1, n)
            <3>1. mem_bcopy_write(a, part)
                BY <1>11, <2>1, <2>3 DEF mem_bcopy4_write
            <3>2. part \in Seq(Byte) /\ Len(part) <= AddrSpace
                <4> HIDE DEF n
                <4>1. part \in Seq(Byte) /\ Len(part) = n
                    BY <1>1, <1>9, <2>1
                <4> QED
                    BY <1>1, <1>9, <2>1, <4>1, Space
            <3> HIDE DEF part
            <3>3. MemOK(mem') /\ Flat!Put(part)
                BY <3>1, <3>2, Puts
            <3> QED
                BY <1>2, <1>9, <1>11, <2>3, <3>3 DEF Flat!Serve, Flat!Words, part
        <2> QED
            BY <2>2, <2>3
    <1>12. ASSUME call.fn = "strcpy_read", mem_strcpy_read(a) PROVE Good
        <2>1. PICK m \in 1..MaxRead :
                (\A i \in 1..m : (At(mem, Plus(a, i - 1)) = 0) = (i = m)) /\ mem_bcopy_read(a, m)
            BY <1>12 DEF mem_strcpy_read
        <2>2. m \in Nat /\ m > 0
            BY <2>1, PagedMemoryAssumption
        <2>3. MemOK(mem') /\ Flat!Get(m) /\ Len(reply') = m
            BY <2>1, <2>2, Gets
        <2>4. ASSUME NEW i \in 1..m PROVE (Bytes[Flat!Place(i)] = 0) = (i = m)
            <3>1. a \in Addr /\ mem' = ReadRun(mem, a, m).m
                BY <2>1 DEF mem_bcopy_read, Returns, CallOK
            <3>2. At(mem, Plus(a, i - 1)) = Bytes[(a + i - 1) % AddrSpace]
                BY <2>2, <3>1, GetIs
            <3> QED
                BY <2>1, <3>2 DEF Flat!Place
        <2> QED
            BY <1>2, <1>12, <2>2, <2>3, <2>4 DEF Flat!Serve, Flat!String
    <1>13. ASSUME call.fn = "strcpy_write", mem_strcpy_write(a, call.data) PROVE Good
        <2>1. MemOK(mem') /\ Flat!Put(call.data)
            BY <1>1, <1>13, Puts DEF mem_strcpy_write
        <2> QED
            BY <1>2, <1>13, <2>1 DEF Flat!Serve, Flat!String
    <1>14. ASSUME call.fn = "dump", mem_dump(a, call.len) PROVE Good
        BY <1>2, <1>14, Dumps DEF Flat!Serve
    <1> HIDE DEF Good, a
    <1> QED
        BY <1>3, <1>4, <1>5, <1>6, <1>7, <1>10, <1>11, <1>12, <1>13, <1>14 DEF Serve, Good, a

\* A step keeps the table right and is a step of the array of bytes.
LEMMA StepKeeps ==
    ASSUME MemOK(mem), CallOK, MemNext
    PROVE  MemOK(mem') /\ CallOK' /\ Flat!Next
    <1>1. CASE Ask
        <2>1. mem' = mem /\ reply' = reply /\ reply = <<>> /\ call = Flat!Idle
            BY <1>1 DEF Ask, Idle, Flat!Idle
        <2>2. Flat!Ask
            BY <2>1 DEF Flat!Ask, Bytes
        <2> QED
            BY <1>1, <2>1, <2>2, AskKeeps DEF Flat!Next
    <1>2. CASE Serve
        <2>1. CallOK'
            <3>1. call' = [fn |-> "none", addr |-> 0, len |-> 0, data |-> <<>>]
                BY <1>2 DEF Serve, Idle
            <3>2. 0 \in Addr /\ 0 <= AddrSpace /\ <<>> \in Seq(Byte) /\ Len(<<>>) = 0
                BY Space DEF Addr
            <3> QED
                BY <3>1, <3>2 DEF CallOK
        <2> QED
            BY <1>2, <2>1, ServeIs DEF Flat!Next
    <1>3. CASE TakeReply
        BY <1>3 DEF TakeReply, CallOK, Flat!Next, Flat!Take, Bytes
    <1> QED
        BY <1>1, <1>2, <1>3 DEF MemNext

\* What holds at first, and of a step that changes nothing.
LEMMA InitIs ==
    ASSUME MemInit
    PROVE  MemOK(mem) /\ CallOK /\ Flat!Init
    <1>1. Bytes = [x \in Flat!Addr |-> 0]
        BY Created DEF MemInit, Bytes, Flat!Addr, Addr
    <1>2. call = [fn |-> "none", addr |-> 0, len |-> 0, data |-> <<>>]
        BY DEF MemInit, Idle
    <1>3. 0 \in Addr /\ 0 <= AddrSpace /\ <<>> \in Seq(Byte) /\ Len(<<>>) = 0
        BY Space DEF Addr
    <1>4. CallOK
        BY <1>2, <1>3 DEF CallOK
    <1> QED
        BY <1>1, <1>2, <1>4, Created DEF MemInit, Flat!Init, Flat!Idle

LEMMA RestIs ==
    ASSUME MemOK(mem), CallOK, UNCHANGED memVars
    PROVE  MemOK(mem') /\ CallOK' /\ UNCHANGED <<Bytes, call, reply>>
    BY DEF memVars, CallOK, Bytes

\* The page table of memory.c holds every page once, whatever is read and
\* written and however the chains are reordered, and counts its pages and its
\* first level misses right.
THEOREM PagesExact == MemSpec => []PageTableExact
    <1>1. MemInit => MemOK(mem) /\ CallOK
        BY InitIs
    <1>2. MemOK(mem) /\ CallOK /\ [MemNext]_memVars => MemOK(mem)' /\ CallOK'
        BY StepKeeps, RestIs
    <1>3. MemOK(mem) => PageTableExact
        BY Exact
    <1> QED
        BY <1>1, <1>2, <1>3, PTL DEF MemSpec

\* The pages implement an array of bytes: a call that reads returns what is at
\* the addresses it named, a call that writes leaves exactly its data at exactly
\* its addresses and every other byte alone, mem_strcpy stops at the first zero,
\* mem_dump shows with each address what is there, and a call is refused, and
\* then changes nothing, exactly when its size or address does not fit.
THEOREM PagesFlat == MemSpec => FlatView
    <1>1. MemInit => MemOK(mem) /\ CallOK /\ Flat!Init
        BY InitIs
    <1>2. MemOK(mem) /\ CallOK /\ [MemNext]_memVars => MemOK(mem)' /\ CallOK' /\ [Flat!Next]_<<Bytes, call, reply>>
        BY StepKeeps, RestIs
    <1> QED
        BY <1>1, <1>2, PTL DEF MemSpec, FlatView, Flat!Spec, Flat!flatVars
=============================================================================
