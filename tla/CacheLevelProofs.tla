-------------------------- MODULE CacheLevelProofs --------------------------
(***************************************************************************)
(* A cache of cache.c is the textbook cache of its policy, loses no write  *)
(* and keeps its lists, chains and fast path consistent, for every         *)
(* geometry, policy and sequence of calls.                                 *)
(***************************************************************************)
EXTENDS CacheLevel, ProofLemmas

BlkSet == [tag : Nat, valid : BOOLEAN, dirty : BOOLEAN, ready : Int]
Heads(x) == 0..(x.hsize - 1)
Fields == {"way", "hash", "blk", "last_tagset", "last_blk", "bus_free",
           "hits", "misses", "replacements", "writebacks", "invalidations"}
Shape(x, m) ==
    /\ DOMAIN m = Fields
    /\ m.way \in [SetsOf(x) -> Seq(Ways(x))] /\ m.hash \in [SetsOf(x) -> [Heads(x) -> Seq(Ways(x))]]
    /\ m.blk \in [SetsOf(x) -> [Ways(x) -> BlkSet]]
    /\ m.last_tagset \in Nat /\ m.last_blk \in Ways(x) \cup {0} /\ m.bus_free \in Int

\* A permutation of the ways.
WayOK(x, w) == w \in Seq(Ways(x)) /\ Len(w) = x.assoc /\ OneToOne(w) /\ ToSet(w) = Ways(x)

\* The chains of one set: each block is on that of its tag, once.
ChainsOK(x, hash, blk) ==
    x.hsize > 0 =>
        \A h \in Heads(x) : /\ OneToOne(hash[h])
                            /\ ToSet(hash[h]) = {i \in Ways(x) : CACHE_HASH(x, blk[i].tag) = h}

\* No block is held twice.
OnceOK(x, blk) == \A i, j \in Ways(x) : blk[i].valid /\ blk[j].valid /\ blk[i].tag = blk[j].tag => i = j

\* The fast path names a block that holds what it says, the head of an LRU list.
LastOK(x, m) ==
    m.last_blk # NULL =>
        LET k == CACHE_SET(x, m.last_tagset)
        IN  /\ m.blk[k][m.last_blk].valid /\ m.blk[k][m.last_blk].tag = CACHE_TAG(x, m.last_tagset)
            /\ x.policy = "LRU" => m.way[k][1] = m.last_blk

CacheOK(x, m) ==
    /\ Shape(x, m)
    /\ \A k \in SetsOf(x) : WayOK(x, m.way[k]) /\ ChainsOK(x, m.hash[k], m.blk[k]) /\ OnceOK(x, m.blk[k])
    /\ LastOK(x, m)

GeometryOK(x) ==
    /\ x.nsets \in Nat \ {0} /\ x.assoc \in Nat \ {0} /\ x.hit_latency \in Nat \ {0} /\ x.hsize \in Nat
    /\ x.policy \in {"LRU", "FIFO", "Random"} /\ x.blocks \subseteq Nat
-----------------------------------------------------------------------------
(* Block numbers, lists and the search.                                    *)

LEMMA Geometric ==
    ASSUME NEW x \in Geometries
    PROVE  GeometryOK(x)
    BY CacheLevelAssumption DEF GeometryOK

\* Tag and set name a block.
LEMMA Named ==
    ASSUME NEW x, GeometryOK(x), NEW b \in Nat
    PROVE  /\ CACHE_SET(x, b) \in SetsOf(x) /\ CACHE_TAG(x, b) \in Nat
           /\ \A k \in SetsOf(x) : \A t \in Nat :
                 CACHE_MK_BADDR(x, t, k) \in Nat
                 /\ (CACHE_MK_BADDR(x, t, k) = b <=> k = CACHE_SET(x, b) /\ t = CACHE_TAG(x, b))
    <1> DEFINE n == x.nsets
               q == b \div n
               r == b % n
    <1>1. n \in Nat \ {0} /\ n \in Int /\ n > 0
        BY DEF GeometryOK
    <1>2. b = n * q + r /\ q \in Nat /\ r \in 0..(n - 1)
        <2> HIDE DEF n
        <2>1. b \in Int /\ b >= 0
            OBVIOUS
        <2> QED
            BY <1>1, <2>1, Divided
    <1>3. CACHE_SET(x, b) = r /\ CACHE_TAG(x, b) = q /\ SetsOf(x) = 0..(n - 1)
        BY DEF CACHE_SET, CACHE_TAG, SetsOf
    <1>4. ASSUME NEW k \in SetsOf(x), NEW t \in Nat
          PROVE  /\ CACHE_MK_BADDR(x, t, k) \in Nat
                 /\ (CACHE_MK_BADDR(x, t, k) = b <=> k = CACHE_SET(x, b) /\ t = CACHE_TAG(x, b))
        <2>1. CACHE_MK_BADDR(x, t, k) = n * t + k /\ k \in 0..(n - 1) /\ k \in Nat
            BY <1>1, <1>3 DEF CACHE_MK_BADDR
        <2>2. n * t \in Nat
            BY <1>1
        <2>3. n * t + k = b => b \div n = t
            BY <1>1, <2>1, Division
        <2>4. n * t + k = b => k = r
            <3> SUFFICES ASSUME n * t + k = b PROVE k = r
                OBVIOUS
            <3>1. t = q
                BY <2>3
            <3> HIDE DEF q, r, n
            <3>2. n * q \in Nat
                BY <1>1, <1>2
            <3> QED
                BY <1>2, <2>1, <3>1, <3>2
        <2> HIDE DEF q, r, n
        <2>5. CACHE_MK_BADDR(x, t, k) \in Nat
            BY <2>1, <2>2
        <2>6. CACHE_MK_BADDR(x, t, k) = b => k = r /\ t = q
            BY <2>1, <2>3, <2>4 DEF q
        <2>7. k = r /\ t = q => CACHE_MK_BADDR(x, t, k) = b
            BY <1>2, <2>1
        <2> QED
            BY <1>3, <2>5, <2>6, <2>7
    <1> QED
        BY <1>2, <1>3, <1>4

\* The place of an entry, which is what is unlinked.
LEMMA UnlinkIs ==
    ASSUME NEW S, NEW w \in Seq(S), OneToOne(w), NEW i \in ToSet(w)
    PROVE  \E p \in 1..Len(w) : w[p] = i /\ Unlink(w, i) = RemoveAt(w, p)
    <1>1. \E j \in DOMAIN w : w[j] = i
        BY DEF ToSet
    <1> DEFINE p == CHOOSE j \in DOMAIN w : w[j] = i
    <1>2. p \in DOMAIN w /\ w[p] = i
        BY <1>1
    <1>3. Unlink(w, i) = RemoveAt(w, p)
        BY DEF Unlink
    <1> HIDE DEF p
    <1> QED
        BY <1>2, <1>3

\* The search finds the valid block with the tag, on its chain or its list.
LEMMA SearchIs ==
    ASSUME NEW x, GeometryOK(x), NEW m, CacheOK(x, m), NEW b \in Nat
    PROVE  LET i == Search(x, m, b)
               k == CACHE_SET(x, b)
           IN  \/ i = NULL /\ \A j \in Ways(x) : ~(m.blk[k][j].valid /\ m.blk[k][j].tag = CACHE_TAG(x, b))
               \/ i \in Ways(x) /\ i # NULL /\ m.blk[k][i].valid /\ m.blk[k][i].tag = CACHE_TAG(x, b)
    <1> DEFINE k == CACHE_SET(x, b)
               t == CACHE_TAG(x, b)
               chain == IF x.hsize > 0 THEN m.hash[k][CACHE_HASH(x, t)] ELSE m.way[k]
               found == {j \in DOMAIN chain : m.blk[k][chain[j]].tag = t /\ m.blk[k][chain[j]].valid}
    <1>1. k \in SetsOf(x) /\ t \in Nat
        BY Named
    <1>2. x.hsize \in Nat /\ NULL = 0 /\ 0 \notin Ways(x)
        BY DEF GeometryOK, NULL, Ways
    <1>3. x.hsize > 0 => CACHE_HASH(x, t) \in Heads(x)
        BY <1>1, <1>2 DEF CACHE_HASH, Heads
    <1>4. chain \in Seq(Ways(x))
        BY <1>1, <1>3 DEF CacheOK, Shape
    <1>5. \A j \in Ways(x) : m.blk[k][j].tag = t => j \in ToSet(chain)
        <2>1. CASE x.hsize > 0
            BY <1>1, <1>3, <2>1 DEF CacheOK, ChainsOK
        <2>2. CASE ~(x.hsize > 0)
            BY <1>1, <2>2 DEF CacheOK, WayOK
        <2> QED
            BY <2>1, <2>2
    <1>6. Search(x, m, b) = IF found = {} THEN NULL ELSE chain[CHOOSE j \in found : \A l \in found : j <= l]
        BY DEF Search
    <1> HIDE DEF chain
    <1>7. CASE found = {}
        <2>1. ASSUME NEW j \in Ways(x), m.blk[k][j].valid, m.blk[k][j].tag = t PROVE FALSE
            <3>1. PICK p \in DOMAIN chain : chain[p] = j
                BY <1>5, <2>1 DEF ToSet
            <3> QED
                BY <1>7, <2>1, <3>1
        <2> QED
            BY <1>6, <1>7, <2>1
    <1>8. CASE found # {}
        <2> DEFINE p == CHOOSE j \in found : \A l \in found : j <= l
        <2>1. found \subseteq Nat
            BY <1>4
        <2>2. p \in found
            <3> HIDE DEF found
            <3> QED
                BY <1>8, <2>1, Least
        <2> HIDE DEF p
        <2>3. chain[p] \in Ways(x)
            <3>1. p \in DOMAIN chain
                BY <2>2
            <3> QED
                BY <1>4, <3>1
        <2>4. Search(x, m, b) = chain[p]
            BY <1>6, <1>8 DEF p
        <2> QED
            BY <1>2, <2>2, <2>3, <2>4
    <1> QED
        BY <1>7, <1>8
-----------------------------------------------------------------------------
(* Hits.                                                                   *)

\* Moving a way to either end of its list keeps a permutation.
LEMMA ListUpdated ==
    ASSUME NEW x, GeometryOK(x), NEW w, WayOK(x, w), NEW i \in Ways(x), NEW where \in {"Head", "Tail"}
    PROVE  LET r == update_way_list(w, i, where)
           IN  /\ WayOK(x, r)
               /\ \E p \in 1..x.assoc :
                     /\ w[p] = i
                     /\ where = "Head" => /\ r[1] = i /\ \A j \in 1..(p - 1) : r[j + 1] = w[j]
                                          /\ \A j \in (p + 1)..x.assoc : r[j] = w[j]
                     /\ where = "Tail" => /\ r[x.assoc] = i /\ \A j \in 1..(p - 1) : r[j] = w[j]
                                          /\ \A j \in p..(x.assoc - 1) : r[j] = w[j + 1]
    <1> DEFINE r == update_way_list(w, i, where)
    <1>1. w \in Seq(Ways(x)) /\ Len(w) = x.assoc /\ OneToOne(w) /\ ToSet(w) = Ways(x) /\ i \in ToSet(w)
        BY DEF WayOK
    <1>2. PICK p \in 1..Len(w) : w[p] = i /\ Unlink(w, i) = RemoveAt(w, p)
        BY <1>1, UnlinkIs
    <1>3. CASE where = "Head"
        <2>1. r = <<w[p]>> \o RemoveAt(w, p)
            BY <1>2, <1>3 DEF update_way_list
        <2> HIDE DEF r
        <2>2. r \in Seq(Ways(x)) /\ Len(r) = Len(w) /\ OneToOne(r) /\ ToSet(r) = ToSet(w)
            BY <1>1, <2>1, FrontIs
        <2>3. r[1] = w[p] /\ (\A j \in 1..(p - 1) : r[j + 1] = w[j]) /\ (\A j \in (p + 1)..Len(w) : r[j] = w[j])
            BY <1>1, <2>1, FrontAt
        <2> QED
            BY <1>1, <1>2, <1>3, <2>2, <2>3 DEF WayOK, r
    <1>4. CASE where = "Tail"
        <2>1. r = Append(RemoveAt(w, p), w[p])
            BY <1>2, <1>4 DEF update_way_list
        <2> HIDE DEF r
        <2>2. /\ r \in Seq(Ways(x)) /\ Len(r) = Len(w) /\ OneToOne(r) /\ ToSet(r) = ToSet(w)
              /\ r[Len(w)] = w[p] /\ (\A j \in 1..(p - 1) : r[j] = w[j])
              /\ \A j \in p..(Len(w) - 1) : r[j] = w[j + 1]
            BY <1>1, <2>1, TailIs
        <2> QED
            BY <1>1, <1>2, <1>4, <2>2 DEF WayOK, r
    <1> QED
        BY <1>3, <1>4

\* The list r is w with the entry i taken to its head, or to its tail.
ToHead(x, w, i, r) ==
    \E p \in 1..x.assoc : /\ w[p] = i /\ r[1] = i
                          /\ \A j \in 1..(p - 1) : r[j + 1] = w[j]
                          /\ \A j \in (p + 1)..x.assoc : r[j] = w[j]
ToTail(x, w, i, r) ==
    \E p \in 1..x.assoc : /\ w[p] = i /\ r[x.assoc] = i
                          /\ \A j \in 1..(p - 1) : r[j] = w[j]
                          /\ \A j \in p..(x.assoc - 1) : r[j] = w[j + 1]

LEMMA HeadMoved ==
    ASSUME NEW x, GeometryOK(x), NEW w, WayOK(x, w), NEW i \in Ways(x)
    PROVE  ToHead(x, w, i, update_way_list(w, i, "Head"))
    <1>1. "Head" \in {"Head", "Tail"}
        OBVIOUS
    <1> QED
        BY <1>1, ListUpdated DEF ToHead

LEMMA TailMoved ==
    ASSUME NEW x, GeometryOK(x), NEW w, WayOK(x, w), NEW i \in Ways(x)
    PROVE  ToTail(x, w, i, update_way_list(w, i, "Tail"))
    <1>1. "Tail" \in {"Head", "Tail"}
        OBVIOUS
    <1> QED
        BY <1>1, ListUpdated DEF ToTail

\* Blocks with the same tags, and no more of them valid.
Alike(x, blk, old) == \A j \in Ways(x) : blk[j].tag = old[j].tag /\ (blk[j].valid => old[j].valid)

LEMMA AlikeKeeps ==
    ASSUME NEW x, NEW hash, NEW blk, NEW old, Alike(x, blk, old)
    PROVE  (ChainsOK(x, hash, old) => ChainsOK(x, hash, blk)) /\ (OnceOK(x, old) => OnceOK(x, blk))
    <1>1. ASSUME NEW h PROVE {i \in Ways(x) : CACHE_HASH(x, blk[i].tag) = h} = {i \in Ways(x) : CACHE_HASH(x, old[i].tag) = h}
        BY DEF Alike
    <1> QED
        BY <1>1 DEF Alike, ChainsOK, OnceOK

\* Way i holds the block b.
Found(x, m, b, i) == m.blk[CACHE_SET(x, b)][i].valid /\ m.blk[CACHE_SET(x, b)][i].tag = CACHE_TAG(x, b)

\* What a hit changes: the order of an LRU list and the dirty bit.
HitOnly(x, m, cmd, b, i, slow, w) ==
    LET k == CACHE_SET(x, b)
    IN  /\ w.way = [m.way EXCEPT ![k] = IF slow /\ x.policy = "LRU" THEN update_way_list(@, i, "Head") ELSE @]
        /\ w.blk = [m.blk EXCEPT ![k] = [@ EXCEPT ![i] = w.blk[k][i]]]
        /\ w.blk[k][i].tag = m.blk[k][i].tag /\ w.blk[k][i].valid /\ w.blk[k][i].ready = m.blk[k][i].ready
        /\ w.blk[k][i].dirty <=> m.blk[k][i].dirty \/ cmd = "Write"

LEMMA HitKeeps ==
    ASSUME NEW x, GeometryOK(x), NEW m, CacheOK(x, m), NEW cmd, NEW b \in Nat, NEW i \in Ways(x), NEW t,
           Found(x, m, b, i), NEW slow, ~slow => m.last_tagset = b /\ m.last_blk = i
    PROVE  CacheOK(x, Hit(x, m, cmd, b, i, t, slow).c) /\ HitOnly(x, m, cmd, b, i, slow, Hit(x, m, cmd, b, i, t, slow).c)
    <1> DEFINE k == CACHE_SET(x, b)
               e == m.blk[k][i]
               d == e.dirty \/ cmd = "Write"
               f == [e EXCEPT !.dirty = d]
               l == IF slow /\ x.policy = "LRU" THEN update_way_list(m.way[k], i, "Head") ELSE m.way[k]
               w == Hit(x, m, cmd, b, i, t, slow).c
    <1>1. k \in SetsOf(x) /\ NULL = 0 /\ i # 0 /\ e.valid /\ e.tag = CACHE_TAG(x, b)
        BY Named DEF NULL, Ways, Found
    <1>2. w = [m EXCEPT !.hits = @ + 1, !.blk[k][i].dirty = d, !.way[k] = l, !.last_tagset = b, !.last_blk = i]
        BY DEF Hit
    <1>3. Shape(x, m) /\ e \in BlkSet /\ d \in BOOLEAN
        BY <1>1 DEF CacheOK, Shape
    <1> HIDE DEF w, l, d
    <1>4. f \in BlkSet /\ f.tag = e.tag /\ f.valid = e.valid /\ f.ready = e.ready /\ f.dirty = d
        BY <1>3 DEF BlkSet
    <1>5. /\ DOMAIN w = Fields /\ w.way = [m.way EXCEPT ![k] = l] /\ w.hash = m.hash
          /\ w.blk = [m.blk EXCEPT ![k] = [m.blk[k] EXCEPT ![i] = f]]
          /\ w.last_tagset = b /\ w.last_blk = i /\ w.bus_free = m.bus_free
        BY <1>1, <1>2, <1>3 DEF Shape, Fields
    <1> HIDE DEF e, f
    <1>6. WayOK(x, l) /\ (x.policy = "LRU" => l[1] = i)
        <2>1. WayOK(x, m.way[k])
            BY <1>1 DEF CacheOK
        <2>2. CASE slow /\ x.policy = "LRU"
            <3>1. l = update_way_list(m.way[k], i, "Head")
                BY <2>2 DEF l
            <3> QED
                BY <2>1, <3>1, ListUpdated
        <2>3. CASE ~slow
            BY <1>1, <2>1, <2>3 DEF l, CacheOK, LastOK
        <2>4. CASE x.policy # "LRU"
            BY <2>1, <2>4 DEF l
        <2> QED
            BY <2>2, <2>3, <2>4
    <1>7. /\ w.way \in [SetsOf(x) -> Seq(Ways(x))] /\ w.way[k] = l /\ \A h \in SetsOf(x) : h # k => w.way[h] = m.way[h]
          /\ w.blk \in [SetsOf(x) -> [Ways(x) -> BlkSet]] /\ \A h \in SetsOf(x) : h # k => w.blk[h] = m.blk[h]
          /\ w.blk[k][i] = f /\ \A j \in Ways(x) : j # i => w.blk[k][j] = m.blk[k][j]
        BY <1>1, <1>3, <1>4, <1>5, <1>6 DEF Shape, WayOK
    <1>8. Shape(x, w)
        BY <1>3, <1>5, <1>7 DEF Shape
    <1>9. ASSUME NEW h \in SetsOf(x) PROVE WayOK(x, w.way[h]) /\ ChainsOK(x, w.hash[h], w.blk[h]) /\ OnceOK(x, w.blk[h])
        <2>1. WayOK(x, m.way[h]) /\ ChainsOK(x, m.hash[h], m.blk[h]) /\ OnceOK(x, m.blk[h])
            BY DEF CacheOK
        <2>2. Alike(x, w.blk[h], m.blk[h])
            BY <1>4, <1>7 DEF Alike, e
        <2> QED
            BY <1>5, <1>6, <1>7, <2>1, <2>2, AlikeKeeps
    <1>10. LastOK(x, w)
        BY <1>1, <1>4, <1>5, <1>6, <1>7 DEF LastOK, e
    <1>11. CacheOK(x, w)
        BY <1>8, <1>9, <1>10 DEF CacheOK
    <1>12. HitOnly(x, m, cmd, b, i, slow, w)
        BY <1>1, <1>4, <1>5, <1>7 DEF HitOnly, e, d, l
    <1> QED
        BY <1>11, <1>12 DEF w
-----------------------------------------------------------------------------
(* Misses.                                                                 *)

\* A block that is given another tag goes from one chain to another.
LEMMA ChainsMoved ==
    ASSUME NEW x, GeometryOK(x), x.hsize > 0, NEW hash \in [Heads(x) -> Seq(Ways(x))],
           NEW old \in [Ways(x) -> BlkSet], ChainsOK(x, hash, old), NEW i \in Ways(x), NEW new \in BlkSet
    PROVE  LET taken == unlink_htab_ent(x, hash, old[i].tag, i)
               r == link_htab_ent(x, taken, new.tag, i)
           IN  r \in [Heads(x) -> Seq(Ways(x))] /\ ChainsOK(x, r, [old EXCEPT ![i] = new])
    <1> DEFINE taken == unlink_htab_ent(x, hash, old[i].tag, i)
               r == link_htab_ent(x, taken, new.tag, i)
               h0 == CACHE_HASH(x, old[i].tag)
               h1 == CACHE_HASH(x, new.tag)
               on(h) == {j \in Ways(x) : CACHE_HASH(x, old[j].tag) = h}
    <1>1. x.hsize \in Nat \ {0} /\ old[i].tag \in Nat /\ new.tag \in Nat
        BY DEF GeometryOK, BlkSet
    <1>2. h0 \in Heads(x) /\ h1 \in Heads(x)
        BY <1>1 DEF CACHE_HASH, Heads
    <1>3. \A h \in Heads(x) : hash[h] \in Seq(Ways(x)) /\ OneToOne(hash[h]) /\ ToSet(hash[h]) = on(h)
        BY DEF ChainsOK
    <1>4. taken = [hash EXCEPT ![h0] = Unlink(hash[h0], i)]
        BY DEF unlink_htab_ent
    <1>5. Unlink(hash[h0], i) \in Seq(Ways(x)) /\ OneToOne(Unlink(hash[h0], i)) /\ ToSet(Unlink(hash[h0], i)) = on(h0) \ {i}
        <2>1. i \in ToSet(hash[h0])
            BY <1>2, <1>3
        <2>2. PICK p \in 1..Len(hash[h0]) : hash[h0][p] = i /\ Unlink(hash[h0], i) = RemoveAt(hash[h0], p)
            BY <1>2, <1>3, <2>1, UnlinkIs
        <2>3. RemoveAt(hash[h0], p) \in Seq(Ways(x))
            BY <1>2, <1>3, RemoveAtIs
        <2>4. OneToOne(RemoveAt(hash[h0], p)) /\ ToSet(RemoveAt(hash[h0], p)) = ToSet(hash[h0]) \ {hash[h0][p]}
            BY <1>2, <1>3, RemoveSet
        <2> QED
            BY <1>2, <1>3, <2>2, <2>3, <2>4
    <1> HIDE DEF taken, h0, h1
    <1>6. taken \in [Heads(x) -> Seq(Ways(x))] /\ \A h \in Heads(x) : OneToOne(taken[h]) /\ ToSet(taken[h]) = on(h) \ {i}
        <2>1. taken \in [Heads(x) -> Seq(Ways(x))] /\ taken[h0] = Unlink(hash[h0], i) /\ \A h \in Heads(x) : h # h0 => taken[h] = hash[h]
            BY <1>2, <1>4, <1>5
        <2>2. \A h \in Heads(x) : h # h0 => i \notin on(h)
            BY DEF h0
        <2> HIDE DEF on
        <2>3. ASSUME NEW h \in Heads(x), h # h0 PROVE OneToOne(taken[h]) /\ ToSet(taken[h]) = on(h) \ {i}
            BY <1>3, <2>1, <2>2, <2>3
        <2> QED
            BY <1>5, <2>1, <2>3
    <1>7. r = [taken EXCEPT ![h1] = <<i>> \o taken[h1]]
        BY DEF link_htab_ent, h1
    <1>8. /\ <<i>> \o taken[h1] \in Seq(Ways(x)) /\ OneToOne(<<i>> \o taken[h1])
          /\ ToSet(<<i>> \o taken[h1]) = {i} \cup (on(h1) \ {i})
        <2>1. i \notin ToSet(taken[h1]) /\ taken[h1] \in Seq(Ways(x)) /\ OneToOne(taken[h1]) /\ ToSet(taken[h1]) = on(h1) \ {i}
            BY <1>2, <1>6
        <2> HIDE DEF on
        <2> QED
            BY <2>1, ConsIs
    <1> HIDE DEF r
    <1>9. r \in [Heads(x) -> Seq(Ways(x))] /\ r[h1] = <<i>> \o taken[h1] /\ \A h \in Heads(x) : h # h1 => r[h] = taken[h]
        BY <1>2, <1>6, <1>7, <1>8
    <1>10. ASSUME NEW h \in Heads(x)
           PROVE  OneToOne(r[h]) /\ ToSet(r[h]) = {j \in Ways(x) : CACHE_HASH(x, [old EXCEPT ![i] = new][j].tag) = h}
        <2>1. CASE h = h1
            <3>1. {j \in Ways(x) : CACHE_HASH(x, [old EXCEPT ![i] = new][j].tag) = h} = {i} \cup (on(h) \ {i})
                BY <2>1 DEF h1
            <3> QED
                BY <1>8, <1>9, <2>1, <3>1
        <2>2. CASE h # h1
            <3>1. {j \in Ways(x) : CACHE_HASH(x, [old EXCEPT ![i] = new][j].tag) = h} = on(h) \ {i}
                BY <2>2 DEF h1
            <3> QED
                BY <1>6, <1>9, <2>2, <3>1
        <2> QED
            BY <2>1, <2>2
    <1> QED
        BY <1>9, <1>10 DEF ChainsOK, r, taken

\* What a victim e costs: it waits no less than for its own miss, and its data
\* reach memory.
Evicted(x, m, k, e, t, next, v) ==
    /\ DOMAIN v.c = Fields /\ v.c.way = m.way /\ v.c.hash = m.hash /\ v.c.blk = m.blk
    /\ v.c.last_tagset = m.last_tagset /\ v.c.last_blk = m.last_blk /\ v.c.bus_free \in Int
    /\ v.lat \in Nat /\ (e.valid => t + v.lat >= e.ready)
    /\ v.next = IF e.valid /\ e.dirty THEN next \ {CACHE_MK_BADDR(x, e.tag, k)} ELSE next

LEMMA EvictIs ==
    ASSUME NEW x, NEW m, DOMAIN m = Fields, m.bus_free \in Int, NEW k, NEW e, e.ready \in Int, NEW t \in Nat, NEW next
    PROVE  Evicted(x, m, k, e, t, next, Evict(x, m, k, e, t, next))
    <1> DEFINE n == Wait(m, e, t)
               u == EvictOld(x, m, k, e, n, t, next)
               z == WriteOld(x, k, e, n, t, next)
    <1>1. n \in Nat /\ t + n >= e.ready
        BY DEF Wait, BOUND_POS
    <1>2. MemLat \in Nat
        BY CacheLevelAssumption
    <1> HIDE DEF n
    <1>3. z.lat \in Nat /\ z.lat >= n /\ z.next = IF e.dirty THEN next \ {CACHE_MK_BADDR(x, e.tag, k)} ELSE next
        BY <1>1, <1>2 DEF WriteOld, Memory
    <1> HIDE DEF z
    <1>4. u.lat = z.lat /\ u.next = z.next /\ u.c = [m EXCEPT !.replacements = @ + 1,
                         !.bus_free = Later(@, t + n) + 1, !.writebacks = IF e.dirty THEN @ + 1 ELSE @]
        BY DEF EvictOld, z
    <1>5. Later(m.bus_free, t + n) + 1 \in Int
        BY <1>1 DEF Later
    <1> HIDE DEF u
    <1>6. /\ DOMAIN u.c = Fields /\ u.c.way = m.way /\ u.c.hash = m.hash /\ u.c.blk = m.blk
          /\ u.c.last_tagset = m.last_tagset /\ u.c.last_blk = m.last_blk /\ u.c.bus_free \in Int
        BY <1>4, <1>5 DEF Fields
    <1>7. CASE e.valid
        <2>1. Evict(x, m, k, e, t, next) = u
            BY <1>7 DEF Evict, u, n
        <2>2. u.lat \in Nat /\ t + u.lat >= e.ready
            BY <1>1, <1>3, <1>4
        <2>3. u.next = IF e.valid /\ e.dirty THEN next \ {CACHE_MK_BADDR(x, e.tag, k)} ELSE next
            BY <1>3, <1>4, <1>7
        <2> QED
            BY <1>6, <2>1, <2>2, <2>3 DEF Evicted
    <1>8. CASE ~e.valid
        <2>1. Evict(x, m, k, e, t, next) = [c |-> m, lat |-> 0, next |-> next]
            BY <1>8 DEF Evict
        <2> QED
            BY <1>8, <2>1 DEF Evicted
    <1> QED
        BY <1>7, <1>8

LEMMA TakeIs ==
    ASSUME NEW x, GeometryOK(x), NEW m, CacheOK(x, m), NEW k \in SetsOf(x), NEW i \in Ways(x)
    PROVE  LET v == Take(x, m, k, i)
           IN  /\ DOMAIN v = Fields
               /\ v.way = [m.way EXCEPT ![k] = IF x.policy = "Random" THEN @ ELSE update_way_list(@, i, "Head")]
               /\ v.hash = [m.hash EXCEPT ![k] = IF x.hsize = 0 THEN @ ELSE unlink_htab_ent(x, @, m.blk[k][i].tag, i)]
               /\ v.blk = m.blk /\ v.last_tagset = 0 /\ v.last_blk = NULL /\ v.bus_free = m.bus_free
    <1> DEFINE l == IF x.policy = "Random" THEN m.way[k] ELSE update_way_list(m.way[k], i, "Head")
               q == IF x.hsize = 0 THEN m.hash[k] ELSE unlink_htab_ent(x, m.hash[k], m.blk[k][i].tag, i)
               u == [m EXCEPT !.misses = @ + 1, !.way[k] = l, !.hash[k] = q]
    <1>1. Take(x, m, k, i) = [u EXCEPT !.last_tagset = 0, !.last_blk = NULL]
        BY DEF Take, BlowAway
    <1>2. DOMAIN m = Fields /\ m.way \in [SetsOf(x) -> Seq(Ways(x))] /\ m.hash \in [SetsOf(x) -> [Heads(x) -> Seq(Ways(x))]]
        BY DEF CacheOK, Shape
    <1> HIDE DEF l, q
    <1>3. /\ DOMAIN u = Fields /\ u.way = [m.way EXCEPT ![k] = l] /\ u.hash = [m.hash EXCEPT ![k] = q] /\ u.blk = m.blk
          /\ u.bus_free = m.bus_free
        BY <1>2 DEF Fields
    <1> HIDE DEF u
    <1>4. LET v == [u EXCEPT !.last_tagset = 0, !.last_blk = NULL]
          IN  /\ DOMAIN v = Fields /\ v.way = u.way /\ v.hash = u.hash /\ v.blk = u.blk /\ v.bus_free = u.bus_free
              /\ v.last_tagset = 0 /\ v.last_blk = NULL
        BY <1>3 DEF Fields
    <1> QED
        BY <1>1, <1>3, <1>4 DEF l, q

\* What a miss changes: way i is replaced, and its data reach memory if they
\* have to.
MissOnly(x, m, cmd, b, i, next, r) ==
    LET k == CACHE_SET(x, b)
        e == m.blk[k][i]
        f == r.c.blk[k][i]
    IN  /\ r.c.way = [m.way EXCEPT ![k] = IF x.policy = "Random" THEN @ ELSE update_way_list(@, i, "Head")]
        /\ r.c.blk = [m.blk EXCEPT ![k] = [@ EXCEPT ![i] = f]]
        /\ f.tag = CACHE_TAG(x, b) /\ f.valid /\ (f.dirty <=> cmd = "Write")
        /\ e.valid => f.ready >= e.ready
        /\ r.next = IF e.valid /\ e.dirty THEN next \ {CACHE_MK_BADDR(x, e.tag, k)} ELSE next

LEMMA MissKeeps ==
    ASSUME NEW x, GeometryOK(x), NEW m, CacheOK(x, m), NEW cmd, NEW b \in Nat, NEW i \in Ways(x), NEW t \in Nat, NEW next,
           \A j \in Ways(x) : ~Found(x, m, b, j)
    PROVE  CacheOK(x, Miss(x, m, cmd, b, i, t, next).c) /\ MissOnly(x, m, cmd, b, i, next, Miss(x, m, cmd, b, i, t, next))
    <1> DEFINE k == CACHE_SET(x, b)
               a == CACHE_TAG(x, b)
               e == m.blk[k][i]
               v == Take(x, m, k, i)
               u == Evict(x, v, k, e, t, next)
               n == t + u.lat + MemLat
               d == cmd = "Write"
               f == [tag |-> a, valid |-> TRUE, dirty |-> d, ready |-> n]
               l == IF x.policy = "Random" THEN m.way[k] ELSE update_way_list(m.way[k], i, "Head")
               q0 == IF x.hsize = 0 THEN m.hash[k] ELSE unlink_htab_ent(x, m.hash[k], e.tag, i)
               q == IF x.hsize = 0 THEN q0 ELSE link_htab_ent(x, q0, a, i)
               r == Miss(x, m, cmd, b, i, t, next)
               w == r.c
    <1>1. k \in SetsOf(x) /\ a \in Nat /\ MemLat \in Nat
        BY Named, CacheLevelAssumption
    <1>2. Shape(x, m) /\ e \in BlkSet /\ e.ready \in Int /\ m.bus_free \in Int
        BY <1>1 DEF CacheOK, Shape, BlkSet
    <1>3. /\ DOMAIN v = Fields /\ v.way = [m.way EXCEPT ![k] = l] /\ v.hash = [m.hash EXCEPT ![k] = q0] /\ v.blk = m.blk
          /\ v.last_tagset = 0 /\ v.last_blk = NULL /\ v.bus_free \in Int
        BY <1>1, <1>2, TakeIs
    <1> HIDE DEF v
    <1>4. /\ DOMAIN u.c = Fields /\ u.c.way = v.way /\ u.c.hash = v.hash /\ u.c.blk = m.blk
          /\ u.c.last_tagset = 0 /\ u.c.last_blk = NULL /\ u.c.bus_free \in Int
          /\ u.lat \in Nat /\ (e.valid => t + u.lat >= e.ready)
          /\ u.next = IF e.valid /\ e.dirty THEN next \ {CACHE_MK_BADDR(x, e.tag, k)} ELSE next
        <2>1. DOMAIN v = Fields /\ v.bus_free \in Int /\ e.ready \in Int
            BY <1>2, <1>3
        <2> HIDE DEF e, k
        <2>2. Evicted(x, v, k, e, t, next, u)
            BY <2>1, EvictIs
        <2> HIDE DEF u
        <2> QED
            BY <1>3, <2>2 DEF Evicted
    <1>5. r.next = u.next /\ w = [u.c EXCEPT !.blk[k][i] = f,
                                  !.hash[k] = IF x.hsize = 0 THEN @ ELSE link_htab_ent(x, @, a, i)]
        BY DEF Miss, Refill, Fill, Memory, v, u
    <1> HIDE DEF u
    <1>6. n \in Int /\ (e.valid => n >= e.ready)
        BY <1>1, <1>2, <1>4
    <1> HIDE DEF r, n, d
    <1>7. f \in BlkSet /\ f.tag = a /\ f.valid /\ f.dirty = d /\ f.ready = n
        <2>1. d \in BOOLEAN
            BY DEF d
        <2> QED
            BY <1>1, <1>6, <2>1 DEF BlkSet
    <1> HIDE DEF f
    <1>8. u.c.hash[k] = q0
        BY <1>1, <1>2, <1>3, <1>4 DEF Shape
    <1>9. WayOK(x, l)
        <2>1. WayOK(x, m.way[k])
            BY <1>1 DEF CacheOK
        <2> QED
            BY <2>1, ListUpdated
    <1>10. q \in [Heads(x) -> Seq(Ways(x))] /\ ChainsOK(x, q, [m.blk[k] EXCEPT ![i] = f])
        <2>1. m.hash[k] \in [Heads(x) -> Seq(Ways(x))] /\ m.blk[k] \in [Ways(x) -> BlkSet] /\ ChainsOK(x, m.hash[k], m.blk[k])
            BY <1>1, <1>2 DEF CacheOK, Shape
        <2>2. CASE x.hsize = 0
            BY <2>1, <2>2 DEF ChainsOK
        <2>3. CASE x.hsize # 0
            <3>1. x.hsize > 0
                BY <2>3 DEF GeometryOK
            <3>2. q = link_htab_ent(x, unlink_htab_ent(x, m.hash[k], m.blk[k][i].tag, i), f.tag, i)
                BY <1>7, <2>3
            <3> HIDE DEF q
            <3> QED
                BY <1>7, <2>1, <3>1, <3>2, ChainsMoved
        <2> QED
            BY <2>2, <2>3
    <1> HIDE DEF l, q0
    <1>11. w.hash = [u.c.hash EXCEPT ![k] = q] /\ w.blk = [m.blk EXCEPT ![k] = [m.blk[k] EXCEPT ![i] = f]]
           /\ DOMAIN w = Fields /\ w.way = [m.way EXCEPT ![k] = l]
           /\ w.last_tagset = 0 /\ w.last_blk = NULL /\ w.bus_free \in Int
        <2>1. w = [u.c EXCEPT !.blk[k][i] = f, !.hash[k] = q]
            BY <1>5, <1>8
        <2> HIDE DEF w, q
        <2> QED
            BY <1>3, <1>4, <2>1 DEF Fields
    <1> HIDE DEF w, q
    <1>12. /\ w.way \in [SetsOf(x) -> Seq(Ways(x))] /\ w.way[k] = l /\ \A h \in SetsOf(x) : h # k => w.way[h] = m.way[h]
           /\ w.blk \in [SetsOf(x) -> [Ways(x) -> BlkSet]] /\ \A h \in SetsOf(x) : h # k => w.blk[h] = m.blk[h]
           /\ w.blk[k] = [m.blk[k] EXCEPT ![i] = f] /\ w.blk[k][i] = f /\ \A j \in Ways(x) : j # i => w.blk[k][j] = m.blk[k][j]
        BY <1>1, <1>2, <1>7, <1>9, <1>11 DEF Shape, WayOK
    <1>13. w.hash \in [SetsOf(x) -> [Heads(x) -> Seq(Ways(x))]] /\ w.hash[k] = q /\ \A h \in SetsOf(x) : h # k => w.hash[h] = m.hash[h]
        <2>1. u.c.hash = [m.hash EXCEPT ![k] = q0]
            BY <1>3, <1>4
        <2>2. w.hash = [m.hash EXCEPT ![k] = q]
            BY <1>2, <1>11, <2>1 DEF Shape
        <2> QED
            BY <1>1, <1>2, <1>10, <2>2 DEF Shape
    <1>14. Shape(x, w) /\ LastOK(x, w)
        BY <1>11, <1>12, <1>13 DEF Shape, LastOK, NULL
    <1>15. ASSUME NEW h \in SetsOf(x) PROVE WayOK(x, w.way[h]) /\ ChainsOK(x, w.hash[h], w.blk[h]) /\ OnceOK(x, w.blk[h])
        <2>1. WayOK(x, m.way[h]) /\ ChainsOK(x, m.hash[h], m.blk[h]) /\ OnceOK(x, m.blk[h])
            BY DEF CacheOK
        <2>2. CASE h # k
            BY <1>12, <1>13, <2>1, <2>2
        <2>3. CASE h = k
            <3>1. WayOK(x, w.way[h]) /\ ChainsOK(x, w.hash[h], w.blk[h])
                BY <1>9, <1>10, <1>12, <1>13, <2>3
            <3>2. OnceOK(x, w.blk[h])
                <4> DEFINE new == w.blk[k]
                           old == m.blk[k]
                <4>1. new[i] = f /\ f.tag = a /\ \A j \in Ways(x) : j # i => new[j] = old[j]
                    BY <1>7, <1>12
                <4>2. \A j \in Ways(x) : ~(old[j].valid /\ old[j].tag = a)
                    BY DEF Found
                <4>3. OnceOK(x, old)
                    BY <2>1, <2>3
                <4> HIDE DEF new, old
                <4>4. OnceOK(x, new)
                    BY <4>1, <4>2, <4>3 DEF OnceOK
                <4> QED
                    BY <2>3, <4>4 DEF new
            <3> QED
                BY <3>1, <3>2
        <2> QED
            BY <2>2, <2>3
    <1>16. CacheOK(x, w)
        BY <1>14, <1>15 DEF CacheOK
    <1> QED
        <2>1. MissOnly(x, m, cmd, b, i, next, r)
            BY <1>4, <1>5, <1>6, <1>7, <1>11, <1>12 DEF MissOnly, d, l, w
        <2> QED
            BY <1>16, <2>1 DEF w, r
-----------------------------------------------------------------------------
(* Dirty blocks.                                                           *)

\* Way j of set h holds the last write of block z.
Carries(x, m, h, j, z) ==
    m.blk[h][j].valid /\ m.blk[h][j].dirty /\ z = CACHE_MK_BADDR(x, m.blk[h][j].tag, h)

LEMMA DirtyIs ==
    ASSUME NEW x, NEW m, NEW z
    PROVE  z \in Dirty(x, m) <=> \E h \in SetsOf(x), j \in Ways(x) : Carries(x, m, h, j, z)
    <1> DEFINE T == {y \in SetsOf(x) \X Ways(x) : m.blk[y[1]][y[2]].valid /\ m.blk[y[1]][y[2]].dirty}
    <1>1. z \in Dirty(x, m) <=> \E y \in T : z = CACHE_MK_BADDR(x, m.blk[y[1]][y[2]].tag, y[1])
        BY DEF Dirty
    <1>2. ASSUME NEW y \in T PROVE \E h \in SetsOf(x), j \in Ways(x) : y[1] = h /\ y[2] = j /\ m.blk[h][j].valid /\ m.blk[h][j].dirty
        OBVIOUS
    <1>3. ASSUME NEW h \in SetsOf(x), NEW j \in Ways(x), m.blk[h][j].valid, m.blk[h][j].dirty PROVE \E y \in T : y[1] = h /\ y[2] = j
        <2>1. <<h, j>> \in T /\ <<h, j>>[1] = h /\ <<h, j>>[2] = j
            BY <1>3
        <2> QED
            BY <2>1
    <1> HIDE DEF T
    <1> QED
        BY <1>1, <1>2, <1>3 DEF Carries

LEMMA CarriesIs ==
    ASSUME NEW x, GeometryOK(x), NEW m, CacheOK(x, m), NEW h \in SetsOf(x), NEW j \in Ways(x), NEW z, Carries(x, m, h, j, z)
    PROVE  z \in Nat /\ h = CACHE_SET(x, z) /\ m.blk[h][j].valid /\ m.blk[h][j].tag = CACHE_TAG(x, z)
    <1> DEFINE t == m.blk[h][j].tag
    <1>1. m.blk[h][j].valid /\ z = CACHE_MK_BADDR(x, t, h)
        BY DEF Carries
    <1>2. t \in Nat
        BY DEF CacheOK, Shape, BlkSet
    <1> HIDE DEF t
    <1>3. z \in Nat
        BY <1>1, <1>2 DEF GeometryOK, SetsOf, CACHE_MK_BADDR
    <1>4. h = CACHE_SET(x, z) /\ t = CACHE_TAG(x, z)
        BY <1>1, <1>2, <1>3, Named
    <1> QED
        BY <1>1, <1>3, <1>4 DEF t

\* When one block changes, what it held and what it holds make the difference.
LEMMA DirtyChange ==
    ASSUME NEW x, GeometryOK(x), NEW m, CacheOK(x, m), NEW w, NEW k \in SetsOf(x), NEW i \in Ways(x),
           NEW f, w.blk = [m.blk EXCEPT ![k] = [@ EXCEPT ![i] = f]], NEW z
    PROVE  /\ z \in Dirty(x, w) <=> (z \in Dirty(x, m) /\ ~Carries(x, m, k, i, z)) \/ Carries(x, w, k, i, z)
           /\ Carries(x, m, k, i, z) => z \in Dirty(x, m)
    <1>1. m.blk \in [SetsOf(x) -> [Ways(x) -> BlkSet]]
        BY DEF CacheOK, Shape
    <1>2. w.blk[k][i] = f /\ \A h \in SetsOf(x), j \in Ways(x) : h # k \/ j # i => w.blk[h][j] = m.blk[h][j]
        BY <1>1
    <1>3. \A h \in SetsOf(x), j \in Ways(x) : h # k \/ j # i => (Carries(x, w, h, j, z) <=> Carries(x, m, h, j, z))
        BY <1>2 DEF Carries
    <1>4. ASSUME NEW h \in SetsOf(x), NEW j \in Ways(x), Carries(x, m, h, j, z), Carries(x, m, k, i, z) PROVE h = k /\ j = i
        <2>1. h = CACHE_SET(x, z) /\ m.blk[h][j].valid /\ m.blk[h][j].tag = CACHE_TAG(x, z)
            BY <1>4, CarriesIs
        <2>2. k = CACHE_SET(x, z) /\ m.blk[k][i].valid /\ m.blk[k][i].tag = CACHE_TAG(x, z)
            BY <1>4, CarriesIs
        <2>3. OnceOK(x, m.blk[k])
            BY DEF CacheOK
        <2> QED
            BY <2>1, <2>2, <2>3 DEF OnceOK
    <1>5. z \in Dirty(x, w) <=> \E h \in SetsOf(x), j \in Ways(x) : Carries(x, w, h, j, z)
        BY DirtyIs
    <1>6. z \in Dirty(x, m) <=> \E h \in SetsOf(x), j \in Ways(x) : Carries(x, m, h, j, z)
        BY DirtyIs
    <1> QED
        BY <1>3, <1>4, <1>5, <1>6
-----------------------------------------------------------------------------
(* Flushes.                                                                *)

\* Between two invalidations of a flush the fast path is off and memory misses
\* what is still dirty.
Flushing(x, r) == CacheOK(x, r.c) /\ r.c.last_blk = NULL /\ Dirty(x, r.c) = r.next

\* The blocks of w are those of m, some of them no longer valid.
Less(x, w, m) ==
    /\ w.way = m.way
    /\ \A h \in SetsOf(x), j \in Ways(x) : w.blk[h][j].valid => w.blk[h][j] = m.blk[h][j]

LEMMA InvalidateIs ==
    ASSUME NEW x, GeometryOK(x), NEW r, Flushing(x, r), NEW k \in SetsOf(x), NEW i \in Ways(x), NEW t
    PROVE  LET v == Invalidate(x, r, k, i, t)
           IN  /\ Flushing(x, v) /\ Less(x, v.c, r.c) /\ ~v.c.blk[k][i].valid
               /\ \A h \in SetsOf(x), j \in Ways(x) : h # k \/ j # i => v.c.blk[h][j] = r.c.blk[h][j]
    <1> DEFINE m == r.c
               e == m.blk[k][i]
               f == [e EXCEPT !.valid = FALSE]
               z == WriteOld(x, k, e, r.lat, t, r.next)
               v == Invalidate(x, r, k, i, t)
               w == v.c
    <1>1. CacheOK(x, m) /\ m.last_blk = NULL /\ Dirty(x, m) = r.next
        BY DEF Flushing
    <1>2. CASE ~e.valid
        <2>1. v = r
            BY <1>2 DEF Invalidate, InvalidateOld
        <2> HIDE DEF v
        <2> QED
            BY <1>2, <2>1 DEF Less, v
    <1>3. CASE e.valid
        <2>1. /\ w = [m EXCEPT !.invalidations = @ + 1, !.blk[k][i].valid = FALSE, !.writebacks = IF e.dirty THEN @ + 1 ELSE @]
              /\ v.next = z.next
            BY <1>3 DEF Invalidate, InvalidateOld
        <2>2. z.next = IF e.dirty THEN r.next \ {CACHE_MK_BADDR(x, e.tag, k)} ELSE r.next
            BY DEF WriteOld, Memory
        <2> HIDE DEF m, v, z, w
        <2>3. Shape(x, m) /\ e \in BlkSet
            BY <1>1 DEF CacheOK, Shape
        <2>4. f \in BlkSet /\ f.tag = e.tag /\ ~f.valid
            BY <2>3 DEF BlkSet
        <2>5. /\ DOMAIN w = Fields /\ w.way = m.way /\ w.hash = m.hash
              /\ w.blk = [m.blk EXCEPT ![k] = [m.blk[k] EXCEPT ![i] = f]]
              /\ w.last_tagset = m.last_tagset /\ w.last_blk = m.last_blk /\ w.bus_free = m.bus_free
            BY <2>1, <2>3 DEF Shape, Fields
        <2> HIDE DEF e, f
        <2>6. /\ w.blk \in [SetsOf(x) -> [Ways(x) -> BlkSet]] /\ w.blk[k][i] = f
              /\ \A h \in SetsOf(x), j \in Ways(x) : h # k \/ j # i => w.blk[h][j] = m.blk[h][j]
            BY <2>3, <2>4, <2>5 DEF Shape
        <2>7. Shape(x, w) /\ LastOK(x, w)
            BY <1>1, <2>3, <2>5, <2>6 DEF Shape, LastOK
        <2>8. ASSUME NEW h \in SetsOf(x) PROVE WayOK(x, w.way[h]) /\ ChainsOK(x, w.hash[h], w.blk[h]) /\ OnceOK(x, w.blk[h])
            <3>1. WayOK(x, m.way[h]) /\ ChainsOK(x, m.hash[h], m.blk[h]) /\ OnceOK(x, m.blk[h])
                BY <1>1 DEF CacheOK
            <3>2. Alike(x, w.blk[h], m.blk[h])
                BY <2>4, <2>6 DEF Alike, e
            <3> QED
                BY <2>5, <3>1, <3>2, AlikeKeeps
        <2>9. CacheOK(x, w)
            BY <2>7, <2>8 DEF CacheOK
        <2>10. Dirty(x, w) = v.next
            <3>1. ASSUME NEW y PROVE y \in Dirty(x, w) <=> y \in Dirty(x, m) /\ ~Carries(x, m, k, i, y)
                <4>1. y \in Dirty(x, w) <=> (y \in Dirty(x, m) /\ ~Carries(x, m, k, i, y)) \/ Carries(x, w, k, i, y)
                    BY <1>1, <2>5, DirtyChange
                <4>2. ~Carries(x, w, k, i, y)
                    BY <2>4, <2>6 DEF Carries
                <4> QED
                    BY <4>1, <4>2
            <3>2. ASSUME NEW y PROVE Carries(x, m, k, i, y) <=> e.dirty /\ y = CACHE_MK_BADDR(x, e.tag, k)
                BY <1>3 DEF Carries, e
            <3>3. CASE e.dirty
                BY <1>1, <2>1, <2>2, <3>1, <3>2, <3>3
            <3>4. CASE ~e.dirty
                BY <1>1, <2>1, <2>2, <3>1, <3>2, <3>4
            <3> QED
                BY <3>3, <3>4
        <2>11. Less(x, w, m)
            BY <2>4, <2>5, <2>6 DEF Less
        <2> QED
            BY <1>1, <2>4, <2>5, <2>6, <2>9, <2>10, <2>11 DEF Flushing, w, v, m
    <1> QED
        BY <1>2, <1>3

\* What an invalidation leaves, v, of what was there, r.
Invalidated(x, r, k, i, v) ==
    /\ Flushing(x, v) /\ Less(x, v.c, r.c) /\ ~v.c.blk[k][i].valid
    /\ \A h \in SetsOf(x), j \in Ways(x) : h # k \/ j # i => v.c.blk[h][j] = r.c.blk[h][j]

LEMMA Invalidation ==
    ASSUME NEW x, GeometryOK(x), NEW r, Flushing(x, r), NEW k \in SetsOf(x), NEW i \in Ways(x), NEW t
    PROVE  Invalidated(x, r, k, i, Invalidate(x, r, k, i, t))
    BY InvalidateIs DEF Invalidated

\* A flush begins by turning the fast path off.
LEMMA BlowAwayIs ==
    ASSUME NEW x, NEW m, CacheOK(x, m)
    PROVE  LET w == BlowAway(m)
           IN  CacheOK(x, w) /\ w.last_blk = NULL /\ w.way = m.way /\ w.blk = m.blk
    <1> DEFINE w == BlowAway(m)
    <1>1. Shape(x, m) /\ NULL = 0
        BY DEF CacheOK, NULL
    <1>2. /\ DOMAIN w = Fields /\ w.way = m.way /\ w.hash = m.hash /\ w.blk = m.blk
          /\ w.last_tagset = 0 /\ w.last_blk = NULL /\ w.bus_free = m.bus_free
        BY <1>1 DEF BlowAway, Shape, Fields
    <1> HIDE DEF w
    <1>3. Shape(x, w) /\ LastOK(x, w)
        BY <1>1, <1>2 DEF Shape, LastOK
    <1>4. CacheOK(x, w)
        BY <1>2, <1>3 DEF CacheOK
    <1> QED
        BY <1>2, <1>4 DEF w

LEMMA DirtySame ==
    ASSUME NEW x, NEW m, NEW w, w.blk = m.blk
    PROVE  Dirty(x, w) = Dirty(x, m)
    BY DEF Dirty

\* The flush of one address invalidates the block i that holds it and makes it
\* the next to be replaced.
AddrFlushed(x, m, k, i, r) ==
    /\ CacheOK(x, r.c) /\ Dirty(x, r.c) = r.next
    /\ i = NULL => r.c = m
    /\ i # NULL => /\ r.c.way = [m.way EXCEPT ![k] = update_way_list(@, i, "Tail")] /\ ~r.c.blk[k][i].valid
                   /\ \A h \in SetsOf(x), j \in Ways(x) : h # k \/ j # i => r.c.blk[h][j] = m.blk[h][j]

LEMMA FlushAddrIs ==
    ASSUME NEW x, GeometryOK(x), NEW m, CacheOK(x, m), NEW b \in Nat, NEW t, NEW next, Dirty(x, m) = next
    PROVE  AddrFlushed(x, m, CACHE_SET(x, b), Search(x, m, b), cache_flush_addr(x, m, b, t, next))
    <1> DEFINE k == CACHE_SET(x, b)
               i == Search(x, m, b)
               r == cache_flush_addr(x, m, b, t, next)
               w == r.c
    <1>1. CASE i = NULL
        <2>1. r = [c |-> m, lat |-> x.hit_latency, next |-> next]
            BY <1>1 DEF cache_flush_addr, FlushBlock
        <2> HIDE DEF i
        <2> QED
            BY <1>1, <2>1 DEF AddrFlushed, r, i
    <1>2. CASE i # NULL
        <2> DEFINE z == [c |-> BlowAway(m), lat |-> x.hit_latency, next |-> next]
                   v == Invalidate(x, z, k, i, t)
                   l == update_way_list(m.way[k], i, "Tail")
        <2>1. k \in SetsOf(x) /\ i \in Ways(x)
            BY <1>2, Named, SearchIs
        <2>2. Flushing(x, z) /\ z.c.way = m.way /\ z.c.blk = m.blk
            <3>1. CacheOK(x, BlowAway(m)) /\ BlowAway(m).last_blk = NULL /\ BlowAway(m).way = m.way /\ BlowAway(m).blk = m.blk
                BY BlowAwayIs
            <3>2. Dirty(x, BlowAway(m)) = next
                BY <3>1, DirtySame
            <3> QED
                BY <3>1, <3>2 DEF Flushing
        <2>3. r.c = [v.c EXCEPT !.way[k] = update_way_list(@, i, "Tail")] /\ r.next = v.next
            BY <1>2 DEF cache_flush_addr, FlushBlock
        <2> HIDE DEF z, k, i, r
        <2>4. /\ Flushing(x, v) /\ Less(x, v.c, z.c) /\ ~v.c.blk[k][i].valid
              /\ \A h \in SetsOf(x), j \in Ways(x) : h # k \/ j # i => v.c.blk[h][j] = z.c.blk[h][j]
            BY <2>1, <2>2, InvalidateIs
        <2> HIDE DEF v
        <2>5. CacheOK(x, v.c) /\ Shape(x, v.c) /\ v.c.last_blk = NULL /\ Dirty(x, v.c) = v.next /\ v.c.way = m.way
            BY <2>2, <2>4 DEF Flushing, CacheOK, Less
        <2>6. WayOK(x, l)
            <3>1. WayOK(x, m.way[k])
                BY <2>1 DEF CacheOK
            <3> QED
                BY <2>1, <3>1, ListUpdated
        <2>7. w = [v.c EXCEPT !.way[k] = l]
            BY <2>3, <2>5
        <2> HIDE DEF l, w
        <2>8. /\ DOMAIN w = Fields /\ w.way = [m.way EXCEPT ![k] = l] /\ w.hash = v.c.hash /\ w.blk = v.c.blk
              /\ w.last_tagset = v.c.last_tagset /\ w.last_blk = NULL /\ w.bus_free = v.c.bus_free
            BY <2>5, <2>7 DEF Shape, Fields
        <2>9. w.way \in [SetsOf(x) -> Seq(Ways(x))] /\ \A h \in SetsOf(x) : w.way[h] = IF h = k THEN l ELSE m.way[h]
            <3>1. m.way \in [SetsOf(x) -> Seq(Ways(x))] /\ l \in Seq(Ways(x)) /\ w.way = [m.way EXCEPT ![k] = l]
                <4>1. m.way \in [SetsOf(x) -> Seq(Ways(x))]
                    BY DEF CacheOK, Shape
                <4>2. l \in Seq(Ways(x))
                    BY <2>6 DEF WayOK
                <4> QED
                    BY <2>8, <4>1, <4>2
            <3> QED
                BY <3>1
        <2>10. Shape(x, w) /\ LastOK(x, w)
            BY <2>5, <2>8, <2>9 DEF Shape, LastOK
        <2>11. ASSUME NEW h \in SetsOf(x) PROVE WayOK(x, w.way[h]) /\ ChainsOK(x, w.hash[h], w.blk[h]) /\ OnceOK(x, w.blk[h])
            <3>1. WayOK(x, m.way[h]) /\ ChainsOK(x, v.c.hash[h], v.c.blk[h]) /\ OnceOK(x, v.c.blk[h])
                BY <2>5 DEF CacheOK
            <3> QED
                BY <2>6, <2>8, <2>9, <3>1
        <2>12. CacheOK(x, w)
            BY <2>10, <2>11 DEF CacheOK
        <2>13. Dirty(x, w) = r.next
            BY <2>3, <2>5, <2>8, DirtySame
        <2> QED
            BY <1>2, <2>2, <2>4, <2>8, <2>12, <2>13 DEF AddrFlushed, l, w, i, k, r
    <1> QED
        BY <1>1, <1>2

\* The n invalidations of a flush, each from what the one before left.
FlushFirst(x, m, next) == [c |-> BlowAway(m), lat |-> x.hit_latency, next |-> next]
FlushStep(x, m, r, k, t) ==
    Invalidate(x, r, (k - 1) \div x.assoc, m.way[(k - 1) \div x.assoc][((k - 1) % x.assoc) + 1], t)
IsFlush(f, x, m, next, t, n) ==
    f = [k \in 0..n |-> IF k = 0 THEN FlushFirst(x, m, next) ELSE FlushStep(x, m, f[k - 1], k, t)]

LEMMA FlushRunIs ==
    ASSUME NEW x, NEW m, NEW t, NEW next, x.nsets * x.assoc \in Nat
    PROVE  \E f : IsFlush(f, x, m, next, t, x.nsets * x.assoc) /\ cache_flush(x, m, t, next) = f[x.nsets * x.assoc]
    <1> DEFINE n == x.nsets * x.assoc
               S == {k \in Nat : \E f : IsFlush(f, x, m, next, t, k)}
    <1>1. 0 \in S
        <2> DEFINE f == [i \in 0..0 |-> FlushFirst(x, m, next)]
        <2>1. IsFlush(f, x, m, next, t, 0)
            BY DEF IsFlush
        <2> QED
            BY <2>1
    <1>2. ASSUME NEW k \in Nat, k \in S PROVE k + 1 \in S
        <2>1. PICK f : IsFlush(f, x, m, next, t, k)
            BY <1>2
        <2> DEFINE h == [i \in 0..(k + 1) |-> IF i <= k THEN f[i] ELSE FlushStep(x, m, f[k], k + 1, t)]
        <2>2. \A i \in 0..k : f[i] = IF i = 0 THEN FlushFirst(x, m, next) ELSE FlushStep(x, m, f[i - 1], i, t)
            BY <2>1 DEF IsFlush
        <2>3. ASSUME NEW i \in 0..(k + 1)
              PROVE  h[i] = IF i = 0 THEN FlushFirst(x, m, next) ELSE FlushStep(x, m, h[i - 1], i, t)
            <3>1. CASE i <= k
                <4>1. h[i] = f[i] /\ (i # 0 => h[i - 1] = f[i - 1]) /\ i \in 0..k
                    BY <3>1
                <4> HIDE DEF h
                <4> QED
                    BY <2>2, <4>1
            <3>2. CASE i = k + 1
                <4>1. h[i] = FlushStep(x, m, f[k], k + 1, t) /\ h[i - 1] = f[k] /\ i # 0
                    BY <3>2
                <4> HIDE DEF h
                <4> QED
                    BY <3>2, <4>1
            <3> QED
                BY <3>1, <3>2
        <2>4. IsFlush(h, x, m, next, t, k + 1)
            BY <2>3 DEF IsFlush
        <2> HIDE DEF h
        <2> QED
            BY <2>4
    <1> HIDE DEF S
    <1>3. n \in S
        BY <1>1, <1>2, SetInduction
    <1> DEFINE q == CHOOSE f : f = [k \in 0..n |->
                       IF k = 0 THEN [c |-> BlowAway(m), lat |-> x.hit_latency, next |-> next]
                       ELSE Invalidate(x, f[k - 1], (k - 1) \div x.assoc,
                                       m.way[(k - 1) \div x.assoc][((k - 1) % x.assoc) + 1], t)]
    <1>4. IsFlush(q, x, m, next, t, n)
        BY <1>3 DEF S, IsFlush, FlushStep, FlushFirst
    <1>5. cache_flush(x, m, t, next) = q[n]
        BY DEF cache_flush
    <1> HIDE DEF q
    <1> QED
        BY <1>4, <1>5

LEMMA Distributes ==
    ASSUME NEW a \in Nat, NEW h \in Nat
    PROVE  a * (h + 1) = a * h + a /\ a * h \in Nat
    BY Z3

\* The first k ways of the sets, in their order, are invalid.
Emptied(x, m, r, k) ==
    /\ Flushing(x, r) /\ Less(x, r.c, m)
    /\ \A h \in SetsOf(x), p \in 1..x.assoc : x.assoc * h + p <= k => ~r.c.blk[h][m.way[h][p]].valid

LEMMA FlushIs ==
    ASSUME NEW x, GeometryOK(x), NEW m, CacheOK(x, m), NEW t, NEW next, Dirty(x, m) = next
    PROVE  LET r == cache_flush(x, m, t, next)
           IN  /\ CacheOK(x, r.c) /\ Dirty(x, r.c) = r.next /\ Less(x, r.c, m)
               /\ \A h \in SetsOf(x), j \in Ways(x) : ~r.c.blk[h][j].valid
    <1> DEFINE n == x.nsets * x.assoc
    <1>1. x.nsets \in Nat \ {0} /\ x.assoc \in Nat \ {0} /\ n \in Nat
        BY DEF GeometryOK
    <1>2. PICK f : IsFlush(f, x, m, next, t, n) /\ cache_flush(x, m, t, next) = f[n]
        BY <1>1, FlushRunIs
    <1> HIDE DEF n
    <1>3. f[0] = FlushFirst(x, m, next) /\ \A k \in Nat : k + 1 <= n => f[k + 1] = FlushStep(x, m, f[k], k + 1, t)
        <2>1. \A k \in 0..n : f[k] = IF k = 0 THEN FlushFirst(x, m, next) ELSE FlushStep(x, m, f[k - 1], k, t)
            BY <1>2 DEF IsFlush
        <2>2. ASSUME NEW k \in Nat, k + 1 <= n PROVE f[k + 1] = FlushStep(x, m, f[k], k + 1, t)
            <3>1. k + 1 \in 0..n /\ k + 1 # 0 /\ (k + 1) - 1 = k
                BY <1>1, <2>2
            <3> QED
                BY <2>1, <3>1
        <2>3. 0 \in 0..n
            BY <1>1
        <2> QED
            BY <2>1, <2>2, <2>3
    <1> DEFINE S == {k \in Nat : k <= n => Emptied(x, m, f[k], k)}
    <1>4. 0 \in S
        <2> DEFINE r == FlushFirst(x, m, next)
        <2>1. r.c = BlowAway(m) /\ r.next = next
            BY DEF FlushFirst
        <2>2. CacheOK(x, BlowAway(m)) /\ BlowAway(m).last_blk = NULL /\ BlowAway(m).way = m.way /\ BlowAway(m).blk = m.blk
            BY BlowAwayIs
        <2>3. Dirty(x, BlowAway(m)) = next
            BY <2>2, DirtySame
        <2>4. Flushing(x, r) /\ Less(x, r.c, m)
            BY <2>1, <2>2, <2>3 DEF Flushing, Less
        <2>5. \A h \in SetsOf(x), p \in 1..x.assoc : ~(x.assoc * h + p <= 0)
            BY <1>1 DEF SetsOf
        <2> HIDE DEF r
        <2>6. Emptied(x, m, r, 0)
            BY <2>4, <2>5 DEF Emptied
        <2> QED
            BY <1>3, <2>6 DEF r
    <1>5. ASSUME NEW k \in Nat, k \in S PROVE k + 1 \in S
        <2> SUFFICES ASSUME k + 1 <= n PROVE Emptied(x, m, f[k + 1], k + 1)
            OBVIOUS
        <2> DEFINE s == k \div x.assoc
                   p == (k % x.assoc) + 1
                   i == m.way[s][p]
        <2>1. Emptied(x, m, f[k], k)
            BY <1>1, <1>5
        <2>2. s \in SetsOf(x) /\ p \in 1..x.assoc /\ k = x.assoc * s + (p - 1)
            <3>1. x.assoc \in Int /\ x.assoc > 0 /\ k \in Int /\ k >= 0
                BY <1>1
            <3>2. k = x.assoc * s + (k % x.assoc) /\ s \in Nat /\ k % x.assoc \in 0..(x.assoc - 1)
                BY <3>1, Divided
            <3> HIDE DEF s
            <3>3. ~(s >= x.nsets)
                <4> SUFFICES ASSUME s >= x.nsets PROVE FALSE
                    OBVIOUS
                <4>1. x.assoc * s >= x.assoc * x.nsets
                    BY <1>1, <3>2, SMTT(30)
                <4>2. x.assoc * x.nsets = n
                    BY <1>1 DEF n
                <4> QED
                    BY <1>1, <3>2, <4>1, <4>2
            <3> QED
                BY <1>1, <3>2, <3>3 DEF SetsOf
        <2>3. f[k + 1] = Invalidate(x, f[k], s, i, t)
            <3>1. (k + 1) - 1 = k
                OBVIOUS
            <3> QED
                BY <1>3, <3>1 DEF FlushStep
        <2> HIDE DEF s, p
        <2>4. i \in Ways(x) /\ WayOK(x, m.way[s])
            BY <1>1, <2>2 DEF CacheOK, WayOK
        <2> HIDE DEF i
        <2>5. /\ Flushing(x, f[k + 1]) /\ Less(x, f[k + 1].c, f[k].c) /\ ~f[k + 1].c.blk[s][i].valid
              /\ \A h \in SetsOf(x), j \in Ways(x) : h # s \/ j # i => f[k + 1].c.blk[h][j] = f[k].c.blk[h][j]
            <3>1. Flushing(x, f[k])
                BY <2>1 DEF Emptied
            <3>2. Invalidated(x, f[k], s, i, f[k + 1])
                BY <2>2, <2>3, <2>4, <3>1, Invalidation
            <3> QED
                BY <3>2 DEF Invalidated
        <2>6. Less(x, f[k + 1].c, m)
            <3>1. Less(x, f[k].c, m)
                BY <2>1 DEF Emptied
            <3>2. Less(x, f[k + 1].c, f[k].c)
                BY <2>5
            <3> QED
                BY <3>1, <3>2 DEF Less
        <2>7. ASSUME NEW h \in SetsOf(x), NEW y \in 1..x.assoc, x.assoc * h + y <= k + 1
              PROVE  ~f[k + 1].c.blk[h][m.way[h][y]].valid
            <3>1. m.way[h][y] \in Ways(x)
                BY <1>1 DEF CacheOK, WayOK
            <3>2. CASE x.assoc * h + y <= k
                <4>1. ~f[k].c.blk[h][m.way[h][y]].valid
                    BY <2>1, <3>2 DEF Emptied
                <4> QED
                    BY <2>5, <3>1, <4>1
            <3>3. CASE ~(x.assoc * h + y <= k)
                <4>1. h \in Nat /\ x.assoc * h \in Nat
                    BY <1>1 DEF SetsOf
                <4> DEFINE a == x.assoc * h
                <4>2. k = a + (y - 1) /\ y - 1 \in 0..(x.assoc - 1)
                    <5>1. a \in Nat /\ a + y <= k + 1 /\ ~(a + y <= k)
                        BY <2>7, <3>3, <4>1
                    <5> HIDE DEF a
                    <5> QED
                        BY <1>1, <5>1
                <4>3. s = h
                    BY <1>1, <4>1, <4>2, Division DEF s
                <4>4. y = p
                    BY <1>1, <2>2, <4>1, <4>2, <4>3
                <4> QED
                    BY <2>5, <4>3, <4>4 DEF i
            <3> QED
                BY <3>2, <3>3
        <2> QED
            BY <2>5, <2>6, <2>7 DEF Emptied
    <1> HIDE DEF S
    <1>6. n \in S
        BY <1>1, <1>4, <1>5, SetInduction
    <1>7. Emptied(x, m, f[n], n)
        BY <1>1, <1>6 DEF S
    <1>8. ASSUME NEW h \in SetsOf(x), NEW j \in Ways(x) PROVE ~f[n].c.blk[h][j].valid
        <2>1. WayOK(x, m.way[h])
            BY DEF CacheOK
        <2>2. PICK y \in 1..x.assoc : m.way[h][y] = j
            BY <1>1, <2>1 DEF WayOK, ToSet
        <2>3. x.assoc * h + y <= n
            <3>1. h \in Nat /\ h + 1 <= x.nsets
                BY <1>1 DEF SetsOf
            <3>2. x.assoc * (h + 1) <= x.assoc * x.nsets
                BY <1>1, <3>1, SMTT(30)
            <3>3. x.assoc * (h + 1) = x.assoc * h + x.assoc /\ x.assoc * h \in Nat
                BY <1>1, <3>1, Distributes
            <3>4. x.assoc * x.nsets = n
                BY <1>1 DEF n
            <3> QED
                BY <1>1, <3>2, <3>3, <3>4
        <2> QED
            BY <1>7, <2>2, <2>3 DEF Emptied
    <1> QED
        BY <1>2, <1>7, <1>8 DEF Emptied, Flushing
-----------------------------------------------------------------------------
(* A cache as it is created.                                               *)

LEMMA CreateIs ==
    ASSUME NEW x, GeometryOK(x)
    PROVE  LET m == cache_create(x)
           IN  CacheOK(x, m) /\ Dirty(x, m) = {} /\ \A h \in SetsOf(x), j \in Ways(x) : ~m.blk[h][j].valid
    <1> DEFINE n == x.assoc
               up == [i \in Ways(x) |-> i]
               order == Reverse(up)
               none == [tag |-> 0, valid |-> FALSE, dirty |-> FALSE, ready |-> 0]
               m == cache_create(x)
    <1>1. n \in Nat \ {0} /\ x.nsets \in Nat \ {0} /\ x.hsize \in Nat /\ Ways(x) = 1..n
        BY DEF GeometryOK, Ways
    <1>2. up \in Seq(Ways(x)) /\ Len(up) = n
        BY <1>1
    <1>3. order = [i \in 1..n |-> up[(n - i) + 1]]
        <2> HIDE DEF up, n
        <2> QED
            BY <1>2 DEF Reverse
    <1>4. order = [i \in 1..n |-> (n - i) + 1]
        <2>1. \A i \in 1..n : (n - i) + 1 \in Ways(x) /\ up[(n - i) + 1] = (n - i) + 1
            BY <1>1
        <2> HIDE DEF up, order, n
        <2> QED
            BY <1>3, <2>1
    <1> HIDE DEF order
    <1>5. order \in Seq(Ways(x)) /\ Len(order) = n
        BY <1>1, <1>4
    <1>6. OneToOne(order)
        BY <1>1, <1>4, <1>5 DEF OneToOne
    <1>7. ToSet(order) = Ways(x)
        <2>1. ASSUME NEW i \in Ways(x) PROVE i \in ToSet(order)
            <3>1. (n - i) + 1 \in DOMAIN order /\ order[(n - i) + 1] = i
                BY <1>1, <1>4
            <3> QED
                BY <3>1 DEF ToSet
        <2>2. ASSUME NEW i \in ToSet(order) PROVE i \in Ways(x)
            BY <1>1, <1>4 DEF ToSet
        <2> QED
            BY <2>1, <2>2
    <1>8. WayOK(x, order)
        BY <1>5, <1>6, <1>7 DEF WayOK
    <1>9. none \in BlkSet /\ none.tag = 0 /\ ~none.valid
        BY DEF BlkSet
    <1> HIDE DEF none
    <1>10. /\ DOMAIN m = Fields /\ m.way = [k \in SetsOf(x) |-> order]
           /\ m.hash = [k \in SetsOf(x) |-> [h \in Heads(x) |-> IF h = 0 THEN order ELSE <<>>]]
           /\ m.blk = [k \in SetsOf(x) |-> [i \in Ways(x) |-> none]]
           /\ m.last_tagset = 0 /\ m.last_blk = 0 /\ m.bus_free = 0
        BY DEF cache_create, order, none, Fields, Heads, NULL
    <1> HIDE DEF m
    <1>11. <<>> \in Seq(Ways(x)) /\ OneToOne(<<>>) /\ ToSet(<<>>) = {}
        BY DEF OneToOne, ToSet
    <1>12. Shape(x, m) /\ LastOK(x, m)
        <2>1. m.way \in [SetsOf(x) -> Seq(Ways(x))] /\ m.blk \in [SetsOf(x) -> [Ways(x) -> BlkSet]]
            BY <1>5, <1>9, <1>10
        <2>2. m.hash \in [SetsOf(x) -> [Heads(x) -> Seq(Ways(x))]]
            BY <1>5, <1>10, <1>11
        <2> QED
            BY <1>10, <2>1, <2>2 DEF Shape, LastOK, NULL
    <1>13. ASSUME NEW k \in SetsOf(x) PROVE WayOK(x, m.way[k]) /\ ChainsOK(x, m.hash[k], m.blk[k]) /\ OnceOK(x, m.blk[k])
        <2>1. m.way[k] = order /\ \A i \in Ways(x) : m.blk[k][i] = none
            BY <1>10
        <2>2. ASSUME x.hsize > 0, NEW h \in Heads(x)
              PROVE  OneToOne(m.hash[k][h]) /\ ToSet(m.hash[k][h]) = {i \in Ways(x) : CACHE_HASH(x, m.blk[k][i].tag) = h}
            <3>1. 0 % x.hsize = 0
                BY <1>1, <2>2
            <3>2. {i \in Ways(x) : CACHE_HASH(x, m.blk[k][i].tag) = h} = IF h = 0 THEN Ways(x) ELSE {}
                BY <1>9, <2>1, <3>1 DEF CACHE_HASH
            <3>3. m.hash[k][h] = IF h = 0 THEN order ELSE <<>>
                BY <1>10, <2>2
            <3> QED
                BY <1>6, <1>7, <1>11, <3>2, <3>3
        <2> QED
            BY <1>8, <1>9, <2>1, <2>2 DEF ChainsOK, OnceOK
    <1>14. CacheOK(x, m)
        BY <1>12, <1>13 DEF CacheOK
    <1>15. \A h \in SetsOf(x), j \in Ways(x) : ~m.blk[h][j].valid
        BY <1>9, <1>10
    <1>16. \A z : z \notin Dirty(x, m)
        BY <1>15, DirtyIs DEF Carries
    <1> QED
        BY <1>14, <1>15, <1>16 DEF m
-----------------------------------------------------------------------------
(* The reference order.                                                    *)

\* The list s of textbook blocks is the valid front of the way list of set k.
RefSet(x, m, k, s) ==
    /\ s \in Seq(Nat) /\ Len(s) <= x.assoc
    /\ \A j \in 1..x.assoc : /\ j <= Len(s) => Holds(x, m, k, m.way[k][j], s[j])
                             /\ ~(j <= Len(s)) => ~m.blk[k][m.way[k][j]].valid

\* Way i holds in w what it holds in m.
SameHeld(x, w, m, k, i) == /\ w.blk[k][i].valid <=> m.blk[k][i].valid
                           /\ \A b : Holds(x, w, k, i, b) <=> Holds(x, m, k, i, b)

LEMMA HoldsIs ==
    ASSUME NEW x, GeometryOK(x), NEW m, CacheOK(x, m), NEW b \in Nat, NEW k \in SetsOf(x), NEW i \in Ways(x)
    PROVE  Holds(x, m, k, i, b) <=> m.blk[k][i].valid /\ k = CACHE_SET(x, b) /\ m.blk[k][i].tag = CACHE_TAG(x, b)
    <1> DEFINE t == m.blk[k][i].tag
    <1>1. t \in Nat
        BY DEF CacheOK, Shape, BlkSet
    <1>2. Holds(x, m, k, i, b) <=> m.blk[k][i].valid /\ CACHE_MK_BADDR(x, t, k) = b
        BY DEF Holds
    <1> HIDE DEF t
    <1>3. CACHE_MK_BADDR(x, t, k) = b <=> k = CACHE_SET(x, b) /\ t = CACHE_TAG(x, b)
        BY <1>1, Named
    <1> QED
        BY <1>2, <1>3 DEF t

\* The place of a block in the list is its place in the reference.
LEMMA RefFound ==
    ASSUME NEW x, GeometryOK(x), NEW m, CacheOK(x, m), NEW k \in SetsOf(x), NEW s, RefSet(x, m, k, s),
           NEW p \in 1..x.assoc, NEW b \in Nat, Holds(x, m, k, m.way[k][p], b)
    PROVE  p \in 1..Len(s) /\ s[p] = b /\ OneToOne(s) /\ Contains(s, b) /\ Unlink(s, b) = RemoveAt(s, p)
    <1>1. /\ s \in Seq(Nat) /\ Len(s) \in Nat /\ Len(s) <= x.assoc /\ x.assoc \in Nat /\ DOMAIN s = 1..Len(s)
          /\ \A j \in 1..Len(s) : s[j] \in Nat
        BY DEF RefSet, GeometryOK
    <1>2. WayOK(x, m.way[k]) /\ DOMAIN m.way[k] = 1..x.assoc
        BY DEF CacheOK, WayOK
    <1>3. \A j \in 1..x.assoc : m.way[k][j] \in Ways(x)
        BY <1>1, <1>2 DEF WayOK
    <1>4. \A j \in 1..Len(s) : j \in 1..x.assoc /\ Holds(x, m, k, m.way[k][j], s[j])
        BY <1>1 DEF RefSet
    <1>5. p <= Len(s)
        BY <1>1 DEF RefSet, Holds
    <1>6. s[p] = b
        <2>1. Holds(x, m, k, m.way[k][p], s[p])
            BY <1>1, <1>4, <1>5
        <2> QED
            BY <2>1 DEF Holds
    <1>7. ASSUME NEW j \in 1..Len(s), NEW l \in 1..Len(s), s[j] = s[l] PROVE j = l
        <2>1. m.way[k][j] \in Ways(x) /\ m.way[k][l] \in Ways(x) /\ s[j] \in Nat
            BY <1>1, <1>3, <1>4
        <2>2. Holds(x, m, k, m.way[k][j], s[j]) /\ Holds(x, m, k, m.way[k][l], s[j])
            BY <1>4, <1>7
        <2>3. /\ m.blk[k][m.way[k][j]].valid /\ m.blk[k][m.way[k][j]].tag = CACHE_TAG(x, s[j])
              /\ m.blk[k][m.way[k][l]].valid /\ m.blk[k][m.way[k][l]].tag = CACHE_TAG(x, s[j])
            <3>1. m.blk[k][m.way[k][j]].valid /\ m.blk[k][m.way[k][j]].tag = CACHE_TAG(x, s[j])
                BY <2>1, <2>2, HoldsIs
            <3>2. m.blk[k][m.way[k][l]].valid /\ m.blk[k][m.way[k][l]].tag = CACHE_TAG(x, s[j])
                BY <2>1, <2>2, HoldsIs
            <3> QED
                BY <3>1, <3>2
        <2>4. OnceOK(x, m.blk[k])
            BY DEF CacheOK
        <2>5. m.way[k][j] = m.way[k][l]
            BY <2>1, <2>3, <2>4 DEF OnceOK
        <2> QED
            BY <1>2, <1>4, <2>5 DEF WayOK, OneToOne
    <1>8. OneToOne(s)
        BY <1>1, <1>7 DEF OneToOne
    <1>9. p \in 1..Len(s)
        BY <1>1, <1>5
    <1>10. Contains(s, b) /\ b \in ToSet(s)
        BY <1>1, <1>6, <1>9 DEF Contains, ToSet
    <1>11. PICK q \in 1..Len(s) : s[q] = b /\ Unlink(s, b) = RemoveAt(s, q)
        BY <1>1, <1>8, <1>10, UnlinkIs
    <1>12. q = p
        BY <1>6, <1>7, <1>9, <1>11
    <1> QED
        BY <1>6, <1>8, <1>9, <1>10, <1>11, <1>12

LEMMA RefLost ==
    ASSUME NEW x, GeometryOK(x), NEW m, CacheOK(x, m), NEW k \in SetsOf(x), NEW s, RefSet(x, m, k, s),
           NEW b \in Nat, \A i \in Ways(x) : ~Holds(x, m, k, i, b)
    PROVE  ~Contains(s, b)
    <1>1. s \in Seq(Nat) /\ Len(s) \in Nat /\ Len(s) <= x.assoc /\ x.assoc \in Nat
        BY DEF RefSet, GeometryOK
    <1>2. WayOK(x, m.way[k])
        BY DEF CacheOK
    <1>3. \A j \in 1..x.assoc : m.way[k][j] \in Ways(x)
        BY <1>1, <1>2 DEF WayOK
    <1>4. ASSUME NEW j \in 1..Len(s), s[j] = b PROVE FALSE
        <2>1. j \in 1..x.assoc /\ Holds(x, m, k, m.way[k][j], b)
            BY <1>1, <1>4 DEF RefSet
        <2> QED
            BY <1>3, <2>1
    <1> QED
        BY <1>4 DEF Contains

\* A hit of LRU moves the block to the front of both.
LEMMA RefMoved ==
    ASSUME NEW x, GeometryOK(x), NEW m, NEW w, NEW k, NEW s, RefSet(x, m, k, s), OneToOne(s), NEW p \in 1..Len(s),
           \A j \in 1..x.assoc : m.way[k][j] \in Ways(x),
           \A i \in Ways(x) : SameHeld(x, w, m, k, i),
           w.way[k][1] = m.way[k][p], \A j \in 1..(p - 1) : w.way[k][j + 1] = m.way[k][j],
           \A j \in (p + 1)..x.assoc : w.way[k][j] = m.way[k][j]
    PROVE  RefSet(x, w, k, <<s[p]>> \o RemoveAt(s, p))
    <1> DEFINE r == <<s[p]>> \o RemoveAt(s, p)
    <1>1. s \in Seq(Nat) /\ Len(s) \in Nat /\ Len(s) <= x.assoc /\ x.assoc \in Nat
        BY DEF RefSet, GeometryOK
    <1>2. r \in Seq(Nat) /\ Len(r) = Len(s)
        BY <1>1, FrontIs
    <1>3. r[1] = s[p] /\ (\A j \in 1..(p - 1) : r[j + 1] = s[j]) /\ (\A j \in (p + 1)..Len(s) : r[j] = s[j])
        BY <1>1, FrontAt
    <1> HIDE DEF r
    <1>4. ASSUME NEW j \in 1..x.assoc
          PROVE  /\ j <= Len(s) => Holds(x, w, k, w.way[k][j], r[j])
                 /\ ~(j <= Len(s)) => ~w.blk[k][w.way[k][j]].valid
        <2> DEFINE y == IF j = 1 THEN p ELSE IF j <= p THEN j - 1 ELSE j
        <2>1. y \in 1..x.assoc /\ (y <= Len(s) <=> j <= Len(s))
            BY <1>1
        <2>2. w.way[k][j] = m.way[k][y] /\ (j <= Len(s) => r[j] = s[y])
            <3>1. CASE j = 1
                BY <1>3, <3>1
            <3>2. CASE j # 1 /\ j <= p
                <4>1. j - 1 \in 1..(p - 1) /\ (j - 1) + 1 = j
                    BY <1>1, <3>2
                <4> QED
                    BY <1>3, <3>2, <4>1
            <3>3. CASE j # 1 /\ ~(j <= p)
                <4>1. j \in (p + 1)..x.assoc /\ (j <= Len(s) => j \in (p + 1)..Len(s))
                    BY <1>1, <3>3
                <4> QED
                    BY <1>3, <3>3, <4>1
            <3> QED
                BY <3>1, <3>2, <3>3
        <2> HIDE DEF y
        <2>3. SameHeld(x, w, m, k, m.way[k][y])
            BY <2>1
        <2>4. /\ y <= Len(s) => Holds(x, m, k, m.way[k][y], s[y])
              /\ ~(y <= Len(s)) => ~m.blk[k][m.way[k][y]].valid
            BY <2>1 DEF RefSet
        <2> QED
            BY <2>1, <2>2, <2>3, <2>4 DEF SameHeld
    <1> QED
        BY <1>1, <1>2, <1>4 DEF RefSet, r

\* A miss puts the block in front of both, in the place of the last way.
LEMMA RefMissed ==
    ASSUME NEW x, GeometryOK(x), NEW m, NEW w, NEW k, NEW s, RefSet(x, m, k, s), NEW b \in Nat,
           \A j \in 1..x.assoc : m.way[k][j] \in Ways(x),
           \A j \in 1..(x.assoc - 1) : SameHeld(x, w, m, k, m.way[k][j]) /\ w.way[k][j + 1] = m.way[k][j],
           Holds(x, w, k, w.way[k][1], b)
    PROVE  RefSet(x, w, k, <<b>> \o (IF Len(s) = x.assoc THEN Front(s) ELSE s))
    <1> DEFINE n == x.assoc
               q == IF Len(s) = n THEN Front(s) ELSE s
               r == <<b>> \o q
    <1>1. s \in Seq(Nat) /\ Len(s) \in Nat /\ Len(s) <= n /\ n \in Nat \ {0}
        BY DEF RefSet, GeometryOK
    <1>2. /\ q \in Seq(Nat) /\ Len(q) = IF Len(s) = n THEN n - 1 ELSE Len(s)
          /\ \A j \in 1..Len(q) : q[j] = s[j]
        <2>1. CASE Len(s) = n
            <3>1. q = [j \in 1..(n - 1) |-> s[j]]
                BY <1>1, <2>1 DEF Front
            <3>2. \A j \in 1..(n - 1) : s[j] \in Nat
                BY <1>1, <2>1
            <3> HIDE DEF q
            <3>3. q \in Seq(Nat) /\ Len(q) = n - 1
                <4> DEFINE z == n - 1
                <4>1. z \in Nat /\ q = [j \in 1..z |-> s[j]] /\ \A j \in 1..z : s[j] \in Nat
                    BY <1>1, <3>1, <3>2
                <4> HIDE DEF z
                <4> QED
                    BY <4>1 DEF z
            <3> QED
                BY <2>1, <3>1, <3>3
        <2>2. CASE Len(s) # n
            BY <1>1, <2>2
        <2> QED
            BY <2>1, <2>2
    <1> HIDE DEF q
    <1>3. r \in Seq(Nat) /\ Len(r) = Len(q) + 1 /\ r[1] = b /\ \A j \in 1..Len(q) : r[j + 1] = q[j]
        BY <1>2, ConsIs
    <1> HIDE DEF r
    <1>4. Len(q) \in Nat /\ Len(r) <= n
        BY <1>1, <1>2, <1>3
    <1>5. ASSUME NEW j \in 1..n
          PROVE  /\ j <= Len(r) => Holds(x, w, k, w.way[k][j], r[j])
                 /\ ~(j <= Len(r)) => ~w.blk[k][w.way[k][j]].valid
        <2>1. CASE j = 1
            BY <1>3, <1>4, <2>1
        <2>2. CASE j # 1
            <3> DEFINE y == j - 1
            <3>1. y \in 1..(n - 1) /\ y \in 1..n /\ y + 1 = j
                BY <1>1, <2>2
            <3>2. j <= Len(r) => y <= Len(s) /\ r[j] = s[y]
                <4>1. ASSUME j <= Len(r) PROVE y \in 1..Len(q) /\ y <= Len(s)
                    <5>1. y <= Len(q)
                        BY <1>3, <1>4, <3>1, <4>1
                    <5>2. Len(q) <= Len(s)
                        BY <1>1, <1>2
                    <5> QED
                        BY <1>1, <1>4, <3>1, <5>1, <5>2
                <4> QED
                    BY <1>2, <1>3, <3>1, <4>1
            <3>3. ~(j <= Len(r)) => ~(y <= Len(s))
                BY <1>1, <1>2, <1>3, <1>4, <3>1
            <3> HIDE DEF y
            <3>4. SameHeld(x, w, m, k, m.way[k][y]) /\ w.way[k][j] = m.way[k][y]
                BY <3>1
            <3>5. /\ y <= Len(s) => Holds(x, m, k, m.way[k][y], s[y])
                  /\ ~(y <= Len(s)) => ~m.blk[k][m.way[k][y]].valid
                BY <3>1 DEF RefSet
            <3> QED
                BY <3>2, <3>3, <3>4, <3>5 DEF SameHeld
        <2> QED
            BY <2>1, <2>2
    <1> QED
        BY <1>3, <1>4, <1>5 DEF RefSet, r, q

\* The flush of a block takes it out of both.
LEMMA RefDropped ==
    ASSUME NEW x, GeometryOK(x), NEW m, NEW w, NEW k, NEW s, RefSet(x, m, k, s), NEW p \in 1..Len(s),
           \A j \in 1..x.assoc : j # p => SameHeld(x, w, m, k, m.way[k][j]),
           ~w.blk[k][w.way[k][x.assoc]].valid,
           \A j \in 1..(p - 1) : w.way[k][j] = m.way[k][j],
           \A j \in p..(x.assoc - 1) : w.way[k][j] = m.way[k][j + 1]
    PROVE  RefSet(x, w, k, RemoveAt(s, p))
    <1> DEFINE r == RemoveAt(s, p)
    <1>1. s \in Seq(Nat) /\ Len(s) \in Nat /\ Len(s) <= x.assoc /\ x.assoc \in Nat
        BY DEF RefSet, GeometryOK
    <1>2. /\ r \in Seq(Nat) /\ Len(r) = Len(s) - 1
          /\ (\A j \in 1..(p - 1) : r[j] = s[j]) /\ (\A j \in p..(Len(s) - 1) : r[j] = s[j + 1])
        BY <1>1, RemoveAtIs
    <1> HIDE DEF r
    <1>3. ASSUME NEW j \in 1..x.assoc
          PROVE  /\ j <= Len(r) => Holds(x, w, k, w.way[k][j], r[j])
                 /\ ~(j <= Len(r)) => ~w.blk[k][w.way[k][j]].valid
        <2>1. CASE j = x.assoc
            <3>1. ~(j <= Len(r))
                BY <1>1, <1>2, <2>1
            <3> QED
                BY <2>1, <3>1
        <2>2. CASE j # x.assoc
            <3> DEFINE y == IF j < p THEN j ELSE j + 1
            <3>1. y \in 1..x.assoc /\ y # p /\ (y <= Len(s) <=> j <= Len(r))
                <4>1. CASE j < p
                    BY <1>1, <1>2, <2>2, <4>1
                <4>2. CASE ~(j < p)
                    <5>1. y = j + 1 /\ p \in Int /\ j \in Int /\ Len(r) = Len(s) - 1
                        BY <1>1, <1>2, <4>2
                    <5> HIDE DEF y
                    <5> QED
                        BY <1>1, <2>2, <4>2, <5>1
                <4> QED
                    BY <4>1, <4>2
            <3>2. w.way[k][j] = m.way[k][y] /\ (j <= Len(r) => r[j] = s[y])
                <4>1. CASE j < p
                    <5>1. j \in 1..(p - 1)
                        BY <1>1, <4>1
                    <5> QED
                        BY <1>2, <4>1, <5>1
                <4>2. CASE ~(j < p)
                    <5>1. j \in p..(x.assoc - 1) /\ (j <= Len(r) => j \in p..(Len(s) - 1))
                        BY <1>1, <1>2, <2>2, <4>2
                    <5> QED
                        BY <1>2, <4>2, <5>1
                <4> QED
                    BY <4>1, <4>2
            <3> HIDE DEF y
            <3>3. SameHeld(x, w, m, k, m.way[k][y])
                BY <3>1
            <3>4. /\ y <= Len(s) => Holds(x, m, k, m.way[k][y], s[y])
                  /\ ~(y <= Len(s)) => ~m.blk[k][m.way[k][y]].valid
                BY <3>1 DEF RefSet
            <3> QED
                BY <3>1, <3>2, <3>3, <3>4 DEF SameHeld
        <2> QED
            BY <2>1, <2>2
    <1>4. Len(r) <= x.assoc
        BY <1>1, <1>2
    <1>5. RefSet(x, w, k, r)
        BY <1>2, <1>3, <1>4 DEF RefSet
    <1> QED
        BY <1>5 DEF r

LEMMA SameHeldIs ==
    ASSUME NEW x, NEW m, NEW w, NEW k, NEW i, w.blk[k][i].tag = m.blk[k][i].tag, w.blk[k][i].valid <=> m.blk[k][i].valid
    PROVE  SameHeld(x, w, m, k, i)
    BY DEF SameHeld, Holds

\* A set whose list and contents are as before.
LEMMA RefSame ==
    ASSUME NEW x, NEW m, NEW w, NEW k, NEW s, RefSet(x, m, k, s),
           \A j \in 1..x.assoc : m.way[k][j] \in Ways(x), w.way[k] = m.way[k], \A i \in Ways(x) : SameHeld(x, w, m, k, i)
    PROVE  RefSet(x, w, k, s)
    BY DEF RefSet, SameHeld

LEMMA WaysIn ==
    ASSUME NEW x, GeometryOK(x), NEW m, CacheOK(x, m), NEW k \in SetsOf(x)
    PROVE  (\A j \in 1..x.assoc : m.way[k][j] \in Ways(x)) /\ Len(m.way[k]) = x.assoc /\ OneToOne(m.way[k])
    <1>1. WayOK(x, m.way[k]) /\ x.assoc \in Nat
        BY DEF CacheOK, GeometryOK
    <1> QED
        BY <1>1 DEF WayOK
-----------------------------------------------------------------------------
(* An access.                                                              *)

\* What an access to b makes of m: a cache w in front of a memory that misses
\* the writes of next.
Accessed(x, m, w, cmd, b, next) ==
    /\ CacheOK(x, w)
    /\ Dirty(x, w) = IF cmd = "Write" THEN next \cup {b} ELSE next
    /\ \A h \in SetsOf(x), j \in Ways(x) : m.blk[h][j].valid /\ w.blk[h][j].valid => w.blk[h][j].ready >= m.blk[h][j].ready
    /\ x.policy # "Random" =>
         \A h \in SetsOf(x) : \A s :
             RefSet(x, m, h, s) => RefSet(x, w, h, IF h = CACHE_SET(x, b) THEN RefAccess(x, s, b) ELSE s)

LEMMA HitServes ==
    ASSUME NEW x, GeometryOK(x), NEW m, CacheOK(x, m), NEW cmd, NEW b \in Nat, NEW i \in Ways(x), NEW t,
           Found(x, m, b, i), NEW slow, ~slow => m.last_tagset = b /\ m.last_blk = i
    PROVE  Accessed(x, m, Hit(x, m, cmd, b, i, t, slow).c, cmd, b, Dirty(x, m))
    <1> DEFINE k == CACHE_SET(x, b)
               w == Hit(x, m, cmd, b, i, t, slow).c
               f == w.blk[k][i]
               e == m.blk[k][i]
    <1>1. k \in SetsOf(x) /\ CACHE_TAG(x, b) \in Nat
        BY Named
    <1>2. /\ CacheOK(x, w)
          /\ w.way = [m.way EXCEPT ![k] = IF slow /\ x.policy = "LRU" THEN update_way_list(@, i, "Head") ELSE @]
          /\ w.blk = [m.blk EXCEPT ![k] = [@ EXCEPT ![i] = f]]
          /\ f.tag = e.tag /\ f.valid /\ f.ready = e.ready
          /\ f.dirty <=> e.dirty \/ cmd = "Write"
        <2>1. CacheOK(x, w) /\ HitOnly(x, m, cmd, b, i, slow, w)
            BY HitKeeps
        <2> HIDE DEF w
        <2> QED
            BY <2>1 DEF HitOnly
    <1> HIDE DEF w
    <1>3. m.blk \in [SetsOf(x) -> [Ways(x) -> BlkSet]] /\ m.way \in [SetsOf(x) -> Seq(Ways(x))]
        BY DEF CacheOK, Shape
    <1>4. \A h \in SetsOf(x), j \in Ways(x) : h # k \/ j # i => w.blk[h][j] = m.blk[h][j]
        <2> HIDE DEF f
        <2> QED
            BY <1>1, <1>2, <1>3
    <1>5. e.valid /\ e.tag = CACHE_TAG(x, b) /\ Holds(x, m, k, i, b)
        BY <1>1, HoldsIs DEF Found
    <1>6. ASSUME NEW h \in SetsOf(x), NEW j \in Ways(x) PROVE SameHeld(x, w, m, h, j)
        <2>1. CASE h = k /\ j = i
            BY <1>2, <1>5, <2>1, SameHeldIs
        <2>2. CASE h # k \/ j # i
            BY <1>4, <2>2, SameHeldIs
        <2> QED
            BY <2>1, <2>2
    <1>7. ASSUME NEW h \in SetsOf(x), NEW j \in Ways(x) PROVE w.blk[h][j].ready >= m.blk[h][j].ready
        <2>1. m.blk[h][j].ready \in Int
            BY <1>3 DEF BlkSet
        <2>2. w.blk[h][j].ready = m.blk[h][j].ready
            BY <1>2, <1>4
        <2> QED
            BY <2>1, <2>2
    <1>8. Dirty(x, w) = IF cmd = "Write" THEN Dirty(x, m) \cup {b} ELSE Dirty(x, m)
        <2>1. CACHE_MK_BADDR(x, e.tag, k) = b
            BY <1>5 DEF Holds
        <2>2. ASSUME NEW z PROVE /\ Carries(x, m, k, i, z) <=> e.dirty /\ z = b
                                 /\ Carries(x, w, k, i, z) <=> (e.dirty \/ cmd = "Write") /\ z = b
            BY <1>2, <1>5, <2>1 DEF Carries
        <2>3. ASSUME NEW z PROVE /\ z \in Dirty(x, w) <=> (z \in Dirty(x, m) /\ ~Carries(x, m, k, i, z)) \/ Carries(x, w, k, i, z)
                                 /\ Carries(x, m, k, i, z) => z \in Dirty(x, m)
            <3> HIDE DEF f, k
            <3> QED
                BY <1>1, <1>2, DirtyChange
        <2>4. ASSUME NEW z PROVE z \in Dirty(x, w) <=> z \in Dirty(x, m) \/ (cmd = "Write" /\ z = b)
            BY <2>2, <2>3
        <2> QED
            BY <2>4
    <1>9. ASSUME x.policy # "Random", NEW h \in SetsOf(x), NEW s, RefSet(x, m, h, s)
          PROVE  RefSet(x, w, h, IF h = k THEN RefAccess(x, s, b) ELSE s)
        <2>1. \A j \in 1..x.assoc : m.way[h][j] \in Ways(x)
            BY WaysIn
        <2>2. h # k \/ x.policy # "LRU" => RefSet(x, w, h, s)
            <3>1. h # k \/ x.policy # "LRU" => w.way[h] = m.way[h]
                BY <1>1, <1>2, <1>3
            <3> QED
                BY <1>6, <1>9, <2>1, <3>1, RefSame
        <2>3. CASE h # k
            BY <2>2, <2>3
        <2>4. CASE h = k
            <3>1. WayOK(x, m.way[k]) /\ x.assoc \in Nat \ {0}
                BY <1>1 DEF CacheOK, GeometryOK
            <3>2. PICK p \in 1..x.assoc :
                     /\ m.way[k][p] = i
                     /\ x.policy = "LRU" => /\ w.way[k][1] = i /\ \A j \in 1..(p - 1) : w.way[k][j + 1] = m.way[k][j]
                                            /\ \A j \in (p + 1)..x.assoc : w.way[k][j] = m.way[k][j]
                <4>1. CASE slow /\ x.policy = "LRU"
                    <5>1. w.way[k] = update_way_list(m.way[k], i, "Head")
                        BY <1>1, <1>2, <1>3, <4>1
                    <5>2. ToHead(x, m.way[k], i, w.way[k])
                        BY <3>1, <5>1, HeadMoved
                    <5> QED
                        BY <5>2 DEF ToHead
                <4>2. CASE slow /\ x.policy # "LRU"
                    <5>1. PICK p \in 1..x.assoc : m.way[k][p] = i
                        BY <3>1 DEF WayOK, ToSet
                    <5> QED
                        BY <4>2, <5>1
                <4>3. CASE ~slow
                    <5>1. w.way[k] = m.way[k]
                        BY <1>1, <1>2, <1>3, <4>3
                    <5>2. CASE x.policy = "LRU"
                        <6>1. m.way[k][1] = i /\ 1 \in 1..x.assoc /\ \A j : j \notin 1..(1 - 1)
                            BY <3>1, <4>3, <5>2 DEF CacheOK, LastOK, NULL, Ways
                        <6> QED
                            BY <5>1, <6>1
                    <5>3. CASE x.policy # "LRU"
                        <6>1. PICK p \in 1..x.assoc : m.way[k][p] = i
                            BY <3>1 DEF WayOK, ToSet
                        <6> QED
                            BY <5>3, <6>1
                    <5> QED
                        BY <5>2, <5>3
                <4> QED
                    BY <4>1, <4>2, <4>3
            <3>3. p \in 1..Len(s) /\ s[p] = b /\ OneToOne(s) /\ Contains(s, b) /\ Unlink(s, b) = RemoveAt(s, p)
                BY <1>1, <1>5, <1>9, <2>4, <3>2, RefFound
            <3>4. CASE x.policy = "LRU"
                <4>1. RefSet(x, w, k, <<s[p]>> \o RemoveAt(s, p))
                    <5>1. /\ \A j \in 1..x.assoc : m.way[k][j] \in Ways(x)
                          /\ \A j \in Ways(x) : SameHeld(x, w, m, k, j)
                          /\ RefSet(x, m, k, s)
                        BY <1>1, <1>6, <1>9, <2>1, <2>4
                    <5> HIDE DEF k
                    <5> QED
                        BY <3>2, <3>3, <3>4, <5>1, RefMoved
                <4>2. RefAccess(x, s, b) = <<s[p]>> \o RemoveAt(s, p)
                    BY <3>3, <3>4 DEF RefAccess
                <4> QED
                    BY <2>4, <4>1, <4>2
            <3>5. CASE x.policy # "LRU"
                <4>1. RefAccess(x, s, b) = s
                    BY <3>3, <3>5 DEF RefAccess
                <4> QED
                    BY <2>2, <2>4, <3>5, <4>1
            <3> QED
                BY <3>4, <3>5
        <2> QED
            BY <2>3, <2>4
    <1> QED
        BY <1>2, <1>7, <1>8, <1>9 DEF Accessed, w

LEMMA MissServes ==
    ASSUME NEW x, GeometryOK(x), NEW m, CacheOK(x, m), NEW cmd, NEW b \in Nat, NEW t \in Nat,
           NEW rnd, x.policy = "Random" => rnd \in Ways(x), \A j \in Ways(x) : ~Found(x, m, b, j)
    PROVE  LET r == Miss(x, m, cmd, b, Victim(x, m, CACHE_SET(x, b), rnd), t, Dirty(x, m))
           IN  Accessed(x, m, r.c, cmd, b, r.next)
    <1> DEFINE k == CACHE_SET(x, b)
               i == Victim(x, m, k, rnd)
               r == Miss(x, m, cmd, b, i, t, Dirty(x, m))
               w == r.c
               f == w.blk[k][i]
               e == m.blk[k][i]
    <1>1. k \in SetsOf(x) /\ CACHE_TAG(x, b) \in Nat
        BY Named
    <1>2. x.assoc \in Nat \ {0} /\ WayOK(x, m.way[k]) /\ (\A j \in 1..x.assoc : m.way[k][j] \in Ways(x)) /\ Len(m.way[k]) = x.assoc
        BY <1>1, WaysIn DEF GeometryOK, CacheOK
    <1>3. i \in Ways(x) /\ (x.policy # "Random" => i = m.way[k][x.assoc])
        BY <1>2 DEF Victim, Last
    <1> HIDE DEF i, k
    <1>4. CacheOK(x, w) /\ MissOnly(x, m, cmd, b, i, Dirty(x, m), r)
        BY <1>3, MissKeeps
    <1> HIDE DEF r
    <1>5. /\ w.way = [m.way EXCEPT ![k] = IF x.policy = "Random" THEN @ ELSE update_way_list(@, i, "Head")]
          /\ w.blk = [m.blk EXCEPT ![k] = [@ EXCEPT ![i] = f]]
          /\ f.tag = CACHE_TAG(x, b) /\ f.valid /\ (f.dirty <=> cmd = "Write")
          /\ e.valid => f.ready >= e.ready
          /\ r.next = IF e.valid /\ e.dirty THEN Dirty(x, m) \ {CACHE_MK_BADDR(x, e.tag, k)} ELSE Dirty(x, m)
        BY <1>4 DEF MissOnly, k
    <1> HIDE DEF w
    <1>6. m.blk \in [SetsOf(x) -> [Ways(x) -> BlkSet]] /\ m.way \in [SetsOf(x) -> Seq(Ways(x))]
        BY DEF CacheOK, Shape
    <1>7. \A h \in SetsOf(x), j \in Ways(x) : h # k \/ j # i => w.blk[h][j] = m.blk[h][j]
        <2> HIDE DEF f
        <2> QED
            BY <1>1, <1>3, <1>5, <1>6
    <1>8. Holds(x, w, k, i, b)
        BY <1>1, <1>3, <1>4, <1>5, HoldsIs DEF k
    <1>9. \A h \in SetsOf(x), j \in Ways(x) : h # k \/ j # i => SameHeld(x, w, m, h, j)
        BY <1>7, SameHeldIs
    <1>10. ASSUME NEW h \in SetsOf(x), NEW j \in Ways(x), m.blk[h][j].valid PROVE w.blk[h][j].ready >= m.blk[h][j].ready
        <2>1. m.blk[h][j].ready \in Int
            BY <1>6 DEF BlkSet
        <2>2. CASE h = k /\ j = i
            BY <1>5, <1>10, <2>2
        <2>3. CASE h # k \/ j # i
            BY <1>7, <2>1, <2>3
        <2> QED
            BY <2>2, <2>3
    <1>11. Dirty(x, w) = IF cmd = "Write" THEN r.next \cup {b} ELSE r.next
        <2>1. CACHE_MK_BADDR(x, f.tag, k) = b
            BY <1>8 DEF Holds
        <2>2. ASSUME NEW z PROVE /\ Carries(x, m, k, i, z) <=> e.valid /\ e.dirty /\ z = CACHE_MK_BADDR(x, e.tag, k)
                                 /\ Carries(x, w, k, i, z) <=> cmd = "Write" /\ z = b
            BY <1>5, <2>1 DEF Carries
        <2>3. ASSUME NEW z PROVE z \in Dirty(x, w) <=> (z \in Dirty(x, m) /\ ~Carries(x, m, k, i, z)) \/ Carries(x, w, k, i, z)
            <3> HIDE DEF f
            <3> QED
                BY <1>1, <1>3, <1>5, DirtyChange
        <2>4. ASSUME NEW z PROVE z \in r.next <=> z \in Dirty(x, m) /\ ~Carries(x, m, k, i, z)
            <3>1. CASE e.valid /\ e.dirty
                BY <1>5, <2>2, <3>1
            <3>2. CASE ~(e.valid /\ e.dirty)
                BY <1>5, <2>2, <3>2
            <3> QED
                BY <3>1, <3>2
        <2>5. ASSUME NEW z PROVE z \in Dirty(x, w) <=> z \in r.next \/ (cmd = "Write" /\ z = b)
            BY <2>2, <2>3, <2>4
        <2> QED
            BY <2>5
    <1>12. ASSUME x.policy # "Random", NEW h \in SetsOf(x), NEW s, RefSet(x, m, h, s)
           PROVE  RefSet(x, w, h, IF h = k THEN RefAccess(x, s, b) ELSE s)
        <2>1. CASE h # k
            <3>1. w.way[h] = m.way[h] /\ (\A j \in 1..x.assoc : m.way[h][j] \in Ways(x)) /\ \A j \in Ways(x) : SameHeld(x, w, m, h, j)
                BY <1>1, <1>5, <1>6, <1>9, <2>1, WaysIn
            <3> QED
                BY <1>12, <2>1, <3>1, RefSame
        <2>2. CASE h = k
            <3>1. w.way[k] = update_way_list(m.way[k], i, "Head")
                BY <1>1, <1>5, <1>6, <1>12
            <3>2. PICK p \in 1..x.assoc :
                     m.way[k][p] = i /\ w.way[k][1] = i /\ \A j \in 1..(p - 1) : w.way[k][j + 1] = m.way[k][j]
                <4>1. ToHead(x, m.way[k], i, w.way[k])
                    BY <1>2, <1>3, <3>1, HeadMoved
                <4> QED
                    BY <4>1 DEF ToHead
            <3>3. \A j \in 1..x.assoc : m.way[k][j] = i => j = x.assoc
                <4>1. DOMAIN m.way[k] = 1..x.assoc /\ x.assoc \in 1..x.assoc /\ OneToOne(m.way[k])
                    BY <1>2 DEF WayOK
                <4> QED
                    BY <1>3, <1>12, <4>1 DEF OneToOne
            <3>4. \A j \in 1..(x.assoc - 1) : SameHeld(x, w, m, k, m.way[k][j]) /\ w.way[k][j + 1] = m.way[k][j]
                <4>1. p = x.assoc
                    BY <3>2, <3>3
                <4>2. \A j \in 1..(x.assoc - 1) : j \in 1..x.assoc /\ j # x.assoc
                    BY <1>2
                <4> QED
                    BY <1>1, <1>2, <1>9, <3>2, <3>3, <4>1, <4>2
            <3>5. RefSet(x, w, k, <<b>> \o (IF Len(s) = x.assoc THEN Front(s) ELSE s))
                BY <1>2, <1>8, <1>12, <2>2, <3>2, <3>4, RefMissed
            <3>6. \A j \in Ways(x) : ~Holds(x, m, k, j, b)
                BY <1>1, HoldsIs DEF Found, k
            <3>7. ~Contains(s, b)
                BY <1>1, <1>12, <2>2, <3>6, RefLost
            <3>8. RefAccess(x, s, b) = <<b>> \o (IF Len(s) = x.assoc THEN Front(s) ELSE s)
                BY <3>7 DEF RefAccess
            <3> QED
                BY <2>2, <3>5, <3>8
        <2> QED
            BY <2>1, <2>2
    <1>13. Accessed(x, m, w, cmd, b, r.next)
        BY <1>4, <1>10, <1>11, <1>12 DEF Accessed, k, w
    <1> QED
        BY <1>13 DEF w, r, i, k

\* Any access that does not end the program.
LEMMA AccessServes ==
    ASSUME NEW x, GeometryOK(x), NEW m, CacheOK(x, m), NEW cmd, NEW b \in Nat, NEW t \in Nat,
           NEW rnd, x.policy = "Random" => rnd \in Ways(x), ~NullAccess(m, b)
    PROVE  LET r == cache_access(x, m, cmd, b, t, rnd, Dirty(x, m))
           IN  Accessed(x, m, r.c, cmd, b, r.next)
    <1> DEFINE i == IF m.last_tagset = b THEN m.last_blk ELSE Search(x, m, b)
               slow == m.last_tagset # b
               r == cache_access(x, m, cmd, b, t, rnd, Dirty(x, m))
    <1>1. (i = NULL /\ \A j \in Ways(x) : ~Found(x, m, b, j)) \/ (i # NULL /\ i \in Ways(x) /\ Found(x, m, b, i))
        <2>1. CASE m.last_tagset = b
            <3>1. i = m.last_blk /\ i # NULL
                BY <2>1 DEF NullAccess
            <3>2. i \in Ways(x)
                BY <3>1 DEF CacheOK, Shape, NULL
            <3>3. Found(x, m, b, i)
                BY <2>1, <3>1 DEF CacheOK, LastOK, Found
            <3> QED
                BY <3>1, <3>2, <3>3
        <2>2. CASE m.last_tagset # b
            BY <2>2, SearchIs DEF Found
        <2> QED
            BY <2>1, <2>2
    <1>2. r = AccessBlock(x, m, cmd, b, i, t, rnd, Dirty(x, m))
        BY DEF cache_access
    <1>3. ~slow => m.last_tagset = b /\ m.last_blk = i
        OBVIOUS
    <1> HIDE DEF i, r
    <1>4. CASE i = NULL
        <2>1. r = Miss(x, m, cmd, b, Victim(x, m, CACHE_SET(x, b), rnd), t, Dirty(x, m))
            BY <1>2, <1>4 DEF AccessBlock
        <2>2. \A j \in Ways(x) : ~Found(x, m, b, j)
            BY <1>1, <1>4
        <2> QED
            BY <2>1, <2>2, MissServes DEF r
    <1>5. CASE i # NULL
        <2>1. r.c = Hit(x, m, cmd, b, i, t, slow).c /\ r.next = Dirty(x, m)
            BY <1>2, <1>5 DEF AccessBlock
        <2> HIDE DEF slow
        <2>2. Accessed(x, m, Hit(x, m, cmd, b, i, t, slow).c, cmd, b, Dirty(x, m))
            BY <1>1, <1>3, <1>5, HitServes
        <2> QED
            BY <2>1, <2>2 DEF r
    <1> QED
        BY <1>4, <1>5

\* The flush of one address takes it out of its reference.
LEMMA FlushAddrServes ==
    ASSUME NEW x, GeometryOK(x), NEW m, CacheOK(x, m), NEW b \in Nat, NEW t,
           NEW h \in SetsOf(x), NEW s, RefSet(x, m, h, s)
    PROVE  LET w == cache_flush_addr(x, m, b, t, Dirty(x, m)).c
           IN  RefSet(x, w, h, IF h = CACHE_SET(x, b) THEN IF Contains(s, b) THEN Unlink(s, b) ELSE s ELSE s)
    <1> DEFINE k == CACHE_SET(x, b)
               i == Search(x, m, b)
               w == cache_flush_addr(x, m, b, t, Dirty(x, m)).c
    <1>1. k \in SetsOf(x) /\ x.assoc \in Nat \ {0} /\ \A j \in 1..x.assoc : m.way[h][j] \in Ways(x)
        BY Named, WaysIn DEF GeometryOK
    <1>2. /\ i = NULL => w = m /\ \A j \in Ways(x) : ~Found(x, m, b, j)
          /\ i # NULL => i \in Ways(x) /\ Found(x, m, b, i)
        <2>1. /\ i = NULL => \A j \in Ways(x) : ~Found(x, m, b, j)
              /\ i # NULL => i \in Ways(x) /\ Found(x, m, b, i)
            BY SearchIs DEF Found
        <2>2. AddrFlushed(x, m, k, i, cache_flush_addr(x, m, b, t, Dirty(x, m)))
            BY FlushAddrIs
        <2>3. i = NULL => w = m
            BY <2>2 DEF AddrFlushed
        <2> QED
            BY <2>1, <2>3
    <1>3. CASE i = NULL
        <2>1. \A j \in Ways(x) : ~Holds(x, m, k, j, b)
            BY <1>1, <1>2, <1>3, HoldsIs DEF Found
        <2>2. h = k => ~Contains(s, b)
            BY <1>1, <2>1, RefLost
        <2> QED
            BY <1>2, <1>3, <2>2
    <1>4. CASE i # NULL
        <2>1. /\ w.way = [m.way EXCEPT ![k] = update_way_list(@, i, "Tail")] /\ ~w.blk[k][i].valid
              /\ \A z \in SetsOf(x), j \in Ways(x) : z # k \/ j # i => w.blk[z][j] = m.blk[z][j]
            <3>1. AddrFlushed(x, m, k, i, cache_flush_addr(x, m, b, t, Dirty(x, m)))
                BY FlushAddrIs
            <3> QED
                BY <1>4, <3>1 DEF AddrFlushed
        <2>2. i \in Ways(x) /\ m.way \in [SetsOf(x) -> Seq(Ways(x))] /\ Holds(x, m, k, i, b)
            BY <1>1, <1>2, <1>4, HoldsIs DEF CacheOK, Shape, Found
        <2> HIDE DEF w, i, k
        <2>3. \A z \in SetsOf(x), j \in Ways(x) : z # k \/ j # i => SameHeld(x, w, m, z, j)
            BY <2>1, SameHeldIs
        <2>4. CASE h # k
            <3>1. w.way[h] = m.way[h] /\ \A j \in Ways(x) : SameHeld(x, w, m, h, j)
                BY <2>1, <2>2, <2>3, <2>4
            <3>2. RefSet(x, w, h, s)
                BY <1>1, <3>1, RefSame
            <3> QED
                BY <2>4, <3>2 DEF k, w
        <2>5. CASE h = k
            <3>1. WayOK(x, m.way[k]) /\ w.way[k] = update_way_list(m.way[k], i, "Tail") /\ RefSet(x, m, k, s)
                BY <1>1, <2>1, <2>2, <2>5 DEF CacheOK
            <3>2. PICK p \in 1..x.assoc :
                     /\ m.way[k][p] = i /\ w.way[k][x.assoc] = i
                     /\ \A j \in 1..(p - 1) : w.way[k][j] = m.way[k][j]
                     /\ \A j \in p..(x.assoc - 1) : w.way[k][j] = m.way[k][j + 1]
                <4>1. ToTail(x, m.way[k], i, w.way[k])
                    BY <2>2, <3>1, TailMoved
                <4> QED
                    BY <4>1 DEF ToTail
            <3>3. p \in 1..Len(s) /\ Contains(s, b) /\ Unlink(s, b) = RemoveAt(s, p)
                BY <1>1, <2>2, <3>1, <3>2, RefFound
            <3>4. \A j \in 1..x.assoc : j # p => SameHeld(x, w, m, k, m.way[k][j])
                <4>1. DOMAIN m.way[k] = 1..x.assoc /\ OneToOne(m.way[k])
                    BY <3>1 DEF WayOK
                <4>2. \A j \in 1..x.assoc : j # p => m.way[k][j] # i
                    BY <3>2, <4>1 DEF OneToOne
                <4> QED
                    BY <1>1, <2>3, <2>5, <4>2
            <3>5. RefSet(x, w, k, RemoveAt(s, p))
                BY <2>1, <3>1, <3>2, <3>3, <3>4, RefDropped
            <3> QED
                BY <2>5, <3>3, <3>5 DEF k, w
        <2> QED
            BY <2>4, <2>5
    <1> QED
        BY <1>3, <1>4
-----------------------------------------------------------------------------
(* The cache level.                                                        *)

RefsOK(x, m, rf) ==
    x.policy # "Random" => rf \in [SetsOf(x) -> Seq(Nat)] /\ \A k \in SetsOf(x) : RefSet(x, m, k, rf[k])

LevelOK ==
    g \in Geometries /\ now \in Nat /\ CacheOK(g, c) /\ Dirty(g, c) = unsaved /\ RefsOK(g, c, ref)

LEMMA InitOK == LevelInit => LevelOK
    <1> SUFFICES ASSUME LevelInit PROVE LevelOK
        OBVIOUS
    <1>1. g \in Geometries /\ GeometryOK(g) /\ c = cache_create(g) /\ now = 0 /\ unsaved = {} /\ ref = [k \in SetsOf(g) |-> <<>>]
        BY Geometric DEF LevelInit
    <1>2. CacheOK(g, c) /\ Dirty(g, c) = {} /\ \A h \in SetsOf(g), j \in Ways(g) : ~c.blk[h][j].valid
        BY <1>1, CreateIs
    <1>3. ASSUME NEW k \in SetsOf(g) PROVE RefSet(g, c, k, <<>>)
        <2>1. \A j \in 1..g.assoc : c.way[k][j] \in Ways(g)
            BY <1>1, <1>2, WaysIn
        <2>2. <<>> \in Seq(Nat) /\ Len(<<>>) = 0 /\ Len(<<>>) <= g.assoc /\ \A j \in 1..g.assoc : ~(j <= Len(<<>>))
            BY <1>1 DEF GeometryOK
        <2> QED
            BY <1>2, <2>1, <2>2 DEF RefSet
    <1> QED
        BY <1>1, <1>2, <1>3 DEF LevelOK, RefsOK

\* Every call keeps the invariant and no block becomes ready sooner.
LEMMA NextOK == LevelOK /\ [LevelNext]_levelVars => LevelOK' /\ ReadyGrows
    <1> SUFFICES ASSUME LevelOK, [LevelNext]_levelVars PROVE LevelOK' /\ ReadyGrows
        OBVIOUS
    <1>1. GeometryOK(g) /\ CacheOK(g, c) /\ Dirty(g, c) = unsaved /\ now \in Nat /\ g \in Geometries /\ RefsOK(g, c, ref)
        BY Geometric DEF LevelOK
    <1>2. g.blocks \subseteq Nat
        BY <1>1 DEF GeometryOK
    <1>3. \A h \in SetsOf(g), j \in Ways(g) : c.blk[h][j].ready \in Int /\ c.blk[h][j].ready >= c.blk[h][j].ready
        BY <1>1 DEF CacheOK, Shape, BlkSet
    <1>4. CASE UNCHANGED <<g, c, unsaved, ref>> /\ now' \in Nat
        BY <1>1, <1>3, <1>4 DEF LevelOK, ReadyGrows
    <1>5. ASSUME NEW cmd \in {"Read", "Write"}, NEW b \in g.blocks, NEW rnd \in Picks, Access(cmd, b, rnd) PROVE LevelOK' /\ ReadyGrows
        <2> DEFINE r == cache_access(g, c, cmd, b, now, rnd, unsaved)
        <2>1. ~NullAccess(c, b) /\ b \in Nat /\ (g.policy = "Random" => rnd \in Ways(g))
            BY <1>2, <1>5 DEF Access, Picks
        <2>2. Accessed(g, c, r.c, cmd, b, r.next)
            BY <1>1, <2>1, AccessServes
        <2>3. /\ c' = r.c /\ unsaved' = IF cmd = "Write" THEN r.next \cup {b} ELSE r.next
              /\ g' = g /\ now' = now /\ ref' = [ref EXCEPT ![CACHE_SET(g, b)] = RefAccess(g, @, b)]
            BY <1>5 DEF Access
        <2> HIDE DEF r
        <2>4. CacheOK(g, c') /\ Dirty(g, c') = unsaved' /\ ReadyGrows
            BY <2>2, <2>3 DEF Accessed, ReadyGrows
        <2>5. ASSUME g.policy # "Random" PROVE ref' \in [SetsOf(g) -> Seq(Nat)] /\ \A k \in SetsOf(g) : RefSet(g, c', k, ref'[k])
            <3>1. ref \in [SetsOf(g) -> Seq(Nat)] /\ \A k \in SetsOf(g) : RefSet(g, c, k, ref[k])
                BY <1>1, <2>5 DEF RefsOK
            <3>2. ASSUME NEW k \in SetsOf(g) PROVE ref'[k] = IF k = CACHE_SET(g, b) THEN RefAccess(g, ref[k], b) ELSE ref[k]
                BY <2>3, <3>1
            <3>3. ASSUME NEW k \in SetsOf(g) PROVE RefSet(g, c', k, ref'[k])
                BY <2>2, <2>3, <2>5, <3>1, <3>2 DEF Accessed
            <3>4. \A k \in SetsOf(g) : ref'[k] \in Seq(Nat)
                BY <3>3 DEF RefSet
            <3>5. ref' \in [SetsOf(g) -> Seq(Nat)]
                BY <2>3, <3>1, <3>4
            <3> QED
                BY <3>3, <3>5
        <2> QED
            BY <1>1, <2>3, <2>4, <2>5 DEF LevelOK, RefsOK
    <1>6. ASSUME Flush PROVE LevelOK' /\ ReadyGrows
        <2> DEFINE r == cache_flush(g, c, now, unsaved)
        <2>1. /\ CacheOK(g, r.c) /\ Dirty(g, r.c) = r.next /\ Less(g, r.c, c)
              /\ \A h \in SetsOf(g), j \in Ways(g) : ~r.c.blk[h][j].valid
            BY <1>1, FlushIs
        <2>2. c' = r.c /\ unsaved' = r.next /\ g' = g /\ now' = now /\ ref' = [k \in SetsOf(g) |-> <<>>]
            BY <1>6 DEF Flush
        <2> HIDE DEF r
        <2>3. ASSUME NEW k \in SetsOf(g) PROVE RefSet(g, c', k, <<>>)
            <3>1. \A j \in 1..g.assoc : c'.way[k][j] \in Ways(g)
                BY <1>1, <2>1, <2>2, WaysIn
            <3>2. <<>> \in Seq(Nat) /\ Len(<<>>) = 0 /\ Len(<<>>) <= g.assoc /\ \A j \in 1..g.assoc : ~(j <= Len(<<>>))
                BY <1>1 DEF GeometryOK
            <3> QED
                BY <2>1, <2>2, <3>1, <3>2 DEF RefSet
        <2>4. RefsOK(g, c', ref')
            BY <2>2, <2>3 DEF RefsOK
        <2>5. ReadyGrows
            BY <2>1, <2>2 DEF ReadyGrows
        <2> QED
            BY <1>1, <2>1, <2>2, <2>4, <2>5 DEF LevelOK
    <1>7. ASSUME NEW b \in g.blocks, FlushAddr(b) PROVE LevelOK' /\ ReadyGrows
        <2> DEFINE r == cache_flush_addr(g, c, b, now, unsaved)
                   s == CACHE_SET(g, b)
                   i == Search(g, c, b)
        <2>1. b \in Nat
            BY <1>2
        <2>2. /\ CacheOK(g, r.c) /\ Dirty(g, r.c) = r.next
              /\ i = NULL => r.c = c
              /\ i # NULL => /\ ~r.c.blk[s][i].valid
                             /\ \A h \in SetsOf(g), j \in Ways(g) : h # s \/ j # i => r.c.blk[h][j] = c.blk[h][j]
            <3>1. AddrFlushed(g, c, s, i, r)
                BY <1>1, <2>1, FlushAddrIs
            <3> HIDE DEF r, s, i
            <3> QED
                BY <3>1 DEF AddrFlushed
        <2>3. /\ c' = r.c /\ unsaved' = r.next /\ g' = g /\ now' = now
              /\ ref' = [ref EXCEPT ![s] = IF Contains(@, b) THEN Unlink(@, b) ELSE @]
            BY <1>7 DEF FlushAddr
        <2>4. \A k \in SetsOf(g) : \A q : RefSet(g, c, k, q) =>
                 RefSet(g, r.c, k, IF k = s THEN IF Contains(q, b) THEN Unlink(q, b) ELSE q ELSE q)
            BY <1>1, <2>1, FlushAddrServes
        <2> HIDE DEF r, s, i
        <2>5. ReadyGrows
            BY <1>3, <2>2, <2>3 DEF ReadyGrows
        <2>6. ASSUME g.policy # "Random" PROVE ref' \in [SetsOf(g) -> Seq(Nat)] /\ \A k \in SetsOf(g) : RefSet(g, c', k, ref'[k])
            <3>1. ref \in [SetsOf(g) -> Seq(Nat)] /\ \A k \in SetsOf(g) : RefSet(g, c, k, ref[k])
                BY <1>1, <2>6 DEF RefsOK
            <3>2. ASSUME NEW k \in SetsOf(g)
                  PROVE  ref'[k] = IF k = s THEN IF Contains(ref[k], b) THEN Unlink(ref[k], b) ELSE ref[k] ELSE ref[k]
                BY <2>3, <3>1
            <3>3. ASSUME NEW k \in SetsOf(g) PROVE RefSet(g, c', k, ref'[k])
                BY <2>3, <2>4, <3>1, <3>2
            <3>4. \A k \in SetsOf(g) : ref'[k] \in Seq(Nat)
                BY <3>3 DEF RefSet
            <3>5. ref' \in [SetsOf(g) -> Seq(Nat)]
                BY <2>3, <3>1, <3>4
            <3> QED
                BY <3>3, <3>5
        <2> QED
            BY <1>1, <2>2, <2>3, <2>5, <2>6 DEF LevelOK, RefsOK
    <1>8. CASE Tick
        BY <1>1, <1>4, <1>8 DEF Tick
    <1>9. ASSUME NEW cmd \in {"Read", "Write"}, NEW b \in g.blocks, AccessNull(cmd, b) PROVE LevelOK' /\ ReadyGrows
        BY <1>1, <1>4, <1>9 DEF AccessNull
    <1>10. CASE UNCHANGED levelVars
        BY <1>1, <1>4, <1>10 DEF levelVars
    <1> QED
        BY <1>5, <1>6, <1>7, <1>8, <1>9, <1>10 DEF LevelNext

\* The invariant says what CacheExact does.
LEMMA OKExact == LevelOK => CacheExact
    <1> SUFFICES ASSUME LevelOK PROVE CacheExact
        OBVIOUS
    <1>1. GeometryOK(g) /\ CacheOK(g, c) /\ Dirty(g, c) = unsaved /\ RefsOK(g, c, ref)
        BY Geometric DEF LevelOK
    <1>2. PolicyExact
        <2> SUFFICES ASSUME g.policy # "Random", NEW k \in SetsOf(g)
                     PROVE  /\ Len(ref[k]) <= Len(c.way[k]) /\ ToSet(c.way[k]) = Ways(g)
                            /\ \A j \in DOMAIN c.way[k] :
                                 IF j <= Len(ref[k]) THEN Holds(g, c, k, c.way[k][j], ref[k][j]) ELSE ~c.blk[k][c.way[k][j]].valid
            BY DEF PolicyExact
        <2>1. RefSet(g, c, k, ref[k]) /\ WayOK(g, c.way[k])
            BY <1>1 DEF RefsOK, CacheOK
        <2>2. DOMAIN c.way[k] = 1..g.assoc /\ Len(c.way[k]) = g.assoc /\ ToSet(c.way[k]) = Ways(g)
            BY <2>1 DEF WayOK
        <2> QED
            BY <2>1, <2>2 DEF RefSet
    <1>3. NoLostWrite
        BY <1>1 DEF NoLostWrite
    <1>4. HashExact
        <2> SUFFICES ASSUME g.hsize > 0, NEW k \in SetsOf(g), NEW i \in Ways(g), NEW h \in 0..(g.hsize - 1)
                     PROVE  Cardinality({j \in DOMAIN c.hash[k][h] : c.hash[k][h][j] = i})
                                = IF h = CACHE_HASH(g, c.blk[k][i].tag) THEN 1 ELSE 0
            BY DEF HashExact
        <2> DEFINE q == c.hash[k][h]
                   P == {j \in DOMAIN q : q[j] = i}
        <2>1. OneToOne(q) /\ (i \in ToSet(q) <=> h = CACHE_HASH(g, c.blk[k][i].tag))
            BY <1>1 DEF CacheOK, ChainsOK, Heads
        <2>2. CASE i \in ToSet(q)
            <3>1. PICK j \in DOMAIN q : q[j] = i
                BY <2>2 DEF ToSet
            <3>2. P = {j}
                BY <2>1, <3>1 DEF OneToOne
            <3> QED
                BY <2>1, <2>2, <3>2, FS_Singleton
        <2>3. CASE i \notin ToSet(q)
            <3>1. P = {}
                BY <2>3 DEF ToSet
            <3> QED
                BY <2>1, <2>3, <3>1, FS_EmptySet
        <2> QED
            BY <2>2, <2>3
    <1>5. FastPathFresh
        <2>1. ASSUME NEW k \in SetsOf(g), NEW i \in Ways(g), NEW j \in Ways(g),
                     c.blk[k][i].valid, c.blk[k][j].valid, c.blk[k][i].tag = c.blk[k][j].tag
              PROVE  i = j
            BY <1>1, <2>1 DEF CacheOK, OnceOK
        <2>2. ASSUME c.last_blk # NULL
              PROVE  Holds(g, c, CACHE_SET(g, c.last_tagset), c.last_blk, c.last_tagset)
            <3> DEFINE k == CACHE_SET(g, c.last_tagset)
            <3>1. c.last_tagset \in Nat /\ c.last_blk \in Ways(g)
                BY <1>1, <2>2 DEF CacheOK, Shape, NULL
            <3>2. k \in SetsOf(g)
                BY <1>1, <3>1, Named
            <3>3. c.blk[k][c.last_blk].valid /\ c.blk[k][c.last_blk].tag = CACHE_TAG(g, c.last_tagset)
                BY <1>1, <2>2 DEF CacheOK, LastOK
            <3> QED
                BY <1>1, <3>1, <3>2, <3>3, HoldsIs
        <2> QED
            BY <2>1, <2>2 DEF FastPathFresh
    <1> QED
        BY <1>2, <1>3, <1>4, <1>5 DEF CacheExact

\* Every cache, whatever its geometry and policy and whatever the calls, is the
\* textbook cache: its way lists are the reference order, its dirty blocks are
\* the unsaved writes, and its chains and its fast path find what they should.
THEOREM CacheRight == LevelSpec => []CacheExact
    <1>1. LevelOK /\ [LevelNext]_levelVars => LevelOK'
        BY NextOK
    <1> QED
        BY InitOK, OKExact, <1>1, PTL DEF LevelSpec

\* No call lets a block be ready before the miss it was still waiting for.
THEOREM ReadyRight == LevelSpec => ReplacedAfterReady
    <1>1. LevelOK /\ [LevelNext]_levelVars => LevelOK'
        BY NextOK
    <1>2. LevelOK /\ [LevelNext]_levelVars => [ReadyGrows]_levelVars
        BY NextOK
    <1> QED
        BY InitOK, <1>1, <1>2, PTL DEF LevelSpec, ReplacedAfterReady
=============================================================================
