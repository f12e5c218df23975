----------------------------- MODULE CacheLevel -----------------------------
(***************************************************************************)
(* One SSCache in front of memory, with any sequence of reads, writes,     *)
(* probes and flushes at increasing times.  ref and unsaved are history    *)
(* variables: the contents a textbook cache of the same policy would have, *)
(* and the blocks whose last write has not reached memory.                 *)
(***************************************************************************)
EXTENDS Integers, Sequences, SequencesExt, FiniteSets

CONSTANTS
    Geometries,     \* the caches considered, each with bounds: max_time, where the
                    \* clock stops, max_accesses, and the blocks accessed
    MemLat          \* latency of the next level

ASSUME CacheLevelAssumption ==
    /\ MemLat \in Nat \ {0}
    /\ \A x \in Geometries :
         /\ {x.nsets, x.assoc, x.hit_latency} \subseteq Nat \ {0} /\ x.hsize \in Nat
         /\ x.policy \in {"LRU", "FIFO", "Random"} /\ x.blocks \subseteq Nat

VARIABLES g, c, unsaved, now, ref, crashed

levelVars == <<g, c, unsaved, now, ref, crashed>>

\* The next level: a write makes memory hold the block.
Memory(next, cmd, b, t) ==
    [next |-> IF cmd = "Write" THEN next \ {b} ELSE next, lat |-> MemLat]

INSTANCE SSCache WITH blk_access_fn <- Memory

\* A textbook set: the newest block first, no more than assoc of them.
RefAccess(x, s, b) ==
    IF Contains(s, b) THEN IF x.policy = "LRU" THEN <<b>> \o Unlink(s, b) ELSE s
    ELSE <<b>> \o (IF Len(s) = x.assoc THEN Front(s) ELSE s)

LevelInit ==
    /\ g \in Geometries /\ c = cache_create(g) /\ unsaved = {} /\ now = 0
    /\ ref = [k \in SetsOf(g) |-> <<>>] /\ crashed = FALSE

\* Time passes between calls.
Tick == now < g.max_time /\ now' = now + 1 /\ UNCHANGED <<g, c, unsaved, ref, crashed>>

Access(cmd, b, rnd) ==
    /\ ~crashed /\ c.hits + c.misses < g.max_accesses
    /\ ~NullAccess(c, b)
    /\ LET r == cache_access(g, c, cmd, b, now, rnd, unsaved)
       IN  /\ c' = r.c
           /\ unsaved' = IF cmd = "Write" THEN r.next \cup {b} ELSE r.next
    /\ ref' = [ref EXCEPT ![CACHE_SET(g, b)] = RefAccess(g, @, b)]
    /\ UNCHANGED <<g, now, crashed>>

\* The fast path dereferences a null pointer.
AccessNull(cmd, b) ==
    /\ ~crashed /\ c.hits + c.misses < g.max_accesses
    /\ NullAccess(c, b)
    /\ crashed' = TRUE
    /\ UNCHANGED <<g, c, unsaved, now, ref>>

Flush ==
    /\ ~crashed
    /\ LET r == cache_flush(g, c, now, unsaved)
       IN  c' = r.c /\ unsaved' = r.next
    /\ ref' = [k \in SetsOf(g) |-> <<>>]
    /\ UNCHANGED <<g, now, crashed>>

FlushAddr(b) ==
    /\ ~crashed
    /\ LET r == cache_flush_addr(g, c, b, now, unsaved)
       IN  c' = r.c /\ unsaved' = r.next
    /\ ref' = [ref EXCEPT ![CACHE_SET(g, b)] = IF Contains(@, b) THEN Unlink(@, b) ELSE @]
    /\ UNCHANGED <<g, now, crashed>>

\* myrand matters to random replacement only.
Picks == IF g.policy = "Random" THEN Ways(g) ELSE {1}

LevelNext ==
    \/ Tick
    \/ \E cmd \in {"Read", "Write"}, b \in g.blocks, rnd \in Picks : Access(cmd, b, rnd)
    \/ \E cmd \in {"Read", "Write"}, b \in g.blocks : AccessNull(cmd, b)
    \/ Flush
    \/ \E b \in g.blocks : FlushAddr(b)

LevelSpec == LevelInit /\ [][LevelNext]_levelVars
-----------------------------------------------------------------------------
\* For LRU and FIFO the valid blocks of a set, in the order of the way list,
\* are those of the textbook cache and the invalid ones come last: fast hits,
\* flushes and the unlinking of list entries never disturb the order, and an
\* invalid block is always replaced before a valid one.
PolicyExact ==
    g.policy # "Random" =>
      \A k \in SetsOf(g) :
        LET w == c.way[k] IN
        /\ Len(ref[k]) <= Len(w) /\ ToSet(w) = Ways(g)
        /\ \A j \in DOMAIN w :
             IF j <= Len(ref[k]) THEN Holds(g, c, k, w[j], ref[k][j]) ELSE ~c.blk[k][w[j]].valid

\* The dirty blocks are exactly those memory is missing the last write of: no
\* replacement or flush drops a write, and none is written back twice.
NoLostWrite == Dirty(g, c) = unsaved

\* A block is on exactly one hash chain of its set, that of its tag, so that
\* the next search and the next unlinking find it.
HashExact ==
    g.hsize > 0 =>
      \A k \in SetsOf(g), i \in Ways(g), h \in 0..(g.hsize - 1) :
        Cardinality({j \in DOMAIN c.hash[k][h] : c.hash[k][h][j] = i})
            = IF h = CACHE_HASH(g, c.blk[k][i].tag) THEN 1 ELSE 0

\* No block is cached twice, and the fast path names a block that holds what
\* it says.
FastPathFresh ==
    /\ \A k \in SetsOf(g), i, j \in Ways(g) :
          c.blk[k][i].valid /\ c.blk[k][j].valid /\ c.blk[k][i].tag = c.blk[k][j].tag => i = j
    /\ c.last_blk # NULL =>
          Holds(g, c, CACHE_SET(g, c.last_tagset), c.last_blk, c.last_tagset)

\* A cache level is the textbook cache: the way list of LRU and FIFO is the
\* reference order, its dirty blocks are those memory misses the last write of,
\* a block is on the one hash chain of its tag and cached once, and the fast
\* path names the block it says.
CacheExact == PolicyExact /\ NoLostWrite /\ HashExact /\ FastPathFresh

\* A block that is replaced becomes ready no earlier than the miss it was
\* still waiting for.
ReadyGrows ==
    \A k \in SetsOf(g), i \in Ways(g) :
        c.blk[k][i].valid /\ c'.blk[k][i].valid => c'.blk[k][i].ready >= c.blk[k][i].ready
ReplacedAfterReady == [][ReadyGrows]_levelVars
=============================================================================
