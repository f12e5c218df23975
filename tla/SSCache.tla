------------------------------ MODULE SSCache -------------------------------
(***************************************************************************)
(* simplesim-3.0/cache.c, the cache of the SimpleScalar simulators: a tag  *)
(* store with way lists, hash chains in highly associative sets, the fast  *)
(* path for the block that hit last, and the latencies of outstanding      *)
(* misses and of the bus.                                                  *)
(*                                                                         *)
(* An address is a block number: offsets within a block do not matter to a *)
(* cache without data (balloc is FALSE in every simulator).  A cache is a  *)
(* record c, its geometry a record g.  blk_access_fn is the function a     *)
(* cache is created with, which reaches the next level: it returns what    *)
(* the next level becomes and the latency.                                 *)
(***************************************************************************)
EXTENDS Integers, Sequences, SequencesExt, FiniteSets

CONSTANT blk_access_fn(_, _, _, _)      \* next level, command, block, time

NULL == 0

CACHE_TAG(g, b) == b \div g.nsets
CACHE_SET(g, b) == b % g.nsets
CACHE_MK_BADDR(g, tag, set) == tag * g.nsets + set
CACHE_HASH(g, tag) == tag % g.hsize

\* Mutant: nothing is waited for.
NoWait(n) == 0

BOUND_POS(n) == IF n > 0 THEN n ELSE 0
Later(m, n) == IF m > n THEN m ELSE n

SetsOf(g) == 0..(g.nsets - 1)
Ways(g) == 1..g.assoc

\* All blocks invalid with tag zero, the one created last at the head.
cache_create(g) ==
    LET order == Reverse([i \in Ways(g) |-> i])
    IN  [way |-> [k \in SetsOf(g) |-> order],
         hash |-> [k \in SetsOf(g) |->
                     [h \in 0..(g.hsize - 1) |-> IF h = 0 THEN order ELSE <<>>]],
         blk |-> [k \in SetsOf(g) |->
                    [i \in Ways(g) |-> [tag |-> 0, valid |-> FALSE, dirty |-> FALSE, ready |-> 0]]],
         last_tagset |-> 0, last_blk |-> NULL, bus_free |-> 0,
         hits |-> 0, misses |-> 0, replacements |-> 0, writebacks |-> 0, invalidations |-> 0]
-----------------------------------------------------------------------------
\* Mutant: the block is taken out of the chain its new tag belongs to.
UnlinkNewTag(g, hash, tag, i) == [hash EXCEPT ![0] = Remove(@, i)]

\* The list w without its entry i.
Unlink(w, i) == RemoveAt(w, CHOOSE j \in DOMAIN w : w[j] = i)

unlink_htab_ent(g, hash, tag, i) == [hash EXCEPT ![CACHE_HASH(g, tag)] = Unlink(@, i)]
link_htab_ent(g, hash, tag, i) == [hash EXCEPT ![CACHE_HASH(g, tag)] = <<i>> \o @]

\* Mutant: the list is left alone.
LeaveList(w, i, where) == w

update_way_list(w, i, where) ==
    IF where = "Head" THEN <<i>> \o Unlink(w, i) ELSE Append(Unlink(w, i), i)

\* The search of the hash chain or of the way list: the first valid block with
\* the tag of b, or NULL.
Search(g, c, b) ==
    LET set == CACHE_SET(g, b)
        tag == CACHE_TAG(g, b)
        chain == IF g.hsize > 0 THEN c.hash[set][CACHE_HASH(g, tag)] ELSE c.way[set]
        found == {j \in DOMAIN chain : c.blk[set][chain[j]].tag = tag /\ c.blk[set][chain[j]].valid}
    IN  IF found = {} THEN NULL ELSE chain[CHOOSE j \in found : \A k \in found : j <= k]

cache_probe(g, c, b) == Search(g, c, b) # NULL

\* Mutant: a fast hit does not set the dirty bit.
FastHitClean(g, c, cmd, b, i, now, slow) ==
    [c |-> [c EXCEPT !.hits = @ + 1,
                     !.blk[CACHE_SET(g, b)][i].dirty = @ \/ (slow /\ cmd = "Write"),
                     !.last_tagset = b, !.last_blk = i],
     lat |-> g.hit_latency]

\* A hit on block i of set; the slow path also reorders an LRU list.
Hit(g, c, cmd, b, i, now, slow) ==
    LET set == CACHE_SET(g, b)
    IN  [c |-> [c EXCEPT
                  !.hits = @ + 1,
                  !.blk[set][i].dirty = @ \/ cmd = "Write",
                  !.way[set] = IF slow /\ g.policy = "LRU" THEN update_way_list(@, i, "Head") ELSE @,
                  !.last_tagset = b, !.last_blk = i],
         lat |-> Later(g.hit_latency, c.blk[set][i].ready - now)]

\* The victim: the tail of the list, or the block rnd that myrand picks.
Victim(g, c, set, rnd) == IF g.policy = "Random" THEN rnd ELSE Last(c.way[set])

\* Mutant: the fast path survives a replacement.
KeepLast(c) == c

\* The fast path is reset.
BlowAway(c) == [c EXCEPT !.last_tagset = 0, !.last_blk = NULL]

\* When a valid victim is ready and the bus is free.
Wait(c, old, now) ==
    BOUND_POS(old.ready - now) + BOUND_POS(c.bus_free - (now + BOUND_POS(old.ready - now)))

\* The victim's data, if dirty, goes to the next level lat cycles from now.
WriteOld(g, set, old, lat, now, next) ==
    IF old.dirty
    THEN LET written == blk_access_fn(next, "Write", CACHE_MK_BADDR(g, old.tag, set), now + lat)
         IN  [next |-> written.next, lat |-> written.lat + lat]
    ELSE [next |-> next, lat |-> lat]

\* What a valid victim costs: it waits for its own miss and for the bus, and a
\* dirty one is written to the next level.
EvictOld(g, c, set, old, lat, now, next) ==
    LET written == WriteOld(g, set, old, lat, now, next)
    IN  [c |-> [c EXCEPT !.replacements = @ + 1,
                         !.bus_free = Later(@, now + lat) + 1,
                         !.writebacks = IF old.dirty THEN @ + 1 ELSE @],
         lat |-> written.lat, next |-> written.next]

Evict(g, c, set, old, now, next) ==
    IF old.valid THEN EvictOld(g, c, set, old, Wait(c, old, now), now, next)
    ELSE [c |-> c, lat |-> 0, next |-> next]

\* Block i leaves its place in the lists of its set.
Take(g, c, set, i) ==
    BlowAway([c EXCEPT
        !.misses = @ + 1,
        !.way[set] = IF g.policy = "Random" THEN @ ELSE update_way_list(@, i, "Head"),
        !.hash[set] = IF g.hsize = 0 THEN @ ELSE unlink_htab_ent(g, @, c.blk[set][i].tag, i)])

\* It is given b, which the next level delivers with fill after e evicted its
\* old data.
Fill(g, cmd, b, i, now, e, fill) ==
    [c |-> [e.c EXCEPT
              !.blk[CACHE_SET(g, b)][i] = [tag |-> CACHE_TAG(g, b), valid |-> TRUE, dirty |-> cmd = "Write",
                                           ready |-> now + e.lat + fill.lat],
              !.hash[CACHE_SET(g, b)] = IF g.hsize = 0 THEN @ ELSE link_htab_ent(g, @, CACHE_TAG(g, b), i)],
     lat |-> e.lat + fill.lat, next |-> fill.next]

Refill(g, cmd, b, i, now, e) ==
    Fill(g, cmd, b, i, now, e, blk_access_fn(e.next, "Read", b, now + e.lat))

Miss(g, c, cmd, b, i, now, next) ==
    Refill(g, cmd, b, i, now,
           Evict(g, Take(g, c, CACHE_SET(g, b), i), CACHE_SET(g, b), c.blk[CACHE_SET(g, b)][i], now, next))

\* An access to the block of the fast path takes the block it names; when that
\* is NULL the program is at an end.
NullAccess(c, b) == c.last_tagset = b /\ c.last_blk = NULL

AccessBlock(g, c, cmd, b, i, now, rnd, next) ==
    IF i = NULL THEN Miss(g, c, cmd, b, Victim(g, c, CACHE_SET(g, b), rnd), now, next)
    ELSE LET hit == Hit(g, c, cmd, b, i, now, c.last_tagset # b)
         IN  [c |-> hit.c, lat |-> hit.lat, next |-> next]

cache_access(g, c, cmd, b, now, rnd, next) ==
    AccessBlock(g, c, cmd, b, IF c.last_tagset = b THEN c.last_blk ELSE Search(g, c, b), now, rnd, next)

\* One block is invalidated, and written back if it is dirty.
InvalidateOld(g, r, set, i, old, now) ==
    IF ~old.valid THEN r
    ELSE LET written == WriteOld(g, set, old, r.lat, now, r.next)
         IN  [c |-> [r.c EXCEPT !.invalidations = @ + 1, !.blk[set][i].valid = FALSE,
                                !.writebacks = IF old.dirty THEN @ + 1 ELSE @],
              lat |-> written.lat, next |-> written.next]
Invalidate(g, r, set, i, now) == InvalidateOld(g, r, set, i, r.c.blk[set][i], now)

\* Every set in turn, each in the order of its way list.
cache_flush(g, c, now, next) ==
    LET n == g.nsets * g.assoc
        run[k \in 0..n] ==
          IF k = 0 THEN [c |-> BlowAway(c), lat |-> g.hit_latency, next |-> next]
          ELSE LET set == (k - 1) \div g.assoc
               IN  Invalidate(g, run[k - 1], set, c.way[set][((k - 1) % g.assoc) + 1], now)
    IN  run[n]

FlushBlock(g, c, b, i, now, next) ==
    IF i = NULL THEN [c |-> c, lat |-> g.hit_latency, next |-> next]
    ELSE LET r == Invalidate(g, [c |-> BlowAway(c), lat |-> g.hit_latency, next |-> next], CACHE_SET(g, b), i, now)
         IN  [c |-> [r.c EXCEPT !.way[CACHE_SET(g, b)] = update_way_list(@, i, "Tail")], lat |-> r.lat, next |-> r.next]
cache_flush_addr(g, c, b, now, next) == FlushBlock(g, c, b, Search(g, c, b), now, next)
-----------------------------------------------------------------------------
\* Block i of set holds block number b.
Holds(g, c, set, i, b) ==
    c.blk[set][i].valid /\ CACHE_MK_BADDR(g, c.blk[set][i].tag, set) = b
Dirty(g, c) ==
    {CACHE_MK_BADDR(g, c.blk[x[1]][x[2]].tag, x[1]) :
        x \in {y \in SetsOf(g) \X Ways(g) : c.blk[y[1]][y[2]].valid /\ c.blk[y[1]][y[2]].dirty}}
=============================================================================
